------------------------- MODULE EventDeliveryProofs -------------------------
(* Theorems about EventDelivery, for any sidecars, addresses, events, clients,  *)
(* capacities and bounds.                                                       *)
EXTENDS EventDelivery, TLAPS

-----------------------------------------------------------------------------
(* The types of the router's variables, one lemma per operation of the router.  *)

(* Requests, outputs and arrivals are records of their kind.                    *)
LEMMA LinkRequestType ==
    ASSUME NEW type \in LinkTypes, NEW a \in Addrs
    PROVE  [type |-> type, addr |-> a, ev |-> None] \in Request
BY DEF Request, LinkRequest

LEMMA EventRequestType ==
    ASSUME NEW e \in Events
    PROVE  [type |-> "EVENT", addr |-> AddrOf[e], ev |-> e] \in Request
BY DEF Request, EventRequest

(* What is known of a request taken from the queue.                             *)
LEMMA RequestFields ==
    ASSUME NEW r \in Request
    PROVE  /\ r.addr \in Addrs
           /\ r.type \in LinkTypes => r = [type |-> r.type, addr |-> r.addr, ev |-> None]
           /\ r.type = "EVENT" => r.ev \in Events /\ r.addr = AddrOf[r.ev]
           /\ r.type \in LinkTypes \cup {"EVENT"}
<1>1. CASE r \in LinkRequest
  BY <1>1 DEF LinkRequest, LinkTypes
<1>2. CASE r \in EventRequest
  BY <1>2, RouterAssumption DEF EventRequest, LinkTypes
<1>. QED
  BY <1>1, <1>2 DEF Request

LEMMA EnqueueType ==
    ASSUME RouterTypeOK, NEW s \in Sidecars, NEW r \in Request, Enqueue(s, r)
    PROVE  /\ dataIn' \in [Sidecars -> Seq(Request)]
           /\ \A t \in Sidecars : Len(dataIn'[t]) <= InCap
           /\ \A t \in Sidecars : dataIn'[t] = IF t = s THEN Append(dataIn[s], r) ELSE dataIn[t]
<1>1. dataIn \in [Sidecars -> Seq(Request)] /\ \A t \in Sidecars : Len(dataIn[t]) <= InCap
  BY DEF RouterTypeOK
<1>2. dataIn' = [dataIn EXCEPT ![s] = Append(dataIn[s], r)] /\ Len(dataIn[s]) < InCap
  BY DEF Enqueue
<1>3. \A t \in Sidecars : dataIn'[t] = IF t = s THEN Append(dataIn[s], r) ELSE dataIn[t]
  BY <1>1, <1>2
<1>4. dataIn[s] \in Seq(Request) /\ Append(dataIn[s], r) \in Seq(Request)
      /\ Len(Append(dataIn[s], r)) = Len(dataIn[s]) + 1
  BY <1>1
<1>5. Len(Append(dataIn[s], r)) <= InCap
  BY <1>1, <1>2, <1>4, RouterAssumption
<1>. QED
  BY <1>1, <1>2, <1>3, <1>4, <1>5

LEMMA TakeRequestType ==
    ASSUME RouterTypeOK, NEW s \in Sidecars, NEW types, TakeRequest(s, types)
    PROVE  /\ Head(dataIn[s]) \in Request
           /\ Head(dataIn[s]).type \in types
           /\ dataIn' \in [Sidecars -> Seq(Request)]
           /\ \A t \in Sidecars : Len(dataIn'[t]) <= InCap
           /\ \A t \in Sidecars : dataIn'[t] = IF t = s THEN Tail(dataIn[s]) ELSE dataIn[t]
<1>1. dataIn \in [Sidecars -> Seq(Request)] /\ \A t \in Sidecars : Len(dataIn[t]) <= InCap
  BY DEF RouterTypeOK
<1>2. dataIn' = [dataIn EXCEPT ![s] = Tail(dataIn[s])] /\ dataIn[s] # <<>>
      /\ Head(dataIn[s]).type \in types
  BY DEF TakeRequest
<1>3. \A t \in Sidecars : dataIn'[t] = IF t = s THEN Tail(dataIn[s]) ELSE dataIn[t]
  BY <1>1, <1>2
<1>4. /\ Head(dataIn[s]) \in Request /\ Tail(dataIn[s]) \in Seq(Request)
      /\ Len(Tail(dataIn[s])) = Len(dataIn[s]) - 1 /\ Len(dataIn[s]) \in Nat
  BY <1>1, <1>2
<1>5. Len(Tail(dataIn[s])) <= InCap
  BY <1>1, <1>4, RouterAssumption
<1>. QED
  BY <1>1, <1>2, <1>3, <1>4, <1>5

LEMMA PutType ==
    ASSUME RouterTypeOK, NEW s \in Sidecars, NEW out \in Output, PutOnDataOut(s, out)
    PROVE  /\ dataOut' \in [Sidecars -> Seq(Output)]
           /\ \A t \in Sidecars : Len(dataOut'[t]) <= OutCap
           /\ \A t \in Sidecars : dataOut'[t] = IF t = s THEN Append(dataOut[s], out) ELSE dataOut[t]
<1>1. dataOut \in [Sidecars -> Seq(Output)] /\ \A t \in Sidecars : Len(dataOut[t]) <= OutCap
  BY DEF RouterTypeOK
<1>2. dataOut' = [dataOut EXCEPT ![s] = Append(dataOut[s], out)] /\ Len(dataOut[s]) < OutCap
  BY DEF PutOnDataOut
<1>3. \A t \in Sidecars : dataOut'[t] = IF t = s THEN Append(dataOut[s], out) ELSE dataOut[t]
  BY <1>1, <1>2
<1>4. dataOut[s] \in Seq(Output) /\ Append(dataOut[s], out) \in Seq(Output)
      /\ Len(Append(dataOut[s], out)) = Len(dataOut[s]) + 1
  BY <1>1
<1>5. Len(Append(dataOut[s], out)) <= OutCap
  BY <1>1, <1>2, <1>4, RouterAssumption
<1>. QED
  BY <1>1, <1>2, <1>3, <1>4, <1>5

LEMMA TakeOutputType ==
    ASSUME RouterTypeOK, NEW s \in Sidecars, TakeOutput(s)
    PROVE  /\ Head(dataOut[s]) \in Output
           /\ dataOut' \in [Sidecars -> Seq(Output)]
           /\ \A t \in Sidecars : Len(dataOut'[t]) <= OutCap
           /\ \A t \in Sidecars : dataOut'[t] = IF t = s THEN Tail(dataOut[s]) ELSE dataOut[t]
<1>1. dataOut \in [Sidecars -> Seq(Output)] /\ \A t \in Sidecars : Len(dataOut[t]) <= OutCap
  BY DEF RouterTypeOK
<1>2. dataOut' = [dataOut EXCEPT ![s] = Tail(dataOut[s])] /\ dataOut[s] # <<>>
  BY DEF TakeOutput
<1>3. \A t \in Sidecars : dataOut'[t] = IF t = s THEN Tail(dataOut[s]) ELSE dataOut[t]
  BY <1>1, <1>2
<1>4. /\ Head(dataOut[s]) \in Output /\ Tail(dataOut[s]) \in Seq(Output)
      /\ Len(Tail(dataOut[s])) = Len(dataOut[s]) - 1 /\ Len(dataOut[s]) \in Nat
  BY <1>1, <1>2
<1>5. Len(Tail(dataOut[s])) <= OutCap
  BY <1>1, <1>4, RouterAssumption
<1>. QED
  BY <1>1, <1>2, <1>3, <1>4, <1>5

LEMMA AskLinkTyped ==
    ASSUME RouterTypeOK, NEW s \in Sidecars, NEW type \in LinkTypes, NEW a \in Addrs,
           AskLink(s, type, a)
    PROVE  RouterTypeOK'
<1>. DEFINE r == [type |-> type, addr |-> a, ev |-> None]
<1>1. r \in Request /\ Enqueue(s, r)
  BY LinkRequestType DEF AskLink
<1>2. /\ dataIn' \in [Sidecars -> Seq(Request)]
      /\ \A t \in Sidecars : Len(dataIn'[t]) <= InCap
  BY <1>1, EnqueueType
<1>. QED
  BY <1>2 DEF AskLink, RouterTypeOK

LEMMA AdvanceTyped ==
    ASSUME RouterTypeOK, NEW e \in Events, NEW step \in Progress, Advance(e, step)
    PROVE  /\ sending' \in [Events -> Progress]
           /\ \A f \in Events : sending'[f] = IF f = e THEN step ELSE sending[f]
BY DEF RouterTypeOK, Advance

LEMMA AskSendTyped ==
    ASSUME RouterTypeOK, NEW e \in Events, AskSend(e)
    PROVE  RouterTypeOK'
<1>. DEFINE r == [type |-> "EVENT", addr |-> AddrOf[e], ev |-> e]
<1>1. r \in Request /\ Enqueue(SentBy[e], r) /\ SentBy[e] \in Sidecars
  BY EventRequestType, RouterAssumption DEF AskSend
<1>2. /\ dataIn' \in [Sidecars -> Seq(Request)]
      /\ \A t \in Sidecars : Len(dataIn'[t]) <= InCap
  BY <1>1, EnqueueType
<1>3. sending' \in [Events -> Progress]
  BY AdvanceTyped DEF AskSend, Progress
<1>. QED
  BY <1>2, <1>3 DEF AskSend, RouterTypeOK

\* A receiver more: the places of those there are stay.
LEMMA StartReceiverTyped ==
    ASSUME RouterTypeOK, NEW s \in Sidecars, NEW a \in Addrs, NEW callback \in Callback,
           StartReceiver(s, a, callback)
    PROVE  /\ listeners' \in [Sidecars -> [Addrs -> Seq(Callback \cup {"ENDED"})]]
           /\ \A t \in Sidecars, b \in Addrs :
                 listeners'[t][b] = IF t = s /\ b = a THEN Append(listeners[s][a], callback)
                                                     ELSE listeners[t][b]
           /\ \A t \in Sidecars, b \in Addrs : DOMAIN listeners[t][b] \subseteq DOMAIN listeners'[t][b]
<1>1. listeners \in [Sidecars -> [Addrs -> Seq(Callback \cup {"ENDED"})]]
  BY DEF RouterTypeOK
<1>2. listeners' = [listeners EXCEPT ![s] = [listeners[s] EXCEPT ![a] = Append(listeners[s][a], callback)]]
  BY <1>1 DEF StartReceiver
<1>3. /\ listeners[s][a] \in Seq(Callback \cup {"ENDED"})
      /\ Append(listeners[s][a], callback) \in Seq(Callback \cup {"ENDED"})
      /\ DOMAIN listeners[s][a] \subseteq DOMAIN Append(listeners[s][a], callback)
  BY <1>1
<1>4. [listeners[s] EXCEPT ![a] = Append(listeners[s][a], callback)] \in [Addrs -> Seq(Callback \cup {"ENDED"})]
  BY <1>1, <1>3
<1>5. \A t \in Sidecars, b \in Addrs :
          listeners'[t][b] = IF t = s /\ b = a THEN Append(listeners[s][a], callback)
                                              ELSE listeners[t][b]
  BY <1>1, <1>2
<1>. QED
  BY <1>1, <1>2, <1>3, <1>4, <1>5

LEMMA RefuseTyped ==
    ASSUME RouterTypeOK, NEW s \in Sidecars, NEW r \in Request, r.type \in LinkTypes, Refuse(s, r)
    PROVE  refused' \subseteq Sidecars \X LinkTypes \X Addrs
BY RequestFields DEF Refuse, RouterTypeOK

LEMMA ListenersTyped ==
    ASSUME RouterTypeOK, UNCHANGED arrived,
           listeners' \in [Sidecars -> [Addrs -> Seq(Callback \cup {"ENDED"})]],
           \A t \in Sidecars, b \in Addrs : DOMAIN listeners[t][b] \subseteq DOMAIN listeners'[t][b]
    PROVE  \A c \in arrived' : c.no \in DOMAIN listeners'[c.at][AddrOf[c.ev]]
BY RouterAssumption DEF RouterTypeOK, Arrival

LEMMA TakeConsumerTyped ==
    ASSUME RouterTypeOK, NEW s \in Sidecars, TakeConsumer(s)
    PROVE  RouterTypeOK'
<1>. DEFINE r == Head(dataIn[s])
<1>1. /\ r \in Request /\ r.type = "CONSUMER" /\ r.type \in LinkTypes /\ r.addr \in Addrs
      /\ dataIn' \in [Sidecars -> Seq(Request)]
      /\ \A t \in Sidecars : Len(dataIn'[t]) <= InCap
  BY TakeRequestType, RequestFields DEF TakeConsumer, LinkTypes
<1>2. UNCHANGED <<senders, sending, arrived, dataOut>>
  BY DEF TakeConsumer
<1>3. CASE UNCHANGED <<listeners, refused>>
  BY <1>1, <1>2, <1>3 DEF RouterTypeOK
<1>4. CASE StartReceiver(s, r.addr, "EVENT") /\ UNCHANGED refused
  <2>1. /\ listeners' \in [Sidecars -> [Addrs -> Seq(Callback \cup {"ENDED"})]]
        /\ \A t \in Sidecars, b \in Addrs : DOMAIN listeners[t][b] \subseteq DOMAIN listeners'[t][b]
    BY <1>1, <1>4, StartReceiverTyped DEF Callback
  <2>2. \A c \in arrived' : c.no \in DOMAIN listeners'[c.at][AddrOf[c.ev]]
    BY <1>2, <2>1, ListenersTyped
  <2>. QED
    BY <1>1, <1>2, <1>4, <2>1, <2>2 DEF RouterTypeOK
<1>5. CASE Refuse(s, r) /\ UNCHANGED listeners
  <2>1. refused' \subseteq Sidecars \X LinkTypes \X Addrs
    BY <1>1, <1>5, RefuseTyped
  <2>. QED
    BY <1>1, <1>2, <1>5, <2>1 DEF RouterTypeOK
<1>. QED
  BY <1>3, <1>4, <1>5 DEF TakeConsumer

LEMMA TakeStatusRequestTyped ==
    ASSUME RouterTypeOK, NEW s \in Sidecars, TakeStatusRequest(s)
    PROVE  RouterTypeOK'
<1>. DEFINE r == Head(dataIn[s])
<1>1. /\ r \in Request /\ r.type = "STATUS" /\ r.type \in LinkTypes /\ r.addr \in Addrs
      /\ dataIn' \in [Sidecars -> Seq(Request)]
      /\ \A t \in Sidecars : Len(dataIn'[t]) <= InCap
  BY TakeRequestType, RequestFields DEF TakeStatusRequest, LinkTypes
<1>2. UNCHANGED <<senders, sending, arrived, dataOut>>
  BY DEF TakeStatusRequest
<1>3. CASE UNCHANGED <<listeners, refused>>
  BY <1>1, <1>2, <1>3 DEF RouterTypeOK
<1>4. CASE StartReceiver(s, r.addr, "STATUS") /\ UNCHANGED refused
  <2>1. /\ listeners' \in [Sidecars -> [Addrs -> Seq(Callback \cup {"ENDED"})]]
        /\ \A t \in Sidecars, b \in Addrs : DOMAIN listeners[t][b] \subseteq DOMAIN listeners'[t][b]
    BY <1>1, <1>4, StartReceiverTyped DEF Callback
  <2>2. \A c \in arrived' : c.no \in DOMAIN listeners'[c.at][AddrOf[c.ev]]
    BY <1>2, <2>1, ListenersTyped
  <2>. QED
    BY <1>1, <1>2, <1>4, <2>1, <2>2 DEF RouterTypeOK
<1>5. CASE Refuse(s, r) /\ UNCHANGED listeners
  <2>1. refused' \subseteq Sidecars \X LinkTypes \X Addrs
    BY <1>1, <1>5, RefuseTyped
  <2>. QED
    BY <1>1, <1>2, <1>5, <2>1 DEF RouterTypeOK
<1>. QED
  BY <1>3, <1>4, <1>5 DEF TakeStatusRequest

LEMMA TakeProducerTyped ==
    ASSUME RouterTypeOK, NEW s \in Sidecars, TakeProducer(s)
    PROVE  RouterTypeOK'
<1>. DEFINE r == Head(dataIn[s])
<1>1. /\ r \in Request /\ r.type = "PRODUCER" /\ r.type \in LinkTypes /\ r.addr \in Addrs
      /\ dataIn' \in [Sidecars -> Seq(Request)]
      /\ \A t \in Sidecars : Len(dataIn'[t]) <= InCap
  BY TakeRequestType, RequestFields DEF TakeProducer, LinkTypes
<1>2. UNCHANGED <<listeners, sending, arrived, dataOut>>
  BY DEF TakeProducer
<1>3. CASE senders' = [senders EXCEPT ![s] = senders[s] \cup {r.addr}] /\ UNCHANGED refused
  <2>1. senders' \in [Sidecars -> SUBSET Addrs]
    BY <1>1, <1>3 DEF RouterTypeOK
  <2>. QED
    BY <1>1, <1>2, <1>3, <2>1 DEF RouterTypeOK
<1>4. CASE Refuse(s, r) /\ UNCHANGED senders
  <2>1. refused' \subseteq Sidecars \X LinkTypes \X Addrs
    BY <1>1, <1>4, RefuseTyped
  <2>. QED
    BY <1>1, <1>2, <1>4, <2>1 DEF RouterTypeOK
<1>. QED
  BY <1>3, <1>4 DEF TakeProducer

LEMMA TakeEventTyped ==
    ASSUME RouterTypeOK, NEW s \in Sidecars, TakeEvent(s)
    PROVE  RouterTypeOK'
<1>. DEFINE r == Head(dataIn[s])
<1>1. /\ r \in Request /\ r.ev \in Events
      /\ dataIn' \in [Sidecars -> Seq(Request)]
      /\ \A t \in Sidecars : Len(dataIn'[t]) <= InCap
  BY TakeRequestType, RequestFields DEF TakeEvent
<1>2. sending' \in [Events -> Progress]
  BY <1>1, AdvanceTyped DEF TakeEvent, Progress
<1>. QED
  BY <1>1, <1>2 DEF TakeEvent, RouterTypeOK

LEMMA TransmitTyped ==
    ASSUME RouterTypeOK, NEW e \in Events, NEW body \in Body, Transmit(e, body)
    PROVE  RouterTypeOK'
<1>1. PICK R \in SUBSET ReceiversOf(e) :
          arrived' = arrived \cup
            {[at |-> r[1], no |-> r[2], as |-> listeners[r[1]][AddrOf[e]][r[2]],
              ev |-> e, body |-> body] : r \in R}
  BY DEF Transmit
<1>2. ASSUME NEW r \in R
      PROVE  /\ r[1] \in Sidecars
             /\ r[2] \in Nat
             /\ r[2] \in DOMAIN listeners[r[1]][AddrOf[e]]
             /\ listeners[r[1]][AddrOf[e]][r[2]] \in Callback
  <2>1. PICK s \in Sidecars : r \in {<<s, n>> : n \in {k \in DOMAIN listeners[s][AddrOf[e]] :
                                listeners[s][AddrOf[e]][k] # "ENDED"}}
    BY <1>2 DEF ReceiversOf
  <2>2. PICK n \in DOMAIN listeners[s][AddrOf[e]] :
            r = <<s, n>> /\ listeners[s][AddrOf[e]][n] # "ENDED"
    BY <2>1
  <2>3. listeners[s][AddrOf[e]] \in Seq(Callback \cup {"ENDED"})
    BY RouterAssumption DEF RouterTypeOK
  <2>. QED
    BY <2>2, <2>3
<1>3. \A c \in arrived' : c \in Arrival /\ c.no \in DOMAIN listeners[c.at][AddrOf[c.ev]]
  <2>. SUFFICES ASSUME NEW c \in arrived', c \notin arrived
                PROVE  c \in Arrival /\ c.no \in DOMAIN listeners[c.at][AddrOf[c.ev]]
    BY DEF RouterTypeOK
  <2>1. PICK r \in R : c = [at |-> r[1], no |-> r[2], as |-> listeners[r[1]][AddrOf[e]][r[2]],
                            ev |-> e, body |-> body]
    BY <1>1
  <2>. QED
    BY <1>2, <2>1 DEF Arrival
<1>4. sending' \in [Events -> Progress]
  BY AdvanceTyped DEF Transmit, Progress
<1>5. UNCHANGED <<dataIn, senders, listeners, dataOut, refused>>
  BY DEF Transmit
<1>. QED
  BY <1>3, <1>4, <1>5 DEF RouterTypeOK

LEMMA AnsweredTyped ==
    ASSUME RouterTypeOK, NEW e \in Events, Accepted(e) \/ Undelivered(e) \/ Rejected(e)
    PROVE  RouterTypeOK'
<1>1. sending' \in [Events -> Progress]
  BY AdvanceTyped DEF Accepted, Undelivered, Rejected, Progress
<1>2. UNCHANGED <<dataIn, senders, listeners, arrived, dataOut, refused>>
  BY DEF Accepted, Undelivered, Rejected
<1>. QED
  BY <1>1, <1>2 DEF RouterTypeOK

LEMMA ReportTyped ==
    ASSUME RouterTypeOK, NEW e \in Events, Report(e)
    PROVE  RouterTypeOK'
<1>. DEFINE out == [type |-> "PRODUCER", addr |-> AddrOf[e], ev |-> e, body |-> e,
                    status |-> IF sending[e] = "undelivered" THEN "FAILED" ELSE "SUCCEED"]
<1>1. out \in Output /\ PutOnDataOut(SentBy[e], out) /\ SentBy[e] \in Sidecars
  BY RouterAssumption DEF Report, Output, Body
<1>2. /\ dataOut' \in [Sidecars -> Seq(Output)]
      /\ \A t \in Sidecars : Len(dataOut'[t]) <= OutCap
  BY <1>1, PutType
<1>3. sending' \in [Events -> Progress]
  BY AdvanceTyped DEF Report, Progress
<1>. QED
  BY <1>2, <1>3 DEF Report, RouterTypeOK

LEMMA PutOutTyped ==
    ASSUME RouterTypeOK, NEW c, PutOut(c)
    PROVE  RouterTypeOK'
<1>. DEFINE out == [type |-> c.as, addr |-> AddrOf[c.ev], ev |-> c.ev, body |-> c.body,
                    status |-> "NEW"]
<1>1. c \in Arrival /\ arrived' \subseteq arrived
  BY DEF PutOut, RouterTypeOK
<1>2. out \in Output /\ PutOnDataOut(c.at, out) /\ c.at \in Sidecars
  BY <1>1, RouterAssumption DEF PutOut, Output, Arrival, Callback
<1>3. /\ dataOut' \in [Sidecars -> Seq(Output)]
      /\ \A t \in Sidecars : Len(dataOut'[t]) <= OutCap
  BY <1>2, PutType
<1>. QED
  BY <1>1, <1>3 DEF PutOut, RouterTypeOK

\* A receiver less: its place stays.
LEMMA BreakReceiverTyped ==
    ASSUME RouterTypeOK, NEW s \in Sidecars, NEW a \in Addrs, NEW n, BreakReceiver(s, a, n)
    PROVE  RouterTypeOK'
<1>1. listeners \in [Sidecars -> [Addrs -> Seq(Callback \cup {"ENDED"})]]
  BY DEF RouterTypeOK
<1>2. listeners' = [listeners EXCEPT ![s] = [listeners[s] EXCEPT ![a] =
                        [listeners[s][a] EXCEPT ![n] = "ENDED"]]]
  BY <1>1 DEF BreakReceiver
<1>3. /\ [listeners[s][a] EXCEPT ![n] = "ENDED"] \in Seq(Callback \cup {"ENDED"})
      /\ DOMAIN [listeners[s][a] EXCEPT ![n] = "ENDED"] = DOMAIN listeners[s][a]
  <2>. DEFINE q == listeners[s][a]
  <2>1. q \in Seq(Callback \cup {"ENDED"})
    BY <1>1
  <2>2. q \in [1 .. Len(q) -> Callback \cup {"ENDED"}] /\ Len(q) \in Nat
    BY <2>1
  <2>. HIDE DEF q
  <2>3. [q EXCEPT ![n] = "ENDED"] \in [1 .. Len(q) -> Callback \cup {"ENDED"}]
    BY <2>2
  <2>4. [q EXCEPT ![n] = "ENDED"] \in Seq(Callback \cup {"ENDED"})
    BY <2>2, <2>3
  <2>. QED
    BY <2>4 DEF q
<1>4. [listeners[s] EXCEPT ![a] = [listeners[s][a] EXCEPT ![n] = "ENDED"]]
          \in [Addrs -> Seq(Callback \cup {"ENDED"})]
  BY <1>1, <1>3
<1>5. /\ listeners' \in [Sidecars -> [Addrs -> Seq(Callback \cup {"ENDED"})]]
      /\ \A t \in Sidecars, b \in Addrs : DOMAIN listeners[t][b] \subseteq DOMAIN listeners'[t][b]
  BY <1>1, <1>2, <1>3, <1>4
<1>6. UNCHANGED <<dataIn, senders, sending, arrived, dataOut, refused>>
  BY DEF BreakReceiver
<1>7. \A c \in arrived' : c.no \in DOMAIN listeners'[c.at][AddrOf[c.ev]]
  BY <1>5, <1>6, ListenersTyped
<1>. QED
  BY <1>5, <1>6, <1>7 DEF RouterTypeOK

LEMMA TakeOutputTyped ==
    ASSUME RouterTypeOK, NEW s \in Sidecars, TakeOutput(s)
    PROVE  RouterTypeOK'
<1>1. /\ dataOut' \in [Sidecars -> Seq(Output)]
      /\ \A t \in Sidecars : Len(dataOut'[t]) <= OutCap
  BY TakeOutputType
<1>. QED
  BY <1>1 DEF TakeOutput, RouterTypeOK

LEMMA DieTyped ==
    ASSUME RouterTypeOK, NEW s \in Sidecars, Die(s)
    PROVE  RouterTypeOK'
<1>1. dataIn' \in [Sidecars -> Seq(Request)] /\ dataOut' \in [Sidecars -> Seq(Output)]
  BY DEF RouterTypeOK, Die
<1>2. \A t \in Sidecars : Len(dataIn'[t]) <= InCap /\ Len(dataOut'[t]) <= OutCap
  <2>. TAKE t \in Sidecars
  <2>1. dataIn'[t] = (IF t = s THEN <<>> ELSE dataIn[t]) /\ dataOut'[t] = (IF t = s THEN <<>> ELSE dataOut[t])
    BY DEF RouterTypeOK, Die
  <2>2. Len(dataIn[t]) <= InCap /\ Len(dataOut[t]) <= OutCap
    BY DEF RouterTypeOK
  <2>. QED
    BY <2>1, <2>2, RouterAssumption
<1>3. senders' \in [Sidecars -> SUBSET Addrs]
  BY DEF RouterTypeOK, Die
<1>4. [a \in Addrs |-> <<>>] \in [Addrs -> Seq(Callback \cup {"ENDED"})]
  OBVIOUS
<1>5. listeners' = [listeners EXCEPT ![s] = [a \in Addrs |-> <<>>]]
  BY DEF Die
<1>6. listeners' \in [Sidecars -> [Addrs -> Seq(Callback \cup {"ENDED"})]]
  BY <1>4, <1>5 DEF RouterTypeOK
<1>7. sending' \in [Events -> Progress]
  BY DEF RouterTypeOK, Die, Progress
<1>8. \A c \in arrived' : c \in Arrival /\ c.no \in DOMAIN listeners'[c.at][AddrOf[c.ev]]
  <2>. TAKE c \in arrived'
  <2>1. c \in arrived /\ c.at # s
    BY DEF Die
  <2>2. c \in Arrival /\ c.no \in DOMAIN listeners[c.at][AddrOf[c.ev]]
    BY <2>1 DEF RouterTypeOK
  <2>3. listeners'[c.at] = listeners[c.at]
    BY <1>5, <2>1, <2>2 DEF RouterTypeOK, Arrival
  <2>. QED
    BY <2>2, <2>3
<1>9. refused' \subseteq Sidecars \X LinkTypes \X Addrs
  BY DEF RouterTypeOK, Die
<1>. QED
  BY <1>1, <1>2, <1>3, <1>6, <1>7, <1>8, <1>9 DEF RouterTypeOK

-----------------------------------------------------------------------------
(* The type invariant                                                           *)

LEMMA ClientParts ==
    ASSUME NEW r \in Clients
    PROVE  /\ r[1] \in Sidecars
           /\ r[2] \in LinkTypes
           /\ r[3] \in Addrs
           /\ r = <<r[1], r[2], r[3]>>
BY DeliveryAssumption

\* What the main loop makes of what it takes is a piece of work, or nothing.
LEMMA WorkForType ==
    ASSUME NEW s \in Sidecars, NEW out \in Output
    PROVE  WorkFor(s, out) \in Work \cup {None}
<1>1. [ev |-> out.ev, body |-> out.body] \in Parcel
  BY DEF Output, Parcel
<1>. QED
  BY <1>1 DEF WorkFor, Work

LEMMA CarriedType ==
    ASSUME TypeOK, NEW e \in Events
    PROVE  Carried(e) \subseteq Body
BY RouterAssumption DEF TypeOK, Carried, Body

LEMMA RestServerTyped ==
    ASSUME TypeOK, NEW r \in Clients, Register(r) \/ SendOut(r) \/ AskStatus(r)
    PROVE  TypeOK'
<1>0. RouterTypeOK /\ r[1] \in Sidecars /\ r[2] \in LinkTypes /\ r[3] \in Addrs
  BY ClientParts DEF TypeOK
<1>1. CASE Register(r)
  <2>1. UNCHANGED routerVars
    BY <1>1 DEF Register
  <2>2. RouterTypeOK'
    BY <1>0, <2>1 DEF RouterTypeOK, routerVars
  <2>3. asks' \in 0 .. MaxAsks
    BY <1>1, DeliveryAssumption DEF Register, TypeOK
  <2>. QED
    BY <1>1, <2>2, <2>3 DEF Register, TypeOK
<1>2. CASE SendOut(r)
  <2>1. RouterTypeOK'
    BY <1>0, <1>2, AskLinkTyped DEF SendOut
  <2>. QED
    BY <1>2, <2>1 DEF SendOut, TypeOK, historyVars, boundVars
<1>3. CASE AskStatus(r)
  <2>1. RouterTypeOK'
    BY <1>0, <1>3, AskLinkTyped DEF AskStatus
  <2>. QED
    BY <1>3, <2>1 DEF AskStatus, TypeOK, historyVars, boundVars
<1>. QED
  BY <1>1, <1>2, <1>3

LEMMA DeleteAllTyped ==
    ASSUME TypeOK, NEW s \in Sidecars, NEW type, DeleteAll(s, type)
    PROVE  TypeOK'
<1>1. UNCHANGED <<routerVars, pending, main, buffer, historyVars, faults>>
  BY DEF DeleteAll
<1>2. RouterTypeOK'
  BY <1>1 DEF RouterTypeOK, routerVars, TypeOK
<1>3. asks' \in 0 .. MaxAsks
  BY DeliveryAssumption DEF DeleteAll, TypeOK
<1>4. store' \subseteq store /\ answered' \subseteq answered
  BY DEF DeleteAll
<1>. QED
  BY <1>1, <1>2, <1>3, <1>4 DEF TypeOK, historyVars

LEMMA PublishTyped ==
    ASSUME TypeOK, NEW e \in Events, Publish(e) \/ QueuePacket(e)
    PROVE  TypeOK'
<1>1. RouterTypeOK'
  BY AskSendTyped DEF Publish, QueuePacket, TypeOK
<1>2. ready' \subseteq Events
  BY DEF Publish, QueuePacket, MarkReady, TypeOK, historyVars
<1>3. UNCHANGED <<store, pending, main, buffer, answered, wanted, viaSocket, posted, acks, boundVars>>
  BY DEF Publish, QueuePacket, historyVars
<1>. QED
  BY <1>1, <1>2, <1>3 DEF TypeOK, boundVars

LEMMA ReadGarbageTyped ==
    ASSUME TypeOK, NEW s \in Sidecars, ReadGarbage(s)
    PROVE  TypeOK'
  BY DEF ReadGarbage, TypeOK, RouterTypeOK, Body, routerVars, historyVars, boundVars

LEMMA ReadPacketTyped ==
    ASSUME TypeOK, NEW s \in Sidecars, NEW e \in Events, ReadPacket(s, e)
    PROVE  TypeOK'
<1>1. sending' \in [Events -> Progress]
  BY AdvanceTyped DEF ReadPacket, Make, Progress, TypeOK
<1>2. RouterTypeOK'
  BY <1>1 DEF ReadPacket, Make, TypeOK, RouterTypeOK
<1>3. ready' \subseteq Events /\ viaSocket' \subseteq Events /\ buffer' \in [Sidecars -> Body]
  BY DEF ReadPacket, MarkReady, TypeOK, Body
<1>4. UNCHANGED <<store, pending, main, answered, wanted, posted, acks, boundVars>>
  BY DEF ReadPacket
<1>. QED
  BY <1>2, <1>3, <1>4 DEF TypeOK, boundVars

LEMMA MainLoopTyped ==
    ASSUME TypeOK, NEW s \in Sidecars, MainLoop(s)
    PROVE  TypeOK'
<1>1. CASE MainTake(s)
  <2>1. TakeOutput(s) /\ RouterTypeOK /\ RouterTypeOK'
    BY <1>1, TakeOutputTyped DEF MainTake, TypeOK
  <2>2. Head(dataOut[s]) \in Output
    BY <2>1, TakeOutputType
  <2>3. main' \in [Sidecars -> Work \cup {None}]
    BY <1>1, <2>2, WorkForType DEF MainTake, TypeOK
  <2>4. UNCHANGED <<store, pending, buffer, answered, historyVars, boundVars>>
    BY <1>1 DEF MainTake
  <2>. QED
    BY <2>1, <2>3, <2>4 DEF TypeOK, historyVars, boundVars
<1>2. CASE Post(s)
  <2>1. UNCHANGED <<routerVars, store, pending, answered, buffer, wanted, ready, viaSocket, acks, boundVars>>
    BY <1>2 DEF Post
  <2>2. RouterTypeOK'
    BY <2>1 DEF RouterTypeOK, routerVars, TypeOK
  <2>3. main[s] \in Work /\ main' \in [Sidecars -> Work \cup {None}]
    BY <1>2 DEF Post, TypeOK
  <2>4. Append(posted[s], main[s].parcel) \in Seq(Parcel)
    BY <2>3 DEF TypeOK, Work
  <2>5. posted' \in [Sidecars -> Seq(Parcel)]
    BY <1>2, <2>4 DEF Post, TypeOK
  <2>. QED
    BY <2>1, <2>2, <2>3, <2>5 DEF TypeOK, boundVars
<1>3. CASE PostAck(s)
  <2>1. UNCHANGED <<routerVars, store, pending, answered, buffer, wanted, ready, viaSocket, posted, boundVars>>
    BY <1>3 DEF PostAck
  <2>2. RouterTypeOK'
    BY <2>1 DEF RouterTypeOK, routerVars, TypeOK
  <2>3. main[s] \in Work /\ main' \in [Sidecars -> Work \cup {None}]
    BY <1>3 DEF PostAck, TypeOK
  <2>4. acks' \subseteq Events
    BY <1>3, <2>3 DEF PostAck, TypeOK, Work, Parcel
  <2>. QED
    BY <2>1, <2>2, <2>3, <2>4 DEF TypeOK, boundVars
<1>. QED
  BY <1>1, <1>2, <1>3 DEF MainLoop

LEMMA RestartTyped ==
    ASSUME TypeOK, NEW s \in Sidecars, Restart(s)
    PROVE  TypeOK'
<1>1. RouterTypeOK'
  BY DieTyped DEF Restart, TypeOK
<1>2. faults' \in 0 .. MaxFaults
  BY DeliveryAssumption DEF Restart, TypeOK
<1>3. store' \subseteq store /\ pending' \subseteq pending /\ answered' \subseteq answered
  BY DEF Restart
<1>4. main' \in [Sidecars -> Work \cup {None}] /\ buffer' \in [Sidecars -> Body]
  BY DEF Restart, TypeOK, Body
<1>5. UNCHANGED <<historyVars, asks>>
  BY DEF Restart
<1>. QED
  BY <1>1, <1>2, <1>3, <1>4, <1>5 DEF TypeOK, historyVars

LEMMA LoseReceiverTyped ==
    ASSUME TypeOK, NEW s \in Sidecars, NEW a \in Addrs, NEW n, LoseReceiver(s, a, n)
    PROVE  TypeOK'
<1>1. RouterTypeOK'
  BY BreakReceiverTyped DEF LoseReceiver, TypeOK
<1>2. faults' \in 0 .. MaxFaults
  BY DeliveryAssumption DEF LoseReceiver, TypeOK
<1>. QED
  BY <1>1, <1>2 DEF LoseReceiver, TypeOK, historyVars

\* The steps of the router alone.
RouterStep ==
    \/ \E s \in Sidecars : RouterLoop(s)
    \/ \E e \in Events : SendTo(e) \/ Reported(e)
    \/ \E r \in arrived : CallBack(r)

LEMMA RouterStepTyped ==
    ASSUME TypeOK, RouterStep
    PROVE  TypeOK'
<1>1. RouterTypeOK
  BY DEF TypeOK
<1>2. ASSUME NEW s \in Sidecars, RouterLoop(s)
      PROVE  RouterTypeOK'
  BY <1>1, <1>2, TakeConsumerTyped, TakeStatusRequestTyped, TakeProducerTyped, TakeEventTyped
     DEF RouterLoop, Route
<1>3. ASSUME NEW e \in Events, SendTo(e)
      PROVE  RouterTypeOK'
  <2>1. CASE \E body \in Carried(e) : Transmit(e, body)
    BY <1>1, <2>1, CarriedType, TransmitTyped
  <2>2. CASE Accepted(e) \/ Undelivered(e) \/ Rejected(e)
    BY <1>1, <2>2, AnsweredTyped
  <2>. QED
    BY <1>3, <2>1, <2>2 DEF SendTo
<1>4. RouterTypeOK'
  BY <1>1, <1>2, <1>3, ReportTyped, PutOutTyped DEF RouterStep, Reported, CallBack
<1>5. RouterOnly
  BY DEF RouterStep, RouterLoop, SendTo, Reported, CallBack
<1>. QED
  BY <1>4, <1>5 DEF RouterOnly, TypeOK, historyVars, boundVars

LEMMA TypeInit == Init => TypeOK
<1>. SUFFICES ASSUME Init PROVE TypeOK
  OBVIOUS
<1>1. RouterTypeOK
  BY RouterAssumption DEF Init, RouterInit, RouterTypeOK, Progress
<1>. QED
  BY <1>1, DeliveryAssumption DEF Init, TypeOK, Body

LEMMA TypeNext == TypeOK /\ [Next]_vars => TypeOK'
<1>. SUFFICES ASSUME TypeOK, [Next]_vars PROVE TypeOK'
  OBVIOUS
<1>1. CASE UNCHANGED vars
  BY <1>1 DEF vars, routerVars, historyVars, boundVars, TypeOK, RouterTypeOK
<1>2. CASE Next
  <2>1. CASE \E r \in Clients : Register(r) \/ SendOut(r) \/ AskStatus(r)
    BY <2>1, RestServerTyped
  <2>2. CASE \E s \in Sidecars, type \in {"PRODUCER", "CONSUMER"} : DeleteAll(s, type)
    BY <2>2, DeleteAllTyped
  <2>3. CASE \/ \E s \in Sidecars, e \in Events : ReadPacket(s, e)
             \/ \E s \in Sidecars : ReadGarbage(s)
    BY <2>3, ReadPacketTyped, ReadGarbageTyped
  <2>4. CASE \E s \in Sidecars, a \in Addrs : \E n \in DOMAIN listeners[s][a] : LoseReceiver(s, a, n)
    BY <2>4, LoseReceiverTyped
  <2>5. CASE \E e \in Events : Publish(e) \/ QueuePacket(e)
    BY <2>5, PublishTyped
  <2>6. CASE RouterStep
    BY <2>6, RouterStepTyped
  <2>7. CASE \E s \in Sidecars : MainLoop(s)
    BY <2>7, MainLoopTyped
  <2>8. CASE \E s \in Sidecars : Restart(s)
    BY <2>8, RestartTyped
  <2>. QED
    BY <1>2, <2>1, <2>2, <2>3, <2>4, <2>5, <2>6, <2>7, <2>8 DEF Next, RouterStep
<1>. QED
  BY <1>1, <1>2

\* In every state of every sidecar the queues of the router stay within their
\* capacity, every running callback has its receiver, and what the main loop is
\* working on is an event with the data of one (EventDelivery!TypeOK).
THEOREM TypeCorrect == Spec => []TypeOK
<1>1. Init => TypeOK
  BY TypeInit
<1>2. TypeOK /\ [Next]_vars => TypeOK'
  BY TypeNext
<1>. QED
  BY <1>1, <1>2, PTL DEF Spec

-----------------------------------------------------------------------------
(* What consumers are given: only what they asked for, with its own content     *)

\* The data of an event is its own, or what its slice of the buffer can hold.
Own(e, body) ==
    \/ body = e
    \/ e \in viaSocket /\ (body = None \/ (body \in viaSocket /\ SentBy[body] = SentBy[e]))

Asked(s, a) == <<s, "CONSUMER", a>> \in wanted

\* A copy of an event may be at a sidecar: as an event only if it was asked for.
Rightly(s, type, e, body) == (type = "EVENT" => Asked(s, AddrOf[e])) /\ Own(e, body)

AskedLinks ==
    /\ pending \subseteq wanted
    /\ \A s \in Sidecars : \A n \in DOMAIN dataIn[s] :
          dataIn[s][n].type = "CONSUMER" => Asked(s, dataIn[s][n].addr)
    /\ \A s \in Sidecars, a \in Addrs : \A n \in DOMAIN listeners[s][a] :
          listeners[s][a][n] = "EVENT" => Asked(s, a)

BufferOwn == \A s \in Sidecars : buffer[s] = None \/ (buffer[s] \in viaSocket /\ SentBy[buffer[s]] = s)

ArrivedRightly == \A c \in arrived : Rightly(c.at, c.as, c.ev, c.body)

PutOutRightly ==
    \A s \in Sidecars : \A n \in DOMAIN dataOut[s] :
        LET out == dataOut[s][n] IN
        out.type # "PRODUCER" => Rightly(s, out.type, out.ev, out.body)

TakenRightly ==
    \A s \in Sidecars :
        main[s] # None /\ main[s].what \in {"post", "socket"}
        => Rightly(s, "EVENT", main[s].parcel.ev, main[s].parcel.body)

PostedRightly ==
    \A s \in Sidecars : \A n \in DOMAIN posted[s] :
        Rightly(s, "EVENT", posted[s][n].ev, posted[s][n].body)

\* The inductive invariant of NotUnasked and OwnContent.
RightCopies ==
    /\ AskedLinks
    /\ BufferOwn
    /\ ArrivedRightly
    /\ PutOutRightly
    /\ TakenRightly
    /\ PostedRightly

-----------------------------------------------------------------------------
(* Where an event is at a sidecar on its way to the consumer                    *)

Coming(s, e) == \E c \in arrived : c.at = s /\ c.ev = e
Out(s, e) == \E n \in DOMAIN dataOut[s] : dataOut[s][n].type # "PRODUCER" /\ dataOut[s][n].ev = e
InHand(s, e) == main[s] # None /\ main[s].what \in {"post", "socket"} /\ main[s].parcel.ev = e
Given(s, e) == \E n \in DOMAIN posted[s] : posted[s][n].ev = e
Reached(s, e) == Coming(s, e) \/ Out(s, e) \/ InHand(s, e) \/ Given(s, e)

NotYetSent == {"new", "read", "queued", "sending"}

OneListener == \A s \in Sidecars, a \in Addrs : Len(listeners[s][a]) <= 1

\* The request to send an event is in one queue, once.
QueuedOnce ==
    \A s \in Sidecars : \A m \in DOMAIN dataIn[s] :
        dataIn[s][m].type = "EVENT" =>
            /\ SentBy[dataIn[s][m].ev] = s
            /\ sending[dataIn[s][m].ev] = "queued"
            /\ \A n \in DOMAIN dataIn[s] :
                  dataIn[s][n].type = "EVENT" /\ dataIn[s][n].ev = dataIn[s][m].ev => m = n

NotReached == \A e \in Events : sending[e] \in NotYetSent => \A s \in Sidecars : ~Reached(s, e)

\* An event is in at most one of the places, and there once.
OnePlace ==
    \A s \in Sidecars, e \in Events :
        /\ ~(Coming(s, e) /\ (Out(s, e) \/ InHand(s, e) \/ Given(s, e)))
        /\ ~(Out(s, e) /\ (InHand(s, e) \/ Given(s, e)))
        /\ ~(InHand(s, e) /\ Given(s, e))

ArrivedOnce == \A c, d \in arrived : c.at = d.at /\ c.ev = d.ev => c = d

PutOutOnce ==
    \A s \in Sidecars : \A m, n \in DOMAIN dataOut[s] :
        /\ dataOut[s][m].type # "PRODUCER"
        /\ dataOut[s][n].type # "PRODUCER"
        /\ dataOut[s][m].ev = dataOut[s][n].ev
        => m = n

\* The inductive invariant of DeliveredOnce.
SingleCopies ==
    /\ OneListener
    /\ QueuedOnce
    /\ NotReached
    /\ OnePlace
    /\ ArrivedOnce
    /\ PutOutOnce
    /\ DeliveredOnce

-----------------------------------------------------------------------------
(* The elements of a longer and of a shorter queue                              *)

LEMMA AppendMembers ==
    ASSUME NEW S, NEW q \in Seq(S), NEW x \in S
    PROVE  /\ \A n \in DOMAIN Append(q, x) :
                 \/ n \in DOMAIN q /\ Append(q, x)[n] = q[n]
                 \/ n = Len(q) + 1 /\ n \notin DOMAIN q /\ Append(q, x)[n] = x
           /\ \A n \in DOMAIN q : n \in DOMAIN Append(q, x) /\ Append(q, x)[n] = q[n]
           /\ Len(q) + 1 \in DOMAIN Append(q, x)
           /\ Append(q, x)[Len(q) + 1] = x
OBVIOUS

LEMMA TailMembers ==
    ASSUME NEW S, NEW q \in Seq(S), q # <<>>
    PROVE  /\ \A n \in DOMAIN Tail(q) : n \in Nat /\ n + 1 \in DOMAIN q /\ n + 1 # 1 /\ Tail(q)[n] = q[n + 1]
           /\ \A n \in DOMAIN q : n = 1 \/ (n - 1 \in DOMAIN Tail(q) /\ Tail(q)[n - 1] = q[n])
           /\ 1 \in DOMAIN q
           /\ Head(q) = q[1]
OBVIOUS

\* The places of requests in a queue that one joins, and in one that is taken from.
LEMMA EnqueuedAt ==
    ASSUME RouterTypeOK, NEW s \in Sidecars, NEW q \in Request, Enqueue(s, q)
    PROVE  /\ \A t \in Sidecars : \A n \in DOMAIN dataIn[t] :
                 n \in DOMAIN dataIn'[t] /\ dataIn'[t][n] = dataIn[t][n]
           /\ \A t \in Sidecars : \A n \in DOMAIN dataIn'[t] :
                 \/ n \in DOMAIN dataIn[t] /\ dataIn'[t][n] = dataIn[t][n]
                 \/ t = s /\ n = Len(dataIn[s]) + 1 /\ dataIn'[t][n] = q
           /\ Len(dataIn[s]) + 1 \in DOMAIN dataIn'[s] /\ dataIn'[s][Len(dataIn[s]) + 1] = q
           /\ \A n \in DOMAIN dataIn[s] : n < Len(dataIn[s]) + 1
<1>1. /\ \A t \in Sidecars : dataIn'[t] = IF t = s THEN Append(dataIn[s], q) ELSE dataIn[t]
      /\ dataIn[s] \in Seq(Request)
  BY EnqueueType DEF RouterTypeOK
<1>2. dataIn'[s] = Append(dataIn[s], q) /\ \A t \in Sidecars \ {s} : dataIn'[t] = dataIn[t]
  BY <1>1
<1>3. /\ \A n \in DOMAIN dataIn'[s] :
            \/ n \in DOMAIN dataIn[s] /\ dataIn'[s][n] = dataIn[s][n]
            \/ n = Len(dataIn[s]) + 1 /\ dataIn'[s][n] = q
      /\ \A n \in DOMAIN dataIn[s] : n \in DOMAIN dataIn'[s] /\ dataIn'[s][n] = dataIn[s][n]
      /\ Len(dataIn[s]) + 1 \in DOMAIN dataIn'[s] /\ dataIn'[s][Len(dataIn[s]) + 1] = q
  BY <1>1, <1>2, AppendMembers
<1>4. \A n \in DOMAIN dataIn[s] : n < Len(dataIn[s]) + 1
  BY <1>1
<1>. QED
  BY <1>2, <1>3, <1>4

LEMMA TakenAt ==
    ASSUME RouterTypeOK, NEW s \in Sidecars, NEW types, TakeRequest(s, types)
    PROVE  /\ \A t \in Sidecars \ {s} : dataIn'[t] = dataIn[t]
           /\ \A n \in DOMAIN dataIn'[s] :
                 n \in Nat /\ n + 1 \in DOMAIN dataIn[s] /\ n + 1 # 1 /\ dataIn'[s][n] = dataIn[s][n + 1]
           /\ \A n \in DOMAIN dataIn[s] :
                 /\ n \in Nat
                 /\ n = 1 \/ (n - 1 \in DOMAIN dataIn'[s] /\ dataIn'[s][n - 1] = dataIn[s][n])
           /\ 1 \in DOMAIN dataIn[s] /\ Head(dataIn[s]) = dataIn[s][1]
<1>1. /\ \A t \in Sidecars : dataIn'[t] = IF t = s THEN Tail(dataIn[s]) ELSE dataIn[t]
      /\ dataIn[s] \in Seq(Request) /\ dataIn[s] # <<>>
  BY TakeRequestType DEF RouterTypeOK, TakeRequest
<1>2. dataIn'[s] = Tail(dataIn[s]) /\ \A t \in Sidecars \ {s} : dataIn'[t] = dataIn[t]
  BY <1>1
<1>3. \A n \in DOMAIN dataIn[s] : n \in Nat
  BY <1>1
<1>. QED
  BY <1>1, <1>2, <1>3, TailMembers

\* The same for what a router puts out.
LEMMA PutAt ==
    ASSUME RouterTypeOK, NEW s \in Sidecars, NEW out \in Output, PutOnDataOut(s, out)
    PROVE  \A t \in Sidecars : \A n \in DOMAIN dataOut'[t] :
              \/ n \in DOMAIN dataOut[t] /\ dataOut'[t][n] = dataOut[t][n]
              \/ t = s /\ n = Len(dataOut[s]) + 1 /\ dataOut'[t][n] = out
<1>1. /\ \A t \in Sidecars : dataOut'[t] = IF t = s THEN Append(dataOut[s], out) ELSE dataOut[t]
      /\ dataOut[s] \in Seq(Output)
  BY PutType DEF RouterTypeOK
<1>2. dataOut'[s] = Append(dataOut[s], out) /\ \A t \in Sidecars \ {s} : dataOut'[t] = dataOut[t]
  BY <1>1
<1>3. \A n \in DOMAIN dataOut'[s] :
          \/ n \in DOMAIN dataOut[s] /\ dataOut'[s][n] = dataOut[s][n]
          \/ n = Len(dataOut[s]) + 1 /\ dataOut'[s][n] = out
  BY <1>1, <1>2, AppendMembers
<1>. QED
  BY <1>2, <1>3

LEMMA TakenOutAt ==
    ASSUME RouterTypeOK, NEW s \in Sidecars, TakeOutput(s)
    PROVE  /\ \A t \in Sidecars \ {s} : dataOut'[t] = dataOut[t]
           /\ \A n \in DOMAIN dataOut'[s] :
                 n \in Nat /\ n + 1 \in DOMAIN dataOut[s] /\ n + 1 # 1 /\ dataOut'[s][n] = dataOut[s][n + 1]
           /\ 1 \in DOMAIN dataOut[s] /\ Head(dataOut[s]) = dataOut[s][1]
           /\ Head(dataOut[s]) \in Output
<1>1. /\ \A t \in Sidecars : dataOut'[t] = IF t = s THEN Tail(dataOut[s]) ELSE dataOut[t]
      /\ dataOut[s] \in Seq(Output) /\ dataOut[s] # <<>>
  BY TakeOutputType DEF RouterTypeOK, TakeOutput
<1>2. dataOut'[s] = Tail(dataOut[s]) /\ \A t \in Sidecars \ {s} : dataOut'[t] = dataOut[t]
  BY <1>1
<1>. QED
  BY <1>1, <1>2, TailMembers, TakeOutputType

-----------------------------------------------------------------------------
(* RightCopies is inductive                                                     *)

Grows == wanted \subseteq wanted' /\ viaSocket \subseteq viaSocket'

LEMMA RightlyStays ==
    ASSUME Grows
    PROVE  \A s, type, e, body : Rightly(s, type, e, body) => Rightly(s, type, e, body)'
BY DEF Grows, Rightly, Asked, Own

LEMMA CopiesStay ==
    ASSUME Grows, ArrivedRightly, PutOutRightly, TakenRightly, PostedRightly,
           UNCHANGED <<arrived, dataOut, main, posted>>
    PROVE  ArrivedRightly' /\ PutOutRightly' /\ TakenRightly' /\ PostedRightly'
<1>1. ArrivedRightly'
  BY RightlyStays DEF ArrivedRightly
<1>2. PutOutRightly'
  BY RightlyStays DEF PutOutRightly
<1>3. TakenRightly'
  BY RightlyStays DEF TakenRightly
<1>4. PostedRightly'
  BY RightlyStays DEF PostedRightly
<1>. QED
  BY <1>1, <1>2, <1>3, <1>4

LEMMA BufferStays ==
    ASSUME Grows, BufferOwn, UNCHANGED buffer
    PROVE  BufferOwn'
BY DEF Grows, BufferOwn

LEMMA LinksStay ==
    ASSUME Grows, AskedLinks, pending' \subseteq pending, UNCHANGED <<dataIn, listeners>>
    PROVE  AskedLinks'
BY DEF Grows, AskedLinks, Asked

LEMMA QueuedLinks ==
    ASSUME TypeOK, AskedLinks, NEW s \in Sidecars, NEW r \in Request, Enqueue(s, r),
           r.type = "CONSUMER" => Asked(s, r.addr),
           pending' \subseteq pending, UNCHANGED <<wanted, listeners>>
    PROVE  AskedLinks'
<1>1. \A t \in Sidecars : \A n \in DOMAIN dataIn'[t] :
          \/ n \in DOMAIN dataIn[t] /\ dataIn'[t][n] = dataIn[t][n]
          \/ t = s /\ dataIn'[t][n] = r
  BY EnqueuedAt DEF TypeOK
<1>2. \A t \in Sidecars : \A n \in DOMAIN dataIn'[t] :
          dataIn'[t][n].type = "CONSUMER" => Asked(t, dataIn'[t][n].addr)
  BY <1>1 DEF AskedLinks
<1>. QED
  BY <1>2 DEF AskedLinks, Asked

LEMMA TakenLinks ==
    ASSUME TypeOK, AskedLinks, NEW s \in Sidecars, NEW types, TakeRequest(s, types),
           UNCHANGED <<pending, wanted>>,
           \A t \in Sidecars, a \in Addrs : \A n \in DOMAIN listeners'[t][a] :
               listeners'[t][a][n] = "EVENT" => Asked(t, a)
    PROVE  AskedLinks'
<1>1. \A t \in Sidecars : \A n \in DOMAIN dataIn'[t] :
          \E k \in DOMAIN dataIn[t] : dataIn'[t][n] = dataIn[t][k]
  BY TakenAt DEF TypeOK
<1>2. \A t \in Sidecars : \A n \in DOMAIN dataIn'[t] :
          dataIn'[t][n].type = "CONSUMER" => Asked(t, dataIn'[t][n].addr)
  BY <1>1 DEF AskedLinks
<1>. QED
  BY <1>2 DEF AskedLinks, Asked

\* What a receiver was started for was asked for, and is what the head of the
\* queue says.
LEMMA RouterLoopLinks ==
    ASSUME TypeOK, AskedLinks, NEW s \in Sidecars, RouterLoop(s)
    PROVE  AskedLinks'
<1>. DEFINE r == Head(dataIn[s])
<1>0. RouterTypeOK /\ UNCHANGED <<pending, wanted>>
  BY DEF TypeOK, RouterLoop, RouterOnly, historyVars
<1>1. dataIn[s] # <<>> => 1 \in DOMAIN dataIn[s] /\ r = dataIn[s][1]
  BY <1>0, TailMembers DEF RouterTypeOK
<1>2. ASSUME NEW a \in Addrs, NEW callback \in Callback, StartReceiver(s, a, callback),
             callback = "EVENT" => Asked(s, a)
      PROVE  \A t \in Sidecars, b \in Addrs : \A n \in DOMAIN listeners'[t][b] :
                 listeners'[t][b][n] = "EVENT" => Asked(t, b)
  <2>1. /\ \A t \in Sidecars, b \in Addrs :
              listeners'[t][b] = IF t = s /\ b = a THEN Append(listeners[s][a], callback)
                                                   ELSE listeners[t][b]
        /\ listeners[s][a] \in Seq(Callback \cup {"ENDED"})
    <3>1. RouterTypeOK /\ StartReceiver(s, a, callback)
      BY <1>0, <1>2
    <3>2. listeners[s][a] \in Seq(Callback \cup {"ENDED"})
      BY <1>0 DEF RouterTypeOK
    <3>. QED
      BY <3>1, <3>2, StartReceiverTyped
  <2>. TAKE t \in Sidecars, b \in Addrs
  <2>. TAKE n \in DOMAIN listeners'[t][b]
  <2>2. CASE ~(t = s /\ b = a)
    BY <2>1, <2>2 DEF AskedLinks
  <2>3. CASE t = s /\ b = a
    <3>1. /\ listeners'[s][a] = Append(listeners[s][a], callback)
          /\ n \in DOMAIN listeners'[s][a]
          /\ callback \in Callback \cup {"ENDED"}
      BY <2>1, <2>3
    <3>2. \/ n \in DOMAIN listeners[s][a] /\ listeners'[s][a][n] = listeners[s][a][n]
          \/ listeners'[s][a][n] = callback
      BY <2>1, <3>1, AppendMembers
    <3>. QED
      BY <1>2, <2>3, <3>2 DEF AskedLinks
  <2>. QED
    BY <2>2, <2>3
<1>3. UNCHANGED listeners =>
          \A t \in Sidecars, b \in Addrs : \A n \in DOMAIN listeners'[t][b] :
              listeners'[t][b][n] = "EVENT" => Asked(t, b)
  BY DEF AskedLinks
<1>4. CASE TakeConsumer(s)
  <2>1. TakeRequest(s, {"CONSUMER"}) /\ r \in Request /\ r.addr \in Addrs
    BY <1>0, <1>4, TakeRequestType, RequestFields DEF TakeConsumer
  <2>2. Asked(s, r.addr)
    BY <1>1, <2>1 DEF AskedLinks, TakeRequest
  <2>3. UNCHANGED listeners \/ StartReceiver(s, r.addr, "EVENT")
    BY <1>4 DEF TakeConsumer
  <2>. QED
    BY <1>0, <1>2, <1>3, <2>1, <2>2, <2>3, TakenLinks DEF Callback
<1>5. CASE TakeStatusRequest(s)
  <2>1. TakeRequest(s, {"STATUS"}) /\ r \in Request /\ r.addr \in Addrs
    BY <1>0, <1>5, TakeRequestType, RequestFields DEF TakeStatusRequest
  <2>2. UNCHANGED listeners \/ StartReceiver(s, r.addr, "STATUS")
    BY <1>5 DEF TakeStatusRequest
  <2>. QED
    BY <1>0, <1>2, <1>3, <2>1, <2>2, TakenLinks DEF Callback
<1>6. CASE TakeProducer(s)
  BY <1>0, <1>3, <1>6, TakenLinks DEF TakeProducer
<1>7. CASE TakeEvent(s)
  BY <1>0, <1>3, <1>7, TakenLinks DEF TakeEvent
<1>. QED
  BY <1>4, <1>5, <1>6, <1>7 DEF RouterLoop, Route

\* What an event carries when it is sent is its own.
LEMMA CarriedOwn ==
    ASSUME BufferOwn, NEW e \in Events, NEW body \in Carried(e)
    PROVE  Own(e, body)
BY RouterAssumption DEF BufferOwn, Carried, Own

LEMMA RegisterRight ==
    ASSUME TypeOK, RightCopies, NEW r \in Clients, Register(r) \/ SendOut(r) \/ AskStatus(r)
    PROVE  RightCopies'
<1>1. /\ Grows
      /\ UNCHANGED <<arrived, dataOut, main, posted, buffer, listeners>>
      /\ r[1] \in Sidecars /\ r[2] \in LinkTypes /\ r[3] \in Addrs /\ r = <<r[1], r[2], r[3]>>
  BY ClientParts
  DEF Register, SendOut, AskStatus, AskLink, Grows, routerVars, historyVars
<1>2. ArrivedRightly' /\ PutOutRightly' /\ TakenRightly' /\ PostedRightly' /\ BufferOwn'
  BY <1>1, CopiesStay, BufferStays DEF RightCopies
<1>3. CASE Register(r)
  <2>1. pending' \subseteq wanted' /\ UNCHANGED <<dataIn, listeners>> /\ wanted \subseteq wanted'
    BY <1>3 DEF Register, RightCopies, AskedLinks, routerVars
  <2>. QED
    BY <1>2, <2>1 DEF RightCopies, AskedLinks, Asked
<1>4. CASE SendOut(r) \/ AskStatus(r)
  <2>. DEFINE q == [type |-> r[2], addr |-> r[3], ev |-> None]
  <2>1. Enqueue(r[1], q) /\ pending' \subseteq pending /\ UNCHANGED <<wanted, listeners>>
    BY <1>4 DEF SendOut, AskStatus, AskLink, historyVars
  <2>2. q \in Request
    BY <1>1, LinkRequestType
  <2>3. q.type = "CONSUMER" => Asked(r[1], q.addr)
    BY <1>1, <1>4 DEF SendOut, AskStatus, RightCopies, AskedLinks, Asked
  <2>4. AskedLinks'
    BY <1>1, <2>1, <2>2, <2>3, QueuedLinks DEF RightCopies
  <2>. QED
    BY <1>2, <2>4 DEF RightCopies
<1>. QED
  BY <1>3, <1>4

LEMMA PublishRight ==
    ASSUME TypeOK, RightCopies, NEW e \in Events, Publish(e) \/ QueuePacket(e)
    PROVE  RightCopies'
<1>. DEFINE r == [type |-> "EVENT", addr |-> AddrOf[e], ev |-> e]
<1>1. /\ Grows
      /\ UNCHANGED <<arrived, dataOut, main, posted, buffer, pending, wanted, listeners>>
      /\ Enqueue(SentBy[e], r)
  BY DEF Publish, QueuePacket, AskSend, Grows, historyVars
<1>2. r \in Request /\ SentBy[e] \in Sidecars
  BY EventRequestType, RouterAssumption
<1>3. AskedLinks'
  BY <1>1, <1>2, QueuedLinks DEF RightCopies
<1>. QED
  BY <1>1, <1>3, CopiesStay, BufferStays DEF RightCopies

LEMMA ReadPacketRight ==
    ASSUME TypeOK, RightCopies, NEW s \in Sidecars, NEW e \in Events, ReadPacket(s, e)
    PROVE  RightCopies'
<1>1. /\ Grows
      /\ UNCHANGED <<arrived, dataOut, main, posted, pending, wanted, listeners, dataIn>>
  BY DEF ReadPacket, Make, Grows
<1>2. BufferOwn'
  BY DEF ReadPacket, RightCopies, BufferOwn, TypeOK
<1>. QED
  BY <1>1, <1>2, CopiesStay, LinksStay DEF RightCopies

LEMMA ReadGarbageRight ==
    ASSUME TypeOK, RightCopies, NEW s \in Sidecars, ReadGarbage(s)
    PROVE  RightCopies'
<1>1. /\ Grows
      /\ UNCHANGED <<arrived, dataOut, main, posted, pending, wanted, listeners, dataIn>>
  BY DEF ReadGarbage, Grows, routerVars, historyVars
<1>2. BufferOwn'
  BY DEF ReadGarbage, RightCopies, BufferOwn, TypeOK, historyVars
<1>. QED
  BY <1>1, <1>2, CopiesStay, LinksStay DEF RightCopies

LEMMA TransmitRight ==
    ASSUME TypeOK, RightCopies, NEW e \in Events, NEW body \in Carried(e), Transmit(e, body)
    PROVE  \A c \in arrived' : Rightly(c.at, c.as, c.ev, c.body)
<1>1. PICK R \in SUBSET ReceiversOf(e) :
          arrived' = arrived \cup
            {[at |-> r[1], no |-> r[2], as |-> listeners[r[1]][AddrOf[e]][r[2]],
              ev |-> e, body |-> body] : r \in R}
  BY DEF Transmit
<1>. SUFFICES ASSUME NEW c \in arrived', c \notin arrived
              PROVE  Rightly(c.at, c.as, c.ev, c.body)
  BY DEF RightCopies, ArrivedRightly
<1>2. PICK r \in R : c = [at |-> r[1], no |-> r[2], as |-> listeners[r[1]][AddrOf[e]][r[2]],
                          ev |-> e, body |-> body]
  BY <1>1
<1>3. PICK s \in Sidecars :
          r \in {<<s, n>> : n \in {k \in DOMAIN listeners[s][AddrOf[e]] :
                                    listeners[s][AddrOf[e]][k] # "ENDED"}}
  BY DEF ReceiversOf
<1>4. c.as = "EVENT" => Asked(c.at, AddrOf[e])
  BY <1>2, <1>3, RouterAssumption DEF RightCopies, AskedLinks
<1>5. Own(e, body)
  BY CarriedOwn DEF RightCopies
<1>. QED
  BY <1>2, <1>4, <1>5 DEF Rightly

LEMMA PutRight ==
    ASSUME TypeOK, RightCopies, NEW s \in Sidecars, NEW out \in Output, PutOnDataOut(s, out),
           out.type # "PRODUCER" => Rightly(s, out.type, out.ev, out.body)
    PROVE  \A t \in Sidecars : \A n \in DOMAIN dataOut'[t] :
               dataOut'[t][n].type # "PRODUCER" =>
                   Rightly(t, dataOut'[t][n].type, dataOut'[t][n].ev, dataOut'[t][n].body)
<1>1. \A t \in Sidecars : \A n \in DOMAIN dataOut'[t] :
          \/ n \in DOMAIN dataOut[t] /\ dataOut'[t][n] = dataOut[t][n]
          \/ t = s /\ dataOut'[t][n] = out
  BY PutAt DEF TypeOK
<1>. QED
  BY <1>1 DEF RightCopies, PutOutRightly

LEMMA RouterStepRight ==
    ASSUME TypeOK, RightCopies, RouterStep
    PROVE  RightCopies'
<1>1. /\ UNCHANGED <<pending, main, buffer, wanted, viaSocket, posted>>
      /\ Grows
  BY DEF RouterStep, RouterLoop, SendTo, Reported, CallBack, RouterOnly, historyVars, Grows
<1>2. ASSUME NEW s \in Sidecars, RouterLoop(s)
      PROVE  RightCopies'
  <2>1. UNCHANGED <<arrived, dataOut>>
    BY <1>2 DEF RouterLoop, Route, TakeConsumer, TakeStatusRequest, TakeProducer, TakeEvent
  <2>. QED
    BY <1>1, <1>2, <2>1, RouterLoopLinks, CopiesStay, BufferStays DEF RightCopies
<1>3. ASSUME UNCHANGED <<dataIn, listeners>>, ArrivedRightly', PutOutRightly'
      PROVE  RightCopies'
  <2>1. AskedLinks' /\ BufferOwn'
    BY <1>1, <1>3, LinksStay, BufferStays DEF RightCopies
  <2>2. TakenRightly' /\ PostedRightly'
    BY <1>1, RightlyStays DEF RightCopies, TakenRightly, PostedRightly
  <2>. QED
    BY <1>3, <2>1, <2>2 DEF RightCopies
<1>4. UNCHANGED arrived => ArrivedRightly'
  BY <1>1, RightlyStays DEF RightCopies, ArrivedRightly
<1>5. UNCHANGED dataOut => PutOutRightly'
  BY <1>1, RightlyStays DEF RightCopies, PutOutRightly
<1>6. ASSUME NEW e \in Events, SendTo(e)
      PROVE  RightCopies'
  <2>1. UNCHANGED <<dataIn, listeners, dataOut>>
    BY <1>6 DEF SendTo, Transmit, Accepted, Undelivered, Rejected
  <2>2. CASE \E body \in Carried(e) : Transmit(e, body)
    BY <1>1, <1>3, <1>5, <2>1, <2>2, TransmitRight, RightlyStays DEF ArrivedRightly
  <2>3. CASE Accepted(e) \/ Undelivered(e) \/ Rejected(e)
    BY <1>3, <1>4, <1>5, <2>1, <2>3 DEF Accepted, Undelivered, Rejected
  <2>. QED
    BY <1>6, <2>2, <2>3 DEF SendTo
<1>7. ASSUME NEW e \in Events, Reported(e)
      PROVE  RightCopies'
  <2>. DEFINE out == [type |-> "PRODUCER", addr |-> AddrOf[e], ev |-> e, body |-> e,
                      status |-> IF sending[e] = "undelivered" THEN "FAILED" ELSE "SUCCEED"]
  <2>1. /\ out \in Output /\ out.type = "PRODUCER"
        /\ SentBy[e] \in Sidecars
        /\ PutOnDataOut(SentBy[e], out)
        /\ UNCHANGED <<dataIn, listeners, arrived>>
    BY <1>7, RouterAssumption DEF Reported, Report, Output, Body
  <2>2. PutOutRightly'
    BY <1>1, <2>1, PutRight, RightlyStays DEF PutOutRightly
  <2>. QED
    BY <1>3, <1>4, <2>1, <2>2
<1>8. ASSUME NEW c \in arrived, CallBack(c)
      PROVE  RightCopies'
  <2>. DEFINE out == [type |-> c.as, addr |-> AddrOf[c.ev], ev |-> c.ev, body |-> c.body,
                      status |-> "NEW"]
  <2>1. /\ c.at \in Sidecars /\ out \in Output
        /\ PutOnDataOut(c.at, out)
        /\ UNCHANGED <<dataIn, listeners>>
        /\ arrived' \subseteq arrived
    BY <1>8, RouterAssumption
    DEF CallBack, PutOut, TypeOK, RouterTypeOK, Arrival, Output, Callback
  <2>2. Rightly(c.at, out.type, out.ev, out.body)
    BY DEF RightCopies, ArrivedRightly
  <2>3. PutOutRightly'
    BY <1>1, <2>1, <2>2, PutRight, RightlyStays DEF PutOutRightly
  <2>4. ArrivedRightly'
    BY <1>1, <2>1, RightlyStays DEF RightCopies, ArrivedRightly
  <2>. QED
    BY <1>3, <2>1, <2>3, <2>4
<1>. QED
  BY <1>2, <1>6, <1>7, <1>8 DEF RouterStep

LEMMA MainLoopRight ==
    ASSUME TypeOK, RightCopies, NEW s \in Sidecars, MainLoop(s)
    PROVE  RightCopies'
<1>1. /\ Grows
      /\ UNCHANGED <<pending, buffer, wanted, dataIn, listeners, arrived>>
  BY DEF MainLoop, MainTake, Post, PostAck, TakeOutput, Grows, historyVars, routerVars
<1>2. AskedLinks' /\ BufferOwn' /\ ArrivedRightly'
  BY <1>1, LinksStay, BufferStays, RightlyStays DEF RightCopies, ArrivedRightly
<1>3. UNCHANGED dataOut => PutOutRightly'
  BY <1>1, RightlyStays DEF RightCopies, PutOutRightly
<1>4. UNCHANGED posted => PostedRightly'
  BY <1>1, RightlyStays DEF RightCopies, PostedRightly
<1>5. main' = [main EXCEPT ![s] = None] => TakenRightly'
  BY <1>1, RightlyStays DEF RightCopies, TakenRightly, TypeOK
<1>6. CASE MainTake(s)
  <2>. DEFINE out == Head(dataOut[s])
  <2>1. TakeOutput(s) /\ RouterTypeOK /\ UNCHANGED posted
    BY <1>6 DEF MainTake, TypeOK, historyVars
  <2>2. out = dataOut[s][1] /\ 1 \in DOMAIN dataOut[s] /\ out \in Output
    BY <2>1, TakenOutAt
  <2>3. out.type = "EVENT" => Rightly(s, "EVENT", out.ev, out.body)
    BY <2>2 DEF RightCopies, PutOutRightly
  <2>4. WorkFor(s, out) # None /\ WorkFor(s, out).what \in {"post", "socket"}
        => /\ out.type = "EVENT"
           /\ WorkFor(s, out).parcel = [ev |-> out.ev, body |-> out.body]
    BY DEF WorkFor
  <2>5. \/ UNCHANGED main
        \/ main' = [main EXCEPT ![s] = WorkFor(s, out)]
    BY <1>6 DEF MainTake
  <2>6. TakenRightly'
    <3>. SUFFICES ASSUME NEW t \in Sidecars, main'[t] # None, main'[t].what \in {"post", "socket"}
                  PROVE  Rightly(t, "EVENT", main'[t].parcel.ev, main'[t].parcel.body)
      BY <1>1, RightlyStays DEF TakenRightly
    <3>1. CASE main'[t] = main[t]
      BY <3>1 DEF RightCopies, TakenRightly
    <3>2. CASE main'[t] # main[t]
      <4>1. t = s /\ main'[t] = WorkFor(s, out)
        BY <2>5, <3>2 DEF TypeOK
      <4>. QED
        BY <2>3, <2>4, <4>1
    <3>. QED
      BY <3>1, <3>2
  <2>7. PutOutRightly'
    <3>. SUFFICES ASSUME NEW t \in Sidecars, NEW n \in DOMAIN dataOut'[t],
                         dataOut'[t][n].type # "PRODUCER"
                  PROVE  Rightly(t, dataOut'[t][n].type, dataOut'[t][n].ev, dataOut'[t][n].body)
      BY <1>1, RightlyStays DEF PutOutRightly
    <3>1. \E k \in DOMAIN dataOut[t] : dataOut'[t][n] = dataOut[t][k]
      BY <2>1, TakenOutAt
    <3>. QED
      BY <3>1 DEF RightCopies, PutOutRightly
  <2>. QED
    BY <1>2, <1>4, <2>1, <2>6, <2>7 DEF RightCopies
<1>7. CASE Post(s)
  <2>1. /\ main' = [main EXCEPT ![s] = None]
        /\ UNCHANGED dataOut
        /\ main[s] # None /\ main[s].what \in {"post", "socket"} /\ main[s] \in Work
        /\ posted' \in {posted, [posted EXCEPT ![s] = Append(posted[s], main[s].parcel)]}
    BY <1>7 DEF Post, routerVars, TypeOK
  <2>2. CASE UNCHANGED posted
    BY <1>2, <1>3, <1>4, <1>5, <2>1, <2>2 DEF RightCopies
  <2>3. CASE posted' = [posted EXCEPT ![s] = Append(posted[s], main[s].parcel)]
    <3>1. /\ \A t \in Sidecars : posted'[t] = IF t = s THEN Append(posted[s], main[s].parcel) ELSE posted[t]
          /\ posted[s] \in Seq(Parcel) /\ main[s].parcel \in Parcel
      BY <2>1, <2>3 DEF TypeOK, Work
    <3>2. Rightly(s, "EVENT", main[s].parcel.ev, main[s].parcel.body)
      BY <2>1 DEF RightCopies, TakenRightly
    <3>3. PostedRightly'
      <4>. SUFFICES ASSUME NEW t \in Sidecars, NEW n \in DOMAIN posted'[t]
                    PROVE  Rightly(t, "EVENT", posted'[t][n].ev, posted'[t][n].body)
        BY <1>1, RightlyStays DEF PostedRightly
      <4>1. CASE t # s
        BY <3>1, <4>1 DEF RightCopies, PostedRightly
      <4>2. CASE t = s
        <5>1. posted'[s] = Append(posted[s], main[s].parcel) /\ n \in DOMAIN posted'[s]
          BY <3>1, <4>2
        <5>2. \/ n \in DOMAIN posted[s] /\ posted'[s][n] = posted[s][n]
              \/ posted'[s][n] = main[s].parcel
          BY <3>1, <5>1, AppendMembers
        <5>. QED
          BY <3>2, <4>2, <5>2 DEF RightCopies, PostedRightly
      <4>. QED
        BY <4>1, <4>2
    <3>. QED
      BY <1>2, <1>3, <1>5, <2>1, <3>3 DEF RightCopies
  <2>. QED
    BY <2>1, <2>2, <2>3
<1>8. CASE PostAck(s)
  BY <1>2, <1>3, <1>4, <1>5, <1>8 DEF PostAck, RightCopies, routerVars
<1>. QED
  BY <1>6, <1>7, <1>8 DEF MainLoop

LEMMA RestartRight ==
    ASSUME TypeOK, RightCopies, NEW s \in Sidecars, Restart(s)
    PROVE  RightCopies'
<1>1. /\ Grows
      /\ UNCHANGED <<wanted, viaSocket, posted>>
      /\ pending' \subseteq pending
  BY DEF Restart, Grows, historyVars
<1>2. AskedLinks'
  <2>1. \A t \in Sidecars : dataIn'[t] = IF t = s THEN <<>> ELSE dataIn[t]
    BY DEF Restart, Die, TypeOK, RouterTypeOK
  <2>2. \A t \in Sidecars, a \in Addrs : listeners'[t][a] = IF t = s THEN <<>> ELSE listeners[t][a]
    BY DEF Restart, Die, TypeOK, RouterTypeOK
  <2>3. \A t \in Sidecars : \A n \in DOMAIN dataIn'[t] :
            dataIn'[t][n].type = "CONSUMER" => Asked(t, dataIn'[t][n].addr)
    BY <2>1 DEF RightCopies, AskedLinks
  <2>4. \A t \in Sidecars, a \in Addrs : \A n \in DOMAIN listeners'[t][a] :
            listeners'[t][a][n] = "EVENT" => Asked(t, a)
    BY <2>2 DEF RightCopies, AskedLinks
  <2>. QED
    BY <1>1, <2>3, <2>4 DEF RightCopies, AskedLinks, Asked
<1>3. BufferOwn'
  BY <1>1 DEF Restart, RightCopies, BufferOwn, TypeOK
<1>4. ArrivedRightly'
  BY <1>1, RightlyStays DEF Restart, Die, RightCopies, ArrivedRightly
<1>5. PutOutRightly'
  <2>1. \A t \in Sidecars : dataOut'[t] = IF t = s THEN <<>> ELSE dataOut[t]
    BY DEF Restart, Die, TypeOK, RouterTypeOK
  <2>. SUFFICES ASSUME NEW t \in Sidecars, NEW n \in DOMAIN dataOut'[t],
                       dataOut'[t][n].type # "PRODUCER"
                PROVE  Rightly(t, dataOut'[t][n].type, dataOut'[t][n].ev, dataOut'[t][n].body)
    BY <1>1, RightlyStays DEF PutOutRightly
  <2>. QED
    BY <2>1 DEF RightCopies, PutOutRightly
<1>6. TakenRightly'
  BY <1>1, RightlyStays DEF Restart, RightCopies, TakenRightly, TypeOK
<1>7. PostedRightly'
  BY <1>1, RightlyStays DEF RightCopies, PostedRightly
<1>. QED
  BY <1>2, <1>3, <1>4, <1>5, <1>6, <1>7 DEF RightCopies

LEMMA LoseReceiverRight ==
    ASSUME TypeOK, RightCopies, NEW s \in Sidecars, NEW a \in Addrs, NEW n, LoseReceiver(s, a, n)
    PROVE  RightCopies'
<1>1. /\ Grows
      /\ UNCHANGED <<pending, buffer, wanted, dataIn, arrived, dataOut, main, posted>>
  BY DEF LoseReceiver, BreakReceiver, Grows, historyVars
<1>2. \A t \in Sidecars, b \in Addrs :
          /\ DOMAIN listeners'[t][b] = DOMAIN listeners[t][b]
          /\ \A k \in DOMAIN listeners[t][b] :
                listeners'[t][b][k] \in {listeners[t][b][k], "ENDED"}
  <2>1. listeners' = [listeners EXCEPT ![s] = [listeners[s] EXCEPT ![a] =
                          [listeners[s][a] EXCEPT ![n] = "ENDED"]]]
    BY DEF LoseReceiver, BreakReceiver, TypeOK, RouterTypeOK
  <2>2. listeners'[s][a] = [listeners[s][a] EXCEPT ![n] = "ENDED"]
    BY <2>1 DEF TypeOK, RouterTypeOK
  <2>3. \A t \in Sidecars, b \in Addrs : ~(t = s /\ b = a) => listeners'[t][b] = listeners[t][b]
    BY <2>1 DEF TypeOK, RouterTypeOK
  <2>4. /\ DOMAIN listeners'[s][a] = DOMAIN listeners[s][a]
        /\ \A k \in DOMAIN listeners[s][a] : listeners'[s][a][k] \in {listeners[s][a][k], "ENDED"}
    BY <2>2
  <2>. QED
    BY <2>3, <2>4
<1>3. AskedLinks'
  BY <1>1, <1>2 DEF RightCopies, AskedLinks, Asked
<1>. QED
  BY <1>1, <1>3, CopiesStay, BufferStays DEF RightCopies

LEMMA RightInit == Init => RightCopies
BY DEF Init, RouterInit, RightCopies, AskedLinks, BufferOwn, ArrivedRightly, PutOutRightly,
       TakenRightly, PostedRightly

LEMMA RightNext == TypeOK /\ RightCopies /\ [Next]_vars => RightCopies'
<1>. SUFFICES ASSUME TypeOK, RightCopies, [Next]_vars PROVE RightCopies'
  OBVIOUS
<1>1. CASE UNCHANGED vars
  <2>1. Grows /\ UNCHANGED <<pending, dataIn, listeners, buffer, arrived, dataOut, main, posted>>
    BY <1>1 DEF vars, routerVars, historyVars, Grows
  <2>. QED
    BY <2>1, LinksStay, BufferStays, CopiesStay DEF RightCopies
<1>2. CASE Next
  <2>1. CASE \E r \in Clients : Register(r) \/ SendOut(r) \/ AskStatus(r)
    BY <2>1, RegisterRight
  <2>2. CASE \E s \in Sidecars, type \in {"PRODUCER", "CONSUMER"} : DeleteAll(s, type)
    <3>1. Grows /\ UNCHANGED <<pending, dataIn, listeners, buffer, arrived, dataOut, main, posted>>
      BY <2>2 DEF DeleteAll, routerVars, historyVars, Grows
    <3>. QED
      BY <3>1, LinksStay, BufferStays, CopiesStay DEF RightCopies
  <2>3. CASE \/ \E s \in Sidecars, e \in Events : ReadPacket(s, e)
             \/ \E s \in Sidecars : ReadGarbage(s)
    BY <2>3, ReadPacketRight, ReadGarbageRight
  <2>4. CASE \E s \in Sidecars, a \in Addrs : \E n \in DOMAIN listeners[s][a] : LoseReceiver(s, a, n)
    BY <2>4, LoseReceiverRight
  <2>5. CASE \E e \in Events : Publish(e) \/ QueuePacket(e)
    BY <2>5, PublishRight
  <2>6. CASE RouterStep
    BY <2>6, RouterStepRight
  <2>7. CASE \E s \in Sidecars : MainLoop(s)
    BY <2>7, MainLoopRight
  <2>8. CASE \E s \in Sidecars : Restart(s)
    BY <2>8, RestartRight
  <2>. QED
    BY <1>2, <2>1, <2>2, <2>3, <2>4, <2>5, <2>6, <2>7, <2>8 DEF Next, RouterStep
<1>. QED
  BY <1>1, <1>2

\* No consumer is given an event of an address that was never subscribed to with
\* its sidecar (EventDelivery!NotUnasked).
THEOREM OnlyAsked == Spec => []NotUnasked
<1>1. Init => RightCopies
  BY RightInit
<1>2. TypeOK /\ RightCopies /\ [Next]_vars => RightCopies'
  BY RightNext
<1>3. RightCopies => NotUnasked
  BY DEF RightCopies, PostedRightly, Rightly, Asked, NotUnasked
<1>. QED
  BY <1>1, <1>2, <1>3, TypeCorrect, PTL DEF Spec

\* What a consumer is given with an event is the event's data, or what the one
\* buffer of the UDP listener of the same sidecar held (EventDelivery!OwnContent).
THEOREM ContentIsOwn == Spec => []OwnContent
<1>1. Init => RightCopies
  BY RightInit
<1>2. TypeOK /\ RightCopies /\ [Next]_vars => RightCopies'
  BY RightNext
<1>3. RightCopies => OwnContent
  BY DEF RightCopies, PostedRightly, Rightly, Own, OwnContent
<1>. QED
  BY <1>1, <1>2, <1>3, TypeCorrect, PTL DEF Spec

-----------------------------------------------------------------------------
(* SingleCopies is inductive                                                    *)

\* No event is taken back to a step before it was sent.
OnlyForward == \A e \in Events : sending'[e] \in NotYetSent => sending[e] \in NotYetSent

LEMMA PlacesStay ==
    ASSUME SingleCopies, OnlyForward, UNCHANGED <<arrived, dataOut, main, posted>>
    PROVE  NotReached' /\ OnePlace' /\ ArrivedOnce' /\ PutOutOnce' /\ DeliveredOnce'
<1>1. \A s, e : /\ Coming(s, e)' <=> Coming(s, e)
                /\ Out(s, e)' <=> Out(s, e)
                /\ InHand(s, e)' <=> InHand(s, e)
                /\ Given(s, e)' <=> Given(s, e)
  BY DEF Coming, Out, InHand, Given
<1>2. NotReached' /\ OnePlace'
  BY <1>1 DEF SingleCopies, NotReached, OnePlace, OnlyForward, Reached
<1>3. ArrivedOnce' /\ PutOutOnce' /\ DeliveredOnce'
  BY DEF SingleCopies, ArrivedOnce, PutOutOnce, DeliveredOnce
<1>. QED
  BY <1>2, <1>3

LEMMA QueuesStay ==
    ASSUME TypeOK, SingleCopies, UNCHANGED dataIn,
           \A e \in Events : sending[e] = "queued" => sending'[e] = "queued"
    PROVE  QueuedOnce'
<1>1. \A s \in Sidecars : \A n \in DOMAIN dataIn[s] :
          dataIn[s][n].type = "EVENT" => dataIn[s][n].ev \in Events
  BY RequestFields DEF TypeOK, RouterTypeOK
<1>. QED
  BY <1>1 DEF SingleCopies, QueuedOnce

LEMMA QueuedLinkOnce ==
    ASSUME TypeOK, SingleCopies, NEW s \in Sidecars, NEW r \in LinkRequest, Enqueue(s, r),
           UNCHANGED sending
    PROVE  QueuedOnce'
<1>1. r \in Request /\ r.type # "EVENT"
  BY DEF Request, LinkRequest, LinkTypes
<1>2. \A t \in Sidecars : \A n \in DOMAIN dataIn'[t] :
          dataIn'[t][n].type = "EVENT" => n \in DOMAIN dataIn[t] /\ dataIn'[t][n] = dataIn[t][n]
  BY <1>1, EnqueuedAt DEF TypeOK
<1>. QED
  BY <1>2 DEF SingleCopies, QueuedOnce

LEMMA QueuedEventOnce ==
    ASSUME TypeOK, SingleCopies, NEW e \in Events, AskSend(e)
    PROVE  QueuedOnce'
<1>. DEFINE s == SentBy[e]
<1>. DEFINE r == [type |-> "EVENT", addr |-> AddrOf[e], ev |-> e]
<1>0. RouterTypeOK
  BY DEF TypeOK
<1>1. s \in Sidecars /\ r \in Request /\ Enqueue(s, r)
  BY EventRequestType, RouterAssumption DEF AskSend
<1>3. \A f \in Events : sending'[f] = IF f = e THEN "queued" ELSE sending[f]
  BY <1>0, AdvanceTyped DEF AskSend, Progress
<1>4. sending[e] # "queued"
  BY DEF AskSend
<1>5. \A t \in Sidecars : \A n \in DOMAIN dataIn[t] :
          dataIn[t][n].type = "EVENT" => dataIn[t][n].ev \in Events \ {e}
  BY <1>0, <1>4, RequestFields DEF RouterTypeOK, SingleCopies, QueuedOnce
<1>6. \A t \in Sidecars : \A n \in DOMAIN dataIn'[t] :
          \/ n \in DOMAIN dataIn[t] /\ dataIn'[t][n] = dataIn[t][n]
          \/ t = s /\ n = Len(dataIn[s]) + 1 /\ dataIn'[t][n] = r
  BY <1>0, <1>1, EnqueuedAt
<1>. QED
  <2>. SUFFICES ASSUME NEW t \in Sidecars, NEW m \in DOMAIN dataIn'[t], dataIn'[t][m].type = "EVENT"
                PROVE  /\ SentBy[dataIn'[t][m].ev] = t
                       /\ sending'[dataIn'[t][m].ev] = "queued"
                       /\ \A n \in DOMAIN dataIn'[t] :
                             dataIn'[t][n].type = "EVENT" /\ dataIn'[t][n].ev = dataIn'[t][m].ev => m = n
    BY DEF QueuedOnce
  <2>1. CASE m \in DOMAIN dataIn[t] /\ dataIn'[t][m] = dataIn[t][m]
    <3>1. /\ SentBy[dataIn[t][m].ev] = t /\ sending[dataIn[t][m].ev] = "queued"
          /\ dataIn[t][m].ev \in Events \ {e}
      BY <1>5, <2>1 DEF SingleCopies, QueuedOnce
    <3>2. ASSUME NEW n \in DOMAIN dataIn'[t], dataIn'[t][n].type = "EVENT", dataIn'[t][n].ev = dataIn'[t][m].ev
          PROVE  m = n
      <4>1. dataIn'[t][n] # r
        BY <2>1, <3>1, <3>2
      <4>2. n \in DOMAIN dataIn[t] /\ dataIn'[t][n] = dataIn[t][n]
        BY <1>6, <4>1
      <4>. QED
        BY <2>1, <3>2, <4>2 DEF SingleCopies, QueuedOnce
    <3>. QED
      BY <1>3, <2>1, <3>1, <3>2
  <2>2. CASE t = s /\ m = Len(dataIn[s]) + 1 /\ dataIn'[t][m] = r
    <3>1. ASSUME NEW n \in DOMAIN dataIn'[t], dataIn'[t][n].type = "EVENT", dataIn'[t][n].ev = e
          PROVE  m = n
      BY <1>5, <1>6, <2>2, <3>1
    <3>. QED
      BY <1>3, <2>2, <3>1
  <2>. QED
    BY <1>6, <2>1, <2>2

\* Only the event at the head of the queue may go on to its next step.
LEMMA TakenOnce ==
    ASSUME TypeOK, SingleCopies, NEW s \in Sidecars, NEW types, TakeRequest(s, types),
           \A e \in Events : sending'[e] = sending[e]
                             \/ (Head(dataIn[s]).type = "EVENT" /\ e = Head(dataIn[s]).ev)
    PROVE  QueuedOnce'
<1>1. \A t \in Sidecars \ {s} : dataIn'[t] = dataIn[t]
  BY TakenAt DEF TypeOK
<1>2. 1 \in DOMAIN dataIn[s] /\ Head(dataIn[s]) = dataIn[s][1]
  BY TakenAt DEF TypeOK
<1>3. \A n \in DOMAIN dataIn'[s] :
          n \in Nat /\ n + 1 \in DOMAIN dataIn[s] /\ n + 1 # 1 /\ dataIn'[s][n] = dataIn[s][n + 1]
  BY TakenAt DEF TypeOK
<1>. SUFFICES ASSUME NEW t \in Sidecars, NEW m \in DOMAIN dataIn'[t], dataIn'[t][m].type = "EVENT"
              PROVE  /\ SentBy[dataIn'[t][m].ev] = t
                     /\ sending'[dataIn'[t][m].ev] = "queued"
                     /\ \A n \in DOMAIN dataIn'[t] :
                           dataIn'[t][n].type = "EVENT" /\ dataIn'[t][n].ev = dataIn'[t][m].ev => m = n
  BY DEF QueuedOnce
<1>4. \A u \in Sidecars : \A n \in DOMAIN dataIn[u] :
          dataIn[u][n].type = "EVENT" => dataIn[u][n].ev \in Events
  BY RequestFields DEF TypeOK, RouterTypeOK
<1>5. \A u \in Sidecars : \A k \in DOMAIN dataIn[u] :
          dataIn[u][k].type = "EVENT" =>
              /\ SentBy[dataIn[u][k].ev] = u /\ sending[dataIn[u][k].ev] = "queued"
              /\ \A n \in DOMAIN dataIn[u] :
                    dataIn[u][n].type = "EVENT" /\ dataIn[u][n].ev = dataIn[u][k].ev => k = n
  BY DEF SingleCopies, QueuedOnce
<1>6. CASE t # s
  <2>1. dataIn'[t] = dataIn[t]
    BY <1>1, <1>6
  <2>2. sending'[dataIn[t][m].ev] = sending[dataIn[t][m].ev]
    BY <1>2, <1>4, <1>5, <1>6, <2>1
  <2>. QED
    BY <1>5, <2>1, <2>2
<1>7. CASE t = s
  <2>1. m + 1 \in DOMAIN dataIn[s] /\ dataIn'[s][m] = dataIn[s][m + 1] /\ m + 1 # 1 /\ m \in Nat
    BY <1>3, <1>7
  <2>2. sending'[dataIn[s][m + 1].ev] = sending[dataIn[s][m + 1].ev]
    BY <1>2, <1>4, <1>5, <1>7, <2>1
  <2>3. ASSUME NEW n \in DOMAIN dataIn'[s], dataIn'[s][n].type = "EVENT", dataIn'[s][n].ev = dataIn'[s][m].ev
        PROVE  m = n
    <3>1. n + 1 \in DOMAIN dataIn[s] /\ dataIn'[s][n] = dataIn[s][n + 1] /\ n \in Nat
      BY <1>3, <2>3
    <3>2. m + 1 = n + 1
      BY <1>5, <1>7, <2>1, <2>3, <3>1
    <3>. QED
      BY <2>1, <3>1, <3>2
  <2>. QED
    BY <1>5, <1>7, <2>1, <2>2, <2>3
<1>. QED
  BY <1>6, <1>7

LEMMA StartedOne ==
    ASSUME TypeOK, SingleCopies, NEW s \in Sidecars, NEW a \in Addrs, NEW callback \in Callback,
           ~HasListener(s, a), StartReceiver(s, a, callback)
    PROVE  OneListener'
<1>1. /\ \A t \in Sidecars, b \in Addrs :
            listeners'[t][b] = IF t = s /\ b = a THEN Append(listeners[s][a], callback)
                                                 ELSE listeners[t][b]
      /\ listeners[s][a] = <<>>
  BY StartReceiverTyped DEF TypeOK, HasListener
<1>2. Len(Append(<<>>, callback)) = 1
  OBVIOUS
<1>3. ASSUME NEW t \in Sidecars, NEW b \in Addrs
      PROVE  Len(listeners'[t][b]) <= 1
  <2>1. CASE t = s /\ b = a
    <3>1. listeners'[t][b] = Append(<<>>, callback)
      BY <1>1, <2>1
    <3>. QED
      BY <1>2, <3>1
  <2>2. CASE ~(t = s /\ b = a)
    BY <1>1, <2>2 DEF SingleCopies, OneListener
  <2>. QED
    BY <2>1, <2>2
<1>. QED
  BY <1>3 DEF OneListener

LEMMA RouterLoopOnce ==
    ASSUME TypeOK, SingleCopies, NEW s \in Sidecars, RouterLoop(s)
    PROVE  SingleCopies'
<1>. DEFINE r == Head(dataIn[s])
<1>0. RouterTypeOK
  BY DEF TypeOK
<1>1. UNCHANGED <<arrived, dataOut, main, posted>>
  BY DEF RouterLoop, Route, TakeConsumer, TakeStatusRequest, TakeProducer, TakeEvent,
         RouterOnly, historyVars
<1>2. UNCHANGED listeners => OneListener'
  BY DEF SingleCopies, OneListener
<1>3. UNCHANGED sending => OnlyForward
  BY DEF OnlyForward
<1>4. CASE TakeConsumer(s)
  <2>1. /\ TakeRequest(s, {"CONSUMER"}) /\ r \in Request /\ r.addr \in Addrs
        /\ UNCHANGED sending
    BY <1>0, <1>4, TakeRequestType, RequestFields DEF TakeConsumer
  <2>2. OneListener'
    BY <1>2, <1>4, <2>1, StartedOne DEF TakeConsumer, Callback
  <2>. QED
    BY <1>1, <1>3, <2>1, <2>2, TakenOnce, PlacesStay DEF SingleCopies
<1>5. CASE TakeStatusRequest(s)
  <2>1. /\ TakeRequest(s, {"STATUS"}) /\ r \in Request /\ r.addr \in Addrs
        /\ UNCHANGED sending
    BY <1>0, <1>5, TakeRequestType, RequestFields DEF TakeStatusRequest
  <2>2. OneListener'
    BY <1>2, <1>5, <2>1, StartedOne DEF TakeStatusRequest, Callback
  <2>. QED
    BY <1>1, <1>3, <2>1, <2>2, TakenOnce, PlacesStay DEF SingleCopies
<1>6. CASE TakeProducer(s)
  <2>1. TakeRequest(s, {"PRODUCER"}) /\ UNCHANGED <<listeners, sending>>
    BY <1>6 DEF TakeProducer
  <2>. QED
    BY <1>1, <1>2, <1>3, <2>1, TakenOnce, PlacesStay DEF SingleCopies
<1>7. CASE TakeEvent(s)
  <2>1. /\ TakeRequest(s, {"EVENT"}) /\ r \in Request /\ r.type = "EVENT" /\ r.ev \in Events
        /\ UNCHANGED listeners
    BY <1>0, <1>7, TakeRequestType, RequestFields DEF TakeEvent
  <2>2. \A e \in Events : e # r.ev => sending'[e] = sending[e]
    BY <1>0, <1>7, <2>1, AdvanceTyped DEF TakeEvent, Progress
  <2>3. sending[r.ev] = "queued"
    <3>1. 1 \in DOMAIN dataIn[s] /\ r = dataIn[s][1]
      BY <1>0, <2>1, TailMembers DEF RouterTypeOK, TakeRequest
    <3>. QED
      BY <2>1, <3>1 DEF SingleCopies, QueuedOnce
  <2>4. OnlyForward
    BY <2>2, <2>3 DEF OnlyForward, NotYetSent
  <2>. QED
    BY <1>1, <1>2, <2>1, <2>2, <2>4, TakenOnce, PlacesStay DEF SingleCopies
<1>. QED
  BY <1>4, <1>5, <1>6, <1>7 DEF RouterLoop, Route

\* The receivers an event goes to are at different sidecars, and none of them has
\* it already.
LEMMA TransmitOnce ==
    ASSUME TypeOK, SingleCopies, NEW e \in Events, NEW body \in Body, Transmit(e, body), RouterOnly
    PROVE  SingleCopies'
<1>1. PICK R \in SUBSET ReceiversOf(e) :
          arrived' = arrived \cup
            {[at |-> r[1], no |-> r[2], as |-> listeners[r[1]][AddrOf[e]][r[2]],
              ev |-> e, body |-> body] : r \in R}
  BY DEF Transmit
<1>2. /\ UNCHANGED <<dataIn, listeners, dataOut, main, posted>>
      /\ sending[e] = "sending"
      /\ \A f \in Events : sending'[f] = IF f = e THEN "sent" ELSE sending[f]
  BY AdvanceTyped DEF Transmit, RouterOnly, historyVars, TypeOK, Progress
<1>3. \A s \in Sidecars : ~Reached(s, e)
  BY <1>2 DEF SingleCopies, NotReached, NotYetSent
<1>4. ASSUME NEW r \in R PROVE r[1] \in Sidecars /\ r[2] = 1
  <2>1. PICK s \in Sidecars :
            r \in {<<s, n>> : n \in {k \in DOMAIN listeners[s][AddrOf[e]] :
                                      listeners[s][AddrOf[e]][k] # "ENDED"}}
    BY <1>4 DEF ReceiversOf
  <2>2. PICK n \in DOMAIN listeners[s][AddrOf[e]] : r = <<s, n>>
    BY <2>1
  <2>3. Len(listeners[s][AddrOf[e]]) <= 1 /\ listeners[s][AddrOf[e]] \in Seq(Callback \cup {"ENDED"})
    BY RouterAssumption DEF SingleCopies, OneListener, TypeOK, RouterTypeOK
  <2>4. n = 1
    BY <2>3
  <2>. QED
    BY <2>2, <2>4
<1>5. ASSUME NEW c \in arrived', c \notin arrived
      PROVE  /\ c.at \in Sidecars /\ c.ev = e
             /\ c = [at |-> c.at, no |-> 1, as |-> listeners[c.at][AddrOf[e]][1], ev |-> e, body |-> body]
  <2>1. PICK r \in R : c = [at |-> r[1], no |-> r[2], as |-> listeners[r[1]][AddrOf[e]][r[2]],
                            ev |-> e, body |-> body]
    BY <1>1, <1>5
  <2>. QED
    BY <1>4, <2>1
<1>6. \A c \in arrived : c.at \in Sidecars /\ c.ev \in Events /\ c.ev # e
  BY <1>3 DEF TypeOK, RouterTypeOK, Arrival, Reached, Coming
<1>7. ArrivedOnce'
  BY <1>5, <1>6 DEF SingleCopies, ArrivedOnce
<1>8. \A s \in Sidecars, f \in Events :
          /\ Coming(s, f)' => Coming(s, f) \/ f = e
          /\ Out(s, f)' <=> Out(s, f)
          /\ InHand(s, f)' <=> InHand(s, f)
          /\ Given(s, f)' <=> Given(s, f)
  BY <1>2, <1>5 DEF Coming, Out, InHand, Given
<1>9. OnePlace'
  BY <1>3, <1>8 DEF SingleCopies, OnePlace, Reached
<1>10. NotReached'
  BY <1>2, <1>8 DEF SingleCopies, NotReached, Reached, NotYetSent
<1>11. QueuedOnce'
  BY <1>2, QueuesStay
<1>12. OneListener' /\ PutOutOnce' /\ DeliveredOnce'
  BY <1>2 DEF SingleCopies, OneListener, PutOutOnce, DeliveredOnce
<1>. QED
  BY <1>7, <1>9, <1>10, <1>11, <1>12 DEF SingleCopies

\* A report is no copy of the event.
LEMMA ReportOnce ==
    ASSUME TypeOK, SingleCopies, NEW e \in Events, Reported(e)
    PROVE  SingleCopies'
<1>. DEFINE out == [type |-> "PRODUCER", addr |-> AddrOf[e], ev |-> e, body |-> e,
                    status |-> IF sending[e] = "undelivered" THEN "FAILED" ELSE "SUCCEED"]
<1>. DEFINE s == SentBy[e]
<1>0. RouterTypeOK
  BY DEF TypeOK
<1>1. /\ out \in Output /\ out.type = "PRODUCER"
      /\ s \in Sidecars
      /\ PutOnDataOut(s, out)
      /\ UNCHANGED <<dataIn, listeners, arrived, main, posted>>
      /\ sending[e] \in {"undelivered", "rejected"}
      /\ Advance(e, "reported")
  BY RouterAssumption DEF Reported, Report, Output, Body, RouterOnly, historyVars
<1>2. \A f \in Events : sending'[f] = IF f = e THEN "reported" ELSE sending[f]
  BY <1>0, <1>1, AdvanceTyped DEF Progress
<1>. HIDE DEF out
<1>4. \A t \in Sidecars : \A n \in DOMAIN dataOut'[t] :
          dataOut'[t][n].type # "PRODUCER" => n \in DOMAIN dataOut[t] /\ dataOut'[t][n] = dataOut[t][n]
  BY <1>0, <1>1, PutAt
<1>5. \A t \in Sidecars, f \in Events :
          /\ Coming(t, f)' => Coming(t, f)
          /\ Out(t, f)' => Out(t, f)
          /\ InHand(t, f)' => InHand(t, f)
          /\ Given(t, f)' => Given(t, f)
  BY <1>1, <1>4 DEF Coming, Out, InHand, Given
<1>6. OnePlace'
  BY <1>5 DEF SingleCopies, OnePlace
<1>7. NotReached'
  BY <1>2, <1>5 DEF SingleCopies, NotReached, Reached, NotYetSent
<1>8. PutOutOnce'
  BY <1>4 DEF SingleCopies, PutOutOnce
<1>9. QueuedOnce'
  BY <1>1, <1>2, QueuesStay
<1>10. OneListener' /\ ArrivedOnce' /\ DeliveredOnce'
  BY <1>1 DEF SingleCopies, OneListener, ArrivedOnce, DeliveredOnce
<1>. QED
  BY <1>6, <1>7, <1>8, <1>9, <1>10 DEF SingleCopies

LEMMA CallBackOnce ==
    ASSUME TypeOK, SingleCopies, NEW c \in arrived, CallBack(c)
    PROVE  SingleCopies'
<1>. DEFINE out == [type |-> c.as, addr |-> AddrOf[c.ev], ev |-> c.ev, body |-> c.body,
                    status |-> "NEW"]
<1>. DEFINE s == c.at
<1>1. /\ s \in Sidecars /\ c.ev \in Events
      /\ out \in Output /\ out.ev = c.ev /\ out.type # "PRODUCER"
      /\ PutOnDataOut(s, out)
      /\ UNCHANGED <<dataIn, listeners, main, posted, sending>>
      /\ arrived' = arrived \ {c}
  BY RouterAssumption
  DEF CallBack, PutOut, TypeOK, RouterTypeOK, Arrival, Output, Callback, RouterOnly, historyVars
<1>. HIDE DEF out
<1>3. \A t \in Sidecars : \A n \in DOMAIN dataOut'[t] :
          \/ n \in DOMAIN dataOut[t] /\ dataOut'[t][n] = dataOut[t][n]
          \/ t = s /\ n = Len(dataOut[s]) + 1 /\ dataOut'[t][n] = out
  BY <1>1, PutAt DEF TypeOK
<1>4. Coming(s, c.ev) /\ Reached(s, c.ev)
  BY DEF Coming, Reached
<1>5. ~Coming(s, c.ev)'
  BY <1>1 DEF Coming, SingleCopies, ArrivedOnce
<1>6. \A t \in Sidecars, f \in Events :
          /\ Coming(t, f)' => Coming(t, f)
          /\ Out(t, f)' => Out(t, f) \/ (t = s /\ f = c.ev)
          /\ InHand(t, f)' => InHand(t, f)
          /\ Given(t, f)' => Given(t, f)
  BY <1>1, <1>3 DEF Coming, Out, InHand, Given
<1>7. OnePlace'
  BY <1>1, <1>4, <1>5, <1>6 DEF SingleCopies, OnePlace
<1>8. NotReached'
  BY <1>1, <1>4, <1>6 DEF SingleCopies, NotReached, Reached
<1>9. PutOutOnce'
  <2>1. ~Out(s, c.ev)
    BY <1>1, <1>4 DEF SingleCopies, OnePlace
  <2>. SUFFICES ASSUME NEW t \in Sidecars, NEW m \in DOMAIN dataOut'[t], NEW n \in DOMAIN dataOut'[t],
                       dataOut'[t][m].type # "PRODUCER", dataOut'[t][n].type # "PRODUCER",
                       dataOut'[t][m].ev = dataOut'[t][n].ev
                PROVE  m = n
    BY DEF PutOutOnce
  <2>2. CASE m \in DOMAIN dataOut[t] /\ dataOut'[t][m] = dataOut[t][m]
    BY <1>1, <1>3, <2>1, <2>2 DEF SingleCopies, PutOutOnce, Out
  <2>3. CASE t = s /\ m = Len(dataOut[s]) + 1 /\ dataOut'[t][m] = out
    BY <1>1, <1>3, <2>1, <2>3 DEF Out
  <2>. QED
    BY <1>3, <2>2, <2>3
<1>10. QueuedOnce'
  BY <1>1, QueuesStay
<1>11. OneListener' /\ ArrivedOnce' /\ DeliveredOnce'
  BY <1>1 DEF SingleCopies, OneListener, ArrivedOnce, DeliveredOnce
<1>. QED
  BY <1>7, <1>8, <1>9, <1>10, <1>11 DEF SingleCopies

LEMMA SendToOnce ==
    ASSUME TypeOK, SingleCopies, NEW e \in Events, SendTo(e)
    PROVE  SingleCopies'
<1>1. CASE \E body \in Carried(e) : Transmit(e, body)
  BY <1>1, CarriedType, TransmitOnce DEF SendTo
<1>2. CASE Accepted(e) \/ Undelivered(e) \/ Rejected(e)
  <2>1. /\ UNCHANGED <<dataIn, listeners, arrived, dataOut, main, posted>>
        /\ sending[e] \in {"sending", "sent"}
        /\ \A f \in Events : f # e => sending'[f] = sending[f]
        /\ sending'[e] \notin NotYetSent
    BY <1>2, AdvanceTyped
    DEF SendTo, Accepted, Undelivered, Rejected, RouterOnly, historyVars, TypeOK, Progress, NotYetSent
  <2>2. OnlyForward /\ \A f \in Events : sending[f] = "queued" => sending'[f] = "queued"
    BY <2>1 DEF OnlyForward
  <2>3. OneListener'
    BY <2>1 DEF SingleCopies, OneListener
  <2>. QED
    BY <2>1, <2>2, <2>3, PlacesStay, QueuesStay DEF SingleCopies
<1>. QED
  BY <1>1, <1>2 DEF SendTo

\* What comes in from the applications reaches no consumer by itself.
LEMMA AskedOnce ==
    ASSUME TypeOK, SingleCopies,
           \/ \E r \in Clients : Register(r) \/ SendOut(r) \/ AskStatus(r)
           \/ \E s \in Sidecars, type \in {"PRODUCER", "CONSUMER"} : DeleteAll(s, type)
           \/ \E s \in Sidecars, e \in Events : ReadPacket(s, e)
           \/ \E s \in Sidecars : ReadGarbage(s)
           \/ \E e \in Events : Publish(e) \/ QueuePacket(e)
    PROVE  SingleCopies'
<1>1. UNCHANGED <<listeners, arrived, dataOut, main, posted>>
  BY DEF Register, SendOut, AskStatus, AskLink, DeleteAll, ReadPacket, Make, ReadGarbage, Publish,
         QueuePacket, AskSend, routerVars, historyVars
<1>2. OneListener'
  BY <1>1 DEF SingleCopies, OneListener
<1>3. UNCHANGED sending => OnlyForward
  BY DEF OnlyForward
<1>4. CASE \E r \in Clients : Register(r)
  BY <1>1, <1>2, <1>3, <1>4, PlacesStay, QueuesStay DEF SingleCopies, Register, routerVars
<1>5. ASSUME NEW r \in Clients, SendOut(r) \/ AskStatus(r)
      PROVE  SingleCopies'
  <2>. DEFINE q == [type |-> r[2], addr |-> r[3], ev |-> None]
  <2>1. q \in LinkRequest /\ r[1] \in Sidecars
    BY ClientParts DEF LinkRequest
  <2>2. Enqueue(r[1], q) /\ UNCHANGED sending
    BY <1>5 DEF SendOut, AskStatus, AskLink
  <2>. QED
    BY <1>1, <1>2, <1>3, <2>1, <2>2, PlacesStay, QueuedLinkOnce DEF SingleCopies
<1>6. CASE \E s \in Sidecars, type \in {"PRODUCER", "CONSUMER"} : DeleteAll(s, type)
  BY <1>1, <1>2, <1>3, <1>6, PlacesStay, QueuesStay DEF SingleCopies, DeleteAll, routerVars
<1>9. CASE \E s \in Sidecars : ReadGarbage(s)
  BY <1>1, <1>2, <1>3, <1>9, PlacesStay, QueuesStay DEF SingleCopies, ReadGarbage, routerVars
<1>7. ASSUME NEW s \in Sidecars, NEW e \in Events, ReadPacket(s, e)
      PROVE  SingleCopies'
  <2>1. sending[e] = "new" /\ UNCHANGED dataIn /\ \A f \in Events : f # e => sending'[f] = sending[f]
    BY <1>7, AdvanceTyped DEF ReadPacket, Make, Progress, TypeOK
  <2>2. OnlyForward /\ \A f \in Events : sending[f] = "queued" => sending'[f] = "queued"
    BY <2>1 DEF OnlyForward, NotYetSent
  <2>. QED
    BY <1>1, <1>2, <2>1, <2>2, PlacesStay, QueuesStay DEF SingleCopies
<1>8. ASSUME NEW e \in Events, Publish(e) \/ QueuePacket(e)
      PROVE  SingleCopies'
  <2>1. AskSend(e)
    BY <1>8 DEF Publish, QueuePacket
  <2>2. sending[e] \in {"new", "read"} /\ \A f \in Events : f # e => sending'[f] = sending[f]
    BY <2>1, AdvanceTyped DEF AskSend, Progress, TypeOK
  <2>3. OnlyForward
    BY <2>2 DEF OnlyForward, NotYetSent
  <2>. QED
    BY <1>1, <1>2, <2>1, <2>3, PlacesStay, QueuedEventOnce DEF SingleCopies
<1>. QED
  BY <1>4, <1>5, <1>6, <1>7, <1>8, <1>9

\* Only the main loop moves an event from the queue to its hand, and from there
\* to the consumer.
LEMMA MainTakeOnce ==
    ASSUME TypeOK, SingleCopies, NEW s \in Sidecars, MainTake(s)
    PROVE  SingleCopies'
<1>. DEFINE out == Head(dataOut[s])
<1>0. TakeOutput(s) /\ RouterTypeOK
  BY DEF MainTake, TypeOK
<1>1. /\ UNCHANGED <<dataIn, listeners, arrived, sending, posted>>
      /\ \A t \in Sidecars \ {s} : dataOut'[t] = dataOut[t]
      /\ main[s] = None
  BY <1>0, TakenOutAt DEF MainTake, TakeOutput, historyVars
<1>2. out = dataOut[s][1] /\ 1 \in DOMAIN dataOut[s] /\ out \in Output /\ out.ev \in Events
  <2>1. out = dataOut[s][1] /\ 1 \in DOMAIN dataOut[s] /\ out \in Output
    BY <1>0, TakenOutAt
  <2>. QED
    BY <2>1 DEF Output
<1>3. \A n \in DOMAIN dataOut'[s] :
          n \in Nat /\ n + 1 \in DOMAIN dataOut[s] /\ n + 1 # 1 /\ dataOut'[s][n] = dataOut[s][n + 1]
  BY <1>0, TakenOutAt
<1>4. /\ WorkFor(s, out) # None /\ WorkFor(s, out).what \in {"post", "socket"}
         => out.type = "EVENT" /\ WorkFor(s, out).parcel.ev = out.ev
  BY DEF WorkFor
<1>5. UNCHANGED main \/ main' = [main EXCEPT ![s] = WorkFor(s, out)]
  BY DEF MainTake
<1>6. ASSUME NEW t \in Sidecars, NEW f \in Events
      PROVE  /\ Coming(t, f)' => Coming(t, f)
             /\ Out(t, f)' => Out(t, f)
             /\ Out(t, f)' => ~(t = s /\ f = out.ev /\ out.type # "PRODUCER")
             /\ InHand(t, f)' => InHand(t, f) \/ (t = s /\ f = out.ev /\ out.type = "EVENT")
             /\ Given(t, f)' => Given(t, f)
  <2>1. /\ Coming(t, f)' => Coming(t, f)
        /\ Given(t, f)' => Given(t, f)
    BY <1>1 DEF Coming, Given
  <2>2. InHand(t, f)' => InHand(t, f) \/ (t = s /\ f = out.ev /\ out.type = "EVENT")
    <3>1. CASE main'[t] = main[t]
      BY <3>1 DEF InHand
    <3>2. CASE main'[t] # main[t]
      <4>1. t = s /\ main'[t] = WorkFor(s, out)
        BY <1>5, <3>2 DEF TypeOK
      <4>. QED
        BY <1>4, <4>1 DEF InHand
    <3>. QED
      BY <3>1, <3>2
  <2>3. CASE t # s
    BY <1>1, <2>1, <2>2, <2>3 DEF Out
  <2>4. CASE t = s
    BY <1>2, <1>3, <2>1, <2>2, <2>4 DEF Out, SingleCopies, PutOutOnce
  <2>. QED
    BY <2>3, <2>4
<1>7. out.type = "EVENT" => Out(s, out.ev)
  BY <1>2 DEF Out
<1>8. OnePlace'
  BY <1>2, <1>6, <1>7 DEF SingleCopies, OnePlace
<1>9. NotReached'
  BY <1>1, <1>2, <1>6, <1>7 DEF SingleCopies, NotReached, Reached
<1>10. PutOutOnce'
  <2>. SUFFICES ASSUME NEW t \in Sidecars, NEW m \in DOMAIN dataOut'[t], NEW n \in DOMAIN dataOut'[t],
                       dataOut'[t][m].type # "PRODUCER", dataOut'[t][n].type # "PRODUCER",
                       dataOut'[t][m].ev = dataOut'[t][n].ev
                PROVE  m = n
    BY DEF PutOutOnce
  <2>1. CASE t # s
    BY <1>1, <2>1 DEF SingleCopies, PutOutOnce
  <2>2. CASE t = s
    <3>1. m \in Nat /\ n \in Nat /\ m + 1 = n + 1
      BY <1>3, <2>2 DEF SingleCopies, PutOutOnce
    <3>. QED
      BY <3>1
  <2>. QED
    BY <2>1, <2>2
<1>11. QueuedOnce'
  BY <1>1, QueuesStay
<1>12. OneListener' /\ ArrivedOnce' /\ DeliveredOnce'
  BY <1>1 DEF SingleCopies, OneListener, ArrivedOnce, DeliveredOnce
<1>. QED
  BY <1>8, <1>9, <1>10, <1>11, <1>12 DEF SingleCopies

LEMMA PostOnce ==
    ASSUME TypeOK, SingleCopies, NEW s \in Sidecars, Post(s)
    PROVE  SingleCopies'
<1>. DEFINE e == main[s].parcel.ev
<1>1. /\ UNCHANGED <<dataIn, listeners, arrived, sending, dataOut>>
      /\ main' = [main EXCEPT ![s] = None]
      /\ main[s] # None /\ main[s].what \in {"post", "socket"}
      /\ posted' \in {posted, [posted EXCEPT ![s] = Append(posted[s], main[s].parcel)]}
  BY DEF Post, routerVars
<1>2. main[s].parcel \in Parcel /\ e \in Events /\ posted[s] \in Seq(Parcel)
  BY <1>1 DEF TypeOK, Work, Parcel
<1>3. InHand(s, e)
  BY <1>1 DEF InHand
<1>4. ASSUME NEW t \in Sidecars, NEW n \in DOMAIN posted'[t]
      PROVE  \/ n \in DOMAIN posted[t] /\ posted'[t][n] = posted[t][n]
             \/ t = s /\ n = Len(posted[s]) + 1 /\ posted'[t][n].ev = e
  <2>1. CASE posted'[t] = posted[t]
    BY <2>1
  <2>2. CASE posted'[t] # posted[t]
    <3>1. t = s /\ posted'[s] = Append(posted[s], main[s].parcel) /\ n \in DOMAIN posted'[s]
      BY <1>1, <2>2 DEF TypeOK
    <3>2. \/ n \in DOMAIN posted[s] /\ posted'[s][n] = posted[s][n]
          \/ n = Len(posted[s]) + 1 /\ posted'[s][n] = main[s].parcel
      BY <1>2, <3>1, AppendMembers
    <3>. QED
      BY <3>1, <3>2
  <2>. QED
    BY <2>1, <2>2
<1>5. ASSUME NEW t \in Sidecars, NEW f \in Events
      PROVE  /\ Coming(t, f)' => Coming(t, f)
             /\ Out(t, f)' => Out(t, f)
             /\ InHand(t, f)' => InHand(t, f)
             /\ InHand(t, f)' => t # s
             /\ Given(t, f)' => Given(t, f) \/ (t = s /\ f = e)
  BY <1>1, <1>4 DEF Coming, Out, InHand, Given, TypeOK
<1>6. OnePlace'
  BY <1>2, <1>3, <1>5 DEF SingleCopies, OnePlace
<1>7. NotReached'
  BY <1>1, <1>2, <1>3, <1>5 DEF SingleCopies, NotReached, Reached
<1>8. DeliveredOnce'
  <2>1. ~Given(s, e)
    BY <1>2, <1>3 DEF SingleCopies, OnePlace
  <2>. SUFFICES ASSUME NEW t \in Sidecars, NEW m \in DOMAIN posted'[t], NEW n \in DOMAIN posted'[t],
                       posted'[t][m].ev = posted'[t][n].ev
                PROVE  m = n
    BY DEF DeliveredOnce
  <2>2. CASE m \in DOMAIN posted[t] /\ posted'[t][m] = posted[t][m]
    BY <1>4, <2>1, <2>2 DEF SingleCopies, DeliveredOnce, Given
  <2>3. CASE t = s /\ m = Len(posted[s]) + 1 /\ posted'[t][m].ev = e
    BY <1>4, <2>1, <2>3 DEF Given
  <2>. QED
    BY <1>4, <2>2, <2>3
<1>9. QueuedOnce'
  BY <1>1, QueuesStay
<1>10. OneListener' /\ ArrivedOnce' /\ PutOutOnce'
  BY <1>1 DEF SingleCopies, OneListener, ArrivedOnce, PutOutOnce
<1>. QED
  BY <1>6, <1>7, <1>8, <1>9, <1>10 DEF SingleCopies

\* The acknowledgement in the hand of the main loop is no copy of the event.
LEMMA PostAckOnce ==
    ASSUME TypeOK, SingleCopies, NEW s \in Sidecars, PostAck(s)
    PROVE  SingleCopies'
<1>1. /\ UNCHANGED <<dataIn, listeners, arrived, sending, dataOut, posted>>
      /\ main' = [main EXCEPT ![s] = None]
  BY DEF PostAck, routerVars
<1>2. \A t \in Sidecars, f \in Events :
          /\ Coming(t, f)' => Coming(t, f)
          /\ Out(t, f)' => Out(t, f)
          /\ InHand(t, f)' => InHand(t, f)
          /\ Given(t, f)' => Given(t, f)
  BY <1>1 DEF Coming, Out, InHand, Given, TypeOK
<1>3. OnePlace' /\ NotReached'
  BY <1>1, <1>2 DEF SingleCopies, OnePlace, NotReached, Reached
<1>4. QueuedOnce'
  BY <1>1, QueuesStay
<1>5. OneListener' /\ ArrivedOnce' /\ PutOutOnce' /\ DeliveredOnce'
  BY <1>1 DEF SingleCopies, OneListener, ArrivedOnce, PutOutOnce, DeliveredOnce
<1>. QED
  BY <1>3, <1>4, <1>5 DEF SingleCopies

LEMMA RestartOnce ==
    ASSUME TypeOK, SingleCopies, NEW s \in Sidecars, Restart(s)
    PROVE  SingleCopies'
<1>1. /\ \A t \in Sidecars : dataIn'[t] = IF t = s THEN <<>> ELSE dataIn[t]
      /\ \A t \in Sidecars : dataOut'[t] = IF t = s THEN <<>> ELSE dataOut[t]
      /\ \A t \in Sidecars, a \in Addrs : listeners'[t][a] = IF t = s THEN <<>> ELSE listeners[t][a]
  BY DEF Restart, Die, TypeOK, RouterTypeOK
<1>2. /\ UNCHANGED posted
      /\ arrived' \subseteq arrived
      /\ main' = [main EXCEPT ![s] = None]
  BY DEF Restart, Die, historyVars
<1>3. \A e \in Events : sending'[e] = sending[e] \/ (SentBy[e] = s /\ sending'[e] = "lost")
  BY DEF Restart, Die
<1>4. ASSUME NEW t \in Sidecars, NEW f \in Events
      PROVE  /\ Coming(t, f)' => Coming(t, f)
             /\ Out(t, f)' => Out(t, f)
             /\ InHand(t, f)' => InHand(t, f)
             /\ Given(t, f)' => Given(t, f)
  <2>1. Coming(t, f)' => Coming(t, f)
    BY <1>2 DEF Coming
  <2>2. Out(t, f)' => Out(t, f)
    BY <1>1 DEF Out
  <2>3. InHand(t, f)' => InHand(t, f)
    BY <1>2 DEF InHand, TypeOK
  <2>4. Given(t, f)' => Given(t, f)
    BY <1>2 DEF Given
  <2>. QED
    BY <2>1, <2>2, <2>3, <2>4
<1>5. OnePlace'
  BY <1>4 DEF SingleCopies, OnePlace
<1>6. NotReached'
  BY <1>3, <1>4 DEF SingleCopies, NotReached, Reached, NotYetSent
<1>7. QueuedOnce'
  <2>1. \A t \in Sidecars : \A n \in DOMAIN dataIn[t] :
            dataIn[t][n].type = "EVENT" => dataIn[t][n].ev \in Events
    BY RequestFields DEF TypeOK, RouterTypeOK
  <2>. QED
    BY <1>1, <1>3, <2>1 DEF SingleCopies, QueuedOnce
<1>8. OneListener'
  <2>1. Len(<<>>) <= 1
    OBVIOUS
  <2>. QED
    BY <1>1, <2>1 DEF SingleCopies, OneListener
<1>9. PutOutOnce'
  BY <1>1 DEF SingleCopies, PutOutOnce
<1>10. ArrivedOnce' /\ DeliveredOnce'
  BY <1>2 DEF SingleCopies, ArrivedOnce, DeliveredOnce
<1>. QED
  BY <1>5, <1>6, <1>7, <1>8, <1>9, <1>10 DEF SingleCopies

LEMMA LoseReceiverOnce ==
    ASSUME TypeOK, SingleCopies, NEW s \in Sidecars, NEW a \in Addrs, NEW n, LoseReceiver(s, a, n)
    PROVE  SingleCopies'
<1>1. UNCHANGED <<dataIn, arrived, sending, dataOut, main, posted>>
  BY DEF LoseReceiver, BreakReceiver, historyVars
<1>2. OneListener'
  <2>1. listeners' = [listeners EXCEPT ![s] = [listeners[s] EXCEPT ![a] =
                          [listeners[s][a] EXCEPT ![n] = "ENDED"]]]
    BY DEF LoseReceiver, BreakReceiver, TypeOK, RouterTypeOK
  <2>2. listeners'[s][a] = [listeners[s][a] EXCEPT ![n] = "ENDED"]
    BY <2>1 DEF TypeOK, RouterTypeOK
  <2>3. \A t \in Sidecars, b \in Addrs : ~(t = s /\ b = a) => listeners'[t][b] = listeners[t][b]
    BY <2>1 DEF TypeOK, RouterTypeOK
  <2>4. Len(listeners'[s][a]) = Len(listeners[s][a])
    <3>. DEFINE q == listeners[s][a]
    <3>1. q \in Seq(Callback \cup {"ENDED"})
      BY DEF TypeOK, RouterTypeOK
    <3>2. DOMAIN q = 1 .. Len(q) /\ Len(q) \in Nat
      BY <3>1
    <3>. HIDE DEF q
    <3>3. DOMAIN [q EXCEPT ![n] = "ENDED"] = 1 .. Len(q)
      BY <3>2
    <3>4. Len([q EXCEPT ![n] = "ENDED"]) = Len(q)
      BY <3>2, <3>3
    <3>. QED
      BY <2>2, <3>4 DEF q
  <2>. QED
    BY <2>3, <2>4 DEF SingleCopies, OneListener
<1>3. OnlyForward
  BY <1>1 DEF OnlyForward
<1>. QED
  BY <1>1, <1>2, <1>3, PlacesStay, QueuesStay DEF SingleCopies

LEMMA OnceInit == Init => SingleCopies
<1>. SUFFICES ASSUME Init PROVE SingleCopies
  OBVIOUS
<1>1. Len(<<>>) <= 1
  OBVIOUS
<1>2. OneListener
  BY <1>1 DEF Init, RouterInit, OneListener
<1>3. \A s \in Sidecars, e \in Events : ~Coming(s, e) /\ ~Out(s, e) /\ ~InHand(s, e) /\ ~Given(s, e)
  BY DEF Init, RouterInit, Coming, Out, InHand, Given
<1>4. OnePlace /\ NotReached
  BY <1>3 DEF OnePlace, NotReached, Reached
<1>5. QueuedOnce /\ ArrivedOnce /\ PutOutOnce /\ DeliveredOnce
  BY DEF Init, RouterInit, QueuedOnce, ArrivedOnce, PutOutOnce, DeliveredOnce
<1>. QED
  BY <1>2, <1>4, <1>5 DEF SingleCopies

LEMMA OnceNext == TypeOK /\ SingleCopies /\ [Next]_vars => SingleCopies'
<1>. SUFFICES ASSUME TypeOK, SingleCopies, [Next]_vars PROVE SingleCopies'
  OBVIOUS
<1>1. CASE UNCHANGED vars
  <2>1. UNCHANGED <<dataIn, listeners, arrived, sending, dataOut, main, posted>>
    BY <1>1 DEF vars, routerVars, historyVars
  <2>2. OnlyForward /\ OneListener'
    BY <2>1 DEF OnlyForward, SingleCopies, OneListener
  <2>. QED
    BY <2>1, <2>2, PlacesStay, QueuesStay DEF SingleCopies
<1>2. CASE Next
  <2>1. CASE \/ \E r \in Clients : Register(r) \/ SendOut(r) \/ AskStatus(r)
             \/ \E s \in Sidecars, type \in {"PRODUCER", "CONSUMER"} : DeleteAll(s, type)
             \/ \E s \in Sidecars, e \in Events : ReadPacket(s, e)
             \/ \E s \in Sidecars : ReadGarbage(s)
             \/ \E e \in Events : Publish(e) \/ QueuePacket(e)
    BY <2>1, AskedOnce
  <2>2. CASE \E s \in Sidecars, a \in Addrs : \E n \in DOMAIN listeners[s][a] : LoseReceiver(s, a, n)
    BY <2>2, LoseReceiverOnce
  <2>3. CASE \E s \in Sidecars : RouterLoop(s)
    BY <2>3, RouterLoopOnce
  <2>4. CASE \E e \in Events : SendTo(e) \/ Reported(e)
    BY <2>4, SendToOnce, ReportOnce
  <2>5. CASE \E r \in arrived : CallBack(r)
    BY <2>5, CallBackOnce
  <2>6. CASE \E s \in Sidecars : MainLoop(s)
    BY <2>6, MainTakeOnce, PostOnce, PostAckOnce DEF MainLoop
  <2>7. CASE \E s \in Sidecars : Restart(s)
    BY <2>7, RestartOnce
  <2>. QED
    BY <1>2, <2>1, <2>2, <2>3, <2>4, <2>5, <2>6, <2>7 DEF Next
<1>. QED
  BY <1>1, <1>2

\* No consumer is given an event twice, through restarts and lost connections
\* (EventDelivery!DeliveredOnce).
THEOREM AtMostOnce == Spec => []DeliveredOnce
<1>1. Init => SingleCopies
  BY OnceInit
<1>2. TypeOK /\ SingleCopies /\ [Next]_vars => SingleCopies'
  BY OnceNext
<1>3. SingleCopies => DeliveredOnce
  BY DEF SingleCopies
<1>. QED
  BY <1>1, <1>2, <1>3, TypeCorrect, PTL DEF Spec

-----------------------------------------------------------------------------
(* Links: what was answered is there, is asked for, or was refused              *)

Asks(q, r) == q.type = r[2] /\ q.addr = r[3]
InQueue(r) == \E n \in DOMAIN dataIn[r[1]] : Asks(dataIn[r[1]][n], r)

\* The sender, or why it is not there yet or never will be; Ahead(s, n, a) looks
\* only at what is before place n of the queue.
SenderThere(s, a) == a \in senders[s] \/ <<s, "PRODUCER", a>> \in refused
SenderFollows(s, a) == SenderThere(s, a) \/ InQueue(<<s, "PRODUCER", a>>)
Ahead(s, n, a) == \E m \in DOMAIN dataIn[s] : m < n /\ Asks(dataIn[s][m], <<s, "PRODUCER", a>>)

AnsweredSenders == \A r \in answered : r[2] = "PRODUCER" => SenderFollows(r[1], r[3])

ReadyInOrder ==
    \A e \in ready :
        /\ sending[e] # "new"
        /\ sending[e] = "read" => SenderFollows(SentBy[e], AddrOf[e])
        /\ \A n \in DOMAIN dataIn[SentBy[e]] :
              dataIn[SentBy[e]][n].type = "EVENT" /\ dataIn[SentBy[e]][n].ev = e
              => SenderThere(SentBy[e], AddrOf[e]) \/ Ahead(SentBy[e], n, AddrOf[e])

\* The inductive invariant of NoSilentDrop.
SendersInTime == AnsweredSenders /\ ReadyInOrder

\* Every request for a link, and every receiver, is one of the clients'.
OfClients ==
    /\ \A s \in Sidecars : \A n \in DOMAIN dataIn[s] :
          dataIn[s][n].type \in LinkTypes => <<s, dataIn[s][n].type, dataIn[s][n].addr>> \in Clients
    /\ \A s \in Sidecars, a \in Addrs : \A n \in DOMAIN listeners[s][a] :
          /\ listeners[s][a][n] = "EVENT" => <<s, "CONSUMER", a>> \in Clients
          /\ listeners[s][a][n] = "STATUS" => <<s, "STATUS", a>> \in Clients

\* No sidecar uses one address for events and for status.
SeparateAddresses ==
    \A s \in Sidecars, a \in Addrs : ~(<<s, "CONSUMER", a>> \in Clients /\ <<s, "STATUS", a>> \in Clients)

LinksGrow ==
    /\ \A s \in Sidecars : senders[s] \subseteq senders'[s]
    /\ refused \subseteq refused'

LEMMA SenderStays ==
    ASSUME LinksGrow
    PROVE  \A s \in Sidecars : \A a : SenderThere(s, a) => SenderThere(s, a)'
BY DEF LinksGrow, SenderThere

\* No event becomes one that is yet to be queued.
NoneYetToQueue == \A e \in Events : sending'[e] \in {"new", "read"} => sending'[e] = sending[e]

LEMMA SendersStay ==
    ASSUME TypeOK, SendersInTime, LinksGrow, NoneYetToQueue, UNCHANGED <<dataIn, ready>>,
           answered' \subseteq answered
    PROVE  SendersInTime'
<1>1. \A s \in Sidecars : \A a : SenderFollows(s, a) => SenderFollows(s, a)'
  BY SenderStays DEF SenderFollows, InQueue
<1>2. AnsweredSenders'
  BY <1>1, ClientParts DEF SendersInTime, AnsweredSenders, TypeOK
<1>3. \A s, n, a : Ahead(s, n, a) => Ahead(s, n, a)'
  BY DEF Ahead
<1>4. ReadyInOrder'
  BY <1>1, <1>3, SenderStays, RouterAssumption DEF SendersInTime, ReadyInOrder, NoneYetToQueue, TypeOK
<1>. QED
  BY <1>2, <1>4 DEF SendersInTime

LEMMA SendOutInTime ==
    ASSUME TypeOK, SendersInTime, NEW r \in Clients, SendOut(r) \/ AskStatus(r)
    PROVE  SendersInTime'
<1>. DEFINE q == [type |-> r[2], addr |-> r[3], ev |-> None]
<1>1. /\ r[1] \in Sidecars /\ q \in Request /\ q.type # "EVENT" /\ r = <<r[1], r[2], r[3]>>
      /\ q.type = r[2] /\ q.addr = r[3]
  BY ClientParts, LinkRequestType DEF LinkTypes
<1>2. /\ Enqueue(r[1], q)
      /\ UNCHANGED <<senders, refused, sending, ready>>
      /\ answered' = answered \cup {r}
  BY DEF SendOut, AskStatus, AskLink, historyVars
<1>. HIDE DEF q
<1>3. RouterTypeOK
  BY DEF TypeOK
<1>4. \A s \in Sidecars : \A a : SenderThere(s, a) => SenderThere(s, a)'
  BY <1>2 DEF SenderThere
<1>5. \A s \in Sidecars : \A a : SenderFollows(s, a) => SenderFollows(s, a)'
  BY <1>1, <1>2, <1>3, <1>4, EnqueuedAt DEF SenderFollows, InQueue
<1>6. InQueue(r)'
  BY <1>1, <1>2, <1>3, EnqueuedAt DEF InQueue, Asks
<1>7. AnsweredSenders'
  BY <1>1, <1>2, <1>5, <1>6, ClientParts DEF SendersInTime, AnsweredSenders, TypeOK, SenderFollows
<1>8. ReadyInOrder'
  <2>. SUFFICES ASSUME NEW e \in ready
                PROVE  /\ sending[e] # "new"
                       /\ sending[e] = "read" => SenderFollows(SentBy[e], AddrOf[e])'
                       /\ \A n \in DOMAIN dataIn'[SentBy[e]] :
                             dataIn'[SentBy[e]][n].type = "EVENT" /\ dataIn'[SentBy[e]][n].ev = e
                             => SenderThere(SentBy[e], AddrOf[e])' \/ Ahead(SentBy[e], n, AddrOf[e])'
    BY <1>2 DEF ReadyInOrder
  <2>1. SentBy[e] \in Sidecars
    BY RouterAssumption DEF TypeOK
  <2>2. sending[e] # "new" /\ (sending[e] = "read" => SenderFollows(SentBy[e], AddrOf[e])')
    BY <1>5, <2>1 DEF SendersInTime, ReadyInOrder
  <2>3. ASSUME NEW n \in DOMAIN dataIn'[SentBy[e]],
               dataIn'[SentBy[e]][n].type = "EVENT", dataIn'[SentBy[e]][n].ev = e
        PROVE  SenderThere(SentBy[e], AddrOf[e])' \/ Ahead(SentBy[e], n, AddrOf[e])'
    <3>1. n \in DOMAIN dataIn[SentBy[e]] /\ dataIn'[SentBy[e]][n] = dataIn[SentBy[e]][n]
      BY <1>1, <1>2, <1>3, <2>1, <2>3, EnqueuedAt
    <3>2. SenderThere(SentBy[e], AddrOf[e]) \/ Ahead(SentBy[e], n, AddrOf[e])
      BY <2>3, <3>1 DEF SendersInTime, ReadyInOrder
    <3>3. Ahead(SentBy[e], n, AddrOf[e]) => Ahead(SentBy[e], n, AddrOf[e])'
      BY <1>1, <1>2, <1>3, <2>1, EnqueuedAt DEF Ahead
    <3>. QED
      BY <1>4, <2>1, <3>2, <3>3
  <2>. QED
    BY <2>2, <2>3
<1>. QED
  BY <1>7, <1>8 DEF SendersInTime

\* The request of an event that is ready joins the queue behind the one for its
\* sender.
LEMMA PublishInTime ==
    ASSUME TypeOK, SingleCopies, SendersInTime, NEW e \in Events, Publish(e) \/ QueuePacket(e)
    PROVE  SendersInTime'
<1>. DEFINE s == SentBy[e]
<1>. DEFINE q == [type |-> "EVENT", addr |-> AddrOf[e], ev |-> e]
<1>1. /\ s \in Sidecars /\ AddrOf[e] \in Addrs /\ q \in Request
      /\ q.type = "EVENT" /\ q.ev = e
  BY EventRequestType, RouterAssumption
<1>2. /\ Enqueue(s, q)
      /\ UNCHANGED <<senders, refused, answered>>
      /\ sending[e] \in {"new", "read"}
      /\ ready' \subseteq ready \cup {e}
      /\ Advance(e, "queued")
  BY DEF Publish, QueuePacket, AskSend, MarkReady, historyVars
<1>. HIDE DEF q
<1>3. RouterTypeOK
  BY DEF TypeOK
<1>4. \A f \in Events : sending'[f] = IF f = e THEN "queued" ELSE sending[f]
  BY <1>2, <1>3, AdvanceTyped DEF Progress
<1>5. \A t \in Sidecars : \A a : SenderThere(t, a) => SenderThere(t, a)'
  BY <1>2 DEF SenderThere
<1>6. \A t \in Sidecars : \A a : SenderFollows(t, a) => SenderFollows(t, a)'
  BY <1>1, <1>2, <1>3, <1>5, EnqueuedAt DEF SenderFollows, InQueue
<1>7. AnsweredSenders'
  BY <1>2, <1>6, ClientParts DEF SendersInTime, AnsweredSenders, TypeOK
<1>8. e \in ready' => SenderFollows(s, AddrOf[e])
  <2>1. CASE e \in ready
    BY <1>2, <2>1 DEF SendersInTime, ReadyInOrder
  <2>2. CASE e \notin ready
    <3>1. e \in ready' => <<s, "PRODUCER", AddrOf[e]>> \in answered
      BY <2>2 DEF Publish, QueuePacket, MarkReady, historyVars
    <3>. QED
      BY <3>1 DEF SendersInTime, AnsweredSenders
  <2>. QED
    BY <2>1, <2>2
<1>9. ReadyInOrder'
  <2>. SUFFICES ASSUME NEW f \in ready'
                PROVE  /\ sending'[f] # "new"
                       /\ sending'[f] = "read" => SenderFollows(SentBy[f], AddrOf[f])'
                       /\ \A n \in DOMAIN dataIn'[SentBy[f]] :
                             dataIn'[SentBy[f]][n].type = "EVENT" /\ dataIn'[SentBy[f]][n].ev = f
                             => SenderThere(SentBy[f], AddrOf[f])' \/ Ahead(SentBy[f], n, AddrOf[f])'
    BY DEF ReadyInOrder
  <2>1. f \in Events /\ SentBy[f] \in Sidecars /\ (f # e => f \in ready)
    BY <1>2, RouterAssumption DEF TypeOK
  <2>2. sending'[f] # "new" /\ (sending'[f] = "read" => SenderFollows(SentBy[f], AddrOf[f])')
    BY <1>4, <1>6, <2>1 DEF SendersInTime, ReadyInOrder
  <2>3. ASSUME NEW n \in DOMAIN dataIn'[SentBy[f]],
               dataIn'[SentBy[f]][n].type = "EVENT", dataIn'[SentBy[f]][n].ev = f
        PROVE  SenderThere(SentBy[f], AddrOf[f])' \/ Ahead(SentBy[f], n, AddrOf[f])'
    <3>1. CASE n \in DOMAIN dataIn[SentBy[f]] /\ dataIn'[SentBy[f]][n] = dataIn[SentBy[f]][n] /\ f \in ready
      <4>1. SenderThere(SentBy[f], AddrOf[f]) \/ Ahead(SentBy[f], n, AddrOf[f])
        BY <2>3, <3>1 DEF SendersInTime, ReadyInOrder
      <4>2. Ahead(SentBy[f], n, AddrOf[f]) => Ahead(SentBy[f], n, AddrOf[f])'
        BY <1>1, <1>2, <1>3, <2>1, EnqueuedAt DEF Ahead
      <4>. QED
        BY <1>5, <2>1, <4>1, <4>2
    <3>2. CASE f = e /\ n = Len(dataIn[s]) + 1
      <4>1. SenderFollows(s, AddrOf[e])
        BY <1>8, <3>2
      <4>2. InQueue(<<s, "PRODUCER", AddrOf[e]>>) => Ahead(s, n, AddrOf[e])'
        BY <1>1, <1>2, <1>3, <3>2, EnqueuedAt DEF InQueue, Ahead
      <4>. QED
        BY <1>1, <1>5, <3>2, <4>1, <4>2 DEF SenderFollows
    <3>3. CASE f = e /\ n \in DOMAIN dataIn[s] /\ dataIn'[s][n] = dataIn[s][n] /\ f \notin ready
      BY <1>1, <1>2, <2>3, <3>3 DEF SingleCopies, QueuedOnce
    <3>. QED
      BY <1>1, <1>2, <1>3, <2>1, <2>3, <3>1, <3>2, <3>3, EnqueuedAt
  <2>. QED
    BY <2>2, <2>3
<1>. QED
  BY <1>7, <1>9 DEF SendersInTime

LEMMA ReadPacketInTime ==
    ASSUME TypeOK, SingleCopies, SendersInTime, NEW s \in Sidecars, NEW e \in Events, ReadPacket(s, e)
    PROVE  SendersInTime'
<1>1. /\ UNCHANGED <<dataIn, senders, refused, answered>>
      /\ s = SentBy[e] /\ sending[e] = "new"
      /\ ready' = IF <<s, "PRODUCER", AddrOf[e]>> \in answered THEN ready \cup {e} ELSE ready
  BY DEF ReadPacket, Make, MarkReady
<1>2. \A f \in Events : sending'[f] = IF f = e THEN "read" ELSE sending[f]
  BY AdvanceTyped DEF ReadPacket, Make, TypeOK, Progress
<1>3. /\ \A t, a : SenderFollows(t, a) => SenderFollows(t, a)'
      /\ \A t, a : SenderThere(t, a) => SenderThere(t, a)'
      /\ \A t, n, a : Ahead(t, n, a) => Ahead(t, n, a)'
  BY <1>1 DEF SenderFollows, SenderThere, InQueue, Ahead
<1>4. AnsweredSenders'
  BY <1>1, <1>3 DEF SendersInTime, AnsweredSenders
<1>5. e \in ready' => SenderFollows(s, AddrOf[e])
  BY <1>1 DEF SendersInTime, AnsweredSenders, ReadyInOrder
<1>6. ReadyInOrder'
  <2>. SUFFICES ASSUME NEW f \in ready'
                PROVE  /\ sending'[f] # "new"
                       /\ sending'[f] = "read" => SenderFollows(SentBy[f], AddrOf[f])'
                       /\ \A n \in DOMAIN dataIn'[SentBy[f]] :
                             dataIn'[SentBy[f]][n].type = "EVENT" /\ dataIn'[SentBy[f]][n].ev = f
                             => SenderThere(SentBy[f], AddrOf[f])' \/ Ahead(SentBy[f], n, AddrOf[f])'
    BY DEF ReadyInOrder
  <2>1. f \in Events /\ (f # e => f \in ready)
    BY <1>1 DEF TypeOK
  <2>2. CASE f = e
    <3>1. \A n \in DOMAIN dataIn[s] : ~(dataIn[s][n].type = "EVENT" /\ dataIn[s][n].ev = e)
      BY <1>1 DEF SingleCopies, QueuedOnce
    <3>. QED
      BY <1>1, <1>2, <1>3, <1>5, <2>2, <3>1
  <2>3. CASE f # e
    BY <1>1, <1>2, <1>3, <2>1, <2>3 DEF SendersInTime, ReadyInOrder
  <2>. QED
    BY <2>2, <2>3
<1>. QED
  BY <1>4, <1>6 DEF SendersInTime

\* When the request for a sender is taken there is a sender, or it was refused.
LEMMA RouterLoopInTime ==
    ASSUME TypeOK, SendersInTime, NEW s \in Sidecars, RouterLoop(s)
    PROVE  SendersInTime'
<1>1. RouterTypeOK /\ UNCHANGED <<answered, ready>>
  BY DEF TypeOK, RouterLoop, RouterOnly, historyVars
<1>2. PICK types : TakeRequest(s, types)
  BY DEF RouterLoop, Route, TakeConsumer, TakeStatusRequest, TakeProducer, TakeEvent
<1>3. PICK h \in Request : h = Head(dataIn[s])
  BY <1>1, <1>2, TakeRequestType
<1>4. LinksGrow /\ (h.type = "PRODUCER" => SenderThere(s, h.addr)')
  <2>1. CASE TakeConsumer(s) \/ TakeStatusRequest(s)
    BY <1>3, <2>1 DEF TakeConsumer, TakeStatusRequest, TakeRequest, Refuse, LinksGrow
  <2>2. CASE TakeProducer(s)
    <3>1. CASE senders' = [senders EXCEPT ![s] = senders[s] \cup {h.addr}] /\ UNCHANGED refused
      BY <1>1, <3>1 DEF RouterTypeOK, LinksGrow, SenderThere
    <3>2. CASE Refuse(s, h) /\ UNCHANGED senders
      BY <3>2 DEF Refuse, LinksGrow, SenderThere
    <3>. QED
      BY <1>3, <2>2, <3>1, <3>2 DEF TakeProducer
  <2>3. CASE TakeEvent(s)
    BY <1>3, <2>3 DEF TakeEvent, TakeRequest, LinksGrow
  <2>. QED
    BY <2>1, <2>2, <2>3 DEF RouterLoop, Route
<1>5. NoneYetToQueue
  <2>1. CASE TakeEvent(s)
    <3>1. h.ev \in Events
      BY <1>1, <1>3, <2>1, TakeRequestType, RequestFields DEF TakeEvent
    <3>2. \E step \in {"sending", "dropped"} : Advance(h.ev, step)
      BY <1>3, <2>1 DEF TakeEvent
    <3>. QED
      BY <1>1, <3>1, <3>2, AdvanceTyped DEF NoneYetToQueue, Progress
  <2>2. CASE UNCHANGED sending
    BY <2>2 DEF NoneYetToQueue
  <2>. QED
    BY <2>1, <2>2 DEF RouterLoop, Route, TakeConsumer, TakeStatusRequest, TakeProducer
<1>6. \A t \in Sidecars : \A a : SenderFollows(t, a) => SenderFollows(t, a)'
  <2>. TAKE t \in Sidecars
  <2>. TAKE a
  <2>1. ASSUME InQueue(<<t, "PRODUCER", a>>)
        PROVE  SenderThere(t, a)' \/ InQueue(<<t, "PRODUCER", a>>)'
    <3>1. PICK n \in DOMAIN dataIn[t] : dataIn[t][n].type = "PRODUCER" /\ dataIn[t][n].addr = a
      BY <2>1 DEF InQueue, Asks
    <3>2. CASE t # s
      BY <1>1, <1>2, <3>1, <3>2, TakenAt DEF InQueue, Asks
    <3>3. CASE t = s /\ n = 1
      BY <1>1, <1>2, <1>3, <1>4, <3>1, <3>3, TakenAt
    <3>4. CASE t = s /\ n # 1
      BY <1>1, <1>2, <3>1, <3>4, TakenAt DEF InQueue, Asks
    <3>. QED
      BY <3>2, <3>3, <3>4
  <2>. QED
    BY <1>4, <2>1, SenderStays DEF SenderFollows
<1>7. ASSUME NEW t \in Sidecars, NEW n \in DOMAIN dataIn'[t], NEW a
      PROVE  \E k \in DOMAIN dataIn[t] :
                /\ dataIn'[t][n] = dataIn[t][k]
                /\ Ahead(t, k, a) => SenderThere(t, a)' \/ Ahead(t, n, a)'
  <2>1. CASE t # s
    BY <1>1, <1>2, <2>1, TakenAt DEF Ahead
  <2>2. CASE t = s
    <3>1. n \in Nat /\ n + 1 \in DOMAIN dataIn[s] /\ dataIn'[s][n] = dataIn[s][n + 1]
      BY <1>1, <1>2, <2>2, TakenAt
    <3>2. ASSUME Ahead(s, n + 1, a)
          PROVE  SenderThere(s, a)' \/ Ahead(s, n, a)'
      <4>1. PICK m \in DOMAIN dataIn[s] :
                m < n + 1 /\ dataIn[s][m].type = "PRODUCER" /\ dataIn[s][m].addr = a
        BY <3>2 DEF Ahead, Asks
      <4>2. CASE m = 1
        BY <1>1, <1>2, <1>3, <1>4, <4>1, <4>2, TakenAt
      <4>3. CASE m # 1
        <5>1. m \in Nat /\ m - 1 \in DOMAIN dataIn'[s] /\ dataIn'[s][m - 1] = dataIn[s][m]
          BY <1>1, <1>2, <4>3, TakenAt
        <5>2. m - 1 < n
          BY <3>1, <4>1, <5>1
        <5>. QED
          BY <4>1, <5>1, <5>2 DEF Ahead, Asks
      <4>. QED
        BY <4>2, <4>3
    <3>. QED
      BY <2>2, <3>1, <3>2
  <2>. QED
    BY <2>1, <2>2
<1>8. AnsweredSenders'
  BY <1>1, <1>6, ClientParts DEF SendersInTime, AnsweredSenders, TypeOK
<1>9. ReadyInOrder'
  <2>. SUFFICES ASSUME NEW e \in ready
                PROVE  /\ sending'[e] # "new"
                       /\ sending'[e] = "read" => SenderFollows(SentBy[e], AddrOf[e])'
                       /\ \A n \in DOMAIN dataIn'[SentBy[e]] :
                             dataIn'[SentBy[e]][n].type = "EVENT" /\ dataIn'[SentBy[e]][n].ev = e
                             => SenderThere(SentBy[e], AddrOf[e])' \/ Ahead(SentBy[e], n, AddrOf[e])'
    BY <1>1 DEF ReadyInOrder
  <2>1. e \in Events /\ SentBy[e] \in Sidecars
    BY RouterAssumption DEF TypeOK
  <2>2. sending'[e] # "new" /\ (sending'[e] = "read" => SenderFollows(SentBy[e], AddrOf[e])')
    BY <1>5, <1>6, <2>1 DEF SendersInTime, ReadyInOrder, NoneYetToQueue
  <2>3. ASSUME NEW n \in DOMAIN dataIn'[SentBy[e]],
               dataIn'[SentBy[e]][n].type = "EVENT", dataIn'[SentBy[e]][n].ev = e
        PROVE  SenderThere(SentBy[e], AddrOf[e])' \/ Ahead(SentBy[e], n, AddrOf[e])'
    <3>1. PICK k \in DOMAIN dataIn[SentBy[e]] :
              /\ dataIn'[SentBy[e]][n] = dataIn[SentBy[e]][k]
              /\ Ahead(SentBy[e], k, AddrOf[e])
                 => SenderThere(SentBy[e], AddrOf[e])' \/ Ahead(SentBy[e], n, AddrOf[e])'
      BY <1>7, <2>1
    <3>2. SenderThere(SentBy[e], AddrOf[e]) \/ Ahead(SentBy[e], k, AddrOf[e])
      BY <2>3, <3>1 DEF SendersInTime, ReadyInOrder
    <3>. QED
      BY <1>4, <2>1, <3>1, <3>2, SenderStays
  <2>. QED
    BY <2>2, <2>3
<1>. QED
  BY <1>8, <1>9 DEF SendersInTime

\* A sidecar that dies takes its queue, its links and its events with it.
LEMMA RestartInTime ==
    ASSUME TypeOK, SingleCopies, SendersInTime, NEW s \in Sidecars, Restart(s)
    PROVE  SendersInTime'
<1>1. /\ \A t \in Sidecars : dataIn'[t] = IF t = s THEN <<>> ELSE dataIn[t]
      /\ \A t \in Sidecars : t # s => senders'[t] = senders[t]
      /\ \A t, type, a : t # s /\ <<t, type, a>> \in refused => <<t, type, a>> \in refused'
      /\ answered' = {r \in answered : r[1] # s}
      /\ UNCHANGED ready
  BY DEF Restart, Die, TypeOK, RouterTypeOK, historyVars
<1>2. \A e \in Events :
          sending'[e] = IF SentBy[e] = s /\ sending[e] \notin {"new", "dropped", "accepted", "reported"}
                        THEN "lost" ELSE sending[e]
  BY DEF Restart, Die
<1>3. ASSUME NEW t \in Sidecars, t # s, NEW a
      PROVE  /\ SenderThere(t, a) => SenderThere(t, a)'
             /\ SenderFollows(t, a) => SenderFollows(t, a)'
             /\ \A n : Ahead(t, n, a) => Ahead(t, n, a)'
  BY <1>1, <1>3 DEF SenderThere, SenderFollows, InQueue, Ahead
<1>4. AnsweredSenders'
  BY <1>1, <1>3, ClientParts DEF SendersInTime, AnsweredSenders, TypeOK
<1>5. ReadyInOrder'
  <2>. SUFFICES ASSUME NEW e \in ready
                PROVE  /\ sending'[e] # "new"
                       /\ sending'[e] = "read" => SenderFollows(SentBy[e], AddrOf[e])'
                       /\ \A n \in DOMAIN dataIn'[SentBy[e]] :
                             dataIn'[SentBy[e]][n].type = "EVENT" /\ dataIn'[SentBy[e]][n].ev = e
                             => SenderThere(SentBy[e], AddrOf[e])' \/ Ahead(SentBy[e], n, AddrOf[e])'
    BY <1>1 DEF ReadyInOrder
  <2>1. e \in Events /\ SentBy[e] \in Sidecars
    BY RouterAssumption DEF TypeOK
  <2>2. sending'[e] # "new"
    BY <1>2, <2>1 DEF SendersInTime, ReadyInOrder
  <2>3. CASE SentBy[e] = s
    BY <1>1, <1>2, <2>1, <2>2, <2>3
  <2>4. CASE SentBy[e] # s
    <3>1. dataIn'[SentBy[e]] = dataIn[SentBy[e]] /\ sending'[e] = sending[e]
      BY <1>1, <1>2, <2>1, <2>4
    <3>2. sending'[e] = "read" => SenderFollows(SentBy[e], AddrOf[e])'
      BY <1>3, <2>1, <2>4, <3>1 DEF SendersInTime, ReadyInOrder
    <3>3. ASSUME NEW n \in DOMAIN dataIn[SentBy[e]],
                 dataIn[SentBy[e]][n].type = "EVENT", dataIn[SentBy[e]][n].ev = e
          PROVE  SenderThere(SentBy[e], AddrOf[e])' \/ Ahead(SentBy[e], n, AddrOf[e])'
      <4>1. SenderThere(SentBy[e], AddrOf[e]) \/ Ahead(SentBy[e], n, AddrOf[e])
        BY <3>3 DEF SendersInTime, ReadyInOrder
      <4>. QED
        BY <1>3, <2>1, <2>4, <4>1
    <3>. QED
      BY <2>2, <3>1, <3>2, <3>3
  <2>. QED
    BY <2>3, <2>4
<1>. QED
  BY <1>4, <1>5 DEF SendersInTime

LEMMA InTimeInit == Init => SendersInTime
BY DEF Init, RouterInit, SendersInTime, AnsweredSenders, ReadyInOrder

LEMMA InTimeNext == TypeOK /\ SingleCopies /\ SendersInTime /\ [Next]_vars => SendersInTime'
<1>. SUFFICES ASSUME TypeOK, SingleCopies, SendersInTime, [Next]_vars PROVE SendersInTime'
  OBVIOUS
<1>0. /\ UNCHANGED <<senders, refused>> => LinksGrow
      /\ UNCHANGED sending => NoneYetToQueue
  BY DEF LinksGrow, NoneYetToQueue
<1>1. CASE UNCHANGED vars
  BY <1>0, <1>1, SendersStay DEF vars, routerVars, historyVars
<1>2. CASE Next
  <2>1. CASE \/ \E r \in Clients : Register(r)
             \/ \E s \in Sidecars, type \in {"PRODUCER", "CONSUMER"} : DeleteAll(s, type)
             \/ \E s \in Sidecars : ReadGarbage(s)
    <3>1. UNCHANGED <<dataIn, ready, senders, refused, sending>> /\ answered' \subseteq answered
      BY <2>1 DEF Register, DeleteAll, ReadGarbage, routerVars, historyVars
    <3>. QED
      BY <1>0, <3>1, SendersStay
  <2>2. CASE \E r \in Clients : SendOut(r) \/ AskStatus(r)
    BY <2>2, SendOutInTime
  <2>3. CASE \E s \in Sidecars, e \in Events : ReadPacket(s, e)
    BY <2>3, ReadPacketInTime
  <2>4. CASE \E e \in Events : Publish(e) \/ QueuePacket(e)
    BY <2>4, PublishInTime
  <2>5. CASE \E s \in Sidecars : RouterLoop(s)
    BY <2>5, RouterLoopInTime
  <2>6. CASE \E e \in Events : SendTo(e) \/ Reported(e)
    <3>1. PICK e \in Events : SendTo(e) \/ Reported(e)
      BY <2>6
    <3>2. /\ UNCHANGED <<dataIn, ready, senders, refused, answered>>
          /\ \E step \in {"sent", "accepted", "undelivered", "rejected", "reported"} : Advance(e, step)
      BY <3>1 DEF SendTo, Reported, Transmit, Accepted, Undelivered, Rejected, Report,
                  RouterOnly, historyVars
    <3>3. NoneYetToQueue
      BY <3>2, AdvanceTyped DEF NoneYetToQueue, Progress, TypeOK
    <3>. QED
      BY <1>0, <3>2, <3>3, SendersStay
  <2>7. CASE \/ \E r \in arrived : CallBack(r)
             \/ \E s \in Sidecars : MainLoop(s)
             \/ \E s \in Sidecars, a \in Addrs : \E n \in DOMAIN listeners[s][a] : LoseReceiver(s, a, n)
    <3>1. UNCHANGED <<dataIn, ready, senders, refused, sending, answered>>
      BY <2>7 DEF CallBack, PutOut, MainLoop, MainTake, TakeOutput, Post, PostAck, LoseReceiver,
                  BreakReceiver, RouterOnly, routerVars, historyVars
    <3>. QED
      BY <1>0, <3>1, SendersStay
  <2>8. CASE \E s \in Sidecars : Restart(s)
    BY <2>8, RestartInTime
  <2>. QED
    BY <1>2, <2>1, <2>2, <2>3, <2>4, <2>5, <2>6, <2>7, <2>8 DEF Next
<1>. QED
  BY <1>1, <1>2

\* What is dropped is the event at the head of a queue without a sender for it.
LEMMA DropsOnlyRefused ==
    ASSUME TypeOK, SingleCopies, SendersInTime, [Next]_vars,
           NEW e \in ready, sending[e] # "dropped", sending'[e] = "dropped"
    PROVE  <<SentBy[e], "PRODUCER", AddrOf[e]>> \in refused
<1>0. e \in Events /\ RouterTypeOK
  BY DEF TypeOK
<1>1. \E s \in Sidecars : TakeEvent(s)
  <2>1. ASSUME NEW f \in Events, NEW step \in Progress \ {"dropped"}, Advance(f, step)
        PROVE  FALSE
    BY <1>0, <2>1, AdvanceTyped
  <2>2. ~UNCHANGED sending
    OBVIOUS
  <2>3. ~(\E s \in Sidecars : Restart(s))
    BY <1>0 DEF Restart, Die
  <2>4. ~(\E s \in Sidecars, f \in Events : ReadPacket(s, f))
    BY <2>1 DEF ReadPacket, Make, Progress
  <2>5. ~(\E f \in Events : Publish(f) \/ QueuePacket(f) \/ SendTo(f) \/ Reported(f))
    BY <2>1 DEF Publish, QueuePacket, AskSend, SendTo, Transmit, Accepted, Undelivered, Rejected,
                Reported, Report, Progress
  <2>6. ~(\E r \in Clients : Register(r) \/ SendOut(r) \/ AskStatus(r))
    BY <2>2 DEF Register, SendOut, AskStatus, AskLink, routerVars
  <2>7. ~(\/ \E s \in Sidecars, type \in {"PRODUCER", "CONSUMER"} : DeleteAll(s, type)
          \/ \E s \in Sidecars : ReadGarbage(s))
    BY <2>2 DEF DeleteAll, ReadGarbage, routerVars
  <2>8. ~(\E s \in Sidecars, a \in Addrs : \E n \in DOMAIN listeners[s][a] : LoseReceiver(s, a, n))
    BY <2>2 DEF LoseReceiver, BreakReceiver
  <2>9. ~(\E r \in arrived : CallBack(r)) /\ ~(\E s \in Sidecars : MainLoop(s))
    BY <2>2 DEF CallBack, PutOut, MainLoop, MainTake, TakeOutput, Post, PostAck, routerVars
  <2>10. ~UNCHANGED vars
    BY <2>2 DEF vars, routerVars
  <2>11. \E s \in Sidecars : RouterLoop(s)
    BY <2>3, <2>4, <2>5, <2>6, <2>7, <2>8, <2>9, <2>10 DEF Next
  <2>. QED
    BY <2>2, <2>11 DEF RouterLoop, Route, TakeConsumer, TakeStatusRequest, TakeProducer
<1>2. PICK s \in Sidecars : TakeEvent(s)
  BY <1>1
<1>. DEFINE h == Head(dataIn[s])
<1>3. /\ h \in Request /\ h.type = "EVENT" /\ h.ev \in Events /\ h.addr = AddrOf[h.ev]
      /\ 1 \in DOMAIN dataIn[s] /\ h = dataIn[s][1]
      /\ \A m \in DOMAIN dataIn[s] : m \in Nat /\ ~(m < 1)
  <2>1. h \in Request /\ h.type = "EVENT" /\ TakeRequest(s, {"EVENT"})
    BY <1>0, <1>2, TakeRequestType DEF TakeEvent
  <2>2. dataIn[s] \in Seq(Request) /\ dataIn[s] # <<>>
    BY <1>0, <2>1 DEF RouterTypeOK, TakeRequest
  <2>3. 1 \in DOMAIN dataIn[s] /\ h = dataIn[s][1]
    BY <2>2, TailMembers
  <2>4. \A m \in DOMAIN dataIn[s] : m \in Nat /\ ~(m < 1)
    BY <2>2
  <2>. QED
    BY <2>1, <2>3, <2>4, RequestFields
<1>4. /\ e = h.ev
      /\ h.addr \notin senders[s]
  <2>1. PICK step \in {"sending", "dropped"} :
            Advance(h.ev, step) /\ (step = "dropped" => h.addr \notin senders[s])
    BY <1>2 DEF TakeEvent
  <2>. QED
    BY <1>0, <1>3, <2>1, AdvanceTyped DEF Progress
<1>5. SentBy[e] = s
  BY <1>3, <1>4 DEF SingleCopies, QueuedOnce
<1>6. SenderThere(s, AddrOf[e]) \/ Ahead(s, 1, AddrOf[e])
  BY <1>3, <1>4, <1>5 DEF SendersInTime, ReadyInOrder
<1>. QED
  BY <1>3, <1>4, <1>5, <1>6 DEF SenderThere, Ahead

\* The router drops no event whose publisher had been answered, unless its sender
\* was refused (EventDelivery!NoSilentDrop).
THEOREM DropsOnlyWithoutSender == Spec => NoSilentDrop
<1>1. Init => SingleCopies /\ SendersInTime
  BY OnceInit, InTimeInit
<1>2. TypeOK /\ SingleCopies /\ SendersInTime /\ [Next]_vars => SingleCopies' /\ SendersInTime'
  BY OnceNext, InTimeNext
<1>3. TypeOK /\ SingleCopies /\ SendersInTime /\ [Next]_vars
      => [\A e \in ready :
            sending[e] # "dropped" /\ sending'[e] = "dropped"
            => <<SentBy[e], "PRODUCER", AddrOf[e]>> \in refused]_vars
  BY DropsOnlyRefused
<1>. QED
  BY <1>1, <1>2, <1>3, TypeCorrect, PTL DEF Spec, NoSilentDrop

-----------------------------------------------------------------------------
(* LinksFollow, where no sidecar uses one address for events and for status     *)

Linked(r) == HasLink(r) \/ HasEnded(r) \/ r \in refused

LEMMA FollowsMeans ==
    LinksFollow <=> \A r \in answered : Linked(r) \/ InQueue(r)
BY DEF LinksFollow, Linked, InQueue, Asks

\* A callback stays, or its receiver has ended.
CallbacksStay ==
    \A s \in Sidecars, a \in Addrs, callback \in Callback \cup {"ENDED"} :
        HasCallback(s, a, callback) => HasCallback(s, a, callback)' \/ HasCallback(s, a, "ENDED")'

LEMMA LinkedStays ==
    ASSUME LinksGrow, CallbacksStay, NEW r \in Clients, Linked(r)
    PROVE  Linked(r)'
<1>1. r[1] \in Sidecars /\ r[2] \in LinkTypes /\ r[3] \in Addrs
  BY ClientParts
<1>2. CASE r \in refused
  BY <1>2 DEF LinksGrow, Linked
<1>3. CASE HasEnded(r)
  BY <1>1, <1>3 DEF CallbacksStay, Linked, HasEnded
<1>4. CASE HasLink(r)
  BY <1>1, <1>4 DEF LinksGrow, CallbacksStay, Linked, HasLink, HasEnded, LinkTypes, Callback
<1>. QED
  BY <1>2, <1>3, <1>4 DEF Linked

LEMMA CallbacksUnchanged ==
    ASSUME UNCHANGED listeners
    PROVE  CallbacksStay
BY DEF CallbacksStay, HasCallback

LEMMA StartedCallbacks ==
    ASSUME TypeOK, NEW s \in Sidecars, NEW a \in Addrs, NEW callback \in Callback,
           StartReceiver(s, a, callback)
    PROVE  CallbacksStay /\ HasCallback(s, a, callback)'
<1>1. /\ \A t \in Sidecars, b \in Addrs :
            listeners'[t][b] = IF t = s /\ b = a THEN Append(listeners[s][a], callback)
                                                 ELSE listeners[t][b]
      /\ listeners[s][a] \in Seq(Callback \cup {"ENDED"})
  <2>1. RouterTypeOK
    BY DEF TypeOK
  <2>2. listeners[s][a] \in Seq(Callback \cup {"ENDED"})
    BY <2>1 DEF RouterTypeOK
  <2>. QED
    BY <2>1, <2>2, StartReceiverTyped
<1>2. listeners'[s][a] = Append(listeners[s][a], callback)
  BY <1>1
<1>3. /\ \A n \in DOMAIN listeners[s][a] : n \in DOMAIN listeners'[s][a] /\ listeners'[s][a][n] = listeners[s][a][n]
      /\ Len(listeners[s][a]) + 1 \in DOMAIN listeners'[s][a]
      /\ listeners'[s][a][Len(listeners[s][a]) + 1] = callback
  BY <1>1, <1>2, AppendMembers
<1>4. HasCallback(s, a, callback)'
  BY <1>3 DEF HasCallback
<1>5. ASSUME NEW t \in Sidecars, NEW b \in Addrs, NEW cb, HasCallback(t, b, cb)
      PROVE  HasCallback(t, b, cb)'
  <2>1. CASE t = s /\ b = a
    BY <1>3, <1>5, <2>1 DEF HasCallback
  <2>2. CASE ~(t = s /\ b = a)
    BY <1>1, <1>5, <2>2 DEF HasCallback
  <2>. QED
    BY <2>1, <2>2
<1>. QED
  BY <1>4, <1>5 DEF CallbacksStay

LEMMA BrokenCallbacks ==
    ASSUME TypeOK, NEW s \in Sidecars, NEW a \in Addrs, NEW n, BreakReceiver(s, a, n)
    PROVE  /\ CallbacksStay
           /\ \A t \in Sidecars, b \in Addrs : \A k \in DOMAIN listeners'[t][b] :
                 k \in DOMAIN listeners[t][b] /\ listeners'[t][b][k] \in {listeners[t][b][k], "ENDED"}
<1>1. listeners' = [listeners EXCEPT ![s] = [listeners[s] EXCEPT ![a] =
                        [listeners[s][a] EXCEPT ![n] = "ENDED"]]]
  BY DEF BreakReceiver, TypeOK, RouterTypeOK
<1>2. listeners'[s][a] = [listeners[s][a] EXCEPT ![n] = "ENDED"]
  BY <1>1 DEF TypeOK, RouterTypeOK
<1>3. \A t \in Sidecars, b \in Addrs : ~(t = s /\ b = a) => listeners'[t][b] = listeners[t][b]
  BY <1>1 DEF TypeOK, RouterTypeOK
<1>4. \A t \in Sidecars, b \in Addrs :
          /\ DOMAIN listeners'[t][b] = DOMAIN listeners[t][b]
          /\ \A k \in DOMAIN listeners[t][b] : listeners'[t][b][k] \in {listeners[t][b][k], "ENDED"}
  BY <1>2, <1>3
<1>. QED
  BY <1>4 DEF CallbacksStay, HasCallback

LEMMA EnqueuedOfClients ==
    ASSUME TypeOK, OfClients, NEW s \in Sidecars, NEW q \in Request, Enqueue(s, q),
           UNCHANGED listeners,
           q.type \in LinkTypes => <<s, q.type, q.addr>> \in Clients
    PROVE  /\ OfClients'
           /\ \A r \in Clients : InQueue(r) => InQueue(r)'
           /\ InQueue(<<s, q.type, q.addr>>)'
<1>1. RouterTypeOK
  BY DEF TypeOK
<1>2. OfClients'
  <2>1. \A t \in Sidecars : \A n \in DOMAIN dataIn'[t] :
            dataIn'[t][n].type \in LinkTypes => <<t, dataIn'[t][n].type, dataIn'[t][n].addr>> \in Clients
    BY <1>1, EnqueuedAt DEF OfClients
  <2>. QED
    BY <2>1 DEF OfClients
<1>3. \A r \in Clients : InQueue(r) => InQueue(r)'
  BY <1>1, EnqueuedAt, ClientParts DEF InQueue
<1>4. InQueue(<<s, q.type, q.addr>>)'
  BY <1>1, EnqueuedAt DEF InQueue, Asks
<1>. QED
  BY <1>2, <1>3, <1>4

\* The address of a request taken has its link then, or never had another's.
LEMMA RouterLoopFollows ==
    ASSUME TypeOK, SeparateAddresses, OfClients, LinksFollow, NEW s \in Sidecars, RouterLoop(s)
    PROVE  OfClients' /\ LinksFollow'
<1>1. RouterTypeOK /\ UNCHANGED answered
  BY DEF TypeOK, RouterLoop, RouterOnly
<1>2. PICK types : TakeRequest(s, types)
  BY DEF RouterLoop, Route, TakeConsumer, TakeStatusRequest, TakeProducer, TakeEvent
<1>3. PICK h \in Request : h = Head(dataIn[s])
  BY <1>1, <1>2, TakeRequestType
<1>4. /\ h = dataIn[s][1] /\ 1 \in DOMAIN dataIn[s]
      /\ h.addr \in Addrs
      /\ h.type \in LinkTypes => <<s, h.type, h.addr>> \in Clients
  BY <1>1, <1>2, <1>3, TakenAt, RequestFields DEF OfClients
<1>5. \A t \in Sidecars : \A n \in DOMAIN dataIn'[t] :
          dataIn'[t][n].type \in LinkTypes => <<t, dataIn'[t][n].type, dataIn'[t][n].addr>> \in Clients
  <2>. TAKE t \in Sidecars
  <2>. TAKE n \in DOMAIN dataIn'[t]
  <2>1. \E k \in DOMAIN dataIn[t] : dataIn'[t][n] = dataIn[t][k]
    BY <1>1, <1>2, TakenAt
  <2>. QED
    BY <2>1 DEF OfClients
<1>6. ASSUME NEW r \in Clients, InQueue(r)
      PROVE  InQueue(r)' \/ r = <<s, h.type, h.addr>>
  <2>1. r[1] \in Sidecars /\ r = <<r[1], r[2], r[3]>>
    BY ClientParts
  <2>2. PICK n \in DOMAIN dataIn[r[1]] : Asks(dataIn[r[1]][n], r)
    BY <1>6 DEF InQueue
  <2>3. CASE r[1] # s
    BY <1>1, <1>2, <2>1, <2>2, <2>3, TakenAt DEF InQueue
  <2>4. CASE r[1] = s /\ n = 1
    BY <1>4, <2>1, <2>2, <2>4 DEF Asks
  <2>5. CASE r[1] = s /\ n # 1
    BY <1>1, <1>2, <2>2, <2>5, TakenAt DEF InQueue
  <2>. QED
    BY <2>3, <2>4, <2>5
<1>7. UNCHANGED listeners => OfClients'
  BY <1>5 DEF OfClients
<1>8. ASSUME NEW callback \in Callback, StartReceiver(s, h.addr, callback),
             callback = "EVENT" => <<s, "CONSUMER", h.addr>> \in Clients,
             callback = "STATUS" => <<s, "STATUS", h.addr>> \in Clients
      PROVE  OfClients'
  <2>1. /\ \A t \in Sidecars, b \in Addrs :
              listeners'[t][b] = IF t = s /\ b = h.addr THEN Append(listeners[s][h.addr], callback)
                                                        ELSE listeners[t][b]
        /\ listeners[s][h.addr] \in Seq(Callback \cup {"ENDED"})
    <3>1. listeners[s][h.addr] \in Seq(Callback \cup {"ENDED"})
      BY <1>1, <1>4 DEF RouterTypeOK
    <3>. QED
      BY <1>1, <1>4, <1>8, <3>1, StartReceiverTyped
  <2>2. ASSUME NEW t \in Sidecars, NEW b \in Addrs, NEW n \in DOMAIN listeners'[t][b]
        PROVE  /\ listeners'[t][b][n] = "EVENT" => <<t, "CONSUMER", b>> \in Clients
               /\ listeners'[t][b][n] = "STATUS" => <<t, "STATUS", b>> \in Clients
    <3>1. CASE ~(t = s /\ b = h.addr)
      BY <2>1, <3>1 DEF OfClients
    <3>2. CASE t = s /\ b = h.addr
      <4>1. /\ listeners'[s][h.addr] = Append(listeners[s][h.addr], callback)
            /\ n \in DOMAIN listeners'[s][h.addr]
            /\ callback \in Callback \cup {"ENDED"}
        BY <2>1, <3>2
      <4>2. \/ n \in DOMAIN listeners[s][h.addr] /\ listeners'[s][h.addr][n] = listeners[s][h.addr][n]
            \/ listeners'[s][h.addr][n] = callback
        BY <2>1, <4>1, AppendMembers
      <4>. QED
        BY <1>8, <3>2, <4>2 DEF OfClients
    <3>. QED
      BY <3>1, <3>2
  <2>. QED
    BY <1>5, <2>2 DEF OfClients
\* A receiver that is there already is one for events where events are asked
\* for, and one for status where status is.
<1>9. ASSUME HasListener(s, h.addr), NEW type \in {"CONSUMER", "STATUS"}, type = h.type
      PROVE  \/ HasCallback(s, h.addr, IF type = "CONSUMER" THEN "EVENT" ELSE "STATUS")
             \/ HasCallback(s, h.addr, "ENDED")
  <2>1. /\ 1 \in DOMAIN listeners[s][h.addr]
        /\ listeners[s][h.addr][1] \in {"EVENT", "STATUS", "ENDED"}
    <3>1. listeners[s][h.addr] \in Seq(Callback \cup {"ENDED"}) /\ listeners[s][h.addr] # <<>>
      BY <1>1, <1>4, <1>9 DEF RouterTypeOK, HasListener
    <3>. QED
      BY <3>1 DEF Callback
  <2>2. <<s, type, h.addr>> \in Clients
    BY <1>4, <1>9 DEF LinkTypes
  <2>3. /\ listeners[s][h.addr][1] = "EVENT" => type = "CONSUMER"
        /\ listeners[s][h.addr][1] = "STATUS" => type = "STATUS"
    BY <1>4, <2>1, <2>2 DEF OfClients, SeparateAddresses
  <2>. QED
    BY <2>1, <2>3 DEF HasCallback
<1>10. ASSUME OfClients', LinksGrow, CallbacksStay,
              h.type \in LinkTypes => Linked(<<s, h.type, h.addr>>)'
       PROVE  LinksFollow'
  <2>1. \A r \in answered : Linked(r)' \/ InQueue(r)'
    BY <1>4, <1>6, <1>10, FollowsMeans, LinkedStays, ClientParts DEF TypeOK
  <2>. QED
    BY <1>1, <2>1 DEF LinksFollow, Linked, InQueue, Asks
<1>11. CASE TakeConsumer(s)
  <2>1. h.type = "CONSUMER" /\ h.type \in LinkTypes /\ UNCHANGED senders
    BY <1>3, <1>11 DEF TakeConsumer, TakeRequest, LinkTypes
  <2>2. CASE HasListener(s, h.addr) /\ UNCHANGED <<listeners, refused>>
    <3>1. LinksGrow /\ CallbacksStay
      BY <2>1, <2>2, CallbacksUnchanged DEF LinksGrow
    <3>2. Linked(<<s, h.type, h.addr>>)
      BY <1>9, <2>1, <2>2 DEF Linked, HasLink, HasEnded
    <3>3. Linked(<<s, h.type, h.addr>>)'
      BY <1>4, <2>1, <3>1, <3>2, LinkedStays
    <3>. QED
      BY <1>7, <1>10, <2>2, <3>1, <3>3
  <2>3. CASE StartReceiver(s, h.addr, "EVENT") /\ UNCHANGED refused
    <3>1. /\ LinksGrow /\ CallbacksStay /\ HasCallback(s, h.addr, "EVENT")'
          /\ OfClients'
      BY <1>4, <1>8, <2>1, <2>3, StartedCallbacks DEF LinksGrow, Callback
    <3>2. Linked(<<s, h.type, h.addr>>)'
      BY <2>1, <3>1 DEF Linked, HasLink
    <3>. QED
      BY <1>10, <3>1, <3>2
  <2>4. CASE Refuse(s, h) /\ UNCHANGED listeners
    <3>1. LinksGrow /\ CallbacksStay /\ <<s, h.type, h.addr>> \in refused'
      BY <2>1, <2>4, CallbacksUnchanged DEF LinksGrow, Refuse
    <3>. QED
      BY <1>7, <1>10, <2>4, <3>1 DEF Linked
  <2>. QED
    BY <1>3, <1>11, <2>2, <2>3, <2>4 DEF TakeConsumer
<1>12. CASE TakeStatusRequest(s)
  <2>1. h.type = "STATUS" /\ h.type \in LinkTypes /\ UNCHANGED senders
    BY <1>3, <1>12 DEF TakeStatusRequest, TakeRequest, LinkTypes
  <2>2. CASE HasListener(s, h.addr) /\ UNCHANGED <<listeners, refused>>
    <3>1. LinksGrow /\ CallbacksStay
      BY <2>1, <2>2, CallbacksUnchanged DEF LinksGrow
    <3>2. Linked(<<s, h.type, h.addr>>)
      BY <1>9, <2>1, <2>2 DEF Linked, HasLink, HasEnded
    <3>3. Linked(<<s, h.type, h.addr>>)'
      BY <1>4, <2>1, <3>1, <3>2, LinkedStays
    <3>. QED
      BY <1>7, <1>10, <2>2, <3>1, <3>3
  <2>3. CASE StartReceiver(s, h.addr, "STATUS") /\ UNCHANGED refused
    <3>1. /\ LinksGrow /\ CallbacksStay /\ HasCallback(s, h.addr, "STATUS")'
          /\ OfClients'
      BY <1>4, <1>8, <2>1, <2>3, StartedCallbacks DEF LinksGrow, Callback
    <3>2. Linked(<<s, h.type, h.addr>>)'
      BY <2>1, <3>1 DEF Linked, HasLink
    <3>. QED
      BY <1>10, <3>1, <3>2
  <2>4. CASE Refuse(s, h) /\ UNCHANGED listeners
    <3>1. LinksGrow /\ CallbacksStay /\ <<s, h.type, h.addr>> \in refused'
      BY <2>1, <2>4, CallbacksUnchanged DEF LinksGrow, Refuse
    <3>. QED
      BY <1>7, <1>10, <2>4, <3>1 DEF Linked
  <2>. QED
    BY <1>3, <1>12, <2>2, <2>3, <2>4 DEF TakeStatusRequest
<1>13. CASE TakeProducer(s)
  <2>1. h.type = "PRODUCER" /\ UNCHANGED listeners /\ CallbacksStay
    BY <1>3, <1>13, CallbacksUnchanged DEF TakeProducer, TakeRequest
  <2>2. CASE senders' = [senders EXCEPT ![s] = senders[s] \cup {h.addr}] /\ UNCHANGED refused
    <3>1. LinksGrow /\ h.addr \in senders'[s]
      BY <1>1, <2>2 DEF RouterTypeOK, LinksGrow
    <3>. QED
      BY <1>7, <1>10, <2>1, <3>1 DEF Linked, HasLink
  <2>3. CASE Refuse(s, h) /\ UNCHANGED senders
    <3>1. LinksGrow /\ <<s, h.type, h.addr>> \in refused'
      BY <2>3 DEF LinksGrow, Refuse
    <3>. QED
      BY <1>7, <1>10, <2>1, <3>1 DEF Linked
  <2>. QED
    BY <1>3, <1>13, <2>2, <2>3 DEF TakeProducer
<1>14. CASE TakeEvent(s)
  BY <1>3, <1>7, <1>10, <1>14, CallbacksUnchanged DEF TakeEvent, TakeRequest, LinksGrow, LinkTypes
<1>. QED
  BY <1>11, <1>12, <1>13, <1>14 DEF RouterLoop, Route

LEMMA RestartFollows ==
    ASSUME TypeOK, OfClients, LinksFollow, NEW s \in Sidecars, Restart(s)
    PROVE  OfClients' /\ LinksFollow'
<1>1. /\ \A t \in Sidecars : dataIn'[t] = IF t = s THEN <<>> ELSE dataIn[t]
      /\ \A t \in Sidecars, a \in Addrs : listeners'[t][a] = IF t = s THEN <<>> ELSE listeners[t][a]
      /\ \A t \in Sidecars : t # s => senders'[t] = senders[t]
      /\ \A r \in refused : r[1] # s => r \in refused'
      /\ answered' = {r \in answered : r[1] # s}
  BY DEF Restart, Die, TypeOK, RouterTypeOK
<1>2. OfClients'
  <2>1. \A t \in Sidecars : \A n \in DOMAIN dataIn'[t] :
            dataIn'[t][n].type \in LinkTypes => <<t, dataIn'[t][n].type, dataIn'[t][n].addr>> \in Clients
    BY <1>1 DEF OfClients
  <2>2. \A t \in Sidecars, a \in Addrs : \A n \in DOMAIN listeners'[t][a] :
            /\ listeners'[t][a][n] = "EVENT" => <<t, "CONSUMER", a>> \in Clients
            /\ listeners'[t][a][n] = "STATUS" => <<t, "STATUS", a>> \in Clients
    <3>. TAKE t \in Sidecars, a \in Addrs
    <3>1. CASE t = s
      BY <1>1, <3>1
    <3>2. CASE t # s
      BY <1>1, <3>2 DEF OfClients
    <3>. QED
      BY <3>1, <3>2
  <2>. QED
    BY <2>1, <2>2 DEF OfClients
<1>3. ASSUME NEW r \in answered, r[1] # s
      PROVE  Linked(r)' \/ InQueue(r)'
  <2>1. r[1] \in Sidecars /\ r[2] \in LinkTypes /\ r[3] \in Addrs /\ (Linked(r) \/ InQueue(r))
    BY ClientParts, FollowsMeans DEF TypeOK
  <2>2. InQueue(r) => InQueue(r)'
    BY <1>1, <1>3, <2>1 DEF InQueue
  <2>3. \A callback : HasCallback(r[1], r[3], callback) => HasCallback(r[1], r[3], callback)'
    BY <1>1, <1>3, <2>1 DEF HasCallback
  <2>4. (HasLink(r) => HasLink(r)') /\ (HasEnded(r) => HasEnded(r)') /\ (r \in refused => r \in refused')
    BY <1>1, <1>3, <2>1, <2>3 DEF HasLink, HasEnded, LinkTypes
  <2>. QED
    BY <2>1, <2>2, <2>4 DEF Linked
<1>4. LinksFollow'
  BY <1>1, <1>3 DEF LinksFollow, Linked, InQueue, Asks
<1>. QED
  BY <1>2, <1>4

LEMMA FollowsNext ==
    ASSUME SeparateAddresses, TypeOK, OfClients, LinksFollow, [Next]_vars
    PROVE  OfClients' /\ LinksFollow'
<1>1. ASSUME LinksGrow, CallbacksStay, answered' \subseteq answered,
             \A r \in Clients : InQueue(r) => InQueue(r)'
      PROVE  LinksFollow'
  <2>1. \A r \in answered : Linked(r)' \/ InQueue(r)'
    BY <1>1, FollowsMeans, LinkedStays DEF TypeOK
  <2>. QED
    BY <1>1, <2>1 DEF LinksFollow, Linked, InQueue, Asks
<1>2. ASSUME UNCHANGED <<dataIn, senders, listeners, refused>>, answered' \subseteq answered
      PROVE  OfClients' /\ LinksFollow'
  <2>1. LinksGrow /\ CallbacksStay /\ \A r \in Clients : InQueue(r) => InQueue(r)'
    BY <1>2, CallbacksUnchanged DEF LinksGrow, InQueue
  <2>2. OfClients'
    BY <1>2 DEF OfClients
  <2>. QED
    BY <1>1, <1>2, <2>1, <2>2
<1>3. CASE UNCHANGED vars
  BY <1>2, <1>3 DEF vars, routerVars
<1>4. CASE Next
  <2>1. CASE \/ \E r \in Clients : Register(r)
             \/ \E s \in Sidecars, type \in {"PRODUCER", "CONSUMER"} : DeleteAll(s, type)
             \/ \E s \in Sidecars, e \in Events : ReadPacket(s, e)
             \/ \E s \in Sidecars : ReadGarbage(s)
             \/ \E e \in Events : SendTo(e) \/ Reported(e)
             \/ \E r \in arrived : CallBack(r)
             \/ \E s \in Sidecars : MainLoop(s)
    <3>1. UNCHANGED <<dataIn, senders, listeners, refused>> /\ answered' \subseteq answered
      BY <2>1 DEF Register, DeleteAll, ReadPacket, Make, ReadGarbage, SendTo, Transmit, Accepted,
                  Undelivered, Rejected, Reported, Report, CallBack, PutOut, MainLoop, MainTake, TakeOutput, Post, PostAck,
                  RouterOnly, routerVars
    <3>. QED
      BY <1>2, <3>1
  <2>2. ASSUME NEW r \in Clients, SendOut(r) \/ AskStatus(r)
        PROVE  OfClients' /\ LinksFollow'
    <3>. DEFINE q == [type |-> r[2], addr |-> r[3], ev |-> None]
    <3>1. r[1] \in Sidecars /\ q \in Request /\ <<r[1], q.type, q.addr>> = r
      BY ClientParts, LinkRequestType
    <3>2. /\ Enqueue(r[1], q) /\ UNCHANGED <<senders, listeners, refused>>
          /\ answered' = answered \cup {r}
      BY <2>2 DEF SendOut, AskStatus, AskLink
    <3>. HIDE DEF q
    <3>3. /\ OfClients' /\ InQueue(r)'
          /\ \A t \in Clients : InQueue(t) => InQueue(t)'
      BY <3>1, <3>2, EnqueuedOfClients
    <3>4. LinksGrow /\ CallbacksStay
      BY <3>2, CallbacksUnchanged DEF LinksGrow
    <3>5. \A t \in answered' : Linked(t)' \/ InQueue(t)'
      BY <3>2, <3>3, <3>4, FollowsMeans, LinkedStays DEF TypeOK
    <3>. QED
      BY <3>3, <3>5 DEF LinksFollow, Linked, InQueue, Asks
  <2>3. ASSUME NEW e \in Events, Publish(e) \/ QueuePacket(e)
        PROVE  OfClients' /\ LinksFollow'
    <3>. DEFINE q == [type |-> "EVENT", addr |-> AddrOf[e], ev |-> e]
    <3>1. SentBy[e] \in Sidecars /\ q \in Request /\ q.type \notin LinkTypes
      BY RouterAssumption, EventRequestType DEF LinkTypes
    <3>2. Enqueue(SentBy[e], q) /\ UNCHANGED <<senders, listeners, refused, answered>>
      BY <2>3 DEF Publish, QueuePacket, AskSend
    <3>. HIDE DEF q
    <3>3. OfClients' /\ \A t \in Clients : InQueue(t) => InQueue(t)'
      BY <3>1, <3>2, EnqueuedOfClients
    <3>4. LinksGrow /\ CallbacksStay
      BY <3>2, CallbacksUnchanged DEF LinksGrow
    <3>. QED
      BY <1>1, <3>2, <3>3, <3>4
  <2>4. ASSUME NEW s \in Sidecars, NEW a \in Addrs, NEW n \in DOMAIN listeners[s][a],
               LoseReceiver(s, a, n)
        PROVE  OfClients' /\ LinksFollow'
    <3>1. BreakReceiver(s, a, n) /\ UNCHANGED <<dataIn, senders, refused, answered>>
      BY <2>4 DEF LoseReceiver, BreakReceiver
    <3>2. /\ CallbacksStay
          /\ \A t \in Sidecars, b \in Addrs : \A k \in DOMAIN listeners'[t][b] :
                k \in DOMAIN listeners[t][b] /\ listeners'[t][b][k] \in {listeners[t][b][k], "ENDED"}
      BY <3>1, BrokenCallbacks
    <3>3. OfClients'
      BY <3>1, <3>2 DEF OfClients
    <3>4. LinksGrow /\ \A r \in Clients : InQueue(r) => InQueue(r)'
      BY <3>1 DEF LinksGrow, InQueue
    <3>. QED
      BY <1>1, <3>1, <3>2, <3>3, <3>4
  <2>5. CASE \E s \in Sidecars : RouterLoop(s)
    BY <2>5, RouterLoopFollows
  <2>6. CASE \E s \in Sidecars : Restart(s)
    BY <2>6, RestartFollows
  <2>. QED
    BY <1>4, <2>1, <2>2, <2>3, <2>4, <2>5, <2>6 DEF Next
<1>. QED
  BY <1>3, <1>4

\* Every creation that was answered, and every status listener asked for, has its
\* link or the request for it, or was refused, or its receiver has ended, unless
\* an address is used for both (EventDelivery!LinksFollow).
THEOREM AnsweredHaveLinks == SeparateAddresses => (Spec => []LinksFollow)
<1>. SUFFICES ASSUME SeparateAddresses PROVE Spec => []LinksFollow
  OBVIOUS
<1>1. Init => OfClients /\ LinksFollow
  BY DEF Init, RouterInit, OfClients, LinksFollow
<1>2. TypeOK /\ OfClients /\ LinksFollow /\ [Next]_vars => OfClients' /\ LinksFollow'
  BY FollowsNext
<1>. QED
  BY <1>1, <1>2, TypeCorrect, PTL DEF Spec

=============================================================================
