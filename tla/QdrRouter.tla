------------------------------ MODULE QdrRouter ------------------------------
(* The AMQP side of the sidecars (pkg/protocol/qdr) and the network between     *)
(* them.  In every sidecar one goroutine takes requests off DataIn, makes the   *)
(* senders and listeners they ask for and starts a goroutine for every event    *)
(* to be sent; the goroutines of events that could not be sent and the          *)
(* callbacks of received events put what they have on DataOut.  Who fills       *)
(* DataIn and empties DataOut, and what an event carries when it is sent, is    *)
(* left open: EventDelivery says it.                                            *)
EXTENDS Naturals, Sequences, FiniteSets

CONSTANTS
    Sidecars, \* the sidecars of the cluster
    Addrs,    \* AMQP addresses
    Events,   \* the events ever published, each once
    AddrOf,   \* the address of each event
    SentBy,   \* the sidecar each event is published through
    InCap,    \* capacity of DataIn
    OutCap,   \* capacity of DataOut
    None      \* no event

LinkTypes == {"PRODUCER", "CONSUMER", "STATUS"}

\* protocol.DataEvent as it is put on DataIn, and as it comes out of DataOut.
LinkRequest == [type : LinkTypes, addr : Addrs, ev : {None}]
EventRequest == {[type |-> "EVENT", addr |-> AddrOf[e], ev |-> e] : e \in Events}
Request == LinkRequest \cup EventRequest
Callback == {"EVENT", "STATUS"}

\* The data of an event is that of an event, or no event's.
Body == Events \cup {None}
Output == [type : {"EVENT", "STATUS", "PRODUCER"}, status : {"NEW", "SUCCEED", "FAILED"},
           addr : Addrs, ev : Events, body : Body]

ASSUME RouterAssumption ==
    /\ AddrOf \in [Events -> Addrs]
    /\ SentBy \in [Events -> Sidecars]
    /\ InCap \in Nat \ {0}
    /\ OutCap \in Nat \ {0}
    /\ None \notin Events

VARIABLES
    dataIn,    \* per sidecar, the requests queued to its router
    senders,   \* per sidecar, the addresses it has a sender for
    listeners, \* per sidecar and address, the callbacks of the receivers started,
               \* "ENDED" where Receive has returned
    sending,   \* per event, how far its way to the network is
    arrived,   \* events delivered to a receiver, their callbacks running
    dataOut,   \* per sidecar, what its router has put out
    refused    \* history: the requests for a link that the connection refused

routerVars == <<dataIn, senders, listeners, sending, arrived, dataOut, refused>>

Progress == {"new", "read", "queued", "dropped", "sending", "sent", "accepted",
             "undelivered", "rejected", "reported", "lost"}

\* What a receiver's callback was called with: the receiver is known by its
\* sidecar, its address and the place of its callback.
Arrival == [at : Sidecars, no : Nat, as : Callback, ev : Events, body : Body]

RouterInit ==
    /\ dataIn = [s \in Sidecars |-> <<>>]
    /\ senders = [s \in Sidecars |-> {}]
    /\ listeners = [s \in Sidecars |-> [a \in Addrs |-> <<>>]]
    /\ sending = [e \in Events |-> "new"]
    /\ arrived = {}
    /\ dataOut = [s \in Sidecars |-> <<>>]
    /\ refused = {}

Advance(e, step) == sending' = [sending EXCEPT ![e] = step]

-----------------------------------------------------------------------------
(* What goes into a router                                                      *)

EnqueueOrDrop(s, r) ==
    dataIn' = IF Len(dataIn[s]) < InCap THEN [dataIn EXCEPT ![s] = Append(@, r)] ELSE dataIn

EnqueueInFront(s, r) ==
    /\ Len(dataIn[s]) < InCap
    /\ dataIn' = [dataIn EXCEPT ![s] = <<r>> \o @]

\* A send on DataIn, which blocks while it is full.
Enqueue(s, r) ==
    /\ Len(dataIn[s]) < InCap
    /\ dataIn' = [dataIn EXCEPT ![s] = Append(@, r)]

AskLink(s, type, a) ==
    /\ Enqueue(s, [type |-> type, addr |-> a, ev |-> None])
    /\ UNCHANGED <<senders, listeners, sending, arrived, dataOut, refused>>

\* An event is made that is not yet sent on DataIn.
Make(e) ==
    /\ sending[e] = "new"
    /\ Advance(e, "read")
    /\ UNCHANGED <<dataIn, senders, listeners, arrived, dataOut, refused>>

AskSend(e) ==
    /\ sending[e] \in {"new", "read"}
    /\ Enqueue(SentBy[e], [type |-> "EVENT", addr |-> AddrOf[e], ev |-> e])
    /\ Advance(e, "queued")
    /\ UNCHANGED <<senders, listeners, arrived, dataOut, refused>>

-----------------------------------------------------------------------------
(* The goroutine of QDRRouter                                                   *)

TakeRequest(s, types) ==
    /\ dataIn[s] # <<>>
    /\ Head(dataIn[s]).type \in types
    /\ dataIn' = [dataIn EXCEPT ![s] = Tail(@)]

HasListener(s, a) == listeners[s][a] # <<>>

\* NewReceiver, and Receive in a goroutine of its own.
StartReceiver(s, a, callback) ==
    listeners' = [listeners EXCEPT ![s][a] = Append(@, callback)]

Refuse(s, r) == refused' = refused \cup {<<s, r.type, r.addr>>}

ConsumerWithoutCheck(s) ==
    /\ TakeRequest(s, {"CONSUMER"})
    /\ StartReceiver(s, Head(dataIn[s]).addr, "EVENT")
    /\ UNCHANGED <<senders, sending, arrived, dataOut, refused>>

\* CONSUMER: a listener is made unless the address has one; when that fails it
\* is tried once more, since the request carries no data.
TakeConsumer(s) ==
    /\ TakeRequest(s, {"CONSUMER"})
    /\ LET r == Head(dataIn[s]) IN
        \/ /\ HasListener(s, r.addr)
           /\ UNCHANGED <<listeners, refused>>
        \/ /\ ~HasListener(s, r.addr)
           /\ StartReceiver(s, r.addr, "EVENT")
           /\ UNCHANGED refused
        \/ /\ ~HasListener(s, r.addr)
           /\ Refuse(s, r)
           /\ UNCHANGED listeners
    /\ UNCHANGED <<senders, sending, arrived, dataOut>>

\* STATUS: the same, tried once.  The address has one listener, whoever asked
\* for it first: its callback stays the one of the first request.
TakeStatusRequest(s) ==
    /\ TakeRequest(s, {"STATUS"})
    /\ LET r == Head(dataIn[s]) IN
        \/ /\ HasListener(s, r.addr)
           /\ UNCHANGED <<listeners, refused>>
        \/ /\ ~HasListener(s, r.addr)
           /\ StartReceiver(s, r.addr, "STATUS")
           /\ UNCHANGED refused
        \/ /\ ~HasListener(s, r.addr)
           /\ Refuse(s, r)
           /\ UNCHANGED listeners
    /\ UNCHANGED <<senders, sending, arrived, dataOut>>

ReceiverForProducer(s) ==
    /\ TakeRequest(s, {"PRODUCER"})
    /\ LET r == Head(dataIn[s]) IN
        /\ senders' = [senders EXCEPT ![s] = @ \cup {r.addr}]
        /\ StartReceiver(s, r.addr, "EVENT")
    /\ UNCHANGED <<sending, arrived, dataOut, refused>>

\* PRODUCER: a sender is made unless the address has one.
TakeProducer(s) ==
    /\ TakeRequest(s, {"PRODUCER"})
    /\ LET r == Head(dataIn[s]) IN
        \/ /\ senders' = [senders EXCEPT ![s] = @ \cup {r.addr}]
           /\ UNCHANGED refused
        \/ /\ r.addr \notin senders[s]
           /\ Refuse(s, r)
           /\ UNCHANGED senders
    /\ UNCHANGED <<listeners, sending, arrived, dataOut>>

WaitForSender(s) ==
    /\ TakeRequest(s, {"EVENT"})
    /\ Head(dataIn[s]).addr \in senders[s]
    /\ Advance(Head(dataIn[s]).ev, "sending")
    /\ UNCHANGED <<senders, listeners, arrived, dataOut, refused>>

\* EVENT: SendTo in a goroutine; an event without a sender is dropped.
TakeEvent(s) ==
    /\ TakeRequest(s, {"EVENT"})
    /\ LET r == Head(dataIn[s])
       IN  Advance(r.ev, IF r.addr \in senders[s] THEN "sending" ELSE "dropped")
    /\ UNCHANGED <<senders, listeners, arrived, dataOut, refused>>

Route(s) == TakeConsumer(s) \/ TakeStatusRequest(s) \/ TakeProducer(s) \/ TakeEvent(s)

-----------------------------------------------------------------------------
(* SendTo, the network and the receivers                                        *)

\* The receivers at the address of an event whose connection is alive.
ReceiversOf(e) ==
    UNION {{<<s, n>> : n \in {k \in DOMAIN listeners[s][AddrOf[e]] :
                                listeners[s][AddrOf[e]][k] # "ENDED"}} : s \in Sidecars}

\* Send encodes the data the event has now; the network takes it to any of the
\* receivers, or to none.
Transmit(e, body) ==
    /\ sending[e] = "sending"
    /\ \E R \in SUBSET ReceiversOf(e) :
        arrived' = arrived \cup
            {[at |-> r[1], no |-> r[2], as |-> listeners[r[1]][AddrOf[e]][r[2]],
              ev |-> e, body |-> body] : r \in R}
    /\ Advance(e, "sent")
    /\ UNCHANGED <<dataIn, senders, listeners, dataOut, refused>>

\* Client.Send returns within two seconds: accepted, about which nobody is told;
Accepted(e) ==
    /\ sending[e] = "sent"
    /\ Advance(e, "accepted")
    /\ UNCHANGED <<dataIn, senders, listeners, arrived, dataOut, refused>>

\* undelivered, whether or not it was delivered after all;
Undelivered(e) ==
    /\ sending[e] = "sent"
    /\ Advance(e, "undelivered")
    /\ UNCHANGED <<dataIn, senders, listeners, arrived, dataOut, refused>>

\* or not acknowledged (IsNACK): rejected by the network, which delivered it to nobody.
Rejected(e) ==
    /\ sending[e] = "sending"
    /\ Advance(e, "rejected")
    /\ UNCHANGED <<dataIn, senders, listeners, arrived, dataOut, refused>>

PutAlways(s, out) == dataOut' = [dataOut EXCEPT ![s] = Append(@, out)]

\* A send on DataOut, which blocks while it is full.
PutOnDataOut(s, out) ==
    /\ Len(dataOut[s]) < OutCap
    /\ dataOut' = [dataOut EXCEPT ![s] = Append(@, out)]

\* The producer's sidecar is told FAILED when the event was undelivered, and
\* SUCCEED when it was rejected.
Report(e) ==
    /\ sending[e] \in {"undelivered", "rejected"}
    /\ PutOnDataOut(SentBy[e],
          [type |-> "PRODUCER", addr |-> AddrOf[e], ev |-> e, body |-> e,
           status |-> IF sending[e] = "undelivered" THEN "FAILED" ELSE "SUCCEED"])
    /\ Advance(e, "reported")
    /\ UNCHANGED <<dataIn, senders, listeners, arrived, refused>>

\* The callback of the receiver an event arrived at.
PutOut(c) ==
    /\ c \in arrived
    /\ arrived' = arrived \ {c}
    /\ PutOnDataOut(c.at,
          [type |-> c.as, addr |-> AddrOf[c.ev], ev |-> c.ev, body |-> c.body,
           status |-> "NEW"])
    /\ UNCHANGED <<dataIn, senders, listeners, sending, refused>>

BreakAndForget(s, a, n) ==
    /\ n \in DOMAIN listeners[s][a]
    /\ listeners' = [listeners EXCEPT ![s][a] = <<>>]
    /\ UNCHANGED <<dataIn, senders, sending, arrived, dataOut, refused>>

\* StartReceiver returns since the connection is gone: Receive logs it and ends,
\* and the entry of Listeners stays.
BreakReceiver(s, a, n) ==
    /\ n \in DOMAIN listeners[s][a]
    /\ listeners[s][a][n] # "ENDED"
    /\ listeners' = [listeners EXCEPT ![s][a][n] = "ENDED"]
    /\ UNCHANGED <<dataIn, senders, sending, arrived, dataOut, refused>>

\* Somebody reads DataOut.
TakeOutput(s) ==
    /\ dataOut[s] # <<>>
    /\ dataOut' = [dataOut EXCEPT ![s] = Tail(@)]
    /\ UNCHANGED <<dataIn, senders, listeners, sending, arrived, refused>>

\* The process dies: its tables, its queues and its goroutines are gone, and what
\* it had not yet handed to the network is lost.
Die(s) ==
    /\ dataIn' = [dataIn EXCEPT ![s] = <<>>]
    /\ senders' = [senders EXCEPT ![s] = {}]
    /\ listeners' = [listeners EXCEPT ![s] = [a \in Addrs |-> <<>>]]
    /\ sending' = [e \in Events |->
                      IF SentBy[e] = s /\ sending[e] \notin {"new", "dropped", "accepted", "reported"}
                      THEN "lost" ELSE sending[e]]
    /\ arrived' = {c \in arrived : c.at # s}
    /\ dataOut' = [dataOut EXCEPT ![s] = <<>>]
    /\ refused' = {r \in refused : r[1] # s}

-----------------------------------------------------------------------------
\* Every variable stays within its type, the channels within their capacity.
RouterTypeOK ==
    /\ dataIn \in [Sidecars -> Seq(Request)]
    /\ \A s \in Sidecars : Len(dataIn[s]) <= InCap /\ Len(dataOut[s]) <= OutCap
    /\ senders \in [Sidecars -> SUBSET Addrs]
    /\ listeners \in [Sidecars -> [Addrs -> Seq(Callback \cup {"ENDED"})]]
    /\ sending \in [Events -> Progress]
    /\ arrived \subseteq Arrival
    /\ \A c \in arrived : c.no \in DOMAIN listeners[c.at][AddrOf[c.ev]]
    /\ dataOut \in [Sidecars -> Seq(Output)]
    /\ refused \subseteq Sidecars \X LinkTypes \X Addrs
=============================================================================
