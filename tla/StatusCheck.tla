----------------------------- MODULE StatusCheck -----------------------------
(* GET /status/{sequenceid}: a handler of the REST server registers a channel   *)
(* for its sequence id, sends a status request over AMQP and waits for the      *)
(* answer.  The answer comes back on an address all requests share; the main    *)
(* loop of the sidecar looks the sequence id up and sends the answer to the     *)
(* channel found.  (pkg/protocol/rest getResourceStatus, pkg/types/status,      *)
(* cmd/sidecar processSuccessStatus and, on the other side, processStatus.)     *)
(* The main loop is the only consumer of everything the AMQP router puts out:   *)
(* while it is blocked sending to a channel, no event reaches any consumer.     *)
EXTENDS Naturals, Sequences, FiniteSets

CONSTANTS
    Reqs,        \* the status requests, each served once by a handler of its own
    Seqs,        \* sequence ids
    SeqOf,       \* the sequence id in the path of each request
    ZeroSeq,     \* 0: the id of a path that is no number (Atoi), and of an answer
                 \* that cannot be read
    Responders,  \* the sidecars that receive what is sent to the status address
    Unreadable,  \* the answers with data that Unmarshal refuses, or that answer
                 \* a request with such data
    ListenerCap, \* capacity of ListenerChannel.listener
    OutCap,      \* capacity of the router's DataOut channel
    None         \* no request, no answer

\* A status event answering request "of"; only its sequence id is in the event.
Answer == [of : Reqs, by : Responders]

ASSUME SeqAssumption == SeqOf \in [Reqs -> Seqs] /\ ZeroSeq \in Seqs
ASSUME DataAssumption == Unreadable \subseteq Answer
ASSUME CapAssumption == ListenerCap \in Nat \ {0} /\ OutCap \in Nat \ {0}
ASSUME NoneAssumption == None \notin Reqs \cup Answer

VARIABLES
    pc,       \* per request, the next step of its handler
    buffer,   \* per request, what its dataCh (capacity 1) holds
    closed,   \* the requests whose dataCh is closed
    got,      \* per request, the answer that was sent back to the client
    listener, \* registrations on their way to the Listen goroutine
    store,    \* per sequence id, the request whose channel is registered
    asked,    \* status events delivered to a responder and not yet answered
    answers,  \* answers delivered to the return address, their callbacks running
    dataOut,  \* what the callbacks have put out for the main loop
    main      \* the send of the main loop: None, or the answer and the channel

handlerVars == <<pc, buffer, closed, got>>
listenerVars == <<listener, store>>
netVars == <<asked, answers>>
loopVars == <<dataOut, main>>
vars == <<handlerVars, listenerVars, netVars, loopVars>>

Over == {"answered", "undelivered", "rejected", "timedout", "aborted"}
Steps == {"new", "register", "send", "sent", "wait"} \cup Over
Send == [ans : Answer, to : Reqs]

Init ==
    /\ pc = [r \in Reqs |-> "new"]
    /\ buffer = [r \in Reqs |-> None]
    /\ closed = {}
    /\ got = [r \in Reqs |-> None]
    /\ listener = <<>>
    /\ store = [s \in Seqs |-> None]
    /\ asked = {}
    /\ answers = {}
    /\ dataOut = <<>>
    /\ main = None

Goto(r, step) == pc' = [pc EXCEPT ![r] = step]

RoomForOneMore(q, cap) == Len(q) <= cap

\* A buffered channel takes a send.
Room(q, cap) == Len(q) < cap

-----------------------------------------------------------------------------
(* The handler, getResourceStatus                                              *)

Begin(r) ==
    /\ pc[r] = "new"
    /\ Goto(r, "register")
    /\ UNCHANGED <<buffer, closed, got, listenerVars, netVars, loopVars>>

\* SendToListener: blocks while the listener channel is full.
SendToListener(r) ==
    /\ pc[r] = "register"
    /\ Room(listener, ListenerCap)
    /\ listener' = Append(listener, r)
    /\ Goto(r, "send")
    /\ UNCHANGED <<buffer, closed, got, store, netVars, loopVars>>

\* Client.Send hands the event to the network, which takes it to any of the
\* responders, or loses it, while the handler waits for the result.
Transmit(r) ==
    /\ pc[r] = "send"
    /\ \E R \in SUBSET Responders : asked' = asked \cup {[of |-> r, by |-> b] : b \in R}
    /\ Goto(r, "sent")
    /\ UNCHANGED <<buffer, closed, got, listenerVars, answers, loopVars>>

\* The result within two seconds: the event was accepted;
SendAccepted(r) ==
    /\ pc[r] = "sent"
    /\ Goto(r, "wait")
    /\ UNCHANGED <<buffer, closed, got, listenerVars, netVars, loopVars>>

\* or undelivered: lost, or delivered and not acknowledged in time.  The handler
\* answers 400 and forgets its channel without closing it;
SendUndelivered(r) ==
    /\ pc[r] = "sent"
    /\ Goto(r, "undelivered")
    /\ UNCHANGED <<buffer, closed, got, listenerVars, netVars, loopVars>>

\* or rejected by the network, with the same outcome for the client.
SendRejected(r) ==
    /\ pc[r] = "send"
    /\ Goto(r, "rejected")
    /\ UNCHANGED <<buffer, closed, got, listenerVars, netVars, loopVars>>

\* select: the channel holds an answer, which goes to the client with 200,
TakeAnswer(r) ==
    /\ pc[r] = "wait"
    /\ buffer[r] # None
    /\ got' = [got EXCEPT ![r] = buffer[r]]
    /\ buffer' = [buffer EXCEPT ![r] = None]
    /\ Goto(r, "answered")
    /\ UNCHANGED <<closed, listenerVars, netVars, loopVars>>

TimeOutLeavesSelectOnly(r) ==
    /\ pc[r] = "wait"
    /\ closed' = closed \cup {r}
    /\ UNCHANGED <<pc, buffer, got, listenerVars, netVars, loopVars>>

\* or two seconds are over: the handler closes the channel and answers 400.
TimeOut(r) ==
    /\ pc[r] = "wait"
    /\ closed' = closed \cup {r}
    /\ Goto(r, "timedout")
    /\ UNCHANGED <<buffer, got, listenerVars, netVars, loopVars>>

-----------------------------------------------------------------------------
(* The Listen goroutine: SetChannel, and nothing ever removes an entry.         *)

SetOneChannel(r) == store' = [s \in Seqs |-> r]
SetChannel(r) == store' = [store EXCEPT ![SeqOf[r]] = r]

Listen ==
    /\ listener # <<>>
    /\ SetChannel(Head(listener))
    /\ listener' = Tail(listener)
    /\ UNCHANGED <<handlerVars, netVars, loopVars>>

-----------------------------------------------------------------------------
(* The other sidecar and the network                                            *)

RespondAndRetry(a) ==
    /\ a \in asked
    /\ answers' = answers \cup {a}
    /\ UNCHANGED <<handlerVars, listenerVars, asked, loopVars>>

\* processStatus sends the event back, with the sequence id it came with.
Respond(a) ==
    /\ a \in asked
    /\ asked' = asked \ {a}
    /\ answers' = answers \cup {a}
    /\ UNCHANGED <<handlerVars, listenerVars, loopVars>>

\* The answer is undelivered, rejected or lost: processStatus only logs it.
AnswerLost(a) ==
    /\ a \in asked
    /\ asked' = asked \ {a}
    /\ UNCHANGED <<handlerVars, listenerVars, answers, loopVars>>

-----------------------------------------------------------------------------
(* The receiver's callbacks and the main loop of the asking sidecar             *)

\* The callback of the STATUS receiver: a send on DataOut.
PutOut(a) ==
    /\ a \in answers
    /\ Room(dataOut, OutCap)
    /\ answers' = answers \ {a}
    /\ dataOut' = Append(dataOut, a)
    /\ UNCHANGED <<handlerVars, listenerVars, asked, main>>

\* processSuccessStatus only logs that Unmarshal failed and goes on with the
\* Subscription it began with; processStatus answers such a request with one.
SeqIn(ans) == IF ans \in Unreadable THEN ZeroSeq ELSE SeqOf[ans.of]

\* GetChannel; an unknown sequence id is dropped.
TakeStatus ==
    /\ main = None
    /\ dataOut # <<>>
    /\ dataOut' = Tail(dataOut)
    /\ LET ans == Head(dataOut)
           to == store[SeqIn(ans)]
       IN  main' = IF to = None THEN None ELSE [ans |-> ans, to |-> to]
    /\ UNCHANGED <<handlerVars, listenerVars, netVars>>

\* dataCh <- d.Data: blocks while the channel holds an answer,
Deliver ==
    /\ main # None
    /\ main.to \notin closed
    /\ buffer[main.to] = None
    /\ buffer' = [buffer EXCEPT ![main.to] = main.ans]
    /\ main' = None
    /\ UNCHANGED <<pc, closed, got, listenerVars, netVars, dataOut>>

\* and panics when it is closed, before or while blocked; the panic is recovered.
DropOnClosed ==
    /\ main # None
    /\ main.to \in closed
    /\ main' = None
    /\ UNCHANGED <<handlerVars, listenerVars, netVars, dataOut>>

\* GetChannel reads the map while SetChannel writes it, without a lock: the Go
\* runtime may end the process, with all its handlers, channels and callbacks.
\* The one started in its place has an empty map.
MapThrow ==
    /\ main = None /\ dataOut # <<>>
    /\ listener # <<>>
    /\ pc' = [r \in Reqs |-> IF pc[r] \in Over \cup {"new"} THEN pc[r] ELSE "aborted"]
    /\ buffer' = [r \in Reqs |-> None]
    /\ closed' = {}
    /\ listener' = <<>>
    /\ store' = [s \in Seqs |-> None]
    /\ answers' = {}
    /\ dataOut' = <<>>
    /\ UNCHANGED <<got, asked, main>>

-----------------------------------------------------------------------------
Handle(r) ==
    \/ Transmit(r) \/ SendAccepted(r) \/ SendUndelivered(r) \/ SendRejected(r)
    \/ TakeAnswer(r) \/ TimeOut(r)
MainLoop == TakeStatus \/ Deliver \/ DropOnClosed

\* Nothing is left to do once the bounded number of requests is over.
Idle ==
    /\ \A r \in Reqs : pc[r] \in Over
    /\ listener = <<>> /\ asked = {} /\ answers = {} /\ dataOut = <<>> /\ main = None
    /\ UNCHANGED vars

Next ==
    \/ \E r \in Reqs : Begin(r) \/ SendToListener(r) \/ Handle(r)
    \/ Listen
    \/ \E a \in Answer : Respond(a) \/ AnswerLost(a) \/ PutOut(a)
    \/ MainLoop \/ MapThrow
    \/ Idle

Spec == Init /\ [][Next]_vars

\* Goroutines run; timers fire; blocked senders are served in order (SF).
Fairness ==
    /\ \A r \in Reqs : SF_vars(SendToListener(r)) /\ WF_vars(Handle(r))
    /\ WF_vars(Listen)
    /\ \A a \in Answer : SF_vars(PutOut(a))
    /\ WF_vars(MainLoop)

FairSpec == Spec /\ Fairness

-----------------------------------------------------------------------------
(* Properties                                                                   *)

\* Every variable stays within its type, the channels within their capacity.
TypeOK ==
    /\ pc \in [Reqs -> Steps]
    /\ buffer \in [Reqs -> Answer \cup {None}]
    /\ closed \subseteq Reqs
    /\ got \in [Reqs -> Answer \cup {None}]
    /\ listener \in Seq(Reqs) /\ Len(listener) <= ListenerCap
    /\ store \in [Seqs -> Reqs \cup {None}]
    /\ asked \subseteq Answer
    /\ answers \subseteq Answer
    /\ dataOut \in Seq(Answer) /\ Len(dataOut) <= OutCap
    /\ main \in Send \cup {None}

\* No answer is ever taken for one of another sequence id: what a channel holds,
\* what a client was sent and what the main loop is about to send all carry the
\* sequence id of the request the channel belongs to (0 if they carry none),
\* although registrations pass through another goroutine, answers overtake each
\* other, and a new process is sent the answers to requests of the one before.
SameSeq(r, a) == SeqIn(a) = SeqOf[r]

AnswersMatch ==
    /\ \A r \in Reqs : buffer[r] # None => SameSeq(r, buffer[r])
    /\ \A r \in Reqs : got[r] # None => SameSeq(r, got[r])
    /\ main # None => SameSeq(main.to, main.ans)

\* The main loop never blocks on a status: the channel it is about to send to
\* has room or is closed, even if its handler gave up long ago and will never
\* read it.  True while sequence ids are not reused, one sidecar answers, and
\* nobody asks with id 0 where an answer may be unreadable.
SendNeverBlocks ==
    main # None => main.to \in closed \/ buffer[main.to] = None

\* The main loop always comes back to read what the router puts out.
LoopReturns == main # None ~> main = None

\* The refinement mapping to what the clients are promised.
Outcome(r) ==
    CASE pc[r] = "new" -> "idle"
      [] pc[r] = "answered" -> "answered"
      [] pc[r] \in Over \ {"answered"} -> "failed"
      [] OTHER -> "open"

Promise == INSTANCE RequestReply WITH
    state <- [r \in Reqs |-> Outcome(r)],
    result <- [r \in Reqs |-> IF got[r] = None THEN None ELSE got[r].of]

\* Every request that was made is answered once, with its own status or an
\* error, the end of its connection at the latest, and eventually is.
KeepsPromise == Promise!Spec
=============================================================================
