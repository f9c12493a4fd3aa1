---------------------------- MODULE EventDelivery ----------------------------
(* How an event gets from a producer to the consumers: the applications create  *)
(* publishers and subscriptions with their sidecar and publish events, the      *)
(* routers of QdrRouter carry them, and the main loop of the receiving sidecar  *)
(* posts each to its consumer.  The registry is reduced to what delivery sees   *)
(* of it: which addresses are registered with an endpoint.  Status events are   *)
(* the subject of StatusCheck.                                                  *)
EXTENDS QdrRouter

CONSTANTS
    Clients,      \* the <<sidecar, type, address>> the applications register, and
                  \* the STATUS addresses a sidecar asks for when it starts
    EventHandler, \* per sidecar, how it hands events to its consumer
    MaxAsks,      \* bound: how many registrations and deletions are asked for
    MaxFaults     \* bound: how many processes die or receivers lose their connection

ASSUME DeliveryAssumption ==
    /\ Clients \subseteq Sidecars \X LinkTypes \X Addrs
    /\ EventHandler \in [Sidecars -> {"SOCKET", "HTTP"}]
    /\ MaxAsks \in Nat
    /\ MaxFaults \in Nat

VARIABLES
    store,    \* the registrations in the maps of the sidecars
    pending,  \* the registrations whose handler is about to ask the router
    main,     \* per sidecar, what its main loop is posting: None or a Work
    buffer,   \* per sidecar, the event whose packet its UDP listener read last, or
              \* None if that packet was no event, or there was none
    answered, \* the links asked for since the start: registrations answered
              \* with 201, and the status listeners of main
    wanted,   \* history: the registrations ever made
    ready,    \* history: the events published after their publisher was answered
    viaSocket, \* history: the events that came as packets
    posted,   \* history: per sidecar, the events its consumer was given
    acks,     \* history: the events whose success was posted to the producer
    asks,     \* bound: registrations and deletions so far
    faults    \* bound: processes that died and connections lost so far

historyVars == <<wanted, ready, viaSocket, posted, acks>>
boundVars == <<asks, faults>>
vars == <<routerVars, store, pending, answered, main, buffer, historyVars, boundVars>>

\* What the consumer is given, and which event it stands for.
Parcel == [ev : Events, body : Body]
Work == [what : {"post", "socket", "ack"}, parcel : Parcel]

Init ==
    /\ RouterInit
    /\ store = {}
    /\ pending = {}
    /\ main = [s \in Sidecars |-> None]
    /\ buffer = [s \in Sidecars |-> None]
    /\ answered = {}
    /\ wanted = {}
    /\ ready = {}
    /\ viaSocket = {}
    /\ posted = [s \in Sidecars |-> <<>>]
    /\ acks = {}
    /\ asks = 0
    /\ faults = 0

-----------------------------------------------------------------------------
(* The REST server                                                              *)

\* createPubSub up to Set; an address already registered goes on in the same way.
Register(r) ==
    /\ r \in Clients \ pending
    /\ r[2] # "STATUS"
    /\ asks < MaxAsks
    /\ asks' = asks + 1
    /\ store' = store \cup {r}
    /\ pending' = pending \cup {r}
    /\ wanted' = wanted \cup {r}
    /\ UNCHANGED <<routerVars, main, buffer, answered, ready, viaSocket, posted, acks, faults>>

\* sendOut and the answer 201
SendOut(r) ==
    /\ r \in pending
    /\ AskLink(r[1], r[2], r[3])
    /\ pending' = pending \ {r}
    /\ answered' = answered \cup {r}
    /\ UNCHANGED <<store, main, buffer, historyVars, boundVars>>

\* main asks for the listeners of status events before it enters its loop; the
\* REST server has been started already.
AskStatus(r) ==
    /\ r \in Clients \ answered
    /\ r[2] = "STATUS"
    /\ AskLink(r[1], r[2], r[3])
    /\ answered' = answered \cup {r}
    /\ UNCHANGED <<store, pending, main, buffer, historyVars, boundVars>>

Started(s) == \A r \in Clients : r[1] = s /\ r[2] = "STATUS" => r \in answered

\* deleteAllPublishers, deleteAllSubscriptions: the links stay.
DeleteAll(s, type) ==
    LET all == {r \in store : r[1] = s /\ r[2] = type} IN
    /\ all # {}
    /\ asks < MaxAsks
    /\ asks' = asks + 1
    /\ store' = store \ all
    /\ answered' = answered \ all
    /\ UNCHANGED <<routerVars, pending, main, buffer, historyVars, faults>>

MarkReady(e) ==
    ready' = IF <<SentBy[e], "PRODUCER", AddrOf[e]>> \in answered THEN ready \cup {e} ELSE ready

\* publishEvent: the data of the event is the body of the request.
Publish(e) ==
    /\ sending[e] = "new"
    /\ AskSend(e)
    /\ MarkReady(e)
    /\ UNCHANGED <<store, pending, main, buffer, answered, wanted, viaSocket, posted, acks, boundVars>>

-----------------------------------------------------------------------------
(* The UDP listener, one goroutine with one buffer                              *)

\* The listener waits for a packet: it is not blocked on the send of the last event.
Listening(s) ==
    /\ EventHandler[s] = "SOCKET"
    /\ Started(s)
    /\ \A f \in Events : SentBy[f] = s => sending[f] # "read"

\* ReadFromUDP overwrites the buffer; the data of the new event is a slice of it.
ReadPacket(s, e) ==
    /\ Listening(s)
    /\ SentBy[e] = s
    /\ Make(e)
    /\ buffer' = [buffer EXCEPT ![s] = e]
    /\ viaSocket' = viaSocket \cup {e}
    /\ MarkReady(e)
    /\ UNCHANGED <<store, pending, main, answered, wanted, posted, acks, boundVars>>

\* A packet that cannot be read as an event: no event is made of it, but it has
\* been read into the buffer.
ReadGarbage(s) ==
    /\ Listening(s)
    /\ buffer[s] # None
    /\ buffer' = [buffer EXCEPT ![s] = None]
    /\ UNCHANGED <<routerVars, store, pending, main, answered, historyVars, boundVars>>

\* The send on DataIn, after which the next packet may be read.
QueuePacket(e) ==
    /\ sending[e] = "read"
    /\ AskSend(e)
    /\ UNCHANGED <<store, pending, main, buffer, answered, historyVars, boundVars>>

CarriedFromBuffer(e) ==
    IF buffer[SentBy[e]] \in {e, None} THEN {e} ELSE {buffer[SentBy[e]], None}

\* What an event carries now: as much of the packet read last as there is room
\* for in its slice, and if that packet was shorter the tail of earlier ones.
Carried(e) ==
    IF e \notin viaSocket \/ buffer[SentBy[e]] = e THEN {e} ELSE {buffer[SentBy[e]], None}

-----------------------------------------------------------------------------
(* The main loop                                                                *)

\* GetFromSubStore and GetFromPubStore
Found(s, type, a) == <<s, type, a>> \in store

\* Events go to the socket, or to the endpoint of the subscription if there is
\* one; of the reports only SUCCEED is posted to the endpoint of the publisher.
WorkFor(s, out) ==
    LET parcel == [ev |-> out.ev, body |-> out.body] IN
    CASE out.type = "EVENT" /\ EventHandler[s] = "SOCKET" ->
            [what |-> "socket", parcel |-> parcel]
      [] out.type = "EVENT" /\ EventHandler[s] = "HTTP" /\ Found(s, "CONSUMER", out.addr) ->
            [what |-> "post", parcel |-> parcel]
      [] out.type = "PRODUCER" /\ out.status = "SUCCEED" /\ Found(s, "PRODUCER", out.addr) ->
            [what |-> "ack", parcel |-> parcel]
      [] OTHER -> None

\* Data that is no event's may be refused by Unmarshal; a report still has the
\* slice of the event that was sent.
Unreadable(out) == None \in IF out.type = "PRODUCER" THEN Carried(out.ev) ELSE {out.body}

TakeWhatHasWork(s) ==
    /\ Started(s)
    /\ main[s] = None
    /\ TakeOutput(s)
    /\ WorkFor(s, Head(dataOut[s])) # None
    /\ main' = [main EXCEPT ![s] = WorkFor(s, Head(dataOut[s]))]
    /\ UNCHANGED <<store, pending, buffer, answered, historyVars, boundVars>>

MainTake(s) ==
    /\ Started(s)
    /\ main[s] = None
    /\ TakeOutput(s)
    /\ \/ main' = [main EXCEPT ![s] = WorkFor(s, Head(dataOut[s]))]
       \/ Unreadable(Head(dataOut[s])) /\ UNCHANGED main
    /\ UNCHANGED <<store, pending, buffer, answered, historyVars, boundVars>>

\* postEventsToConsumer, socketEventToConsumer: the consumer gets the event, or
\* the request or packet is lost and nothing but the log knows.
Post(s) ==
    /\ main[s] # None
    /\ main[s].what \in {"post", "socket"}
    /\ posted' \in {posted, [posted EXCEPT ![s] = Append(@, main[s].parcel)]}
    /\ main' = [main EXCEPT ![s] = None]
    /\ UNCHANGED <<routerVars, store, pending, answered, buffer, wanted, ready, viaSocket, acks, boundVars>>

\* processProducer
PostAck(s) ==
    /\ main[s] # None
    /\ main[s].what = "ack"
    /\ acks' \in {acks, acks \cup {main[s].parcel.ev}}
    /\ main' = [main EXCEPT ![s] = None]
    /\ UNCHANGED <<routerVars, store, pending, answered, buffer, wanted, ready, viaSocket, posted, boundVars>>

-----------------------------------------------------------------------------
\* A sidecar dies and is started again.  The maps are read from the files, where
\* of each type only the record of the last address survives (PubSubRegistry!Load);
\* the router is asked for no link until the applications register again.
Restart(s) ==
    /\ faults < MaxFaults
    /\ faults' = faults + 1
    /\ Die(s)
    /\ \E kept \in SUBSET {r \in store : r[1] = s} :
        /\ \A r \in store : r[1] = s => \E k \in kept : k[2] = r[2]
        /\ \A j, k \in kept : j[2] = k[2] => j = k
        /\ store' = {r \in store : r[1] # s} \cup kept
    /\ pending' = {r \in pending : r[1] # s}
    /\ answered' = {r \in answered : r[1] # s}
    /\ main' = [main EXCEPT ![s] = None]
    /\ buffer' = [buffer EXCEPT ![s] = None]
    /\ UNCHANGED <<historyVars, asks>>

RouterOnly == UNCHANGED <<store, pending, answered, main, buffer, historyVars, boundVars>>
RouterLoop(s) == Route(s) /\ RouterOnly
SendTo(e) ==
    /\ \/ \E body \in Carried(e) : Transmit(e, body)
       \/ Accepted(e) \/ Undelivered(e) \/ Rejected(e)
    /\ RouterOnly
Reported(e) == Report(e) /\ RouterOnly
CallBack(r) == PutOut(r) /\ RouterOnly
MainLoop(s) == MainTake(s) \/ Post(s) \/ PostAck(s)

\* The connection of a receiver breaks.
LoseReceiver(s, a, n) ==
    /\ faults < MaxFaults
    /\ faults' = faults + 1
    /\ BreakReceiver(s, a, n)
    /\ UNCHANGED <<store, pending, answered, main, buffer, historyVars, asks>>

Next ==
    \/ \E r \in Clients : Register(r) \/ SendOut(r) \/ AskStatus(r)
    \/ \E s \in Sidecars, type \in {"PRODUCER", "CONSUMER"} : DeleteAll(s, type)
    \/ \E s \in Sidecars, e \in Events : ReadPacket(s, e)
    \/ \E s \in Sidecars : ReadGarbage(s)
    \/ \E s \in Sidecars, a \in Addrs : \E n \in DOMAIN listeners[s][a] : LoseReceiver(s, a, n)
    \/ \E e \in Events : Publish(e) \/ QueuePacket(e) \/ SendTo(e) \/ Reported(e)
    \/ \E r \in arrived : CallBack(r)
    \/ \E s \in Sidecars : RouterLoop(s) \/ MainLoop(s) \/ Restart(s)

Spec == Init /\ [][Next]_vars

\* Goroutines run and Send returns within two seconds.  The goroutines blocked on
\* a full channel are served in order: of those that put something out, one gets
\* its turn whenever there is room again and again (SF), and there are finitely
\* many.  A consumer answers its POST: the client the main loop uses has no
\* timeout, so this is assumed of the consumers.
PutSomethingOut(s) ==
    \/ \E e \in Events : SentBy[e] = s /\ Reported(e)
    \/ \E r \in arrived : r.at = s /\ CallBack(r)

Fairness ==
    /\ \A s \in Sidecars : WF_vars(RouterLoop(s)) /\ WF_vars(MainLoop(s)) /\ SF_vars(PutSomethingOut(s))
    /\ \A e \in Events : WF_vars(SendTo(e))
    /\ \A r \in Clients : SF_vars(AskStatus(r))

FairSpec == Spec /\ Fairness

-----------------------------------------------------------------------------
(* Properties                                                                   *)

\* Every variable stays within its type, the channels within their capacity.
TypeOK ==
    /\ RouterTypeOK
    /\ store \subseteq Clients
    /\ pending \subseteq Clients
    /\ main \in [Sidecars -> Work \cup {None}]
    /\ answered \subseteq Clients
    /\ wanted \subseteq Clients
    /\ buffer \in [Sidecars -> Body]
    /\ ready \subseteq Events
    /\ viaSocket \subseteq Events
    /\ posted \in [Sidecars -> Seq(Parcel)]
    /\ acks \subseteq Events
    /\ asks \in 0 .. MaxAsks
    /\ faults \in 0 .. MaxFaults

\* No consumer is given an event twice, however often its subscription is
\* created, deleted, created again, its sidecar restarted and its connection lost:
\* there is never a second receiver on an address, and nothing is sent again.
DeliveredOnce ==
    \A s \in Sidecars : \A m, n \in DOMAIN posted[s] : posted[s][m].ev = posted[s][n].ev => m = n

\* A consumer is given only events of addresses it once subscribed to with its
\* own sidecar, by socket or by HTTP: no sidecar listens where only a publisher
\* was created, and no callback stands for the address of another.
NotUnasked ==
    \A s \in Sidecars : \A n \in DOMAIN posted[s] :
        <<s, "CONSUMER", AddrOf[posted[s][n].ev]>> \in wanted

\* An event published over HTTP reaches its consumers with its own data.  One
\* that came as a packet carries its own, or that of a later packet of the same
\* sidecar, or a mixture; never what another producer's sidecar was given.
OwnContent ==
    \A s \in Sidecars : \A n \in DOMAIN posted[s] :
        LET given == posted[s][n] IN
        \/ given.body = given.ev
        \/ /\ given.ev \in viaSocket
           /\ given.body = None \/ (given.body \in viaSocket /\ SentBy[given.body] = SentBy[given.ev])

\* Once a creation was answered with 201, and until the process dies, the router
\* has the link, or the request for it in its queue, or could not make it:
\* deletions in between, queues that were full and other requests lose no link,
\* as long as no sidecar uses one address for events and for status.  A receiver
\* whose connection broke is not replaced, also by creating it again.
HasCallback(s, a, callback) == \E n \in DOMAIN listeners[s][a] : listeners[s][a][n] = callback

HasLink(r) ==
    CASE r[2] = "PRODUCER" -> r[3] \in senders[r[1]]
      [] r[2] = "CONSUMER" -> HasCallback(r[1], r[3], "EVENT")
      [] r[2] = "STATUS" -> HasCallback(r[1], r[3], "STATUS")

HasEnded(r) == r[2] # "PRODUCER" /\ HasCallback(r[1], r[3], "ENDED")

LinksFollow ==
    \A r \in answered :
        \/ HasLink(r) \/ HasEnded(r)
        \/ \E n \in DOMAIN dataIn[r[1]] : dataIn[r[1]][n].type = r[2] /\ dataIn[r[1]][n].addr = r[3]
        \/ r \in refused

\* The router never drops an event that was published after the creation of its
\* publisher had been answered, unless the sender could not be made: the request
\* for the sender is in the queue before the answer is sent.
NoSilentDrop ==
    [][\A e \in ready :
          sending[e] # "dropped" /\ sending'[e] = "dropped"
          => <<SentBy[e], "PRODUCER", AddrOf[e]>> \in refused]_vars

\* Every event published is dropped, or sent and its result known.
EventLeaves == \A e \in Events : sending[e] = "queued" ~> sending[e] \notin {"queued", "sending", "sent"}

\* What a receiver's callback or a failed send has to put out is put out: router,
\* callbacks and main loop never wait for each other for ever.
Waiting(e) == sending[e] \in {"undelivered", "rejected"}

OutputDrains ==
    /\ \A s \in Sidecars, e \in Events :
          (\E r \in arrived : r.at = s /\ r.ev = e) ~> ~(\E r \in arrived : r.at = s /\ r.ev = e)
    /\ \A e \in Events : Waiting(e) ~> ~Waiting(e)

\* A producer is told of the success of an event only if it was accepted.
AckMeansAccepted == \A e \in acks : sending[e] = "accepted"
=============================================================================
