------------------------ MODULE RegistryServiceProofs ------------------------
(* The registry implements RegistryService for one handler, me: each step of     *)
(* the handler is a step of the service or changes nothing the client can see.   *)
EXTENDS RegistrySequentialProofs

\* A publisher being deleted is in the map until the last step of the delete.
HoldsInv(me) ==
    /\ crashes = 0 /\ Removing(me) => key[me] \in Stored("PRODUCER")
    /\ pc[me] = "list" => op[me] = "list"

Inv(me) == SeqInv(me) /\ NewInv(me) /\ HoldsInv(me)

LEMMA HoldsNext ==
    ASSUME NEW me, Handlers = {me}, SeqInv(me), HoldsInv(me), [Next]_vars
    PROVE  HoldsInv(me)'
<1> USE DEF historyVars, diskVars, handlerVars
<1>a. SharedOK /\ HandlersOK /\ LocalOK(me) /\ kind[me] \in Kinds /\ me \in Handlers
    BY DEF SeqInv, TypeInv, TypeOK, HandlersOK
<1>1. CASE Accept(me)
    <2>1. PICK r \in Requests : op' = [op EXCEPT ![me] = r[1]] /\ Goto(me, FirstStep(r[1]))
        BY <1>1 DEF Accept
    <2>2. r[1] \in Operations /\ pc'[me] = FirstStep(r[1]) /\ op'[me] = r[1]
        BY <2>1, <1>a, RequestsAssumption DEF Goto, HandlersOK
    <2> QED BY <2>2 DEF FirstStep, Operations, HoldsInv, Removing
<1>2. CASE DeletePublisher(me)
    <2>1. op[me] = "delete" /\ UNCHANGED <<op, key, store>>
        BY <1>2 DEF DeletePublisher
    <2>2. pc'[me] \in {"read", "done"} /\ (pc'[me] = "read" => key[me] \in Stored("PRODUCER"))
        BY <1>2, <1>a DEF DeletePublisher, Goto, Reply, HandlersOK
    <2> QED BY <2>1, <2>2 DEF HoldsInv, Removing, Stored
<1>3. CASE ReadFile(me) \/ Truncate(me) \/ WriteFile(me)
    <2>1. UNCHANGED <<op, key, store, crashes>>
        BY <1>3 DEF ReadFile, Truncate, WriteFile
    <2>2. pc[me] \in {"read", "truncate", "write"} /\ pc'[me] \in {"truncate", "write", "update"}
        BY <1>3, <1>a DEF ReadFile, Truncate, WriteFile, Goto, HandlersOK
    <2> QED BY <2>1, <2>2 DEF HoldsInv, Removing, Stored
<1>4. CASE Serve(me) /\ ~DeletePublisher(me) /\ ~ReadFile(me) /\ ~Truncate(me) /\ ~WriteFile(me)
    <2>1. \/ pc'[me] \in {"idle", "done", "send", "validate"}
          \/ pc'[me] = "read" /\ op'[me] = "create"
        <3>1. CASE EndpointAccepted(me)
            BY <3>1, <1>a DEF EndpointAccepted, Goto, HandlersOK, LocalOK
        <3>2. CASE \/ CheckDuplicate(me) \/ EndpointRefused(me) \/ RejectBody(me) \/ ReadDamaged(me)
                   \/ SetInStore(me) \/ DeleteFromStore(me) \/ ClearStore(me) \/ GetByID(me)
                   \/ ListAll(me) \/ DeleteSubscription(me) \/ Finish(me)
            BY <3>2, <1>a DEF CheckDuplicate, EndpointRefused, RejectBody, ReadDamaged, SetInStore,
                 DeleteFromStore, ClearStore, GetByID, ListAll, DeleteSubscription, Finish, Goto,
                 Reply, HandlersOK
        <3> QED BY <1>4, <3>1, <3>2 DEF Serve
    <2> QED BY <2>1 DEF HoldsInv, Removing
<1>5. CASE SendOut(me)
    BY <1>5, <1>a DEF SendOut, Reply, Goto, HandlersOK, HoldsInv, Removing
<1>6. CASE Crash
    BY <1>6, <1>a DEF Crash, HoldsInv, Removing
<1>7. CASE RouterTake \/ UNCHANGED vars
    BY <1>7 DEF RouterTake, vars, HoldsInv, Removing, Stored
<1>8. CASE Start
    BY <1>8 DEF Start, HoldsInv, Removing, SeqInv, AgreeInv
<1> QED
    BY <1>1, <1>2, <1>3, <1>4, <1>5, <1>6, <1>7, <1>8 DEF Next

LEMMA InvInit ==
    ASSUME NEW me, Handlers = {me}
    PROVE  Init => Inv(me)
BY SeqInit DEF Init, Inv, NewInv, StoreNoDuplicates, Unlisted, Making, Stored, EmptyStore,
               HoldsInv, Removing

LEMMA InvNext ==
    ASSUME NEW me, Handlers = {me}
    PROVE  Inv(me) /\ [Next]_vars => Inv(me)'
BY SeqNext, NewNext, HoldsNext DEF Inv

-----------------------------------------------------------------------------
(* What is seen of the process as long as it lives, before and after a step.    *)

LEMMA Seen ==
    ASSUME NEW me, Handlers = {me}, crashes = 0
    PROVE  /\ ShownPhase = Phase(me)
           /\ ShownRegs = Registrations
           /\ ShownUsed = Given(me)
           /\ ShownRequest = Request(me)
           /\ ShownResponse = Response(me)
<1>1. Only = me
    BY DEF Only
<1> QED
    BY <1>1 DEF ShownPhase, ShownRegs, ShownUsed, ShownRequest, ShownResponse

LEMMA SeenNext ==
    ASSUME NEW me, Handlers = {me}, crashes' = 0
    PROVE  /\ ShownPhase' = Phase(me)'
           /\ ShownRegs' = Registrations'
           /\ ShownUsed' = Given(me)'
           /\ ShownRequest' = Request(me)'
           /\ ShownResponse' = Response(me)'
<1>1. Only = me
    BY DEF Only
<1> QED
    BY <1>1 DEF ShownPhase, ShownRegs, ShownUsed, ShownRequest, ShownResponse

LEMMA Unseen ==
    ASSUME NEW me, Handlers = {me}, crashes = 0, UNCHANGED crashes,
           Phase(me)' = Phase(me), Registrations' = Registrations, Given(me)' = Given(me),
           Request(me)' = Request(me), Response(me)' = Response(me)
    PROVE  UNCHANGED Service!vars
BY Seen, SeenNext DEF Service!vars

\* The map is left alone.
LEMMA SameRegistrations ==
    ASSUME UNCHANGED store
    PROVE  Registrations' = Registrations
BY DEF Registrations, Stored

\* No id is generated and none stops being held back.
LEMMA SameGiven ==
    ASSUME NEW me, UNCHANGED born,
           \/ ~Making(me) /\ ~Making(me)'
           \/ Making(me) /\ Making(me)' /\ rec'[me] = rec[me]
    PROVE  Given(me)' = Given(me)
BY DEF Given

\* The request that is being served stays the same.
LEMMA SameRequest ==
    ASSUME NEW me, pc[me] # "idle", pc'[me] # "idle", UNCHANGED <<op, kind, key>>,
           op[me] = "create" => rec'[me].addr = rec[me].addr
    PROVE  Request(me)' = Request(me)
BY DEF Request

-----------------------------------------------------------------------------
(* The end points of a request, and the process.                                *)

LEMMA AcceptIsAsk ==
    ASSUME NEW me, Handlers = {me}, Inv(me), crashes = 0, Accept(me)
    PROVE  Service!Ask
<1> USE DEF historyVars, diskVars, handlerVars
<1>a. HandlersOK /\ me \in Handlers
    BY DEF Inv, SeqInv, TypeInv, TypeOK
<1>1. PICK r \in Requests :
        /\ op' = [op EXCEPT ![me] = r[1]]
        /\ kind' = [kind EXCEPT ![me] = r[2]]
        /\ Goto(me, FirstStep(r[1]))
        /\ r[1] = "create" => \E a \in Addrs : rec' = [rec EXCEPT ![me] = [id |-> None, addr |-> a]]
        /\ IF r[1] \in {"get", "delete"}
           THEN \E i \in Ids : key' = [key EXCEPT ![me] = i]
           ELSE key' = [key EXCEPT ![me] = None]
    BY DEF Accept
<1>2. /\ op'[me] = r[1] /\ kind'[me] = r[2] /\ pc'[me] = FirstStep(r[1])
      /\ r[1] \in Operations
      /\ r[1] = "create" => \E a \in Addrs : rec'[me] = [id |-> None, addr |-> a]
      /\ r[1] \in {"get", "delete"} => key'[me] \in Ids
      /\ r[1] \notin {"get", "delete"} => key'[me] = None
    BY <1>1, <1>a, RequestsAssumption DEF Goto, HandlersOK
<1>3. pc[me] = "idle" /\ UNCHANGED <<store, born, crashes>>
    BY DEF Accept
<1>4. pc'[me] \in {"check", "list", "truncate", "lookup"} /\ (pc'[me] = "truncate" => op'[me] = "deleteAll")
    BY <1>2 DEF FirstStep, Operations
<1>5. Phase(me) = "idle" /\ Phase(me)' = "serving" /\ Response(me) = None /\ Response(me)' = None
    BY <1>3, <1>4 DEF Phase, Response
<1>6. Registrations' = Registrations /\ Given(me)' = Given(me)
    BY <1>3, <1>4, SameRegistrations, SameGiven DEF Making
<1>7. \E x \in Service!Named(r[1]) : Request(me)' = [op |-> r[1], kind |-> r[2], about |-> x]
    <2>1. pc'[me] # "idle"
        BY <1>4
    <2>2. CASE r[1] = "create"
        <3>1. rec'[me].addr \in Addrs
            <4>1. PICK a \in Addrs : rec'[me] = [id |-> None, addr |-> a]
                BY <1>2, <2>2
            <4> QED BY <4>1
        <3> QED BY <1>2, <2>1, <2>2, <3>1 DEF Request, Service!Named
    <2>3. CASE r[1] \in {"get", "delete"}
        BY <1>2, <2>1, <2>3 DEF Request, Service!Named
    <2>4. CASE r[1] \notin {"create", "get", "delete"}
        BY <1>2, <2>1, <2>4 DEF Request, Service!Named
    <2> QED BY <2>2, <2>3, <2>4
<1>8. Request(me) = None
    BY <1>3 DEF Request
<1> QED
    BY <1>3, <1>5, <1>6, <1>7, Seen, SeenNext DEF Service!Ask

LEMMA FinishIsOver ==
    ASSUME NEW me, Handlers = {me}, Inv(me), crashes = 0, Finish(me)
    PROVE  Service!Over
<1> USE DEF historyVars, diskVars, handlerVars
<1>1. pc[me] = "done" /\ pc'[me] = "idle" /\ UNCHANGED <<store, born, crashes>>
    BY DEF Finish, Goto, Inv, SeqInv, TypeInv, TypeOK, HandlersOK
<1>2. Phase(me) = "answered" /\ Phase(me)' = "idle" /\ Request(me)' = None /\ Response(me)' = None
    BY <1>1 DEF Phase, Request, Response
<1>3. Registrations' = Registrations /\ Given(me)' = Given(me)
    BY <1>1, SameRegistrations, SameGiven DEF Making
<1> QED
    BY <1>1, <1>2, <1>3, Seen, SeenNext DEF Service!Over

LEMMA CrashIsDie ==
    ASSUME NEW me, Handlers = {me}, Inv(me), crashes = 0, Crash
    PROVE  Service!Die
<1>1. crashes' # 0
    BY DEF Crash, Inv, SeqInv, TypeInv, TypeOK, SharedOK
<1>2. /\ ShownPhase' = "dead" /\ ShownRegs' = [k \in Kinds |-> {}] /\ ShownUsed' = {}
      /\ ShownRequest' = None /\ ShownResponse' = None
    BY <1>1 DEF ShownPhase, ShownRegs, ShownUsed, ShownRequest, ShownResponse
<1>3. ShownPhase # "dead"
    BY Seen DEF Phase
<1> QED
    BY <1>2, <1>3 DEF Service!Die, Kinds, Service!Kinds

\* After the first crash nothing more is seen.
LEMMA DeadStaysDead ==
    ASSUME SharedOK, crashes # 0, [Next]_vars
    PROVE  UNCHANGED Service!vars
<1>1. crashes' # 0
    <2>1. UNCHANGED crashes \/ crashes' = crashes + 1
        BY ZenonT(40) DEF Next, Serve, Accept, RejectBody, CheckDuplicate, EndpointRefused, EndpointAccepted,
             ReadDamaged, ReadFile, Truncate, WriteFile, SetInStore, DeleteFromStore, ClearStore,
             GetByID, ListAll, DeletePublisher, DeleteSubscription, Finish, SendOut, RouterTake,
             Crash, Start, vars
    <2> QED BY <2>1 DEF SharedOK
<1> QED
    BY <1>1 DEF Service!vars, ShownPhase, ShownRegs, ShownUsed, ShownRequest, ShownResponse

-----------------------------------------------------------------------------
(* Steps in the middle of a request that the client cannot see.                 *)

LEMMA MiddleUnseen ==
    ASSUME NEW me, Handlers = {me}, Inv(me), crashes = 0,
           \/ CheckDuplicate(me) /\ pc'[me] = "validate"
           \/ EndpointAccepted(me)
           \/ ReadFile(me) \/ Truncate(me) \/ WriteFile(me)
           \/ DeletePublisher(me) /\ pc'[me] = "read"
    PROVE  UNCHANGED Service!vars
<1> USE DEF historyVars, diskVars, handlerVars
<1>a. HandlersOK /\ HistoryOK /\ LocalOK(me) /\ me \in Handlers
    BY DEF Inv, SeqInv, TypeInv, TypeOK
<1> DEFINE middle == {"check", "validate", "lookup", "read", "truncate", "write", "update"}
<1>1. UNCHANGED <<op, kind, key, store, crashes>>
    BY DEF CheckDuplicate, EndpointAccepted, ReadFile, Truncate, WriteFile, DeletePublisher
<1>2. pc[me] \in middle /\ pc'[me] \in middle
    BY <1>a DEF CheckDuplicate, EndpointAccepted, ReadFile, Truncate, WriteFile,
                DeletePublisher, Goto, HandlersOK
<1>3. Phase(me)' = Phase(me) /\ Response(me)' = Response(me)
    BY <1>2 DEF Phase, Response
<1>4. CASE CheckDuplicate(me)
    <2>1. pc[me] = "check" /\ pc'[me] = "validate" /\ UNCHANGED <<rec, born>>
        <3>1. pc[me] = "check" /\ UNCHANGED born
            BY <1>4 DEF CheckDuplicate
        <3>2. pc'[me] = "validate"
            BY <1>4, <3>1 DEF EndpointAccepted, ReadFile, Truncate, WriteFile, DeletePublisher
        <3>3. UNCHANGED rec
            BY <1>4, <1>a, <3>2 DEF CheckDuplicate, Goto, HandlersOK
        <3> QED BY <3>1, <3>2, <3>3
    <2>2. Given(me)' = Given(me) /\ Request(me)' = Request(me)
        BY <2>1, <1>1, SameGiven, SameRequest DEF Making
    <2> QED BY <1>1, <1>3, <2>2, SameRegistrations, Unseen
<1>5. CASE EndpointAccepted(me)
    <2>1. PICK i \in FreshIds :
            /\ rec' = [rec EXCEPT ![me].id = i]
            /\ born' = [born EXCEPT ![i] = [kind |-> kind[me], addr |-> rec[me].addr]]
        BY <1>5 DEF EndpointAccepted
    <2>2. pc[me] = "validate" /\ pc'[me] = "read" /\ op[me] = "create" /\ rec[me] \in Draft
        BY <1>5, <1>a DEF EndpointAccepted, Goto, HandlersOK, LocalOK
    <2>3. rec'[me].id = i /\ rec'[me].addr = rec[me].addr
        BY <2>1, <2>2, <1>a DEF HandlersOK, Draft
    <2>4. /\ born[i] = None /\ \A j \in Ids \ {i} : born'[j] = born[j]
          /\ i \in Ids
        BY <2>1, <1>a DEF FreshIds, HistoryOK
    <2>5. ~Making(me) /\ Making(me)'
        BY <2>2, <1>1 DEF Making
    <2>6. Given(me)' = Given(me)
        BY <2>3, <2>4, <2>5 DEF Given
    <2>7. Request(me)' = Request(me)
        BY <2>2, <2>3, <1>1, SameRequest
    <2> QED BY <1>1, <1>3, <2>6, <2>7, SameRegistrations, Unseen
<1>6. CASE ReadFile(me) \/ Truncate(me) \/ WriteFile(me)
    <2>1. /\ pc[me] \in {"read", "truncate", "write"} /\ pc'[me] \in {"truncate", "write", "update"}
          /\ UNCHANGED <<rec, born>>
        BY <1>6, <1>a DEF ReadFile, Truncate, WriteFile, Goto, HandlersOK
    <2>2. Given(me)' = Given(me) /\ Request(me)' = Request(me)
        BY <2>1, <1>1, SameGiven, SameRequest DEF Making
    <2> QED BY <1>1, <1>3, <2>2, SameRegistrations, Unseen
<1>7. CASE DeletePublisher(me)
    <2>1. op[me] = "delete" /\ UNCHANGED born
        BY <1>7 DEF DeletePublisher
    <2>2. Given(me)' = Given(me) /\ Request(me)' = Request(me)
        BY <2>1, <1>1, <1>2, SameGiven, SameRequest DEF Making
    <2> QED BY <1>1, <1>3, <2>2, SameRegistrations, Unseen
<1> QED
    BY <1>4, <1>5, <1>6, <1>7

\* The router is told, or takes what it is told, behind the client's back.
LEMMA RouterUnseen ==
    ASSUME NEW me, Handlers = {me}, Inv(me), crashes = 0,
           SendOut(me) \/ RouterTake \/ UNCHANGED vars
    PROVE  UNCHANGED Service!vars
<1> USE DEF historyVars, diskVars, handlerVars
<1>a. HandlersOK /\ LocalOK(me) /\ me \in Handlers
    BY DEF Inv, SeqInv, TypeInv, TypeOK
<1>1. CASE SendOut(me)
    <2>1. /\ pc[me] = "send" /\ pc'[me] = "done" /\ op[me] = "create" /\ code'[me] = 201
          /\ UNCHANGED <<op, kind, key, rec, store, born, crashes, file>>
        BY <1>1, <1>a DEF SendOut, Reply, Goto, HandlersOK, LocalOK
    <2>2. Phase(me)' = Phase(me) /\ Response(me)' = Response(me)
        BY <2>1 DEF Phase, Response, Outcome, Body
    <2>3. Given(me)' = Given(me) /\ Request(me)' = Request(me)
        BY <2>1, SameGiven, SameRequest DEF Making
    <2> QED BY <2>1, <2>2, <2>3, SameRegistrations, Unseen
<1>2. CASE RouterTake \/ UNCHANGED vars
    <2>1. UNCHANGED <<pc, op, kind, key, rec, code, store, born, crashes, file>>
        BY <1>2 DEF RouterTake, vars
    <2>2. /\ Phase(me)' = Phase(me) /\ Response(me)' = Response(me)
          /\ Given(me)' = Given(me) /\ Request(me)' = Request(me)
        BY <2>1 DEF Phase, Response, Outcome, Body, Given, Making, Request
    <2> QED BY <2>1, <2>2, SameRegistrations, Unseen
<1> QED
    BY <1>1, <1>2

-----------------------------------------------------------------------------
(* Steps that answer.                                                           *)

\* The request being served and the step that answers it.
LEMMA Served ==
    ASSUME NEW me, Handlers = {me}, crashes = 0, pc[me] \notin {"idle", "send", "done"}
    PROVE  /\ Service!Serving(op[me])
           /\ ShownRequest.kind = kind[me]
           /\ ShownRequest.about = IF op[me] = "create" THEN rec[me].addr ELSE key[me]
           /\ Service!Known = Registrations[kind[me]]
BY Seen DEF Phase, Request, Service!Serving, Service!Known

LEMMA Answers ==
    ASSUME NEW me, Handlers = {me}, Inv(me), crashes = 0, NEW status \in {200, 201, 400},
           pc[me] \notin {"idle", "send", "done"}, Reply(me, status),
           UNCHANGED <<op, kind, key, crashes>>,
           op[me] = "create" => rec'[me].addr = rec[me].addr
    PROVE  /\ Service!Answer(IF status = 400 THEN "refused" ELSE "done", Body(me)')
           /\ code'[me] = status
           /\ pc'[me] = "done"
<1>a. HandlersOK /\ me \in Handlers
    BY DEF Inv, SeqInv, TypeInv, TypeOK
<1>1. pc'[me] = "done" /\ code'[me] = status
    BY <1>a DEF Reply, Goto, HandlersOK
<1>2. Response(me)' = [outcome |-> IF status = 400 THEN "refused" ELSE "done", body |-> Body(me)']
    BY <1>1 DEF Response, Outcome
<1>3. Phase(me)' = "answered" /\ Request(me)' = Request(me)
    BY <1>1, SameRequest DEF Phase
<1> QED
    BY <1>1, <1>2, <1>3, Seen, SeenNext DEF Service!Answer

\* An answer that neither takes away nor adds a registration.
LEMMA NothingChanges ==
    ASSUME NEW me, Handlers = {me}, crashes = 0, UNCHANGED <<store, born, crashes>>,
           ~Making(me), ~Making(me)'
    PROVE  UNCHANGED <<ShownRegs, ShownUsed>>
BY Seen, SeenNext, SameRegistrations, SameGiven

\* Which records are registered: those the map holds under their own ids.
LEMMA RegisteredRecords ==
    ASSUME NEW me, Inv(me), crashes = 0, NEW k \in Kinds
    PROVE  /\ Registrations[k] = {store[k][i] : i \in Stored(k)}
           /\ \A r \in Registrations[k] : r \in Record /\ r.id \in Stored(k) /\ store[k][r.id] = r
           /\ \A i \in Stored(k) : store[k][i] \in Registrations[k] /\ store[k][i].id = i
<1>1. Registrations[k] = {store[k][i] : i \in Stored(k)}
    BY DEF Registrations
<1>2. \A i \in Stored(k) : store[k][i] \in Record /\ store[k][i].id = i
    BY DEF Inv, SeqInv, TypeInv, TypeOK, SharedOK, AgreeInv, OwnKeys, Stored
<1> QED
    BY <1>1, <1>2

LEMMA CheckDuplicateIsCreateKnown ==
    ASSUME NEW me, Handlers = {me}, Inv(me), crashes = 0,
           CheckDuplicate(me), pc'[me] # "validate"
    PROVE  Service!CreateKnown
<1> USE DEF historyVars, diskVars, handlerVars
<1>a. HandlersOK /\ LocalOK(me) /\ me \in Handlers /\ kind[me] \in Kinds
    BY DEF Inv, SeqInv, TypeInv, TypeOK, HandlersOK
<1>1. /\ pc[me] = "check" /\ op[me] = "create"
      /\ UNCHANGED <<op, kind, key, store, born, crashes>>
    BY <1>a DEF CheckDuplicate, LocalOK
<1>2. Registered(kind[me], rec[me].addr) # {}
    BY <1>a DEF CheckDuplicate, Goto, HandlersOK
<1>3. PICK r \in Registered(kind[me], rec[me].addr) : rec' = [rec EXCEPT ![me] = r]
    BY <1>2 DEF CheckDuplicate
<1>4. rec'[me] = r /\ pc'[me] = "send"
    BY <1>2, <1>3, <1>a DEF CheckDuplicate, Goto, HandlersOK
<1>5. r.addr = rec[me].addr /\ r \in Registrations[kind[me]]
    BY <1>a DEF Registered, Registrations
<1>6. Response(me)' = [outcome |-> "done", body |-> {r}] /\ Phase(me)' = "answered"
    BY <1>4 DEF Response, Phase
<1>7. Request(me)' = Request(me)
    BY <1>1, <1>4, <1>5, SameRequest
<1>8. Service!Answer("done", {r})
    BY <1>1, <1>6, <1>7, Seen, SeenNext DEF Service!Answer
<1>9. UNCHANGED <<ShownRegs, ShownUsed>>
    BY <1>1, <1>4, NothingChanges DEF Making
<1> QED
    BY <1>1, <1>5, <1>8, <1>9, Served DEF Service!CreateKnown

LEMMA SetInStoreIsCreateNew ==
    ASSUME NEW me, Handlers = {me}, Inv(me), crashes = 0, SetInStore(me)
    PROVE  Service!CreateNew
<1> USE DEF historyVars, diskVars, handlerVars
<1>a. HandlersOK /\ LocalOK(me) /\ me \in Handlers /\ kind[me] \in Kinds /\ TypeInv
    BY DEF Inv, SeqInv, TypeInv, TypeOK, HandlersOK
<1> DEFINE r == rec[me]
<1>1. /\ pc[me] = "update" /\ op[me] = "create" /\ pc'[me] = "send"
      /\ UNCHANGED <<op, kind, key, rec, born, crashes>>
    BY <1>a DEF SetInStore, Goto, HandlersOK
<1>2. r \in Record /\ r.id \in Ids /\ r = [id |-> r.id, addr |-> r.addr]
    BY <1>1, <1>a DEF LocalOK, Record
<1>3. born[r.id] # None
    BY <1>2, <1>a, RecordBorn DEF Inv, SeqInv, GenInv, RecsGenuine, BornAs
<1>4. r.id \notin Given(me) /\ Given(me)' = Given(me) \cup {r.id}
    BY <1>1, <1>2, <1>3 DEF Given, Making
<1>5. \A s \in Registrations[kind[me]] : s.addr # r.addr
    <2>1. \A i \in Stored(kind[me]) : store[kind[me]][i].addr # r.addr
        BY <1>1 DEF Inv, NewInv, Unlisted, Making
    <2> QED BY <2>1, <1>a DEF Registrations
<1>6. Registrations' = [Registrations EXCEPT ![kind[me]] = Registrations[kind[me]] \cup {r}]
    <2>1. r.id \notin Stored(kind[me])
        <3>1. SUFFICES ASSUME r.id \in Stored(kind[me]) PROVE FALSE
            OBVIOUS
        <3> DEFINE s == store[kind[me]][r.id]
        <3>2. s \in Registrations[kind[me]] /\ s.id = r.id
            BY <3>1, <1>a, RegisteredRecords
        <3>3. Genuine(kind[me], s) /\ Genuine(kind[me], r)
            BY <3>1, <1>2, <1>a DEF Inv, SeqInv, GenInv, StoresGenuine, RecsGenuine
        <3>4. [kind |-> kind[me], addr |-> s.addr] = [kind |-> kind[me], addr |-> r.addr]
            BY <3>2, <3>3 DEF Genuine
        <3>5. s.addr = r.addr
            BY <3>4
        <3> QED BY <3>2, <3>5, <1>5
    <2>2. \A k \in Kinds : Registrations'[k] =
            IF k = kind[me] THEN Registrations[k] \cup {r} ELSE Registrations[k]
        <3>. SUFFICES ASSUME NEW k \in Kinds
             PROVE  Registrations'[k] = IF k = kind[me] THEN Registrations[k] \cup {r} ELSE Registrations[k]
            OBVIOUS
        <3>1. /\ Registrations[k] = {store[k][i] : i \in Stored(k)}
              /\ Registrations'[k] = {store'[k][i] : i \in Stored(k)'}
            BY DEF Registrations
        <3>2. Stored(k) \subseteq Ids
            BY DEF Stored
        <3>3. CASE k = kind[me]
            <4>1. Stored(k)' = Stored(k) \cup {r.id}
                BY <3>3, PutIn, <1>a
            <4>2. store'[k][r.id] = r /\ \A i \in Stored(k) : store'[k][i] = store[k][i]
                BY <3>2, <3>3, <2>1, <1>2, PutIn, <1>a
            <4> QED BY <3>1, <3>3, <4>1, <4>2
        <3>4. CASE k # kind[me]
            <4>1. Stored(k)' = Stored(k) /\ \A i \in Stored(k) : store'[k][i] = store[k][i]
                BY <3>2, <3>4, PutIn, <1>a
            <4> QED BY <3>1, <3>4, <4>1
        <3> QED BY <3>3, <3>4
    <2> QED BY <2>2 DEF Registrations
<1>7. /\ Response(me)' = [outcome |-> "done", body |-> {r}]
      /\ Phase(me)' = "answered" /\ Request(me)' = Request(me)
    BY <1>1, SameRequest DEF Response, Phase
<1>8. Service!Answer("done", {r})
    BY <1>1, <1>7, Seen, SeenNext DEF Service!Answer
<1>9. /\ Service!Serving("create") /\ ShownRequest.kind = kind[me] /\ ShownRequest.about = r.addr
      /\ Service!Known = Registrations[kind[me]]
    BY <1>1, Served
<1>10. ShownRegs' = [ShownRegs EXCEPT ![kind[me]] = Service!Known \cup {r}]
    BY <1>1, <1>6, <1>9, Seen, SeenNext
<1>11. ShownUsed' = ShownUsed \cup {r.id} /\ r.id \in Ids \ ShownUsed
    BY <1>1, <1>2, <1>4, Seen, SeenNext
<1> QED
    BY <1>2, <1>5, <1>8, <1>9, <1>10, <1>11 DEF Service!CreateNew

LEMMA RejectedIsRefuseCreate ==
    ASSUME NEW me, Handlers = {me}, Inv(me), crashes = 0, RejectBody(me) \/ EndpointRefused(me)
    PROVE  Service!RefuseCreate
<1> USE DEF historyVars, diskVars, handlerVars
<1>1. /\ pc[me] \in {"check", "validate"} /\ op[me] = "create" /\ Reply(me, 400)
      /\ UNCHANGED <<op, kind, key, rec, store, born, crashes>>
    BY DEF RejectBody, EndpointRefused, Inv, SeqInv, TypeInv, LocalOK
<1>2. Service!Answer("refused", Body(me)') /\ code'[me] = 400 /\ pc'[me] = "done"
    BY <1>1, Answers
<1>3. Body(me)' = {}
    BY <1>2 DEF Body
<1>4. UNCHANGED <<ShownRegs, ShownUsed>>
    BY <1>1, <1>2, NothingChanges DEF Making
<1> QED
    BY <1>1, <1>2, <1>3, <1>4, Served DEF Service!RefuseCreate

LEMMA GetByIDIsGet ==
    ASSUME NEW me, Handlers = {me}, Inv(me), crashes = 0, GetByID(me)
    PROVE  Service!Get \/ Service!GetUnknown
<1> USE DEF historyVars, diskVars, handlerVars
<1>a. HandlersOK /\ LocalOK(me) /\ me \in Handlers /\ kind[me] \in Kinds
    BY DEF Inv, SeqInv, TypeInv, TypeOK, HandlersOK
<1>1. /\ pc[me] = "lookup" /\ op[me] = "get"
      /\ rec'[me] = store[kind[me]][key[me]]
      /\ UNCHANGED <<op, kind, key, store, born, crashes>>
    BY <1>a DEF GetByID, HandlersOK
<1>2. UNCHANGED <<ShownRegs, ShownUsed>>
    BY <1>1, NothingChanges DEF Making
<1>3. /\ Service!Serving("get") /\ ShownRequest.about = key[me]
      /\ Service!Known = Registrations[kind[me]]
    BY <1>1, Served
<1>4. CASE key[me] \in Stored(kind[me])
    <2>1. Service!Answer("done", Body(me)') /\ code'[me] = 200
        BY <1>1, <1>4, Answers DEF GetByID
    <2>2. Body(me)' = {store[kind[me]][key[me]]}
        BY <2>1, <1>1 DEF Body
    <2>3. \E r \in Service!Known : r.id = ShownRequest.about /\ Service!Answer("done", {r})
        <3>1. PICK r \in Registrations[kind[me]] : r.id = key[me] /\ Body(me)' = {r}
            BY <2>2, <1>4, <1>a, RegisteredRecords
        <3> QED BY <2>1, <3>1, <1>3
    <2> QED BY <2>3, <1>2, <1>3 DEF Service!Get
<1>5. CASE key[me] \notin Stored(kind[me])
    <2>1. Service!Answer("refused", Body(me)') /\ code'[me] = 400
        BY <1>1, <1>5, Answers DEF GetByID
    <2>2. Body(me)' = {}
        BY <2>1 DEF Body
    <2>3. \A r \in Registrations[kind[me]] : r.id # key[me]
        BY <1>5, <1>a, RegisteredRecords
    <2> QED BY <2>1, <2>2, <2>3, <1>2, <1>3 DEF Service!GetUnknown
<1> QED
    BY <1>4, <1>5

\* A file that lists the ids of the map, all of them genuine, lists its records.
LEMMA FileHoldsRegistrations ==
    ASSUME NEW me, Inv(me), crashes = 0, NEW k \in Kinds, IdsIn(file[k]) = Stored(k)
    PROVE  {file[k][n] : n \in DOMAIN file[k]} = Registrations[k]
<1>1. \A n \in DOMAIN file[k] : file[k][n] \in Record /\ Genuine(k, file[k][n])
    BY DEF Inv, SeqInv, TypeInv, TypeOK, SharedOK, GenInv, FilesGenuine
<1>2. \A i \in Stored(k) : Genuine(k, store[k][i])
    BY DEF Inv, SeqInv, GenInv, StoresGenuine
<1>3. \A n \in DOMAIN file[k] :
        file[k][n].id \in Stored(k) /\ store[k][file[k][n].id] = file[k][n]
    <2>. SUFFICES ASSUME NEW n \in DOMAIN file[k]
         PROVE  file[k][n].id \in Stored(k) /\ store[k][file[k][n].id] = file[k][n]
        OBVIOUS
    <2> DEFINE f == file[k][n]
               s == store[k][f.id]
    <2>1. f.id \in Stored(k)
        BY DEF IdsIn
    <2>2. s \in Record /\ s.id = f.id
        BY <2>1, RegisteredRecords
    <2>3. [kind |-> k, addr |-> s.addr] = [kind |-> k, addr |-> f.addr]
        BY <2>1, <2>2, <1>1, <1>2 DEF Genuine
    <2>4. s.addr = f.addr
        BY <2>3
    <2>5. s = f
        BY <2>2, <2>4, <1>1 DEF Record
    <2> QED BY <2>1, <2>5
<1>4. \A i \in Stored(k) : \E n \in DOMAIN file[k] : file[k][n].id = i
    BY DEF IdsIn
<1> QED
    BY <1>3, <1>4, RegisteredRecords

LEMMA ListAllIsList ==
    ASSUME NEW me, Handlers = {me}, Inv(me), crashes = 0, ListAll(me)
    PROVE  Service!List
<1> USE DEF historyVars, diskVars, handlerVars
<1>a. HandlersOK /\ me \in Handlers /\ kind[me] \in Kinds
    BY DEF Inv, SeqInv, TypeInv, TypeOK, HandlersOK
<1>1. /\ pc[me] = "list" /\ op[me] = "list" /\ Reply(me, 200)
      /\ UNCHANGED <<op, kind, key, rec, file, store, born, crashes>>
    BY DEF ListAll, Inv, HoldsInv
<1>2. Service!Answer("done", Body(me)') /\ code'[me] = 200
    BY <1>1, Answers
<1>3. Body(me)' = {file[kind[me]][n] : n \in DOMAIN file[kind[me]]}
    BY <1>1, <1>2 DEF Body
<1>4. IdsIn(file[kind[me]]) = Stored(kind[me])
    BY <1>1, <1>a DEF Inv, NewInv, SeqInv, AgreeInv, AgreePhase, OwnRecords
<1>5. Body(me)' = Registrations[kind[me]]
    BY <1>3, <1>4, <1>a, FileHoldsRegistrations
<1>6. UNCHANGED <<ShownRegs, ShownUsed>>
    BY <1>1, NothingChanges DEF Making
<1> QED
    BY <1>1, <1>2, <1>5, <1>6, Served DEF Service!List

LEMMA RefusedIsRefuseDelete ==
    ASSUME NEW me, Handlers = {me}, Inv(me), crashes = 0,
           (DeletePublisher(me) /\ pc'[me] # "read") \/ DeleteSubscription(me)
    PROVE  Service!RefuseDelete
<1> USE DEF historyVars, diskVars, handlerVars
<1>a. HandlersOK /\ me \in Handlers /\ kind[me] \in Kinds
    BY DEF Inv, SeqInv, TypeInv, TypeOK, HandlersOK
<1>1. pc[me] = "lookup" /\ op[me] = "delete" /\ UNCHANGED <<op, kind, key, store, born, crashes>>
    BY DEF DeletePublisher, DeleteSubscription
<1>2. Reply(me, 400) /\ (kind[me] = "CONSUMER" \/ key[me] \notin Stored(kind[me]))
    BY <1>a DEF DeletePublisher, DeleteSubscription, Goto, HandlersOK
<1>3. Service!Answer("refused", Body(me)') /\ code'[me] = 400
    BY <1>1, <1>2, Answers
<1>4. Body(me)' = {}
    BY <1>3 DEF Body
<1>5. kind[me] = "CONSUMER" \/ \A r \in Registrations[kind[me]] : r.id # key[me]
    BY <1>2, <1>a, RegisteredRecords
<1>6. UNCHANGED <<ShownRegs, ShownUsed>>
    BY <1>1, NothingChanges DEF Making
<1>7. /\ Service!Serving("delete") /\ ShownRequest.kind = kind[me] /\ ShownRequest.about = key[me]
      /\ Service!Known = Registrations[kind[me]]
    BY <1>1, Served
<1> QED
    BY <1>3, <1>4, <1>5, <1>6, <1>7 DEF Service!RefuseDelete

\* The map loses one record, or all those of a kind.
LEMMA DeleteFromStoreIsDelete ==
    ASSUME NEW me, Handlers = {me}, Inv(me), crashes = 0, DeleteFromStore(me)
    PROVE  Service!Delete
<1> USE DEF historyVars, diskVars, handlerVars
<1>a. /\ HandlersOK /\ SharedOK /\ LocalOK(me) /\ me \in Handlers /\ kind[me] \in Kinds
    BY DEF Inv, SeqInv, TypeInv, TypeOK, HandlersOK
<1>1. /\ pc[me] = "update" /\ op[me] = "delete" /\ Reply(me, 200)
      /\ store' = [store EXCEPT ![kind[me]] = [store[kind[me]] EXCEPT ![key[me]] = None]]
      /\ UNCHANGED <<op, kind, key, rec, born, crashes>>
    BY DEF DeleteFromStore
<1>2. kind[me] = "PRODUCER" /\ key[me] \in Stored(kind[me])
    BY <1>1 DEF Inv, HoldsInv, Removing, SeqInv, AgreeInv, DeleteByOwnKey, Writing
<1> DEFINE r == store[kind[me]][key[me]]
<1>3. r \in Registrations[kind[me]] /\ r.id = key[me]
    BY <1>2, <1>a, RegisteredRecords
<1>4. /\ \A k \in Kinds \ {kind[me]} : store'[k] = store[k]
      /\ \A i \in Ids : store'[kind[me]][i] = IF i = key[me] THEN None ELSE store[kind[me]][i]
    BY <1>1, <1>a DEF SharedOK
<1>5. \A k \in Kinds : Registrations'[k] =
        IF k = kind[me] THEN Registrations[k] \ {r} ELSE Registrations[k]
    <2>. SUFFICES ASSUME NEW k \in Kinds
         PROVE  Registrations'[k] = IF k = kind[me] THEN Registrations[k] \ {r} ELSE Registrations[k]
        OBVIOUS
    <2>1. /\ Registrations[k] = {store[k][i] : i \in Stored(k)}
          /\ Registrations'[k] = {store'[k][i] : i \in Stored(k)'}
        BY DEF Registrations
    <2>2. CASE k = kind[me]
        <3>1. Stored(k)' = Stored(k) \ {key[me]}
            BY <2>2, <1>4 DEF Stored
        <3>2. \A i \in Stored(k) \ {key[me]} : store'[k][i] = store[k][i]
            BY <2>2, <1>4 DEF Stored
        <3>3. \A i \in Stored(k) : store[k][i].id = i
            BY RegisteredRecords
        <3>4. \A i \in Stored(k) : i # key[me] <=> store[k][i] # r
            BY <2>2, <3>3, <1>2
        <3>5. {store'[k][i] : i \in Stored(k) \ {key[me]}} = {store[k][i] : i \in Stored(k) \ {key[me]}}
            BY <3>2
        <3>6. {store[k][i] : i \in Stored(k) \ {key[me]}} = {store[k][i] : i \in Stored(k)} \ {r}
            BY <3>4
        <3> QED BY <2>1, <2>2, <3>1, <3>5, <3>6
    <2>3. CASE k # kind[me]
        BY <2>1, <2>3, <1>4 DEF Stored
    <2> QED BY <2>2, <2>3
<1>6. Registrations' = [Registrations EXCEPT ![kind[me]] = Registrations[kind[me]] \ {r}]
    BY <1>5 DEF Registrations
<1>7. Service!Answer("done", Body(me)') /\ code'[me] = 200
    BY <1>1, Answers
<1>8. Body(me)' = {}
    BY <1>1, <1>7 DEF Body
<1>9. /\ Service!Serving("delete") /\ ShownRequest.kind = kind[me] /\ ShownRequest.about = key[me]
      /\ Service!Known = Registrations[kind[me]]
    BY <1>1, Served
<1>10. ShownRegs' = [ShownRegs EXCEPT ![kind[me]] = Service!Known \ {r}]
    BY <1>1, <1>6, <1>9, Seen, SeenNext
<1>11. UNCHANGED ShownUsed
    BY <1>1, SameGiven, Seen, SeenNext DEF Making
<1>12. \E s \in Service!Known :
         s.id = ShownRequest.about /\ ShownRegs' = [ShownRegs EXCEPT ![ShownRequest.kind] = Service!Known \ {s}]
    BY <1>3, <1>9, <1>10
<1> QED
    BY <1>2, <1>7, <1>8, <1>9, <1>11, <1>12 DEF Service!Delete

LEMMA ClearStoreIsDeleteAll ==
    ASSUME NEW me, Handlers = {me}, Inv(me), crashes = 0, ClearStore(me)
    PROVE  Service!DeleteAll
<1> USE DEF historyVars, diskVars, handlerVars
<1>a. HandlersOK /\ SharedOK /\ me \in Handlers /\ kind[me] \in Kinds
    BY DEF Inv, SeqInv, TypeInv, TypeOK, HandlersOK
<1>1. /\ pc[me] = "update" /\ op[me] = "deleteAll" /\ Reply(me, 200)
      /\ store' = [store EXCEPT ![kind[me]] = EmptyStore]
      /\ UNCHANGED <<op, kind, key, rec, born, crashes>>
    BY DEF ClearStore
<1>2. \A k \in Kinds : Registrations'[k] = IF k = kind[me] THEN {} ELSE Registrations[k]
    <2>. SUFFICES ASSUME NEW k \in Kinds
         PROVE  Registrations'[k] = IF k = kind[me] THEN {} ELSE Registrations[k]
        OBVIOUS
    <2>1. /\ Registrations[k] = {store[k][i] : i \in Stored(k)}
          /\ Registrations'[k] = {store'[k][i] : i \in Stored(k)'}
        BY DEF Registrations
    <2>2. store'[k] = IF k = kind[me] THEN EmptyStore ELSE store[k]
        BY <1>1, <1>a DEF SharedOK
    <2>3. CASE k = kind[me]
        <3>1. Stored(k)' = {}
            BY <2>2, <2>3 DEF Stored, EmptyStore
        <3> QED BY <2>1, <2>3, <3>1
    <2>4. CASE k # kind[me]
        BY <2>1, <2>2, <2>4 DEF Stored
    <2> QED BY <2>3, <2>4
<1>3. Registrations' = [Registrations EXCEPT ![kind[me]] = {}]
    BY <1>2 DEF Registrations
<1>4. Service!Answer("done", Body(me)') /\ code'[me] = 200
    BY <1>1, Answers
<1>5. Body(me)' = {}
    BY <1>1, <1>4 DEF Body
<1>6. Service!Serving("deleteAll") /\ ShownRequest.kind = kind[me]
    BY <1>1, Served
<1>7. ShownRegs' = [ShownRegs EXCEPT ![kind[me]] = {}]
    BY <1>1, <1>3, Seen, SeenNext
<1>8. UNCHANGED ShownUsed
    BY <1>1, SameGiven, Seen, SeenNext DEF Making
<1> QED
    BY <1>4, <1>5, <1>6, <1>7, <1>8 DEF Service!DeleteAll

-----------------------------------------------------------------------------
(* The refinement.                                                              *)

LEMMA ServiceInit ==
    ASSUME NEW me, Handlers = {me}, Init
    PROVE  Service!Init
<1>1. crashes = 0 /\ pc[me] = "idle"
    BY DEF Init
<1>2. Phase(me) = "idle" /\ Request(me) = None /\ Response(me) = None
    BY <1>1 DEF Phase, Request, Response
<1>3. Registrations = [k \in Kinds |-> {}] /\ Given(me) = {}
    BY DEF Init, Registrations, Given, Stored, EmptyStore
<1> QED
    BY <1>1, <1>2, <1>3, Seen DEF Service!Init, Kinds, Service!Kinds

LEMMA ServeIsSeen ==
    ASSUME NEW me, Handlers = {me}, Inv(me), crashes = 0, Serve(me)
    PROVE  [Service!Next]_(Service!vars)
<1>1. CASE \/ CheckDuplicate(me) /\ pc'[me] # "validate"
           \/ DeletePublisher(me) /\ pc'[me] # "read"
           \/ RejectBody(me) \/ EndpointRefused(me) \/ SetInStore(me)
           \/ GetByID(me) \/ ListAll(me)
           \/ DeleteSubscription(me) \/ DeleteFromStore(me) \/ ClearStore(me)
    <2>1. Service!Serve
        BY <1>1, CheckDuplicateIsCreateKnown, SetInStoreIsCreateNew, RejectedIsRefuseCreate,
           GetByIDIsGet, ListAllIsList, RefusedIsRefuseDelete, DeleteFromStoreIsDelete,
           ClearStoreIsDeleteAll
           DEF Service!Serve
    <2> QED BY <2>1 DEF Service!Next
<1>2. CASE \/ CheckDuplicate(me) /\ pc'[me] = "validate"
           \/ EndpointAccepted(me)
           \/ ReadFile(me) \/ Truncate(me) \/ WriteFile(me)
           \/ DeletePublisher(me) /\ pc'[me] = "read"
    BY <1>2, MiddleUnseen
<1>3. CASE Finish(me)
    BY <1>3, FinishIsOver DEF Service!Next
<1>4. ~ReadDamaged(me)
    BY DEF ReadDamaged, Inv, SeqInv, LoadableInv
<1> QED
    BY <1>1, <1>2, <1>3, <1>4 DEF Serve

LEMMA ServiceNext ==
    ASSUME NEW me, Handlers = {me}, Inv(me), [Next]_vars
    PROVE  [Service!Next]_(Service!vars)
<1>1. CASE crashes # 0
    BY <1>1, DeadStaysDead DEF Inv, SeqInv, TypeInv, TypeOK
<1>2. CASE crashes = 0
    <2>1. CASE Accept(me)
        BY <1>2, <2>1, AcceptIsAsk DEF Service!Next
    <2>2. CASE Serve(me)
        BY <1>2, <2>2, ServeIsSeen
    <2>3. CASE SendOut(me) \/ RouterTake \/ UNCHANGED vars
        BY <1>2, <2>3, RouterUnseen
    <2>4. CASE Crash
        BY <1>2, <2>4, CrashIsDie DEF Service!Next
    <2>5. ~Start
        BY <1>2 DEF Start, Inv, NewInv
    <2> QED BY <2>1, <2>2, <2>3, <2>4, <2>5 DEF Next
<1> QED
    BY <1>1, <1>2

\* With one handler, for any sets of ids, addresses and requests and a queue of
\* any capacity, every behaviour of the registry is, as the client sees it, one
\* of RegistryService: each request acts on file and map as if in one step.
THEOREM ImplementsService ==
    ASSUME NEW me, Handlers = {me}
    PROVE  Spec => ActsAtOnce
<1>1. Init => Service!Init
    BY ServiceInit
<1>2. Init => Inv(me)
    BY InvInit
<1>3. Inv(me) /\ [Next]_vars => Inv(me)'
    BY InvNext
<1>4. Inv(me) /\ [Next]_vars => [Service!Next]_(Service!vars)
    BY ServiceNext
<1> QED BY <1>1, <1>2, <1>3, <1>4, PTL DEF Spec, Service!Spec, ActsAtOnce
=============================================================================
