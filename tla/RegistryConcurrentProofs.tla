----------------------- MODULE RegistryConcurrentProofs -----------------------
(* What PubSubRegistry guarantees for any number of handlers at once, beyond    *)
(* the theorems of PubSubRegistryProofs: which registrations have their AMQP    *)
(* link, what GET answers with, and what the file may list.                     *)
EXTENDS PubSubRegistryProofs

\* A step of a handler leaves what the others have in hand.
Own(h) == <<pc[h], op[h], kind[h], key[h], rec[h], buf[h], code[h]>>

LEMMA OthersKept ==
    ASSUME TypeInv, NEW h \in Handlers, Accept(h) \/ Serve(h) \/ SendOut(h),
           NEW g \in Handlers, g # h
    PROVE  UNCHANGED Own(g)
<1>1. HandlersOK
    BY DEF TypeInv, TypeOK
<1>2. CASE Accept(h) \/ SendOut(h) \/ Finish(h)
    BY <1>1, <1>2 DEF Own, HandlersOK, Accept, SendOut, Finish, Goto, Reply
<1>3. CASE \/ CheckDuplicate(h) \/ EndpointRefused(h) \/ EndpointAccepted(h) \/ RejectBody(h)
           \/ ReadDamaged(h) \/ ReadFile(h) \/ Truncate(h) \/ WriteFile(h)
    BY <1>1, <1>3 DEF Own, HandlersOK, CheckDuplicate, EndpointRefused, EndpointAccepted, RejectBody,
         ReadDamaged, ReadFile, Truncate, WriteFile, Goto, Reply
<1>4. CASE \/ SetInStore(h) \/ DeleteFromStore(h) \/ ClearStore(h) \/ GetByID(h) \/ ListAll(h)
           \/ DeletePublisher(h) \/ DeleteSubscription(h)
    BY <1>1, <1>4 DEF Own, HandlersOK, SetInStore, DeleteFromStore, ClearStore, GetByID, ListAll,
         DeletePublisher, DeleteSubscription, Goto, Reply
<1> QED
    BY <1>2, <1>3, <1>4 DEF Serve

\* Deletions only take entries out of the map.
LEMMA MapShrinks ==
    ASSUME TypeInv, NEW h \in Handlers, DeleteFromStore(h) \/ ClearStore(h)
    PROVE  \A k \in Kinds, i \in Ids : store'[k][i] \in {store[k][i], None}
<1>1. store \in [Kinds -> [Ids -> Record \cup {None}]] /\ kind[h] \in Kinds
    BY DEF TypeInv, TypeOK, SharedOK, HandlersOK
<1>2. CASE DeleteFromStore(h)
    <2>1. store' = [store EXCEPT ![kind[h]] = [store[kind[h]] EXCEPT ![key[h]] = None]]
        BY <1>2, <1>1 DEF DeleteFromStore
    <2> QED BY <1>1, <2>1
<1>3. CASE ClearStore(h)
    BY <1>1, <1>3 DEF ClearStore, EmptyStore
<1> QED
    BY <1>2, <1>3

-----------------------------------------------------------------------------
(* Links.  Until the process dies for the first time, what is in the map was    *)
(* asked for, or its handler is at the send.                                    *)

LinkInv == crashes = 0 => up /\ LinkRequested

\* A step that leaves the map and the process as they are leaves a registration
\* with its link, or with the handler that is about to ask for it.
LEMMA LinkKept ==
    ASSUME LinkInv, UNCHANGED <<up, store, crashes>>, linked \subseteq linked',
           \A h \in Handlers : pc[h] = "send" =>
              \/ pc'[h] = "send" /\ kind'[h] = kind[h] /\ rec'[h] = rec[h]
              \/ <<kind[h], rec[h].addr>> \in linked'
    PROVE  LinkInv'
BY DEF LinkInv, LinkRequested, Stored

LEMMA LinkNext == TypeInv /\ LinkInv /\ [Next]_vars => LinkInv'
<1> SUFFICES ASSUME TypeInv, LinkInv, [Next]_vars PROVE LinkInv'
    OBVIOUS
<1> USE DEF historyVars, diskVars, handlerVars
<1>a. SharedOK /\ HandlersOK /\ \A h \in Handlers : LocalOK(h)
    BY DEF TypeInv, TypeOK
<1>1. ASSUME NEW h \in Handlers, SetInStore(h) PROVE LinkInv'
    <2>1. /\ UNCHANGED <<up, linked, crashes, kind, rec>> /\ pc'[h] = "send" /\ pc[h] = "update"
          /\ rec[h] \in Record /\ kind[h] \in Kinds
          /\ \A k \in Kinds, i \in Ids :
                store'[k][i] = IF k = kind[h] /\ i = rec[h].id THEN rec[h] ELSE store[k][i]
        BY <1>1, <1>a DEF SetInStore, Put, Goto, SharedOK, HandlersOK, LocalOK, Record
    <2>2. \A g \in Handlers : g # h => pc'[g] = pc[g]
        BY <1>1, OthersKept DEF Serve, Own
    <2> QED BY <2>1, <2>2 DEF LinkInv, LinkRequested, Stored
<1>2. ASSUME NEW h \in Handlers, DeleteFromStore(h) \/ ClearStore(h) PROVE LinkInv'
    <2>1. /\ UNCHANGED <<up, linked, crashes, kind, rec>> /\ pc[h] = "update"
          /\ \A k \in Kinds, i \in Ids : store'[k][i] \in {store[k][i], None}
        BY <1>2, <1>a, MapShrinks DEF DeleteFromStore, ClearStore
    <2>2. \A g \in Handlers : g # h => pc'[g] = pc[g]
        BY <1>2, OthersKept DEF Serve, Own
    <2> QED BY <2>1, <2>2 DEF LinkInv, LinkRequested, Stored
<1>3. ASSUME NEW h \in Handlers, SendOut(h) PROVE LinkInv'
    <2>1. \A g \in Handlers : g # h => pc'[g] = pc[g] /\ kind'[g] = kind[g] /\ rec'[g] = rec[g]
        BY <1>3, OthersKept DEF Own
    <2> QED BY <1>3, <2>1, LinkKept DEF SendOut
<1>4. ASSUME NEW h \in Handlers,
             \/ Accept(h) \/ CheckDuplicate(h) \/ EndpointRefused(h) \/ EndpointAccepted(h)
             \/ RejectBody(h) \/ ReadDamaged(h) \/ ReadFile(h) \/ Truncate(h) \/ WriteFile(h)
             \/ GetByID(h) \/ ListAll(h) \/ DeletePublisher(h) \/ DeleteSubscription(h) \/ Finish(h)
      PROVE  LinkInv'
    <2>1. UNCHANGED <<up, store, crashes, linked>> /\ pc[h] # "send"
        BY <1>4 DEF Accept, CheckDuplicate, EndpointRefused, EndpointAccepted, RejectBody, ReadDamaged,
             ReadFile, Truncate, WriteFile, GetByID, ListAll, DeletePublisher, DeleteSubscription, Finish
    <2>2. \A g \in Handlers : g # h => pc'[g] = pc[g] /\ kind'[g] = kind[g] /\ rec'[g] = rec[g]
        BY <1>4, OthersKept DEF Serve, Own
    <2> QED BY <2>1, <2>2, LinkKept
<1>5. CASE RouterTake \/ UNCHANGED vars
    BY <1>5, LinkKept DEF RouterTake, vars
<1>6. CASE Crash
    BY <1>6, <1>a, CrashAssumption DEF Crash, SharedOK, LinkInv
<1>7. CASE Start
    BY <1>7 DEF Start, LinkInv
<1> QED
    BY <1>1, <1>2, <1>3, <1>4, <1>5, <1>6, <1>7 DEF Next, Serve

\* Until the process dies for the first time, every registration in the map has
\* had its sender or receiver requested from the router, or its handler is at
\* that request: for any number of handlers, also while others delete.
THEOREM LinksRequested == Spec => [](crashes = 0 => LinkRequested)
<1>1. Init => TypeInv /\ LinkInv
    BY TypeInit DEF Init, LinkInv, LinkRequested, Stored, EmptyStore
<1>2. TypeInv /\ LinkInv /\ [Next]_vars => (TypeInv /\ LinkInv)'
    BY TypeNext, LinkNext
<1>3. LinkInv => (crashes = 0 => LinkRequested)
    BY DEF LinkInv
<1> QED BY <1>1, <1>2, <1>3, PTL DEF Spec

-----------------------------------------------------------------------------
(* GET by id.                                                                   *)

ListsOnly == \A h \in Handlers : pc[h] = "list" => op[h] = "list"
GetInv == OwnKeys /\ ListsOnly /\ (crashes = 0 => up /\ GetReturnsAskedId)

\* The part of a handler that GetInv is about.
AsksOwn(h) ==
    /\ pc[h] = "list" => op[h] = "list"
    /\ crashes = 0 /\ op[h] = "get" /\ pc[h] = "done" /\ code[h] = 200 => rec[h].id = key[h]

LEMMA GetKept ==
    ASSUME GetInv, NEW h \in Handlers, UNCHANGED <<up, crashes>>, OwnKeys', AsksOwn(h)',
           \A g \in Handlers : g # h => UNCHANGED Own(g)
    PROVE  GetInv'
BY DEF GetInv, ListsOnly, GetReturnsAskedId, AsksOwn, Own

LEMMA GetNext == TypeInv /\ GetInv /\ [Next]_vars => GetInv'
<1> SUFFICES ASSUME TypeInv, GetInv, [Next]_vars PROVE GetInv'
    OBVIOUS
<1> USE DEF historyVars, diskVars, handlerVars
<1>a. SharedOK /\ HandlersOK /\ \A h \in Handlers : LocalOK(h)
    BY DEF TypeInv, TypeOK
<1>b. OwnKeys /\ ListsOnly /\ (crashes = 0 => up)
    BY DEF GetInv
<1>c. UNCHANGED <<store, crashes>> => OwnKeys'
    BY <1>b DEF OwnKeys, Stored
<1>1. ASSUME NEW h \in Handlers, GetByID(h) PROVE GetInv'
    <2>1. /\ UNCHANGED <<up, store, crashes, key, kind>> /\ pc'[h] = "done"
          /\ rec'[h] = store[kind[h]][key[h]] /\ kind[h] \in Kinds
          /\ code'[h] = 200 => key[h] \in Stored(kind[h])
        BY <1>1, <1>a DEF GetByID, Reply, Goto, HandlersOK
    <2>2. AsksOwn(h)'
        BY <1>b, <2>1 DEF AsksOwn, OwnKeys
    <2> QED BY <1>1, <1>c, <2>1, <2>2, GetKept, OthersKept DEF Serve
<1>2. ASSUME NEW h \in Handlers, SetInStore(h) PROVE GetInv'
    <2>1. /\ UNCHANGED <<up, crashes>> /\ pc'[h] = "send" /\ kind[h] \in Kinds
          /\ \A k \in Kinds, i \in Ids :
                store'[k][i] = IF k = kind[h] /\ i = rec[h].id THEN rec[h] ELSE store[k][i]
        BY <1>2, <1>a DEF SetInStore, Put, Goto, SharedOK, HandlersOK, LocalOK, Record
    <2>2. OwnKeys' /\ AsksOwn(h)'
        BY <1>b, <2>1 DEF OwnKeys, Stored, AsksOwn
    <2> QED BY <1>2, <2>1, <2>2, GetKept, OthersKept DEF Serve
<1>3. ASSUME NEW h \in Handlers, DeleteFromStore(h) \/ ClearStore(h) PROVE GetInv'
    <2>1. UNCHANGED <<up, crashes, op>> /\ pc'[h] = "done" /\ op[h] \in {"delete", "deleteAll"}
        BY <1>3, <1>a DEF DeleteFromStore, ClearStore, Reply, Goto, HandlersOK
    <2>2. OwnKeys'
        BY <1>3, <1>b, <2>1, MapShrinks DEF OwnKeys, Stored
    <2>3. AsksOwn(h)'
        BY <2>1 DEF AsksOwn
    <2> QED BY <1>3, <2>1, <2>2, <2>3, GetKept, OthersKept DEF Serve
<1>4. ASSUME NEW h \in Handlers, Accept(h) PROVE GetInv'
    <2>1. UNCHANGED <<up, store, crashes>> /\ pc'[h] = FirstStep(op'[h]) /\ op'[h] \in Operations
        BY <1>4, <1>a, RequestsAssumption DEF Accept, Goto, HandlersOK
    <2>2. AsksOwn(h)'
        BY <2>1 DEF AsksOwn, FirstStep, Operations
    <2> QED BY <1>4, <1>c, <2>1, <2>2, GetKept, OthersKept
<1>5. ASSUME NEW h \in Handlers, ListAll(h) PROVE GetInv'
    <2>1. UNCHANGED <<up, store, crashes, op>> /\ pc'[h] = "done" /\ op[h] = "list"
        BY <1>5, <1>a, <1>b DEF ListAll, Reply, Goto, HandlersOK, ListsOnly
    <2> QED BY <1>5, <1>c, <2>1, GetKept, OthersKept DEF Serve, AsksOwn
<1>6. ASSUME NEW h \in Handlers,
             \/ CheckDuplicate(h) \/ EndpointAccepted(h) \/ ReadFile(h) \/ Truncate(h) \/ WriteFile(h)
             \/ RejectBody(h) \/ EndpointRefused(h) \/ ReadDamaged(h)
             \/ DeletePublisher(h) \/ DeleteSubscription(h) \/ SendOut(h) \/ Finish(h)
      PROVE  GetInv'
    <2>1. UNCHANGED <<up, store, crashes>>
        BY <1>6 DEF CheckDuplicate, EndpointAccepted, ReadFile, Truncate, WriteFile, RejectBody, EndpointRefused,
             ReadDamaged, DeletePublisher, DeleteSubscription, SendOut, Finish
    <2>2. pc'[h] # "list" /\ (pc'[h] = "done" => code'[h] # 200)
        BY <1>6, <1>a DEF CheckDuplicate, EndpointAccepted, ReadFile, Truncate, WriteFile, RejectBody, EndpointRefused,
             ReadDamaged, DeletePublisher, DeleteSubscription, SendOut, Finish, Reply, Goto, HandlersOK
    <2> QED BY <1>6, <1>c, <2>1, <2>2, GetKept, OthersKept DEF Serve, AsksOwn
<1>7. CASE RouterTake \/ UNCHANGED vars
    BY <1>7 DEF RouterTake, vars, GetInv, OwnKeys, ListsOnly, GetReturnsAskedId, Stored
<1>8. CASE Crash
    <2>1. crashes' # 0 /\ \A h \in Handlers : pc'[h] = "idle"
        BY <1>8, <1>a, CrashAssumption DEF Crash, SharedOK
    <2> QED BY <2>1 DEF GetInv, OwnKeys, ListsOnly
<1>9. CASE Start
    BY <1>9, <1>b DEF Start, GetInv, OwnKeys, ListsOnly
<1> QED
    BY <1>1, <1>2, <1>3, <1>4, <1>5, <1>6, <1>7, <1>8, <1>9 DEF Next, Serve

\* Until the process dies for the first time, GET by id answers with the
\* registration of that id, whatever is created and deleted meanwhile.
THEOREM GetsAskedId == Spec => [](crashes = 0 => GetReturnsAskedId)
<1>1. Init => TypeInv /\ GetInv
    BY TypeInit DEF Init, GetInv, OwnKeys, ListsOnly, GetReturnsAskedId, Stored, EmptyStore
<1>2. TypeInv /\ GetInv /\ [Next]_vars => (TypeInv /\ GetInv)'
    BY TypeNext, GetNext
<1>3. GetInv => (crashes = 0 => GetReturnsAskedId)
    BY DEF GetInv
<1> QED BY <1>1, <1>2, <1>3, PTL DEF Spec

-----------------------------------------------------------------------------
(* The file.  While creates are the only changes, a slice about to be written   *)
(* holds, but for the handler's own record, what the map will have by then.     *)

OnlyCreates == Requests \subseteq {"create", "get", "list"} \X Kinds

Updating(k) == {rec[h].id : h \in {g \in Handlers : pc[g] = "update" /\ kind[g] = k}}

\* A slice about to be written.
SliceCovered(h) ==
    pc[h] \in {"truncate", "write"} =>
        IdsIn(buf[h]) \subseteq Stored(kind[h]) \cup Updating(kind[h]) \cup {rec[h].id}

PhantomInv ==
    /\ \A h \in Handlers : op[h] \in {"create", "get", "list"}
    /\ up => NoPhantom
    /\ ~up => \A h \in Handlers : pc[h] = "idle"
    /\ \A h \in Handlers : SliceCovered(h)

\* A step of h that takes nothing out of the map, nor h from its update without
\* its record being there, leaves what was covered covered.
LEMMA CoverKept ==
    ASSUME NEW h \in Handlers,
           \A g \in Handlers : g # h => UNCHANGED Own(g),
           \A k \in Kinds : Stored(k) \subseteq Stored(k)',
           pc[h] = "update" => \A k \in Kinds : k = kind[h] => rec[h].id \in Stored(k)'
    PROVE  \A k \in Kinds : Stored(k) \cup Updating(k) \subseteq Stored(k)' \cup Updating(k)'
<1>. SUFFICES ASSUME NEW k \in Kinds, NEW g \in Handlers, pc[g] = "update", kind[g] = k
              PROVE  rec[g].id \in Stored(k)' \cup Updating(k)'
    BY DEF Updating
<1>1. CASE g = h
    BY <1>1
<1>2. CASE g # h
    <2>1. pc'[g] = "update" /\ kind'[g] = k /\ rec'[g] = rec[g]
        BY <1>2 DEF Own
    <2> QED BY <2>1 DEF Updating
<1> QED
    BY <1>1, <1>2

LEMMA PhantomKept ==
    ASSUME TypeInv, PhantomInv, NEW h \in Handlers, Accept(h) \/ Serve(h) \/ SendOut(h),
           up, up', op'[h] \in {"create", "get", "list"},
           \A k \in Kinds : Stored(k) \subseteq Stored(k)',
           pc[h] = "update" => \A k \in Kinds : k = kind[h] => rec[h].id \in Stored(k)',
           \A k \in Kinds : IdsIn(file'[k]) \subseteq Stored(k)' \cup Updating(k)',
           SliceCovered(h)'
    PROVE  PhantomInv'
<1>1. \A g \in Handlers : g # h => UNCHANGED Own(g)
    BY OthersKept
<1>2. \A k \in Kinds : Stored(k) \cup Updating(k) \subseteq Stored(k)' \cup Updating(k)'
    BY <1>1, CoverKept
<1>3. \A g \in Handlers : SliceCovered(g)'
    <2>1. kind \in [Handlers -> Kinds]
        BY DEF TypeInv, TypeOK, HandlersOK
    <2>2. ASSUME NEW g \in Handlers, g # h PROVE SliceCovered(g)'
        <3>1. pc'[g] = pc[g] /\ kind'[g] = kind[g] /\ rec'[g] = rec[g] /\ buf'[g] = buf[g]
            BY <1>1, <2>2 DEF Own
        <3>2. PICK k \in Kinds : k = kind[g]
            BY <2>1
        <3>3. pc[g] \in {"truncate", "write"} => IdsIn(buf[g]) \subseteq Stored(k) \cup Updating(k) \cup {rec[g].id}
            BY <3>2 DEF PhantomInv, SliceCovered
        <3>4. pc[g] \in {"truncate", "write"} => IdsIn(buf[g]) \subseteq Stored(k)' \cup Updating(k)' \cup {rec[g].id}
            BY <1>2, <3>3
        <3> QED BY <3>1, <3>2, <3>4 DEF SliceCovered, IdsIn, Stored, Updating
    <2> QED BY <2>2
<1>4. NoPhantom'
    BY DEF NoPhantom, Updating
<1>5. \A g \in Handlers : op'[g] \in {"create", "get", "list"}
    BY <1>1 DEF PhantomInv, Own
<1> QED
    BY <1>3, <1>4, <1>5 DEF PhantomInv

LEMMA PhantomNext == OnlyCreates /\ TypeInv /\ PhantomInv /\ [Next]_vars => PhantomInv'
<1> SUFFICES ASSUME OnlyCreates, TypeInv, PhantomInv, [Next]_vars PROVE PhantomInv'
    OBVIOUS
<1> USE DEF historyVars, diskVars, handlerVars
<1>a. SharedOK /\ HandlersOK /\ \A h \in Handlers : LocalOK(h)
    BY DEF TypeInv, TypeOK
<1>b. /\ \A h \in Handlers : op[h] \in {"create", "get", "list"} /\ (~up => pc[h] = "idle")
      /\ up => \A k \in Kinds : IdsIn(file[k]) \subseteq Stored(k) \cup Updating(k)
    BY DEF PhantomInv, NoPhantom, Updating
<1>c. ASSUME NEW h \in Handlers, Accept(h) \/ Serve(h) \/ SendOut(h) PROVE \A g \in Handlers : g # h => UNCHANGED Own(g)
    BY <1>c, OthersKept
<1>1. ASSUME NEW h \in Handlers, Accept(h) PROVE PhantomInv'
    <2>1. UNCHANGED <<up, file, store>> /\ up /\ pc[h] = "idle"
        BY <1>1 DEF Accept
    <2>2. op'[h] \in {"create", "get", "list"} /\ pc'[h] \in {"check", "lookup", "list"}
        BY <1>1, <1>a DEF Accept, Goto, FirstStep, HandlersOK, OnlyCreates
    <2>3. \A k \in Kinds : Stored(k)' = Stored(k) /\ IdsIn(file'[k]) = IdsIn(file[k])
        BY <2>1 DEF Stored
    <2>4. \A k \in Kinds : Stored(k) \cup Updating(k) \subseteq Stored(k)' \cup Updating(k)'
        BY <1>1, <1>c, <2>1, <2>3, CoverKept
    <2>5. SliceCovered(h)'
        BY <2>2 DEF SliceCovered
    <2> QED BY <1>1, <1>b, <2>1, <2>2, <2>3, <2>4, <2>5, PhantomKept
<1>2. ASSUME NEW h \in Handlers,
             \/ CheckDuplicate(h) \/ EndpointRefused(h) \/ EndpointAccepted(h) \/ RejectBody(h)
             \/ ReadDamaged(h) \/ GetByID(h) \/ ListAll(h) \/ DeletePublisher(h)
             \/ DeleteSubscription(h) \/ Finish(h) \/ SendOut(h)
      PROVE  PhantomInv'
    <2>1. UNCHANGED <<up, file, store>> /\ pc[h] \notin {"idle", "update"}
        BY <1>2 DEF CheckDuplicate, EndpointRefused, EndpointAccepted, RejectBody, ReadDamaged, GetByID,
             ListAll, DeletePublisher, DeleteSubscription, Finish, SendOut
    <2>2. op'[h] \in {op[h], "list"} /\ pc'[h] \notin {"truncate", "write"}
        BY <1>2, <1>a DEF CheckDuplicate, EndpointRefused, EndpointAccepted, RejectBody, ReadDamaged, GetByID,
             ListAll, DeletePublisher, DeleteSubscription, Finish, SendOut, Reply, Goto, HandlersOK
    <2>3. \A k \in Kinds : Stored(k)' = Stored(k) /\ IdsIn(file'[k]) = IdsIn(file[k])
        BY <2>1 DEF Stored
    <2>4. \A k \in Kinds : Stored(k) \cup Updating(k) \subseteq Stored(k)' \cup Updating(k)'
        BY <1>2, <1>c, <2>1, <2>3, CoverKept DEF Serve
    <2>5. SliceCovered(h)'
        BY <2>2 DEF SliceCovered
    <2> QED BY <1>2, <1>b, <2>1, <2>2, <2>3, <2>4, <2>5, PhantomKept DEF Serve
<1>3. ASSUME NEW h \in Handlers, ReadFile(h) PROVE PhantomInv'
    <2>1. /\ UNCHANGED <<up, file, store, op, kind, rec>> /\ pc[h] = "read" /\ pc'[h] = "truncate"
          /\ buf'[h] = NewContent(h)
        BY <1>3, <1>a DEF ReadFile, Goto, HandlersOK
    <2>2. /\ kind[h] \in Kinds /\ file[kind[h]] \in Seq(Record) /\ rec[h] \in Record
          /\ op[h] = "create"
        BY <1>a, <1>b, <2>1 DEF SharedOK, HandlersOK, LocalOK
    <2>3. IdsIn(buf'[h]) = IdsIn(file[kind[h]]) \cup {rec[h].id}
        BY <2>1, <2>2, AppendIds DEF NewContent
    <2>4. \A k \in Kinds : Stored(k)' = Stored(k) /\ IdsIn(file'[k]) = IdsIn(file[k])
        BY <2>1 DEF Stored
    <2>5. \A k \in Kinds : Stored(k) \cup Updating(k) \subseteq Stored(k)' \cup Updating(k)'
        BY <1>3, <1>c, <2>1, <2>4, CoverKept DEF Serve
    <2>6. up
        BY <1>b, <2>1
    <2>7. SliceCovered(h)'
        <3>1. PICK k \in Kinds : k = kind[h]
            BY <2>2
        <3>2. IdsIn(buf'[h]) \subseteq Stored(k)' \cup Updating(k)' \cup {rec[h].id}
            BY <1>b, <2>3, <2>5, <2>6, <3>1
        <3> QED BY <2>1, <3>1, <3>2 DEF SliceCovered, IdsIn, Stored, Updating
    <2> QED BY <1>3, <1>b, <2>1, <2>2, <2>4, <2>5, <2>7, PhantomKept DEF Serve
<1>4. ASSUME NEW h \in Handlers, Truncate(h) \/ WriteFile(h) PROVE PhantomInv'
    <2>1. /\ UNCHANGED <<up, store, op, kind, rec, buf>> /\ pc[h] \in {"truncate", "write"}
          /\ \E b \in {<<>>, buf[h]} :
                /\ file' = [file EXCEPT ![kind[h]] = b]
                /\ b = <<>> \/ pc'[h] = "update"
          /\ pc'[h] \in {"write", "update"}
        BY <1>4, <1>a DEF Truncate, WriteFile, Goto, HandlersOK
    <2>2. \A k \in Kinds : Stored(k)' = Stored(k)
        BY <2>1 DEF Stored
    <2>3. \A k \in Kinds : Stored(k) \cup Updating(k) \subseteq Stored(k)' \cup Updating(k)'
        BY <1>4, <1>c, <2>1, <2>2, CoverKept DEF Serve
    <2>4. kind[h] \in Kinds /\ SliceCovered(h) /\ up
        BY <1>a, <1>b, <2>1 DEF HandlersOK, PhantomInv
    <2>5. SliceCovered(h)'
        <3>1. PICK k \in Kinds : k = kind[h]
            BY <2>4
        <3>2. IdsIn(buf[h]) \subseteq Stored(k) \cup Updating(k) \cup {rec[h].id}
            BY <2>1, <2>4, <3>1 DEF SliceCovered
        <3>3. IdsIn(buf[h]) \subseteq Stored(k)' \cup Updating(k)' \cup {rec[h].id}
            BY <2>3, <3>2
        <3> QED BY <2>1, <3>1, <3>3 DEF SliceCovered, IdsIn, Stored, Updating
    <2>6. \A k \in Kinds : IdsIn(file'[k]) \subseteq Stored(k)' \cup Updating(k)'
        <3>1. PICK b \in {<<>>, buf[h]} : file' = [file EXCEPT ![kind[h]] = b] /\ (b = <<>> \/ pc'[h] = "update")
            BY <2>1
        <3>2. ASSUME NEW k \in Kinds, k = kind[h] PROVE IdsIn(b) \subseteq Stored(k)' \cup Updating(k)'
            <4>1. CASE b = <<>>
                BY <4>1, EmptyIsDistinct
            <4>2. CASE b = buf[h] /\ pc'[h] = "update"
                <5>1. IdsIn(buf[h]) \subseteq Stored(k) \cup Updating(k) \cup {rec[h].id}
                    BY <2>1, <2>4, <3>2 DEF SliceCovered
                <5>2. rec[h].id \in Updating(k)'
                    BY <2>1, <3>2, <4>2 DEF Updating
                <5> QED BY <2>3, <4>2, <5>1, <5>2
            <4> QED BY <3>1, <4>1, <4>2
        <3>3. \A k \in Kinds : file'[k] = IF k = kind[h] THEN b ELSE file[k]
            BY <1>a, <3>1 DEF SharedOK
        <3> QED BY <1>b, <2>3, <2>4, <3>2, <3>3
    <2> QED BY <1>4, <1>b, <2>1, <2>2, <2>4, <2>5, <2>6, PhantomKept DEF Serve
<1>5. ASSUME NEW h \in Handlers, SetInStore(h) \/ DeleteFromStore(h) \/ ClearStore(h) PROVE PhantomInv'
    <2>1. /\ UNCHANGED <<up, file, op, kind, rec>> /\ pc[h] = "update" /\ pc'[h] = "send"
          /\ rec[h] \in Record /\ kind[h] \in Kinds
          /\ \A k \in Kinds, i \in Ids :
                store'[k][i] = IF k = kind[h] /\ i = rec[h].id THEN rec[h] ELSE store[k][i]
        <3>1. SetInStore(h)
            BY <1>5, <1>b DEF DeleteFromStore, ClearStore
        <3> QED BY <3>1, <1>a DEF SetInStore, Put, Goto, SharedOK, HandlersOK, LocalOK, Record
    <2>2. /\ \A k \in Kinds : Stored(k) \subseteq Stored(k)'
          /\ \A k \in Kinds : k = kind[h] => rec[h].id \in Stored(k)'
        BY <2>1, NoneIsNoRecord DEF Stored, Record
    <2>3. \A k \in Kinds : Stored(k) \cup Updating(k) \subseteq Stored(k)' \cup Updating(k)'
        BY <1>5, <1>c, <2>2, CoverKept DEF Serve
    <2>4. SliceCovered(h)'
        BY <2>1 DEF SliceCovered
    <2> QED BY <1>5, <1>b, <2>1, <2>2, <2>3, <2>4, PhantomKept DEF Serve
<1>6. CASE RouterTake \/ UNCHANGED vars
    <2>1. UNCHANGED <<up, file, store, pc, op, kind, rec, buf>>
        BY <1>6 DEF RouterTake, vars
    <2> QED BY <2>1 DEF PhantomInv, NoPhantom, SliceCovered, Updating, Stored
<1>7. CASE Crash
    BY <1>7 DEF Crash, PhantomInv, SliceCovered
<1>8. CASE Start
    <2>1. /\ UNCHANGED <<file, pc, op>> /\ ~up
          /\ \A k \in Kinds : store'[k] = Load(k)
        BY <1>8 DEF Start
    <2>2. ASSUME NEW k \in Kinds PROVE IdsIn(file[k]) \subseteq Stored(k)'
        <3>1. file[k] \in Seq(Record)
            BY <1>a DEF SharedOK
        <3>2. \A i \in IdsIn(file[k]) : i \in Ids
            <4>1. \A n \in DOMAIN file[k] : file[k][n] \in Record
                BY <3>1
            <4> QED BY <4>1 DEF IdsIn, Record
        <3>3. IdsIn(file[k]) # {} => Len(file[k]) \in DOMAIN file[k] /\ file[k][Len(file[k])] \in Record
            BY <3>1 DEF IdsIn
        <3> QED BY <2>1, <3>2, <3>3, NoneIsNoRecord DEF Stored, Load
    <2> QED BY <1>b, <2>1, <2>2 DEF PhantomInv, NoPhantom, SliceCovered
<1> QED
    BY <1>1, <1>2, <1>3, <1>4, <1>5, <1>6, <1>7, <1>8 DEF Next, Serve

\* While creates are the only changes, the file of a server that is up, across
\* any number of crashes, lists nothing that is not in the map but for the
\* registrations their handlers are about to Set.
THEOREM NothingInvented == OnlyCreates => (Spec => [](up => NoPhantom))
<1>. SUFFICES ASSUME OnlyCreates PROVE Spec => [](up => NoPhantom)
    OBVIOUS
<1>1. Init => TypeInv /\ PhantomInv
    BY TypeInit, EmptyIsDistinct
       DEF Init, PhantomInv, NoPhantom, SliceCovered, Kinds
<1>2. TypeInv /\ PhantomInv /\ [Next]_vars => (TypeInv /\ PhantomInv)'
    BY TypeNext, PhantomNext
<1>3. PhantomInv => (up => NoPhantom)
    BY DEF PhantomInv
<1> QED BY <1>1, <1>2, <1>3, PTL DEF Spec
=============================================================================
