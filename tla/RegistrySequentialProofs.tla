----------------------- MODULE RegistrySequentialProofs -----------------------
(* What PubSubRegistry guarantees where requests are served one at a time, by   *)
(* a single handler me, beyond SequentialLoadable and SequentialAgreement.      *)
EXTENDS PubSubRegistryProofs

\* The invariant of SequentialAgreement, on which all of this module rests.
SeqInv(me) == TypeInv /\ GenInv /\ IdInv /\ LoadableInv(me) /\ AgreeInv(me)

LEMMA SeqInit ==
    ASSUME NEW me, Handlers = {me}
    PROVE  Init => SeqInv(me)
<1>1. Init => LoadableInv(me) /\ AgreeInv(me)
    BY EmptyIsDistinct
       DEF Init, LoadableInv, AgreeInv, OwnKeys, DeleteByOwnKey, AgreePhase, OwnRecords, Writing, Stored, EmptyStore
<1> QED
    BY <1>1, TypeInit, GenInit, IdInit DEF SeqInv

LEMMA SeqNext ==
    ASSUME NEW me, Handlers = {me}
    PROVE  SeqInv(me) /\ [Next]_vars => SeqInv(me)'
BY TypeNext, GenNext, IdNext, LoadableNext, AgreeNext DEF SeqInv

\* The map after a Set.
LEMMA PutIn ==
    ASSUME NEW me \in Handlers, TypeInv, SetInStore(me)
    PROVE  /\ rec[me] \in Record /\ kind[me] \in Kinds
           /\ \A k \in Kinds, i \in Ids :
                store'[k][i] = IF k = kind[me] /\ i = rec[me].id THEN rec[me] ELSE store[k][i]
           /\ \A k \in Kinds :
                Stored(k)' = IF k = kind[me] THEN Stored(k) \cup {rec[me].id} ELSE Stored(k)
<1>1. rec[me] \in Record /\ kind[me] \in Kinds
    BY DEF TypeInv, TypeOK, SetInStore, LocalOK, HandlersOK
<1>2. \A k \in Kinds, i \in Ids :
        store'[k][i] = IF k = kind[me] /\ i = rec[me].id THEN rec[me] ELSE store[k][i]
    BY <1>1 DEF TypeInv, TypeOK, SharedOK, SetInStore, Put, Record
<1> QED
    BY <1>1, <1>2, NoneIsNoRecord DEF Stored, Record

\* The map after a Delete and after a delete-all.
LEMMA TakenOut ==
    ASSUME NEW me \in Handlers, TypeInv, DeleteFromStore(me) \/ ClearStore(me)
    PROVE  /\ \A k \in Kinds : \A i \in Stored(k)' : i \in Stored(k) /\ store'[k][i] = store[k][i]
           /\ \A k \in Kinds : Stored(k) \subseteq Stored(k)' \cup gone'
           /\ gone \subseteq gone'
<1>1. store \in [Kinds -> [Ids -> Record \cup {None}]] /\ kind[me] \in Kinds
    BY DEF TypeInv, TypeOK, SharedOK, HandlersOK
<1>2. CASE DeleteFromStore(me)
    <2>1. store' = [store EXCEPT ![kind[me]] = [store[kind[me]] EXCEPT ![key[me]] = None]]
        BY <1>2, <1>1 DEF DeleteFromStore
    <2>2. gone' = gone \cup {key[me]}
        BY <1>2 DEF DeleteFromStore
    <2> QED BY <1>1, <2>1, <2>2 DEF Stored
<1>3. CASE ClearStore(me)
    <2>1. /\ store' = [store EXCEPT ![kind[me]] = EmptyStore]
          /\ gone' = gone \cup Stored(kind[me])
        BY <1>3 DEF ClearStore
    <2> QED BY <1>1, <2>1 DEF Stored, EmptyStore
<1> QED
    BY <1>2, <1>3

-----------------------------------------------------------------------------
(* No duplicates.  From its check on, a create that goes through has an address *)
(* that is not in the map; the file follows by the agreement of the two.        *)

StoreNoDuplicates ==
    \A k \in Kinds : \A i, j \in Stored(k) : store[k][i].addr = store[k][j].addr => i = j

Unlisted(me) ==
    op[me] = "create" /\ (pc[me] = "validate" \/ Making(me)) =>
        \A i \in Stored(kind[me]) : store[kind[me]][i].addr # rec[me].addr

NewInv(me) == crashes = 0 => up /\ StoreNoDuplicates /\ Unlisted(me)

LEMMA NewNext ==
    ASSUME NEW me, Handlers = {me}, SeqInv(me), NewInv(me), [Next]_vars
    PROVE  NewInv(me)'
<1> USE DEF historyVars, diskVars, handlerVars
<1>a. SharedOK /\ HandlersOK /\ LocalOK(me) /\ kind[me] \in Kinds /\ TypeInv /\ me \in Handlers
    BY DEF SeqInv, TypeInv, TypeOK, HandlersOK
<1>b. crashes = 0 => up /\ StoreNoDuplicates /\ Unlisted(me)
    BY DEF NewInv
<1>1. CASE CheckDuplicate(me)
    <2>1. UNCHANGED <<up, store, crashes, kind, op>>
        BY <1>1 DEF CheckDuplicate
    <2>2. StoreNoDuplicates => StoreNoDuplicates'
        BY <2>1 DEF StoreNoDuplicates, Stored
    <2>3. Unlisted(me)'
        <3>1. CASE Registered(kind[me], rec[me].addr) # {}
            <4>1. pc'[me] = "send"
                BY <1>1, <1>a, <3>1 DEF CheckDuplicate, Goto, HandlersOK
            <4> QED BY <4>1 DEF Unlisted, Making
        <3>2. CASE Registered(kind[me], rec[me].addr) = {}
            <4>1. rec' = rec /\ \A i \in Stored(kind[me]) : store[kind[me]][i].addr # rec[me].addr
                BY <1>1, <3>2 DEF CheckDuplicate, Registered
            <4> QED BY <2>1, <4>1 DEF Unlisted, Stored
        <3> QED BY <3>1, <3>2
    <2> QED BY <1>b, <2>1, <2>2, <2>3 DEF NewInv
<1>2. CASE EndpointAccepted(me)
    <2>1. UNCHANGED <<up, store, crashes, kind, op>> /\ pc[me] = "validate"
        BY <1>2 DEF EndpointAccepted
    <2>2. rec'[me].addr = rec[me].addr
        BY <1>2, <1>a DEF EndpointAccepted, HandlersOK, LocalOK, Draft
    <2>3. Unlisted(me) => Unlisted(me)'
        BY <2>1, <2>2 DEF Unlisted, Stored
    <2> QED BY <1>b, <2>1, <2>3 DEF NewInv, StoreNoDuplicates, Stored
<1>3. CASE ReadFile(me) \/ Truncate(me) \/ WriteFile(me)
    <2>1. UNCHANGED <<up, store, crashes, kind, op, rec>> /\ pc[me] \in {"read", "truncate", "write"}
        BY <1>3 DEF ReadFile, Truncate, WriteFile
    <2>2. Unlisted(me) => Unlisted(me)'
        BY <2>1 DEF Unlisted, Making, Stored
    <2> QED BY <1>b, <2>1, <2>2 DEF NewInv, StoreNoDuplicates, Stored
<1>4. CASE SetInStore(me)
    <2>1. UNCHANGED <<up, crashes>> /\ pc'[me] = "send" /\ op[me] = "create" /\ pc[me] = "update"
        BY <1>4, <1>a DEF SetInStore, Goto, HandlersOK
    <2>2. Unlisted(me)'
        BY <2>1 DEF Unlisted, Making
    <2>3. crashes = 0 => StoreNoDuplicates'
        <3>. HAVE crashes = 0
        <3>1. StoreNoDuplicates /\ \A i \in Stored(kind[me]) : store[kind[me]][i].addr # rec[me].addr
            BY <1>b, <2>1 DEF Unlisted, Making
        <3>2. /\ \A k \in Kinds, i \in Ids :
                    store'[k][i] = IF k = kind[me] /\ i = rec[me].id THEN rec[me] ELSE store[k][i]
              /\ \A k \in Kinds :
                    Stored(k)' = IF k = kind[me] THEN Stored(k) \cup {rec[me].id} ELSE Stored(k)
              /\ rec[me].id \in Ids /\ \A k \in Kinds : Stored(k) \subseteq Ids
            BY <1>4, <1>a, PutIn DEF Record, Stored
        <3>. SUFFICES ASSUME NEW k \in Kinds, NEW i \in Stored(k)', NEW j \in Stored(k)',
                             store'[k][i].addr = store'[k][j].addr
                      PROVE  i = j
            BY DEF StoreNoDuplicates
        <3> QED BY <3>1, <3>2 DEF StoreNoDuplicates
    <2> QED BY <1>b, <2>1, <2>2, <2>3 DEF NewInv
<1>5. CASE DeleteFromStore(me) \/ ClearStore(me)
    <2>1. UNCHANGED <<up, crashes>> /\ pc'[me] = "done"
        BY <1>5, <1>a DEF DeleteFromStore, ClearStore, Reply, Goto, HandlersOK
    <2>2. StoreNoDuplicates => StoreNoDuplicates'
        BY <1>5, <1>a, TakenOut DEF StoreNoDuplicates
    <2> QED BY <1>b, <2>1, <2>2 DEF NewInv, Unlisted, Making
<1>6. CASE Accept(me)
    <2>1. UNCHANGED <<up, store, crashes>> /\ (op'[me] = "create" => pc'[me] = "check")
        BY <1>6, <1>a DEF Accept, Goto, FirstStep, HandlersOK
    <2> QED BY <1>b, <2>1 DEF NewInv, StoreNoDuplicates, Unlisted, Making, Stored
<1>7. CASE \/ RejectBody(me) \/ EndpointRefused(me) \/ ReadDamaged(me) \/ SendOut(me) \/ GetByID(me)
           \/ ListAll(me) \/ DeletePublisher(me) \/ DeleteSubscription(me) \/ Finish(me)
    <2>1. UNCHANGED <<up, store, crashes>> /\ (op'[me] # "create" \/ pc'[me] = "done")
        BY <1>7, <1>a DEF RejectBody, EndpointRefused, ReadDamaged, SendOut, GetByID, ListAll,
             DeletePublisher, DeleteSubscription, Finish, Reply, Goto, HandlersOK
    <2> QED BY <1>b, <2>1 DEF NewInv, StoreNoDuplicates, Unlisted, Making, Stored
<1>8. CASE RouterTake \/ UNCHANGED vars
    BY <1>b, <1>8 DEF RouterTake, vars, NewInv, StoreNoDuplicates, Unlisted, Making, Stored
<1>9. CASE Crash
    BY <1>9, <1>a, CrashAssumption DEF Crash, SharedOK, NewInv
<1>10. CASE Start
    BY <1>10, <1>b DEF Start, NewInv
<1> QED
    BY <1>1, <1>2, <1>3, <1>4, <1>5, <1>6, <1>7, <1>8, <1>9, <1>10 DEF Next, Serve

\* What the file lists has its address from its id, and so has the map.
LEMMA FileFollowsStore ==
    ASSUME NEW me, Handlers = {me}, SeqInv(me), NewInv(me)
    PROVE  NoDuplicates
<1>a. /\ SharedOK /\ HandlersOK /\ LocalOK(me) /\ kind[me] \in Kinds
      /\ FilesGenuine /\ StoresGenuine /\ RecsGenuine /\ FilesDistinct /\ OwnKeys
      /\ me \in Handlers
    BY DEF SeqInv, TypeInv, TypeOK, HandlersOK, GenInv, IdInv, AgreeInv
<1>. SUFFICES ASSUME crashes = 0, NEW k \in Kinds,
                     NEW m \in DOMAIN file[k], NEW n \in DOMAIN file[k], file[k][m].addr = file[k][n].addr
              PROVE  file[k][m].id = file[k][n].id
    BY <1>a DEF NoDuplicates, NewInv, StoreNoDuplicates, FilesDistinct, Distinct
<1>b. StoreNoDuplicates /\ Unlisted(me) /\ AgreePhase(me) /\ OwnRecords(k)
    BY DEF NewInv, SeqInv, AgreeInv, OwnRecords
<1>1. \A i \in Stored(k) : born[i].addr = store[k][i].addr
    <2>. TAKE i \in Stored(k)
    <2>1. store[k][i].id = i
        BY <1>a DEF OwnKeys
    <2>2. born[store[k][i].id] = [kind |-> k, addr |-> store[k][i].addr]
        BY <1>a DEF StoresGenuine, Genuine
    <2> QED BY <2>1, <2>2
<1>2. \A i, j \in Stored(k) : born[i].addr = born[j].addr => i = j
    BY <1>1, <1>b DEF StoreNoDuplicates
<1>3. \A l \in DOMAIN file[k] : born[file[k][l].id].addr = file[k][l].addr /\ file[k][l].id \in IdsIn(file[k])
    <2>. TAKE l \in DOMAIN file[k]
    <2>1. born[file[k][l].id] = [kind |-> k, addr |-> file[k][l].addr]
        BY <1>a DEF FilesGenuine, Genuine
    <2> QED BY <2>1 DEF IdsIn
<1>4. CASE IdsIn(file[k]) \subseteq Stored(k)
    BY <1>2, <1>3, <1>4
<1>5. CASE k = kind[me] /\ pc[me] \in {"write", "update"}
    <2>1. CASE pc[me] = "write"
        BY <1>5, <2>1 DEF SeqInv, LoadableInv
    <2>2. CASE pc[me] = "update" /\ op[me] = "create"
        <3>1. IdsIn(file[k]) = Stored(k) \cup {rec[me].id}
            BY <1>5, <1>b, <2>2 DEF AgreePhase, Expected
        <3>2. rec[me] \in Record /\ born[rec[me].id].addr = rec[me].addr
            BY <1>a, <2>2 DEF LocalOK, RecsGenuine, Genuine
        <3>3. \A i \in Stored(k) : born[i].addr # born[rec[me].id].addr
            BY <1>1, <1>5, <1>b, <2>2, <3>2 DEF Unlisted, Making
        <3> QED BY <1>2, <1>3, <3>1, <3>3
    <2>3. CASE pc[me] = "update" /\ op[me] # "create"
        <3>1. IdsIn(file[k]) \subseteq Stored(k)
            BY <1>5, <1>b, <2>3 DEF AgreePhase, Expected
        <3> QED BY <1>4, <3>1
    <2> QED BY <1>5, <2>1, <2>2, <2>3
<1> QED
    BY <1>4, <1>5, <1>b DEF AgreePhase

\* Where requests are served one at a time, the check for an existing
\* registration prevents a second one of the same address, in map and file.
THEOREM SequentialNoDuplicates ==
    ASSUME NEW me, Handlers = {me}
    PROVE  Spec => []NoDuplicates
<1>1. Init => SeqInv(me) /\ NewInv(me)
    BY SeqInit DEF Init, NewInv, StoreNoDuplicates, Unlisted, Making, Stored, EmptyStore
<1>2. SeqInv(me) /\ NewInv(me) /\ [Next]_vars => (SeqInv(me) /\ NewInv(me))'
    BY SeqNext, NewNext
<1>3. SeqInv(me) /\ NewInv(me) => NoDuplicates
    BY FileFollowsStore
<1> QED BY <1>1, <1>2, <1>3, PTL DEF Spec

-----------------------------------------------------------------------------
(* What was deleted.  Ids are generated for one kind, so that those deleted     *)
(* from one map cannot turn up in the other; a record on its way to the file    *)
(* is too new to have been deleted.                                             *)

BornAs(k, i) == born[i] # None /\ born[i].kind = k

Removing(me) == op[me] = "delete" /\ pc[me] \in {"read", "truncate", "write", "update"}

GoneInv(me) ==
    /\ GoneForGood
    /\ \A k \in Kinds : \A i \in Stored(k) : BornAs(k, i)
    /\ \A i \in gone : born[i] # None
    /\ Making(me) => rec[me].id \notin gone
    /\ Removing(me) => BornAs("PRODUCER", key[me])

LEMMA RecordBorn ==
    ASSUME NEW k \in Kinds, NEW r \in Record, Genuine(k, r)
    PROVE  BornAs(k, r.id)
<1>1. [kind |-> k, addr |-> r.addr] \in Origin
    BY DEF Origin, Record
<1> QED
    BY <1>1, NoneIsNoRecord DEF BornAs, Genuine

LEMMA FileBorn ==
    ASSUME TypeInv, GenInv, NEW k \in Kinds, NEW i \in IdsIn(file[k])
    PROVE  BornAs(k, i) /\ i \in Ids
<1>1. PICK n \in DOMAIN file[k] : i = file[k][n].id
    BY DEF IdsIn
<1>2. file[k] \in Seq(Record)
    BY DEF TypeInv, TypeOK, SharedOK
<1>3. file[k][n] \in Record /\ Genuine(k, file[k][n])
    BY <1>2 DEF GenInv, FilesGenuine
<1> QED
    BY <1>1, <1>3, RecordBorn DEF Record

\* A step that changes neither the records nor what they were born as.
LEMMA GoneKept ==
    ASSUME NEW me, GoneInv(me), UNCHANGED <<file, store, gone, born, crashes>>,
           Making(me)' => Making(me) /\ rec'[me].id = rec[me].id,
           Removing(me)' => BornAs("PRODUCER", key'[me])
    PROVE  GoneInv(me)'
BY DEF GoneInv, GoneForGood, OwnRecords, BornAs, Stored

LEMMA GoneNext ==
    ASSUME NEW me, Handlers = {me}, SeqInv(me), GoneInv(me), [Next]_vars
    PROVE  GoneInv(me)'
<1> USE DEF historyVars, diskVars, handlerVars
<1>a. /\ SharedOK /\ HandlersOK /\ HistoryOK /\ LocalOK(me) /\ kind[me] \in Kinds /\ TypeInv
      /\ GenInv /\ me \in Handlers /\ DeleteByOwnKey(me) /\ LoadableInv(me)
      /\ up => AgreePhase(me)
      /\ ~up => crashes # 0 /\ pc[me] = "idle"
    BY DEF SeqInv, TypeInv, TypeOK, HandlersOK, AgreeInv
<1>b. /\ \A k \in Kinds : OwnRecords(k) => gone \cap (IdsIn(file[k]) \cup Stored(k)) = {}
      /\ \A k \in Kinds : \A i \in Stored(k) : BornAs(k, i)
      /\ \A i \in gone : born[i] # None
      /\ Making(me) => rec[me].id \notin gone
      /\ Removing(me) => BornAs("PRODUCER", key[me])
    BY DEF GoneInv, GoneForGood
<1>1. CASE EndpointAccepted(me)
    <2>1. PICK i \in FreshIds : /\ rec' = [rec EXCEPT ![me].id = i]
                                /\ born' = [born EXCEPT ![i] = [kind |-> kind[me], addr |-> rec[me].addr]]
        BY <1>1 DEF EndpointAccepted
    <2>2. /\ UNCHANGED <<file, store, gone, crashes, op, key>> /\ op[me] = "create"
          /\ rec'[me].id = i /\ born[i] = None /\ \A j \in Ids : j # i => born'[j] = born[j]
        BY <1>1, <1>a, <2>1 DEF EndpointAccepted, HandlersOK, HistoryOK, LocalOK, Draft, FreshIds
    <2>3. /\ \A k \in Kinds : \A j \in Stored(k) : j \in Ids /\ j # i
          /\ \A j \in gone : j \in Ids /\ j # i
        BY <1>a, <1>b, <2>2 DEF HistoryOK, Stored, BornAs
    <2>4. \A k \in Kinds : \A j \in Stored(k)' : BornAs(k, j)'
        BY <1>b, <2>2, <2>3 DEF Stored, BornAs
    <2>5. (\A j \in gone' : born'[j] # None) /\ rec'[me].id \notin gone'
        BY <1>b, <2>2, <2>3
    <2>6. GoneForGood'
        BY <1>b, <2>2 DEF GoneForGood, OwnRecords, Stored
    <2> QED BY <2>2, <2>4, <2>5, <2>6 DEF GoneInv, Removing
<1>2. CASE ReadFile(me)
    <2>1. /\ UNCHANGED <<file, store, gone, born, crashes, op, rec, key>>
          /\ pc[me] = "read" /\ pc'[me] = "truncate"
        BY <1>2, <1>a DEF ReadFile, Goto, HandlersOK
    <2> QED BY <1>b, <2>1, GoneKept DEF Making, Removing, BornAs
<1>3. CASE Truncate(me) \/ WriteFile(me)
    <2>1. /\ UNCHANGED <<up, store, gone, born, crashes, op, rec, key>>
          /\ pc[me] \in {"truncate", "write"} /\ pc'[me] \in {"write", "update"}
        BY <1>3, <1>a DEF Truncate, WriteFile, Goto, HandlersOK
    <2>2. /\ Making(me)' => rec'[me].id \notin gone'
          /\ Removing(me)' => BornAs("PRODUCER", key[me])'
          /\ \A k \in Kinds : \A i \in Stored(k)' : BornAs(k, i)'
        BY <1>b, <2>1 DEF Making, Removing, BornAs, Stored
    <2>3. \E b \in {<<>>, buf[me]} : /\ \A k \in Kinds : file'[k] = IF k = kind[me] THEN b ELSE file[k]
                                     /\ b = <<>> \/ (pc[me] = "write" /\ op[me] # "deleteAll")
        <3>1. CASE Truncate(me)
            BY <1>a, <3>1 DEF Truncate, SharedOK
        <3>2. CASE WriteFile(me)
            BY <1>a, <3>2 DEF WriteFile, SharedOK, LoadableInv, LocalOK
        <3> QED BY <1>3, <3>1, <3>2
    <2>4. ASSUME OwnRecords(kind[me]), pc[me] = "write", op[me] # "deleteAll"
          PROVE  gone \cap IdsIn(buf[me]) = {}
        <3>1. IdsIn(buf[me]) = Expected(me) /\ op[me] \in {"create", "delete"}
            BY <1>a, <2>4 DEF AgreePhase, LocalOK
        <3>2. gone \cap Stored(kind[me]) = {}
            BY <1>a, <1>b, <2>4
        <3>3. op[me] = "create" => rec[me].id \notin gone
            BY <1>b, <2>4 DEF Making
        <3> QED BY <3>1, <3>2, <3>3 DEF Expected
    <2>5. GoneForGood'
        <3>. SUFFICES ASSUME NEW k \in Kinds, OwnRecords(k)
                      PROVE  gone \cap (IdsIn(file'[k]) \cup Stored(k)) = {}
            BY <2>1 DEF GoneForGood, OwnRecords, Stored
        <3>1. PICK b \in {<<>>, buf[me]} : /\ file'[k] = IF k = kind[me] THEN b ELSE file[k]
                                           /\ b = <<>> \/ (pc[me] = "write" /\ op[me] # "deleteAll")
            BY <2>3
        <3>2. gone \cap (IdsIn(file[k]) \cup Stored(k)) = {}
            BY <1>b
        <3>3. CASE k # kind[me]
            BY <3>1, <3>2, <3>3
        <3>4. CASE k = kind[me] /\ b = <<>>
            BY <3>1, <3>2, <3>4, EmptyIsDistinct
        <3>5. CASE k = kind[me] /\ b # <<>>
            BY <2>4, <3>1, <3>2, <3>5
        <3> QED BY <3>3, <3>4, <3>5
    <2> QED BY <1>b, <2>1, <2>2, <2>5 DEF GoneInv
<1>4. CASE SetInStore(me)
    <2>1. /\ UNCHANGED <<file, gone, born, crashes, op>> /\ pc'[me] = "send"
          /\ op[me] = "create" /\ pc[me] = "update"
        BY <1>4, <1>a DEF SetInStore, Goto, HandlersOK
    <2>2. /\ rec[me] \in Record
          /\ \A k \in Kinds : Stored(k)' = IF k = kind[me] THEN Stored(k) \cup {rec[me].id} ELSE Stored(k)
        BY <1>4, <1>a, PutIn
    <2>3. BornAs(kind[me], rec[me].id) /\ rec[me].id \notin gone
        BY <1>a, <1>b, <2>1, <2>2, RecordBorn DEF Making, GenInv, RecsGenuine
    <2>4. GoneForGood'
        BY <1>b, <2>1, <2>2, <2>3 DEF GoneForGood, OwnRecords
    <2>5. \A k \in Kinds : \A i \in Stored(k)' : BornAs(k, i)'
        BY <1>b, <2>1, <2>2, <2>3 DEF BornAs
    <2> QED BY <1>b, <2>1, <2>4, <2>5 DEF GoneInv, Making, Removing
<1>5. CASE DeleteFromStore(me) \/ ClearStore(me)
    <2>1. /\ UNCHANGED <<up, file, born, crashes, op, kind>> /\ pc'[me] = "done" /\ pc[me] = "update"
        BY <1>5, <1>a DEF DeleteFromStore, ClearStore, Reply, Goto, HandlersOK
    <2>2. \A k \in Kinds : Stored(k)' \subseteq Stored(k)
        BY <1>5, <1>a, TakenOut
    <2>3. PICK G : /\ gone' = gone \cup G
                   /\ \A i \in G : BornAs(kind[me], i)
                   /\ OwnRecords(kind[me]) => G \cap (IdsIn(file[kind[me]]) \cup Stored(kind[me])') = {}
        <3>1. OwnRecords(kind[me]) => IdsIn(file[kind[me]]) = Expected(me)
            BY <1>a, <2>1 DEF AgreePhase
        <3>2. CASE DeleteFromStore(me)
            <4>1. op[me] = "delete" /\ gone' = gone \cup {key[me]}
                BY <3>2 DEF DeleteFromStore
            <4>2. kind[me] = "PRODUCER" /\ BornAs("PRODUCER", key[me])
                BY <1>a, <1>b, <2>1, <4>1 DEF Removing, DeleteByOwnKey, Writing
            <4>3. key[me] \notin Stored(kind[me])'
                BY <1>a, <3>2 DEF DeleteFromStore, SharedOK, Stored
            <4>4. OwnRecords(kind[me]) => key[me] \notin IdsIn(file[kind[me]])
                BY <3>1, <4>1 DEF Expected
            <4>5. \A i \in {key[me]} : BornAs(kind[me], i)
                BY <4>2
            <4>6. OwnRecords(kind[me]) => {key[me]} \cap (IdsIn(file[kind[me]]) \cup Stored(kind[me])') = {}
                BY <4>3, <4>4
            <4> QED BY <4>1, <4>5, <4>6
        <3>3. CASE ClearStore(me)
            <4>1. op[me] = "deleteAll" /\ gone' = gone \cup Stored(kind[me])
                BY <3>3 DEF ClearStore
            <4>2. Stored(kind[me])' = {}
                BY <1>a, <2>1, <3>3 DEF ClearStore, SharedOK, Stored, EmptyStore
            <4>3. OwnRecords(kind[me]) => IdsIn(file[kind[me]]) = {}
                BY <3>1, <4>1 DEF Expected
            <4> QED BY <1>a, <1>b, <4>1, <4>2, <4>3
        <3> QED BY <1>5, <3>2, <3>3
    <2>4. GoneForGood'
        <3>. SUFFICES ASSUME NEW k \in Kinds, OwnRecords(k)
                      PROVE  gone' \cap (IdsIn(file[k]) \cup Stored(k)') = {}
            BY <2>1 DEF GoneForGood, OwnRecords
        <3>1. gone \cap (IdsIn(file[k]) \cup Stored(k)') = {}
            BY <1>b, <2>2
        <3>2. CASE k = kind[me]
            BY <2>1, <2>3, <3>1, <3>2
        <3>3. CASE k # kind[me]
            <4>1. \A i \in IdsIn(file[k]) \cup Stored(k)' : BornAs(k, i)
                BY <1>a, <1>b, <2>2, FileBorn
            <4> QED BY <2>3, <3>1, <3>3, <4>1 DEF BornAs
        <3> QED BY <3>2, <3>3
    <2>5. /\ \A k \in Kinds : \A i \in Stored(k)' : BornAs(k, i)'
          /\ \A i \in gone' : born'[i] # None
        BY <1>b, <2>1, <2>2, <2>3 DEF BornAs
    <2> QED BY <2>1, <2>4, <2>5 DEF GoneInv, Making, Removing
<1>6. CASE DeletePublisher(me)
    <2>1. UNCHANGED <<file, store, gone, born, crashes, op, key>> /\ op[me] = "delete"
        BY <1>6 DEF DeletePublisher
    <2>2. pc'[me] = "done" \/ key[me] \in Stored("PRODUCER")
        BY <1>6, <1>a DEF DeletePublisher, Reply, Goto, HandlersOK
    <2>3. Removing(me)' => BornAs("PRODUCER", key'[me])
        BY <1>b, <2>1, <2>2 DEF Removing, Kinds
    <2> QED BY <2>1, <2>3, GoneKept DEF Making
<1>7. CASE \/ Accept(me) \/ CheckDuplicate(me) \/ RejectBody(me) \/ EndpointRefused(me) \/ ReadDamaged(me)
           \/ SendOut(me) \/ GetByID(me) \/ ListAll(me) \/ DeleteSubscription(me) \/ Finish(me)
    <2>1. UNCHANGED <<file, store, gone, born, crashes>>
        BY <1>7 DEF Accept, CheckDuplicate, RejectBody, EndpointRefused, ReadDamaged, SendOut, GetByID,
             ListAll, DeleteSubscription, Finish
    <2>2. ~Making(me)' /\ ~Removing(me)'
        <3>1. CASE Accept(me)
            BY <3>1, <1>a, RequestsAssumption DEF Accept, Goto, FirstStep, HandlersOK, Operations, Making, Removing
        <3>2. CASE ~Accept(me)
            <4>1. pc'[me] \in {"send", "validate", "done", "idle"}
                BY <1>7, <3>2, <1>a DEF CheckDuplicate, RejectBody, EndpointRefused, ReadDamaged, SendOut,
                     GetByID, ListAll, DeleteSubscription, Finish, Reply, Goto, HandlersOK
            <4> QED BY <4>1 DEF Making, Removing
        <3> QED BY <3>1, <3>2
    <2> QED BY <2>1, <2>2, GoneKept
<1>8. CASE RouterTake \/ UNCHANGED vars
    <2>1. UNCHANGED <<file, store, gone, born, crashes, pc, op, rec, key>>
        BY <1>8 DEF RouterTake, vars
    <2> QED BY <1>b, <2>1, GoneKept DEF Making, Removing
<1>9. CASE Crash
    <2>1. /\ UNCHANGED <<file, gone, born>> /\ crashes' # 0 /\ \A k \in Kinds : Stored(k)' = {}
          /\ pc'[me] = "idle"
        BY <1>9, <1>a, CrashAssumption DEF Crash, SharedOK, Stored, EmptyStore
    <2>2. GoneForGood'
        BY <1>b, <2>1 DEF GoneForGood, OwnRecords
    <2> QED BY <1>b, <2>1, <2>2 DEF GoneInv, Making, Removing
<1>10. CASE Start
    <2>1. /\ UNCHANGED <<file, gone, born, crashes, pc>> /\ pc[me] = "idle"
          /\ \A k \in Kinds : Stored(k)' \subseteq IdsIn(file[k])
        BY <1>10, <1>a DEF Start, Load, Stored
    <2>2. GoneForGood'
        BY <1>b, <2>1 DEF GoneForGood, OwnRecords
    <2>3. \A k \in Kinds : \A i \in Stored(k)' : BornAs(k, i)'
        BY <1>a, <2>1, FileBorn DEF BornAs
    <2> QED BY <1>b, <2>1, <2>2, <2>3 DEF GoneInv, Making, Removing
<1> QED
    BY <1>1, <1>2, <1>3, <1>4, <1>5, <1>6, <1>7, <1>8, <1>9, <1>10 DEF Next, Serve

\* Where requests are served one at a time, what was deleted stays deleted, in
\* map and file: subscriptions across every restart, publishers as long as the
\* process has not died or none of them is deleted one by one.
THEOREM SequentialGoneForGood ==
    ASSUME NEW me, Handlers = {me}
    PROVE  Spec => []GoneForGood
<1>1. Init => SeqInv(me) /\ GoneInv(me)
    BY SeqInit, EmptyIsDistinct
       DEF Init, GoneInv, GoneForGood, Making, Removing, Stored, EmptyStore
<1>2. SeqInv(me) /\ GoneInv(me) /\ [Next]_vars => (SeqInv(me) /\ GoneInv(me))'
    BY SeqNext, GoneNext
<1>3. GoneInv(me) => GoneForGood
    BY DEF GoneInv
<1> QED BY <1>1, <1>2, <1>3, PTL DEF Spec

-----------------------------------------------------------------------------
(* What was acknowledged.                                                       *)

AckInv(me) ==
    crashes = 0 =>
        /\ up
        /\ acked \ gone \subseteq UNION {Stored(k) : k \in Kinds}
        /\ pc[me] = "send" => rec[me].id \in Stored(kind[me])

\* Nothing is answered 201 and nothing leaves the map.
LEMMA AckKept ==
    ASSUME NEW me, AckInv(me), UNCHANGED <<up, acked, gone, crashes>>,
           \A k \in Kinds : Stored(k) \subseteq Stored(k)',
           crashes = 0 /\ pc'[me] = "send" => rec'[me].id \in Stored(kind[me])'
    PROVE  AckInv(me)'
BY DEF AckInv

LEMMA AckNext ==
    ASSUME NEW me, Handlers = {me}, SeqInv(me), AckInv(me), [Next]_vars
    PROVE  AckInv(me)'
<1> USE DEF historyVars, diskVars, handlerVars
<1>a. /\ SharedOK /\ HandlersOK /\ LocalOK(me) /\ kind[me] \in Kinds /\ TypeInv /\ me \in Handlers
      /\ OwnKeys
    BY DEF SeqInv, TypeInv, TypeOK, HandlersOK, AgreeInv
<1>b. crashes = 0 => /\ up
                     /\ \A i \in acked \ gone : \E k \in Kinds : i \in Stored(k)
                     /\ pc[me] = "send" => rec[me].id \in Stored(kind[me])
    BY DEF AckInv
<1>1. CASE CheckDuplicate(me)
    <2>1. UNCHANGED <<up, store, acked, gone, crashes, kind>>
        BY <1>1 DEF CheckDuplicate
    <2>2. crashes = 0 /\ pc'[me] = "send" => rec'[me].id \in Stored(kind[me])'
        <3>1. CASE Registered(kind[me], rec[me].addr) # {}
            <4>1. PICK i \in Stored(kind[me]) : rec'[me] = store[kind[me]][i]
                BY <1>1, <1>a, <3>1 DEF CheckDuplicate, Registered, HandlersOK
            <4> QED BY <1>a, <2>1, <4>1 DEF OwnKeys, Stored
        <3>2. CASE Registered(kind[me], rec[me].addr) = {}
            BY <1>1, <1>a, <3>2 DEF CheckDuplicate, Goto, HandlersOK
        <3> QED BY <3>1, <3>2
    <2> QED BY <2>1, <2>2, AckKept DEF Stored
<1>2. CASE SetInStore(me)
    <2>1. UNCHANGED <<up, acked, gone, crashes, kind, rec>>
        BY <1>2 DEF SetInStore
    <2>2. \A k \in Kinds : Stored(k) \subseteq Stored(k)' /\ (k = kind[me] => rec[me].id \in Stored(k)')
        BY <1>2, <1>a, PutIn
    <2> QED BY <1>a, <2>1, <2>2, AckKept
<1>3. CASE SendOut(me)
    <2>1. /\ UNCHANGED <<up, store, gone, crashes>> /\ pc[me] = "send" /\ pc'[me] = "done"
          /\ acked' = acked \cup {rec[me].id}
        BY <1>3, <1>a DEF SendOut, Reply, Goto, HandlersOK
    <2>2. crashes = 0 => \A i \in acked' \ gone' : \E k \in Kinds : i \in Stored(k)'
        BY <1>a, <1>b, <2>1 DEF Stored
    <2> QED BY <1>b, <2>1, <2>2 DEF AckInv
<1>4. CASE DeleteFromStore(me) \/ ClearStore(me)
    <2>1. UNCHANGED <<up, acked, crashes>> /\ pc'[me] = "done"
        BY <1>4, <1>a DEF DeleteFromStore, ClearStore, Reply, Goto, HandlersOK
    <2>2. (\A k \in Kinds : Stored(k) \subseteq Stored(k)' \cup gone') /\ gone \subseteq gone'
        BY <1>4, <1>a, TakenOut
    <2>3. crashes = 0 => \A i \in acked' \ gone' : \E k \in Kinds : i \in Stored(k)'
        BY <1>b, <2>1, <2>2
    <2> QED BY <1>b, <2>1, <2>3 DEF AckInv
<1>5. CASE \/ Accept(me) \/ EndpointAccepted(me) \/ ReadFile(me) \/ Truncate(me) \/ WriteFile(me)
           \/ RejectBody(me) \/ EndpointRefused(me) \/ ReadDamaged(me) \/ GetByID(me) \/ ListAll(me)
           \/ DeletePublisher(me) \/ DeleteSubscription(me) \/ Finish(me)
    <2>1. UNCHANGED <<up, store, acked, gone, crashes>>
        BY <1>5 DEF Accept, EndpointAccepted, ReadFile, Truncate, WriteFile, RejectBody, EndpointRefused,
             ReadDamaged, GetByID, ListAll, DeletePublisher, DeleteSubscription, Finish
    <2>2. pc'[me] # "send"
        <3>1. CASE Accept(me)
            BY <3>1, <1>a, RequestsAssumption DEF Accept, Goto, FirstStep, HandlersOK, Operations
        <3>2. CASE ~Accept(me)
            BY <1>5, <1>a, <3>2 DEF EndpointAccepted, ReadFile, Truncate, WriteFile, RejectBody, EndpointRefused,
                 ReadDamaged, GetByID, ListAll, DeletePublisher, DeleteSubscription, Finish, Reply, Goto, HandlersOK
        <3> QED BY <3>1, <3>2
    <2> QED BY <2>1, <2>2, AckKept DEF Stored
<1>6. CASE RouterTake \/ UNCHANGED vars
    <2>1. UNCHANGED <<up, store, acked, gone, crashes, pc, rec, kind>>
        BY <1>6 DEF RouterTake, vars
    <2> QED BY <1>b, <2>1, AckKept DEF Stored
<1>7. CASE Crash
    BY <1>7, <1>a, CrashAssumption DEF Crash, SharedOK, AckInv
<1>8. CASE Start
    BY <1>8, <1>b DEF Start, AckInv
<1> QED
    BY <1>1, <1>2, <1>3, <1>4, <1>5, <1>6, <1>7, <1>8 DEF Next, Serve

\* Where requests are served one at a time, and until the process dies for the
\* first time, a registration answered 201 and not deleted since is in its file
\* whenever no request is being served.
THEOREM SequentialPersistence ==
    ASSUME NEW me, Handlers = {me}
    PROVE  Spec => []AckedArePersisted
<1>1. Init => SeqInv(me) /\ AckInv(me)
    BY SeqInit DEF Init, AckInv
<1>2. SeqInv(me) /\ AckInv(me) /\ [Next]_vars => (SeqInv(me) /\ AckInv(me))'
    BY SeqNext, AckNext
<1>3. SeqInv(me) /\ AckInv(me) => AckedArePersisted
    BY DEF SeqInv, AckInv, AckedArePersisted, AgreeInv, AgreePhase, OwnRecords, Quiet
<1> QED BY <1>1, <1>2, <1>3, PTL DEF Spec
=============================================================================
