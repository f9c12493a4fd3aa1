--------------------------- MODULE PubSubRegistry ---------------------------
(* The registry of publishers and subscriptions behind the sidecar's REST     *)
(* server (pkg/protocol/rest, pkg/store).  Every HTTP request is served by a   *)
(* goroutine of its own; nothing but the map's Set and Delete is locked, so    *)
(* the handlers interleave between any two steps below.  A registration is     *)
(* kept twice: in a JSON file, rewritten as a whole by truncating it and       *)
(* writing it again, and in a map that is rebuilt from the file by Start.      *)
(* A Crash loses the map, the handlers and the queue and keeps the file; it    *)
(* also stands for the "concurrent map read and map write" throw with which    *)
(* the Go runtime may kill the process when handlers race on the map.          *)
EXTENDS Naturals, Sequences, FiniteSets

CONSTANTS
    Handlers,   \* goroutines of net/http that may be serving at once
    Addrs,      \* the addresses of resource qualifiers, GetAddress()
    Ids,        \* the uuids that uuid.New may return
    Requests,   \* the <<operation, kind>> pairs the clients send
    QueueCap,   \* capacity of the channel from the server to the AMQP router
    MaxCrashes, \* bound: how often the process dies
    None        \* no record, no key, no answer

Kinds == {"PRODUCER", "CONSUMER"}
Operations == {"create", "get", "list", "delete", "deleteAll"}

ASSUME QueueCapAssumption == QueueCap \in Nat \ {0}
ASSUME CrashAssumption == MaxCrashes \in Nat
ASSUME RequestsAssumption == Requests \subseteq Operations \X Kinds

VARIABLES
    up,       \* Start has loaded both stores and the server listens
    file,     \* per kind, the records of the JSON file
    damaged,  \* the kinds whose file json.Unmarshal rejects
    store,    \* per kind, the map from id to the record its pointer refers to
    dataOut,  \* NEW requests queued to the router
    pc,       \* per handler, the next step
    op,       \* per handler, the operation asked for
    kind,     \* per handler, publishers or subscriptions
    key,      \* per handler, the id in the request's path
    rec,      \* per handler, the local record sub (or *pub)
    buf,      \* per handler, the slice allSubs that will be written
    code,     \* per handler, the status code of the answer
    born,     \* history: what each generated id was generated for
    linked,   \* history: the <<kind, address>> pairs queued since Start
    acked,    \* history: the ids answered with 201
    gone,     \* history: the ids whose deletion was answered 200
    crashes   \* how often the process died

handlerVars == <<pc, op, kind, key, rec, buf, code>>
historyVars == <<born, linked, acked, gone>>
diskVars == <<file, damaged>>
vars == <<up, diskVars, store, dataOut, handlerVars, historyVars, crashes>>

Record == [id : Ids, addr : Addrs]
Origin == [kind : Kinds, addr : Addrs]
ASSUME NoneAssumption == None \notin Ids \cup Addrs \cup Record \cup Origin
Draft == [id : {None}, addr : Addrs]
Steps == {"idle", "check", "validate", "lookup", "list", "read", "truncate",
          "write", "update", "send", "done"}

IdsIn(s) == {s[k].id : k \in DOMAIN s}
Stored(k) == {i \in Ids : store[k][i] # None}

-----------------------------------------------------------------------------
(* Initial state and the bookkeeping shared by the handlers                   *)

EmptyStore == [i \in Ids |-> None]

Init ==
    /\ up = TRUE
    /\ file = [k \in Kinds |-> <<>>]
    /\ damaged = {}
    /\ store = [k \in Kinds |-> EmptyStore]
    /\ dataOut = <<>>
    /\ pc = [h \in Handlers |-> "idle"]
    /\ op = [h \in Handlers |-> "list"]
    /\ kind = [h \in Handlers |-> "CONSUMER"]
    /\ key = [h \in Handlers |-> None]
    /\ rec = [h \in Handlers |-> None]
    /\ buf = [h \in Handlers |-> <<>>]
    /\ code = [h \in Handlers |-> 0]
    /\ born = [i \in Ids |-> None]
    /\ linked = {}
    /\ acked = {}
    /\ gone = {}
    /\ crashes = 0

Goto(h, step) == pc' = [pc EXCEPT ![h] = step]

\* The answer is on its way to the client; Finish ends the goroutine.
Reply(h, status) ==
    /\ Goto(h, "done")
    /\ code' = [code EXCEPT ![h] = status]

FirstStep(o) ==
    CASE o = "create"    -> "check"
      [] o = "list"      -> "list"
      [] o = "deleteAll" -> "truncate"
      [] OTHER           -> "lookup"

\* Bound: a create is accepted only while it is sure to find an unused id.
FreshIds == {i \in Ids : born[i] = None}
Creating == {h \in Handlers : pc[h] \in {"check", "validate"}}

Accept(h) ==
    /\ up
    /\ pc[h] = "idle"
    /\ \E r \in Requests :
        /\ op' = [op EXCEPT ![h] = r[1]]
        /\ kind' = [kind EXCEPT ![h] = r[2]]
        /\ Goto(h, FirstStep(r[1]))
        /\ IF r[1] = "create"
           THEN /\ Cardinality(Creating) < Cardinality(FreshIds)
                /\ \E a \in Addrs : rec' = [rec EXCEPT ![h] = [id |-> None, addr |-> a]]
           ELSE rec' = [rec EXCEPT ![h] = None]
        /\ IF r[1] \in {"get", "delete"}
           THEN \E i \in Ids : key' = [key EXCEPT ![h] = i]
           ELSE key' = [key EXCEPT ![h] = None]
    /\ UNCHANGED <<up, diskVars, store, dataOut, buf, code, historyVars, crashes>>

Finish(h) ==
    /\ pc[h] = "done"
    /\ Goto(h, "idle")
    /\ op' = [op EXCEPT ![h] = "list"]
    /\ kind' = [kind EXCEPT ![h] = "CONSUMER"]
    /\ key' = [key EXCEPT ![h] = None]
    /\ rec' = [rec EXCEPT ![h] = None]
    /\ buf' = [buf EXCEPT ![h] = <<>>]
    /\ code' = [code EXCEPT ![h] = 0]
    /\ UNCHANGED <<up, diskVars, store, dataOut, historyVars, crashes>>

-----------------------------------------------------------------------------
(* POST /publishers and POST /subscriptions                                   *)

\* The body cannot be read or is not JSON.
RejectBody(h) ==
    /\ pc[h] = "check"
    /\ Reply(h, 400)
    /\ UNCHANGED <<up, diskVars, store, dataOut, op, kind, key, rec, buf, historyVars, crashes>>

LookupInPublishersOnly(k, a) ==
    {store["PRODUCER"][i] : i \in {j \in Stored("PRODUCER") : store["PRODUCER"][j].addr = a}}

\* GetFromPubStore and GetFromSubStore: the records found under an address.
Registered(k, a) == {store[k][i] : i \in {j \in Stored(k) : store[k][j].addr = a}}

CheckDuplicate(h) ==
    /\ pc[h] = "check"
    /\ IF Registered(kind[h], rec[h].addr) # {}
       THEN /\ \E r \in Registered(kind[h], rec[h].addr) : rec' = [rec EXCEPT ![h] = r]
            /\ Goto(h, "send")
       ELSE /\ Goto(h, "validate")
            /\ UNCHANGED rec
    /\ UNCHANGED <<up, diskVars, store, dataOut, op, kind, key, buf, code, historyVars, crashes>>

\* The POST to the EndpointURI fails or is not answered with 204.
EndpointRefused(h) ==
    /\ pc[h] = "validate"
    /\ Reply(h, 400)
    /\ UNCHANGED <<up, diskVars, store, dataOut, op, kind, key, rec, buf, historyVars, crashes>>

\* No EndpointURI, or it answered 204: the record gets its id.
EndpointAccepted(h) ==
    /\ pc[h] = "validate"
    /\ \E i \in FreshIds :
        /\ rec' = [rec EXCEPT ![h].id = i]
        /\ born' = [born EXCEPT ![i] = [kind |-> kind[h], addr |-> rec[h].addr]]
    /\ Goto(h, "read")
    /\ UNCHANGED <<up, diskVars, store, dataOut, op, kind, key, buf, code, linked, acked, gone, crashes>>

-----------------------------------------------------------------------------
(* writeToFile, deleteFromFile and deleteAllFromFile: read the whole file,     *)
(* then ioutil.WriteFile, which truncates and writes in two system calls.      *)

DropLastOnly(s, i) == IF s = <<>> THEN s ELSE SubSeq(s, 1, Len(s) - 1)
CopyLastOnly(s, i) ==
    IF i \notin IdsIn(s) THEN s
    ELSE [s EXCEPT ![CHOOSE n \in DOMAIN s : s[n].id = i] = s[Len(s)]]

\* deleteFromFile: the last element replaces the one with the id.  The loop
\* stops at the first match, which DistinctIds shows to be the only one.
SwapDelete(s, i) ==
    IF i \notin IdsIn(s) THEN s
    ELSE LET k == CHOOSE n \in DOMAIN s : s[n].id = i
         IN  SubSeq([s EXCEPT ![k] = s[Len(s)]], 1, Len(s) - 1)

ContentFromSubFile(h) ==
    IF op[h] = "create" THEN Append(file["CONSUMER"], rec[h])
                        ELSE SwapDelete(file["CONSUMER"], rec[h].id)
ContentWithoutOthers(h) ==
    IF op[h] = "create" THEN <<rec[h]>> ELSE SwapDelete(file[kind[h]], rec[h].id)

\* The records the handler will write, from those it reads now.
NewContent(h) ==
    IF op[h] = "create" THEN Append(file[kind[h]], rec[h])
                        ELSE SwapDelete(file[kind[h]], rec[h].id)

\* Unmarshal fails on a damaged file and the request is refused.
ReadDamaged(h) ==
    /\ pc[h] = "read"
    /\ kind[h] \in damaged
    /\ Reply(h, 400)
    /\ UNCHANGED <<up, diskVars, store, dataOut, op, kind, key, rec, buf, historyVars, crashes>>

ReadFile(h) ==
    /\ pc[h] = "read"
    /\ kind[h] \notin damaged
    /\ buf' = [buf EXCEPT ![h] = NewContent(h)]
    /\ Goto(h, "truncate")
    /\ UNCHANGED <<up, diskVars, store, dataOut, op, kind, key, rec, code, historyVars, crashes>>

SkipTruncate(h) ==
    /\ pc[h] = "truncate"
    /\ Goto(h, IF op[h] = "deleteAll" THEN "update" ELSE "write")
    /\ UNCHANGED <<up, diskVars, store, dataOut, op, kind, key, rec, buf, code, historyVars, crashes>>

Truncate(h) ==
    /\ pc[h] = "truncate"
    /\ file' = [file EXCEPT ![kind[h]] = <<>>]
    /\ damaged' = damaged \ {kind[h]}
    /\ Goto(h, IF op[h] = "deleteAll" THEN "update" ELSE "write")
    /\ UNCHANGED <<up, store, dataOut, op, kind, key, rec, buf, code, historyVars, crashes>>

\* Each writer has its own offset 0: over the content of another writer the
\* shorter of the two leaves the tail of the longer, which is no JSON.
WriteFile(h) ==
    /\ pc[h] = "write"
    /\ \/ /\ file' = [file EXCEPT ![kind[h]] = buf[h]]
          /\ damaged' = damaged \ {kind[h]}
       \/ /\ file[kind[h]] \notin {<<>>, buf[h]} \/ kind[h] \in damaged
          /\ file' = [file EXCEPT ![kind[h]] = <<>>]
          /\ damaged' = damaged \cup {kind[h]}
    /\ Goto(h, "update")
    /\ UNCHANGED <<up, store, dataOut, op, kind, key, rec, buf, code, historyVars, crashes>>

PutInPublishers(k, r) == [store EXCEPT !["PRODUCER"] = [@ EXCEPT ![r.id] = r]]
PutShared(k, r) ==
    [store EXCEPT ![k] = [i \in Ids |-> IF i \in Stored(k) \cup {r.id} THEN r ELSE None]]

\* PubStore.Set and SubStore.Set
Put(k, r) == [store EXCEPT ![k] = [@ EXCEPT ![r.id] = r]]

\* The map follows the file: Set, Delete, or a new empty map.
SetAndAnswer(h) ==
    /\ pc[h] = "update"
    /\ op[h] = "create"
    /\ store' = Put(kind[h], rec[h])
    /\ Reply(h, 201)
    /\ UNCHANGED <<up, diskVars, dataOut, op, kind, key, rec, buf, historyVars, crashes>>

SetInStore(h) ==
    /\ pc[h] = "update"
    /\ op[h] = "create"
    /\ store' = Put(kind[h], rec[h])
    /\ Goto(h, "send")
    /\ UNCHANGED <<up, diskVars, dataOut, op, kind, key, rec, buf, code, historyVars, crashes>>

DeleteFromStore(h) ==
    /\ pc[h] = "update"
    /\ op[h] = "delete"
    /\ store' = [store EXCEPT ![kind[h]] = [@ EXCEPT ![key[h]] = None]]
    /\ gone' = gone \cup {key[h]}
    /\ Reply(h, 200)
    /\ UNCHANGED <<up, diskVars, dataOut, op, kind, key, rec, buf, born, linked, acked, crashes>>

ClearStore(h) ==
    /\ pc[h] = "update"
    /\ op[h] = "deleteAll"
    /\ store' = [store EXCEPT ![kind[h]] = EmptyStore]
    /\ gone' = gone \cup Stored(kind[h])
    /\ Reply(h, 200)
    /\ UNCHANGED <<up, diskVars, dataOut, op, kind, key, rec, buf, born, linked, acked, crashes>>

EnqueueAlways(k, a) == dataOut' = Append(dataOut, [kind |-> k, addr |-> a])
EnqueueBelowCap(k, a) == Len(dataOut) + 1 < QueueCap /\ EnqueueAlways(k, a)

\* A send on the buffered channel, which blocks while it is full.
Enqueue(k, a) ==
    /\ Len(dataOut) < QueueCap
    /\ dataOut' = Append(dataOut, [kind |-> k, addr |-> a])

\* sendOut, and the answer that follows it
SendOut(h) ==
    /\ pc[h] = "send"
    /\ Enqueue(kind[h], rec[h].addr)
    /\ linked' = linked \cup {<<kind[h], rec[h].addr>>}
    /\ acked' = acked \cup {rec[h].id}
    /\ Reply(h, 201)
    /\ UNCHANGED <<up, diskVars, store, op, kind, key, rec, buf, born, gone, crashes>>

-----------------------------------------------------------------------------
(* GET and DELETE                                                              *)

\* getSubscriptionByID, getPublisherByID
GetByID(h) ==
    /\ pc[h] = "lookup"
    /\ op[h] = "get"
    /\ rec' = [rec EXCEPT ![h] = store[kind[h]][key[h]]]
    /\ Reply(h, IF key[h] \in Stored(kind[h]) THEN 200 ELSE 400)
    /\ UNCHANGED <<up, diskVars, store, dataOut, op, kind, key, buf, historyVars, crashes>>

\* getPubSub answers with the bytes of the file, whatever they are.
ListAll(h) ==
    /\ pc[h] = "list"
    /\ Reply(h, 200)
    /\ UNCHANGED <<up, diskVars, store, dataOut, op, kind, key, rec, buf, historyVars, crashes>>

\* deletePublisher: the file entry removed is that of the record pointed to,
\* the map entry removed that of the id asked for.
DeletePublisher(h) ==
    /\ pc[h] = "lookup"
    /\ op[h] = "delete"
    /\ kind[h] = "PRODUCER"
    /\ IF key[h] \in Stored("PRODUCER")
       THEN /\ rec' = [rec EXCEPT ![h] = store["PRODUCER"][key[h]]]
            /\ Goto(h, "read")
            /\ UNCHANGED code
       ELSE /\ Reply(h, 400)
            /\ UNCHANGED rec
    /\ UNCHANGED <<up, diskVars, store, dataOut, op, kind, key, buf, historyVars, crashes>>

\* deleteSubscription looks for the variable "subscriotionid", which the route
\* "/subscriptions/{subscriptionid}" never sets: nothing is ever deleted.
DeleteSubscription(h) ==
    /\ pc[h] = "lookup"
    /\ op[h] = "delete"
    /\ kind[h] = "CONSUMER"
    /\ Reply(h, 400)
    /\ UNCHANGED <<up, diskVars, store, dataOut, op, kind, key, rec, buf, historyVars, crashes>>

-----------------------------------------------------------------------------
(* The process and its surroundings                                           *)

\* The AMQP router takes the next request off the channel.
RouterTake ==
    /\ dataOut # <<>>
    /\ dataOut' = Tail(dataOut)
    /\ UNCHANGED <<up, diskVars, store, handlerVars, historyVars, crashes>>

Crash ==
    /\ up
    /\ crashes < MaxCrashes
    /\ crashes' = crashes + 1
    /\ up' = FALSE
    /\ store' = [k \in Kinds |-> EmptyStore]
    /\ dataOut' = <<>>
    /\ linked' = {}
    /\ pc' = [h \in Handlers |-> "idle"]
    /\ op' = [h \in Handlers |-> "list"]
    /\ kind' = [h \in Handlers |-> "CONSUMER"]
    /\ key' = [h \in Handlers |-> None]
    /\ rec' = [h \in Handlers |-> None]
    /\ buf' = [h \in Handlers |-> <<>>]
    /\ code' = [h \in Handlers |-> 0]
    /\ UNCHANGED <<diskVars, born, acked, gone>>

LoadLastOnly(k) ==
    [i \in Ids |-> IF file[k] # <<>> /\ i = file[k][Len(file[k])].id
                   THEN file[k][Len(file[k])] ELSE None]

\* "for _, sub := range subs { Set(sub.SubscriptionID, &sub) }": under go 1.14
\* the loop has one variable, so every id ends up pointing to the last record.
Load(k) ==
    [i \in Ids |-> IF i \in IdsIn(file[k]) THEN file[k][Len(file[k])] ELSE None]

\* Start panics on a damaged file, after every restart of the container.
Start ==
    /\ ~up
    /\ damaged = {}
    /\ store' = [k \in Kinds |-> Load(k)]
    /\ up' = TRUE
    /\ UNCHANGED <<diskVars, dataOut, handlerVars, historyVars, crashes>>

\* What a handler does by itself once it has a request.
Serve(h) ==
    \/ CheckDuplicate(h) \/ EndpointRefused(h) \/ EndpointAccepted(h)
    \/ RejectBody(h)
    \/ ReadDamaged(h) \/ ReadFile(h) \/ Truncate(h) \/ WriteFile(h)
    \/ SetInStore(h) \/ DeleteFromStore(h) \/ ClearStore(h)
    \/ GetByID(h) \/ ListAll(h) \/ DeletePublisher(h) \/ DeleteSubscription(h)
    \/ Finish(h)

Next ==
    \/ \E h \in Handlers : Accept(h) \/ Serve(h) \/ SendOut(h)
    \/ RouterTake
    \/ Crash
    \/ Start

Spec == Init /\ [][Next]_vars

\* The Go scheduler runs every goroutine; goroutines blocked on a full channel
\* are woken in the order they blocked, so a send gets its turn (SF); the
\* router's loop keeps receiving and kubelet restarts the container.
Fairness ==
    /\ \A h \in Handlers : WF_vars(Serve(h)) /\ SF_vars(SendOut(h))
    /\ WF_vars(RouterTake)
    /\ WF_vars(Start)

FairSpec == Spec /\ Fairness

-----------------------------------------------------------------------------
(* Properties                                                                 *)

\* What the process shares between its handlers.
SharedOK ==
    /\ up \in BOOLEAN
    /\ file \in [Kinds -> Seq(Record)]
    /\ damaged \subseteq Kinds
    /\ store \in [Kinds -> [Ids -> Record \cup {None}]]
    /\ dataOut \in Seq([kind : Kinds, addr : Addrs])
    /\ Len(dataOut) <= QueueCap
    /\ crashes \in 0 .. MaxCrashes

HandlersOK ==
    /\ pc \in [Handlers -> Steps]
    /\ op \in [Handlers -> Operations]
    /\ kind \in [Handlers -> Kinds]
    /\ key \in [Handlers -> Ids \cup {None}]
    /\ rec \in [Handlers -> Record \cup Draft \cup {None}]
    /\ buf \in [Handlers -> Seq(Record)]
    /\ code \in [Handlers -> {0, 200, 201, 400}]

HistoryOK ==
    /\ born \in [Ids -> Origin \cup {None}]
    /\ linked \subseteq Kinds \X Addrs
    /\ acked \subseteq Ids
    /\ gone \subseteq Ids

\* Every variable stays within its type; in particular the channel never holds
\* more than its capacity, whoever sends.
TypeOK == SharedOK /\ HandlersOK /\ HistoryOK

\* Whatever handlers interleave and whenever the process dies, every record in
\* a file, in a map or in a slice about to be written is one that a create of
\* that same kind generated after its endpoint check, with the address it was
\* given: no overwriting, swap-delete or reload ever mixes publishers with
\* subscriptions or an id with a foreign address.
Genuine(k, r) == born[r.id] = [kind |-> k, addr |-> r.addr]

FilesGenuine == \A k \in Kinds : \A n \in DOMAIN file[k] : Genuine(k, file[k][n])
StoresGenuine == \A k \in Kinds : \A i \in Stored(k) : Genuine(k, store[k][i])
BufsGenuine == \A h \in Handlers : \A n \in DOMAIN buf[h] : Genuine(kind[h], buf[h][n])

Provenance == FilesGenuine /\ StoresGenuine /\ BufsGenuine

\* An id occurs at most once in a file, and in what a handler is about to write,
\* however stale the content it read: deleteFromFile, which stops at the first
\* match, leaves no second entry of the id it deletes.
Distinct(s) == \A m, n \in DOMAIN s : s[m].id = s[n].id => m = n

DistinctIds ==
    /\ \A k \in Kinds : Distinct(file[k])
    /\ \A h \in Handlers : Distinct(buf[h])

\* While creates are the only changes, the file never lists a registration the
\* map does not have, but for those whose handler is just about to Set them:
\* a stale read of the file can lose registrations, it cannot invent them.
NoPhantom ==
    \A k \in Kinds :
        IdsIn(file[k]) \subseteq
            Stored(k) \cup {rec[h].id : h \in {g \in Handlers : pc[g] = "update" /\ kind[g] = k}}

\* In a process that never restarted, a registration in the map has had its
\* AMQP sender or receiver requested from the router, or its handler is still
\* blocked on that request: none is left that events can never reach.
LinkRequested ==
    \A k \in Kinds : \A i \in Stored(k) :
        \/ <<k, store[k][i].addr>> \in linked
        \/ \E h \in Handlers : pc[h] = "send" /\ kind[h] = k /\ rec[h] = store[k][i]

\* GET by id answers with the registration of that id.
GetReturnsAskedId ==
    \A h \in Handlers :
        op[h] = "get" /\ pc[h] = "done" /\ code[h] = 200 => rec[h].id = key[h]

\* The records a map holds under their own ids.  A restart leaves every id of
\* the map with the last record of the file, and from then on deleting a
\* publisher takes another one's entry out of the file; subscriptions, which
\* are never deleted one by one, keep their ids in step all the same.
OwnRecords(k) ==
    crashes = 0 \/ k = "CONSUMER" \/ <<"delete", "PRODUCER">> \notin Requests

\* When no request is being served, the file and the map hold the same ids:
\* requests served one at a time keep it, across every restart too, for the
\* kinds whose records are still deleted under their own ids.
Quiet == up /\ \A h \in Handlers : pc[h] \in {"idle", "done"}

FileAndStoreAgree ==
    Quiet => \A k \in Kinds :
        OwnRecords(k) => k \notin damaged /\ IdsIn(file[k]) = Stored(k)

\* Requests served one at a time never leave a file that Start panics on, at
\* whatever step the process dies.
AlwaysLoadable == damaged = {}

\* While the process lives, a registration answered with 201 and not deleted
\* since is in its file whenever no request is being served: it was persisted.
AckedArePersisted ==
    Quiet /\ crashes = 0 => acked \ gone \subseteq UNION {IdsIn(file[k]) : k \in Kinds}

\* While the process lives, no two registrations of a kind have the same
\* address, in the map or in the file: the check for an existing registration
\* prevents duplicates.
NoDuplicates ==
    crashes = 0 =>
    \A k \in Kinds :
        /\ \A i, j \in Stored(k) : store[k][i].addr = store[k][j].addr => i = j
        /\ \A m, n \in DOMAIN file[k] : file[k][m].addr = file[k][n].addr => m = n

\* An id whose deletion was answered 200 is in neither file nor map again, nor
\* does a restart bring it back where records are deleted under their own ids.
GoneForGood ==
    \A k \in Kinds : OwnRecords(k) => gone \cap (IdsIn(file[k]) \cup Stored(k)) = {}

\* Every accepted request is answered, unless the process dies first.
Answered == \A h \in Handlers : pc[h] # "idle" ~> pc[h] = "idle"

\* A dead server comes back: no crash leaves a file that Start panics on.
Restarts == ~up ~> up

-----------------------------------------------------------------------------
(* The refinement mapping to what a client that makes one request at a time is  *)
(* promised: one handler h serves, and the process has not died yet.            *)

\* Between EndpointAccepted and Set, a create has its new record in hand.
Making(h) == op[h] = "create" /\ pc[h] \in {"read", "truncate", "write", "update"}

Registrations == [k \in Kinds |-> {store[k][i] : i \in Stored(k)}]

\* The ids of registrations: the one still being made has no part in it yet.
Given(h) ==
    {i \in Ids : born[i] # None /\ ~(Making(h) /\ rec[h].id = i)}

Phase(h) ==
    CASE pc[h] = "idle" -> "idle"
      [] pc[h] \in {"send", "done"} -> "answered"
      [] OTHER -> "serving"

Request(h) ==
    IF pc[h] = "idle" THEN None
    ELSE [op    |-> op[h],
          kind  |-> kind[h],
          about |-> IF op[h] = "create" THEN rec[h].addr ELSE key[h]]

\* What the client reads: the record, or the records of the file for a list
\* (nobody else writes the file between ListAll and Finish of the only handler).
Body(h) ==
    CASE code[h] # 400 /\ op[h] \in {"create", "get"} -> {rec[h]}
      [] code[h] # 400 /\ op[h] = "list" ->
            {file[kind[h]][n] : n \in DOMAIN file[kind[h]]}
      [] OTHER -> {}

Outcome(h) == IF code[h] = 400 THEN "refused" ELSE "done"

\* A create that is about to tell the router has already decided its answer.
Response(h) ==
    CASE pc[h] = "send" -> [outcome |-> "done", body |-> {rec[h]}]
      [] pc[h] = "done" -> [outcome |-> Outcome(h), body |-> Body(h)]
      [] OTHER -> None

Only == CHOOSE h \in Handlers : TRUE

ShownPhase == IF crashes = 0 THEN Phase(Only) ELSE "dead"
ShownRegs == IF crashes = 0 THEN Registrations ELSE [k \in Kinds |-> {}]
ShownUsed == IF crashes = 0 THEN Given(Only) ELSE {}
ShownRequest == IF crashes = 0 THEN Request(Only) ELSE None
ShownResponse == IF crashes = 0 THEN Response(Only) ELSE None

Service == INSTANCE RegistryService WITH
    phase  <- ShownPhase,
    regs   <- ShownRegs,
    used   <- ShownUsed,
    asked  <- ShownRequest,
    answer <- ShownResponse

\* Requests served one at a time each take effect at once: though a create or a
\* delete goes through the file in three steps and through the map in another,
\* no client can tell it from one step on one set of records; in particular a
\* list, read from the file, shows what a get, read from the map, finds.
ActsAtOnce == Service!Spec
=============================================================================
