# Verification of the cloud-events AMQP sidecar

TLA+ models of `aneeshkp/cloudevents-amqp`, the TLC runs that check them on small
instances and the TLAPS proofs about them. Paths such as `pkg/protocol/rest/rest.go`
are relative to the repository, which is under `src/`.

## 1. The system

An application (a vDU, a PTP daemon) never speaks AMQP. Next to it, in the same pod,
runs a *sidecar* (`cmd/sidecar`, `cmd/sidecar2`) with a REST server. Through it the
application registers publishers and subscriptions and publishes events; the sidecars
talk to each other over the AMQP router of the cluster (qpid-dispatch).

```
 application ── HTTP ──> REST handlers ── DataIn (100) ──> QDRRouter goroutine ──> AMQP
      ^                   │  maps, files                        │ SendTo goroutines
      │                   │  status listener                    │ receiver callbacks
      └── HTTP / UDP ── main loop <────── DataOut (100) ────────┘ <────────────── AMQP
```

### Inventory

| component | state | operations | interacts by |
|---|---|---|---|
| **REST registry** `pkg/protocol/rest`, `pkg/store` | `pub.json`, `sub.json`; maps `PublisherStore`, `SubscriptionStore` (lock taken by `Set`/`Delete` only) | create, get, list, delete, delete-all of both kinds; `Start` loads the files | goroutine per request; sends on `DataIn` |
| **Status request/reply** `getResourceStatus`, `pkg/types/status`, `processStatus`, `processSuccessStatus` | per request a channel of capacity 1; the map sequence id -> channel; the listener channel | GET /status/{sequenceid}; `SendToListener`, `SetChannel`, `GetChannel` | `Client.Send` to the other sidecar; answer via `DataOut` and main loop |
| **AMQP router** `pkg/protocol/qdr` | `Senders`, `Listeners` by address; `DataIn`, `DataOut` | `QDRRouter` on STATUS, CONSUMER, PRODUCER, EVENT; `SendTo`; receivers' callbacks | the two channels; AMQP |
| **Main loop** `cmd/sidecar/main.go` | none but what it is posting | take from `DataOut`; post to consumer or UDP socket; acknowledge to producer; status | `DataOut`; HTTP client without timeout |
| **Start-up** `main` | `StatusSenders` | order of `Start`, first requests, health check, sockets | all of the above |
| **Second sidecar** `cmd/sidecar2` | as the first | a copy with other ports, the opposite status role | as the first |
| **vDU application** `cmd/vdu`, `pkg/cnf/routes` | subscription id, latency channel, status loop counter | waits for both servers, creates its subscription once, consumes events, asks for status with ids 1, 2, ... | client of its sidecar, and server for it: `EventSubmit`, endpoint check |
| **PTP application, generator** `cmd/ptp`, `pkg/events`, `pkg/chain` | publisher map, counter to the next event, Markov state, `totalMsgSent` | waits for both servers, creates its publisher once, publishes mock events, reports their number | client of its sidecar, and server for it: `PublisherAck`, endpoint check |
| **Latency report** `pkg/report` | histogram of 1002 bins | `Collect`, `printReport` | channel of 10 |
| **PTP status socket** `pkg/socket` | none | answers with a constant table | only caller is dead code |
| **Configuration** `pkg/config` | none | reads a YAML file | |
| **Samples** `cmd/http/*`, `cmd/amqpconsumer` | none | stand-alone samples of the SDK | not deployed |

### What is hard in it, and what makes it correct

* **Registry.** Every request is a goroutine; the files are rewritten as a whole with no
  lock; file, map and router are changed one after another; a crash may fall between
  truncating a file and writing it. Correct means: a stored record is one that was created,
  ids are unique, what was acknowledged is persisted, file and map agree, the server always
  starts again, and an acknowledged registration gets its AMQP link.
* **Status.** Four goroutines and two processes take part in one answer; the two-second timer
  races the answer; the map of channels is never cleaned and is keyed by a number the client
  chose; the main loop blocks on the channel it found. Correct means: an answer goes to the
  request it belongs to, every request ends once, the main loop always returns.
* **Delivery.** Two bounded queues and a loop on each side: everyone may wait for everyone. The
  network may deliver to several, one or no receiver and lose the result. Links are asked for
  asynchronously and never removed. Correct means: no consumer is given an event twice or
  unasked, with whose data it is given it, an event is not dropped although its publisher was
  acknowledged, the queues drain. Receivers lose their connection; the UDP listener has one buffer.
* **Pod.** The sidecar's server answers before its main is ready; the applications wait for both
  servers, create once and never look again; kubelet restarts either container without the
  other; half of the errors are dropped and end in a nil dereference later. Correct means: the pod comes
  up whatever the order, an application dies only of a known cause, one that runs is
  registered, a status request finds its sender, and the POSTs the sidecars wait for return.
* **Generator.** A rate from the environment goes through two integer divisions and a random
  number; a second goroutine reads and resets the count. Correct means: the pace asked for, no death
  but of a bad rate, honest reports.

`PROJECT.json` lists the hazards one by one, at the line where each bites.

## 2. Modules

| module | models | extends |
|---|---|---|
| `RegistryService` | what the registry promises a client that makes one request at a time (abstract) | |
| `PubSubRegistry` | the registry: handlers, maps, files, queue, crash and `Start`; with one handler refines `RegistryService` | |
| `PubSubRegistryProofs` | its types, provenance, ids; the agreement of file and map with one handler | `PubSubRegistry`, `TLAPS` |
| `RegistryConcurrentProofs` | links, answers and file contents with any number of handlers | `PubSubRegistryProofs` |
| `RegistrySequentialProofs` | duplicates, deletions and persistence with one handler | `PubSubRegistryProofs` |
| `RegistryServiceProofs` | the refinement of `RegistryService` | `RegistrySequentialProofs` |
| `RequestReply` | what a status request promises its client (abstract) | |
| `StatusCheck` | the status request, detailed; refines `RequestReply` | |
| `StatusCheckProofs` | its theorems | `StatusCheck`, `TLAPS` |
| `QdrRouter` | routers of all sidecars and the network; what fills `DataIn` and empties `DataOut` is open | |
| `EventDelivery` | REST registrations, publishing over HTTP and UDP, main loops, restarts and lost receivers composed with `QdrRouter` | `QdrRouter` |
| `EventDeliveryProofs` | its theorems | `EventDelivery`, `TLAPS` |
| `LatencyReport` | the latency channel of the vDU and its collector | |
| `SidecarProcess` | one sidecar as a process: start-up, status roles, loop, what ends it | |
| `Pod` | the two applications, each with its sidecar: start order, health checks, deaths, restarts | `SidecarProcess`, `LatencyReport` |
| `PodProofs` | its theorems, those of its two parts included | `Pod`, `FiniteSetTheorems`, `TLAPS` |
| `EventGenerator` | `GenerateEvents`: ticker, Markov chain, counter, and the report that races the count | |
| `EventGeneratorProofs` | its theorems | `EventGenerator`, `TLAPS` |
| `MC*` | instances for TLC | the module of that name |

### PubSubRegistry

A handler is a process with a program counter `pc[h]`; each of its steps is one access to
shared state: a look at the map, reading the file, `ioutil.WriteFile` in its **two** steps
(`Truncate`, `WriteFile`), the change of the map, the send on `DataIn`. The local variables
that matter are `rec` (the record `sub`), `key` (the id in the path) and `buf` (the slice
`allSubs`). Two writers of one file have each their own offset; when a shorter text lands on
a longer one the rest stays and the file is no JSON any more: `damaged`. `damaged` makes every
later read fail (`ReadDamaged`) and makes `Start` panic. `Load` is what the loop
`for _, sub := range subs { Set(id, &sub) }` does under the go 1.14 of `go.mod`: one variable
for the whole loop, so that every id points to the **last** record.

A record is an id and an address; the other fields are carried along and no decision depends
on them but the endpoint check, whose outcomes are two actions. An absent EndpointURI is folded
into `EndpointAccepted`. The JSON texts `[]`, `null` and the empty file are one value: all are
read as no records. `RejectBody` stands for the reads and parses that fail before anything is
changed. `Crash` stands for every death of the process, including the runtime's throw "concurrent map
read and map write", to which unlocked reads of the maps expose it.

`RegistryService` is the promise to a client that waits for each answer: one set of records per kind, and each
request takes effect on it in one step, whose answer carries what the step saw or did: the record of a create or get,
all records for a list. There is no file in it and no map. `Service` in PubSubRegistry maps to it: the records are those
of the map (`Registrations`), the answer is what the handler has sent or, for a create waiting to tell the router, has
settled (`Response`), and the body of a list is what is in the *file* (`Body`). So `ActsAtOnce` says in
particular that list and get never disagree, whatever was created and deleted before. The promise ends (`Die`) with the
first death of the process, since `Load` then gives every id the last record. Where the documentation of the API and the
code disagree, the promise takes no side: a create of what is registered already may be refused (409, documented) or
answered with the record (the code), `CreateKnown`; a DELETE of one subscription may be done (204, documented) or refused
(the code), `Delete` and `RefuseDelete`, but not one and be told the other; and of a status code it only says whether the
request was done or refused. Section 5 lists these disagreements.

`born`, `linked`, `acked`, `gone` are history variables: no action's guard reads them but for
the choice of an unused id, which is what `uuid.New` provides.

### StatusCheck and RequestReply

`pc[r]` follows `getResourceStatus` for request r: register the channel (through the `Listen`
goroutine, hence `listener` and `store`), send, wait with a timer. `asked` and `answers` are the
events in the network and in the running callbacks; `main` is the send `dataCh <- d.Data` the
main loop is in. An undelivered result does not mean that nothing arrived: `Transmit` chooses
which responders get the event, `SendUndelivered` is possible whatever it chose. The channel of an
undelivered or rejected request is left open and in the map, as in the code; only `TimeOut`
closes it, and a send to a closed channel panics and is recovered (`DropOnClosed`).

An answer whose data Unmarshal refuses is not dropped: the loop logs the error and goes on with sequence id 0 (`SeqIn`,
`ZeroSeq`), which is also the id of every path that is no number. Which answers are so is a constant (`Unreadable`); it
includes those to a request the responder could not read, since it answers with id 0 itself. `MapThrow` is the end of the
process by the Go runtime, when `GetChannel` reads the map while `SetChannel` writes it: every request under
way is "aborted", channels and map are gone, and answers still to come meet the empty map of the next process.

`RequestReply` is the promise: a request is open, then answered *with the status obtained for
that request* or failed, never both, and eventually one of them; several may fail at once, with the process.
The mapping takes `pc` to the four states and `got` to the request the answer was made for.

### QdrRouter and EventDelivery

One goroutine per sidecar takes requests off `dataIn`: `TakeConsumer`, `TakeStatusRequest`,
`TakeProducer`, `TakeEvent`. `listeners[s][a]` is the sequence of callbacks of the receivers
started on an address, so that a second receiver would be visible. `sending[e]` follows one
event from its making (`Make`) through `SendTo`; `Report` and `PutOut` are the blocking sends on `DataOut`. `refused`
remembers links the connection did not give: the code logs and goes on. `BreakReceiver` ends a
receiver's goroutine and leaves its entry in `Listeners` ("ENDED"), so that nothing starts another.
The data of an event is abstracted to *whose* data it is (`body`): an event's, or `None` for bytes that
are no event's.

`EventDelivery` adds who uses the router. `Register` stands for create up to `Set` (the steps
inside it are PubSubRegistry's), `SendOut` for the queued request and the answer 201; between
the two a delete, another create or a crash may fall. `DeleteAll` stands for the deletions: what
delivery sees of them is that the registration is gone from the map and the link stays.
`Restart` reloads what `PubSubRegistry!Load` leaves of a file, per type the last record, and asks
for no link. `AskStatus` is main's request for its status receiver, and `Started` its place
before the loop: until then `DataOut` is not read although requests are already served. Events of
the STATUS callback reach no consumer here; what they do is StatusCheck's subject.

An event is published over HTTP (`Publish`) or as a packet: `ReadPacket` overwrites the buffer of the
sidecar's UDP listener and makes the event, `QueuePacket` sends it on `DataIn`. The event's data is a
slice of that buffer (SetData keeps a `[]byte` as it is), so what is encoded when `SendTo` runs, or read
when its report is taken, is what the buffer holds *then*: `Carried`. A later packet that was longer
fills the slice to its end, a shorter one leaves the tail of earlier ones (`None`), which Unmarshal may refuse
(`Unreadable`). `ReadGarbage` is a packet that is no event at all: nothing is made of it, but it has been read
into the buffer, over the event before it.

### SidecarProcess, LatencyReport and Pod

`side` is where main is: the `publish` role asks for the listener of requests, makes `StatusSenders` and
keeps the sender of the answers; the `check` role makes the map *again*, keeps its sender and asks for
the listener of answers; then healthChk waits for the process's own server, which `Listen` starts at any time
after `Boot`. The sender of the answers is kept under the package variable `statusCheckAddress`, which
nothing sets (the loop of the check role declares one of its own): `senders["answers"]`. `KeepSender` may be
refused: the error is ignored and the entry has no `Client`. A request for the status then ends in a nil
dereference: in a handler it is recovered (`PollAborted`). The loop leaves a request that came over AMQP to a
goroutine of `processStatus` (`TakeRequest`, counted by `answering`) and goes on; the goroutine answers (`StatusAnswered`)
or, without a sender, ends the process (`StatusPanics`), in either case after a command that may take any time. The
router is reduced to the links of a pod, the registry to its one registration, which survives in the file. What a
send reports is "ack" for a rejected event and "failed" for an undelivered one; both take a place in `dataOut`.

A sidecar ends in four ways. `SidecarKilled`. `StatusPanics`. `SidecarFatal`, the panics and `log.Fatal` of what
may fail: `Start` reading its files and `ListenAndServe` (`ServerFails`), the sockets of the handler SOCKET
(`SocketFails`), a client for a sender or receiver (`ClientFails`). And `MapThrow`, the throw of the Go runtime when one
goroutine reads a map that another writes: `StatusSenders` (`SendersRace`), the channels of status requests
(`StatusRace`) and the router's `Listeners` (`ListenersRace`). The registry's maps are not among them, because with one
registration the loop cannot look up what a create is writing: this is the invariant `LooksUpAlone`. With several it can,
and PubSubRegistry has the death as `Crash`.

`Pod` adds the application. `app` is where its main is. The vDU ignores a create that failed
(`GoOnWithout`), the PTP application dereferences a nil pointer (`PtpPanics`); neither creates again
before it is restarted. A create on a sidecar that knows the application asks for the link again
(`CheckKnown`). An application also ends by `log.Fatal` when it cannot listen (`AppFatal`), and the PTP application
by a rate its generator cannot live with (`GeneratorPanics`; `goodRate` stands for the rate, EventGenerator has which are
bad). `EventSubmit` blocks on the channel of latencies, `Submit` serves blocked senders in
order, and `Collect` starts only at the end of main: events that come before wait. `CountPanics` is an index
below 0: the clocks of two hosts differ. `cfg` takes the configurations of `Configs`, `DefaultConfig` is
what the binaries do without a file.

`died` is a history variable: the sidecar has died since the application last saw it alive. Events
published then are "stray": that these are dropped is by design of the code.

### EventGenerator

One action per step that another goroutine can see: the tick taken off the ticker's channel of one
(others are dropped while an event is posted), the POST with its outcome, the read and the write of
`totalMsgSent++`, and the report's `GetTotalMsgSent` and `ResetTotalMsgSent`. `TruncDiv` is Go's division,
towards zero, so that a rate far below zero gives the period 0, as does one far above. Any answer
counts as sent, also one that is not 202: httpEvent returns the outer `err`.

## 3. Runs

| run | instance | what it shows |
|---|---|---|
| `registry_concurrent` | 2 handlers, 2 addresses, 2 ids, all operations on both kinds, queue of 1, 1 crash | `TypeOK`, `Provenance`, `DistinctIds` whatever interleaves |
| `registry_creates` | 2 handlers, creates and gets, queue of 1, fair | `NoPhantom`, `LinkRequested`, `GetReturnsAskedId`, `Answered`: two handlers compete for one place in the queue |
| `registry_sequential` | 1 handler, 3 ids, all operations, 1 crash at any step, fair | `NoDuplicates`, `GoneForGood`, `FileAndStoreAgree`, `AckedArePersisted` hold without interleaving; `AlwaysLoadable`, `Restarts` across the crash; `ActsAtOnce`: until it, PubSubRegistry implements RegistryService |
| `status_promise` | 3 requests with ids of their own, one answer unreadable, 1 responder, the process may end in `MapThrow`, fair | `TypeOK`, `AnswersMatch`, `SendNeverBlocks`; `KeepsPromise`: StatusCheck implements RequestReply |
| `delivery_safety` | 2 sidecars (one by socket, one by HTTP), 2 addresses, 2 events, 3 registrations or deletions, 2 restarts or lost receivers, packets that are no events | `TypeOK`, `DeliveredOnce`, `NotUnasked`, `OwnContent`, `LinksFollow`, `NoSilentDrop` |
| `delivery_liveness` | 2 sidecars, a status listener, 2 events on one address, both queues of 1, fair | `LinksFollow`, `EventLeaves`, `OutputDrains` |
| `pod` | 6 deployments (both defaults, SOCKET, both roles, no role, a bad rate), queues and latency channel of 1, 3 events or messages, 2 faults, fair | `TypeOK`, `RunningIsReachable`, `AnswererHasSender`, `LooksUpAlone`, `AppDiesWithCause`, `DropsOnlyAfterDeath`, `PostsReturn`, `PodComesUp` |
| `generator` | 5 ticks to a second, 8 rates below, at and above the bad ones, 9 ticks | `TypeOK`, `DiesOnlyOfBadRate`, `Paced`, `ReportsHonest` |
| `registry_lost_update` | 2 handlers, creates and gets | **violates** `AckedArePersisted` |
| `registry_reload` | 1 handler, 1 crash, creates and gets | **violates** `GetReturnsAskedId` |
| `status_blocked` | 2 requests with paths that are no numbers, so both have id 0 | **violates** `LoopReturns` |
| `delivery_ack` | as `delivery_liveness` | **violates** `AckMeansAccepted` |

**Why the bounds are enough.** The queues have 100 places in the code and 1 or 2 here: a full
queue is the case that matters and the small one makes it common. Two handlers suffice for
every race in the registry, since each race is between a reader and one other writer. Two ids
separate the first, the last and the only element of a file, three the middle one. A
crash lets an aliased state be reloaded and saved again; after one, `GoneForGood` and `FileAndStoreAgree` speak of
publishers only if none is ever deleted (`OwnRecords`, see 5), `NoDuplicates` and
`AckedArePersisted` only of the time before it. In delivery, two sidecars
give a sender and a receiver that may be one and the same (the producer's sidecar also subscribes), three
requests give create, delete, create again on one address. `CHECK_DEADLOCK FALSE` is stated
where a bounded instance ends: no id left, all events over, no more arrivals or ticks, or (with shared
sequence ids) the main loop blocked for good, which is `status_blocked`'s finding; `registry_sequential` and
`status_promise` check deadlock, the latter with `Idle` as the only state where the instance is over.

In the pod, two faults are a death and a second one while the first is being repaired, or a refused
sender and another failure; the deaths without a fault (`StatusPanics`, `PtpPanics`, `VduPanics`, `GeneratorPanics`) come on
top. A file that Start cannot read is a fault like any other, hence at most two starts fail of it: a file that *stays*
damaged takes two writers, which is `registry_concurrent`'s subject, and `AlwaysLoadable` excludes it with one.  Bounds that are not constants: one resource name, hence one
status sender; one `GET /status` at a time; the vDU's UDP listener has one packet in hand;
an application is killed only while its create is not under way. In the generator, 5 ticks to a second give a period of
5, 2, 1 and 0 ticks, with odd halves; 9 ticks are two events even at the lowest rate. The proofs are for
any number.

**Fairness and its justification.** Handlers, router, main loop and callbacks are goroutines,
which Go's preemptive scheduler runs: weak fairness of their steps. Goroutines blocked on
a channel are queued first-in first-out by the runtime (`sendq`), so a sender gets its turn when room
comes again and again: strong fairness of `SendOut`, `SendToListener`, `PutOut`, and of the
callbacks of one sidecar together. `Client.Send` has a context of two seconds, the select a timer
of two: the outcome of a send, and `TimeOut`, are fair. `Start` is fair because kubelet restarts a
container. EventDelivery assumes that a consumer answers its POST, since the main loop's HTTP client
has no timeout. For the applications of this repository the `pod` run discharges the assumption: `PostsReturn` holds
with an application that may be starting, have a full latency channel or die (then the connection is
reset); for any other consumer it remains assumed. In `Pod` kubelet restarts both containers, and each goroutine, handler
and health check runs: weak fairness for each, and strong fairness for the two sends of main on `DataIn` (`AskForRequests`,
`AskForAnswers`), which are queued first-in first-out with those of the create's handler. Nothing is assumed of
`processStatus`: it waits without limit for the command it runs, so `PodComesUp` holds whether its panic comes early,
late or never. Not fair: arrival of requests and
messages, crashes, refusals, the vDU's status requests, the generator, the responder, and the network, which may lose
everything.

## 4. Proofs

`PubSubRegistryProofs`, for any number of handlers, addresses, ids, any mix of requests, any
queue capacity and number of crashes. The only assumptions are those PubSubRegistry declares
for its constants: a queue has at least one place, `None` is none of the values.

* `TypeCorrect`: `Spec => []TypeOK`. TypeOK alone is not inductive: that `rec[h]` is a record
  when it is written, stored or queued depends on where the handler is. `TypeInv` adds
  `LocalOK(h)`, what each step of a handler has in hand.
* `ProvenanceHolds`: `Spec => []Provenance`. `GenInv` adds that the record in a handler's hand is genuine too
  (`RecsGenuine`), for it is what files and maps are made of, and that an idle handler holds
  no buffer, which would change its meaning with the kind of the next request.
* `IdsStayDistinct`: `Spec => []DistinctIds`. `IdInv` adds that the id of a record on its way to the file is in no file
  (`NotInFiles`), in no other handler's buffer (`NotInBufs`) and in no other handler's hand
  (`HeldByOne`): a stale buffer may bring back what was deleted, but not an id twice.
* `SequentialLoadable`: with one handler, `[]AlwaysLoadable`: a file is damaged only by writing
  over another writer's content.
* `SequentialAgreement`: with one handler, `[]FileAndStoreAgree`: of subscriptions always, of
  publishers as long as there was no crash or if none is ever deleted. `AgreeInv` says for each step how far the file is ahead of the map
  (`Expected`, `AgreePhase`), so that it also holds where a crash falls.
* Lemmas: `SwapDeleteElements`, `SwapDeleteIds`, `AppendIds`: what deleteFromFile and the append of writeToFile do
  to the elements and the ids of a file, for every sequence of records.

`RegistryConcurrentProofs`, with the same assumptions and any number of handlers at once. `OthersKept` says that a
step of one handler leaves what the others have in hand; `MapShrinks` that deletions only take entries out.

* `LinksRequested`: `Spec => [](crashes = 0 => LinkRequested)`. Until the first crash only: `Start` fills the map
  and asks for no link. `LinkRequested` is inductive but for `up`, since no step but a crash takes a link away.
* `GetsAskedId`: `Spec => [](crashes = 0 => GetReturnsAskedId)`. `GetInv` adds that every record in the map is under
  its own id (`OwnKeys`), which `Start` breaks (`registry_reload`). It holds although a record may be deleted and another
  created while GET is served.
* `NothingInvented`: `OnlyCreates => (Spec => [](up => NoPhantom))`, across any number of crashes. `OnlyCreates` restricts
  the requests to create, get and list: a delete between another handler's read and write is overwritten, and what was deleted
  from the map comes back in the file. `SliceCovered` says for every stale slice in a handler's hand that each record in
  it but its own is in the map or in the hand of a handler about to `Set` it.

`RegistrySequentialProofs`, for one handler (`Handlers = {me}`), any addresses, ids, requests, capacity and number of crashes.
With two, `registry_lost_update` refutes the third, and the other two fail too (see 5): the hypothesis is what a client
that waits for each answer provides.

* `SequentialNoDuplicates`: `Spec => []NoDuplicates`. `NewInv` adds that the address of a record between the look at
  the map and `SetInStore` is in the map under no id (`Unlisted`). That the file follows is `SequentialAgreement`'s invariant.
* `SequentialGoneForGood`: `Spec => []GoneForGood`. `GoneInv` adds that the ids in a map were born for its kind, so that
  what is deleted from one does not touch the other; that the record on its way to the file was not deleted; and where
  a deletion is under way, that it takes out an id of the publishers.
* `SequentialPersistence`: `Spec => []AckedArePersisted`. `AckInv` follows an acknowledged id through the map; file and
  map agree when the server is quiet.

`RegistryServiceProofs`, for one handler as well:

* `ImplementsService`: `Spec => ActsAtOnce`, a refinement of the abstract `RegistryService!Spec`. The steps that answer
  are each a step of the service, by a lemma per step (`SetInStoreIsCreateNew`, `DeleteFromStoreIsDelete`, ...); the
  way through the file and the word to the router are unseen (`MiddleUnseen`, `RouterUnseen`); after the first crash
  nothing is seen any more (`DeadStaysDead`). It uses the invariants above: a create is new only by `Unlisted`; that a list
  read from the file is the set of records in the map takes `AgreePhase` for the ids and `GenInv` for the addresses
  (`FileHoldsRegistrations`). `HoldsInv` adds that a publisher being deleted stays in the map until the last step.

`StatusCheckProofs`, for any number of requests and responders, any assignment of sequence ids and
any capacities:

* `TypeCorrect`: `Spec => []TypeOK`, inductive as it is.
* `AnswersAlwaysMatch`: `Spec => []AnswersMatch`. `MatchInv` adds that a channel is registered
  under its own sequence id (`StoreMatches`), which is how the main loop finds it.
* `NeverBlocks`: `Spec => []SendNeverBlocks`, assuming that no sequence id is used twice
  (`OwnSeqs`), that one sidecar responds (`OneResponder`) and that nobody asks with id 0 where an answer may
  be unreadable (`ZeroUnused`). All are needed: without the first `status_blocked` refutes it, without the others two
  answers meet one channel.
  `OnceInv` says that an answer is in at most one of the places between the responder and the
  handler, and in none before the request was sent.
* `ImplementsPromise`: `Spec => Promise!SafeSpec`, assuming `OwnSeqs` and `ZeroUnused`: every step is a step of
  `RequestReply` or a stutter (`PromiseNext`). Only `TakeAnswer` needs an invariant, `MatchInv`.

`EventDeliveryProofs`, for any number of sidecars, addresses, events, registrations, restarts and lost
receivers and any capacity of the queues; the constants only have the assumptions EventDelivery declares:

* `TypeCorrect`: `Spec => []TypeOK`, inductive as it is.
* `OnlyAsked` and `ContentIsOwn`: `Spec => []NotUnasked` and `[]OwnContent`. `RightCopies` says of every
  place a copy can be in (network, callback, `DataOut`, main loop, consumer) that an event there was
  asked for with that sidecar and has its own data or what was in the buffer of its own listener.
* `AtMostOnce`: `Spec => []DeliveredOnce`. `SingleCopies` needs three things at once: an address has at
  most one receiver (`OneListener`), the request to send an event is in one queue, once (`QueuedOnce`), and
  on its way an event is in at most one place (`OnePlace`), in none before it is sent (`NotReached`).
* `DropsOnlyWithoutSender`: `Spec => NoSilentDrop`, an action property. `SendersInTime`: for every answered publisher
  the sender exists, was refused, or its request is queued; and it is queued *ahead of* each event
  published after the answer (`ReadyInOrder`). The first-in first-out order of `DataIn` is what the code rests on.
* `AnsweredHaveLinks`: `SeparateAddresses => (Spec => []LinksFollow)`. `Listeners` has one entry per
  address, so the first to ask decides whether events or status requests are received: the
  assumption is needed (`OfClients` carries it through queue and map).

`EventGeneratorProofs`, for any rates, any number of ticks in a second and any bound on them:

* `TypeCorrect`: `Spec => []TypeOK`. `TypeInv` adds that the rate is not 0 once the loop runs, for without
  it the period is no number.
* `DiesOnlyOfThose`: `Spec => []DiesOnlyOfBadRate`. `BadOnce` adds that at a bad rate nothing was posted while the
  generator waits. The lemma `Period` says where the period is below zero.
* `KeepsPace`: `Spec => []Paced`. `PaceInv` relates `posts`, `ticks` and `counter` in each phase
  (`AtFirst`, `Between`, `Posting`); the products need `OneMore`.
* `ReportsAreHonest`: `Spec => []ReportsHonest`. `CountInv` counts the event whose `++` is not yet
  written (`InFlight`).

`PodProofs`, for any set of configurations, any capacities, latencies and number of bins, and any number of arrivals and
faults; the constants have the assumptions of SidecarProcess and LatencyReport. What both containers do is in one
`Next`: lemmas say once what a step may do to one part of the state (`QueueStep`: the queue is lost, left alone, longer by a
request or shorter by one that was served; `OutStep`, `AnswerStep`, `RegistrationStep`, `AppFalls`, `ConfigStays`), and the invariants use those.

* `TypeCorrect`: `Spec => []TypeOK`. Not inductive: that no more rejections are to be reported than events were published needs
  the events still queued. `Counted` bounds the events before each place of the queue by a function, which needs no induction over
  the queue.
* `Reachable`: `Spec => []RunningIsReachable`, from `ReachInv`: `AppInv`, where the application's main is and what it has in hand (for
  instance no create under way unless it waits for one); `KnownInv`, that an answer means a registration; and `LinkInv`.
* `NoDropBeforeDeath`: `Spec => DropsOnlyAfterDeath`, an action property. `LinkAhead`: of every event in the queue, the application's
  link is made, refused, or queued *before* it.
* `AnswerersServed`: `Spec => []AnswererHasSender`. `RoleInv`: only a sidecar that publishes its status ever has a request for it
  on its way (`RequestInv`), and main has looked up its sender before it comes to its loop, unless the second role made
  a new map (`SenderInv`), which `BothRoles` excludes with one role.
* `LookupsApart`: `Spec => []LooksUpAlone`. `LookupInv`: until the registration is there, neither the link of the
  application nor a request for it exists, so that nothing of it can be put out; and the check of a create finds it
  once it is there.
* `AppDeathHasCause`: `Spec => AppDiesWithCause`, from `AppInv` and `BinBelow`: only a latency below 0 is out of the histogram.
  The ways an application may end are those of the action list above; the theorem is that nothing else ends it, in
  particular not a create that fails for the vDU, and not a failed create of a PTP application that was answered 201.

Model-checked only: liveness (`Answered`, `Restarts`, `EventLeaves`, `OutputDrains`, `PostsReturn`, `PodComesUp`,
the liveness half of `KeepsPromise`), which is out of the prover's reach: it needs fairness and ENABLED. Every invariant and
every action property of the passing runs is a theorem.

## 5. Where code and documentation disagree

With a run that shows it (the findings in `PROJECT.json`):

1. Two concurrent creates lose a registration that was answered 201 (`registry_lost_update`).
2. After a restart, GET by id answers with another subscription (`registry_reload`).
3. A sequence id used again can block the main loop, and with it all delivery, for ever (`status_blocked`).
4. A producer is told of success exactly when its event was rejected (`delivery_ack`).

Modelled as the code does it, without a run of its own:

* A create of what is registered already is answered 201 with the record (`createPubSub`); `routes.go:51` and
  `rest.go:233` say 409. `RegistryService!CreateKnown` allows both.
* A deletion that succeeds is answered 200, one of an unknown id 400; `rest.go:248` says 204 and 404, and `rest.go:245` says 404
  for a get of an unknown id, which is answered 400. Only done and refused are modelled.
* DELETE of one subscription reads the route variable `subscriotionid`, which no route sets, and
  always answers 400 (`routes.go:202`, `DeleteSubscription`), though `rest.go:248` promises 204 or 404.
* An answer that cannot be read goes to whoever asked with sequence id 0 (`main.go:194`, `SeqIn`), and so does the answer
  to any path that is no number (`routes.go:254`).
* Two concurrent creates of one address both pass the check at `routes.go:74`: `NoDuplicates`
  fails with two handlers.
* A delete-all between the file write and the `Set` of a create leaves the map with what the file has lost
  (`routes.go:227`): `FileAndStoreAgree` fails with two handlers.
* A crash between truncating and writing loses all registrations of the file:
  `AckedArePersisted` fails with one handler and a crash.
* After a restart, deleting a publisher removes the *last* record's file entry and the *asked*
  id's map entry: `FileAndStoreAgree` and `GoneForGood` need the exclusion made above.
* An answer that overtakes the registration of its channel is dropped and the request times
  out (`status.go:48`, `TakeStatus` with `to = None`).
* After one crash, the same makes a publisher that was deleted reappear and another disappear.
* A packet that arrives while an earlier event is queued or being sent replaces its data
  (`main.go:371`, `Carried`): consumers are given the later packet twice, or bytes that are none. `OwnContent` says what
  remains true.
* With both status roles the second `make` of `StatusSenders` loses the sender of the answers, and the first
  status request ends the sidecar (`main.go:109`, `StatusPanics`).
* A receiver whose connection broke stays in `Listeners`: creating the subscription again is answered 201
  and starts none (`qdr.go:95`, `HasEnded`).
* The generator is said to "send events between 1 to 100K" (`cmd/ptp/main.go:29`): one event per tick of a
  millisecond is the most it posts, at any rate above 1000 and at any below -1000 (`Paced`).
* A reset of `totalMsgSent` that falls into a `++` is undone, so events are reported twice (`raced`); an
  event refused by the sidecar counts as sent.

## 6. Not modelled, and the plan

Not modelled for good: samples, the PTP status socket (pure I/O or dead code); the reading of the YAML file;
wording of answers and logs; `printReport`, which only reads the histogram; `SendToCaller`, `Done` and the done channel of
`pkg/types/status`, `ReceiveAll`, `SendToAll`, `NewSenderReceiver`, `Action`, `Loop` and `DoAction` of the chain (no caller);
memory and descriptor growth.

Simplified: a delete of one publisher in EventDelivery (as `DeleteAll`); one address used for events *and* for
status (`LinksFollow` is about instances without); in `Pod` the details of registry, status request and
network, which have modules of their own; the vDU's sequence ids, which StatusCheck takes as given (`SeqOf`) and
`status_blocked` shares as a restarted vDU does.

What is left: `Address`, the round trip SetAddress/GetAddress as operators checked over bounded inputs.
