--------------------------- MODULE SidecarProcess ---------------------------
(* One sidecar as a process (cmd/sidecar and its copy cmd/sidecar2): how main   *)
(* starts, while the REST server is already answering, what its loop does with  *)
(* what the AMQP router puts out, and what ends the process.  The registry is   *)
(* reduced to the one registration of the application in the same pod, the      *)
(* router to the three links a pod has.  PubSubRegistry, StatusCheck and        *)
(* EventDelivery have the detail.                                               *)
EXTENDS Naturals, Sequences, FiniteSets

CONSTANTS
    Configs,     \* the configurations a pod may be started with
    InCap,       \* capacity of DataIn
    OutCap,      \* capacity of DataOut
    MaxArrivals, \* bound: events published by the pod and messages it receives
    MaxFaults,   \* bound: links and senders refused, requests failed, processes killed
    None         \* no POST under way

\* The application of the pod, the status roles of its sidecar (publishStatus,
\* enableStatusCheck), how events are handed over and whether the generator of
\* the PTP application can live with its rate (EventGenerator has which).
Config == [app : {"vdu", "ptp"}, roles : SUBSET {"publish", "check"}, handler : {"HTTP", "SOCKET"},
           goodRate : BOOLEAN]

\* Without a configuration file.
DefaultConfig(app) ==
    [app |-> app, roles |-> IF app = "vdu" THEN {"check"} ELSE {"publish"}, handler |-> "HTTP",
     goodRate |-> TRUE]

ASSUME SidecarAssumption ==
    /\ Configs \subseteq Config
    /\ InCap \in Nat \ {0}
    /\ OutCap \in Nat \ {0}
    /\ MaxArrivals \in Nat
    /\ MaxFaults \in Nat

VARIABLES
    cfg,        \* the configuration
    side,       \* where main is
    serving,    \* the REST server listens
    senders,    \* StatusSenders, for the answers ("") and for the status address
    dataIn,     \* requests queued to the router
    links,      \* the links the router has made
    refused,    \* history: the links refused since the process started
    reports,    \* events rejected or undelivered whose report is not yet put out
    dataOut,    \* what the router has put out
    busy,       \* the POST the main loop is waiting for
    answering,  \* the goroutines of processStatus
    registered, \* the application's registration is in the map and in the file
    req,        \* the handler of the application's create
    poll,       \* a handler of GET /status is at work
    died,       \* history: the process died since the application saw it healthy
                \* or was answered 201
    arrivals,   \* bound
    faults      \* bound

startVars == <<side, serving, senders>>
routerVars == <<dataIn, links, refused, reports, dataOut>>
loopVars == <<busy, answering>>
restVars == <<registered, req, poll>>
boundVars == <<arrivals, faults>>
sidecarVars == <<cfg, startVars, routerVars, loopVars, restVars, died, boundVars>>

Links == {"requests", "answers", "app"}

\* An event is stray if the process died after the application was answered.
EventKinds == {"event", "stray"}
Outputs == {"status", "answer", "event", "ack", "failed"}
Keys == {"answers", "status"}
Stages == {"down", "listener", "ownMap", "ownSender", "statusMap", "statusSender",
           "statusListener", "health", "loop"}
NoSenders == [k \in Keys |-> "none"]

SidecarInit ==
    /\ cfg \in Configs
    /\ side = "down"
    /\ serving = FALSE
    /\ senders = NoSenders
    /\ dataIn = <<>>
    /\ links = {}
    /\ refused = {}
    /\ reports = 0
    /\ dataOut = <<>>
    /\ busy = None
    /\ answering = 0
    /\ registered = FALSE
    /\ req = "none"
    /\ poll = FALSE
    /\ died = FALSE
    /\ arrivals = 0
    /\ faults = 0

Fault == faults < MaxFaults /\ faults' = faults + 1
Arrival == arrivals < MaxArrivals /\ arrivals' = arrivals + 1

PutAlways(q, cap, x, q1) == q1 = Append(q, x)

\* A send on a buffered channel q, which becomes q1.
Put(q, cap, x, q1) ==
    /\ Len(q) < cap
    /\ q1 = Append(q, x)

-----------------------------------------------------------------------------
(* main, up to its loop                                                         *)

FirstCheckStage == IF "check" \in cfg.roles THEN "statusMap" ELSE "health"
FirstStage == IF "publish" \in cfg.roles THEN "listener" ELSE FirstCheckStage

\* The container is started; the goroutine of the server is on its way.
Boot ==
    /\ side = "down"
    /\ side' = FirstStage
    /\ UNCHANGED <<cfg, serving, senders, routerVars, loopVars, restVars, died, boundVars>>

ListenAfterLoop ==
    /\ side = "loop"
    /\ ~serving
    /\ serving' = TRUE
    /\ UNCHANGED <<cfg, side, senders, routerVars, loopVars, restVars, died, boundVars>>

\* server.Start, in its goroutine, has read the files and listens.
Listen ==
    /\ side # "down"
    /\ ~serving
    /\ serving' = TRUE
    /\ UNCHANGED <<cfg, side, senders, routerVars, loopVars, restVars, died, boundVars>>

\* publishStatus: ask the router for the listener of status requests,
AskForRequests ==
    /\ side = "listener"
    /\ Put(dataIn, InCap, "requests", dataIn')
    /\ side' = "ownMap"
    /\ UNCHANGED <<cfg, serving, senders, links, refused, reports, dataOut, loopVars, restVars, died, boundVars>>

MakeSenders(from, to) ==
    /\ side = from
    /\ senders' = NoSenders
    /\ side' = to
    /\ UNCHANGED <<cfg, serving, routerVars, loopVars, restVars, died, boundVars>>

\* The error of NewSender is ignored: what is kept then has no Client.
KeepSender(from, key, to) ==
    /\ side = from
    /\ \/ senders' = [senders EXCEPT ![key] = "ok"] /\ UNCHANGED faults
       \/ senders' = [senders EXCEPT ![key] = "refused"] /\ Fault
    /\ side' = to
    /\ UNCHANGED <<cfg, serving, routerVars, loopVars, restVars, died, arrivals>>

\* the map of senders, and the sender of the answers, under the address in the
\* variable statusCheckAddress of the package, which nothing ever sets.
MakeOwnSenders == MakeSenders("ownMap", "ownSender")

KeepOwnUnderStatus == KeepSender("ownSender", "status", FirstCheckStage)
KeepOwnSender == KeepSender("ownSender", "answers", FirstCheckStage)

\* enableStatusCheck: a new map, the sender to the status address,
MakeStatusSenders == MakeSenders("statusMap", "statusSender")
KeepStatusSender == KeepSender("statusSender", "status", "statusListener")

\* and the listener of the answers.
AskForAnswers ==
    /\ side = "statusListener"
    /\ Put(dataIn, InCap, "answers", dataIn')
    /\ side' = "health"
    /\ UNCHANGED <<cfg, serving, senders, links, refused, reports, dataOut, loopVars, restVars, died, boundVars>>

\* healthChk asks the process's own server until it answers.
HealthChk ==
    /\ side = "health"
    /\ serving
    /\ side' = "loop"
    /\ UNCHANGED <<cfg, serving, senders, routerVars, loopVars, restVars, died, boundVars>>

Main ==
    \/ Boot \/ AskForRequests \/ MakeOwnSenders \/ KeepOwnSender
    \/ MakeStatusSenders \/ KeepStatusSender \/ AskForAnswers \/ HealthChk

\* The process ends; the file stays.  What else changes is up to the caller.
SidecarEnds ==
    /\ side' = "down"
    /\ serving' = FALSE
    /\ senders' = NoSenders
    /\ dataIn' = <<>>
    /\ links' = {}
    /\ refused' = {}
    /\ reports' = 0
    /\ dataOut' = <<>>
    /\ busy' = None
    /\ answering' = 0
    /\ req' = "none"
    /\ poll' = FALSE
    /\ died' = TRUE
    /\ UNCHANGED <<cfg, registered>>

SidecarKilled ==
    /\ side # "down"
    /\ Fault
    /\ SidecarEnds
    /\ UNCHANGED arrivals

\* server.Start panics if it cannot read a file, and ends the process if it
\* cannot listen.
ServerFails == side # "down" /\ ~serving

\* The sockets of the handler SOCKET, which main and a goroutine of it open
\* between healthChk and the loop.
SocketFails == cfg.handler = "SOCKET" /\ side = "loop"

\* A client for a sender or a receiver: of the router, or of main.
ClientFails ==
    \/ dataIn # <<>> /\ Head(dataIn) \in Links \ links
    \/ side \in {"ownSender", "statusSender"}

\* log.Fatal, or a panic.
SidecarFatal ==
    /\ ServerFails \/ SocketFails \/ ClientFails
    /\ Fault
    /\ SidecarEnds
    /\ UNCHANGED arrivals

-----------------------------------------------------------------------------
(* GET /status, which the vDU asks for every second                             *)

\* The handler finds a sender in the map; StatusCheck has what follows.
PollSent ==
    /\ poll
    /\ senders["status"] = "ok"
    /\ poll' = FALSE
    /\ UNCHANGED <<cfg, startVars, routerVars, loopVars, registered, req, died, boundVars>>

\* No sender, or none with a Client: the nil dereference is recovered by
\* net/http, which closes the connection.
PollAborted ==
    /\ poll
    /\ senders["status"] # "ok"
    /\ poll' = FALSE
    /\ UNCHANGED <<cfg, startVars, routerVars, loopVars, registered, req, died, boundVars>>

-----------------------------------------------------------------------------
(* The router                                                                   *)

RouteLink ==
    /\ dataIn # <<>>
    /\ Head(dataIn) \in Links
    /\ dataIn' = Tail(dataIn)
    /\ \/ links' = links \cup {Head(dataIn)} /\ UNCHANGED <<refused, faults>>
       \/ /\ Head(dataIn) \notin links
          /\ refused' = refused \cup {Head(dataIn)}
          /\ Fault
          /\ UNCHANGED links
    /\ UNCHANGED <<cfg, startVars, reports, dataOut, loopVars, restVars, died, arrivals>>

\* An event is sent if there is a sender, and dropped otherwise.  What is not
\* accepted is to be reported.
RouteEvent ==
    /\ dataIn # <<>>
    /\ Head(dataIn) \in EventKinds
    /\ dataIn' = Tail(dataIn)
    /\ reports' \in IF "app" \in links THEN {reports, reports + 1} ELSE {reports}
    /\ UNCHANGED <<cfg, startVars, links, refused, dataOut, loopVars, restVars, died, boundVars>>

\* The callbacks put out what the links bring.
Receive(out) ==
    /\ \/ out = "status" /\ "requests" \in links
       \/ out = "answer" /\ "answers" \in links
       \/ out = "event" /\ "app" \in links /\ cfg.app = "vdu"
    /\ Arrival
    /\ Put(dataOut, OutCap, out, dataOut')
    /\ UNCHANGED <<cfg, startVars, dataIn, links, refused, reports, loopVars, restVars, died, faults>>

\* The goroutine of a send: what is rejected is put out as SUCCEED, what is
\* undelivered as FAILED.
Report ==
    /\ reports > 0
    /\ reports' = reports - 1
    /\ \E out \in {"ack", "failed"} : Put(dataOut, OutCap, out, dataOut')
    /\ UNCHANGED <<cfg, startVars, dataIn, links, refused, loopVars, restVars, died, boundVars>>

-----------------------------------------------------------------------------
(* The loop                                                                     *)

TakeOutput(outs) ==
    /\ side = "loop"
    /\ busy = None
    /\ dataOut # <<>>
    /\ Head(dataOut) \in outs

Taken == dataOut' = Tail(dataOut) /\ UNCHANGED <<dataIn, links, refused, reports>>

\* A request is left to a goroutine, processStatus.
TakeRequest ==
    /\ TakeOutput({"status"})
    /\ Taken
    /\ answering' = answering + 1
    /\ UNCHANGED <<cfg, startVars, busy, restVars, died, boundVars>>

\* processSuccessStatus hands an answer to its handler, or drops it; and
\* processProducer does nothing for a send that FAILED.
TakeAnswer ==
    /\ TakeOutput({"answer", "failed"})
    /\ Taken
    /\ UNCHANGED <<cfg, startVars, loopVars, restVars, died, boundVars>>

\* postEventsToConsumer, processProducer: found in the registry, it is posted.
StartPost ==
    /\ TakeOutput({"event", "ack"})
    /\ Head(dataOut) = "event" => cfg.handler = "HTTP"
    /\ Taken
    /\ busy' = IF registered THEN Head(dataOut) ELSE None
    /\ UNCHANGED <<cfg, startVars, answering, restVars, died, boundVars>>

\* socketEventToConsumer: a packet, which nobody waits for.
SendPacket ==
    /\ TakeOutput({"event"})
    /\ cfg.handler = "SOCKET"
    /\ Taken
    /\ UNCHANGED <<cfg, startVars, loopVars, restVars, died, boundVars>>

PostReturns ==
    /\ busy' = None
    /\ UNCHANGED <<cfg, startVars, routerVars, answering, restVars, died, boundVars>>

\* processStatus has asked ptp4l, however long that took, and answers.
StatusAnswered ==
    /\ answering > 0
    /\ senders["answers"] = "ok"
    /\ answering' = answering - 1
    /\ UNCHANGED <<cfg, startVars, routerVars, busy, restVars, died, boundVars>>

\* In a goroutine of main nothing recovers the nil dereference.
StatusPanics ==
    /\ answering > 0
    /\ senders["answers"] # "ok"
    /\ SidecarEnds
    /\ UNCHANGED boundVars

-----------------------------------------------------------------------------
(* Maps read by one goroutine while another writes them, without the lock: the  *)
(* Go runtime may end the process.  The maps of the registry are not among them *)
(* here: LooksUpAlone in Pod.                                                   *)

\* StatusSenders: GET /status while main starts.
SendersRace == poll /\ side \in {"ownSender", "statusSender"}

\* The channels of the requests: Listen of a GET /status and GetChannel of the
\* loop.
StatusRace == poll /\ side = "loop" /\ busy = None /\ dataOut # <<>> /\ Head(dataOut) = "answer"

Receivers == {"requests", "answers"} \cup IF cfg.app = "vdu" THEN {"app"} ELSE {}

\* Listeners: the goroutine of a new receiver, while the router makes another.
ListenersRace ==
    /\ dataIn # <<>>
    /\ Head(dataIn) \in Receivers \ links
    /\ Receivers \cap links # {}

MapThrow ==
    /\ SendersRace \/ StatusRace \/ ListenersRace
    /\ Fault
    /\ SidecarEnds
    /\ UNCHANGED arrivals

-----------------------------------------------------------------------------
(* POST /subscriptions, POST /publishers                                        *)

SkipKnown ==
    /\ req = "received"
    /\ req' = IF registered THEN "created" ELSE "probe"
    /\ died' = (died /\ ~registered)
    /\ UNCHANGED <<cfg, startVars, routerVars, loopVars, registered, poll, boundVars>>

RecheckKnown ==
    /\ req = "received"
    /\ req' = "probe"
    /\ UNCHANGED <<cfg, startVars, routerVars, loopVars, registered, poll, died, boundVars>>

\* An application that is already registered has its link asked for again.
CheckKnown ==
    /\ req = "received"
    /\ req' = IF registered THEN "send" ELSE "probe"
    /\ UNCHANGED <<cfg, startVars, routerVars, loopVars, registered, poll, died, boundVars>>

\* The endpoint check, the file or the map fails.
CreateFails ==
    /\ req = "probe"
    /\ Fault
    /\ req' = "failed"
    /\ UNCHANGED <<cfg, startVars, routerVars, loopVars, registered, poll, died, arrivals>>

\* The endpoint answered; writeToFile and Set.
Persist ==
    /\ req = "probe"
    /\ registered' = TRUE
    /\ req' = "send"
    /\ UNCHANGED <<cfg, startVars, routerVars, loopVars, poll, died, boundVars>>

\* sendOut, and the answer 201
AskForApp ==
    /\ req = "send"
    /\ Put(dataIn, InCap, "app", dataIn')
    /\ req' = "created"
    /\ died' = FALSE
    /\ UNCHANGED <<cfg, startVars, links, refused, reports, dataOut, loopVars, registered, poll, boundVars>>

\* publishEvent, or the UDP listener, which is there from the loop on.
Publish ==
    /\ IF cfg.handler = "HTTP" THEN serving ELSE side = "loop"
    /\ Arrival
    /\ Put(dataIn, InCap, IF died THEN "stray" ELSE "event", dataIn')
    /\ UNCHANGED <<cfg, startVars, links, refused, reports, dataOut, loopVars, restVars, died, faults>>

SidecarTypeOK ==
    /\ cfg \in Configs
    /\ side \in Stages
    /\ serving \in BOOLEAN
    /\ senders \in [Keys -> {"none", "ok", "refused"}]
    /\ dataIn \in Seq(Links \cup EventKinds) /\ Len(dataIn) <= InCap
    /\ links \subseteq Links
    /\ refused \subseteq Links
    /\ reports \in 0 .. MaxArrivals
    /\ dataOut \in Seq(Outputs) /\ Len(dataOut) <= OutCap
    /\ busy \in {None, "event", "ack"}
    /\ answering \in Nat
    /\ registered \in BOOLEAN
    /\ req \in {"none", "received", "probe", "send", "created", "failed"}
    /\ poll \in BOOLEAN
    /\ died \in BOOLEAN
    /\ arrivals \in 0 .. MaxArrivals
    /\ faults \in 0 .. MaxFaults
=============================================================================
