--------------------------------- MODULE Pod ---------------------------------
(* A pod: an application, the vDU or the PTP application, and its sidecar, two  *)
(* containers that start in any order and are restarted by kubelet one without  *)
(* the other.  The application waits for its own server and for the sidecar's,  *)
(* creates its subscription or publisher once, while the sidecar checks the     *)
(* endpoint on the application's server, and then runs.  (cmd/vdu, cmd/ptp,     *)
(* pkg/cnf/routes, with SidecarProcess and LatencyReport.)                      *)
EXTENDS SidecarProcess, LatencyReport

VARIABLES
    app,        \* where the application's main is
    appServing, \* the application's server listens
    subscribed, \* the create was answered with 201
    handling    \* the POST of the main loop is with a handler of the application

appVars == <<app, appServing, subscribed, handling>>
vars == <<sidecarVars, reportVars, appVars>>

AppStages == {"down", "ownHealth", "sideHealth", "create", "creating", "ready", "running"}

Init ==
    /\ SidecarInit
    /\ ReportInit
    /\ app = "down"
    /\ appServing = FALSE
    /\ subscribed = FALSE
    /\ handling = FALSE

-----------------------------------------------------------------------------
(* The application's main                                                       *)

AppStep(from, to) ==
    /\ app = from
    /\ app' = to

AppBoot ==
    /\ AppStep("down", "ownHealth")
    /\ UNCHANGED <<appServing, subscribed, handling, sidecarVars, reportVars>>

\* The goroutine of startServer.
AppListen ==
    /\ app # "down"
    /\ ~appServing
    /\ appServing' = TRUE
    /\ UNCHANGED <<app, subscribed, handling, sidecarVars, reportVars>>

\* healthCheckAPIEndpoints: first its own server, then that of the sidecar.
OwnHealth ==
    /\ AppStep("ownHealth", "sideHealth")
    /\ appServing
    /\ UNCHANGED <<appServing, subscribed, handling, sidecarVars, reportVars>>

SideHealth ==
    /\ AppStep("sideHealth", "create")
    /\ serving
    /\ died' = FALSE
    /\ UNCHANGED <<appServing, subscribed, handling, reportVars, cfg, startVars,
                   routerVars, loopVars, restVars, boundVars>>

\* createSubscription, createPublisher: one POST, without a timeout.
Create ==
    /\ AppStep("create", "creating")
    /\ serving
    /\ req' = "received"
    /\ UNCHANGED <<appServing, subscribed, handling, reportVars, cfg, startVars,
                   routerVars, loopVars, registered, poll, died, boundVars>>

Created ==
    /\ AppStep("creating", IF cfg.app = "vdu" THEN "ready" ELSE "running")
    /\ req = "created"
    /\ req' = "none"
    /\ subscribed' = TRUE
    /\ UNCHANGED <<appServing, handling, reportVars, cfg, startVars, routerVars,
                   loopVars, registered, poll, died, boundVars>>

\* Answered with an error, or the sidecar is not there or died meanwhile.
NotCreated ==
    \/ app = "create" /\ ~serving
    \/ app = "creating" /\ req \in {"failed", "none"}

\* The vDU goes on as if nothing had happened.
GoOnWithout ==
    /\ cfg.app = "vdu"
    /\ NotCreated
    /\ app' = "ready"
    /\ req' = "none"
    /\ UNCHANGED <<appServing, subscribed, handling, reportVars, cfg, startVars,
                   routerVars, loopVars, registered, poll, died, boundVars>>

\* A process that ends takes its handlers along: the POST to it fails.
AppEnds ==
    /\ app' = "down"
    /\ appServing' = FALSE
    /\ subscribed' = FALSE
    /\ handling' = FALSE
    /\ busy' = IF handling THEN None ELSE busy
    /\ UNCHANGED answering
    /\ ReportLost

PtpGoesOnWithout ==
    /\ cfg.app = "ptp"
    /\ NotCreated
    /\ app' = "running"
    /\ req' = "none"
    /\ UNCHANGED <<appServing, subscribed, handling, reportVars, cfg, startVars,
                   routerVars, loopVars, registered, poll, died, boundVars>>

\* main of the PTP application dereferences PubStore[""], a nil pointer.
PtpPanics ==
    /\ cfg.app = "ptp"
    /\ NotCreated
    /\ AppEnds
    /\ req' = "none"
    /\ UNCHANGED <<cfg, startVars, routerVars, registered, poll, died, boundVars>>

\* The vDU's ticker asks for the status, even before latencies are collected.
AskStatus ==
    /\ cfg.app = "vdu"
    /\ app \in {"ready", "running"}
    /\ serving
    /\ ~poll
    /\ poll' = TRUE
    /\ UNCHANGED <<appVars, reportVars, cfg, startVars, routerVars, loopVars, registered,
                   req, died, boundVars>>

StartCollecting ==
    /\ AppStep("ready", "running")
    /\ Collect
    /\ UNCHANGED <<appServing, subscribed, handling, sidecarVars>>

\* GenerateEvents of the PTP application.
GenerateEvent ==
    /\ cfg.app = "ptp"
    /\ app = "running"
    /\ Publish
    /\ UNCHANGED <<appVars, reportVars>>

\* A rate of 0 is divided by, one little below gives Intn a negative bound.
GeneratorPanics ==
    /\ cfg.app = "ptp" /\ ~cfg.goodRate
    /\ app = "running"
    /\ AppEnds
    /\ UNCHANGED <<cfg, startVars, routerVars, restVars, died, boundVars>>

\* Had the collector a recover(), it would end alone.
VduRecovers ==
    /\ CountPanics
    /\ latencyIn' = Tail(latencyIn)
    /\ collecting' = FALSE
    /\ UNCHANGED <<waiting, sidecarVars, appVars>>

\* The latency of an event was negative.
VduPanics ==
    /\ CountPanics
    /\ AppEnds
    /\ UNCHANGED <<cfg, startVars, routerVars, restVars, died, boundVars>>

\* Bound: an application is killed when its create is not under way.
AppKilled ==
    /\ app # "down"
    /\ req = "none"
    /\ Fault
    /\ AppEnds
    /\ UNCHANGED <<cfg, startVars, routerVars, restVars, died, arrivals>>

\* log.Fatal: the application cannot listen, for HTTP or (vDU) for packets.
AppFatal ==
    /\ \/ app # "down" /\ ~appServing
       \/ cfg.app = "vdu" /\ cfg.handler = "SOCKET" /\ app \in {"ready", "running"}
    /\ Fault
    /\ AppEnds
    /\ UNCHANGED <<cfg, startVars, routerVars, restVars, died, arrivals>>

-----------------------------------------------------------------------------
(* The application's server                                                     *)

\* EventSubmit has read the event and comes to the send of its latency.
EventSubmit ==
    /\ busy = "event" /\ ~handling
    /\ appServing
    /\ \E l \in Latencies : Bring(l)
    /\ handling' = TRUE
    /\ UNCHANGED <<app, appServing, subscribed, sidecarVars>>

\* A packet reaches the vDU's UDP listener, when that is at its read.
PacketArrives ==
    /\ SendPacket
    /\ cfg.app = "vdu" /\ app \in {"ready", "running"} /\ waiting = <<>>
    /\ \E l \in Latencies : Bring(l)
    /\ UNCHANGED appVars

PacketLost == SendPacket /\ UNCHANGED <<appVars, reportVars>>

\* The latency is on its way, and the last handler waiting is that of the POST
\* under way: it answers 202.
LatencySubmitted ==
    /\ Submit
    /\ IF handling /\ Len(waiting) = 1
       THEN PostReturns /\ handling' = FALSE
       ELSE UNCHANGED <<sidecarVars, handling>>
    /\ UNCHANGED <<app, appServing, subscribed>>

LatencyCounted == Count /\ UNCHANGED <<sidecarVars, appVars>>

\* PublisherAck answers at once.
PublisherAck ==
    /\ busy = "ack"
    /\ appServing
    /\ PostReturns
    /\ UNCHANGED <<appVars, reportVars>>

PostRefused ==
    /\ busy # None /\ ~handling
    /\ ~appServing
    /\ PostReturns
    /\ UNCHANGED <<appVars, reportVars>>

\* The endpoint check, a POST without a body: both handlers answer 204.
EndpointAnswers ==
    /\ appServing
    /\ Persist
    /\ UNCHANGED <<appVars, reportVars>>

-----------------------------------------------------------------------------
Apart == UNCHANGED <<appVars, reportVars>>
SidecarDies ==
    /\ SidecarFatal \/ MapThrow \/ StatusPanics \/ SidecarKilled
    /\ handling' = FALSE
    /\ UNCHANGED <<app, appServing, subscribed, reportVars>>

Router == RouteLink \/ RouteEvent \/ Report
Loop == TakeRequest \/ TakeAnswer \/ StartPost
PollHandler == PollSent \/ PollAborted
CreateHandler == CheckKnown \/ CreateFails \/ AskForApp
SidecarRuns ==
    (Main \/ Listen \/ Router \/ Loop \/ StatusAnswered \/ PollHandler \/ CreateHandler) /\ Apart
AppMain ==
    \/ AppBoot \/ AppListen \/ OwnHealth \/ SideHealth \/ Create \/ Created
    \/ GoOnWithout \/ PtpPanics \/ StartCollecting
AppServer ==
    \/ EventSubmit \/ PacketArrives \/ PacketLost \/ LatencySubmitted \/ LatencyCounted
    \/ PublisherAck \/ PostRefused \/ EndpointAnswers

Next ==
    \/ SidecarRuns
    \/ SidecarDies
    \/ \E out \in Outputs : Receive(out) /\ Apart
    \/ AppMain
    \/ AppServer
    \/ VduPanics
    \/ AskStatus
    \/ GenerateEvent
    \/ GeneratorPanics
    \/ AppFatal
    \/ AppKilled

Spec == Init /\ [][Next]_vars

\* Goroutines run, each by itself; kubelet starts a container that ended; sends
\* blocked on DataIn are served in the order they came, so that creates made
\* again and again do not keep main from its turn (the strong fairness); a
\* handler that is served answers.  Of StatusAnswered and StatusPanics nothing is
\* assumed: they come after a command that processStatus waits for without limit.
Fairness ==
    /\ WF_vars(Main /\ Apart) /\ SF_vars((AskForRequests \/ AskForAnswers) /\ Apart)
    /\ WF_vars(Listen /\ Apart) /\ WF_vars(Router /\ Apart)
    /\ WF_vars(Loop /\ Apart) /\ WF_vars(PollHandler /\ Apart) /\ WF_vars(CreateHandler /\ Apart)
    /\ WF_vars(AppMain) /\ WF_vars(EventSubmit \/ PublisherAck \/ PostRefused)
    /\ WF_vars(PacketArrives \/ PacketLost) /\ WF_vars(LatencySubmitted)
    /\ WF_vars(LatencyCounted \/ VduPanics) /\ WF_vars(EndpointAnswers)

FairSpec == Spec /\ Fairness

-----------------------------------------------------------------------------
(* Properties                                                                   *)

\* Every variable stays within its type, the channels within their capacity.
TypeOK ==
    /\ SidecarTypeOK
    /\ waiting \in Seq(Latencies)
    /\ latencyIn \in Seq(Latencies) /\ Len(latencyIn) <= LatencyCap
    /\ collecting \in BOOLEAN
    /\ app \in AppStages
    /\ appServing \in BOOLEAN
    /\ subscribed \in BOOLEAN
    /\ handling \in BOOLEAN

\* An application that runs and was answered 201 is registered, and its link is
\* made, asked for or was refused, unless its sidecar has died since: also when
\* it is the second time it starts and the sidecar already knew it.
RunningIsReachable ==
    app = "running" /\ subscribed /\ ~died =>
        /\ registered
        /\ "app" \in links \cup refused \cup {dataIn[n] : n \in DOMAIN dataIn}

\* But for a kill and for a port it cannot listen on, an application dies only of
\* a latency below zero (vDU), or (PTP) of a rate the generator cannot live with
\* or a create that failed after the sidecar had been seen healthy: no latency,
\* however large, leaves the histogram.
AppDiesWithCause ==
    [][app # "down" /\ app' = "down" =>
          \/ faults' > faults
          \/ cfg.app = "vdu" /\ Head(latencyIn) < 0
          \/ cfg.app = "ptp" /\ app = "running" /\ ~cfg.goodRate
          \/ cfg.app = "ptp" /\ ~subscribed /\ (died \/ req = "failed")]_vars

\* A goroutine of processStatus finds a sender in the map, unless the sidecar has
\* both status roles: main has made it before the first request can come, and
\* nothing makes a new map after that.
AnswererHasSender ==
    answering > 0 /\ Cardinality(cfg.roles) < 2 => senders["answers"] # "none"

\* The loop does not look up the registry, whose map it reads without the lock,
\* while the one create of the pod is on its way to its Set.
LooksUpAlone ==
    req = "probe" =>
        \A n \in DOMAIN dataOut : dataOut[n] \notin {"event", "ack"}

\* An event published while the sidecar that answered 201 is alive is not
\* dropped, unless the link was refused.
DropsOnlyAfterDeath ==
    [][dataIn # <<>> /\ Head(dataIn) = "event" /\ "app" \notin links
       /\ dataIn' = Tail(dataIn) /\ side' # "down" => "app" \in refused]_vars

\* The POST of the main loop comes back, also while the vDU is starting, has
\* its latency channel full or dies: applications answer, so that the loop goes
\* on, which EventDelivery assumes of them.
PostsReturn == busy # None ~> busy = None

\* The pod comes up again and again, in whatever order its containers start and
\* die: the loop runs and so does the application.
PodComesUp == []<>(side = "loop" /\ app = "running")
=============================================================================
