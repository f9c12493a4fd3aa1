------------------------------ MODULE PodProofs ------------------------------
(* What Pod guarantees for any configurations, any capacity of the channels,   *)
(* any latencies, any number of bins, of messages and of failures.             *)
EXTENDS Pod, FiniteSetTheorems, TLAPS

In(q) == {q[n] : n \in DOMAIN q}

\* The ways a sidecar dies differ in the guard alone.
LEMMA SidecarDeath ==
    SidecarDies => /\ SidecarEnds
                   /\ handling' = FALSE
                   /\ UNCHANGED <<arrivals, app, appServing, subscribed, reportVars>>
                   /\ UNCHANGED faults \/ Fault
BY DEF SidecarDies, SidecarFatal, MapThrow, StatusPanics, SidecarKilled, boundVars

-----------------------------------------------------------------------------
(* The reports.  A report is due for an event that was published, so reports   *)
(* stays below arrivals.  This is not inductive: the events still in DataIn    *)
(* count.  c[n] bounds the events published before the n-th entry of the queue:*)
(* it starts no lower than reports and grows with every event.                 *)

Counted ==
    \E c \in [1 .. Len(dataIn) + 1 -> 0 .. arrivals] :
        /\ reports <= c[1]
        /\ \A n \in 1 .. Len(dataIn) :
               /\ c[n] <= c[n + 1]
               /\ dataIn[n] \in EventKinds => c[n] < c[n + 1]

QueueOK ==
    /\ dataIn \in Seq(Links \cup EventKinds)
    /\ reports \in Nat
    /\ arrivals \in Nat

LEMMA CountKept ==
    ASSUME QueueOK, QueueOK', Counted, dataIn' = dataIn, reports' <= reports, arrivals <= arrivals'
    PROVE  Counted'
<1>1. PICK c \in [1 .. Len(dataIn) + 1 -> 0 .. arrivals] :
          /\ reports <= c[1]
          /\ \A n \in 1 .. Len(dataIn) :
                 /\ c[n] <= c[n + 1]
                 /\ dataIn[n] \in EventKinds => c[n] < c[n + 1]
    BY DEF Counted
<1>2. c \in [1 .. Len(dataIn') + 1 -> 0 .. arrivals']
    BY DEF QueueOK
<1>3. reports' <= c[1]
    BY <1>1 DEF QueueOK
<1> QED
    BY <1>1, <1>2, <1>3 DEF Counted

\* An event that is queued counts one arrival more.
LEMMA CountQueued ==
    ASSUME QueueOK, QueueOK', Counted, NEW x, dataIn' = Append(dataIn, x), reports' = reports,
           arrivals <= arrivals', x \in EventKinds => arrivals < arrivals'
    PROVE  Counted'
<1>1. PICK c \in [1 .. Len(dataIn) + 1 -> 0 .. arrivals] :
          /\ reports <= c[1]
          /\ \A n \in 1 .. Len(dataIn) :
                 /\ c[n] <= c[n + 1]
                 /\ dataIn[n] \in EventKinds => c[n] < c[n + 1]
    BY DEF Counted
<1> DEFINE d == [n \in 1 .. Len(dataIn') + 1 |-> IF n <= Len(dataIn) + 1 THEN c[n] ELSE arrivals']
<1>2. Len(dataIn) \in Nat /\ Len(dataIn') = Len(dataIn) + 1
    BY DEF QueueOK
<1>3. d \in [1 .. Len(dataIn') + 1 -> 0 .. arrivals']
    BY <1>2 DEF QueueOK
<1>4. reports' <= d[1]
    BY <1>1, <1>2
<1>5. ASSUME NEW n \in 1 .. Len(dataIn')
      PROVE  d[n] <= d[n + 1] /\ (dataIn'[n] \in EventKinds => d[n] < d[n + 1])
    <2>1. CASE n <= Len(dataIn)
        <3>1. d[n] = c[n] /\ d[n + 1] = c[n + 1] /\ dataIn'[n] = dataIn[n]
            BY <1>2, <2>1 DEF QueueOK
        <3> QED BY <1>1, <1>2, <2>1, <3>1
    <2>2. CASE n = Len(dataIn) + 1
        <3>1. d[n] = c[n] /\ d[n + 1] = arrivals' /\ dataIn'[n] = x
            BY <1>2, <2>2 DEF QueueOK
        <3>2. c[n] \in 0 .. arrivals
            BY <1>2, <2>2
        <3> QED BY <3>1, <3>2 DEF QueueOK
    <2> QED BY <1>2, <2>1, <2>2
<1> HIDE DEF d
<1> QED
    BY <1>3, <1>4, <1>5 DEF Counted

LEMMA CountTaken ==
    ASSUME QueueOK, QueueOK', Counted, dataIn # <<>>, dataIn' = Tail(dataIn), arrivals' = arrivals,
           reports' <= IF Head(dataIn) \in EventKinds THEN reports + 1 ELSE reports
    PROVE  Counted'
<1>1. PICK c \in [1 .. Len(dataIn) + 1 -> 0 .. arrivals] :
          /\ reports <= c[1]
          /\ \A n \in 1 .. Len(dataIn) :
                 /\ c[n] <= c[n + 1]
                 /\ dataIn[n] \in EventKinds => c[n] < c[n + 1]
    BY DEF Counted
<1> DEFINE d == [n \in 1 .. Len(dataIn') + 1 |-> c[n + 1]]
<1>2. Len(dataIn) \in Nat \ {0} /\ Len(dataIn') = Len(dataIn) - 1 /\ Head(dataIn) = dataIn[1]
    BY DEF QueueOK
<1>3. d \in [1 .. Len(dataIn') + 1 -> 0 .. arrivals']
    BY <1>2
<1>4. reports' <= d[1]
    <2>1. c[1] \in Nat /\ c[2] \in Nat /\ d[1] = c[2]
        BY <1>2 DEF QueueOK
    <2>2. c[1] <= c[2] /\ (Head(dataIn) \in EventKinds => c[1] < c[2])
        BY <1>1, <1>2
    <2> QED BY <1>1, <2>1, <2>2 DEF QueueOK
<1>5. ASSUME NEW n \in 1 .. Len(dataIn')
      PROVE  d[n] <= d[n + 1] /\ (dataIn'[n] \in EventKinds => d[n] < d[n + 1])
    <2>1. n + 1 \in 1 .. Len(dataIn) /\ dataIn'[n] = dataIn[n + 1]
        BY <1>2 DEF QueueOK
    <2>2. d[n] = c[n + 1] /\ d[n + 1] = c[(n + 1) + 1]
        BY <1>2
    <2> QED BY <1>1, <2>1, <2>2
<1> HIDE DEF d
<1> QED
    BY <1>3, <1>4, <1>5 DEF Counted

LEMMA CountNothing ==
    ASSUME QueueOK', dataIn' = <<>>, reports' = 0
    PROVE  Counted'
<1> DEFINE c == [n \in 1 .. Len(dataIn') + 1 |-> 0]
<1>1. Len(dataIn') = 0
    OBVIOUS
<1>2. c \in [1 .. Len(dataIn') + 1 -> 0 .. arrivals'] /\ c[1] = 0
    BY <1>1 DEF QueueOK
<1> HIDE DEF c
<1> QED
    BY <1>1, <1>2 DEF Counted

\* This is all it is for.
LEMMA ReportsBounded ==
    ASSUME QueueOK, Counted
    PROVE  reports <= arrivals
<1>1. PICK c \in [1 .. Len(dataIn) + 1 -> 0 .. arrivals] : reports <= c[1]
    BY DEF Counted
<1>2. Len(dataIn) \in Nat
    BY DEF QueueOK
<1>3. c[1] \in 0 .. arrivals
    BY <1>2
<1> QED
    BY <1>1, <1>3 DEF QueueOK

-----------------------------------------------------------------------------
(* Types                                                                        *)

\* The variables that are true or false,
FlagsOK ==
    /\ serving \in BOOLEAN
    /\ registered \in BOOLEAN
    /\ poll \in BOOLEAN
    /\ died \in BOOLEAN
    /\ collecting \in BOOLEAN
    /\ appServing \in BOOLEAN
    /\ subscribed \in BOOLEAN
    /\ handling \in BOOLEAN

\* and the others, but for the bound on reports.
RestOK ==
    /\ cfg \in Configs
    /\ side \in Stages
    /\ senders \in [Keys -> {"none", "ok", "refused"}]
    /\ dataIn \in Seq(Links \cup EventKinds) /\ Len(dataIn) <= InCap
    /\ links \subseteq Links
    /\ refused \subseteq Links
    /\ reports \in Nat
    /\ dataOut \in Seq(Outputs) /\ Len(dataOut) <= OutCap
    /\ busy \in {None, "event", "ack"}
    /\ answering \in Nat
    /\ req \in {"none", "received", "probe", "send", "created", "failed"}
    /\ arrivals \in 0 .. MaxArrivals
    /\ faults \in 0 .. MaxFaults
    /\ waiting \in Seq(Latencies)
    /\ latencyIn \in Seq(Latencies) /\ Len(latencyIn) <= LatencyCap
    /\ app \in AppStages

TypeInv == FlagsOK /\ RestOK /\ Counted

LEMMA TypeInit == Init => TypeInv
<1> SUFFICES ASSUME Init PROVE TypeInv
    OBVIOUS
<1> USE DEF Init, SidecarInit, ReportInit
<1>1. FlagsOK
    BY Zenon DEF FlagsOK
<1>2. RestOK
    BY SidecarAssumption, ReportAssumption DEF RestOK, Stages, AppStages, Keys, NoSenders
<1>3. Counted
    <2> DEFINE c == [n \in 1 .. 1 |-> 0]
    <2>1. Len(dataIn) = 0 /\ reports = 0 /\ arrivals = 0 /\ c \in [1 .. 1 -> 0 .. 0] /\ c[1] = 0
        OBVIOUS
    <2> HIDE DEF c
    <2> QED BY <2>1 DEF Counted
<1> QED
    BY <1>1, <1>2, <1>3 DEF TypeInv

LEMMA TypeIsTyped == TypeInv => TypeOK
<1> SUFFICES ASSUME TypeInv PROVE TypeOK
    OBVIOUS
<1>1. reports \in 0 .. MaxArrivals
    BY SidecarAssumption, ReportsBounded DEF TypeInv, RestOK, QueueOK
<1> QED
    BY <1>1 DEF TypeInv, FlagsOK, RestOK, TypeOK, SidecarTypeOK

LEMMA FlagsNext == FlagsOK /\ [Next]_vars => FlagsOK'
<1> SUFFICES ASSUME FlagsOK, [Next]_vars PROVE FlagsOK'
    OBVIOUS
<1> USE DEF FlagsOK, Apart, startVars, restVars, reportVars, appVars
<1>1. CASE SidecarDies
    BY <1>1, SidecarDeath, Zenon DEF SidecarEnds
<1>2. CASE Main /\ Apart
    BY <1>2, Zenon DEF Main, Boot, AskForRequests, MakeOwnSenders, KeepOwnSender, MakeStatusSenders,
         KeepStatusSender, AskForAnswers, HealthChk, MakeSenders, KeepSender
<1>3. CASE (Listen \/ Router \/ Loop \/ StatusAnswered \/ PollHandler \/ CreateHandler) /\ Apart
    BY <1>3, Zenon DEF Listen, Router, RouteLink, RouteEvent, Report, Loop, StatusAnswered, TakeRequest,
         TakeAnswer, StartPost,
         PollHandler, PollSent, PollAborted, CreateHandler, CheckKnown, CreateFails, AskForApp
<1>4. ASSUME NEW out, Receive(out), Apart PROVE FlagsOK'
    BY <1>4, Zenon DEF Receive
<1>5. CASE AppMain
    BY <1>5, Zenon DEF AppMain, AppBoot, AppListen, OwnHealth, SideHealth, Create, Created, GoOnWithout,
         PtpPanics, AppEnds, ReportLost, StartCollecting, Collect, sidecarVars
<1>6. CASE AppServer
    <2>1. CASE EventSubmit \/ PacketArrives \/ PacketLost \/ LatencyCounted
        BY <2>1, Zenon DEF EventSubmit, PacketArrives, PacketLost, LatencyCounted, Count, Bring,
             SendPacket, sidecarVars
    <2>2. CASE LatencySubmitted
        BY <2>2, Zenon DEF LatencySubmitted, Submit, PostReturns, sidecarVars
    <2>3. CASE PublisherAck \/ PostRefused \/ EndpointAnswers
        BY <2>3, Zenon DEF PublisherAck, PostRefused, PostReturns, EndpointAnswers, Persist
    <2> QED BY <1>6, <2>1, <2>2, <2>3 DEF AppServer
<1>7. CASE VduPanics \/ AskStatus \/ GenerateEvent \/ GeneratorPanics \/ AppFatal \/ AppKilled
    BY <1>7, Zenon DEF VduPanics, AskStatus, GenerateEvent, Publish, GeneratorPanics, AppFatal,
         AppKilled, AppEnds, ReportLost
<1>8. CASE UNCHANGED vars
    BY <1>8, Zenon DEF vars, sidecarVars
<1> QED
    BY <1>1, <1>2, <1>3, <1>4, <1>5, <1>6, <1>7, <1>8, Zenon DEF Next, SidecarRuns

LEMMA RestNext == FlagsOK /\ RestOK /\ [Next]_vars => RestOK'
<1> SUFFICES ASSUME FlagsOK, RestOK, [Next]_vars PROVE RestOK'
    OBVIOUS
<1> USE SidecarAssumption, ReportAssumption
<1> USE DEF RestOK, startVars, routerVars, loopVars, restVars, boundVars, sidecarVars, reportVars, appVars
<1>1. CASE SidecarDies
    BY <1>1, SidecarDeath DEF SidecarEnds, Stages, Keys, NoSenders, Fault
<1>2. CASE (Boot \/ Listen \/ MakeOwnSenders \/ MakeStatusSenders \/ HealthChk) /\ Apart
    <2>1. CASE Boot /\ Apart
        BY <2>1 DEF Boot, Apart, FirstStage, FirstCheckStage, Stages
    <2>2. CASE (Listen \/ HealthChk) /\ Apart
        BY <2>2 DEF Listen, HealthChk, Apart, Stages
    <2>3. CASE (MakeOwnSenders \/ MakeStatusSenders) /\ Apart
        BY <2>3 DEF MakeOwnSenders, MakeStatusSenders, MakeSenders, Apart, Stages, Keys, NoSenders
    <2> QED BY <1>2, <2>1, <2>2, <2>3
<1>3. CASE (KeepOwnSender \/ KeepStatusSender) /\ Apart
    BY <1>3 DEF KeepOwnSender, KeepStatusSender, KeepSender, FirstCheckStage, Fault, Apart, Stages, Keys
<1>4. ASSUME NEW x \in Links \cup EventKinds, Put(dataIn, InCap, x, dataIn')
      PROVE  dataIn' \in Seq(Links \cup EventKinds) /\ Len(dataIn') <= InCap
    BY <1>4 DEF Put
<1>5. CASE (AskForRequests \/ AskForAnswers) /\ Apart
    <2>1. dataIn' \in Seq(Links \cup EventKinds) /\ Len(dataIn') <= InCap
        BY <1>5, <1>4 DEF AskForRequests, AskForAnswers, Links
    <2> QED BY <1>5, <2>1 DEF AskForRequests, AskForAnswers, Apart, Stages
<1>6. CASE AskForApp /\ Apart
    <2>1. dataIn' \in Seq(Links \cup EventKinds) /\ Len(dataIn') <= InCap
        BY <1>6, <1>4 DEF AskForApp, Links
    <2> QED BY <1>6, <2>1 DEF AskForApp, Apart
<1>7. CASE GenerateEvent
    <2>1. dataIn' \in Seq(Links \cup EventKinds) /\ Len(dataIn') <= InCap
        BY <1>7, <1>4 DEF GenerateEvent, Publish, EventKinds
    <2> QED BY <1>7, <2>1 DEF GenerateEvent, Publish, Arrival
<1>8. CASE (RouteLink \/ RouteEvent) /\ Apart
    <2>1. /\ Tail(dataIn) \in Seq(Links \cup EventKinds) /\ Len(Tail(dataIn)) <= InCap
          /\ dataIn' = Tail(dataIn)
        BY <1>8 DEF RouteLink, RouteEvent
    <2>2. CASE RouteLink /\ Apart
        BY <2>1, <2>2 DEF RouteLink, Apart, Fault
    <2>3. CASE RouteEvent /\ Apart
        BY <2>1, <2>3 DEF RouteEvent, Apart
    <2> QED BY <1>8, <2>2, <2>3
<1>9. CASE (Report /\ Apart) \/ \E out \in Outputs : Receive(out) /\ Apart
    <2>1. PICK x \in Outputs : Put(dataOut, OutCap, x, dataOut')
        BY <1>9, Zenon DEF Report, Receive, Outputs
    <2>2. dataOut' \in Seq(Outputs) /\ Len(dataOut') <= OutCap
        BY <2>1 DEF Put
    <2>3. UNCHANGED <<cfg, startVars, dataIn, links, refused, loopVars, restVars, appVars, reportVars>>
        BY <1>9, Zenon DEF Report, Receive, Apart
    <2>4. reports' \in Nat /\ arrivals' \in 0 .. MaxArrivals /\ UNCHANGED faults
        <3>1. \/ reports > 0 /\ reports' = reports - 1 /\ UNCHANGED <<arrivals, faults>>
              \/ Arrival /\ UNCHANGED <<reports, faults>>
            BY <1>9, Zenon DEF Report, Receive
        <3> QED BY <3>1 DEF Arrival
    <2> QED BY <2>2, <2>3, <2>4
<1>10. ASSUME NEW outs, TakeOutput(outs), Taken
       PROVE  dataOut' \in Seq(Outputs) /\ Len(dataOut') <= OutCap
    BY <1>10 DEF TakeOutput, Taken
<1>11. CASE Loop /\ Apart
    <2>1. dataOut' \in Seq(Outputs) /\ Len(dataOut') <= OutCap
        BY <1>10, <1>11 DEF Loop, TakeRequest, TakeAnswer, StartPost
    <2>2. UNCHANGED <<cfg, startVars, dataIn, links, refused, reports, restVars, boundVars, appVars, reportVars>>
        BY <1>11, Zenon DEF Loop, TakeRequest, TakeAnswer, StartPost, Taken, Apart
    <2>3. \/ answering' = answering + 1 /\ UNCHANGED busy
          \/ UNCHANGED loopVars
          \/ UNCHANGED answering /\ Head(dataOut) \in {"event", "ack"} /\ busy' \in {None, Head(dataOut)}
        BY <1>11, Zenon DEF Loop, TakeRequest, TakeAnswer, StartPost, TakeOutput
    <2> QED BY <2>1, <2>2, <2>3
<1>12. CASE PacketArrives \/ PacketLost
    <2>1. dataOut' \in Seq(Outputs) /\ Len(dataOut') <= OutCap
        BY <1>10, <1>12 DEF PacketArrives, PacketLost, SendPacket
    <2>2. UNCHANGED <<cfg, startVars, dataIn, links, refused, reports, loopVars, restVars, boundVars, appVars, latencyIn>>
        BY <1>12, Zenon DEF PacketArrives, PacketLost, SendPacket, Taken, Bring
    <2>3. waiting' = waiting \/ \E l \in Latencies : waiting' = Append(waiting, l)
        BY <1>12, Zenon DEF PacketArrives, PacketLost, Bring
    <2>4. waiting \in Seq(Latencies)
        OBVIOUS
    <2>5. waiting' \in Seq(Latencies)
        <3> HIDE DEF RestOK
        <3> QED BY <2>3, <2>4
    <2> QED BY <2>1, <2>2, <2>5
<1>13. CASE (StatusAnswered \/ PollSent \/ PollAborted \/ CheckKnown \/ CreateFails) /\ Apart
    <2>1. CASE StatusAnswered /\ Apart
        BY <2>1 DEF StatusAnswered, Apart
    <2>2. CASE (PollSent \/ PollAborted) /\ Apart
        BY <2>2 DEF PollSent, PollAborted, Apart
    <2>3. CASE (CheckKnown \/ CreateFails) /\ Apart
        BY <2>3 DEF CheckKnown, CreateFails, Fault, Apart
    <2> QED BY <1>13, <2>1, <2>2, <2>3, Zenon
<1>14. CASE AppBoot \/ AppListen \/ OwnHealth \/ SideHealth \/ Create
    BY <1>14 DEF AppBoot, AppListen, OwnHealth, SideHealth, Create, AppStep, AppStages
<1>15. CASE Created \/ GoOnWithout \/ StartCollecting
    BY <1>15 DEF Created, GoOnWithout, StartCollecting, AppStep, AppStages, Collect
<1>16. CASE PtpPanics \/ VduPanics \/ GeneratorPanics \/ AppFatal \/ AppKilled
    <2>1. AppEnds /\ UNCHANGED <<cfg, side, senders, dataIn, links, refused, reports, dataOut, arrivals>>
        BY <1>16, Zenon DEF PtpPanics, VduPanics, GeneratorPanics, AppFatal, AppKilled
    <2>2. req' \in {req, "none"} /\ (UNCHANGED faults \/ Fault)
        BY <1>16, Zenon DEF PtpPanics, VduPanics, GeneratorPanics, AppFatal, AppKilled
    <2>3. busy' \in {busy, None} /\ UNCHANGED answering /\ app' = "down" /\ waiting' = <<>> /\ latencyIn' = <<>>
        BY <2>1, Zenon DEF AppEnds, ReportLost
    <2> QED BY <2>1, <2>2, <2>3 DEF Fault, AppStages
<1>17. CASE EventSubmit \/ LatencyCounted
    <2>1. CASE EventSubmit
        <3>1. PICK l \in Latencies : Bring(l)
            BY <2>1, Zenon DEF EventSubmit
        <3> QED BY <2>1, <3>1 DEF EventSubmit, Bring
    <2>2. CASE LatencyCounted
        <3>1. UNCHANGED <<sidecarVars, appVars, waiting>>
            BY <2>2, Zenon DEF LatencyCounted, Count
        <3>2. latencyIn' \in Seq(Latencies) /\ Len(latencyIn') <= LatencyCap
            BY <2>2 DEF LatencyCounted, Count
        <3> QED BY <3>1, <3>2
    <2> QED BY <1>17, <2>1, <2>2
<1>18. CASE LatencySubmitted
    <2>1. /\ waiting' \in Seq(Latencies) /\ latencyIn' \in Seq(Latencies) /\ Len(latencyIn') <= LatencyCap
          /\ UNCHANGED collecting
        BY <1>18 DEF LatencySubmitted, Submit
    <2> QED BY <1>18, <2>1 DEF LatencySubmitted, PostReturns
<1>19. CASE PublisherAck \/ PostRefused \/ EndpointAnswers \/ AskStatus
    BY <1>19 DEF PublisherAck, PostRefused, PostReturns, EndpointAnswers, Persist, AskStatus
<1>20. CASE UNCHANGED vars
    BY <1>20 DEF vars
<1> QED
    BY <1>1, <1>2, <1>3, <1>5, <1>6, <1>7, <1>8, <1>9, <1>11, <1>12, <1>13, <1>14, <1>15, <1>16, <1>17,
       <1>18, <1>19, <1>20
       DEF Next, SidecarRuns, Main, Router, PollHandler, CreateHandler, AppMain, AppServer

LEMMA CountNext ==
    ASSUME TypeInv, RestOK', [Next]_vars
    PROVE  Counted'
<1> USE DEF startVars, routerVars, restVars, boundVars, sidecarVars
<1>a. QueueOK /\ QueueOK' /\ Counted
    BY SidecarAssumption DEF TypeInv, RestOK, QueueOK
<1>1. CASE SidecarDies
    BY <1>1, <1>a, SidecarDeath, CountNothing DEF SidecarEnds
<1>2. CASE AskForRequests \/ AskForAnswers \/ AskForApp
    <2>1. PICK x \in Links : dataIn' = Append(dataIn, x)
        BY <1>2, Zenon DEF AskForRequests, AskForAnswers, AskForApp, Put, Links
    <2>2. UNCHANGED <<reports, arrivals>>
        BY <1>2 DEF AskForRequests, AskForAnswers, AskForApp
    <2>3. x \notin EventKinds
        BY DEF Links, EventKinds
    <2> QED BY <1>a, <2>1, <2>2, <2>3, CountQueued DEF QueueOK
<1>3. CASE GenerateEvent
    <2>1. PICK x : dataIn' = Append(dataIn, x)
        BY <1>3, Zenon DEF GenerateEvent, Publish, Put
    <2>2. UNCHANGED reports /\ arrivals' = arrivals + 1
        BY <1>3, Zenon DEF GenerateEvent, Publish, Arrival
    <2> QED BY <1>a, <2>1, <2>2, CountQueued DEF QueueOK
<1>4. CASE RouteLink \/ RouteEvent
    <2>1. dataIn # <<>> /\ dataIn' = Tail(dataIn) /\ UNCHANGED arrivals
        BY <1>4, Zenon DEF RouteLink, RouteEvent
    <2>2. reports' <= IF Head(dataIn) \in EventKinds THEN reports + 1 ELSE reports
        BY <1>4, <1>a DEF RouteLink, RouteEvent, QueueOK
    <2> QED BY <1>a, <2>1, <2>2, CountTaken
<1>5. CASE Report
    <2>1. UNCHANGED <<dataIn, arrivals>> /\ reports' = reports - 1
        BY <1>5, Zenon DEF Report
    <2> QED BY <1>a, <2>1, CountKept DEF QueueOK
<1>6. ASSUME NEW out, Receive(out) PROVE Counted'
    <2>1. UNCHANGED <<dataIn, reports>> /\ arrivals' = arrivals + 1
        BY <1>6, Zenon DEF Receive, Arrival
    <2> QED BY <1>a, <2>1, CountKept DEF QueueOK
<1>7. CASE UNCHANGED <<dataIn, reports, arrivals>>
    BY <1>7, <1>a, CountKept DEF QueueOK
<1>8. CASE \/ Boot \/ MakeOwnSenders \/ KeepOwnSender \/ MakeStatusSenders \/ KeepStatusSender
           \/ HealthChk \/ Listen \/ Loop \/ StatusAnswered \/ PollHandler \/ CheckKnown \/ CreateFails
    BY <1>7, <1>8, Zenon DEF Boot, MakeOwnSenders, KeepOwnSender, MakeStatusSenders, KeepStatusSender,
         MakeSenders, KeepSender, HealthChk, Listen, Loop, StatusAnswered, TakeRequest, TakeAnswer,
         StartPost, Taken,
         PollHandler, PollSent, PollAborted, CheckKnown, CreateFails
<1>9. CASE AppMain
    BY <1>7, <1>9, Zenon DEF AppMain, AppBoot, AppListen, OwnHealth, SideHealth, Create, Created, GoOnWithout,
         PtpPanics, StartCollecting
<1>10. CASE AppServer
    BY <1>7, <1>10, Zenon DEF AppServer, EventSubmit, PacketArrives, PacketLost, SendPacket, Taken,
         LatencySubmitted, LatencyCounted, PublisherAck, PostRefused, PostReturns, EndpointAnswers, Persist
<1>11. CASE VduPanics \/ AskStatus \/ GeneratorPanics \/ AppFatal \/ AppKilled \/ UNCHANGED vars
    BY <1>7, <1>11, Zenon DEF VduPanics, AskStatus, GeneratorPanics, AppFatal, AppKilled, vars
<1> QED
    BY <1>1, <1>2, <1>3, <1>4, <1>5, <1>6, <1>8, <1>9, <1>10, <1>11, Zenon
       DEF Next, SidecarRuns, Main, Router, CreateHandler

LEMMA TypeNext == TypeInv /\ [Next]_vars => TypeInv'
BY FlagsNext, RestNext, CountNext DEF TypeInv

\* Whatever fails and in whatever order the two containers come and go, every
\* variable stays within its type and no channel holds more than its capacity.
THEOREM TypeCorrect == Spec => []TypeOK
BY TypeInit, TypeNext, TypeIsTyped, PTL DEF Spec

-----------------------------------------------------------------------------
(* What the application's main has in hand: the application is answered only    *)
(* while its create is under way, and where it finds no sidecar, one has died   *)
(* since it saw it healthy.                                                     *)

AppInv ==
    /\ app # "creating" => req = "none"
    /\ app \notin {"down", "ownHealth"} => appServing
    /\ app \notin {"ready", "running"} => ~subscribed
    /\ app = "ready" \/ collecting => cfg.app = "vdu"
    /\ collecting => app = "running"
    /\ cfg.app = "ptp" /\ app = "running" => subscribed
    /\ app = "create" => serving \/ died
    /\ app = "creating" /\ req = "none" => died

LEMMA AppInit == Init => AppInv
BY Zenon DEF Init, SidecarInit, ReportInit, AppInv

LEMMA AppNext == TypeInv /\ AppInv /\ [Next]_vars => AppInv'
<1> SUFFICES ASSUME TypeInv, AppInv, [Next]_vars PROVE AppInv'
    OBVIOUS
<1> USE DEF AppInv, startVars, restVars, reportVars, appVars
<1>a. cfg.app \in {"vdu", "ptp"}
    BY SidecarAssumption DEF TypeInv, RestOK, Config
<1>1. CASE SidecarDies
    BY <1>1, SidecarDeath DEF SidecarEnds
<1>2. CASE UNCHANGED <<cfg, req, died, serving, appVars, collecting>>
    BY <1>2, Zenon
<1>3. CASE Listen /\ Apart
    BY <1>3, Zenon DEF Listen, Apart
<1>4. CASE CreateHandler /\ Apart
    BY <1>4, Zenon DEF CreateHandler, CheckKnown, CreateFails, AskForApp, Apart
<1>5. CASE EndpointAnswers
    BY <1>5, Zenon DEF EndpointAnswers, Persist
<1>6. CASE AppBoot \/ AppListen \/ OwnHealth \/ SideHealth \/ Create
    BY <1>6 DEF AppBoot, AppListen, OwnHealth, SideHealth, Create, AppStep, sidecarVars
<1>7. CASE Created \/ StartCollecting
    BY <1>7, <1>a DEF Created, StartCollecting, Collect, AppStep, sidecarVars
<1>8. CASE GoOnWithout \/ PtpPanics
    BY <1>8 DEF GoOnWithout, PtpPanics, NotCreated, AppEnds, ReportLost
<1>9. CASE VduPanics \/ GeneratorPanics \/ AppFatal \/ AppKilled
    BY <1>9, Zenon DEF VduPanics, GeneratorPanics, AppFatal, AppKilled, AppEnds, ReportLost, CountPanics
<1>10. CASE Main /\ Apart
    BY <1>2, <1>10, Zenon DEF Main, Boot, AskForRequests, MakeOwnSenders, KeepOwnSender, MakeStatusSenders,
         KeepStatusSender, AskForAnswers, HealthChk, MakeSenders, KeepSender, Apart
<1>11. CASE (Router \/ Loop \/ StatusAnswered \/ PollHandler \/ \E out \in Outputs : Receive(out)) /\ Apart
    BY <1>2, <1>11, Zenon DEF Router, RouteLink, RouteEvent, Report, Loop, StatusAnswered, TakeRequest,
         TakeAnswer, StartPost,
         PollHandler, PollSent, PollAborted, Receive, Apart
<1>12. CASE EventSubmit \/ PacketArrives \/ PacketLost \/ LatencySubmitted \/ LatencyCounted
    BY <1>12 DEF EventSubmit, PacketArrives, PacketLost, SendPacket, LatencySubmitted, Submit,
         LatencyCounted, Count, Bring, PostReturns, sidecarVars
<1>13. CASE PublisherAck \/ PostRefused \/ AskStatus \/ GenerateEvent \/ UNCHANGED vars
    BY <1>2, <1>13, Zenon DEF PublisherAck, PostRefused, PostReturns, AskStatus, GenerateEvent, Publish, vars,
         sidecarVars
<1> QED
    BY <1>1, <1>3, <1>4, <1>5, <1>6, <1>7, <1>8, <1>9, <1>10, <1>11, <1>12, <1>13, Zenon
       DEF Next, SidecarRuns, AppMain, AppServer

-----------------------------------------------------------------------------
(* The queue to the router.                                                     *)

LEMMA InQueued ==
    ASSUME NEW S, NEW q \in Seq(S), NEW x
    PROVE  In(Append(q, x)) = In(q) \cup {x}
<1>1. DOMAIN Append(q, x) = 1 .. Len(q) + 1 /\ DOMAIN q = 1 .. Len(q) /\ Len(q) \in Nat
    OBVIOUS
<1>2. \A n \in 1 .. Len(q) : Append(q, x)[n] = q[n]
    OBVIOUS
<1>3. Append(q, x)[Len(q) + 1] = x
    OBVIOUS
<1> QED
    BY <1>1, <1>2, <1>3 DEF In

LEMMA InTaken ==
    ASSUME NEW S, NEW q \in Seq(S), q # <<>>
    PROVE  In(q) = {Head(q)} \cup In(Tail(q))
<1>1. DOMAIN Tail(q) = 1 .. Len(q) - 1 /\ DOMAIN q = 1 .. Len(q) /\ Len(q) \in Nat \ {0} /\ Head(q) = q[1]
    OBVIOUS
<1>2. \A n \in 1 .. Len(q) - 1 : Tail(q)[n] = q[n + 1]
    OBVIOUS
<1>3. ASSUME NEW y \in In(q), y # Head(q) PROVE y \in In(Tail(q))
    <2>1. PICK n \in 1 .. Len(q) : y = q[n]
        BY <1>1, <1>3 DEF In
    <2>2. n - 1 \in 1 .. Len(q) - 1 /\ (n - 1) + 1 = n
        BY <1>1, <1>3, <2>1
    <2> QED BY <1>1, <1>2, <2>1, <2>2 DEF In
<1>4. Head(q) \in In(q)
    BY <1>1 DEF In
<1>5. ASSUME NEW y \in In(Tail(q)) PROVE y \in In(q)
    <2>1. PICK n \in 1 .. Len(q) - 1 : y = q[n + 1]
        BY <1>1, <1>2, <1>5 DEF In
    <2>2. n + 1 \in 1 .. Len(q)
        BY <1>1
    <2> QED BY <1>1, <2>1, <2>2 DEF In
<1> QED
    BY <1>3, <1>4, <1>5

\* What a step may do with it: the queue is lost, left alone, longer by a
\* request that some action makes, or shorter by one that the router has served.
LEMMA QueueStep ==
    ASSUME TypeInv, [Next]_vars
    PROVE  \/ SidecarEnds
           \/ UNCHANGED <<dataIn, links, refused>>
           \/ \E x : /\ dataIn' = Append(dataIn, x)
                     /\ UNCHANGED <<links, refused>>
                     /\ x = "event" => GenerateEvent /\ ~died
                     /\ x = "requests" => AskForRequests
                     /\ x = "app" => AskForApp
           \/ /\ dataIn # <<>> /\ dataIn' = Tail(dataIn)
              /\ links \subseteq links' /\ links' \subseteq links \cup {Head(dataIn)}
              /\ refused \subseteq refused'
              /\ Head(dataIn) \in EventKinds \/ Head(dataIn) \in links' \cup refused'
<1> USE DEF startVars, routerVars, restVars, boundVars, sidecarVars
<1> DEFINE Kept == UNCHANGED <<dataIn, links, refused>>
           Longer == \E x : /\ dataIn' = Append(dataIn, x)
                            /\ UNCHANGED <<links, refused>>
                            /\ x = "event" => GenerateEvent /\ ~died
                            /\ x = "requests" => AskForRequests
                            /\ x = "app" => AskForApp
           Shorter == /\ dataIn # <<>> /\ dataIn' = Tail(dataIn)
                      /\ links \subseteq links' /\ links' \subseteq links \cup {Head(dataIn)}
                      /\ refused \subseteq refused'
                      /\ Head(dataIn) \in EventKinds \/ Head(dataIn) \in links' \cup refused'
<1>1. SidecarDies => SidecarEnds
    BY SidecarDeath
<1>2. AskForRequests \/ AskForAnswers \/ AskForApp \/ GenerateEvent => Longer
    <2>1. CASE AskForRequests
        BY <2>1 DEF AskForRequests, Put
    <2>2. CASE AskForAnswers
        BY <2>2 DEF AskForAnswers, Put
    <2>3. CASE AskForApp
        BY <2>3 DEF AskForApp, Put
    <2>4. CASE GenerateEvent
        BY <2>4 DEF GenerateEvent, Publish, Put
    <2> QED BY <2>1, <2>2, <2>3, <2>4
<1>3. RouteLink \/ RouteEvent => Shorter
    BY DEF RouteLink, RouteEvent
<1>4. Boot \/ MakeOwnSenders \/ KeepOwnSender \/ MakeStatusSenders \/ KeepStatusSender \/ HealthChk \/ Listen => Kept
    BY Zenon DEF Boot, MakeOwnSenders, KeepOwnSender, MakeStatusSenders, KeepStatusSender,
         MakeSenders, KeepSender, HealthChk, Listen
<1>5. Report \/ Loop \/ StatusAnswered \/ PollHandler \/ CheckKnown \/ CreateFails \/ (\E out \in Outputs : Receive(out)) => Kept
    BY Zenon DEF Report, Loop, StatusAnswered, TakeRequest, TakeAnswer, StartPost, Taken, PollHandler,
         PollSent, PollAborted,
         CheckKnown, CreateFails, Receive
<1>6. AppMain => Kept
    BY Zenon DEF AppMain, AppBoot, AppListen, OwnHealth, SideHealth, Create, Created, GoOnWithout,
         PtpPanics, StartCollecting
<1>7. AppServer => Kept
    BY Zenon DEF AppServer, EventSubmit, PacketArrives, PacketLost, SendPacket, Taken,
         LatencySubmitted, LatencyCounted, PublisherAck, PostRefused, PostReturns, EndpointAnswers, Persist
<1>8. VduPanics \/ AskStatus \/ GeneratorPanics \/ AppFatal \/ AppKilled \/ UNCHANGED vars => Kept
    BY Zenon DEF VduPanics, AskStatus, GeneratorPanics, AppFatal, AppKilled, vars
<1> HIDE DEF Kept, Longer, Shorter
<1>9. SidecarEnds \/ Kept \/ Longer \/ Shorter
    BY <1>1, <1>2, <1>3, <1>4, <1>5, <1>6, <1>7, <1>8, Zenon DEF Next, SidecarRuns, Main, Router, CreateHandler
<1> QED
    BY <1>9, Zenon DEF Kept, Longer, Shorter

-----------------------------------------------------------------------------
(* The application's link.  It is ahead of every event in the queue, made or    *)
(* refused, from the moment the application is answered 201 until the sidecar   *)
(* dies: the router serves the queue in order.                                  *)

Answered == (subscribed \/ req = "created") /\ ~died

KnownInv ==
    /\ req \in {"send", "created"} => registered
    /\ Answered => registered

\* The answer, AskForApp, is the one way to come to be answered.
LEMMA KnownNext ==
    ASSUME TypeInv, AppInv, KnownInv, [Next]_vars
    PROVE  KnownInv' /\ (Answered' => Answered \/ AskForApp)
<1> USE DEF KnownInv, Answered, AppInv, startVars, restVars, reportVars, appVars
<1>1. CASE SidecarDies
    BY <1>1, SidecarDeath DEF SidecarEnds
<1>2. CASE UNCHANGED <<registered, req, died, subscribed>>
    BY <1>2, Zenon
<1>3. CASE CreateHandler /\ Apart
    BY <1>3 DEF CreateHandler, CheckKnown, CreateFails, AskForApp, Apart
<1>4. CASE EndpointAnswers
    BY <1>4, Zenon DEF EndpointAnswers, Persist
<1>5. CASE SideHealth \/ Create
    BY <1>5 DEF SideHealth, Create, AppStep
<1>6. CASE Created \/ GoOnWithout
    BY <1>6 DEF Created, GoOnWithout
<1>7. CASE PtpPanics \/ VduPanics \/ GeneratorPanics \/ AppFatal \/ AppKilled
    BY <1>7 DEF PtpPanics, VduPanics, GeneratorPanics, AppFatal, AppKilled, AppEnds
<1>8. CASE Main /\ Apart
    BY <1>2, <1>8, Zenon DEF Main, Boot, AskForRequests, MakeOwnSenders, KeepOwnSender, MakeStatusSenders,
         KeepStatusSender, AskForAnswers, HealthChk, MakeSenders, KeepSender, Apart
<1>9. CASE (Listen \/ Router \/ Loop \/ StatusAnswered \/ PollHandler \/ \E out \in Outputs : Receive(out)) /\ Apart
    BY <1>2, <1>9, Zenon DEF Listen, Router, RouteLink, RouteEvent, Report, Loop, StatusAnswered,
         TakeRequest, TakeAnswer, StartPost,
         PollHandler, PollSent, PollAborted, Receive, Apart
<1>10. CASE EventSubmit \/ PacketArrives \/ PacketLost \/ LatencySubmitted \/ LatencyCounted
    BY <1>2, <1>10, Zenon DEF EventSubmit, PacketArrives, PacketLost, SendPacket, LatencySubmitted, Submit,
         LatencyCounted, Count, Bring, PostReturns, sidecarVars
<1>11. CASE AppBoot \/ AppListen \/ OwnHealth \/ StartCollecting
    BY <1>2, <1>11, Zenon DEF AppBoot, AppListen, OwnHealth, StartCollecting, sidecarVars
<1>12. CASE PublisherAck \/ PostRefused \/ AskStatus \/ GenerateEvent \/ UNCHANGED vars
    BY <1>2, <1>12, Zenon DEF PublisherAck, PostRefused, PostReturns, AskStatus, GenerateEvent, Publish, vars,
         sidecarVars
<1> QED
    BY <1>1, <1>3, <1>4, <1>5, <1>6, <1>7, <1>8, <1>9, <1>10, <1>11, <1>12, Zenon
       DEF Next, SidecarRuns, AppMain, AppServer

LinkAsked == "app" \in links \cup refused \cup In(dataIn)

LinkAhead ==
    \A n \in DOMAIN dataIn :
        dataIn[n] = "event" => "app" \in links \cup refused \cup {dataIn[m] : m \in 1 .. n - 1}

LinkInv == (Answered => LinkAsked) /\ LinkAhead

LEMMA LinkNext ==
    ASSUME TypeInv, AppInv, KnownInv, LinkInv, [Next]_vars
    PROVE  LinkInv'
<1>a. dataIn \in Seq(Links \cup EventKinds) /\ cfg.app \in {"vdu", "ptp"}
    BY SidecarAssumption DEF TypeInv, RestOK, Config
<1>b. Answered' => Answered \/ AskForApp
    BY KnownNext
<1>1. CASE SidecarEnds
    <2>1. died' = TRUE /\ dataIn' = <<>>
        BY <1>1 DEF SidecarEnds
    <2>2. DOMAIN dataIn' = {}
        BY <2>1
    <2> QED BY <2>1, <2>2 DEF LinkInv, LinkAhead, Answered
<1>2. CASE UNCHANGED <<dataIn, links, refused>>
    <2>1. ~AskForApp
        BY <1>2, <1>a DEF AskForApp, Put
    <2> QED BY <1>2, <1>b, <2>1 DEF LinkInv, LinkAhead, LinkAsked, In
<1>3. ASSUME NEW x, dataIn' = Append(dataIn, x), UNCHANGED <<links, refused>>,
             x = "event" => GenerateEvent /\ ~died
      PROVE  LinkInv'
    <2>1. In(dataIn') = In(dataIn) \cup {x}
        BY <1>3, <1>a, InQueued
    <2>2. Answered' => LinkAsked'
        <3>1. CASE AskForApp
            <4>1. dataIn' = Append(dataIn, "app")
                BY <3>1, Zenon DEF AskForApp, Put
            <4>2. In(dataIn') = In(dataIn) \cup {"app"}
                BY <1>a, <4>1, InQueued
            <4> QED BY <4>2 DEF LinkAsked
        <3>2. CASE ~AskForApp
            BY <1>3, <1>b, <2>1, <3>2 DEF LinkInv, LinkAsked
        <3> QED BY <3>1, <3>2
    <2>3. x = "event" => LinkAsked
        <3>1. GenerateEvent => subscribed
            BY DEF GenerateEvent, AppInv
        <3> QED BY <1>3, <3>1 DEF LinkInv, Answered
    <2>4. ASSUME NEW n \in DOMAIN dataIn', dataIn'[n] = "event"
          PROVE  "app" \in links' \cup refused' \cup {dataIn'[m] : m \in 1 .. n - 1}
        <3>1. /\ DOMAIN dataIn' = 1 .. Len(dataIn) + 1 /\ DOMAIN dataIn = 1 .. Len(dataIn)
              /\ Len(dataIn) \in Nat
              /\ \A m \in 1 .. Len(dataIn) : dataIn'[m] = dataIn[m]
              /\ dataIn'[Len(dataIn) + 1] = x
            BY <1>3, <1>a
        <3>2. CASE n \in 1 .. Len(dataIn)
            <4>1. "app" \in links \cup refused \cup {dataIn[m] : m \in 1 .. n - 1}
                BY <2>4, <3>1, <3>2 DEF LinkInv, LinkAhead
            <4>2. {dataIn[m] : m \in 1 .. n - 1} = {dataIn'[m] : m \in 1 .. n - 1}
                BY <3>1, <3>2
            <4> QED BY <1>3, <4>1, <4>2
        <3>3. CASE n = Len(dataIn) + 1
            <4>1. {dataIn'[m] : m \in 1 .. n - 1} = In(dataIn)
                BY <3>1, <3>3 DEF In
            <4> QED BY <1>3, <2>3, <2>4, <3>1, <3>3, <4>1 DEF LinkAsked
        <3> QED BY <3>1, <3>2, <3>3
    <2> QED BY <2>2, <2>4 DEF LinkInv, LinkAhead
<1>4. CASE /\ dataIn # <<>> /\ dataIn' = Tail(dataIn)
           /\ links \subseteq links' /\ refused \subseteq refused'
           /\ Head(dataIn) \in EventKinds \/ Head(dataIn) \in links' \cup refused'
    <2>1. In(dataIn) = {Head(dataIn)} \cup In(dataIn')
        BY <1>4, <1>a, InTaken
    <2>2. Head(dataIn) = "app" => "app" \in links' \cup refused'
        BY <1>4 DEF EventKinds
    <2>3. Answered' => LinkAsked'
        <3>1. ~AskForApp
            BY <1>4, <1>a DEF AskForApp, Put
        <3> QED BY <1>4, <1>b, <2>1, <2>2, <3>1 DEF LinkInv, LinkAsked
    <2>4. ASSUME NEW n \in DOMAIN dataIn', dataIn'[n] = "event"
          PROVE  "app" \in links' \cup refused' \cup {dataIn'[m] : m \in 1 .. n - 1}
        <3>1. /\ DOMAIN dataIn' = 1 .. Len(dataIn) - 1 /\ DOMAIN dataIn = 1 .. Len(dataIn)
              /\ Len(dataIn) \in Nat \ {0} /\ Head(dataIn) = dataIn[1]
              /\ \A m \in 1 .. Len(dataIn) - 1 : dataIn'[m] = dataIn[m + 1]
            BY <1>4, <1>a
        <3>2. n + 1 \in DOMAIN dataIn /\ dataIn[n + 1] = "event" /\ (n + 1) - 1 = n
            BY <2>4, <3>1
        <3>3. "app" \in links \cup refused \cup {dataIn[m] : m \in 1 .. n}
            BY <3>2 DEF LinkInv, LinkAhead
        <3>4. ASSUME NEW m \in 1 .. n, dataIn[m] = "app", m # 1
              PROVE  "app" \in {dataIn'[j] : j \in 1 .. n - 1}
            <4>1. m - 1 \in 1 .. n - 1 /\ m - 1 \in 1 .. Len(dataIn) - 1 /\ (m - 1) + 1 = m
                BY <3>1, <3>4
            <4>2. dataIn'[m - 1] = "app"
                BY <3>1, <3>4, <4>1
            <4> QED BY <4>1, <4>2
        <3> QED BY <1>4, <2>2, <3>1, <3>3, <3>4
    <2> QED BY <2>3, <2>4 DEF LinkInv, LinkAhead
<1> QED
    BY <1>1, <1>2, <1>3, <1>4, QueueStep

ReachInv == AppInv /\ KnownInv /\ LinkInv

LEMMA ReachInit == Init => ReachInv
<1> SUFFICES ASSUME Init PROVE ReachInv
    OBVIOUS
<1>1. KnownInv /\ ~Answered
    BY DEF Init, SidecarInit, KnownInv, Answered
<1>2. DOMAIN dataIn = {}
    BY DEF Init, SidecarInit
<1> QED
    BY <1>1, <1>2, AppInit DEF ReachInv, LinkInv, LinkAhead

LEMMA ReachNext == TypeInv /\ ReachInv /\ [Next]_vars => ReachInv'
BY AppNext, KnownNext, LinkNext DEF ReachInv

\* An application that runs and was answered 201 is registered, and its link is
\* made, asked for or was refused, unless its sidecar has died since.
THEOREM Reachable == Spec => []RunningIsReachable
<1>1. ReachInv => RunningIsReachable
    BY DEF ReachInv, KnownInv, LinkInv, LinkAsked, Answered, RunningIsReachable, In
<1> QED
    BY <1>1, TypeInit, TypeNext, ReachInit, ReachNext, PTL DEF Spec

\* An event published while the sidecar that answered 201 is alive is not
\* dropped, unless the link was refused: the link is ahead of it in the queue.
THEOREM NoDropBeforeDeath == Spec => DropsOnlyAfterDeath
<1> DEFINE Drop == dataIn # <<>> /\ Head(dataIn) = "event" /\ "app" \notin links
                   /\ dataIn' = Tail(dataIn) /\ side' # "down" => "app" \in refused
<1>1. TypeInv /\ ReachInv => Drop
    <2> SUFFICES ASSUME TypeInv, ReachInv, dataIn # <<>>, Head(dataIn) = "event", "app" \notin links
                 PROVE  "app" \in refused
        OBVIOUS
    <2>1. 1 \in DOMAIN dataIn /\ dataIn[1] = "event"
        BY DEF TypeInv, RestOK
    <2>2. {dataIn[m] : m \in 1 .. 1 - 1} = {}
        OBVIOUS
    <2> QED BY <2>1, <2>2 DEF ReachInv, LinkInv, LinkAhead
<1>2. Spec => [](TypeInv /\ ReachInv)
    BY TypeInit, TypeNext, ReachInit, ReachNext, PTL DEF Spec
<1>3. [](TypeInv /\ ReachInv) => [][Drop]_vars
    BY <1>1, PTL
<1> QED
    BY <1>2, <1>3, PTL DEF DropsOnlyAfterDeath

-----------------------------------------------------------------------------
(* The status roles.  Only a sidecar that publishes its status asks for the     *)
(* listener of status requests, and it has looked up its sender by then; the    *)
(* second role makes a new map, in which that sender is missing.                *)

Publishes == "publish" \in cfg.roles
Checks == "check" \in cfg.roles

SenderInv ==
    /\ side \in {"listener", "ownMap", "ownSender"} => Publishes
    /\ side \in {"statusMap", "statusSender", "statusListener"} => Checks
    /\ side \in {"health", "loop"} /\ Publishes /\ ~Checks => senders["answers"] # "none"

RequestInv ==
    /\ "requests" \in links \cup In(dataIn) => Publishes
    /\ "status" \in In(dataOut) => Publishes
    /\ answering > 0 => Publishes /\ side = "loop"

RoleInv == SenderInv /\ RequestInv

LEMMA RoleInit == Init => RoleInv
<1> SUFFICES ASSUME Init PROVE RoleInv
    OBVIOUS
<1>1. In(dataIn) = {} /\ In(dataOut) = {} /\ links = {} /\ side = "down" /\ answering = 0
    BY DEF Init, SidecarInit, In
<1> QED
    BY <1>1 DEF RoleInv, SenderInv, RequestInv

LEMMA SenderNext == TypeInv /\ SenderInv /\ [Next]_vars => SenderInv'
<1> SUFFICES ASSUME TypeInv, SenderInv, [Next]_vars PROVE SenderInv'
    OBVIOUS
<1> USE DEF SenderInv, Publishes, Checks, startVars
<1>a. senders \in [Keys -> {"none", "ok", "refused"}]
    BY DEF TypeInv, RestOK
<1>1. CASE SidecarDies
    BY <1>1, SidecarDeath DEF SidecarEnds
<1>2. CASE UNCHANGED <<cfg, side, senders>>
    BY <1>2
<1>3. CASE Boot
    BY <1>3 DEF Boot, FirstStage, FirstCheckStage
<1>4. CASE AskForRequests \/ AskForAnswers \/ HealthChk
    BY <1>4 DEF AskForRequests, AskForAnswers, HealthChk
<1>5. CASE MakeOwnSenders \/ MakeStatusSenders
    BY <1>5 DEF MakeOwnSenders, MakeStatusSenders, MakeSenders
<1>6. CASE KeepOwnSender
    <2>1. senders'["answers"] \in {"ok", "refused"}
        BY <1>6, <1>a DEF KeepOwnSender, KeepSender, Keys
    <2> QED BY <1>6, <2>1 DEF KeepOwnSender, KeepSender, FirstCheckStage
<1>7. CASE KeepStatusSender
    BY <1>7 DEF KeepStatusSender, KeepSender
<1>8. CASE Listen \/ Router \/ Loop \/ StatusAnswered \/ PollHandler \/ CreateHandler \/ \E out \in Outputs : Receive(out)
    BY <1>2, <1>8, Zenon DEF Listen, Router, RouteLink, RouteEvent, Report, Loop, StatusAnswered,
         TakeRequest, TakeAnswer, StartPost,
         PollHandler, PollSent, PollAborted, CreateHandler, CheckKnown, CreateFails, AskForApp, Receive
<1>9. CASE AppMain
    BY <1>2, <1>9, Zenon DEF AppMain, AppBoot, AppListen, OwnHealth, SideHealth, Create, Created, GoOnWithout,
         PtpPanics, StartCollecting, sidecarVars
<1>10. CASE AppServer
    BY <1>2, <1>10, Zenon DEF AppServer, EventSubmit, PacketArrives, PacketLost, SendPacket,
         LatencySubmitted, LatencyCounted, PublisherAck, PostRefused, PostReturns, EndpointAnswers, Persist,
         sidecarVars
<1>11. CASE VduPanics \/ AskStatus \/ GenerateEvent \/ GeneratorPanics \/ AppFatal \/ AppKilled \/ UNCHANGED vars
    BY <1>2, <1>11, Zenon DEF VduPanics, AskStatus, GenerateEvent, Publish, GeneratorPanics, AppFatal,
         AppKilled, vars, sidecarVars
<1> QED
    BY <1>1, <1>3, <1>4, <1>5, <1>6, <1>7, <1>8, <1>9, <1>10, <1>11, Zenon DEF Next, SidecarRuns, Main

\* No step changes the configuration.
LEMMA ConfigStays == [Next]_vars => UNCHANGED cfg
<1> SUFFICES ASSUME [Next]_vars PROVE UNCHANGED cfg
    OBVIOUS
<1>1. CASE SidecarDies
    BY <1>1, SidecarDeath DEF SidecarEnds
<1>2. CASE Main \/ Listen
    BY <1>2, Zenon DEF Main, Boot, AskForRequests, MakeOwnSenders, KeepOwnSender, MakeStatusSenders,
         KeepStatusSender, AskForAnswers, HealthChk, MakeSenders, KeepSender, Listen
<1>3. CASE Router \/ Loop \/ StatusAnswered \/ PollHandler \/ CreateHandler \/ \E out \in Outputs : Receive(out)
    BY <1>3, Zenon DEF Router, RouteLink, RouteEvent, Report, Loop, StatusAnswered, TakeRequest,
         TakeAnswer, StartPost,
         PollHandler, PollSent, PollAborted, CreateHandler, CheckKnown, CreateFails, AskForApp, Receive
<1>4. CASE AppMain
    BY <1>4, Zenon DEF AppMain, AppBoot, AppListen, OwnHealth, SideHealth, Create, Created, GoOnWithout,
         PtpPanics, StartCollecting, sidecarVars
<1>5. CASE AppServer
    BY <1>5, Zenon DEF AppServer, EventSubmit, PacketArrives, PacketLost, SendPacket,
         LatencySubmitted, LatencyCounted, PublisherAck, PostRefused, PostReturns, EndpointAnswers, Persist,
         sidecarVars
<1>6. CASE VduPanics \/ AskStatus \/ GenerateEvent \/ GeneratorPanics \/ AppFatal \/ AppKilled \/ UNCHANGED vars
    BY <1>6, Zenon DEF VduPanics, AskStatus, GenerateEvent, Publish, GeneratorPanics, AppFatal,
         AppKilled, vars, sidecarVars
<1> QED
    BY <1>1, <1>2, <1>3, <1>4, <1>5, <1>6, Zenon DEF Next, SidecarRuns

\* What the router puts out comes over a link, or is a report that is due.
Due(out) ==
    /\ out = "status" => "requests" \in links
    /\ out = "event" => "app" \in links
    /\ out = "ack" => reports > 0

\* What a step may do with what the router has put out.
LEMMA OutStep ==
    ASSUME [Next]_vars
    PROVE  \/ dataOut' \in {<<>>, dataOut}
           \/ dataOut # <<>> /\ dataOut' = Tail(dataOut)
           \/ \E x : dataOut' = Append(dataOut, x) /\ Due(x)
<1> USE DEF routerVars
<1> DEFINE Kept == dataOut' \in {<<>>, dataOut}
           Shorter == dataOut # <<>> /\ dataOut' = Tail(dataOut)
           Longer == \E x : dataOut' = Append(dataOut, x) /\ Due(x)
<1>1. SidecarDies => Kept
    BY SidecarDeath DEF SidecarEnds
<1>2. Main \/ Listen => Kept
    BY Zenon DEF Main, Boot, AskForRequests, MakeOwnSenders, KeepOwnSender, MakeStatusSenders,
         KeepStatusSender, AskForAnswers, HealthChk, MakeSenders, KeepSender, Listen
<1>3. RouteLink \/ RouteEvent \/ StatusAnswered \/ PollHandler \/ CreateHandler => Kept
    BY Zenon DEF RouteLink, RouteEvent, StatusAnswered, PollHandler, PollSent, PollAborted,
         CreateHandler, CheckKnown,
         CreateFails, AskForApp
<1>4. Report \/ (\E out \in Outputs : Receive(out)) => Longer
    <2>1. CASE Report
        BY <2>1 DEF Report, Put, Due
    <2>2. ASSUME NEW out \in Outputs, Receive(out) PROVE Longer
        BY <2>2 DEF Receive, Put, Due
    <2> HIDE DEF Longer
    <2> QED BY <2>1, <2>2, Zenon
<1>5. Loop \/ SendPacket => Shorter
    BY Zenon DEF Loop, StatusAnswered, TakeRequest, TakeAnswer, StartPost, SendPacket, TakeOutput, Taken
<1>6. AppMain => Kept
    BY Zenon DEF AppMain, AppBoot, AppListen, OwnHealth, SideHealth, Create, Created, GoOnWithout,
         PtpPanics, StartCollecting, sidecarVars
<1>7. EventSubmit \/ LatencySubmitted \/ LatencyCounted \/ PublisherAck \/ PostRefused \/ EndpointAnswers => Kept
    BY Zenon DEF EventSubmit, LatencySubmitted, LatencyCounted, PublisherAck, PostRefused, PostReturns,
         EndpointAnswers, Persist, sidecarVars
<1>8. VduPanics \/ AskStatus \/ GenerateEvent \/ GeneratorPanics \/ AppFatal \/ AppKilled \/ UNCHANGED vars => Kept
    BY Zenon DEF VduPanics, AskStatus, GenerateEvent, Publish, GeneratorPanics, AppFatal, AppKilled,
         vars, sidecarVars
<1> HIDE DEF Kept, Longer, Shorter
<1>9. Kept \/ Shorter \/ Longer
    BY <1>1, <1>2, <1>3, <1>4, <1>5, <1>6, <1>7, <1>8, Zenon
       DEF Next, SidecarRuns, Router, AppServer, PacketArrives, PacketLost
<1> QED
    BY <1>9, Zenon DEF Kept, Shorter, Longer

\* and with the goroutines that answer: main does not leave the loop.
LEMMA AnswerStep ==
    ASSUME [Next]_vars
    PROVE  \/ SidecarEnds
           \/ TakeRequest
           \/ answering' \in {answering, answering - 1} /\ (side = "loop" => side' = "loop")
<1> USE DEF startVars, loopVars
<1> DEFINE Same == UNCHANGED <<side, answering>>
           Less == answering' = answering - 1 /\ UNCHANGED side
           Starts == UNCHANGED answering /\ side # "loop"
<1>1. SidecarDies => SidecarEnds
    BY SidecarDeath
<1>2. Main => Starts
    <2>1. Boot \/ MakeOwnSenders \/ MakeStatusSenders => Starts
        BY DEF Boot, MakeOwnSenders, MakeStatusSenders, MakeSenders
    <2>2. KeepOwnSender \/ KeepStatusSender => Starts
        BY DEF KeepOwnSender, KeepStatusSender, KeepSender
    <2>3. AskForRequests \/ AskForAnswers \/ HealthChk => Starts
        BY DEF AskForRequests, AskForAnswers, HealthChk
    <2> QED BY <2>1, <2>2, <2>3, Zenon DEF Main
<1>3. Listen \/ Router \/ PollHandler \/ CreateHandler \/ (\E out \in Outputs : Receive(out)) => Same
    BY Zenon DEF Listen, Router, RouteLink, RouteEvent, Report, PollHandler, PollSent, PollAborted,
         CreateHandler, CheckKnown, CreateFails, AskForApp, Receive
<1>4. Loop => TakeRequest \/ Same
    BY Zenon DEF Loop, TakeAnswer, StartPost
<1>5. StatusAnswered => Less
    BY Zenon DEF StatusAnswered
<1>6. AppMain => Same
    BY Zenon DEF AppMain, AppBoot, AppListen, OwnHealth, SideHealth, Create, Created, GoOnWithout,
         PtpPanics, AppEnds, StartCollecting, sidecarVars
<1>7. AppServer => Same
    BY Zenon DEF AppServer, EventSubmit, PacketArrives, PacketLost, SendPacket,
         LatencySubmitted, LatencyCounted, PublisherAck, PostRefused, PostReturns, EndpointAnswers, Persist,
         sidecarVars
<1>8. VduPanics \/ AskStatus \/ GenerateEvent \/ GeneratorPanics \/ AppFatal \/ AppKilled \/ UNCHANGED vars
      => Same
    BY Zenon DEF VduPanics, AskStatus, GenerateEvent, Publish, GeneratorPanics, AppFatal, AppKilled, AppEnds,
         vars, sidecarVars
<1> HIDE DEF Same, Less, Starts
<1>9. SidecarEnds \/ TakeRequest \/ Same \/ Less \/ Starts
    BY <1>1, <1>2, <1>3, <1>4, <1>5, <1>6, <1>7, <1>8, Zenon DEF Next, SidecarRuns
<1> QED
    BY <1>9, Zenon DEF Same, Less, Starts

LEMMA RequestNext ==
    ASSUME TypeInv, RoleInv, [Next]_vars
    PROVE  RequestInv'
<1>a. /\ dataIn \in Seq(Links \cup EventKinds) /\ dataOut \in Seq(Outputs)
      /\ Publishes' = Publishes
    BY ConfigStays DEF TypeInv, RestOK, Publishes
<1>b. In(<<>>) = {}
    BY DEF In
<1>1. "requests" \in links' \cup In(dataIn') => Publishes
    <2>1. CASE SidecarEnds
        BY <1>b, <2>1 DEF SidecarEnds
    <2>2. CASE UNCHANGED <<dataIn, links, refused>>
        BY <2>2 DEF RoleInv, RequestInv
    <2>3. ASSUME NEW x, dataIn' = Append(dataIn, x), UNCHANGED links, x = "requests" => AskForRequests
          PROVE  "requests" \in links' \cup In(dataIn') => Publishes
        <3>1. In(dataIn') = In(dataIn) \cup {x}
            BY <1>a, <2>3, InQueued
        <3>2. x = "requests" => Publishes
            BY <2>3 DEF AskForRequests, RoleInv, SenderInv
        <3> QED BY <2>3, <3>1, <3>2 DEF RoleInv, RequestInv
    <2>4. CASE dataIn # <<>> /\ dataIn' = Tail(dataIn) /\ links' \subseteq links \cup {Head(dataIn)}
        BY <1>a, <2>4, InTaken DEF RoleInv, RequestInv
    <2> QED BY <2>1, <2>2, <2>3, <2>4, QueueStep
<1>2. "status" \in In(dataOut') => Publishes
    <2>1. CASE dataOut' \in {<<>>, dataOut}
        BY <1>b, <2>1 DEF RoleInv, RequestInv
    <2>2. CASE dataOut # <<>> /\ dataOut' = Tail(dataOut)
        BY <1>a, <2>2, InTaken DEF RoleInv, RequestInv
    <2>3. ASSUME NEW x, dataOut' = Append(dataOut, x), Due(x)
          PROVE  "status" \in In(dataOut') => Publishes
        <3>1. In(dataOut') = In(dataOut) \cup {x}
            BY <1>a, <2>3, InQueued
        <3> QED BY <2>3, <3>1 DEF RoleInv, RequestInv, Due
    <2> QED BY <2>1, <2>2, <2>3, OutStep
<1>3. answering' > 0 => Publishes /\ side' = "loop"
    <2>1. CASE SidecarEnds
        BY <2>1 DEF SidecarEnds
    <2>2. CASE TakeRequest
        <3>1. Head(dataOut) \in In(dataOut) /\ Head(dataOut) = "status" /\ side' = "loop"
            BY <1>a, <2>2, InTaken DEF TakeRequest, TakeOutput, startVars
        <3> QED BY <3>1 DEF RoleInv, RequestInv
    <2>3. CASE answering' \in {answering, answering - 1} /\ (side = "loop" => side' = "loop")
        <3>1. answering' > 0 => answering > 0
            BY <2>3 DEF TypeInv, RestOK
        <3> QED BY <2>3, <3>1 DEF RoleInv, RequestInv
    <2> QED BY <2>1, <2>2, <2>3, AnswerStep
<1> QED
    BY <1>1, <1>2, <1>3, <1>a DEF RequestInv

LEMMA RoleNext == TypeInv /\ RoleInv /\ [Next]_vars => RoleInv'
BY SenderNext, RequestNext DEF RoleInv

LEMMA BothRoles ==
    ASSUME cfg \in Config, Publishes, Checks
    PROVE  Cardinality(cfg.roles) = 2
<1>1. cfg.roles = {"publish"} \cup {"check"} /\ "check" \notin {"publish"}
    BY DEF Config, Publishes, Checks
<1>2. Cardinality({"publish"}) = 1 /\ IsFiniteSet({"publish"})
    BY FS_Singleton
<1>3. Cardinality({"publish"} \cup {"check"}) = Cardinality({"publish"}) + 1
    BY <1>1, <1>2, FS_AddElement
<1> QED
    BY <1>1, <1>2, <1>3

\* A goroutine that answers a status request finds a sender in the map, unless the
\* sidecar has both status roles.
THEOREM AnswerersServed == Spec => []AnswererHasSender
<1>1. TypeInv /\ RoleInv => AnswererHasSender
    <2> SUFFICES ASSUME TypeInv, RoleInv, answering > 0, Cardinality(cfg.roles) < 2
                 PROVE  senders["answers"] # "none"
        BY Zenon DEF AnswererHasSender
    <2>1. Publishes /\ side = "loop"
        BY Zenon DEF RoleInv, RequestInv
    <2>2. ~Checks
        BY <2>1, BothRoles, SidecarAssumption DEF TypeInv, RestOK
    <2> QED BY <2>1, <2>2, Zenon DEF RoleInv, SenderInv
<1> QED
    BY <1>1, TypeInit, TypeNext, RoleInit, RoleNext, PTL DEF Spec

-----------------------------------------------------------------------------
(* The look-ups.  An event or a report is put out only for an application that  *)
(* is registered, and the create of a registered one does not come to its Set.  *)

LookupInv ==
    /\ req = "probe" => ~registered
    /\ "app" \in links \cup In(dataIn) => registered
    /\ reports > 0 => registered
    /\ {"event", "ack"} \cap In(dataOut) # {} => registered

LEMMA LookupInit == Init => LookupInv
<1> SUFFICES ASSUME Init PROVE LookupInv
    OBVIOUS
<1>1. In(dataIn) = {} /\ In(dataOut) = {} /\ links = {} /\ reports = 0 /\ req = "none"
    BY DEF Init, SidecarInit, In
<1> QED
    BY <1>1 DEF LookupInv

\* Set is the one step that changes the registration, and an event that is sent
\* over the link the one that may make a report due.
LEMMA RegistrationStep ==
    ASSUME [Next]_vars
    PROVE  /\ \/ registered' /\ req' = "send"
              \/ UNCHANGED registered /\ (req' = "probe" => req = "probe" \/ ~registered)
           /\ \/ reports' = 0
              \/ reports' \in {reports, reports - 1}
              \/ "app" \in links
<1> USE DEF startVars, routerVars, restVars, appVars
<1> DEFINE Same == UNCHANGED <<registered, reports>> /\ req' \in {req, "none"}
           Fewer == reports' \in {0, reports - 1} /\ UNCHANGED registered /\ req' \in {req, "none"}
           Sends == "app" \in links /\ UNCHANGED <<registered, req>>
           Creates == UNCHANGED <<registered, reports>> /\ (req' = "probe" => ~registered)
           Sets == UNCHANGED reports /\ registered' = TRUE /\ req' = "send"
<1>1. SidecarDies => Fewer
    BY SidecarDeath DEF SidecarEnds
<1>2. Main \/ Listen => Same
    BY Zenon DEF Main, Boot, AskForRequests, MakeOwnSenders, KeepOwnSender, MakeStatusSenders,
         KeepStatusSender, AskForAnswers, HealthChk, MakeSenders, KeepSender, Listen
<1>3. RouteEvent => Same \/ Sends
    <2>1. RouteEvent => UNCHANGED <<registered, req>> /\ ("app" \notin links => UNCHANGED reports)
        BY DEF RouteEvent
    <2> QED BY <2>1, Zenon
<1>4. Report => Fewer
    BY Zenon DEF Report
<1>5. RouteLink \/ Loop \/ StatusAnswered \/ PollHandler \/ (\E out \in Outputs : Receive(out)) => Same
    BY Zenon DEF RouteLink, Loop, TakeRequest, TakeAnswer, StartPost, Taken, StatusAnswered, PollHandler,
         PollSent, PollAborted, Receive
<1>6. CreateHandler => Creates
    BY DEF CreateHandler, CheckKnown, CreateFails, AskForApp
<1>7. Create => Creates
    BY DEF Create
<1>8. AppBoot \/ AppListen \/ OwnHealth \/ SideHealth \/ Created \/ GoOnWithout \/ PtpPanics \/ StartCollecting
      => Same
    BY Zenon DEF AppBoot, AppListen, OwnHealth, SideHealth, Created, GoOnWithout, PtpPanics,
         StartCollecting, sidecarVars
<1>9. EndpointAnswers => Sets
    BY Zenon DEF EndpointAnswers, Persist
<1>10. EventSubmit \/ PacketArrives \/ PacketLost \/ LatencySubmitted \/ LatencyCounted \/ PublisherAck \/ PostRefused
       => Same
    BY Zenon DEF EventSubmit, PacketArrives, PacketLost, SendPacket, Taken, LatencySubmitted, LatencyCounted,
         PublisherAck, PostRefused, PostReturns, sidecarVars
<1>11. VduPanics \/ AskStatus \/ GenerateEvent \/ GeneratorPanics \/ AppFatal \/ AppKilled \/ UNCHANGED vars
       => Same
    BY Zenon DEF VduPanics, AskStatus, GenerateEvent, Publish, GeneratorPanics, AppFatal, AppKilled,
         vars, sidecarVars
<1> HIDE DEF Same, Fewer, Sends, Creates, Sets
<1>12. Same \/ Fewer \/ Sends \/ Creates \/ Sets
    BY <1>1, <1>2, <1>3, <1>4, <1>5, <1>6, <1>7, <1>8, <1>9, <1>10, <1>11, Zenon
       DEF Next, SidecarRuns, Router, AppMain, AppServer
<1>13. Same \/ Fewer \/ Sends \/ Creates => UNCHANGED registered /\ (req' = "probe" => req = "probe" \/ ~registered)
    BY DEF Same, Fewer, Sends, Creates
<1>14. Same \/ Fewer \/ Sends \/ Creates \/ Sets
       => reports' = 0 \/ reports' \in {reports, reports - 1} \/ "app" \in links
    BY Zenon DEF Same, Fewer, Sends, Creates, Sets
<1> QED
    BY <1>12, <1>13, <1>14, Zenon DEF Sets

LEMMA LookupNext ==
    ASSUME TypeInv, KnownInv, LookupInv, [Next]_vars
    PROVE  LookupInv'
<1>a. /\ dataIn \in Seq(Links \cup EventKinds) /\ dataOut \in Seq(Outputs)
      /\ reports \in Nat /\ registered \in BOOLEAN /\ registered' \in BOOLEAN
    BY TypeNext DEF TypeInv, RestOK, FlagsOK
<1>b. In(<<>>) = {}
    BY DEF In
<1>c. registered => registered'
    BY <1>a, RegistrationStep, Zenon
<1>1. req' = "probe" => ~registered'
    BY <1>a, RegistrationStep DEF LookupInv
<1>2. "app" \in links' \cup In(dataIn') => registered
    <2>1. CASE SidecarEnds
        BY <1>b, <2>1 DEF SidecarEnds
    <2>2. CASE UNCHANGED <<dataIn, links, refused>>
        BY <2>2 DEF LookupInv
    <2>3. ASSUME NEW x, dataIn' = Append(dataIn, x), UNCHANGED links, x = "app" => AskForApp
          PROVE  "app" \in links' \cup In(dataIn') => registered
        <3>1. In(dataIn') = In(dataIn) \cup {x}
            BY <1>a, <2>3, InQueued
        <3>2. x = "app" => registered
            BY <2>3 DEF AskForApp, KnownInv
        <3> QED BY <2>3, <3>1, <3>2 DEF LookupInv
    <2>4. CASE dataIn # <<>> /\ dataIn' = Tail(dataIn) /\ links' \subseteq links \cup {Head(dataIn)}
        BY <1>a, <2>4, InTaken DEF LookupInv
    <2> QED BY <2>1, <2>2, <2>3, <2>4, QueueStep
<1>3. reports' > 0 => registered
    <2>1. "app" \in links => registered
        BY DEF LookupInv
    <2>2. reports' \in {reports, reports - 1} => (reports' > 0 => reports > 0)
        BY <1>a
    <2>3. reports' = 0 => ~(reports' > 0)
        OBVIOUS
    <2> QED BY <2>1, <2>2, <2>3, RegistrationStep, Zenon DEF LookupInv
<1>4. {"event", "ack"} \cap In(dataOut') # {} => registered
    <2>1. CASE dataOut' \in {<<>>, dataOut}
        BY <1>b, <2>1 DEF LookupInv
    <2>2. CASE dataOut # <<>> /\ dataOut' = Tail(dataOut)
        BY <1>a, <2>2, InTaken DEF LookupInv
    <2>3. ASSUME NEW x, dataOut' = Append(dataOut, x), Due(x)
          PROVE  {"event", "ack"} \cap In(dataOut') # {} => registered
        <3>1. In(dataOut') = In(dataOut) \cup {x}
            BY <1>a, <2>3, InQueued
        <3>2. x \in {"event", "ack"} => registered
            BY <2>3 DEF LookupInv, Due
        <3> QED BY <3>1, <3>2 DEF LookupInv
    <2> QED BY <2>1, <2>2, <2>3, OutStep
<1> QED
    BY <1>1, <1>2, <1>3, <1>4, <1>c DEF LookupInv

\* The loop does not look up the registry while the create of the pod is on its
\* way to its Set: nothing that is looked up is put out before that.
THEOREM LookupsApart == Spec => []LooksUpAlone
<1>1. LookupInv => LooksUpAlone
    BY DEF LookupInv, LooksUpAlone, In
<1>2. TypeInv /\ ReachInv /\ LookupInv /\ [Next]_vars => LookupInv'
    BY LookupNext DEF ReachInv
<1> QED
    BY <1>1, <1>2, TypeInit, TypeNext, ReachInit, ReachNext, LookupInit, PTL DEF Spec

-----------------------------------------------------------------------------
(* What applications die of.                                                       *)

LEMMA AppFalls ==
    ASSUME [Next]_vars, app # "down", app' = "down"
    PROVE  PtpPanics \/ VduPanics \/ GeneratorPanics \/ AppFatal \/ AppKilled
<1> USE DEF appVars
<1>1. CASE UNCHANGED app
    BY <1>1
<1>2. CASE SidecarDies
    BY <1>1, <1>2, SidecarDeath
<1>3. CASE SidecarRuns \/ (\E out \in Outputs : Receive(out) /\ Apart)
    BY <1>1, <1>3, Zenon DEF SidecarRuns, Apart
<1>4. CASE AppBoot \/ AppListen \/ OwnHealth \/ SideHealth \/ Create
    BY <1>4 DEF AppBoot, AppListen, OwnHealth, SideHealth, Create, AppStep
<1>5. CASE Created \/ GoOnWithout \/ StartCollecting
    BY <1>5 DEF Created, GoOnWithout, StartCollecting, AppStep
<1>6. CASE AppServer
    BY <1>1, <1>6, Zenon DEF AppServer, EventSubmit, PacketArrives, PacketLost,
         LatencySubmitted, LatencyCounted, PublisherAck, PostRefused, EndpointAnswers
<1>7. CASE AskStatus \/ GenerateEvent \/ UNCHANGED vars
    BY <1>1, <1>7, Zenon DEF AskStatus, GenerateEvent, vars
<1> QED
    BY <1>2, <1>3, <1>4, <1>5, <1>6, <1>7, Zenon DEF Next, AppMain

LEMMA BinBelow ==
    ASSUME NEW l \in Latencies, ~InRange(l)
    PROVE  l < 0
BY ReportAssumption DEF InRange, Bin

\* But for a kill and for a port it cannot listen on, an application dies only of
\* a latency below zero (vDU), or (PTP) of a rate its generator cannot live with
\* or a create that failed after the sidecar had been seen healthy.
THEOREM AppDeathHasCause == Spec => AppDiesWithCause
<1> DEFINE Cause == app # "down" /\ app' = "down" =>
                        \/ faults' > faults
                        \/ cfg.app = "vdu" /\ Head(latencyIn) < 0
                        \/ cfg.app = "ptp" /\ app = "running" /\ ~cfg.goodRate
                        \/ cfg.app = "ptp" /\ ~subscribed /\ (died \/ req = "failed")
<1>1. TypeInv /\ AppInv /\ [Next]_vars => Cause
    <2> SUFFICES ASSUME TypeInv, AppInv, [Next]_vars, app # "down", app' = "down" PROVE Cause
        OBVIOUS
    <2>1. CASE PtpPanics
        BY <2>1 DEF PtpPanics, NotCreated, AppInv
    <2>2. CASE VduPanics
        <3>1. Head(latencyIn) \in Latencies /\ ~InRange(Head(latencyIn)) /\ collecting
            BY <2>2 DEF VduPanics, CountPanics, TypeInv, RestOK
        <3> QED BY <3>1, BinBelow DEF AppInv
    <2>3. CASE GeneratorPanics
        BY <2>3, Zenon DEF GeneratorPanics
    <2>4. CASE AppFatal \/ AppKilled
        <3>1. Fault
            BY <2>4, Zenon DEF AppFatal, AppKilled
        <3> QED BY <3>1, SidecarAssumption DEF Fault, TypeInv, RestOK
    <2> QED BY <2>1, <2>2, <2>3, <2>4, AppFalls
<1>2. Spec => [](TypeInv /\ AppInv)
    BY TypeInit, TypeNext, AppInit, AppNext, PTL DEF Spec
<1>3. [](TypeInv /\ AppInv) /\ [][Next]_vars => [][Cause]_vars
    BY <1>1, PTL
<1> QED
    BY <1>2, <1>3, PTL DEF Spec, AppDiesWithCause
=============================================================================
