SPECIFICATION FairSpec
CONSTANTS
    Configs <- Deployments
    InCap = 1
    OutCap = 1
    MaxArrivals = 3
    MaxFaults = 2
    None = None
    Latencies <- SomeLatencies
    MaxBin = 2
    LatencyCap = 1
CHECK_DEADLOCK FALSE
INVARIANT TypeOK
INVARIANT RunningIsReachable
INVARIANT AnswererHasSender
INVARIANT LooksUpAlone
PROPERTY AppDiesWithCause
PROPERTY DropsOnlyAfterDeath
PROPERTY PostsReturn
PROPERTY PodComesUp
