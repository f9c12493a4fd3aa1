SPECIFICATION FairSpec
CONSTANTS
    Handlers = {h1}
    Addrs = {a1, a2}
    Ids = {i1, i2, i3}
    Requests <- AllRequests
    QueueCap = 1
    MaxCrashes = 1
    None = None
INVARIANT NoDuplicates
INVARIANT GoneForGood
INVARIANT FileAndStoreAgree
INVARIANT AckedArePersisted
INVARIANT AlwaysLoadable
PROPERTY Restarts
PROPERTY ActsAtOnce
