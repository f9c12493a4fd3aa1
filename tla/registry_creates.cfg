SPECIFICATION FairSpec
CONSTANTS
    Handlers = {h1, h2}
    Addrs = {a1, a2}
    Ids = {i1, i2}
    Requests <- CreateAndGet
    QueueCap = 1
    MaxCrashes = 0
    None = None
INVARIANT NoPhantom
INVARIANT LinkRequested
INVARIANT GetReturnsAskedId
PROPERTY Answered
