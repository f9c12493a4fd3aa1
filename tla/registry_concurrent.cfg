SPECIFICATION Spec
CONSTANTS
    Handlers = {h1, h2}
    Addrs = {a1, a2}
    Ids = {i1, i2}
    Requests <- AllRequests
    QueueCap = 1
    MaxCrashes = 1
    None = None
SYMMETRY Symmetry
INVARIANT TypeOK
INVARIANT Provenance
INVARIANT DistinctIds
CHECK_DEADLOCK FALSE
