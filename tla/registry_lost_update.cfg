SPECIFICATION Spec
CONSTANTS
    Handlers = {h1, h2}
    Addrs = {a1, a2}
    Ids = {i1, i2}
    Requests <- RestartedReads
    QueueCap = 1
    MaxCrashes = 0
    None = None
SYMMETRY Symmetry
INVARIANT AckedArePersisted
