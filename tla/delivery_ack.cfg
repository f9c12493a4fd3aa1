SPECIFICATION Spec
CONSTANTS
    p = p
    c = c
    a1 = a1
    a2 = a2
    e1 = e1
    e2 = e2
    Sidecars = {p, c}
    Addrs = {a1, a2}
    Events = {e1, e2}
    AddrOf <- OneAddress
    SentBy <- FromProducer
    InCap = 1
    OutCap = 1
    None = None
    Clients <- BothAndStatus
    EventHandler <- OverHTTP
    MaxAsks = 2
    MaxFaults = 0
CHECK_DEADLOCK FALSE
INVARIANT AckMeansAccepted
