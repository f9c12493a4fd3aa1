SPECIFICATION Spec
CONSTANTS
    p = p
    c = c
    a1 = a1
    a2 = a2
    e1 = e1
    e2 = e2
    Sidecars = {p, c}
    Addrs = {a1, a2}
    Events = {e1, e2}
    AddrOf <- TwoAddresses
    SentBy <- FromProducer
    InCap = 2
    OutCap = 1
    None = None
    Clients <- BothAndOwn
    EventHandler <- Mixed
    MaxAsks = 3
    MaxFaults = 2
INVARIANT TypeOK
INVARIANT DeliveredOnce
INVARIANT NotUnasked
INVARIANT OwnContent
INVARIANT LinksFollow
PROPERTY NoSilentDrop
CHECK_DEADLOCK FALSE
