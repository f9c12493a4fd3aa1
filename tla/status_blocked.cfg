SPECIFICATION FairSpec
CONSTANTS
    r1 = r1
    r2 = r2
    r3 = r3
    b1 = b1
    Reqs = {r1, r2}
    Seqs = {0}
    SeqOf <- NoNumbers
    ZeroSeq = 0
    Responders = {b1}
    Unreadable <- NoneUnreadable
    ListenerCap = 1
    OutCap = 1
    None = None
PROPERTY LoopReturns
CHECK_DEADLOCK FALSE
