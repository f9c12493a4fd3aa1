SPECIFICATION FairSpec
CONSTANTS
    r1 = r1
    r2 = r2
    r3 = r3
    b1 = b1
    Reqs = {r1, r2, r3}
    Seqs = {0, 1, 2, 3}
    SeqOf <- OwnSeqOf
    ZeroSeq = 0
    Responders = {b1}
    Unreadable <- OneUnreadable
    ListenerCap = 1
    OutCap = 1
    None = None
INVARIANT TypeOK
INVARIANT AnswersMatch
INVARIANT SendNeverBlocks
PROPERTY KeepsPromise
