SPECIFICATION FairSpec
CONSTANTS
    Reqs = {r1, r2}
    Ops <- AllRequests
    Keys <- TwoKeys
    Stems <- OneStem
    Stem <- SameStem
    Exclusive <- Concurrent
    ClockMonotone = FALSE
    Faults = TRUE
    InitStatus = "Enabled"
    MaxVid = 2
    MaxBlocks = 2
    NoFile = NoFile
    Hole = Hole
    Empty = Empty
    a = a
    b = b
    ta = ta
    tb = tb
INVARIANTS TypeOK
PROPERTY Answered
