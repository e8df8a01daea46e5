SPECIFICATION Spec
CONSTANTS
    Reqs = {r1, r2, r3}
    Ops <- AllRequests
    Keys <- OneKey
    Stems <- OneStem
    Stem <- SameStem
    Exclusive <- Serial
    ClockMonotone = TRUE
    Faults = FALSE
    InitStatus = "Enabled"
    MaxVid = 3
    MaxBlocks = 1
    NoFile = NoFile
    Hole = Hole
    Empty = Empty
    a = a
    b = b
    ta = ta
    tb = tb
SYMMETRY Symmetry
INVARIANTS ServedWhole
