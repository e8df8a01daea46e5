SPECIFICATION Spec
CONSTANTS
    Reqs = {r1, r2, r3}
    Ops <- Readers
    Keys <- TwoKeys
    Stems <- TwoStems
    Stem <- OwnStem
    Exclusive <- SerialPerKey
    ClockMonotone = TRUE
    Faults = TRUE
    InitStatus = "Enabled"
    MaxVid = 4
    MaxBlocks = 2
    NoFile = NoFile
    Hole = Hole
    Empty = Empty
    a = a
    b = b
    ta = ta
    tb = tb
SYMMETRY Symmetry
INVARIANTS ServedWhole
