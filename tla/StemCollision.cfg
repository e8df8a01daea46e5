SPECIFICATION Spec
CONSTANTS
    Reqs = {r1, r2}
    Ops <- PutOnly
    Keys <- TwoKeys
    Stems <- OneStem
    Stem <- SameStem
    Exclusive <- SerialPerKey
    ClockMonotone = TRUE
    Faults = FALSE
    InitStatus = "Disabled"
    MaxVid = 2
    MaxBlocks = 1
    NoFile = NoFile
    Hole = Hole
    Empty = Empty
    a = a
    b = b
    ta = ta
    tb = tb
SYMMETRY Symmetry
INVARIANTS LatestData
