SPECIFICATION Spec
CONSTANTS
    Reqs = {r1, r2, r3}
    Ops <- Mutators
    Keys <- OneKey
    Stems <- OneStem
    Stem <- SameStem
    Exclusive <- Serial
    ClockMonotone = TRUE
    Faults = TRUE
    InitStatus = "Enabled"
    MaxVid = 3
    MaxBlocks = 1
    NoFile = NoFile
    Hole = Hole
    Empty = Empty
    a = a
    b = b
    ta = ta
    tb = tb
SYMMETRY Symmetry
INVARIANTS MirrorsNewestMeta
