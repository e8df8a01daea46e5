SPECIFICATION Spec
CONSTANTS
    Reqs = {r1, r2, r3, r4}
    Ops <- Writers
    Keys <- TwoKeys
    Stems <- OneStem
    Stem <- SameStem
    Exclusive <- Serial
    ClockMonotone = TRUE
    Faults = TRUE
    InitStatus = "Disabled"
    MaxVid = 4
    MaxBlocks = 1
    NoFile = NoFile
    Hole = Hole
    Empty = Empty
    a = a
    b = b
    ta = ta
    tb = tb
SYMMETRY KeySymmetry
INVARIANTS MirrorsNewest AckedVersionWhole ReadYourWrites LatestIsLive AckedListed
