SPECIFICATION FairSpec
CONSTANTS
    Threads = {t1, t2}
    Uploads = {u1}
    PartNumbers = {1, 2}
    b1 = b1
    b2 = b2
    Bodies = {b1, b2}
    Lists <- MCLists
    Worlds <- MCWorlds
    Empty = Empty
    None = None
INVARIANTS TypeOK StoredStays NoDebris GoneIsGone AbortedGone PartsKept ETagDescribes
PROPERTIES UploadsAreAtomic HandlersEnd
CHECK_DEADLOCK FALSE
