SPECIFICATION FairSpec
CONSTANTS
    k1 = k1
    k2 = k2
    x1 = x1
    x2 = x2
    AccessKeys = {k1}
    None = None
    Seed = Seed
    NoChain = NoChain
    BufBlocks = 2
    Bucket <- bb
    Block <- MCBlocks
    Word = 16
    Worlds <- MCWorlds
INVARIANTS TypeOK AsIntended HonestAccepted ChangesAreAsked CommittedIsSent ChunkedIsWhole RangeIsSlice PagesLoseOnlyMarkers NothingListedTwice PresignedWindow CalendarRight
PROPERTIES RequestsEnd
CHECK_DEADLOCK FALSE
