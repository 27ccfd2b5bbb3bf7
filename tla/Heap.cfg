SPECIFICATION FairSpec
CONSTANTS
    Callers = {a, b, c}
    Sizes = {5, 16, 28}
    HeapStart = 4
    HeapBytes = 120
    HeaderBytes = 12
    SplitBytes = 16
    QuietHeap = TRUE
INVARIANTS
    TypeOK
    HandedOutOnce
    NothingLost
    Coalesced
PROPERTIES
    GivesUpOnlyIfFull
    CallsReturn
