SPECIFICATION Spec
CONSTANTS
    WordBits = 4
    Capacity = 20
    MemBlocks = 20
    StartBlock = 3
    Entries = 5
    MaxNested = 2
    QuietInit = FALSE
    QuietPmm = TRUE
INVARIANTS
    ReservedStaysReserved
