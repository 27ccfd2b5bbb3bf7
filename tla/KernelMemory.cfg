SPECIFICATION Spec
CONSTANTS
    WordBits = 4
    Capacity = 20
    MemBlocks = 20
    StartBlock = 3
    Entries = 5
    MaxNested = 3
    QuietInit = TRUE
    QuietPmm = TRUE
INVARIANTS
    TypeOK
    UsedCountsBits
    BlocksHaveOneOwner
    HeapIsContiguous
    IdentityMapped
PROPERTIES
    IsBlockPool
