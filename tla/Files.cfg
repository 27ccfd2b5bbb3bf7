SPECIFICATION Spec
CONSTANTS
    TypedNames <- ShortNames
    TypedContents <- ShortContents
    MAX_FILENAME = 3
    Names <- LineNames
    Stored <- StoredNames
    Contents <- LineContents
    MaxFiles = 2
    Writers = {w1, w2}
    Readers = {r1, r2}
    OneWriter = TRUE
    Alphabet = {32, 120, 200}
    MaxText = 3
    INT_MAX = 1048575
    Numbers = {0, 9, 10, 255, 4096, 1000000, 1048575, 1048576, 2097151}
\* vfs_init may leave a full table without a file: every command fails then.
CHECK_DEADLOCK FALSE
INVARIANTS
    TypeOK
    NamesAreUnique
    ReadsBack
    PrintsCreatedFiles
    LibraryAgrees
    LinesParseAsTyped
PROPERTIES
    IsFileStore
