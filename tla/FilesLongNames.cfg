SPECIFICATION Spec
CONSTANTS
    TypedNames <- ShortNames
    TypedContents <- ShortContents
    MAX_FILENAME = 2
    Names <- LineNames
    Stored <- StoredNames
    Contents <- LineContents
    MaxFiles = 2
    Writers = {w1, w2}
    Readers = {r1, r2}
    OneWriter = TRUE
    Alphabet = {32, 120, 200}
    MaxText = 3
    INT_MAX = 1048575
    Numbers = {0, 9, 10, 255, 4096, 1000000, 1048575, 1048576, 2097151}
INVARIANTS
    NamesAreUnique
