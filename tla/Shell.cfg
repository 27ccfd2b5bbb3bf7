SPECIFICATION Spec
CONSTANTS
    LetterKeys = {"a"}
    ShiftKeys = {"left", "right"}
    MaxCommandLen = 3
    MaxOpen = 2
INVARIANTS
    TypeOK
    CommandsFindTheEnd
    ShiftFollowsKeys
PROPERTIES
    EditsLines
