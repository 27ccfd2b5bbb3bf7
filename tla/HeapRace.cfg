SPECIFICATION Spec
CONSTANTS
    Callers = {a, b}
    Sizes = {5, 16, 28}
    HeapStart = 4
    HeapBytes = 120
    HeaderBytes = 12
    SplitBytes = 16
    QuietHeap = FALSE
INVARIANTS
    HandedOutOnce
