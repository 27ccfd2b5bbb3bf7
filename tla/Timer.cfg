SPECIFICATION Spec
CONSTANTS
    Frequencies = {100, 200}
    Delays = {5, 15, 20}
    Pause = 20
    Modulus = 8
    Devices = {0, 1, 12}
    MaxKeys = 2
    MaxNested = 2
INVARIANTS
    TypeOK
    InterruptsHaveHandlers
PROPERTIES
    SleepsAsAsked
    SleepEnds
