SPECIFICATION FairSpec
CONSTANTS
    Tasks = {main, a, b}
    Main = main
    NoTask = NULL
    MaxDepth = 2
    QuietSwitch = TRUE

INVARIANTS
    TypeOK
    SavedContexts
    CpuIsCurrent
    RunQueueIsOneCycle
PROPERTIES
    ResumesWhereItLeftOff
    AdvancesByOne
    EveryTaskRuns
    TicksAreServed
