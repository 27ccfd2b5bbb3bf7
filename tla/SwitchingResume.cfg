SPECIFICATION Spec
CONSTANTS
    Tasks = {main, a}
    Main = main
    NoTask = NULL
    MaxDepth = 2
    QuietSwitch = FALSE
PROPERTIES
    ResumesWhereItLeftOff
