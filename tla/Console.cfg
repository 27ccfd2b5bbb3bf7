SPECIFICATION Spec
CONSTANTS
    Width = 2
    Height = 2
    Glyphs = {"x"}
    Blank = " "
    Raised = {0, 14, 17, 30}
    MaxOpen = 2
    MaxRow = 4
INVARIANTS
    TypeOK
    ScreenRecovers
PROPERTIES
    IsTerminal
