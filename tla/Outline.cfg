SPECIFICATION Spec
CONSTANTS
    Unit <- MCUnit
    Place <- MCPlace
    Line <- MCLine
    Starts <- MCStarts
    Top = Top
    Type = {}
    NoType = NoType
    NoUnit = NoUnit
    Display = Display
    NoDoc = NoDoc
    MaxUnit = 6
    MaxGesture = 2
    MaxFault = 1
    MaxRetry = 1
    Foreign = {201}
    KeepHeadings = TRUE
CHECK_DEADLOCK FALSE
INVARIANTS
    Forest
    AloneNeverRefused
    ShownIsStored
PROPERTIES
    ImplementsUnitTree
    MergeKeepsHomedWords
