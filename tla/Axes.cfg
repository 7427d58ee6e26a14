SPECIFICATION Spec
CONSTANTS
    Id <- MCId
    Starts <- MCStarts
    Type = {"theorem", "lemma"}
    NoType = NoType
    MaxId = 8
    MaxWord = 2
    MaxGesture = 3
    MaxFault = 2
    MaxEvent = 4
    MaxRetry = 1
    Foreign = 201
CHECK_DEADLOCK FALSE
INVARIANTS
    CleanIsStored
    CurrentNeverRefused
PROPERTIES
    OnlyMyTypes
    MergeKeepsFacets
    NamesReachServer
