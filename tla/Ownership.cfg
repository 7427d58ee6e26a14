CONSTANTS
    r1 = r1
    r2 = r2
    Request <- Requests
    None = None
    Days = {1, 2}
    Start <- TwoDays
    Mentions <- TypedMentions
    Anchored = {2, 5}
    Deleted = {2, 3}
    MaxUnit = 6
    MaxObject = 4
    MaxSent = 3
SPECIFICATION FairSpec
INVARIANTS
    NeverOrphaned
    RestoredByDissolve
PROPERTIES
    ImplementsOneHome
    OnlyAnchorsFail
    EveryOpAnswered
CHECK_DEADLOCK FALSE
