CONSTANTS
    Baselines <- Days
    Minted = 4
    MaxSize = 6
SPECIFICATION Spec
INVARIANTS
    DeltasReachServer
    MergeIsThreeWay
    KeepMineKeepsMine
CHECK_DEADLOCK FALSE
