CONSTANTS
    m1 = m1
    m2 = m2
    m3 = m3
    d1 = d1
    d2 = d2
    None = None
    Mount <- ThreeMounts
    Device = {d1, d2}
    DeviceOf <- Reopened
    Happens = {"loss", "kill", "insert", "delete", "keepMine", "takeTheirs"}
    MaxEdits = 2
    MaxMergeRetries = 1
SPECIFICATION Spec
INVARIANTS
    NothingLost
PROPERTIES
    NoClobber
CHECK_DEADLOCK FALSE
