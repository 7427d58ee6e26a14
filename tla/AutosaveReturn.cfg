CONSTANTS
    m1 = m1
    m2 = m2
    m3 = m3
    d1 = d1
    d2 = d2
    None = None
    Mount <- TwoMounts
    Device = {d1}
    DeviceOf <- SameDevice
    Happens = {"leave", "return", "insert", "keepMine", "takeTheirs", "blur", "online"}
    MaxEdits = 2
    MaxMergeRetries = 1
SPECIFICATION FairSpec
PROPERTIES
    NoClobber
    EveryCallEnds
CHECK_DEADLOCK FALSE
