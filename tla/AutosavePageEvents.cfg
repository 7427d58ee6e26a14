CONSTANTS
    m1 = m1
    m2 = m2
    m3 = m3
    d1 = d1
    d2 = d2
    None = None
    Mount <- TwoMounts
    Device = {d1, d2}
    DeviceOf <- TwoDevices
    Happens = {"loss", "close", "hide", "leave", "insert"}
    MaxEdits = 2
    MaxMergeRetries = 1
SPECIFICATION Spec
INVARIANTS
    BaselineIsCommitted
    SavedMeansStored
    OnlyMyEdits
SYMMETRY Symmetric
CHECK_DEADLOCK FALSE
