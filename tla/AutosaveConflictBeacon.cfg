CONSTANTS
    m1 = m1
    m2 = m2
    m3 = m3
    d1 = d1
    d2 = d2
    None = None
    Mount <- ThreeMounts
    Device = {d1, d2}
    DeviceOf <- Reopened
    Happens = {"kill", "hide"}
    MaxEdits = 2
    MaxMergeRetries = 1
SPECIFICATION Spec
PROPERTIES
    NoClobber
CHECK_DEADLOCK FALSE
