SPECIFICATION Spec
CONSTANTS
    Letter = {"$", "*", "1"}
    Starts <- MCStarts
    NoMath = NoMath
    MaxEdit = 2
    MaxRange = 3
CHECK_DEADLOCK FALSE
INVARIANTS
    Settled
    NoPhantomDelta
    OneAtomEach
    EquationsKept
