CONSTANTS
    u1 = u1
    u2 = u2
    r1 = r1
    r2 = r2
    Unit <- Units
    Position <- Positions
    Absent = Absent
    Untouched = Untouched
    Delta <- Deltas
    Title = {a, b}
    Request <- TwoRequests
    Nobody = Nobody
    MaxRevision = 3
SPECIFICATION Spec
INVARIANTS
    CheckpointIsContent
    ConstraintsNeverFire
    TornReadIsStale
PROPERTIES
    ImplementsRegister
SYMMETRY Symmetric
