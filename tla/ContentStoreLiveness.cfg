CONSTANTS
    u1 = u1
    u2 = u2
    r1 = r1
    r2 = r2
    Unit <- Units
    Position <- Positions
    Absent = Absent
    Untouched = Untouched
    Delta <- OneDelta
    Title = {a}
    Request <- TwoRequests
    Nobody = Nobody
    MaxRevision = 2
SPECIFICATION FairSpec
PROPERTIES
    EveryRequestAnswered
