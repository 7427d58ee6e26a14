CONSTANTS
    l1 = l1
    l2 = l2
    l3 = l3
    day = day
    book = book
    NoToken = NoToken
    None = None
    Login <- TwoLogins
    Space <- TwoLogins
    Client = {c1, c2}
    Leaver = {c1}
    Key <- Book
    Slug <- Book
    Request = {r1, r2}
SPECIFICATION FairSpec
INVARIANTS
    OneLiveSession
    TwoSpacesOverlapped
    NothingLeaks
    AnswersAgree
    NeverVanishes
PROPERTIES
    EveryPostAnswered
CHECK_DEADLOCK FALSE
