CONSTANTS
    Publishers = {p1, p2}
    Clients = {c1, c2}
    Events = {e1, e2}
    NoOne = NoOne
    NoEvent = NoEvent
    ChanCap = 1
    DBFaults = FALSE
SPECIFICATION FeedLiveSpec
INVARIANTS
    FeedInv
    NeverSendsOnClosed
PROPERTIES
    FeedGoesOn
