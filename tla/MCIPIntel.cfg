CONSTANTS
    IPs = {a1, a2}
    NoIP = NoIP
    Callers = {c1, c2, c3}
    NoCaller = NoCaller
    MaxCache = 1
    TTL = 2
    PartialTTL = 1
    FeedTTL = 2
    FailTTL = 1
    Cap = 6
    Cost = 3
    From = 7
    MaxTime = 20
SPECIFICATION FairSpec
INVARIANTS
    LookupInv
    PartialIsCached
    WindowBound
PROPERTIES
    FailedDownloads
    EveryCallAnswered
    ImplementsLimit
