CONSTANTS
    Sessions = {s1}
    ChanCap = 1
    MaxPackets = 2
    c1 = c1
    c2 = c2
    es = es
    Callers = {c1, c2}
    Langs = {es, en}
    Items = {i1, i2}
    NoCaller = NoCaller
    DBFaults = TRUE
    Scopes <- MCScopes
SPECIFICATION FairSpec
INVARIANTS
    AuditInv
    FlagIsForeign
    NewsAreTrue
    
PROPERTIES
    CaptureEnds
    EveryAuditAnswered
