CONSTANTS
    Sessions = {}
    ChanCap = 1
    MaxPackets = 1
    c1 = c1
    c2 = c2
    es = es
    Callers = {c1, c2}
    Langs = {es}
    Items = {}
    NoCaller = NoCaller
    DBFaults = FALSE
    Scopes <- MCScopes
SPECIFICATION Spec
INVARIANT FirewallWasAsked
