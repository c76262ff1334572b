CONSTANTS
    Paths = {p1, p2}
    NoPath = NoPath
    Renders = {r1, r2}
    SigQueueCap = 1
    SigBatch = 2
    MaxPathCache = 1
    Changing = {p1}
    MaxVersion = 2
    MaxFaults = 2
    Rest <- Few
    Unsigned = {2}
    MaxRenders = 3
    highEgress = 2
    egressHotSamples = 2
    cpuHot = 2
    cpuHotSamples = 3
    ioSampleTTL = 3
    u1 = u1  u2 = u2
    Accounts = {u1, u2}
    NoAccount = NoAccount
    Steps <- MCSteps
    MaxReadings = 4
SPECIFICATION Spec
INVARIANTS
    RenderInv
    NothingOlder
    RepeatsOverlap
    
SYMMETRY RenderSymmetry
CHECK_DEADLOCK FALSE
