CONSTANTS
    Hashes = {h1, h2, h3}
    NoHash = NoHash
    Known = {h1, h2}
    Has404 = {h2}
    Renderers = {r1, r2}
    QueueCap = 1
    MaxErrors = 1
    MaxRestarts = 1
    Cap = 2
    Cost = 1
SPECIFICATION QLiveSpec

    
PROPERTIES
    QueuedIsResolved
CHECK_DEADLOCK FALSE
