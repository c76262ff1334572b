CONSTANTS
    Keys = {k1, k2}
    Stamps = {s1}
    NoRow = NoRow
    Workers = {w1, w2}
    Serialized = TRUE
    Faults = FALSE
    Machines <- Every
    Blockable = {k1}
    MaxRules = 2
    MaxDeletes = 3
SPECIFICATION BlockSpec
SYMMETRY Symmetry
INVARIANTS
    RecordMeansRule
    UnblockSticks
PROPERTIES
    ImplementsStore
