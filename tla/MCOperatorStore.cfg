CONSTANTS
    Keys = {k1, k2}
    Stamps = {s1}
    NoRow = NoRow
    Workers = {w1, w2}
    Serialized = TRUE
    Faults = TRUE
SPECIFICATION LiveSpec
INVARIANTS
    Permanent
    NoGhost
    SettingSaved
PROPERTIES
    EveryRequestAnswered
