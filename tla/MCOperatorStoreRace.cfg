CONSTANTS
    Keys = {k1}
    Stamps = {s1}
    NoRow = NoRow
    Workers = {w1, w2}
    Serialized = FALSE
    Faults = FALSE
SPECIFICATION Spec
INVARIANTS
    NoGhost
