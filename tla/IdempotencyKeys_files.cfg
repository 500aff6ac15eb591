CONSTANTS
    Keys = {k1, k2}
    Loop = loop
    Pruners = {p1}
    Inodes = {n1, n2, n3}
    None = none
    Torn = torn
    MaxOrders = 2
    MaxCrashes = 1
SPECIFICATION Spec
SYMMETRY Symmetry
INVARIANTS LostOnlyByOverlap
CHECK_DEADLOCK FALSE
