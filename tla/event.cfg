SPECIFICATION Spec
CONSTANTS
    s1 = s1 s2 = s2 w1 = w1 w2 = w2 w3 = w3
    Sender = {s1, s2}
    Worker = {w1, w2, w3}
    None = None
    MaxSends = 3
    Capacity = 2
    MaxHandler = 2
    Share = 1
INVARIANTS
    NumCovers OneLoop
PROPERTIES
    RefinesEventBag
SYMMETRY Alike
CHECK_DEADLOCK FALSE
