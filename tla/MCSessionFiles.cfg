\* The last session may be over.
CONSTANTS
    r1 = r1
    r2 = r2
    k1 = k1
    k2 = k2
    Requests = {r1, r2}
    Ids = {k1, k2}
    MaxSize = 2
    MaxStarts = 2
SPECIFICATION Spec
CHECK_DEADLOCK FALSE
INVARIANTS
    NoOldEnd
