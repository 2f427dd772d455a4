CONSTANTS
    d1 = d1
    d2 = d2
    d3 = d3
    Duplicates = {d1, d2, d3}
    MaxAlters = 4
    MaxCalls = 2
SPECIFICATION Spec
INVARIANTS
    GlobalAlive
