CONSTANTS
    r1 = r1
    r2 = r2
    r3 = r3
    r4 = r4
    Refs = {r1, r2, r3}
    MaxHandle = 3
    InitSize = 2
SPECIFICATION Spec
SYMMETRY Symmetry
INVARIANT
    DestructorsSeeLiveObjects
