CONSTANTS
    a = a
    b = b
    z1 = z1
    z2 = z2
    z3 = z3
    h1 = h1
    h2 = h2
    Vars = {a, b}
    Zvals = {z1, z2}
    Handles = {h1}
    BufferSize = 3
    MaxElems = 1
    HasDestructor = {TRUE}
    DestructorsAdd = TRUE
    MayDisable = FALSE
SPECIFICATION Spec
SYMMETRY Symmetry
INVARIANTS
    FreesOnlyGarbage
