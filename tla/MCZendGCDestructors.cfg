CONSTANTS
    a = a
    b = b
    z1 = z1
    z2 = z2
    z3 = z3
    h1 = h1
    h2 = h2
    Vars = {a, b}
    Zvals = {z1, z2, z3}
    Handles = {h1, h2}
    BufferSize = 2
    MaxElems = 1
    HasDestructor = {TRUE, FALSE}
    DestructorsAdd = FALSE
    MayDisable = TRUE
SPECIFICATION Spec
SYMMETRY Symmetry
INVARIANTS
    FreesOnlyGarbage
    RefcountExact
