CONSTANTS
    a = a
    b = b
    z1 = z1
    z2 = z2
    z3 = z3
    h1 = h1
    h2 = h2
    Vars = {a, b}
    Zvals = {z1, z2, z3}
    Handles = {h1}
    BufferSize = 4
    MaxElems = 2
    HasDestructor = {FALSE}
    DestructorsAdd = FALSE
    MayDisable = FALSE
SPECIFICATION Spec
SYMMETRY Symmetry
INVARIANTS
    TypeOK
    NoUseAfterFree
    BufferExact
    NothingDangles
    RefcountExact
    GarbageHasRoot
