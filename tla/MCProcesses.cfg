\* The last process may have stopped and the last session ended: no deadlock is
\* looked for.
CONSTANTS
    p1 = p1
    p2 = p2
    p3 = p3
    Procs = {p1, p2, p3}
    Slots = {1}
    Maxes = {2}
    MaxSets = 2
    MaxUses = 2
    r1 = r1
    r2 = r2
    k1 = k1
    k2 = k2
    Requests = {r1, r2}
    Ids = {k1, k2}
    MaxSize = 2
    MaxStarts = 2
SPECIFICATION AllSpec
CHECK_DEADLOCK FALSE
INVARIANTS
    TypesOK
    BooksBalance
    FirstUserIsAlone
    FileIsLastWrite
    ReadIsCurrent
PROPERTIES
    GetReturns
    LockGranted
