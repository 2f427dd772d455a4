\* A script or a signal may be the last one: no deadlock is looked for.
CONSTANTS
    a = a
    b = b
    Sigs = {a, b}
    MaxEntries = 4
    Batch = 2
    MaxSignals = 3
    MaxRequests = 2
    MaxPieces = 2
    MaxBuffers = 2
    ChunkSize = 2
    d1 = d1
    d2 = d2
    d3 = d3
    Duplicates = {d1, d2, d3}
    MaxAlters = 4
    MaxCalls = 2
SPECIFICATION AllSpec
CHECK_DEADLOCK FALSE
INVARIANTS
    TypesOK
    QueueIntact
    StateAgrees
    
    
    
PROPERTIES
    Played
    FlushEnds
