\* Two copies in opposite directions may wait for each other for ever, and so may
\* threads that zend_ts_hash_clean has confused (SomebodyGetsIn looks for those).
CONSTANTS
    t1 = t1
    t2 = t2
    t3 = t3
    t4 = t4
    Threads = {t1, t2, t3, t4}
    NoThread = NoThread
    a = a
    b = b
    main = main
    w1 = w1
    w2 = w2
    Main = main
    Workers = {w1, w2}
    Near = {w1}
    MaxIds = 2
    MaxFetches = 4
SPECIFICATION AllSpec
CHECK_DEADLOCK FALSE
INVARIANTS
    TypeOK
    Exclusion
    CountExact
    NoLeakedLock
    CountNotAbove
    TypesOK
    DeadlockNeedsCopyCycle
    ResourcesSafe
PROPERTIES
    ImplementsLock
    ImplementsLocks
    SomebodyGetsIn
