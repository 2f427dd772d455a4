------------------------------ MODULE MCThreads ------------------------------
(***************************************************************************)
(* What the threads of a server share: one thread-safe hash table in full  *)
(* detail (TsHashLock), two tables at once (TsHashTables) and the          *)
(* resources of the threads (Tsrm).  They have no state in common: a       *)
(* behaviour picks one of them and the others stay as they are, so that    *)
(* one run checks each by itself.                                          *)
(***************************************************************************)
EXTENDS TsHashLock, TsrmBounds

CONSTANTS t1, t2, t3, t4

\* Copies that may chase one another, or copy a table to itself.
CONSTANTS a, b
CopiedPairs   == {<<a, b>>, <<b, a>>, <<a, a>>}
ComparedPairs == {<<b, a>>}
VARIABLES agenda, readers, mxReaders, mxWriters
tables == <<agenda, readers, mxReaders, mxWriters>>
Tables == INSTANCE TsHashTables WITH
    Threads <- {t1, t2, t3}, Tables <- {a, b},
    Copied <- CopiedPairs, Compared <- ComparedPairs,
    reader <- readers, mxReader <- mxReaders, mxWriter <- mxWriters

\* A worker in the bucket of the main thread, and one in another bucket.
CONSTANTS main, w1, w2
VARIABLES idCount, done, table, storage, count, array, memory, tls, mutex, at,
          phase, fetches, misused
tsrm == <<idCount, done, table, storage, count, array, memory, tls, mutex, at,
          phase, fetches, misused>>
Resources == INSTANCE Tsrm

VARIABLE part

AllInit ==
    /\ part \in {"lock", "tables", "resources"}
    /\ Init
    /\ Tables!Init
    /\ Resources!Init

AllNext ==
    \/ part = "lock" /\ Next /\ UNCHANGED <<part, tables, tsrm>>
    \/ part = "tables" /\ Tables!Next /\ UNCHANGED <<part, vars, tsrm>>
    \/ part = "resources" /\ Resources!Next /\ UNCHANGED <<part, vars, tables>>

\* An idle thread need not call anything: the fairness of TsHashLock asks nothing
\* of the other two.
AllSpec ==
    /\ AllInit
    /\ [][AllNext]_<<part, vars, tables, tsrm>>
    /\ Fairness

\* The types of TsHashTables and Tsrm, and their properties under their own names.
TypesOK                == Tables!TypeOK /\ Resources!TypeOK
DeadlockNeedsCopyCycle == Tables!DeadlockNeedsCopyCycle
ImplementsLocks        == Tables!ImplementsLocks
ResourcesSafe          == Resources!ResourcesSafe
=============================================================================
