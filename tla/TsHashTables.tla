---------------------------- MODULE TsHashTables ----------------------------
(***************************************************************************)
(* Several thread-safe hash tables at once (Zend/zend_ts_hash.c): copying, *)
(* merging and comparing hold the locks of two tables together.            *)
(*                                                                         *)
(* A thread's agenda is what is left of the call it executes: a sequence   *)
(* of steps, each a record of what is done and to which table, executed    *)
(* from the head.  Each lock works as in TsHashLock, whose statements are  *)
(* the steps here.                                                         *)
(***************************************************************************)
EXTENDS Integers, Sequences, FiniteSets

CONSTANTS
    Threads, Tables, NoThread,
    Copied,     \* the pairs <<source, target>> some call copies or merges
    Compared    \* the pairs <<ht1, ht2>> some call compares

VARIABLES
    agenda,     \* the steps each thread still has to execute
    reader,     \* ht->reader of each table
    mxReader,   \* the holder of each table's mx_reader
    mxWriter    \* the holder of each table's mx_writer

vars == <<agenda, reader, mxReader, mxWriter>>

Step(op, table) == [op |-> op, table |-> table]

\* Mutant: begin_read that returns with mx_reader locked.
BeginRead_KeepsMutex(ht) == <<Step("lock_reader", ht), Step("count", ht)>>

BeginRead(ht)  == <<Step("lock_reader", ht), Step("count", ht), Step("unlock_reader", ht)>>
EndRead(ht)    == <<Step("lock_reader", ht), Step("uncount", ht), Step("unlock_reader", ht)>>
BeginWrite(ht) == <<Step("lock_writer", ht)>>
EndWrite(ht)   == <<Step("unlock_writer", ht)>>

Read(ht)  == BeginRead(ht) \o <<Step("read", ht)>> \o EndRead(ht)
Write(ht) == BeginWrite(ht) \o <<Step("write", ht)>> \o EndWrite(ht)

\* Mutant: the target is left as if it had been read.
Copy_EndsRead(source, target) ==
    BeginRead(source) \o BeginWrite(target)
        \o <<Step("read", source), Step("write", target)>>
        \o EndRead(target) \o EndRead(source)

\* zend_ts_hash_copy, zend_ts_hash_merge, zend_ts_hash_merge_ex
Copy(source, target) ==
    BeginRead(source) \o BeginWrite(target)
        \o <<Step("read", source), Step("write", target)>>
        \o EndWrite(target) \o EndRead(source)

\* zend_ts_hash_compare
Compare(ht1, ht2) ==
    BeginRead(ht1) \o BeginRead(ht2)
        \o <<Step("read", ht1), Step("read", ht2)>>
        \o EndRead(ht2) \o EndRead(ht1)

Calls == {Read(ht) : ht \in Tables} \cup {Write(ht) : ht \in Tables}
         \cup {Copy(pair[1], pair[2]) : pair \in Copied}
         \cup {Compare(pair[1], pair[2]) : pair \in Compared}

Init ==
    /\ agenda = [t \in Threads |-> <<>>]
    /\ reader = [ht \in Tables |-> 0]
    /\ mxReader = [ht \in Tables |-> NoThread]
    /\ mxWriter = [ht \in Tables |-> NoThread]

-----------------------------------------------------------------------------
Call(t) ==
    /\ agenda[t] = <<>>
    /\ \E call \in Calls : agenda' = [agenda EXCEPT ![t] = call]
    /\ UNCHANGED <<reader, mxReader, mxWriter>>

AtStep(t, op, ht) == agenda[t] # <<>> /\ Head(agenda[t]) = Step(op, ht)

Continue(t) == agenda' = [agenda EXCEPT ![t] = Tail(@)]

LockReader(t, ht) ==
    /\ AtStep(t, "lock_reader", ht)
    /\ mxReader[ht] = NoThread
    /\ mxReader' = [mxReader EXCEPT ![ht] = t]
    /\ Continue(t)
    /\ UNCHANGED <<reader, mxWriter>>

UnlockReader(t, ht) ==
    /\ AtStep(t, "unlock_reader", ht)
    /\ mxReader' = [mxReader EXCEPT ![ht] = NoThread]
    /\ Continue(t)
    /\ UNCHANGED <<reader, mxWriter>>

LockWriter(t, ht) ==
    /\ AtStep(t, "lock_writer", ht)
    /\ mxWriter[ht] = NoThread
    /\ mxWriter' = [mxWriter EXCEPT ![ht] = t]
    /\ Continue(t)
    /\ UNCHANGED <<reader, mxReader>>

UnlockWriter(t, ht) ==
    /\ AtStep(t, "unlock_writer", ht)
    /\ mxWriter' = [mxWriter EXCEPT ![ht] = NoThread]
    /\ Continue(t)
    /\ UNCHANGED <<reader, mxReader>>

\* The first reader has to lock mx_writer before it goes on.
CountReader(t, ht) ==
    /\ AtStep(t, "count", ht)
    /\ reader' = [reader EXCEPT ![ht] = @ + 1]
    /\ agenda' = [agenda EXCEPT ![t] =
           (IF reader'[ht] = 1 THEN BeginWrite(ht) ELSE <<>>) \o Tail(@)]
    /\ UNCHANGED <<mxReader, mxWriter>>

\* Mutant: the first reader to leave gives mx_writer back.
UncountReader_First(t, ht) ==
    /\ AtStep(t, "uncount", ht)
    /\ reader' = [reader EXCEPT ![ht] = @ - 1]
    /\ agenda' = [agenda EXCEPT ![t] =
           (IF mxWriter[ht] = t THEN EndWrite(ht) ELSE <<>>) \o Tail(@)]
    /\ UNCHANGED <<mxReader, mxWriter>>

\* The last reader gives it back.
UncountReader(t, ht) ==
    /\ AtStep(t, "uncount", ht)
    /\ reader' = [reader EXCEPT ![ht] = @ - 1]
    /\ agenda' = [agenda EXCEPT ![t] =
           (IF reader'[ht] = 0 THEN EndWrite(ht) ELSE <<>>) \o Tail(@)]
    /\ UNCHANGED <<mxReader, mxWriter>>

\* The zend_hash function that runs between the locks.
Access(t, ht) ==
    /\ AtStep(t, "read", ht) \/ AtStep(t, "write", ht)
    /\ Continue(t)
    /\ UNCHANGED <<reader, mxReader, mxWriter>>

Next == \E t \in Threads :
    \/ Call(t)
    \/ \E ht \in Tables :
          \/ LockReader(t, ht) \/ UnlockReader(t, ht)
          \/ LockWriter(t, ht) \/ UnlockWriter(t, ht)
          \/ CountReader(t, ht) \/ UncountReader(t, ht) \/ Access(t, ht)

Spec == Init /\ [][Next]_vars

-----------------------------------------------------------------------------
(* Properties *)

HowMany(t, op, ht) == Cardinality({i \in DOMAIN agenda[t] : agenda[t][i] = Step(op, ht)})

\* The threads a table's locked mx_writer is locked for: readers counted in
\* (the first of them once it has the mutex), or the writer that locked it.
HoldsForRead(u, ht) ==
    /\ HowMany(u, "uncount", ht) > HowMany(u, "count", ht)
    /\ ~(AtStep(u, "lock_writer", ht) /\ mxReader[ht] = u)
HoldsForWrite(u, ht) ==
    /\ HowMany(u, "unlock_writer", ht) > 0
    /\ HowMany(u, "lock_writer", ht) = 0
Holders(ht) == {u \in Threads : HoldsForRead(u, ht) \/ HoldsForWrite(u, ht)}

\* The threads that keep t from its next step.
Blockers(t) ==
    {u \in Threads : \E ht \in Tables :
        \/ AtStep(t, "lock_reader", ht) /\ mxReader[ht] = u
        \/ AtStep(t, "lock_writer", ht) /\ mxWriter[ht] # NoThread /\ u \in Holders(ht)}

\* A group of threads none of which can ever go on.
Stuck(group) == \A t \in group : Blockers(t) # {} /\ Blockers(t) \subseteq group

TypeOK ==
    /\ \A t \in Threads : \A i \in DOMAIN agenda[t] : agenda[t][i].table \in Tables
    /\ reader \in [Tables -> 0 .. 2 * Cardinality(Threads)]
    /\ mxReader \in [Tables -> Threads \cup {NoThread}]
    /\ mxWriter \in [Tables -> Threads \cup {NoThread}]

Table(ht) == INSTANCE ReadersWriterLock WITH
    readers <- {t \in Threads : AtStep(t, "read", ht)},
    writers <- {t \in Threads : AtStep(t, "write", ht)}

AccessOf(ht) == {access \in Threads \X {"read", "write"} : AtStep(access[1], access[2], ht)}

\* Every table on its own is protected by a readers-writer lock, also in the
\* calls that hold two of them (a table compared with itself is read once).
ImplementsLocks ==
    /\ \A ht \in Tables : Table(ht)!Init
    /\ [][\A ht \in Tables : Table(ht)!Next \/ UNCHANGED AccessOf(ht)]_vars

\* The copies under way that hold their source and wait for their target.
CopiesUnderWay ==
    {pair \in Copied : \E t \in Threads :
        /\ HoldsForRead(t, pair[1])
        /\ AtStep(t, "lock_writer", pair[2])
        /\ mxReader[pair[2]] # t}

\* zend_ts_hash_copy and zend_ts_hash_merge lock the source and then the target
\* in no fixed order of tables.  Threads deadlock, all or a few of them, only
\* when such calls chase one another around a cycle of tables (or copy a table
\* to itself); reading, writing and comparing tables in any order never does.
DeadlockNeedsCopyCycle ==
    \A group \in SUBSET Threads \ {{}} :
        Stuck(group) =>
            \E cycle \in SUBSET CopiesUnderWay \ {{}} :
                {pair[1] : pair \in cycle} = {pair[2] : pair \in cycle}
=============================================================================
