----------------------------- MODULE TsHashLock -----------------------------
(***************************************************************************)
(* The lock of one thread-safe hash table (Zend/zend_ts_hash.c): the first *)
(* reader takes mx_writer on behalf of all readers, the last one gives it  *)
(* back, and mx_reader guards the count of readers.  Every exported        *)
(* zend_ts_hash_* function is a read section or a write section.           *)
(*                                                                         *)
(* A thread's pc names the statement it is about to execute; a mutex is    *)
(* held by the thread that locked it, though any thread may unlock it.     *)
(***************************************************************************)
EXTENDS Integers, FiniteSets

CONSTANTS
    Threads,    \* the threads that share the table
    NoThread    \* the holder of an unlocked mutex

ASSUME ThreadsFinite  == IsFiniteSet(Threads)
ASSUME NoThreadIsNone == NoThread \notin Threads

VARIABLES
    pc,         \* the statement each thread executes next
    reader,     \* ht->reader
    mxReader,   \* the holder of ht->mx_reader
    mxWriter,   \* the holder of ht->mx_writer
    cleaned     \* history: zend_ts_hash_clean has been called

vars == <<pc, reader, mxReader, mxWriter, cleaned>>

\* The statements executed while holding mx_reader.
ReaderCritical == {"br_inc", "br_wlock", "br_unlock",
                   "er_dec", "er_wunlock", "er_unlock"}

Labels == ReaderCritical \cup
          {"idle", "br_lock", "reading", "er_lock", "bw_lock", "writing"}

\* Threads that ++reader counts and --reader has not yet uncounted.
CountedLabels == {"br_wlock", "br_unlock", "reading", "er_lock", "er_dec"}
Counted == {t \in Threads : pc[t] \in CountedLabels}

\* Threads in the protected part of a read section, and of a write section.
Reading == {t \in Threads : pc[t] = "reading"}
Writing == {t \in Threads : pc[t] = "writing"}

Goto(t, label) == pc' = [pc EXCEPT ![t] = label]

Init ==
    /\ pc = [t \in Threads |-> "idle"]
    /\ reader = 0
    /\ mxReader = NoThread
    /\ mxWriter = NoThread
    /\ cleaned = FALSE

-----------------------------------------------------------------------------
(* begin_read *)

CallRead(t) ==
    /\ pc[t] = "idle"
    /\ Goto(t, "br_lock")
    /\ UNCHANGED <<reader, mxReader, mxWriter, cleaned>>

LockReader(t, from, to) ==
    /\ pc[t] = from
    /\ mxReader = NoThread
    /\ mxReader' = t
    /\ Goto(t, to)
    /\ UNCHANGED <<reader, mxWriter, cleaned>>

UnlockReader(t, from, to) ==
    /\ pc[t] = from
    /\ mxReader' = NoThread
    /\ Goto(t, to)
    /\ UNCHANGED <<reader, mxWriter, cleaned>>

LockWriter(t, from, to) ==
    /\ pc[t] = from
    /\ mxWriter = NoThread
    /\ mxWriter' = t
    /\ Goto(t, to)
    /\ UNCHANGED <<reader, mxReader, cleaned>>

UnlockWriter(t, from, to) ==
    /\ pc[t] = from
    /\ mxWriter' = NoThread
    /\ Goto(t, to)
    /\ UNCHANGED <<reader, mxReader, cleaned>>

\* Mutant: begin_read that counts itself without going for mx_writer.
CountReader_NoGate(t) ==
    /\ pc[t] = "br_inc"
    /\ reader' = reader + 1
    /\ Goto(t, "br_unlock")
    /\ UNCHANGED <<mxReader, mxWriter, cleaned>>

\* Mutant: only the first reader is counted.
CountReader_Once(t) ==
    /\ pc[t] = "br_inc"
    /\ reader' = 1
    /\ Goto(t, IF reader = 0 THEN "br_wlock" ELSE "br_unlock")
    /\ UNCHANGED <<mxReader, mxWriter, cleaned>>

\* ht->reader is a zend_uint: the code only compares it with 0 and 1, so the
\* wrapped values after --reader at 0 are the negative ones here.
CountReader(t) ==
    /\ pc[t] = "br_inc"
    /\ reader' = reader + 1
    /\ Goto(t, IF reader + 1 = 1 THEN "br_wlock" ELSE "br_unlock")
    /\ UNCHANGED <<mxReader, mxWriter, cleaned>>

BeginRead(t) ==
    \/ CallRead(t)
    \/ LockReader(t, "br_lock", "br_inc")
    \/ CountReader(t)
    \/ LockWriter(t, "br_wlock", "br_unlock")
    \/ UnlockReader(t, "br_unlock", "reading")

-----------------------------------------------------------------------------
(* end_read *)

\* The function called on the table returns.
FinishRead(t) ==
    /\ pc[t] = "reading"
    /\ Goto(t, "er_lock")
    /\ UNCHANGED <<reader, mxReader, mxWriter, cleaned>>

\* Mutant: end_read that takes the locks but forgets --reader.
UncountReader_Forgets(t) ==
    /\ pc[t] = "er_dec"
    /\ Goto(t, IF reader = 0 THEN "er_wunlock" ELSE "er_unlock")
    /\ UNCHANGED <<reader, mxReader, mxWriter, cleaned>>

\* Mutant: end_read that unlocks mx_writer when one reader is left.
UncountReader_OneLeft(t) ==
    /\ pc[t] = "er_dec"
    /\ reader' = reader - 1
    /\ Goto(t, IF reader - 1 = 1 THEN "er_wunlock" ELSE "er_unlock")
    /\ UNCHANGED <<mxReader, mxWriter, cleaned>>

\* Mutant: every end_read unlocks mx_writer.
UncountReader_Always(t) ==
    /\ pc[t] = "er_dec"
    /\ reader' = reader - 1
    /\ Goto(t, "er_wunlock")
    /\ UNCHANGED <<mxReader, mxWriter, cleaned>>

UncountReader(t) ==
    /\ pc[t] = "er_dec"
    /\ reader' = reader - 1
    /\ Goto(t, IF reader - 1 = 0 THEN "er_wunlock" ELSE "er_unlock")
    /\ UNCHANGED <<mxReader, mxWriter, cleaned>>

\* Mutant: end_read that ends with tsrm_mutex_lock(ht->mx_reader).
EndRead_Relocks(t) ==
    \/ FinishRead(t)
    \/ LockReader(t, "er_lock", "er_dec")
    \/ UncountReader(t)
    \/ UnlockWriter(t, "er_wunlock", "er_unlock")
    \/ LockReader(t, "er_unlock", "idle")

EndRead(t) ==
    \/ FinishRead(t)
    \/ LockReader(t, "er_lock", "er_dec")
    \/ UncountReader(t)
    \/ UnlockWriter(t, "er_wunlock", "er_unlock")
    \/ UnlockReader(t, "er_unlock", "idle")

-----------------------------------------------------------------------------
(* begin_write, end_write *)

CallWrite(t) ==
    /\ pc[t] = "idle"
    /\ Goto(t, "bw_lock")
    /\ UNCHANGED <<reader, mxReader, mxWriter, cleaned>>

BeginWrite(t) == CallWrite(t) \/ LockWriter(t, "bw_lock", "writing")

EndWrite(t) == UnlockWriter(t, "writing", "idle")

(* zend_ts_hash_clean stores 0 in ht->reader before it takes any lock.  The *)
(* store races with ++reader and --reader, which load, add and store: it is *)
(* lost when it falls between their load and their store.                   *)
CallClean(t) ==
    /\ pc[t] = "idle"
    /\ \/ reader' = 0
       \/ /\ \E u \in Threads : pc[u] \in {"br_inc", "er_dec"}
          /\ UNCHANGED reader
    /\ cleaned' = TRUE
    /\ Goto(t, "bw_lock")
    /\ UNCHANGED <<mxReader, mxWriter>>

Next == \E t \in Threads :
    BeginRead(t) \/ EndRead(t) \/ BeginWrite(t) \/ EndWrite(t) \/ CallClean(t)

(***************************************************************************)
(* A thread inside a call keeps executing; the mutexes promise no order    *)
(* among the threads that wait for them, so no more than this is assumed.  *)
(***************************************************************************)
Step(t) == /\ pc[t] # "idle"
           /\ BeginRead(t) \/ EndRead(t) \/ BeginWrite(t) \/ EndWrite(t)

Fairness == \A t \in Threads : WF_vars(Step(t))

Spec == Init /\ [][Next]_vars

FairSpec == Spec /\ Fairness

-----------------------------------------------------------------------------
(* Properties *)

\* However often zend_ts_hash_clean resets it, ht->reader (an unsigned int)
\* stays within the number of threads of 0.
TypeOK ==
    /\ pc \in [Threads -> Labels]
    /\ reader \in -Cardinality(Threads) .. Cardinality(Threads)
    /\ mxReader \in Threads \cup {NoThread}
    /\ mxWriter \in Threads \cup {NoThread}
    /\ cleaned \in BOOLEAN

\* zend_ts_hash.c: while a function that writes runs inside begin_write and
\* end_write no other function is inside the table, whatever order the two
\* mutexes change hands in and even while zend_ts_hash_clean resets the count.
Exclusion == \A t \in Writing : Writing = {t} /\ Reading = {}

\* As long as nobody calls zend_ts_hash_clean, ht->reader is the number of threads
\* that begin_read let in and end_read has not let out.
CountExact == ~cleaned => reader = Cardinality(Counted)

\* As long as nobody calls zend_ts_hash_clean, no mutex is left locked by threads
\* that have all returned: mx_writer, which one thread may lock and another
\* unlock, is held by a writer or on behalf of a reader still inside.
NoLeakedLock ==
    ~cleaned =>
        /\ mxWriter # NoThread =>
               \E t \in Threads : pc[t] \in {"writing", "br_unlock", "reading",
                                           "er_lock", "er_dec", "er_wunlock"}
        /\ mxReader # NoThread => pc[mxReader] \in ReaderCritical

\* A lost or repeated reset never makes the count too high, so the last reader
\* is never mistaken for one of several because of zend_ts_hash_clean.
CountNotAbove == reader <= Cardinality(Counted)

\* The abstract lock, seen through who is inside the table.
RW == INSTANCE ReadersWriterLock WITH readers <- Reading, writers <- Writing

\* begin_read, end_read, begin_write and end_write implement a readers-writer
\* lock: threads enter only when the abstract lock lets them.
ImplementsLock == RW!Spec

\* Deadlock freedom: when some thread waits in begin_read or begin_write, some
\* thread gets in, unless zend_ts_hash_clean has lost the count.  (A given
\* writer may wait for ever: nothing stops readers from overlapping.)
Waiting(t) == pc[t] \in {"br_lock", "br_inc", "br_wlock", "br_unlock", "bw_lock"}
SomebodyGetsIn ==
    (\E t \in Threads : Waiting(t)) ~> (Reading \cup Writing # {} \/ cleaned)
=============================================================================
