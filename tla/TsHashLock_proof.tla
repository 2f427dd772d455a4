-------------------------- MODULE TsHashLock_proof --------------------------
(***************************************************************************)
(* Proofs about the lock of a thread-safe hash table, for any finite set   *)
(* of threads, any of which may call zend_ts_hash_clean at any time.       *)
(***************************************************************************)
EXTENDS MCThreads, FiniteSetTheorems, TLAPS

\* Labels between taking part in the shared hold of mx_writer and giving it up.
Shared == {"br_unlock", "reading", "er_lock", "er_dec", "er_wunlock"}

\* mx_writer is held, and not by a thread that writes.
ForReaders == mxWriter # NoThread /\ Writing = {}

TypesInv ==
    /\ pc \in [Threads -> Labels]
    /\ reader \in Int
    /\ mxReader \in Threads \cup {NoThread}
    /\ mxWriter \in Threads \cup {NoThread}

ReaderMutexInv ==
    \A t \in Threads : pc[t] \in ReaderCritical <=> mxReader = t

WriterMutexInv ==
    \A t \in Threads : pc[t] = "writing" => mxWriter = t

SharedInv == \A t \in Threads : pc[t] \in Shared => ForReaders

\* How far the count can be trusted: when positive it is exact, except while
\* the first reader waits for mx_writer; when negative, mx_writer was never
\* given back and readers may come and go without it.
CountInv ==
    /\ reader > 0 => \/ reader = Cardinality(Counted)
                     \/ \E t \in Threads : pc[t] = "br_wlock"
    /\ reader < 0 => ForReaders
    /\ \A t \in Threads : pc[t] = "br_wlock" => reader \in {0, 1}
    /\ \A t \in Threads : pc[t] = "er_wunlock" =>
           /\ reader = 0
           /\ \A u \in Threads \ {t} : pc[u] \notin Shared

IInv == TypesInv /\ ReaderMutexInv /\ WriterMutexInv /\ SharedInv /\ CountInv

-----------------------------------------------------------------------------
\* Moving one thread to a label adds it to the counted threads or removes it.
LEMMA CountedAfterGoto ==
    ASSUME TypesInv, NEW t \in Threads, NEW l \in Labels, Goto(t, l)
    PROVE  /\ IsFiniteSet(Counted)
           /\ Cardinality(Counted) \in Nat
           /\ l \in CountedLabels => Counted' = Counted \cup {t}
           /\ l \notin CountedLabels => Counted' = Counted \ {t}
  <1>1. IsFiniteSet(Counted)
    BY ThreadsFinite, FS_Subset DEF Counted
  <1>2. Cardinality(Counted) \in Nat
    BY <1>1, FS_CardinalityType
  <1>3. \A u \in Threads : pc'[u] = IF u = t THEN l ELSE pc[u]
    BY DEF TypesInv, Goto
  <1>4. l \in CountedLabels => Counted' = Counted \cup {t}
    BY <1>3 DEF Counted
  <1>5. l \notin CountedLabels => Counted' = Counted \ {t}
    BY <1>3 DEF Counted
  <1> QED BY <1>1, <1>2, <1>4, <1>5

\* The number of counted threads after one of them moves.
LEMMA CountAfterGoto ==
    ASSUME TypesInv, NEW t \in Threads, NEW l \in Labels, Goto(t, l)
    PROVE  /\ Cardinality(Counted) \in Nat
           /\ (pc[t] \in CountedLabels <=> l \in CountedLabels) =>
                 Cardinality(Counted') = Cardinality(Counted)
           /\ pc[t] \notin CountedLabels /\ l \in CountedLabels =>
                 Cardinality(Counted') = Cardinality(Counted) + 1
           /\ pc[t] \in CountedLabels /\ l \notin CountedLabels =>
                 Cardinality(Counted') = Cardinality(Counted) - 1
  <1>1. t \in Counted <=> pc[t] \in CountedLabels
    BY DEF Counted
  <1>2. IsFiniteSet(Counted)
    BY CountedAfterGoto
  <1>3. Cardinality(Counted \cup {t}) =
          IF t \in Counted THEN Cardinality(Counted) ELSE Cardinality(Counted) + 1
    BY <1>2, FS_AddElement
  <1>4. Cardinality(Counted \ {t}) =
          IF t \in Counted THEN Cardinality(Counted) - 1 ELSE Cardinality(Counted)
    BY <1>2, FS_RemoveElement
  <1> QED BY <1>1, <1>3, <1>4, CountedAfterGoto

LEMMA InitEstablishesIInv == Init => IInv
  BY NoThreadIsNone DEF Init, IInv, TypesInv, Labels, ReaderCritical, ReaderMutexInv,
     WriterMutexInv, SharedInv, Shared, CountInv

-----------------------------------------------------------------------------
\* One lemma per statement of the lock.  In each, t is the thread that moves.

\* Steps that touch neither mutex nor the count, outside every critical label:
\* a call begins, or the function inside the table returns.
LEMMA CallStep ==
    ASSUME IInv, NEW t \in Threads,
           CallRead(t) \/ CallWrite(t) \/ FinishRead(t)
    PROVE  IInv'
  <1>1. /\ \A u \in Threads : u # t => pc'[u] = pc[u]
        /\ \/ pc[t] = "idle" /\ pc'[t] \in {"br_lock", "bw_lock"}
           \/ pc[t] = "reading" /\ pc'[t] = "er_lock"
        /\ UNCHANGED <<reader, mxReader, mxWriter>>
        /\ Goto(t, pc'[t])
    BY DEF IInv, TypesInv, CallRead, CallWrite, FinishRead, Goto
  <1>2. TypesInv'
    BY <1>1 DEF IInv, TypesInv, Labels, Goto
  <1>3. ReaderMutexInv' /\ WriterMutexInv'
    BY <1>1 DEF IInv, ReaderMutexInv, WriterMutexInv, ReaderCritical
  <1>4. Writing' = Writing
    BY <1>1 DEF Writing
  <1>5. SharedInv' /\ (ForReaders => ForReaders')
    BY <1>1, <1>4 DEF IInv, SharedInv, Shared, ForReaders
  <1>6. Cardinality(Counted') = Cardinality(Counted)
    BY <1>1, CountAfterGoto DEF IInv, Labels, CountedLabels
  <1>7. CountInv'
    BY <1>1, <1>5, <1>6 DEF IInv, CountInv, Shared
  <1> QED BY <1>2, <1>3, <1>5, <1>7 DEF IInv

\* zend_ts_hash_clean: the racing reset of the count.
LEMMA CleanStep ==
    ASSUME IInv, NEW t \in Threads, CallClean(t)
    PROVE  IInv'
  <1>1. /\ \A u \in Threads : u # t => pc'[u] = pc[u]
        /\ pc[t] = "idle" /\ pc'[t] = "bw_lock"
        /\ UNCHANGED <<mxReader, mxWriter>>
        /\ Goto(t, "bw_lock")
        /\ reader' \in {0, reader}
    BY DEF IInv, TypesInv, CallClean, Goto
  <1>2. TypesInv'
    BY <1>1 DEF IInv, TypesInv, Labels, Goto
  <1>3. ReaderMutexInv' /\ WriterMutexInv'
    BY <1>1 DEF IInv, ReaderMutexInv, WriterMutexInv, ReaderCritical
  <1>4. Writing' = Writing
    BY <1>1 DEF Writing
  <1>5. SharedInv' /\ (ForReaders => ForReaders')
    BY <1>1, <1>4 DEF IInv, SharedInv, Shared, ForReaders
  <1>6. Cardinality(Counted') = Cardinality(Counted)
    BY <1>1, CountAfterGoto DEF IInv, Labels, CountedLabels
  <1>7. CountInv'
    BY <1>1, <1>5, <1>6 DEF IInv, TypesInv, CountInv, Shared
  <1> QED BY <1>2, <1>3, <1>5, <1>7 DEF IInv

\* Locking and unlocking mx_reader.
LEMMA ReaderMutexStep ==
    ASSUME IInv, NEW t \in Threads,
           \/ LockReader(t, "br_lock", "br_inc")
           \/ LockReader(t, "er_lock", "er_dec")
           \/ UnlockReader(t, "br_unlock", "reading")
           \/ UnlockReader(t, "er_unlock", "idle")
    PROVE  IInv'
  <1>1. /\ \A u \in Threads : u # t => pc'[u] = pc[u]
        /\ \/ pc[t] = "br_lock" /\ pc'[t] = "br_inc"
           \/ pc[t] = "er_lock" /\ pc'[t] = "er_dec"
           \/ pc[t] = "br_unlock" /\ pc'[t] = "reading"
           \/ pc[t] = "er_unlock" /\ pc'[t] = "idle"
        /\ UNCHANGED <<reader, mxWriter>>
        /\ Goto(t, pc'[t])
    BY DEF IInv, TypesInv, LockReader, UnlockReader, Goto
  <1>2. TypesInv'
    BY <1>1 DEF IInv, TypesInv, Labels, ReaderCritical, Goto, LockReader, UnlockReader
  <1>3. ReaderMutexInv'
    BY <1>1, NoThreadIsNone
    DEF IInv, TypesInv, ReaderMutexInv, ReaderCritical, LockReader, UnlockReader
  <1>4. WriterMutexInv' /\ Writing' = Writing
    BY <1>1 DEF IInv, WriterMutexInv, Writing
  <1>5. SharedInv' /\ (ForReaders => ForReaders')
    BY <1>1, <1>4 DEF IInv, SharedInv, Shared, ForReaders
  <1>6. Cardinality(Counted') = Cardinality(Counted)
    BY <1>1, CountAfterGoto DEF IInv, Labels, ReaderCritical, CountedLabels
  <1>7. \A u \in Threads : pc'[u] \in Shared => pc[u] \in Shared
    BY <1>1 DEF Shared
  <1>8. \A u \in Threads : /\ pc'[u] = "br_wlock" <=> pc[u] = "br_wlock"
                           /\ pc'[u] = "er_wunlock" <=> pc[u] = "er_wunlock"
    BY <1>1
  <1>9. CountInv'
    BY <1>1, <1>5, <1>6, <1>7, <1>8 DEF IInv, CountInv
  <1> QED BY <1>2, <1>3, <1>4, <1>5, <1>9 DEF IInv

\* ++reader: only the transition to 1 goes for mx_writer; a positive count
\* below it, or a negative one, says that mx_writer is held for readers.
LEMMA CountReaderStep ==
    ASSUME IInv, NEW t \in Threads, CountReader(t)
    PROVE  IInv'
  <1>1. /\ \A u \in Threads : u # t => pc'[u] = pc[u]
        /\ pc[t] = "br_inc"
        /\ reader' = reader + 1
        /\ pc'[t] = IF reader = 0 THEN "br_wlock" ELSE "br_unlock"
        /\ UNCHANGED <<mxReader, mxWriter>>
        /\ Goto(t, pc'[t])
    BY DEF IInv, TypesInv, CountReader, Goto
  <1>2. TypesInv'
    BY <1>1 DEF IInv, TypesInv, Labels, ReaderCritical, Goto
  <1>3. ReaderMutexInv'
    BY <1>1 DEF IInv, ReaderMutexInv, ReaderCritical
  <1>4. WriterMutexInv' /\ Writing' = Writing
    BY <1>1 DEF IInv, WriterMutexInv, Writing
  <1>5. \A u \in Threads \ {t} : pc[u] \notin ReaderCritical
    BY <1>1 DEF IInv, ReaderMutexInv, ReaderCritical
  <1>6. Cardinality(Counted) \in Nat /\ Cardinality(Counted') = Cardinality(Counted) + 1
    BY <1>1, CountAfterGoto DEF IInv, Labels, ReaderCritical, CountedLabels
  <1>7. reader > 0 => reader = Cardinality(Counted)
    BY <1>1, <1>5 DEF IInv, CountInv, ReaderCritical
  <1>8. ASSUME reader > 0 PROVE ForReaders
    <2>1. Counted # {}
      BY <1>7, <1>8, FS_EmptySet
    <2>2. PICK u \in Threads : pc[u] \in CountedLabels
      BY <2>1 DEF Counted
    <2>3. pc[u] \in Shared
      BY <1>1, <1>5, <2>2 DEF CountedLabels, ReaderCritical, Shared
    <2> QED BY <2>3 DEF IInv, SharedInv
  <1>9. reader # 0 => ForReaders
    BY <1>8 DEF IInv, TypesInv, CountInv
  <1>10. ForReaders <=> ForReaders'
    BY <1>1, <1>4 DEF ForReaders
  <1>11. SharedInv'
    BY <1>1, <1>9, <1>10 DEF IInv, SharedInv, Shared
  <1>12. (reader > 0 => \/ reader = Cardinality(Counted)
                        \/ \E u \in Threads : pc[u] = "br_wlock")'
    <2>1. CASE reader = 0
      BY <1>1, <2>1
    <2>2. CASE reader # 0
      BY <1>1, <1>6, <1>7, <2>2 DEF IInv, TypesInv
    <2> QED BY <2>1, <2>2
  <1>13. (reader < 0 => ForReaders)'
    BY <1>1, <1>9, <1>10 DEF IInv, TypesInv
  <1>14. \A u \in Threads : pc'[u] = "br_wlock" => reader' \in {0, 1}
    BY <1>1, <1>5 DEF ReaderCritical
  <1>15. \A u \in Threads : pc'[u] # "er_wunlock"
    BY <1>1, <1>5 DEF ReaderCritical
  <1>16. CountInv'
    BY <1>12, <1>13, <1>14, <1>15 DEF CountInv
  <1> QED BY <1>2, <1>3, <1>4, <1>11, <1>16 DEF IInv

\* The first reader, or a writer, gets mx_writer: then nobody shares it.
LEMMA LockWriterStep ==
    ASSUME IInv, NEW t \in Threads,
           \/ LockWriter(t, "br_wlock", "br_unlock")
           \/ LockWriter(t, "bw_lock", "writing")
    PROVE  IInv'
  <1>1. /\ \A u \in Threads : u # t => pc'[u] = pc[u]
        /\ \/ pc[t] = "br_wlock" /\ pc'[t] = "br_unlock"
           \/ pc[t] = "bw_lock" /\ pc'[t] = "writing"
        /\ mxWriter = NoThread /\ mxWriter' = t /\ mxWriter' # NoThread
        /\ UNCHANGED <<reader, mxReader>>
        /\ Goto(t, pc'[t])
    BY NoThreadIsNone DEF IInv, TypesInv, LockWriter, Goto
  <1>2. TypesInv'
    BY <1>1 DEF IInv, TypesInv, Labels, ReaderCritical, Goto
  <1>3. ReaderMutexInv'
    BY <1>1 DEF IInv, ReaderMutexInv, ReaderCritical
  <1>4. Writing = {} /\ \A u \in Threads : pc[u] \notin Shared
    BY <1>1, NoThreadIsNone DEF IInv, WriterMutexInv, Writing, SharedInv, ForReaders
  <1>5. WriterMutexInv'
    BY <1>1, <1>4 DEF WriterMutexInv, Writing
  <1>6. pc[t] = "br_wlock" => ForReaders'
    BY <1>1, <1>4 DEF ForReaders, Writing
  <1>7. SharedInv'
    BY <1>1, <1>4, <1>6 DEF SharedInv, Shared
  <1>8. Cardinality(Counted') = Cardinality(Counted)
    BY <1>1, CountAfterGoto DEF IInv, Labels, ReaderCritical, CountedLabels
  <1>9. reader >= 0
    BY <1>1 DEF IInv, TypesInv, CountInv, ForReaders
  <1>10. CASE pc[t] = "bw_lock"
    <2>1. CountInv'
      BY <1>1, <1>4, <1>8, <1>9, <1>10 DEF IInv, TypesInv, CountInv, Shared
    <2> QED BY <1>2, <1>3, <1>5, <1>7, <2>1 DEF IInv
  <1>11. CASE pc[t] = "br_wlock"
    <2>1. \A u \in Threads \ {t} : pc[u] \notin ReaderCritical
      BY <1>11 DEF IInv, ReaderMutexInv, ReaderCritical
    <2>2. Counted = {t}
      BY <1>4, <1>11, <2>1 DEF Counted, CountedLabels, Shared, ReaderCritical
    <2>3. Cardinality(Counted) = 1
      BY <2>2, FS_Singleton
    <2>4. reader \in {0, 1}
      BY <1>11 DEF IInv, CountInv
    <2>5. \A u \in Threads : pc'[u] # "er_wunlock" /\ pc'[u] # "br_wlock"
      BY <1>1, <1>11, <2>1 DEF ReaderCritical
    <2>6. CountInv'
      BY <1>1, <1>8, <2>3, <2>4, <2>5 DEF CountInv
    <2> QED BY <1>2, <1>3, <1>5, <1>7, <2>6 DEF IInv
  <1> QED BY <1>1, <1>10, <1>11

\* --reader: the count is 0 afterwards only for the last one inside.
LEMMA UncountReaderStep ==
    ASSUME IInv, NEW t \in Threads, UncountReader(t)
    PROVE  IInv'
  <1>1. /\ \A u \in Threads : u # t => pc'[u] = pc[u]
        /\ pc[t] = "er_dec"
        /\ reader' = reader - 1
        /\ pc'[t] = IF reader = 1 THEN "er_wunlock" ELSE "er_unlock"
        /\ UNCHANGED <<mxReader, mxWriter>>
        /\ Goto(t, pc'[t])
    BY DEF IInv, TypesInv, UncountReader, Goto
  <1>2. TypesInv'
    BY <1>1 DEF IInv, TypesInv, Labels, ReaderCritical, Goto
  <1>3. ReaderMutexInv'
    BY <1>1 DEF IInv, ReaderMutexInv, ReaderCritical
  <1>4. WriterMutexInv' /\ Writing' = Writing
    BY <1>1 DEF IInv, WriterMutexInv, Writing
  <1>5. \A u \in Threads \ {t} : pc[u] \notin ReaderCritical
    BY <1>1 DEF IInv, ReaderMutexInv, ReaderCritical
  <1>6. Cardinality(Counted) \in Nat /\ Cardinality(Counted') = Cardinality(Counted) - 1
    BY <1>1, CountAfterGoto DEF IInv, Labels, ReaderCritical, CountedLabels
  <1>7. reader > 0 => reader = Cardinality(Counted)
    BY <1>1, <1>5 DEF IInv, CountInv, ReaderCritical
  <1>8. ForReaders /\ ForReaders'
    BY <1>1, <1>4 DEF IInv, SharedInv, Shared, ForReaders
  <1>9. SharedInv'
    BY <1>8 DEF SharedInv
  <1>10. (reader > 0 => reader = Cardinality(Counted))'
    BY <1>1, <1>6, <1>7 DEF IInv, TypesInv
  <1>11. ASSUME reader = 1, NEW u \in Threads \ {t} PROVE pc'[u] \notin Shared
    <2>1. Cardinality(Counted) = 1
      BY <1>7, <1>11
    <2>2. IsFiniteSet(Counted)
      BY ThreadsFinite, FS_Subset DEF Counted
    <2>3. PICK x : Counted = {x}
      BY <2>1, <2>2, FS_Singleton
    <2>4. t \in Counted
      BY <1>1 DEF Counted, CountedLabels
    <2>5. pc[u] \notin CountedLabels
      BY <2>3, <2>4 DEF Counted
    <2> QED BY <1>1, <1>5, <2>5 DEF CountedLabels, Shared, ReaderCritical
  <1>12. \A u \in Threads : /\ pc'[u] # "br_wlock"
                            /\ pc'[u] = "er_wunlock" => u = t /\ reader = 1
    BY <1>1, <1>5 DEF ReaderCritical
  <1>13. ASSUME NEW u \in Threads, pc'[u] = "er_wunlock"
         PROVE  reader' = 0 /\ \A v \in Threads \ {u} : pc'[v] \notin Shared
    <2>1. u = t /\ reader = 1
      BY <1>12, <1>13
    <2> QED BY <1>1, <1>11, <2>1
  <1>14. CountInv'
    BY <1>8, <1>10, <1>12, <1>13 DEF CountInv
  <1> QED BY <1>2, <1>3, <1>4, <1>9, <1>14 DEF IInv

\* The last reader, or the writer, gives mx_writer back.
LEMMA UnlockWriterStep ==
    ASSUME IInv, NEW t \in Threads,
           \/ UnlockWriter(t, "er_wunlock", "er_unlock")
           \/ UnlockWriter(t, "writing", "idle")
    PROVE  IInv'
  <1>1. /\ \A u \in Threads : u # t => pc'[u] = pc[u]
        /\ \/ pc[t] = "er_wunlock" /\ pc'[t] = "er_unlock"
           \/ pc[t] = "writing" /\ pc'[t] = "idle"
        /\ mxWriter' = NoThread
        /\ UNCHANGED <<reader, mxReader>>
        /\ Goto(t, pc'[t])
    BY DEF IInv, TypesInv, UnlockWriter, Goto
  <1>2. TypesInv'
    BY <1>1 DEF IInv, TypesInv, Labels, ReaderCritical, Goto
  <1>3. ReaderMutexInv'
    BY <1>1 DEF IInv, ReaderMutexInv, ReaderCritical
  <1>4. \A u \in Threads \ {t} : pc[u] \notin Shared
    BY <1>1 DEF IInv, SharedInv, ForReaders, Writing, CountInv
  <1>5. \A u \in Threads \ {t} : pc[u] # "writing"
    <2>1. CASE pc[t] = "writing"
      BY <2>1 DEF IInv, WriterMutexInv
    <2>2. CASE pc[t] = "er_wunlock"
      BY <2>2 DEF IInv, SharedInv, Shared, ForReaders, Writing
    <2> QED BY <1>1, <2>1, <2>2
  <1>6. WriterMutexInv' /\ SharedInv'
    BY <1>1, <1>4, <1>5 DEF WriterMutexInv, SharedInv, Shared
  <1>7. Cardinality(Counted') = Cardinality(Counted)
    BY <1>1, CountAfterGoto DEF IInv, Labels, ReaderCritical, CountedLabels
  <1>8. reader >= 0
    BY <1>1 DEF IInv, TypesInv, CountInv, ForReaders, Writing
  <1>9. CountInv'
    BY <1>1, <1>4, <1>7, <1>8 DEF IInv, TypesInv, CountInv, Shared
  <1> QED BY <1>2, <1>3, <1>6, <1>9 DEF IInv

LEMMA IInvIsInductive == IInv /\ [Next]_vars => IInv'
  <1> SUFFICES ASSUME IInv, [Next]_vars PROVE IInv'
    OBVIOUS
  <1>1. CASE UNCHANGED vars
    BY <1>1 DEF vars, IInv, TypesInv, ReaderMutexInv, WriterMutexInv, SharedInv,
                ForReaders, CountInv, Writing, Counted
  <1>2. ASSUME NEW t \in Threads, BeginRead(t) PROVE IInv'
    BY <1>2, CallStep, ReaderMutexStep, CountReaderStep, LockWriterStep DEF BeginRead
  <1>3. ASSUME NEW t \in Threads, EndRead(t) PROVE IInv'
    BY <1>3, CallStep, ReaderMutexStep, UncountReaderStep, UnlockWriterStep DEF EndRead
  <1>4. ASSUME NEW t \in Threads, BeginWrite(t) PROVE IInv'
    BY <1>4, CallStep, LockWriterStep DEF BeginWrite
  <1>5. ASSUME NEW t \in Threads, EndWrite(t) PROVE IInv'
    BY <1>5, UnlockWriterStep DEF EndWrite
  <1>6. ASSUME NEW t \in Threads, CallClean(t) PROVE IInv'
    BY <1>6, CleanStep
  <1> QED BY <1>1, <1>2, <1>3, <1>4, <1>5, <1>6 DEF Next

\* The inductive invariant holds in every reachable state.
THEOREM LockInvariant == Spec => []IInv
  BY InitEstablishesIInv, IInvIsInductive, PTL DEF Spec

-----------------------------------------------------------------------------
LEMMA IInvImpliesExclusion == IInv => Exclusion
  BY DEF IInv, WriterMutexInv, SharedInv, Shared, ForReaders, Exclusion, Writing, Reading

\* zend_ts_hash.c, every function: whoever writes the table is alone in it, for
\* any number of threads and whatever zend_ts_hash_clean does to the count.
THEOREM ExclusionHolds == Spec => []Exclusion
  BY LockInvariant, IInvImpliesExclusion, PTL

-----------------------------------------------------------------------------
\* ++reader and --reader move the count with the readers it counts, and a reset
\* can only lose readers, so the count drifts by no more than their number.
DriftInv == reader \in (Cardinality(Counted) - Cardinality(Threads)) .. Cardinality(Counted)

LEMMA DriftInvIsInductive == IInv /\ DriftInv /\ [Next]_vars => DriftInv'
  <1> SUFFICES ASSUME IInv, DriftInv, [Next]_vars PROVE DriftInv'
    OBVIOUS
  <1>0. Cardinality(Counted) \in Nat /\ Cardinality(Threads) \in Nat /\ reader \in Int
    BY ThreadsFinite, FS_Subset, FS_CardinalityType DEF Counted, IInv, TypesInv
  <1>1. CASE UNCHANGED vars
    BY <1>1 DEF vars, DriftInv, Counted
  <1>2. ASSUME NEW t \in Threads, CountReader(t) \/ UncountReader(t) PROVE DriftInv'
    <2>1. /\ Goto(t, pc'[t])
          /\ \/ pc[t] = "br_inc" /\ pc'[t] \in {"br_wlock", "br_unlock"} /\ reader' = reader + 1
             \/ pc[t] = "er_dec" /\ pc'[t] \in {"er_wunlock", "er_unlock"} /\ reader' = reader - 1
      BY <1>2 DEF IInv, TypesInv, CountReader, UncountReader, Goto
    <2>2. \/ reader' = reader + 1 /\ Cardinality(Counted') = Cardinality(Counted) + 1
          \/ reader' = reader - 1 /\ Cardinality(Counted') = Cardinality(Counted) - 1
      BY <2>1, CountAfterGoto DEF IInv, Labels, ReaderCritical, CountedLabels
    <2> QED BY <1>0, <2>2 DEF DriftInv
  <1>3. ASSUME NEW t \in Threads, CallClean(t) PROVE DriftInv'
    <2>1. /\ Goto(t, "bw_lock") /\ pc[t] = "idle" /\ reader' \in {0, reader}
      BY <1>3 DEF CallClean
    <2>2. Cardinality(Counted') = Cardinality(Counted)
      BY <2>1, CountAfterGoto DEF IInv, Labels, CountedLabels
    <2>3. Cardinality(Counted) <= Cardinality(Threads)
      BY ThreadsFinite, FS_Subset DEF Counted
    <2> QED BY <1>0, <2>1, <2>2, <2>3 DEF DriftInv
  <1>4. ASSUME NEW t \in Threads,
               \/ CallRead(t) \/ CallWrite(t) \/ FinishRead(t)
               \/ LockReader(t, "br_lock", "br_inc")
               \/ LockReader(t, "er_lock", "er_dec")
               \/ UnlockReader(t, "br_unlock", "reading")
               \/ UnlockReader(t, "er_unlock", "idle")
               \/ LockWriter(t, "br_wlock", "br_unlock")
               \/ LockWriter(t, "bw_lock", "writing")
               \/ UnlockWriter(t, "er_wunlock", "er_unlock")
               \/ UnlockWriter(t, "writing", "idle")
        PROVE  DriftInv'
    <2>1. /\ Goto(t, pc'[t]) /\ pc'[t] \in Labels /\ UNCHANGED reader
          /\ pc[t] \in CountedLabels <=> pc'[t] \in CountedLabels
      BY <1>4 DEF IInv, TypesInv, CallRead, CallWrite, FinishRead, LockReader, UnlockReader,
         LockWriter, UnlockWriter, Goto, Labels, ReaderCritical, CountedLabels
    <2>2. Cardinality(Counted') = Cardinality(Counted)
      BY <2>1, CountAfterGoto DEF IInv
    <2> QED BY <2>1, <2>2 DEF DriftInv
  <1> QED BY <1>1, <1>2, <1>3, <1>4 DEF Next, BeginRead, EndRead, BeginWrite, EndWrite

LEMMA DriftInvHolds == Spec => []DriftInv
  <1>1. Init => DriftInv
    <2> SUFFICES ASSUME Init PROVE DriftInv
      OBVIOUS
    <2>1. Counted = {}
      BY DEF Init, Counted, CountedLabels
    <2>2. Cardinality(Counted) = 0 /\ Cardinality(Threads) \in Nat
      BY <2>1, ThreadsFinite, FS_EmptySet, FS_CardinalityType
    <2> QED BY <2>2 DEF Init, DriftInv
  <1> QED BY <1>1, DriftInvIsInductive, LockInvariant, PTL DEF Spec

CleanedInv == cleaned \in BOOLEAN

LEMMA CleanedInvHolds == Spec => []CleanedInv
  <1>1. Init => CleanedInv
    BY DEF Init, CleanedInv
  <1>2. CleanedInv /\ [Next]_vars => CleanedInv'
    <2> SUFFICES ASSUME cleaned \in BOOLEAN, [Next]_vars PROVE cleaned' \in BOOLEAN
      BY DEF CleanedInv
    <2>1. ASSUME NEW t \in Threads, CallClean(t) PROVE cleaned' = TRUE
      BY <2>1 DEF CallClean
    <2>2. ASSUME NEW t \in Threads,
                 BeginRead(t) \/ EndRead(t) \/ BeginWrite(t) \/ EndWrite(t)
          PROVE  UNCHANGED cleaned
      BY <2>2 DEF BeginRead, EndRead, BeginWrite, EndWrite, CallRead, LockReader,
         CountReader, LockWriter, UnlockReader, FinishRead, UncountReader,
         UnlockWriter, CallWrite
    <2>3. CASE UNCHANGED vars
      BY <2>3 DEF vars
    <2> QED BY <2>1, <2>2, <2>3 DEF Next
  <1> QED BY <1>1, <1>2, PTL DEF Spec

\* The types of the lock's state, with the bounds of ht->reader.
THEOREM TypesHold == Spec => []TypeOK
  <1>1. ASSUME IInv, DriftInv, CleanedInv PROVE TypeOK
    <2>1. /\ Cardinality(Counted) \in Nat /\ Cardinality(Threads) \in Nat
          /\ Cardinality(Counted) <= Cardinality(Threads)
      BY ThreadsFinite, FS_Subset, FS_CardinalityType DEF Counted
    <2> QED BY <1>1, <2>1 DEF IInv, TypesInv, DriftInv, CleanedInv, TypeOK
  <1> QED BY <1>1, LockInvariant, DriftInvHolds, CleanedInvHolds, PTL

\* zend_ts_hash_clean never makes the count exceed the readers inside.
THEOREM CountNotAboveHolds == Spec => []CountNotAbove
  <1>1. ASSUME IInv, DriftInv PROVE CountNotAbove
    <2>1. Cardinality(Counted) \in Nat /\ Cardinality(Threads) \in Nat
      BY ThreadsFinite, FS_Subset, FS_CardinalityType DEF Counted
    <2> QED BY <1>1, <2>1 DEF DriftInv, CountNotAbove
  <1> QED BY <1>1, LockInvariant, DriftInvHolds, PTL

-----------------------------------------------------------------------------
(***************************************************************************)
(* Until zend_ts_hash_clean is called the count is exact, and mx_writer is *)
(* never left locked.                                                      *)
(***************************************************************************)
HeldBySomebody ==
    mxWriter # NoThread => \E t \in Threads : pc[t] \in Shared \cup {"writing"}

ExactInv == ~cleaned => reader = Cardinality(Counted) /\ HeldBySomebody

\* Steps that neither count nor uncount a reader, nor touch mx_writer.
LEMMA ExactCallStep ==
    ASSUME IInv, ExactInv, ~cleaned', NEW t \in Threads,
           \/ CallRead(t) \/ CallWrite(t) \/ FinishRead(t)
           \/ LockReader(t, "br_lock", "br_inc")
           \/ LockReader(t, "er_lock", "er_dec")
           \/ UnlockReader(t, "br_unlock", "reading")
           \/ UnlockReader(t, "er_unlock", "idle")
    PROVE  ExactInv'
  <1>1. /\ \A u \in Threads : u # t => pc'[u] = pc[u]
        /\ \/ pc[t] = "idle" /\ pc'[t] \in {"br_lock", "bw_lock"}
           \/ pc[t] = "reading" /\ pc'[t] = "er_lock"
           \/ pc[t] = "br_lock" /\ pc'[t] = "br_inc"
           \/ pc[t] = "er_lock" /\ pc'[t] = "er_dec"
           \/ pc[t] = "br_unlock" /\ pc'[t] = "reading"
           \/ pc[t] = "er_unlock" /\ pc'[t] = "idle"
        /\ UNCHANGED <<reader, mxWriter>>
        /\ Goto(t, pc'[t])
        /\ ~cleaned
    BY DEF IInv, TypesInv, CallRead, CallWrite, FinishRead, LockReader, UnlockReader, Goto
  <1>2. Cardinality(Counted') = Cardinality(Counted)
    BY <1>1, CountAfterGoto DEF IInv, Labels, ReaderCritical, CountedLabels
  <1>3. \A u \in Threads : pc[u] \in Shared \cup {"writing"} =>
            pc'[u] \in Shared \cup {"writing"}
    BY <1>1 DEF Shared
  <1>4. HeldBySomebody'
    BY <1>1, <1>3 DEF ExactInv, HeldBySomebody
  <1> QED BY <1>1, <1>2, <1>4 DEF ExactInv

\* The count moves with the number of threads it counts.
LEMMA ExactCountStep ==
    ASSUME IInv, ExactInv, ~cleaned', NEW t \in Threads,
           CountReader(t) \/ UncountReader(t)
    PROVE  ExactInv'
  <1>1. /\ \A u \in Threads : u # t => pc'[u] = pc[u]
        /\ UNCHANGED <<mxReader, mxWriter>>
        /\ Goto(t, pc'[t])
        /\ ~cleaned
        /\ \/ /\ pc[t] = "br_inc" /\ pc'[t] \in {"br_wlock", "br_unlock"}
              /\ reader' = reader + 1
           \/ /\ pc[t] = "er_dec" /\ reader' = reader - 1
              /\ pc'[t] = IF reader = 1 THEN "er_wunlock" ELSE "er_unlock"
    BY DEF IInv, TypesInv, CountReader, UncountReader, Goto
  <1>2. reader' = Cardinality(Counted')
    BY <1>1, CountAfterGoto DEF IInv, TypesInv, Labels, ReaderCritical, CountedLabels, ExactInv
  <1>3. CASE pc[t] = "br_inc"
    <2>1. HeldBySomebody'
      BY <1>1, <1>3 DEF ExactInv, HeldBySomebody, Shared
    <2> QED BY <1>2, <2>1 DEF ExactInv
  <1>4. CASE pc[t] = "er_dec" /\ reader = 1
    <2>1. HeldBySomebody'
      BY <1>1, <1>4 DEF HeldBySomebody, Shared
    <2> QED BY <1>2, <2>1 DEF ExactInv
  <1>5. CASE pc[t] = "er_dec" /\ reader # 1
    <2>1. IsFiniteSet(Counted) /\ Cardinality(Counted) # 1 /\ t \in Counted
      BY <1>1, <1>5, ThreadsFinite, FS_Subset DEF ExactInv, Counted, CountedLabels
    <2>2. Counted # {t}
      BY <2>1, FS_Singleton
    <2>3. PICK u \in Threads \ {t} : pc[u] \in CountedLabels
      BY <2>1, <2>2 DEF Counted
    <2>4. pc[u] # "br_wlock"
      BY <1>5, <2>3 DEF IInv, ReaderMutexInv, ReaderCritical
    <2>5. HeldBySomebody'
      BY <1>1, <2>3, <2>4 DEF HeldBySomebody, Shared, CountedLabels
    <2> QED BY <1>2, <2>5 DEF ExactInv
  <1> QED BY <1>1, <1>3, <1>4, <1>5

\* mx_writer changes hands.
LEMMA ExactWriterStep ==
    ASSUME IInv, ExactInv, ~cleaned', NEW t \in Threads,
           \/ LockWriter(t, "br_wlock", "br_unlock")
           \/ LockWriter(t, "bw_lock", "writing")
           \/ UnlockWriter(t, "er_wunlock", "er_unlock")
           \/ UnlockWriter(t, "writing", "idle")
    PROVE  ExactInv'
  <1>1. /\ \A u \in Threads : u # t => pc'[u] = pc[u]
        /\ \/ pc[t] = "br_wlock" /\ pc'[t] = "br_unlock"
           \/ pc[t] = "bw_lock" /\ pc'[t] = "writing"
           \/ pc[t] = "er_wunlock" /\ pc'[t] = "er_unlock" /\ mxWriter' = NoThread
           \/ pc[t] = "writing" /\ pc'[t] = "idle" /\ mxWriter' = NoThread
        /\ UNCHANGED reader
        /\ Goto(t, pc'[t])
        /\ ~cleaned
    BY DEF IInv, TypesInv, LockWriter, UnlockWriter, Goto
  <1>2. Cardinality(Counted') = Cardinality(Counted)
    BY <1>1, CountAfterGoto DEF IInv, Labels, ReaderCritical, CountedLabels
  <1>3. HeldBySomebody'
    BY <1>1 DEF HeldBySomebody, Shared
  <1> QED BY <1>1, <1>2, <1>3 DEF ExactInv

LEMMA ExactInvInit == Init => ExactInv
  <1> SUFFICES ASSUME Init PROVE ExactInv
    OBVIOUS
  <1>1. Counted = {}
    BY DEF Init, Counted, CountedLabels
  <1>2. reader = Cardinality(Counted)
    BY <1>1, FS_EmptySet DEF Init
  <1> QED BY <1>2 DEF Init, ExactInv, HeldBySomebody

LEMMA ExactInvIsInductive == IInv /\ ExactInv /\ [Next]_vars => ExactInv'
  <1> SUFFICES ASSUME IInv, ExactInv, [Next]_vars, ~cleaned' PROVE ExactInv'
    BY DEF ExactInv
  <1>1. CASE UNCHANGED vars
    BY <1>1 DEF vars, ExactInv, HeldBySomebody, Counted
  <1>2. ASSUME NEW t \in Threads, BeginRead(t) PROVE ExactInv'
    BY <1>2, ExactCallStep, ExactCountStep, ExactWriterStep DEF BeginRead
  <1>3. ASSUME NEW t \in Threads, EndRead(t) PROVE ExactInv'
    BY <1>3, ExactCallStep, ExactCountStep, ExactWriterStep DEF EndRead
  <1>4. ASSUME NEW t \in Threads, BeginWrite(t) PROVE ExactInv'
    BY <1>4, ExactCallStep, ExactWriterStep DEF BeginWrite
  <1>5. ASSUME NEW t \in Threads, EndWrite(t) PROVE ExactInv'
    BY <1>5, ExactWriterStep DEF EndWrite
  <1>6. ASSUME NEW t \in Threads PROVE ~CallClean(t)
    BY DEF CallClean
  <1> QED BY <1>1, <1>2, <1>3, <1>4, <1>5, <1>6 DEF Next

LEMMA ExactInvHolds == Spec => []ExactInv
  BY ExactInvInit, ExactInvIsInductive, LockInvariant, PTL DEF Spec

\* ht->reader is exactly the number of readers begin_read has let in, as long
\* as zend_ts_hash_clean does not reset it under them.
THEOREM CountExactHolds == Spec => []CountExact
  <1>1. ExactInv => CountExact
    BY DEF ExactInv, CountExact
  <1> QED BY <1>1, ExactInvHolds, PTL

\* No mutex stays locked once every thread has returned, as long as
\* zend_ts_hash_clean does not reset the count under a reader.
THEOREM NoLeakedLockHolds == Spec => []NoLeakedLock
  <1>1. IInv /\ ExactInv => NoLeakedLock
    BY DEF IInv, TypesInv, ReaderMutexInv, ExactInv, HeldBySomebody, Shared, NoLeakedLock
  <1> QED BY <1>1, LockInvariant, ExactInvHolds, PTL

-----------------------------------------------------------------------------
\* The threads inside the table change as the abstract lock allows.
LEMMA StepImplementsLock == IInv /\ IInv' /\ [Next]_vars => [RW!Next]_<<Reading, Writing>>
  <1> USE DEF Reading, Writing
  <1> SUFFICES ASSUME IInv, IInv', [Next]_vars,
                      ~ UNCHANGED <<Reading, Writing>>
               PROVE  RW!Next
    OBVIOUS
  <1>1. ~ UNCHANGED vars
    BY DEF vars
  <1>2. PICK t \in Threads : BeginRead(t) \/ EndRead(t) \/ BeginWrite(t)
                                \/ EndWrite(t) \/ CallClean(t)
    BY <1>1 DEF Next
  <1>3. /\ \A u \in Threads : u # t => pc'[u] = pc[u]
        /\ pc \in [Threads -> Labels] /\ pc' \in [Threads -> Labels]
    BY <1>2 DEF IInv, TypesInv, BeginRead, EndRead, BeginWrite, EndWrite, CallClean,
       CallRead, LockReader, CountReader, LockWriter, UnlockReader, FinishRead,
       UncountReader, UnlockWriter, CallWrite, Goto
  <1>4. CASE pc[t] = "reading"
    <2>1. pc'[t] = "er_lock"
      BY <1>2, <1>4 DEF IInv, TypesInv, BeginRead, EndRead, BeginWrite, EndWrite, CallClean,
         CallRead, LockReader, CountReader, LockWriter, UnlockReader, FinishRead,
         UncountReader, UnlockWriter, CallWrite, Goto
    <2>2. RW!LeaveRead(t)
      BY <1>3, <1>4, <2>1 DEF RW!LeaveRead
    <2> QED BY <2>2 DEF RW!Next
  <1>5. CASE pc[t] = "writing"
    <2>1. pc'[t] = "idle"
      BY <1>2, <1>5 DEF IInv, TypesInv, BeginRead, EndRead, BeginWrite, EndWrite, CallClean,
         CallRead, LockReader, CountReader, LockWriter, UnlockReader, FinishRead,
         UncountReader, UnlockWriter, CallWrite, Goto
    <2>2. Writing = {t}
      BY <1>5, IInvImpliesExclusion DEF Exclusion
    <2>3. RW!LeaveWrite(t)
      BY <1>3, <1>5, <2>1, <2>2 DEF RW!LeaveWrite
    <2> QED BY <2>3 DEF RW!Next
  <1>6. CASE pc[t] \notin {"reading", "writing"} /\ pc'[t] = "reading"
    <2>1. pc[t] = "br_unlock"
      BY <1>2, <1>6 DEF IInv, TypesInv, BeginRead, EndRead, BeginWrite, EndWrite, CallClean,
         CallRead, LockReader, CountReader, LockWriter, UnlockReader, FinishRead,
         UncountReader, UnlockWriter, CallWrite, Goto
    <2>2. Writing = {}
      BY <2>1 DEF IInv, SharedInv, Shared, ForReaders
    <2>3. RW!EnterRead(t)
      BY <1>3, <1>6, <2>2 DEF RW!EnterRead
    <2> QED BY <2>3 DEF RW!Next
  <1>7. CASE pc[t] \notin {"reading", "writing"} /\ pc'[t] = "writing"
    <2>1. Exclusion'
      BY IInvImpliesExclusion DEF IInv, TypesInv, ReaderMutexInv, WriterMutexInv, SharedInv,
         Shared, ForReaders, Exclusion
    <2>2. Reading' = {} /\ Writing' = {t}
      BY <1>3, <1>7, <2>1 DEF Exclusion
    <2>3. RW!EnterWrite(t)
      BY <1>3, <1>7, <2>2 DEF RW!EnterWrite
    <2> QED BY <2>3 DEF RW!Next
  <1>8. CASE pc[t] \notin {"reading", "writing"} /\ pc'[t] \notin {"reading", "writing"}
    BY <1>3, <1>8
  <1> QED BY <1>4, <1>5, <1>6, <1>7, <1>8

\* begin_read, end_read, begin_write and end_write implement the abstract
\* readers-writer lock.
THEOREM LockImplemented == Spec => ImplementsLock
  <1>1. Init => RW!Init
    BY DEF Init, RW!Init, Reading, Writing
  <1> QED BY <1>1, StepImplementsLock, LockInvariant, PTL DEF Spec, RW!Spec, ImplementsLock

-----------------------------------------------------------------------------
(* The resources of threads, next to any use of the tables: what Tsrm_proof says
   holds of AllSpec. *)

Kept == INSTANCE Tsrm_proof

LEMMA ResourcesInit == AllInit => Kept!Init
BY DEF AllInit, Resources!AllThreads, Kept!AllThreads, Resources!NoOne, Kept!NoOne,
       Resources!Cardinality, Kept!Cardinality, Resources!Init, Kept!Init, Resources!Out, Kept!Out,
       Resources!Running, Kept!Running, Resources!Blocks, Kept!Blocks,
       Resources!NULL, Kept!NULL

LEMMA ResourcesNext == Resources!Next => Kept!Next
BY DEF Resources!AllThreads, Kept!AllThreads, Resources!NoOne, Kept!NoOne,
       Resources!Cardinality, Kept!Cardinality, Resources!Next, Kept!Next, Resources!Fetch, Kept!Fetch, Resources!Find,
       Kept!Find, Resources!NewEntry, Kept!NewEntry, Resources!ReadStorage,
       Kept!ReadStorage, Resources!ReadElement, Kept!ReadElement,
       Resources!BeginLoad, Kept!BeginLoad, Resources!Load, Kept!Load,
       Resources!Grow, Kept!Grow, Resources!Grown, Kept!Grown,
       Resources!Loaded, Kept!Loaded, Resources!Attach, Kept!Attach,
       Resources!End, Kept!End, Resources!FreeEntries, Kept!FreeEntries,
       Resources!FreeThread, Kept!FreeThread, Resources!Serve, Kept!Serve,
       Resources!FreeWorkers, Kept!FreeWorkers, Resources!FreeId, Kept!FreeId,
       Resources!Shutdown, Kept!Shutdown, Resources!Unused, Kept!Unused,
       Resources!Out, Kept!Out, Resources!Running, Kept!Running,
       Resources!Ids, Kept!Ids, Resources!Blocks, Kept!Blocks, Resources!NULL,
       Kept!NULL, Resources!heap, Kept!heap

LEMMA ResourcesStep ==
    [AllNext]_<<part, vars, tables, tsrm>> => [Kept!Next]_Kept!vars
BY ResourcesNext DEF AllNext, tsrm, Kept!vars, Kept!heap

LEMMA ResourcesSpec == AllSpec => Kept!Spec
BY ResourcesInit, ResourcesStep, PTL DEF AllSpec, Kept!Spec

\* ts_resource_ex(): a thread never reads an array that has been freed or a
\* resource that is not there; ts_allocate_id() and allocate_new_resource() leave
\* every entry complete; every destructor gets its resource.
THEOREM ResourcesSafeHolds == AllSpec => []ResourcesSafe
<1>1. Kept!ResourcesSafe => ResourcesSafe
  BY DEF Resources!AllThreads, Kept!AllThreads, Resources!NoOne, Kept!NoOne,
         ResourcesSafe, Resources!ResourcesSafe, Kept!ResourcesSafe,
         Resources!ReadsAlive, Kept!ReadsAlive, Resources!Complete, Kept!Complete,
         Resources!AllDestroyed, Kept!AllDestroyed
<1>2. Kept!IsFiniteSet(Workers) /\ Kept!NoOne \notin Kept!AllThreads
  BY WorkersFinite, NoOneIsNone DEF IsFiniteSet, Kept!IsFiniteSet, NoOne, Kept!NoOne,
     AllThreads, Kept!AllThreads
<1>3. Kept!Spec => []Kept!ResourcesSafe
  BY <1>2, Kept!ResourcesSafeHolds, MainIsNoWorker, NearAreWorkers, MaxIdsNat
<1> QED
  BY <1>1, <1>3, ResourcesSpec, PTL
=============================================================================
