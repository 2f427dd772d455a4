------------------------------ MODULE Tsrm_proof ------------------------------
(***************************************************************************)
(* Proof that no thread reads an array of pointers that has been freed,    *)
(* that every entry is complete whenever the mutex is free, and that every *)
(* destructor gets its resource, for any number of threads and modules.    *)
(*                                                                         *)
(* A thread reads its array without the mutex.  It may, because its entry  *)
(* is its own from when it knows of it, and because Main changes what is   *)
(* in the arrays only while the server starts or stops, when no other      *)
(* thread is there.                                                        *)
(***************************************************************************)
EXTENDS Tsrm, FiniteSetTheorems, TLAPS

Labels == {"out", "running", "find", "read", "deref", "grow", "grown"}

\* What a thread does.
Doing == [at : Labels, id : 0 .. MaxIds, array : Blocks \cup {NULL},
          todo : SUBSET AllThreads, entry : AllThreads \cup {NoOne}]

Types ==
    /\ idCount \in 0 .. MaxIds /\ done \subseteq 1 .. idCount
    /\ table \subseteq AllThreads
    /\ storage \in [AllThreads -> Blocks \cup {NULL}]
    /\ count \in [AllThreads -> 0 .. MaxIds]
    /\ array \in [Blocks -> SUBSET Ids]
    /\ tls \in [AllThreads -> BOOLEAN]
    /\ at \in [AllThreads -> Doing]

\* Main keeps the mutex while it loads a module, nobody else for more than a step.
Loading == at[Main].at \in {"grow", "grown"}
Locked  == mutex = IF Loading THEN Main ELSE NoOne

\* What the server does when: there are other threads only while it serves, and
\* modules come before that and go after it.
Order ==
    /\ \A t \in Workers : at[t].at \notin {"grow", "grown"}
    /\ phase # "serving" => \A t \in Workers : at[t] = Out
    /\ phase \in {"startup", "serving"} => done = {}
    /\ Loading => phase = "startup" /\ idCount > 0
    /\ phase = "over" => at[Main] = Out /\ table = {}

\* What a thread relies on.  One that has found its entry has it until it ends.
Relies(t) ==
    /\ tls[t] => t \in table \/ phase = "over"
    /\ tls[t] => t = Main \/ at[t].at # "out"
    /\ at[t].at \in {"find", "read", "deref"} => at[t].id \in (1 .. idCount) \ done
    /\ at[t].at \in {"read", "deref"} => t \in table
    /\ at[t].at = "deref" => at[t].array = storage[t]

\* The entries that ts_allocate_id() has yet to give the new resource, and the
\* array of an entry, from realloc() on the new one.
Small ==
    IF at[Main].at = "grow" THEN at[Main].todo
    ELSE IF at[Main].at = "grown" THEN at[Main].todo \cup {at[Main].entry} ELSE {}
ArrayOf(t) == IF at[Main].at = "grown" /\ t = at[Main].entry THEN at[Main].array ELSE storage[t]

\* Every entry has an array of its own with what it should hold, and there are no
\* other arrays.
Entries ==
    /\ Small \subseteq table
    /\ at[Main].at = "grown" => at[Main].entry \notin at[Main].todo
    /\ \A t \in table :
          /\ ArrayOf(t) \in Blocks
          /\ count[t] = IF t \in Small THEN idCount - 1 ELSE idCount
          /\ array[ArrayOf(t)] = (1 .. count[t]) \ done
    /\ \A t, u \in table : ArrayOf(t) = ArrayOf(u) => t = u
    /\ memory = {ArrayOf(t) : t \in table}

RInv ==
    /\ Types /\ Locked /\ Order
    /\ \A t \in AllThreads : Relies(t)
    /\ Entries
    /\ ~misused

-----------------------------------------------------------------------------
(* Threads, arrays and what a step leaves as it is *)

\* Main is none of the workers and nobody is no thread.
LEMMA Threads ==
    /\ Main \in AllThreads /\ Main # NoOne
    /\ \A t \in AllThreads : t # NoOne /\ (t = Main \/ t \in Workers) /\ (t \in Workers => t # Main)
    /\ \A t \in Workers : t \in AllThreads
BY MainIsNoWorker, NoOneIsNone DEF AllThreads

\* A thread outside of all calls, and one that runs its script.
LEMMA OutTypes ==
    /\ Out \in Doing /\ Running \in Doing
    /\ Out.at = "out" /\ Running.at = "running" /\ Out # Running
<1>1. 0 \in 0 .. MaxIds
  BY MaxIdsNat
<1> QED
  BY <1>1 DEF Out, Running, Doing, Labels

\* The entries' arrays are as many as the entries at most, so that one more can be
\* allocated.
LEMMA OneUnused == ASSUME Types, Entries PROVE Unused \in Blocks \ memory
<1> DEFINE f == [t \in table |-> ArrayOf(t)]
<1>1. IsFiniteSet(AllThreads) /\ Cardinality(AllThreads) \in Nat
  <2>1. IsFiniteSet({Main}) /\ IsFiniteSet({Main} \cup Workers)
    BY WorkersFinite, FS_Singleton, FS_Union
  <2> QED
    BY <2>1, FS_CardinalityType DEF AllThreads
<1>2. IsFiniteSet(table) /\ Cardinality(table) <= Cardinality(AllThreads) /\ Cardinality(table) \in Nat
  BY <1>1, FS_Subset, FS_CardinalityType DEF Types
<1>3. f \in Surjection(table, memory)
  BY DEF Entries, Surjection
<1>4. IsFiniteSet(memory) /\ Cardinality(memory) <= Cardinality(table) /\ Cardinality(memory) \in Nat
  BY <1>2, <1>3, FS_Surjection, FS_CardinalityType
<1>5. Cardinality(Blocks) = Cardinality(AllThreads) + 2
  BY <1>1, FS_Interval DEF Blocks
<1>6. ~(Blocks \subseteq memory)
  <2>1. Blocks \subseteq memory => Cardinality(Blocks) <= Cardinality(memory)
    BY <1>4, FS_Subset
  <2> QED
    BY ONLY <1>1, <1>2, <1>4, <1>5, <2>1
<1>7. \E a \in Blocks : a \notin memory
  BY <1>6
<1> QED
  BY <1>7 DEF Unused

\* Nothing happens to any entry.
LEMMA EntriesKept ==
    ASSUME Entries, UNCHANGED <<idCount, done, table, heap>>,
           at'[Main] = at[Main] \/ (~Loading /\ ~Loading')
    PROVE  Entries'
<1>1. Small' = Small /\ \A t : ArrayOf(t)' = ArrayOf(t)
  BY DEF Small, ArrayOf, Loading, heap
<1>2. /\ idCount' = idCount /\ done' = done /\ table' = table
      /\ array' = array /\ count' = count /\ memory' = memory
  BY DEF heap
<1>3. at'[Main].at = "grown" => at'[Main].entry \notin at'[Main].todo
  BY DEF Entries, Loading
<1> QED
  BY ONLY <1>1, <1>2, <1>3, Entries DEF Entries

\* A thread does something else, without the mutex.
LEMMA ThreadGoesOn ==
    ASSUME RInv, NEW t \in AllThreads, NEW s \in Doing, at' = [at EXCEPT ![t] = s],
           at[t].at \notin {"grow", "grown"}, s.at \notin {"grow", "grown"},
           t \in Workers /\ phase # "serving" => s = Out,
           t = Main /\ phase = "over" => s = Out,
           UNCHANGED <<idCount, done, table, heap, mutex, phase, misused>>,
           tls' \in [AllThreads -> BOOLEAN], \A u \in AllThreads \ {t} : tls'[u] = tls[u],
           Relies(t)'
    PROVE  RInv'
<1>1. Types /\ Locked /\ Order /\ Entries /\ (\A u \in AllThreads : Relies(u)) /\ ~misused
  BY DEF RInv
<1>2. /\ at' \in [AllThreads -> Doing] /\ at'[t] = s
      /\ \A u \in AllThreads \ {t} : at'[u] = at[u]
  BY <1>1 DEF Types
<1>3. /\ idCount' = idCount /\ done' = done /\ table' = table /\ mutex' = mutex
      /\ phase' = phase /\ misused' = misused
      /\ storage' = storage /\ count' = count /\ array' = array /\ memory' = memory
  BY DEF heap
<1>4. at'[Main] = at[Main] \/ (~Loading /\ ~Loading')
  BY <1>2, Threads DEF Loading
<1>5. Loading' = Loading
  BY <1>4 DEF Loading
<1>6. Types'
  BY <1>1, <1>2, <1>3 DEF Types
<1>7. Locked'
  BY <1>1, <1>3, <1>5 DEF Locked
<1>8. Order'
  <2>1. \A u \in Workers : at'[u].at \notin {"grow", "grown"}
    BY <1>1, <1>2, Threads DEF Order
  <2>2. phase' # "serving" => \A u \in Workers : at'[u] = Out
    BY <1>1, <1>2, <1>3, Threads DEF Order
  <2>3. phase' = "over" => at'[Main] = Out /\ table' = {}
    BY <1>1, <1>2, <1>3, Threads DEF Order
  <2> QED
    BY <1>1, <1>3, <1>5, <2>1, <2>2, <2>3 DEF Order
<1>9. ASSUME NEW u \in AllThreads PROVE Relies(u)'
  <2>1. CASE u # t
    <3>1. at'[u] = at[u] /\ tls'[u] = tls[u] /\ Relies(u)
      BY <1>1, <1>2, <2>1
    <3> QED
      BY <1>3, <3>1 DEF Relies
  <2> QED
    BY <2>1
<1>10. Entries'
  BY <1>1, <1>4, EntriesKept
<1> QED
  BY <1>1, <1>3, <1>6, <1>7, <1>8, <1>9, <1>10 DEF RInv

\* What the invariant says of one thread.
LEMMA OneThread ==
    ASSUME RInv, NEW t \in AllThreads
    PROVE  /\ at[t] \in Doing /\ Relies(t) /\ tls[t] \in BOOLEAN
           /\ t \in Workers /\ at[t].at # "out" => phase = "serving"
           /\ at[t].at # "out" => phase # "over"
<1>1. at[t] \in Doing /\ Relies(t) /\ tls[t] \in BOOLEAN
  BY DEF RInv, Types
<1>2. t \in Workers /\ at[t].at # "out" => phase = "serving"
  BY OutTypes DEF RInv, Order
<1>3. t = Main /\ at[t].at # "out" => phase # "over"
  BY OutTypes DEF RInv, Order
<1> QED
  BY <1>1, <1>2, <1>3, Threads

-----------------------------------------------------------------------------
(* Reading, and threads that start and end *)

LEMMA FetchKeeps ==
    ASSUME RInv, NEW t \in AllThreads, NEW id \in Ids, Fetch(t, id)
    PROVE  RInv'
<1> DEFINE s == [Out EXCEPT !.at = IF tls[t] THEN "read" ELSE "find", !.id = id]
<1>1. /\ at[t] = Running /\ id \in (1 .. idCount) \ done
      /\ at' = [at EXCEPT ![t] = s]
      /\ UNCHANGED <<idCount, done, table, heap, tls, mutex, phase, misused>>
  BY DEF Fetch
<1>2. at[t].at = "running" /\ Relies(t) /\ tls[t] \in BOOLEAN /\ Types
  BY <1>1, OneThread, OutTypes DEF RInv
<1>3. s \in Doing /\ s.at = (IF tls[t] THEN "read" ELSE "find") /\ s.id = id
  <2>1. id \in 0 .. MaxIds
    BY MaxIdsNat DEF Ids
  <2>2. (IF tls[t] THEN "read" ELSE "find") \in Labels
    BY DEF Labels
  <2>3. Out \in Doing
    BY OutTypes
  <2> QED
    BY ONLY <2>1, <2>2, <2>3 DEF Doing
<1> HIDE DEF s
<1>4. at'[t] = s
  BY <1>1, <1>2 DEF Types
<1>5. phase # "over" /\ (t \in Workers => phase = "serving")
  BY <1>2, OneThread
<1>6. Relies(t)'
  <2>1. idCount' = idCount /\ done' = done /\ table' = table /\ tls' = tls /\ phase' = phase
    BY <1>1
  <2> QED
    BY <1>1, <1>2, <1>3, <1>4, <1>5, <2>1 DEF Relies
<1>7. tls' \in [AllThreads -> BOOLEAN] /\ tls' = tls
  BY <1>1, <1>2 DEF Types
<1> QED
  BY <1>1, <1>2, <1>3, <1>5, <1>6, <1>7, ThreadGoesOn

\* The entry is found, its array read, and the element in it: at[t] goes on.
LEMMA ReadingKeeps ==
    ASSUME RInv, NEW t \in AllThreads, Find(t) \/ ReadStorage(t) \/ ReadElement(t)
    PROVE  RInv'
<1>1. /\ at[t].at \in {"find", "read", "deref"}
      /\ UNCHANGED <<idCount, done, table, heap, tls, mutex, phase, misused>>
  BY DEF Find, ReadStorage, ReadElement
<1>2. /\ at[t] \in Doing /\ Relies(t) /\ Types
      /\ phase # "over" /\ (t \in Workers => phase = "serving")
  BY <1>1, OneThread DEF RInv
<1>3. /\ idCount' = idCount /\ done' = done /\ table' = table /\ tls' = tls /\ phase' = phase
      /\ storage' = storage
  BY <1>1 DEF heap
<1>4. ASSUME NEW s \in Doing, at' = [at EXCEPT ![t] = s], s.at \in {"read", "deref", "running"},
             s.at # "running" => s.id = at[t].id /\ t \in table,
             s.at = "deref" => s.array = storage[t]
      PROVE  RInv'
  <2>1. at'[t] = s
    BY <1>2, <1>4 DEF Types
  <2>2. Relies(t)'
    BY <1>1, <1>2, <1>3, <1>4, <2>1 DEF Relies
  <2>3. tls' \in [AllThreads -> BOOLEAN] /\ tls' = tls
    BY <1>2, <1>3 DEF Types
  <2> QED
    BY <1>1, <1>2, <1>4, <2>2, <2>3, ThreadGoesOn
<1>5. CASE Find(t)
  <2> DEFINE s == [at[t] EXCEPT !.at = "read"]
  <2>1. s \in Doing /\ s.at = "read" /\ s.id = at[t].id
    BY <1>2 DEF Doing, Labels
  <2>2. at' = [at EXCEPT ![t] = s] /\ t \in table
    BY <1>5 DEF Find
  <2> HIDE DEF s
  <2> QED
    BY <1>4, <2>1, <2>2
<1>6. CASE ReadStorage(t)
  <2> DEFINE s == [at[t] EXCEPT !.at = "deref", !.array = storage[t]]
  <2>1. s \in Doing /\ s.at = "deref" /\ s.id = at[t].id /\ s.array = storage[t]
    BY <1>2 DEF Doing, Labels, Types
  <2>2. at' = [at EXCEPT ![t] = s] /\ t \in table
    BY <1>2, <1>6 DEF ReadStorage, Relies
  <2> HIDE DEF s
  <2> QED
    BY <1>4, <2>1, <2>2
<1>7. CASE ReadElement(t)
  <2>1. at' = [at EXCEPT ![t] = Running]
    BY <1>7 DEF ReadElement
  <2> QED
    BY <1>4, <2>1, OutTypes
<1> QED
  BY <1>5, <1>6, <1>7

LEMMA AttachKeeps == ASSUME RInv, NEW t \in Workers, Attach(t) PROVE RInv'
<1>1. /\ phase = "serving" /\ at[t] = Out /\ at' = [at EXCEPT ![t] = Running]
      /\ UNCHANGED <<idCount, done, table, heap, tls, mutex, phase, misused>>
  BY DEF Attach
<1>2. t \in AllThreads /\ t # Main
  BY Threads
<1>3. Types /\ Relies(t)
  BY <1>2, OneThread DEF RInv
<1>4. at'[t] = Running
  BY <1>1, <1>2, <1>3 DEF Types
<1>5. Relies(t)'
  BY <1>1, <1>2, <1>3, <1>4, OutTypes DEF Relies
<1>6. tls' \in [AllThreads -> BOOLEAN] /\ tls' = tls
  BY <1>1, <1>3 DEF Types
<1> QED
  BY <1>1, <1>2, <1>5, <1>6, OutTypes, ThreadGoesOn

LEMMA EndKeeps == ASSUME RInv, NEW t \in Workers, End(t) PROVE RInv'
<1>1. /\ at[t] = Running /\ at' = [at EXCEPT ![t] = Out]
      /\ tls' = [tls EXCEPT ![t] = FALSE]
      /\ UNCHANGED <<idCount, done, table, heap, mutex, phase, misused>>
  BY DEF End
<1>2. t \in AllThreads /\ t # Main
  BY Threads
<1>3. Types
  BY DEF RInv
<1>4. at'[t] = Out /\ tls'[t] = FALSE
  BY <1>1, <1>2, <1>3 DEF Types
<1>5. Relies(t)'
  BY <1>4, OutTypes DEF Relies
<1>6. tls' \in [AllThreads -> BOOLEAN] /\ \A u \in AllThreads \ {t} : tls'[u] = tls[u]
  BY <1>1, <1>3 DEF Types
<1> QED
  BY <1>1, <1>2, <1>5, <1>6, OutTypes, ThreadGoesOn

\* The entry of a thread is new: so is its array.
LEMMA NewEntryKeeps == ASSUME RInv, NEW t \in AllThreads, NewEntry(t) PROVE RInv'
<1>1. /\ at[t].at = "find" /\ mutex = NoOne /\ t \notin table
      /\ table' = table \cup {t}
      /\ storage' = [storage EXCEPT ![t] = Unused]
      /\ count' = [count EXCEPT ![t] = idCount]
      /\ array' = [array EXCEPT ![Unused] = (1 .. idCount) \ done]
      /\ memory' = memory \cup {Unused}
      /\ tls' = [tls EXCEPT ![t] = TRUE]
  BY DEF NewEntry
<1>2. /\ idCount' = idCount /\ done' = done /\ mutex' = mutex /\ at' = at
      /\ phase' = phase /\ misused' = misused
  BY DEF NewEntry
<1>3. Types /\ Locked /\ Order /\ Entries /\ (\A u \in AllThreads : Relies(u)) /\ ~misused
  BY DEF RInv
<1>4. Unused \in Blocks /\ Unused \notin memory
  BY <1>3, OneUnused
<1> DEFINE new == Unused
<1> HIDE DEF new
<1>5. /\ storage' \in [AllThreads -> Blocks \cup {NULL}] /\ storage'[t] = new
      /\ \A u \in AllThreads : u # t => storage'[u] = storage[u]
  BY <1>1, <1>3, <1>4 DEF Types, new
<1>6. /\ idCount \in 0 .. MaxIds
      /\ count' \in [AllThreads -> 0 .. MaxIds] /\ count'[t] = idCount
      /\ \A u \in AllThreads : u # t => count'[u] = count[u]
  BY <1>1, <1>3 DEF Types
<1>7. /\ array' \in [Blocks -> SUBSET Ids] /\ array'[new] = (1 .. idCount) \ done
      /\ \A b \in Blocks : b # new => array'[b] = array[b]
  <2>1. (1 .. idCount) \ done \in SUBSET Ids
    BY <1>6, MaxIdsNat DEF Ids
  <2> QED
    BY <1>1, <1>3, <1>4, <2>1 DEF Types, new
<1>8. /\ tls' \in [AllThreads -> BOOLEAN]
      /\ \A u \in AllThreads : u # t => tls'[u] = tls[u]
  BY <1>1, <1>3 DEF Types
<1>9. Types'
  BY <1>1, <1>2, <1>3, <1>5, <1>6, <1>7, <1>8 DEF Types
<1>10. ~Loading /\ ~Loading'
  BY <1>1, <1>2, <1>3, Threads DEF Locked, Loading
<1>11. /\ Small = {} /\ Small' = {}
       /\ \A u : ArrayOf(u) = storage[u] /\ ArrayOf(u)' = storage'[u]
  BY <1>10 DEF Small, ArrayOf, Loading
<1>12. Locked' /\ Order'
  <2>1. phase # "over"
    BY <1>1, OneThread
  <2> QED
    BY <1>2, <1>3, <1>10, <2>1 DEF Locked, Order, Loading
<1>13. ASSUME NEW u \in AllThreads PROVE Relies(u)'
  <2>1. Relies(u)
    BY <1>3
  <2>2. CASE u = t
    <3>1. t \in table' /\ at'[t].at = "find"
      BY <1>1, <1>2
    <3> QED
      BY <1>2, <2>1, <2>2, <3>1 DEF Relies
  <2>3. CASE u # t
    <3>1. tls'[u] = tls[u] /\ storage'[u] = storage[u] /\ (u \in table => u \in table')
      BY <1>1, <1>5, <1>8, <2>3
    <3> QED
      BY <1>2, <2>1, <3>1 DEF Relies
  <2> QED
    BY <2>2, <2>3
<1>14. Entries'
  <2>1. \A u \in table : /\ u # t /\ u \in AllThreads
                         /\ storage[u] \in Blocks /\ storage[u] \in memory
                         /\ count[u] = idCount /\ array[storage[u]] = (1 .. count[u]) \ done
    BY <1>1, <1>3, <1>11 DEF Entries, Types
  <2>2. \A u, v \in table : storage[u] = storage[v] => u = v
    BY <1>3, <1>11 DEF Entries
  <2>3. \A u \in table : storage'[u] = storage[u] /\ storage[u] # new
    BY <1>4, <1>5, <2>1 DEF new
  <2>4. ASSUME NEW u \in table'
        PROVE  /\ storage'[u] \in Blocks
               /\ count'[u] = idCount'
               /\ array'[storage'[u]] = (1 .. count'[u]) \ done'
    <3>1. CASE u = t
      BY <1>2, <1>4, <1>5, <1>6, <1>7, <3>1 DEF new
    <3>2. CASE u # t
      <4>1. u \in table
        BY <1>1, <3>2
      <4> QED
        BY <1>2, <1>6, <1>7, <2>1, <2>3, <3>2, <4>1
    <3> QED
      BY <3>1, <3>2
  <2>5. \A u, v \in table' : storage'[u] = storage'[v] => u = v
    BY <1>1, <1>5, <2>2, <2>3
  <2>6. memory' = {storage'[u] : u \in table'}
    <3>1. memory = {storage[u] : u \in table}
      BY <1>3, <1>11 DEF Entries
    <3>2. {storage'[u] : u \in table} = {storage[u] : u \in table}
      BY <2>3
    <3> QED
      BY <1>1, <1>5, <3>1, <3>2 DEF new
  <2>7. at'[Main].at # "grown"
    BY <1>10 DEF Loading
  <2> QED
    BY <1>11, <2>4, <2>5, <2>6, <2>7 DEF Entries
<1> QED
  BY <1>2, <1>3, <1>9, <1>12, <1>13, <1>14 DEF RInv

\* The entries of some threads, which rely on nothing, are unlinked and freed
\* while no module is loaded; each type is there, or known to be done.
LEMMA EntriesFreed ==
    ASSUME RInv, NEW ts \in SUBSET table, ~Loading, ~Loading',
           memory' = memory \ {storage[t] : t \in ts}, table' = table \ ts,
           UNCHANGED <<idCount, done, storage, count, array>>
    PROVE  Entries' /\ \A t \in ts : array[storage[t]] = (1 .. count[t]) \ done
<1>1. /\ Small = {} /\ Small' = {}
      /\ \A u : ArrayOf(u) = storage[u] /\ ArrayOf(u)' = storage[u]
  BY DEF Small, ArrayOf, Loading
<1>2. /\ \A u \in table : /\ storage[u] \in Blocks /\ count[u] = idCount
                          /\ array[storage[u]] = (1 .. count[u]) \ done
      /\ \A u, v \in table : storage[u] = storage[v] => u = v
      /\ memory = {storage[u] : u \in table}
  BY <1>1 DEF RInv, Entries
<1>3. memory' = {storage[u] : u \in table'}
  BY <1>2
<1>4. at'[Main].at # "grown"
  BY DEF Loading
<1> QED
  BY <1>1, <1>2, <1>3, <1>4 DEF Entries

\* A thread that is not in ts_resource_ex() relies on its entry alone.
LEMMA NotReading ==
    ASSUME RInv, NEW u \in AllThreads, tls'[u] = tls[u],
           at'[u].at \notin {"find", "read", "deref"},
           u = Main \/ at'[u].at = at[u].at,
           u \in table => u \in table' \/ phase' = "over" \/ ~tls[u],
           phase = "over" => phase' = "over"
    PROVE  Relies(u)'
<1>1. Relies(u)
  BY OneThread
<1> QED
  BY <1>1 DEF Relies

\* ts_free_thread(): a thread frees its own entry and its tls.
LEMMA FreeThreadKeeps == ASSUME RInv, NEW t \in Workers, FreeThread(t) PROVE RInv'
<1> DEFINE ts == {t} \cap table
<1>1. /\ at[t] = Running /\ mutex = NoOne
      /\ tls' = [tls EXCEPT ![t] = FALSE] /\ at' = [at EXCEPT ![t] = Out]
      /\ idCount' = idCount /\ done' = done /\ mutex' = mutex /\ phase' = phase
  BY DEF FreeThread
<1>2. /\ misused' = (misused \/ \E u \in ts : array[storage[u]] # 1 .. count[u])
      /\ memory' = memory \ {storage[u] : u \in ts} /\ table' = table \ ts
      /\ storage' = storage /\ count' = count /\ array' = array
  BY DEF FreeThread, FreeEntries
<1>3. Types /\ Locked /\ Order /\ (\A u \in AllThreads : Relies(u)) /\ ~misused
  BY DEF RInv
<1>4. t \in AllThreads /\ t # Main
  BY Threads
<1>5. /\ at' \in [AllThreads -> Doing] /\ at'[t] = Out
      /\ \A u \in AllThreads : u # t => at'[u] = at[u]
      /\ tls' \in [AllThreads -> BOOLEAN] /\ tls'[t] = FALSE
      /\ \A u \in AllThreads : u # t => tls'[u] = tls[u]
  BY <1>1, <1>3, <1>4, OutTypes DEF Types
<1>6. phase = "serving"
  BY <1>1, <1>4, OneThread, OutTypes
<1>7. ~Loading /\ ~Loading' /\ at'[Main] = at[Main]
  BY <1>1, <1>3, <1>4, <1>5, Threads DEF Locked, Loading
<1>8. ts \in SUBSET table
  OBVIOUS
<1>9. Entries' /\ \A u \in ts : array[storage[u]] = (1 .. count[u]) \ done
  BY ONLY RInv, <1>1, <1>2, <1>7, <1>8, EntriesFreed
<1>10. ~misused'
  <2>1. done = {}
    BY <1>3, <1>6 DEF Order
  <2> QED
    BY <1>2, <1>3, <1>9, <2>1
<1>11. Types'
  BY <1>1, <1>2, <1>3, <1>5 DEF Types
<1>12. Locked' /\ Order'
  BY <1>1, <1>3, <1>5, <1>6, <1>7, OutTypes, Threads DEF Locked, Order
<1>13. ASSUME NEW u \in AllThreads PROVE Relies(u)'
  <2>1. CASE u = t
    BY <1>5, <2>1, OutTypes DEF Relies
  <2>2. CASE u # t
    <3>1. Relies(u) /\ at'[u] = at[u] /\ tls'[u] = tls[u] /\ (u \in table => u \in table')
      BY <1>2, <1>3, <1>5, <2>2
    <3> QED
      BY <1>1, <1>2, <3>1 DEF Relies
  <2> QED
    BY <2>1, <2>2
<1> QED
  BY <1>9, <1>10, <1>11, <1>12, <1>13 DEF RInv

\* ts_free_worker_threads(): the threads whose entries are freed have ended.
LEMMA FreeWorkersKeeps == ASSUME RInv, FreeWorkers PROVE RInv'
<1> DEFINE ts == Near \cap table
<1>1. /\ phase = "serving" /\ at[Main] = Running /\ (\A t \in Workers : at[t] = Out)
      /\ mutex = NoOne /\ phase' = "stopping"
      /\ idCount' = idCount /\ done' = done /\ mutex' = mutex /\ tls' = tls /\ at' = at
  BY DEF FreeWorkers
<1>2. /\ misused' = (misused \/ \E u \in ts : array[storage[u]] # 1 .. count[u])
      /\ memory' = memory \ {storage[u] : u \in ts} /\ table' = table \ ts
      /\ storage' = storage /\ count' = count /\ array' = array
  BY DEF FreeWorkers, FreeEntries
<1>3. Types /\ Locked /\ Order /\ (\A u \in AllThreads : Relies(u)) /\ ~misused
  BY DEF RInv
<1>4. ~Loading /\ ~Loading'
  BY <1>1, OutTypes DEF Loading
<1>5. ts \in SUBSET table /\ Main \notin ts
  BY NearAreWorkers, MainIsNoWorker
<1>6. Entries' /\ \A u \in ts : array[storage[u]] = (1 .. count[u]) \ done
  BY ONLY RInv, <1>1, <1>2, <1>4, <1>5, EntriesFreed
<1>7. ~misused'
  <2>1. done = {}
    BY <1>1, <1>3 DEF Order
  <2> QED
    BY <1>2, <1>3, <1>6, <2>1
<1>8. Types'
  BY <1>1, <1>2, <1>3 DEF Types
<1>9. Locked' /\ Order'
  BY <1>1, <1>3, <1>4, OutTypes DEF Locked, Order
<1>10. ASSUME NEW u \in AllThreads PROVE Relies(u)'
  <2>1. Relies(u) /\ (u = Main \/ u \in Workers)
    BY <1>3, Threads
  <2>2. at[u].at \notin {"find", "read", "deref"}
    BY <1>1, <2>1, OutTypes
  <2>3. u \in table => u \in table' \/ ~tls[u]
    BY <1>1, <1>2, <1>5, <2>1, OutTypes DEF Relies
  <2>4. tls'[u] = tls[u] /\ at'[u] = at[u] /\ phase # "over"
    BY <1>1
  <2> QED
    BY ONLY RInv, u \in AllThreads, <2>2, <2>3, <2>4, NotReading
<1> QED
  BY <1>6, <1>7, <1>8, <1>9, <1>10 DEF RInv

\* php_module_startup() has come to its end.
LEMMA ServeKeeps == ASSUME RInv, Serve PROVE RInv'
<1>1. /\ phase = "startup" /\ at[Main] = Running /\ phase' = "serving"
      /\ idCount' = idCount /\ done' = done /\ mutex' = mutex /\ tls' = tls /\ at' = at
      /\ table' = table /\ misused' = misused
      /\ storage' = storage /\ count' = count /\ array' = array /\ memory' = memory
  BY DEF Serve, heap
<1>2. Types /\ Locked /\ Order /\ Entries /\ (\A u \in AllThreads : Relies(u)) /\ ~misused
  BY DEF RInv
<1>3. ~Loading /\ ~Loading'
  BY <1>1, OutTypes DEF Loading
<1>4. Types' /\ Locked' /\ Order'
  BY <1>1, <1>2, <1>3 DEF Types, Locked, Order
<1>5. \A u \in AllThreads : Relies(u)'
  BY <1>1, <1>2 DEF Relies
<1>6. Entries'
  BY <1>1, <1>2, EntriesKept DEF heap
<1> QED
  BY <1>1, <1>2, <1>4, <1>5, <1>6 DEF RInv

\* ts_free_id(): every entry loses the resource, and the type is done.
LEMMA FreeIdKeeps == ASSUME RInv, NEW id \in Ids, FreeId(id) PROVE RInv'
<1>1. /\ phase = "stopping" /\ at[Main] = Running /\ id \in (1 .. idCount) \ done
      /\ done' = done \cup {id}
      /\ array' = [a \in Blocks |-> IF \E t \in table : storage[t] = a
                                    THEN array[a] \ {id} ELSE array[a]]
      /\ phase' = phase /\ idCount' = idCount /\ mutex' = mutex /\ tls' = tls /\ at' = at
      /\ table' = table /\ misused' = misused
      /\ storage' = storage /\ count' = count /\ memory' = memory
  BY DEF FreeId
<1>2. Types /\ Locked /\ Order /\ Entries /\ (\A u \in AllThreads : Relies(u)) /\ ~misused
  BY DEF RInv
<1>3. ~Loading /\ ~Loading'
  BY <1>1, OutTypes DEF Loading
<1>4. array' \in [Blocks -> SUBSET Ids] /\ \A t \in table : storage[t] \in Blocks => array'[storage[t]] = array[storage[t]] \ {id}
  BY <1>1, <1>2 DEF Types
<1>5. Types' /\ Locked' /\ Order'
  BY <1>1, <1>2, <1>3, <1>4 DEF Types, Locked, Order
<1>6. ASSUME NEW u \in AllThreads PROVE Relies(u)'
  <2>1. at[u].at \notin {"find", "read", "deref"}
    BY <1>1, <1>2, OutTypes, Threads DEF Order
  <2> QED
    BY <1>1, <2>1, NotReading
<1>7. Entries'
  <2>1. /\ Small = {} /\ Small' = {}
        /\ \A u : ArrayOf(u) = storage[u] /\ ArrayOf(u)' = storage[u]
    BY <1>1, <1>3 DEF Small, ArrayOf, Loading
  <2>2. \A u \in table : array'[storage[u]] = (1 .. count[u]) \ done'
    BY <1>1, <1>2, <1>4, <2>1 DEF Entries
  <2>3. at'[Main].at # "grown"
    BY <1>3 DEF Loading
  <2> QED
    BY <1>1, <1>2, <2>1, <2>2, <2>3 DEF Entries
<1> QED
  BY <1>1, <1>2, <1>5, <1>6, <1>7 DEF RInv

\* tsrm_shutdown() frees all that is left.
LEMMA ShutdownKeeps == ASSUME RInv, Shutdown PROVE RInv'
<1>1. /\ phase = "stopping" /\ at[Main] = Running /\ phase' = "over"
      /\ misused' = (misused \/ \E t \in table : array[storage[t]] # (1 .. count[t]) \ done)
      /\ memory' = memory \ {storage[t] : t \in table} /\ table' = {}
      /\ at' = [at EXCEPT ![Main] = Out]
      /\ idCount' = idCount /\ done' = done /\ mutex' = mutex /\ tls' = tls
      /\ storage' = storage /\ count' = count /\ array' = array
  BY DEF Shutdown
<1>2. Types /\ Locked /\ Order /\ (\A u \in AllThreads : Relies(u)) /\ ~misused
  BY DEF RInv
<1>3. /\ at' \in [AllThreads -> Doing] /\ at'[Main] = Out
      /\ \A u \in AllThreads : u # Main => at'[u] = at[u]
  BY <1>1, <1>2, OutTypes, Threads DEF Types
<1>4. ~Loading /\ ~Loading'
  BY <1>1, <1>3, OutTypes DEF Loading
<1>5. table \in SUBSET table /\ table' = table \ table
  BY <1>1
<1>6. Entries' /\ \A u \in table : array[storage[u]] = (1 .. count[u]) \ done
  BY ONLY RInv, <1>1, <1>4, <1>5, EntriesFreed
<1>7. ~misused'
  BY <1>1, <1>2, <1>6
<1>8. Types' /\ Locked' /\ Order'
  BY <1>1, <1>2, <1>3, <1>4, Threads, OutTypes DEF Types, Locked, Order
<1>9. ASSUME NEW u \in AllThreads PROVE Relies(u)'
  <2>1. at'[u].at \notin {"find", "read", "deref"}
    BY <1>1, <1>2, <1>3, OutTypes, Threads DEF Order
  <2>2. u = Main \/ at'[u].at = at[u].at
    BY <1>3
  <2> QED
    BY <1>1, <2>1, <2>2, NotReading
<1> QED
  BY <1>6, <1>7, <1>8, <1>9 DEF RInv

-----------------------------------------------------------------------------
(* ts_allocate_id() *)

\* Main goes on in ts_allocate_id(), or comes to it or from it, while the server
\* starts: the other threads are not there.
LEMMA MainGoesOn ==
    ASSUME RInv, NEW s \in Doing, at' = [at EXCEPT ![Main] = s], phase = "startup",
           s.at \in {"grow", "grown", "running"},
           s.at \in {"grow", "grown"} => idCount' > 0 /\ mutex' = Main,
           s.at = "running" => mutex' = NoOne,
           UNCHANGED <<done, table, tls, phase, misused>>
    PROVE  /\ at' \in [AllThreads -> Doing] /\ at'[Main] = s
           /\ Locked' /\ Order' /\ (\A u \in AllThreads : Relies(u)') /\ ~misused'
<1>1. Types /\ Locked /\ Order /\ (\A u \in AllThreads : Relies(u)) /\ ~misused
  BY DEF RInv
<1>2. /\ at' \in [AllThreads -> Doing] /\ at'[Main] = s
      /\ \A u \in AllThreads : u # Main => at'[u] = at[u]
  BY <1>1, Threads DEF Types
<1>3. \A u \in Workers : u \in AllThreads /\ u # Main /\ at'[u] = Out /\ at[u] = Out
  BY <1>1, <1>2, Threads DEF Order
<1>4. Locked'
  BY <1>2 DEF Locked, Loading
<1>5. Order'
  <2>1. phase' = "startup" /\ done' = {}
    BY <1>1 DEF Order
  <2>2. Loading' => idCount' > 0
    BY <1>2 DEF Loading
  <2> QED
    BY <1>3, <2>1, <2>2, OutTypes DEF Order
<1>6. ASSUME NEW u \in AllThreads PROVE Relies(u)'
  <2>1. at'[u].at \notin {"find", "read", "deref"} /\ (u = Main \/ at'[u].at = at[u].at)
    BY <1>2, <1>3, OutTypes, Threads
  <2>2. tls'[u] = tls[u] /\ table' = table /\ phase' = phase
    OBVIOUS
  <2> QED
    BY ONLY RInv, u \in AllThreads, <2>1, <2>2, NotReading
<1> QED
  BY <1>1, <1>2, <1>4, <1>5, <1>6

\* A new id: no entry has its resource.
LEMMA LoadKeeps == ASSUME RInv, Load PROVE RInv'
<1> DEFINE s == [Out EXCEPT !.at = "grow", !.todo = table]
<1>1. /\ at[Main] = Running /\ idCount < MaxIds /\ mutex' = Main /\ idCount' = idCount + 1
      /\ at' = [at EXCEPT ![Main] = s] /\ phase = "startup"
      /\ done' = done /\ table' = table /\ tls' = tls /\ phase' = phase /\ misused' = misused
      /\ storage' = storage /\ count' = count /\ array' = array /\ memory' = memory
  BY DEF Load, BeginLoad, heap
<1>2. Types /\ Order /\ Entries
  BY DEF RInv
<1>3. s \in Doing /\ s.at = "grow" /\ s.todo = table
  BY <1>2, OutTypes DEF Doing, Labels, Types
<1> HIDE DEF s
<1>4. idCount \in 0 .. MaxIds /\ idCount' \in 0 .. MaxIds /\ idCount' > 0 /\ idCount = idCount' - 1
  BY <1>1, <1>2, MaxIdsNat DEF Types
<1>5. UNCHANGED <<done, table, tls, phase, misused>>
  BY <1>1
<1>6. /\ at' \in [AllThreads -> Doing] /\ at'[Main] = s
      /\ Locked' /\ Order' /\ (\A u \in AllThreads : Relies(u)') /\ ~misused'
  BY <1>1, <1>3, <1>4, <1>5, MainGoesOn
<1>7. Types'
  <2>1. done' = {}
    BY <1>1, <1>2 DEF Order
  <2> QED
    BY <1>1, <1>2, <1>4, <1>6, <2>1 DEF Types
<1>8. /\ Small = {} /\ Small' = table
      /\ \A u : ArrayOf(u) = storage[u] /\ ArrayOf(u)' = storage[u]
  BY <1>1, <1>3, <1>6, OutTypes DEF Small, ArrayOf
<1>9. Entries'
  <2>1. \A u \in table : /\ storage[u] \in Blocks /\ count[u] = idCount' - 1
                         /\ array[storage[u]] = (1 .. count[u]) \ done
    BY <1>2, <1>4, <1>8 DEF Entries
  <2>2. (\A u, v \in table : storage[u] = storage[v] => u = v) /\ memory = {storage[u] : u \in table}
    BY <1>2, <1>8 DEF Entries
  <2>3. at'[Main].at # "grown"
    BY <1>3, <1>6
  <2> QED
    BY ONLY <1>1, <1>8, <2>1, <2>2, <2>3 DEF Entries
<1> QED
  BY <1>6, <1>7, <1>9 DEF RInv

\* realloc() of an entry's array moves it.
LEMMA GrowKeeps == ASSUME RInv, Grow PROVE RInv'
<1>1. PICK t \in at[Main].todo :
         /\ memory' = (memory \ {storage[t]}) \cup {Unused}
         /\ array' = [array EXCEPT ![Unused] = array[storage[t]]]
         /\ at' = [at EXCEPT ![Main].at = "grown", ![Main].array = Unused,
                             ![Main].todo = @ \ {t}, ![Main].entry = t]
  BY DEF Grow
<1>2. /\ at[Main].at = "grow"
      /\ idCount' = idCount /\ done' = done /\ table' = table /\ storage' = storage
      /\ count' = count /\ tls' = tls /\ mutex' = mutex /\ phase' = phase /\ misused' = misused
  BY DEF Grow
<1>3. Types /\ Locked /\ Order /\ Entries
  BY DEF RInv
<1>4. PICK new : new = Unused
  OBVIOUS
<1>5. new \in Blocks /\ new \notin memory
  BY <1>3, <1>4, OneUnused
<1> DEFINE rest == at[Main].todo \ {t}
           s == [at[Main] EXCEPT !.at = "grown", !.array = new, !.todo = rest, !.entry = t]
<1>6. /\ Small = at[Main].todo /\ t \in table /\ t \in AllThreads /\ t \in at[Main].todo
      /\ \A u : ArrayOf(u) = storage[u]
  BY <1>2, <1>3 DEF Small, ArrayOf, Entries, Types
<1>7. at[Main] \in Doing
  BY <1>3, Threads DEF Types
<1>8. /\ s \in Doing /\ s.at = "grown" /\ s.array = new /\ s.entry = t /\ s.todo = rest
  <2>1. rest \in SUBSET AllThreads
    BY <1>7 DEF Doing
  <2> HIDE DEF rest
  <2> QED
    BY <1>5, <1>6, <1>7, <2>1 DEF Doing, Labels
<1>9. at' = [at EXCEPT ![Main] = s]
  BY <1>1, <1>4, Threads
<1> HIDE DEF s
<1>10. UNCHANGED <<done, table, tls, phase, misused>> /\ phase = "startup"
       /\ idCount' > 0 /\ mutex' = Main
  BY <1>2, <1>3 DEF Order, Loading, Locked
<1>11. /\ at' \in [AllThreads -> Doing] /\ at'[Main] = s
       /\ Locked' /\ Order' /\ (\A u \in AllThreads : Relies(u)') /\ ~misused'
  BY <1>8, <1>9, <1>10, MainGoesOn
<1>12. storage[t] \in Blocks
  BY <1>3, <1>6 DEF Entries
<1>13. /\ array' \in [Blocks -> SUBSET Ids] /\ array'[new] = array[storage[t]]
       /\ \A b \in Blocks : b # new => array'[b] = array[b]
  BY <1>1, <1>3, <1>4, <1>5, <1>12 DEF Types
<1>14. Types'
  BY <1>2, <1>3, <1>11, <1>13 DEF Types
<1>15. /\ Small' = at[Main].todo
       /\ ArrayOf(t)' = new /\ \A u : u # t => ArrayOf(u)' = storage[u]
  BY <1>2, <1>6, <1>8, <1>11 DEF Small, ArrayOf
<1>16. Entries'
  <2>1. \A u \in table : /\ storage[u] \in Blocks /\ storage[u] \in memory /\ storage[u] # new
                         /\ count[u] = IF u \in at[Main].todo THEN idCount - 1 ELSE idCount
                         /\ array[storage[u]] = (1 .. count[u]) \ done
    BY <1>3, <1>5, <1>6 DEF Entries
  <2>2. /\ \A u, v \in table : storage[u] = storage[v] => u = v
        /\ memory = {storage[u] : u \in table}
    BY <1>3, <1>6 DEF Entries
  <2>3. \A u \in table : /\ ArrayOf(u)' \in Blocks
                         /\ array'[ArrayOf(u)'] = (1 .. count[u]) \ done
    BY <1>5, <1>13, <1>15, <2>1
  <2>4. \A u, v \in table : ArrayOf(u)' = ArrayOf(v)' => u = v
    BY <1>15, <2>1, <2>2
  <2>5. memory' = {ArrayOf(u)' : u \in table}
    <3>1. memory' = {storage[u] : u \in table \ {t}} \cup {new}
      BY <1>1, <1>4, <2>2, <1>6
    <3>2. {storage[u] : u \in table \ {t}} = {ArrayOf(u)' : u \in table \ {t}}
      BY <1>15
    <3> QED
      BY <1>6, <1>15, <3>1, <3>2
  <2>6. at'[Main].at = "grown" /\ at'[Main].entry \notin at'[Main].todo
    BY <1>8, <1>11
  <2>7. Small' \subseteq table'
    BY <1>2, <1>3, <1>6, <1>15 DEF Entries
  <2> QED
    BY ONLY <1>2, <1>15, <2>1, <2>3, <2>4, <2>5, <2>6, <2>7 DEF Entries
<1> QED
  BY <1>11, <1>14, <1>16 DEF RInv

\* The new array is the entry's, and has the new resource.
LEMMA GrownKeeps == ASSUME RInv, Grown PROVE RInv'
<1>1. PICK t, new : t = at[Main].entry /\ new = at[Main].array
  OBVIOUS
<1> DEFINE s == [Out EXCEPT !.at = "grow", !.todo = at[Main].todo]
<1>2. /\ at[Main].at = "grown"
      /\ storage' = [storage EXCEPT ![t] = new]
      /\ array' = [array EXCEPT ![new] = @ \cup (count[t] + 1) .. idCount]
      /\ count' = [count EXCEPT ![t] = idCount]
      /\ at' = [at EXCEPT ![Main] = s]
      /\ idCount' = idCount /\ done' = done /\ table' = table /\ memory' = memory
      /\ tls' = tls /\ mutex' = mutex /\ phase' = phase /\ misused' = misused
  BY <1>1 DEF Grown
<1>3. Types /\ Locked /\ Order /\ Entries
  BY DEF RInv
<1>4. at[Main] \in Doing
  BY <1>3, Threads DEF Types
<1>5. s \in Doing /\ s.at = "grow" /\ s.todo = at[Main].todo
  BY <1>4, OutTypes DEF Doing, Labels
<1> HIDE DEF s
<1>6. UNCHANGED <<done, table, tls, phase, misused>> /\ phase = "startup" /\ done = {}
      /\ idCount' > 0 /\ mutex' = Main
  BY <1>2, <1>3 DEF Order, Loading, Locked
<1>7. /\ at' \in [AllThreads -> Doing] /\ at'[Main] = s
      /\ Locked' /\ Order' /\ (\A u \in AllThreads : Relies(u)') /\ ~misused'
  BY <1>2, <1>5, <1>6, MainGoesOn
<1>8. /\ Small = at[Main].todo \cup {t} /\ t \notin at[Main].todo
      /\ t \in table /\ t \in AllThreads
      /\ ArrayOf(t) = new /\ \A u : u # t => ArrayOf(u) = storage[u]
  BY <1>1, <1>2, <1>3 DEF Small, ArrayOf, Entries, Types
<1>9. /\ new \in Blocks /\ idCount \in 0 .. MaxIds /\ idCount > 0
      /\ count[t] = idCount - 1 /\ array[new] = 1 .. count[t]
  <2>1. ArrayOf(t) \in Blocks /\ count[t] = idCount - 1 /\ array[ArrayOf(t)] = (1 .. count[t]) \ done
    BY <1>3, <1>8 DEF Entries
  <2> QED
    BY <1>2, <1>3, <1>6, <1>8, <2>1 DEF Types
<1>10. (1 .. count[t]) \cup (count[t] + 1) .. idCount = 1 .. idCount
  BY <1>9, MaxIdsNat
<1>11. /\ array' \in [Blocks -> SUBSET Ids] /\ array'[new] = 1 .. idCount
       /\ \A b \in Blocks : b # new => array'[b] = array[b]
  <2>1. (1 .. idCount) \in SUBSET Ids
    BY <1>9, MaxIdsNat DEF Ids
  <2>2. array' = [array EXCEPT ![new] = 1 .. idCount]
    BY <1>2, <1>3, <1>9, <1>10 DEF Types
  <2> QED
    BY <1>3, <1>9, <2>1, <2>2 DEF Types
<1>12. /\ storage' \in [AllThreads -> Blocks \cup {NULL}] /\ storage'[t] = new
       /\ \A u \in AllThreads : u # t => storage'[u] = storage[u]
  BY <1>2, <1>3, <1>8, <1>9 DEF Types
<1>13. /\ count' \in [AllThreads -> 0 .. MaxIds] /\ count'[t] = idCount
       /\ \A u \in AllThreads : u # t => count'[u] = count[u]
  BY <1>2, <1>3, <1>8, <1>9 DEF Types
<1>14. Types'
  BY <1>2, <1>3, <1>7, <1>11, <1>12, <1>13 DEF Types
<1>15. Small' = at[Main].todo /\ \A u \in AllThreads : ArrayOf(u)' = ArrayOf(u)
  <2>1. Small' = at[Main].todo /\ \A u : ArrayOf(u)' = storage'[u]
    BY <1>5, <1>7 DEF Small, ArrayOf
  <2> QED
    BY <1>8, <1>12, <2>1
<1>16. Entries'
  <2>1. \A u \in table : /\ u \in AllThreads /\ ArrayOf(u) \in Blocks
                         /\ count[u] = IF u \in Small THEN idCount - 1 ELSE idCount
                         /\ array[ArrayOf(u)] = (1 .. count[u]) \ done
    BY <1>3 DEF Entries, Types
  <2>2. /\ \A u, v \in table : ArrayOf(u) = ArrayOf(v) => u = v
        /\ memory = {ArrayOf(u) : u \in table} /\ Small \subseteq table
    BY <1>3 DEF Entries
  <2>3. ASSUME NEW u \in table
        PROVE  /\ ArrayOf(u)' \in Blocks
               /\ count'[u] = IF u \in Small' THEN idCount' - 1 ELSE idCount'
               /\ array'[ArrayOf(u)'] = (1 .. count'[u]) \ done'
    <3>1. CASE u = t
      BY <1>2, <1>6, <1>8, <1>9, <1>11, <1>13, <1>15, <3>1
    <3>2. CASE u # t
      <4>1. ArrayOf(u)' = ArrayOf(u) /\ ArrayOf(u) # new /\ count'[u] = count[u]
        BY <1>8, <1>13, <1>15, <2>1, <2>2, <3>2
      <4>2. u \in Small' <=> u \in Small
        BY <1>8, <1>15, <3>2
      <4> QED
        BY <1>2, <1>11, <2>1, <4>1, <4>2
    <3> QED
      BY <3>1, <3>2
  <2>4. \A u, v \in table : ArrayOf(u)' = ArrayOf(v)' => u = v
    BY <1>15, <2>1, <2>2
  <2>5. memory' = {ArrayOf(u)' : u \in table}
    <3>1. {ArrayOf(u)' : u \in table} = {ArrayOf(u) : u \in table}
      BY <1>15, <2>1
    <3> QED
      BY <1>2, <2>2, <3>1
  <2>6. at'[Main].at # "grown" /\ Small' \subseteq table'
    BY <1>2, <1>5, <1>7, <1>8, <1>15, <2>2
  <2> QED
    BY ONLY <1>2, <2>3, <2>4, <2>5, <2>6 DEF Entries
<1> QED
  BY <1>7, <1>14, <1>16 DEF RInv

\* All entries have the new resource.
LEMMA LoadedKeeps == ASSUME RInv, Loaded PROVE RInv'
<1>1. /\ at[Main].at = "grow" /\ at[Main].todo = {} /\ mutex' = NoOne
      /\ at' = [at EXCEPT ![Main] = Running]
      /\ idCount' = idCount /\ done' = done /\ table' = table /\ storage' = storage
      /\ count' = count /\ array' = array /\ memory' = memory
      /\ tls' = tls /\ phase' = phase /\ misused' = misused
  BY DEF Loaded, heap
<1>2. Types /\ Order /\ Entries
  BY DEF RInv
<1>3. phase = "startup" /\ UNCHANGED <<done, table, tls, phase, misused>>
  BY <1>1, <1>2 DEF Order, Loading
<1>4. /\ at' \in [AllThreads -> Doing] /\ at'[Main] = Running
      /\ Locked' /\ Order' /\ (\A u \in AllThreads : Relies(u)') /\ ~misused'
  <2>1. Running \in Doing /\ Running.at = "running"
    BY OutTypes
  <2> QED
    BY <1>1, <1>3, <2>1, MainGoesOn
<1>5. Types'
  BY <1>1, <1>2, <1>4 DEF Types
<1>6. Small = {} /\ Small' = {} /\ \A u : ArrayOf(u)' = ArrayOf(u)
  BY <1>1, <1>4, OutTypes DEF Small, ArrayOf
<1>7. at'[Main].at # "grown"
  BY <1>4, OutTypes
<1>8. Entries'
  BY ONLY <1>1, <1>2, <1>6, <1>7 DEF Entries
<1> QED
  BY <1>4, <1>5, <1>8 DEF RInv

-----------------------------------------------------------------------------
(* The invariant *)

LEMMA InitRInv == ASSUME Init PROVE RInv
<1>1. /\ idCount = 0 /\ done = {} /\ table = {} /\ memory = {} /\ ~misused
      /\ storage = [t \in AllThreads |-> NULL] /\ count = [t \in AllThreads |-> 0]
      /\ array = [a \in Blocks |-> {}] /\ tls = [t \in AllThreads |-> FALSE]
      /\ mutex = NoOne /\ phase = "startup"
      /\ at = [t \in AllThreads |-> IF t = Main THEN Running ELSE Out]
  BY DEF Init
<1>2. at[Main] = Running /\ \A t \in Workers : at[t] = Out
  BY <1>1, Threads
<1>3. ~Loading
  BY <1>2, OutTypes DEF Loading
<1>4. Types
  <2>1. 0 \in 0 .. MaxIds
    BY MaxIdsNat
  <2>2. at \in [AllThreads -> Doing]
    BY <1>1, OutTypes
  <2> QED
    BY <1>1, <2>1, <2>2 DEF Types
<1>5. Locked /\ Order
  BY <1>1, <1>2, <1>3, OutTypes DEF Locked, Order
<1>6. ASSUME NEW t \in AllThreads PROVE Relies(t)
  BY <1>1, OutTypes DEF Relies
<1>7. Small = {} /\ at[Main].at # "grown"
  BY <1>3 DEF Small, Loading
<1>8. Entries
  BY <1>1, <1>7 DEF Entries
<1> QED
  BY <1>1, <1>4, <1>5, <1>6, <1>8 DEF RInv

LEMMA StutterKeeps == ASSUME RInv, UNCHANGED vars PROVE RInv'
<1>1. /\ idCount' = idCount /\ done' = done /\ table' = table /\ storage' = storage
      /\ count' = count /\ array' = array /\ memory' = memory /\ tls' = tls
      /\ mutex' = mutex /\ at' = at /\ phase' = phase /\ misused' = misused
  BY DEF vars, heap
<1>2. Types' /\ Locked' /\ Order'
  BY <1>1 DEF RInv, Types, Locked, Order, Loading
<1>3. \A t \in AllThreads : Relies(t)'
  BY <1>1 DEF RInv, Relies
<1>4. Entries'
  BY <1>1, EntriesKept DEF RInv, heap
<1> QED
  BY <1>1, <1>2, <1>3, <1>4 DEF RInv

LEMMA NextKeeps == ASSUME RInv, Next PROVE RInv'
<1>1. CASE \E t \in AllThreads, id \in Ids : Fetch(t, id)
  BY <1>1, FetchKeeps
<1>2. CASE \E t \in AllThreads : Find(t) \/ NewEntry(t) \/ ReadStorage(t) \/ ReadElement(t)
  BY <1>2, ReadingKeeps, NewEntryKeeps
<1>3. CASE Load \/ Grow \/ Grown \/ Loaded
  BY <1>3, LoadKeeps, GrowKeeps, GrownKeeps, LoadedKeeps
<1>4. CASE \E t \in Workers : Attach(t) \/ End(t) \/ FreeThread(t)
  BY <1>4, AttachKeeps, EndKeeps, FreeThreadKeeps
<1>5. CASE Serve \/ FreeWorkers \/ Shutdown
  BY <1>5, ServeKeeps, FreeWorkersKeeps, ShutdownKeeps
<1>6. CASE \E id \in Ids : FreeId(id)
  BY <1>6, FreeIdKeeps
<1> QED
  BY <1>1, <1>2, <1>3, <1>4, <1>5, <1>6 DEF Next

\* What the threads rely on, in every behaviour.
THEOREM RInvHolds == Spec => []RInv
<1>1. RInv /\ [Next]_vars => RInv'
  BY NextKeeps, StutterKeeps
<1> QED
  BY InitRInv, <1>1, PTL DEF Spec

-----------------------------------------------------------------------------
(* What it implies *)

\* How many pointers an entry has; those that are gone have no more than others.
Counts == \A t \in AllThreads : count[t] \in 0 .. idCount

LEMMA CountsKept == ASSUME RInv, Counts, [Next]_vars PROVE Counts'
<1>1. Types /\ idCount \in Nat
  BY MaxIdsNat DEF RInv, Types
<1>2. \/ count' = count /\ idCount' \in {idCount, idCount + 1}
      \/ idCount' = idCount /\ \E t : count' = [count EXCEPT ![t] = idCount]
  <2>1. UNCHANGED <<idCount, count>> \/ Load \/ (\E t : NewEntry(t)) \/ Grown
    BY DEF Next, vars, heap, Fetch, Find, ReadStorage, ReadElement, Grow, Loaded,
           Attach, End, FreeThread, FreeEntries, Serve, FreeWorkers, FreeId, Shutdown
  <2>2. Load => count' = count /\ idCount' = idCount + 1
    BY DEF Load, BeginLoad, heap
  <2>3. (\E t : NewEntry(t)) \/ Grown
          => idCount' = idCount /\ \E t : count' = [count EXCEPT ![t] = idCount]
    BY DEF NewEntry, Grown
  <2> QED
    BY <2>1, <2>2, <2>3
<1>3. CASE count' = count /\ idCount' \in {idCount, idCount + 1}
  BY <1>1, <1>3 DEF Counts
<1>4. CASE idCount' = idCount /\ \E t : count' = [count EXCEPT ![t] = idCount]
  <2>1. PICK t : count' = [count EXCEPT ![t] = idCount]
    BY <1>4
  <2>2. \A u \in AllThreads : count'[u] \in {count[u], idCount}
    BY <1>1, <2>1 DEF Types
  <2> QED
    BY <1>1, <1>4, <2>2 DEF Counts
<1> QED
  BY <1>2, <1>3, <1>4

\* The type invariant of Tsrm.
THEOREM TypeOKHolds == Spec => []TypeOK
<1>1. Init => Counts
  BY DEF Init, Counts
<1>2. RInv /\ Counts /\ [Next]_vars => Counts'
  BY CountsKept
<1>3. ASSUME RInv, Counts PROVE TypeOK
  <2>1. Types /\ Locked /\ Entries
    BY <1>3 DEF RInv
  <2>2. mutex \in {NoOne, Main} /\ memory \subseteq Blocks
    BY <2>1 DEF Locked, Entries
  <2> QED
    BY <1>3, <2>1, <2>2 DEF Types, Counts, TypeOK
<1> QED
  BY <1>1, <1>2, <1>3, RInvHolds, PTL DEF Spec

\* While Main loads a module no other thread reads; at any other time the arrays
\* are where the entries say.
LEMMA ReadsFollow == RInv => ReadsAlive
<1> SUFFICES ASSUME RInv, NEW t \in AllThreads, at[t].at = "deref"
             PROVE  at[t].array \in memory /\ at[t].id \in array[at[t].array]
  BY DEF ReadsAlive
<1>1. Types /\ Order /\ Relies(t) /\ Entries
  BY DEF RInv
<1>2. /\ t \in table /\ at[t].array = storage[t]
      /\ at[t].id \in (1 .. idCount) \ done
  BY <1>1 DEF Relies
<1>3. ~Loading
  <2>1. CASE t = Main
    BY <2>1 DEF Loading
  <2>2. CASE t # Main
    <3>1. phase = "serving"
      BY <2>2, OneThread, Threads
    <3> QED
      BY <1>1, <3>1 DEF Order
  <2> QED
    BY <2>1, <2>2
<1>4. Small = {} /\ ArrayOf(t) = storage[t]
  BY <1>3 DEF Small, ArrayOf, Loading
<1>5. /\ count[t] = idCount /\ array[storage[t]] = (1 .. idCount) \ done
      /\ storage[t] \in memory
  BY <1>1, <1>2, <1>4 DEF Entries
<1> QED
  BY <1>2, <1>5

LEMMA CompleteFollows == RInv => Complete
<1> SUFFICES ASSUME RInv, mutex = NoOne, NEW t \in table
             PROVE  /\ storage[t] \in memory
                    /\ array[storage[t]] = (1 .. idCount) \ done
                    /\ \A u \in table \ {t} : storage[u] # storage[t]
  BY DEF Complete
<1>1. ~Loading
  BY Threads DEF RInv, Locked
<1>2. Small = {} /\ \A u : ArrayOf(u) = storage[u]
  BY <1>1 DEF Small, ArrayOf, Loading
<1> QED
  BY <1>2 DEF RInv, Entries

LEMMA DestroyedFollows == RInv => AllDestroyed
<1> SUFFICES ASSUME RInv PROVE ~misused /\ (phase = "over" => memory = {})
  BY DEF AllDestroyed
<1> QED
  BY DEF RInv, Order, Entries

\* A thread never reads an array that has been freed or a resource that is not
\* there; with the mutex free every entry has the resources of all modules in an
\* array of its own; every destructor gets its resource and nothing is left.
THEOREM ResourcesSafeHolds == Spec => []ResourcesSafe
<1>1. RInv => ResourcesSafe
  BY ReadsFollow, CompleteFollows, DestroyedFollows DEF ResourcesSafe
<1> QED
  BY <1>1, RInvHolds, PTL
=====
