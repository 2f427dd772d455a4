-------------------------------- MODULE Tsrm --------------------------------
(***************************************************************************)
(* The resources of threads (TSRM/TSRM.c).  Each thread has an entry with  *)
(* an array of pointers to its copy of every module's globals.  A thread   *)
(* reads its own array without the mutex; ts_allocate_id makes the arrays  *)
(* of all threads larger, and ts_free_worker_threads frees the entries of  *)
(* the others.                                                             *)
(*                                                                         *)
(* What keeps these apart is the order in which a server goes about it     *)
(* (main/main.c, ext/standard/dl.c, sapi/): modules are loaded before      *)
(* there are other threads, and unloaded when they have ended.             *)
(***************************************************************************)
EXTENDS TsrmBounds

Ids    == 1 .. MaxIds
Blocks == 1 .. Cardinality(AllThreads) + 2
NULL   == 0

VARIABLES
    idCount,    \* id_count
    done,       \* the ids ts_free_id has freed
    table,      \* tsrm_tls_table: the threads that have an entry
    storage,    \* of each entry: the array of pointers
    count,      \* of each entry: how many there are
    array,      \* the ids whose resource each array points to
    memory,     \* the arrays that are allocated
    tls,        \* whether each thread has found its entry: tsrm_tls_get()
    mutex,      \* the thread that holds tsmm_mutex
    at,         \* what each thread does
    phase,      \* of the server
    fetches,    \* bound: how often workers have fetched
    misused     \* history: a destructor has been called without its resource

heap == <<storage, count, array, memory>>
vars == <<idCount, done, table, heap, tls, mutex, at, phase, fetches, misused>>

\* What Main has to do in ts_allocate_id(): `todo' are the entries whose array is
\* not large enough, `entry' is the one whose array it has just enlarged.
Out     == [at |-> "out", id |-> 0, array |-> NULL, todo |-> {}, entry |-> NoOne]
Running == [Out EXCEPT !.at = "running"]

Init ==
    /\ idCount = 0 /\ done = {}
    /\ table = {}
    /\ storage = [t \in AllThreads |-> NULL]
    /\ count = [t \in AllThreads |-> 0]
    /\ array = [a \in Blocks |-> {}]
    /\ memory = {}
    /\ tls = [t \in AllThreads |-> FALSE]
    /\ mutex = NoOne
    /\ at = [t \in AllThreads |-> IF t = Main THEN Running ELSE Out]
    /\ phase = "startup"
    /\ fetches = 0
    /\ misused = FALSE
-----------------------------------------------------------------------------
(* ts_resource_ex() *)

Fetch(t, id) ==
    /\ at[t] = Running
    /\ id \in (1 .. idCount) \ done
    /\ t = Main \/ fetches < MaxFetches
    /\ fetches' = IF t = Main THEN fetches ELSE fetches + 1
    /\ at' = [at EXCEPT ![t] = [Out EXCEPT !.at = IF tls[t] THEN "read" ELSE "find", !.id = id]]
    /\ UNCHANGED <<idCount, done, table, heap, tls, mutex, phase, misused>>

\* Without tls: the entry of the thread's number, or of a former thread with the
\* same number, is looked up with the mutex locked.
Find(t) ==
    /\ at[t].at = "find"
    /\ mutex = NoOne
    /\ t \in table
    /\ at' = [at EXCEPT ![t].at = "read"]
    /\ UNCHANGED <<idCount, done, table, heap, tls, mutex, phase, fetches, misused>>

Unused == CHOOSE a \in Blocks : a \notin memory

\* allocate_new_resource(); then ts_resource_ex() looks again.
NewEntry(t) ==
    /\ at[t].at = "find"
    /\ mutex = NoOne
    /\ t \notin table
    /\ table' = table \cup {t}
    /\ storage' = [storage EXCEPT ![t] = Unused]
    /\ count' = [count EXCEPT ![t] = idCount]
    /\ array' = [array EXCEPT ![Unused] = (1 .. idCount) \ done]
    /\ memory' = memory \cup {Unused}
    /\ tls' = [tls EXCEPT ![t] = TRUE]
    /\ UNCHANGED <<idCount, done, mutex, at, phase, fetches, misused>>

\* Outside of the mutex: the pointer to the array is read ...
ReadStorage(t) ==
    /\ at[t].at = "read"
    /\ at' = [at EXCEPT ![t].at = "deref", ![t].array = storage[t]]
    /\ UNCHANGED <<idCount, done, table, heap, tls, mutex, phase, fetches, misused>>

\* ... and then an element of the array.
ReadElement(t) ==
    /\ at[t].at = "deref"
    /\ at' = [at EXCEPT ![t] = Running]
    /\ UNCHANGED <<idCount, done, table, heap, tls, mutex, phase, fetches, misused>>

-----------------------------------------------------------------------------
(* ts_allocate_id() *)

BeginLoad ==
    /\ at[Main] = Running
    /\ idCount < MaxIds
    /\ mutex = NoOne
    /\ mutex' = Main
    /\ idCount' = idCount + 1
    /\ at' = [at EXCEPT ![Main] = [Out EXCEPT !.at = "grow", !.todo = table]]
    /\ UNCHANGED <<done, table, heap, tls, phase, fetches, misused>>

\* Mutant: dl() in a server that has other threads.
Load_WhileServing == BeginLoad /\ phase \in {"startup", "serving"}

\* php_module_startup() loads modules; dl() refuses to when there may be other
\* threads.
Load == BeginLoad /\ phase = "startup"

\* realloc() of an array, in the order of the buckets (which is any), ...
Grow ==
    /\ at[Main].at = "grow"
    /\ \E t \in at[Main].todo :
         /\ memory' = (memory \ {storage[t]}) \cup {Unused}
         /\ array' = [array EXCEPT ![Unused] = array[storage[t]]]
         /\ at' = [at EXCEPT ![Main].at = "grown", ![Main].array = Unused,
                             ![Main].todo = @ \ {t}, ![Main].entry = t]
    /\ UNCHANGED <<idCount, done, table, storage, count, tls, mutex, phase, fetches, misused>>

\* ... which is stored in the entry, and the constructor of the new resource.
Grown ==
    /\ at[Main].at = "grown"
    /\ LET t == at[Main].entry  new == at[Main].array IN
       /\ storage' = [storage EXCEPT ![t] = new]
       /\ array' = [array EXCEPT ![new] = @ \cup (count[t] + 1) .. idCount]
       /\ count' = [count EXCEPT ![t] = idCount]
    /\ at' = [at EXCEPT ![Main] = [Out EXCEPT !.at = "grow", !.todo = at[Main].todo]]
    /\ UNCHANGED <<idCount, done, table, memory, tls, mutex, phase, fetches, misused>>

Loaded ==
    /\ at[Main].at = "grow"
    /\ at[Main].todo = {}
    /\ mutex' = NoOne
    /\ at' = [at EXCEPT ![Main] = Running]
    /\ UNCHANGED <<idCount, done, table, heap, tls, phase, fetches, misused>>

-----------------------------------------------------------------------------
(* Threads start and end; the kernel forgets tls. *)

Attach(t) ==
    /\ phase = "serving"
    /\ at[t] = Out
    /\ fetches < MaxFetches
    /\ at' = [at EXCEPT ![t] = Running]
    /\ UNCHANGED <<idCount, done, table, heap, tls, mutex, phase, fetches, misused>>

\* Most servers free nothing when a thread ends.
End(t) ==
    /\ at[t] = Running
    /\ at' = [at EXCEPT ![t] = Out]
    /\ tls' = [tls EXCEPT ![t] = FALSE]
    /\ UNCHANGED <<idCount, done, table, heap, mutex, phase, fetches, misused>>

\* The destructors and the memory of the entries of some threads, which are
\* unlinked; whether a type is done is not looked at.
FreeEntries(ts) ==
    /\ misused' = (misused \/ \E t \in ts : array[storage[t]] # 1 .. count[t])
    /\ memory' = memory \ {storage[t] : t \in ts}
    /\ table' = table \ ts
    /\ UNCHANGED <<storage, count, array>>

\* ts_free_thread()
FreeThread(t) ==
    /\ at[t] = Running
    /\ mutex = NoOne
    /\ FreeEntries({t} \cap table)
    /\ tls' = [tls EXCEPT ![t] = FALSE]
    /\ at' = [at EXCEPT ![t] = Out]
    /\ UNCHANGED <<idCount, done, mutex, phase, fetches>>

-----------------------------------------------------------------------------
(* The server starts to serve, and stops when its threads have ended. *)

Serve ==
    /\ phase = "startup"
    /\ at[Main] = Running
    /\ phase' = "serving"
    /\ UNCHANGED <<idCount, done, table, heap, tls, mutex, at, fetches, misused>>

\* php_module_shutdown() starts with ts_free_worker_threads(), which looks at
\* one bucket.
FreeWorkers ==
    /\ phase = "serving"
    /\ at[Main] = Running /\ \A t \in Workers : at[t] = Out
    /\ mutex = NoOne
    /\ FreeEntries(Near \cap table)
    /\ phase' = "stopping"
    /\ UNCHANGED <<idCount, done, tls, mutex, at, fetches>>

\* ts_free_id(), for the modules that are unloaded.
FreeId(id) ==
    /\ phase = "stopping"
    /\ at[Main] = Running
    /\ id \in (1 .. idCount) \ done
    /\ done' = done \cup {id}
    /\ array' = [a \in Blocks |-> IF \E t \in table : storage[t] = a
                                  THEN array[a] \ {id} ELSE array[a]]
    /\ UNCHANGED <<idCount, table, storage, count, memory, tls, mutex, at, phase, fetches, misused>>

\* tsrm_shutdown() knows which types are done.
Shutdown ==
    /\ phase = "stopping"
    /\ at[Main] = Running
    /\ phase' = "over"
    /\ misused' = (misused \/ \E t \in table : array[storage[t]] # (1 .. count[t]) \ done)
    /\ memory' = memory \ {storage[t] : t \in table}
    /\ table' = {}
    /\ at' = [at EXCEPT ![Main] = Out]
    /\ UNCHANGED <<idCount, done, storage, count, array, tls, mutex, fetches>>

-----------------------------------------------------------------------------

Next ==
    \/ \E t \in AllThreads, id \in Ids : Fetch(t, id)
    \/ \E t \in AllThreads : Find(t) \/ NewEntry(t) \/ ReadStorage(t) \/ ReadElement(t)
    \/ Load \/ Grow \/ Grown \/ Loaded
    \/ \E t \in Workers : Attach(t) \/ End(t) \/ FreeThread(t)
    \/ Serve
    \/ FreeWorkers
    \/ \E id \in Ids : FreeId(id)
    \/ Shutdown

Spec == Init /\ [][Next]_vars

-----------------------------------------------------------------------------
(* Properties *)

TypeOK ==
    /\ idCount \in 0 .. MaxIds /\ done \subseteq 1 .. idCount
    /\ table \subseteq AllThreads
    /\ \A t \in AllThreads : storage[t] \in Blocks \cup {NULL} /\ count[t] \in 0 .. idCount
    /\ memory \subseteq Blocks /\ \A a \in Blocks : array[a] \subseteq Ids
    /\ tls \in [AllThreads -> BOOLEAN]
    /\ mutex \in {NoOne, Main}

\* A thread that reads outside of the mutex never reads an array that has been
\* freed, or a resource that does not exist (yet, or any more).
ReadsAlive == \A t \in AllThreads : at[t].at = "deref" =>
    at[t].array \in memory /\ at[t].id \in array[at[t].array]

\* With the mutex free, every entry has the resources of all modules, whether it
\* was there when the module was loaded or has come later, in an array of its own.
Complete == mutex = NoOne => \A t \in table :
    /\ storage[t] \in memory
    /\ array[storage[t]] = (1 .. idCount) \ done
    /\ \A u \in table \ {t} : storage[u] # storage[t]

\* Every destructor gets its resource, and at the end nothing is left.
AllDestroyed == ~misused /\ (phase = "over" => memory = {})

ResourcesSafe == ReadsAlive /\ Complete /\ AllDestroyed
=============================================================================
