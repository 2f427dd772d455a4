# The PHP engine in TLA+

Specifications, model-checking runs and machine-checked proofs of parts of the
PHP 5.3 engine (the `php5/` tree: 5.3.0RC2-dev). The modules are written from the
C code; file names below are relative to `php5/`.

1. [The system](#1-the-system)
2. [The modules](#2-the-modules)
3. [The runs](#3-the-runs)
4. [What is proved](#4-what-is-proved)
5. [What the code does that its texts deny](#5-what-the-code-does-that-its-texts-deny)
6. [What is not modelled](#6-what-is-not-modelled)
7. [Plan](#7-plan)

To parse, check and prove: `tlasany M.tla`, `tlc -config X.cfg M`, `tlapm M_proof.tla`.

## 1. The system

PHP is a library of C modules around a virtual machine. A *server interface*
(sapi) starts the engine and hands it requests. For each request the engine
compiles a script, executes it, and gives back everything the request used. In a
build with threads (ZTS) many requests run at once in one process, and a few
structures are shared by all of them; in other builds processes share only what
the operating system keeps for them (files, System V objects).

```
   sapi  -> main (request startup, output buffers, shutdown) -> streams
              |                                      |
              v                                      v
   Zend: compiler -> virtual machine -> zvals --> objects store
              |             |             |   ^        |
        directives      resources         v   |        v
        (zend_ini)      (zend_list)   cycle collector (zend_gc)
              |
   shared by threads: TSRM storage, zend_ts_hash tables
   shared by processes: session files, System V semaphores; signals come from outside
```

Three things make this code hard, and the hazards in `PROJECT.json` are
instances of them:

* **User code runs inside C code.** Dropping a reference may run `__destruct()`,
  which may do anything, including what its caller is in the middle of: create
  objects and so move the table the caller points into, store `$this`, start
  another collection, or call `exit()`, which unwinds the C stack with
  `longjmp`.
* **Counts are kept by hand**, in two places for each object (its zvals and its
  bucket), and the cycle collector takes them apart and puts them together again.
* **Threads, signals and other processes** come between two statements.

### Components

Each row: the state a component keeps, its operations, how it meets other
components, what is hard, and what would make it correct.

| Component | State | Operations | Hard | Correct when |
|---|---|---|---|---|
| **Thread-safe hash table** `Zend/zend_ts_hash.c` | a count `reader`, two mutexes, a hash table | `begin_read` / `end_read` and `begin_write` / `end_write` around each `zend_hash_*` function; `clean` resets `reader`; copy, merge and compare hold two tables | one thread locks `mx_writer` and another unlocks it; the unguarded reset; two locks in no fixed order | a writer is alone; the count is exact; no mutex is left locked; somebody always gets in; only copies that chase one another deadlock |
| **Objects store** `Zend/zend_objects_API.c`, `Zend/zend_objects.c` | buckets (valid, destructor called, count), the free list of handles, `top`, `size` | put, add_ref, del_ref; at shutdown: call all destructors, free all storage | destructors and bailouts inside del_ref; the table moves; objects made reachable again | a destructor runs once; the count is the number of references; nothing leads to a freed object; every free handle is on the free list once; nothing unreferenced stays |
| **Cycle collector** `Zend/zend_gc.c`, with `_zval_ptr_dtor` (`Zend/zend_execute_API.c`) | colour and buffer address of each zval and bucket, root buffer, lists of garbage | possible root, remove from buffer, collect (mark, scan, collect white, destructors, destroy, free), enable / disable | trial deletion of counts; destructors between choosing garbage and freeing it; collections inside collections; the full buffer | what is freed is unreachable; counts are restored; every garbage cycle has a root in the buffer; entries are not lost or doubled |
| **System V semaphores** `ext/sysvsem/sysvsem.c` | per key three kernel semaphores: the semaphore, the number of users, a guard | get, acquire, release, remove; the kernel's undo at exit | a crash between operations, undone one semaphore after the other; the first user sets the maximum | no unit and no use is lost or made, whoever dies; the process that sets the maximum is alone; every `sem_get()` returns |
| **Signals** `ext/pcntl/pcntl.c` | queue of pending signals, list of spare entries, a flag against reentry | handler (asynchronous), dispatcher (ticks) | the handler interrupts the dispatcher and itself | entries are neither lost nor in two lists; signals are played in order, as often as there were spares for |
| **Output buffering** `main/output.c` | stack of buffers, lock, nesting level | start, write, flush, clean, end, all of them from user handlers | handlers that call these functions or bail out | level equals stack; everything comes out once and in order, or is discarded by clean; the lock is released; the flush at the end ends |
| **Thread resources** `TSRM/TSRM.c` | table of resource types, per-thread storage | allocate id, fetch, free id, thread begin / end | storage grows while its owner reads it without the mutex | each thread has one constructed resource for each id; nobody reads an array that is freed; each destructor gets its resource |
| **Directives** `Zend/zend_ini.c` | value and original value, modified flag, list of modified directives | register, alter, restore, deactivate | `on_modify` refuses after the original value was recorded | after the request every directive has its startup value; what the administrator has set holds; no value is freed twice or while it is used |
| Resources `Zend/zend_list.c` | counted entries, persistent ones apart | insert, add ref, delete, delete all in reverse | destructors of resources that name resources | destructors run once, dependants first |
| **Session files** `ext/session/` | one file per session, a lock on it | open, read, write, destroy, collect old files | two requests on one session, a collector that removes files | what one request wrote the next one reads, whole; nobody writes to a session another has read; everybody gets his lock |
| Everything else | see `PROJECT.json` and section 6 | | | |

How they meet: `_zval_ptr_dtor` drops a count and calls the objects store
(`zend_objects_store_del_ref`) or tells the collector of a possible root; the
store calls destructors, and frees properties through `_zval_ptr_dtor` again; the
collector calls destructors through the store's handlers and puts garbage objects
back into it. Request shutdown runs the store's loops in a fixed order
(`Zend/zend_execute_API.c` 227, `main/main.c`). `ObjectsStore` looks at this
from the store, with bailouts and shutdown but without colours; `ZendGC` looks at
it from the collector, with zvals and colours but without bailouts.

The other modelled components share no state with one another: threads meet in
the tables of `zend_ts_hash` and in the arrays of TSRM, processes in semaphores
and session files, and code of the script comes back into the queue of signals
(through ticks), the output buffers (through their handlers) and directives
(through `on_modify` and the error handler it may run).

## 2. The modules

| Module | Models | Checked through |
|---|---|---|
| `ReadersWriterLock` | what a readers-writer lock promises (abstract) | refined by the next two |
| `TsHashLock` | the lock of one table, statement by statement | `MCThreads` |
| `TsHashTables` | several tables and the calls that hold two | `MCThreads` |
| `Tsrm` | the resources of threads, from the start of a server to its end | `MCThreads` |
| `SysvSem` | the semaphores of one key, and processes that die | `MCProcesses` |
| `SessionFiles` | session files, their locks and their collector | `MCProcesses`, `MCSessionFiles` |
| `PcntlSignals` | the queue of signals, interrupted at every statement | `MCRequest` |
| `OutputBuffers` | nested output buffers and their handlers | `MCRequest` |
| `IniEntries` | a directive over the requests of a process | `MCRequest`, `MCDirective` |
| `ObjectsStore` | the objects store from script to end of request | `MCObjectsStore` |
| `ZendGC` | reference counts, root buffer and collections | `MCZendGC` |
| `TsrmBounds`, `SessionBounds`, `IniBounds` | the constants of `Tsrm`, `SessionFiles` and `IniEntries`, with what is assumed of them | the modules that declare state |
| `ObjectsStore_proof` | theorems about the objects store | tlapm |
| `Tsrm_proof` | the same about resources of threads | tlapm |
| `TsHashLock_proof` | about the lock; carries `Tsrm_proof` over to `MCThreads` | tlapm |
| `SessionFiles_proof` | about session files | tlapm |
| `SysvSem_proof` | about the guard of `sem_get`; carries `SessionFiles_proof` over to `MCProcesses` | tlapm |
| `OutputBuffers_proof`, `IniEntries_proof` | about output buffers and directives | tlapm |
| `PcntlSignals_proof` | about the queue of signals; carries the last two over to `MCRequest` | tlapm |

The `MC*` modules name model values and symmetries. `MCThreads`, `MCProcesses`
and `MCRequest` put components side by side that have no state in common: the
variable `part` picks one of them in the initial state, and only that one moves,
so that each is checked by itself and none is multiplied by the others. Constants
and their assumptions are in a module apart (`*Bounds`) where a component is
instantiated and also proved about: both see the same constants.
Operators whose comment begins with `Mutant:` are plausible wrong versions of the definition after them;
they are not part of a specification but show, for every property, a bug in the
code that would violate it.

### TsHashLock

| Model | Code (`Zend/zend_ts_hash.c`) |
|---|---|
| `pc[t]` | the statement thread `t` executes next: `br_*` in `begin_read` (25), `er_*` in `end_read` (36), `bw_*` in `begin_write` (47), `reading` / `writing` in the `zend_hash` function |
| `reader` | `ht->reader`; the code only compares it with 0 and 1, so wrapped values are negative here |
| `mxReader`, `mxWriter` | the mutexes, with the thread that locked them |
| `CountReader`, `UncountReader` | `++reader == 1`, `--reader == 0` and where control goes |
| `CallClean` | line 96: `ht->reader = 0` before `begin_write`. The store races with the load-add-store of `++` and `--`, so it may also be lost |

A mutex may be unlocked by a thread other than the one that locked it. The code
relies on it, and the default pthread mutex `tsrm_mutex_alloc` makes (`TSRM/TSRM.c`
602) does so in practice; Windows critical sections (596), which belong to a
thread and can be entered again by it, are not modelled. The variable
`cleaned` records that some thread has called `zend_ts_hash_clean`: until then the
lock is what its author had in mind, from then on what the exported functions permit.

### TsHashTables

A thread's `agenda` is the rest of its call as a sequence of lock steps, so that
a call on two tables is the concatenation of what the code calls in order
(`Copy`: lines 267-299, `Compare`: 312-323). The locks behave as in `TsHashLock`
and are checked again to implement `ReadersWriterLock`, table by table.

### Tsrm

| Model | Code (`TSRM/TSRM.c`) |
|---|---|
| `table` | `tsrm_tls_table`: the threads that have an entry; `Near` says which of them share the bucket of `Main`, the only thing about buckets that any function asks |
| `storage[t]`, `count[t]` | the entry's `storage` (which array) and `count` |
| `array[a]`, `memory` | the ids whose resource each array points to, and the arrays that are allocated: `realloc` is a new array and the end of the old one |
| `mutex` | `tsmm_mutex`, for the calls of `ts_allocate_id` that take several steps; what runs as a whole under the mutex is one step that needs it free |
| `Fetch`, `Find`, `NewEntry`, `ReadStorage`, `ReadElement` | `ts_resource_ex` (308-376): up to the mutex, under it, and the two reads outside of it |
| `Load` .. `Loaded` | `ts_allocate_id` (215-267), entry by entry |
| `FreeThread`, `FreeWorkers`, `FreeId`, `Shutdown` | `ts_free_thread` (442), `ts_free_worker_threads` (484), `ts_free_id` (530), `tsrm_shutdown` (165) |

When these are called is part of the model: modules are loaded at startup only,
because `dl()` refuses to in a server with threads (`ext/standard/dl.c` 76), and
they are unloaded when the workers have ended (`phase`). The mutant
`Load_WhileServing` shows what that order is worth. Worker threads end without
telling anybody, and their numbers are used again.

### SysvSem

| Model | Code (`ext/sysvsem/sysvsem.c`) |
|---|---|
| `set`, `exists`, `val` | external: the sets of kernel semaphores the key has had, whether the last is still there, and its three values |
| `adj[p]` | external: what the kernel adds when `p` dies (`SEM_UNDO`) |
| `res[p][s]` | `sysvsem_sem`: id, `count` (-1: removed), `auto_release` |
| `call[p]` | the `sem_get` a process is in; its two `semop` and `GETVAL`, `SETVAL` between them are `TakeGuard`, `GetVal`, `SetVal`, `DropGuard` (212-293) |
| `Die`, `Undo`, `Restart` | external: a process dies anywhere, and the kernel undoes its operations one semaphore at a time, in any order, while others go on |
| `limit`, `kept` | history variables |

An operation on a set that has been removed fails; `sem_get` warns and goes on, and
so does the model. That the kernel performs one `semop` as a whole and forgets the
undoing of a semaphore that gets `SETVAL` is what `semop(2)` and `semctl(2)` promise.

### SessionFiles

| Model | Code (`ext/session/mod_files.c`, `session.c`) |
|---|---|
| `dir`, `content`, `locked`, `inodes` | external: names, files and their locks. A file that is removed lives on for those that have it open |
| `req[r]` | `PS(id)`, and `fd`, `lastkey` and `st_size` of `ps_files`; `seen`, `data`: what the request has read and writes |
| `Start`, `Lock`, `Read` | `php_session_initialize`, `ps_files_open` (144-192), `PS_READ_FUNC` (350) |
| `GcStat`, `GcUnlink`, `GcEnd` | the collector (226-263): `stat` and `unlink` of one name, without its lock |
| `SessionId`, `Regenerate`, `RegenerateAndDelete`, `Destroy`, `Unlink`, `Unlinked` | `session_id`, `session_regenerate_id`, `session_destroy`: the file is closed, and then removed by name |
| `Flush`, `Truncate`, `Write`, `Discard` | `php_session_save_current_state` (577-629), `PS_WRITE_FUNC` (399-430) with `ftruncate` and `pwrite` apart |
| `Crash` | external: a process dies anywhere and the kernel unlocks its file |
| `locked[i]` | the requests that hold the lock of a file. That there is one at most is proved, and not built into the type |
| `size_of` (in `req[r]`) | history: the file `st_size` is the size of, until that file is closed |
| `meant`, `cut`, `misled` | history variables: what the last write was to leave, files whose writer died in the middle, files last written by a request that had not their size |

The content of a file is a sequence of bytes, each of which says which session wrote it.

### PcntlSignals

| Model | Code (`ext/pcntl/pcntl.c`) |
|---|---|
| `head`, `tail`, `spares`, `next`, `memory` | the lists of `php_pcntl_pending_signal` and which entries are allocated |
| `main` | the next statement of the script's process (`at`), where it goes on after `pcntl_signal()` (`back`: the script, or the function the dispatcher calls), and the local variables `queue` and `entry` of the dispatcher |
| `frames` | the handlers that run, the innermost last; `main` rests meanwhile |
| `Arrive`, `Pop`, `Test`, `Link`, `SetTail` | `pcntl_signal_handler` (1076-1099), a step for each access that the rest can observe |
| `PcntlSignal`, `Alloc`, `Add` | `pcntl_signal` fills the list of spares |
| `Dispatch`, `Clear`, `Called`, `Give`, `Exit` | `pcntl_signal_dispatch` (1103-1140); `Exit` is `exit()` in a function it calls |
| `EndScript` .. `NextRequest` | `php_deactivate_ticks`, `RSHUTDOWN` entry by entry with the handlers installed, and `RINIT` of the next request |
| `seq`, `linked`, `called`, `abandoned`, `torn` | history variables |

A signal is masked while its own handler runs (`ext/pcntl/php_signal.c` 29), others
are not. `torn` becomes true when a handler runs in a window the code does not
protect: between storing `spares` in an entry and the entry in `spares`, or inside
another handler. The entry or the place in the queue is then taken twice. The
properties hold up to there and are silent afterwards (section 6).

### OutputBuffers

| Model | Code (`main/output.c`) |
|---|---|
| `level`, `buffers`, `active`, `lock` | `ob_nesting_level`, `ob_buffers`, `active_ob_buffer`, `ob_lock` |
| `buffered` | whether `php_body_write` is `php_b_body_write` |
| `stack` | the calls of `php_end_ob_buffer` (185-331) in progress: `enter`, `handler` (code of the script runs), `end`, `sent`; a call may send to a buffer that reaches its chunk size, which is a call on top of it |
| `phase` | `php_request_shutdown` (`main/main.c`): functions, destructors and flush, each with its own `zend_try` |
| `Echo`, `ObStart`, `ObStartLocked`, `ObEnd`, `Exit` | what scripts and handlers call |
| `written`, `started`, `dropped`, `returned`, `ended`, `bailed`, `reentered` | history variables; the model stops at `reentered`, when a handler enters the call for its own buffer again |

Output is a sequence of numbered pieces. A handler returns what it was given,
what the buffer holds now (when it returns `FALSE`), or something without any of it.

### IniEntries

| Model | Code (`Zend/zend_ini.c`) |
|---|---|
| `value`, `orig`, `modifiable`, `origModifiable`, `modified`, `listed` | the fields of `zend_ini_entry` and its place in `EG(modified_ini_directives)` |
| `heap` | the duplicates of values that are allocated; `corrupt`: something else was given to `efree` |
| `global` | the pointer the module of the directive keeps, which its `on_modify` stores early or late |
| `calls` | the calls of `on_modify` that have not returned, one inside another when it runs the error handler of the script |
| `AlterBy`, `AlterAccepted`, `AlterRefused` | `zend_alter_ini_entry_ex` (247-295), before and after `on_modify` |
| `IniRestore`, `Restored`, `GiveBack` | `zend_restore_ini_entry_cb` (47-70) |
| `Bailout` | a handler that does not return; restoring catches it |
| `Activate` .. `FreeMemory` | the stages of a request |

### ObjectsStore

| Model | Code |
|---|---|
| `slot[h]` | `object_buckets[h]`: `valid`, `destructor_called`, `bucket.obj.refcount` |
| `top`, `size`, `freeList` | the fields of `zend_objects_store`; the list threads through free buckets |
| `base` | counts the times `erealloc` moved the table (it may move at every growth; the model says it does) |
| `ref[r]` | who holds each counted reference: a variable, a property of an object, the `$this` of a running destructor, the loop at shutdown; `dying` while del_ref works on it, `leaked` when a bailout jumped over its holder |
| `calls` | the C calls in progress. `zend_objects_store_del_ref_by_handle_ex` (179-237) is `entry`, `in_dtor`, `dtor_done`, `freeing`, `dec`, `bailout`: a new step wherever user code may run between |
| `phase`, `loop` | `shutdown_destructors` and `shutdown_executor` (`Zend/zend_execute_API.c`): `symbols`, `destructors`, `globals`, `storage`, `done`, and `i` of the store's two loops |
| `runs`, `stale` | history variables |

User code is whatever can happen while `UserRuns`: creating objects, copying and
dropping references to what it can name, ending, `exit()` (`Bailout(FALSE)`) and
fatal errors (`Bailout(TRUE)`, which mark every object as destructed,
`main/main.c`). `Unwind` follows the nested `zend_try` blocks: del_ref catches a
bailout around the destructor and around `free_storage`, finishes, and bails out
itself; the shutdown catches around each of its steps.

### ZendGC

| Model | Code |
|---|---|
| `node` | memory: zvals and buckets with type, count, elements, colour and `addr` (`u.buffered`: null, in the buffer, on the list of garbage) |
| `var` | variables; all are references (`=&`), so that no zval is separated |
| `roots`, `unused`, `fresh` | the root buffer: entries in use, given back, never used |
| `toFree`, `freeList`, `nextToFree` | the lists of garbage, which a nested collection saves and restores |
| `work` | the C code in progress, as a stack of tasks |

Recursion over elements becomes tasks pushed on `work`; marking, scanning and
collecting follow `zval_mark_grey` (330), `zval_scan` (427), `zval_scan_black`
(269) and `zval_collect_white` (517) with their order of tests. `CheckZval` is
`GC_ZVAL_CHECK_POSSIBLE_ROOT`, `PossibleRoot` and `RootAfter` are the two
functions behind it, with the collection a full buffer starts (`RootAfter` goes
on after it). `PtrDtor*`, `DelRef`, `CallDestructor`, `Destructed`,
`CheckObject` are `_zval_ptr_dtor` and the store's del_ref as the collector sees
them. From `Swap` on, user code may run inside a collection.

## 3. The runs

All counts are distinct states TLC finds; every run is complete for its bounds,
none uses a state constraint.

### Threads

**`threads`** (`MCThreads`; 444,710 states) checks three parts, one at a time.
Deadlock is not checked: the locks may deadlock, which `SomebodyGetsIn` and
`DeadlockNeedsCopyCycle` are about, and a server ends.

*One table in detail* (4 threads). Exact until somebody calls `zend_ts_hash_clean`:
`CountExact` (`reader` is the number of readers let in), `NoLeakedLock` (a mutex is only
locked while somebody is in a call it is locked for) and `SomebodyGetsIn` (when
threads wait in `begin_read` or `begin_write`, some thread gets in). What survives the
unguarded reset: `Exclusion` (a writer is alone), `ImplementsLock` (threads enter and
leave as `ReadersWriterLock` says) and `CountNotAbove` (readers are only ever forgotten,
never invented). Progress does not: `reader` restarts from 0 under a reader, nobody
unlocks `mx_writer` again, and all threads may block. Four threads allow two
readers that overlap, a third that makes the count pass through 0 and back, and a
writer that waits meanwhile; the protocol only tells 0, 1 and more apart.

*Fairness*: `WF_vars(Step(t))` for each thread, that is, a thread that can execute
its next statement for ever eventually does, which any preemptive scheduler
gives. Nothing is assumed of the order in which a mutex serves those that wait
(that would be strong fairness, which POSIX and Windows mutexes do not promise),
and threads need not make calls. For the same reason nothing is said about one
given thread: readers that overlap can keep a writer out for ever.

*Two tables* (3 threads, copies `a` to `b`, `b` to `a` and `a` to `a`, comparison of
`b` with `a`). `ImplementsLocks`: each table is a readers-writer lock.
`DeadlockNeedsCopyCycle`: for every group of threads each of
which waits for others of the group only, the copies under way contain a cycle of
tables. So reading, writing and comparing never deadlock, and copies do not as
long as a program copies along some order of tables; opposite copies do.
Two tables make the shortest cycles (of length 1 and 2); the third thread is the
bystander that holds `mx_reader` or comes between. `reader` is at most 2 for each
thread (a table compared with itself).

*Resources* (a main thread, 2 workers, one of them in the main thread's bucket, 2
ids, 4 fetches). `ResourcesSafe` has three parts: `ReadsAlive` (the reads outside of
the mutex never meet an array that has been freed or a resource that is not
there), `Complete` (with the mutex free each entry has the resources of all modules,
whether it was there before a module was loaded or not) and `AllDestroyed` (each
destructor gets its resource, and at the end no array is left). Two ids let an entry
grow after it was made; four fetches let a worker end, another one take its number
and find its entry while the other bucket's worker is made.

### Processes

**`processes`** (`MCProcesses`; 132,679 states) checks two parts. Deadlock is not
checked: a script need not do anything more.

*Semaphores* (3 processes, 2 uses at a time, maximum 2, the set made twice).
`BooksBalance`: at every moment the kernel would undo exactly what each live process
has, and values, units and uses add up, whoever has died and however far the kernel
is with undoing it. `FirstUserIsAlone`: one process at a time is between the two
`semop` of `sem_get`, and one that is about to set the maximum is the only one
that uses the set, although it has counted the users before. `GetReturns`: every
`sem_get` returns or its caller dies. Two processes race for the guard or hold
units while a third one is dead and half undone; a second set makes ids that are
no longer valid. What the run does *not* show is that somebody sets the maximum: a
process that passes the guard before the kernel has undone the last user of a dead
one counts two, and the comment in the code (212) admits it.

*Session files* (2 requests that serve 2 sessions in all, 2 ids, data of 0 to 2 bytes).
`FileIsLastWrite`: a file holds what was last written to it, all of it and nothing else,
through removals, new files of the same name, changes of id and the collector,
unless a process has died between `ftruncate` and `pwrite` or the writer had read
another file (see `session_old_end`). `ReadIsCurrent`: nobody writes to the file a
script has open. `LockGranted`: a request that waits for a lock gets it or dies, so
requests that change between two sessions never wait in a circle. Two sessions and
two ids make the shortest circle; 0, 1 and 2 bytes are shorter, equal and longer.

*Fairness*: a process inside a call goes on, and the kernel finishes with the dead
(weak); waiting for `SETVAL` and for `flock` is served in turn, since both are
queues of the kernel (strong, on `TakeGuard` and `Lock` only); scripts of session
requests end. The liveness properties are stated of one process, chosen among
processes that are alike in what they do and in their fairness.

### A request

**`request`** (`MCRequest`; 383,411 states) checks three parts. Deadlock is not checked:
a process that has served its last request stops.

*Signals* (2 signals, at most 3 a request, 4 entries allocated 2 at a time, 2 requests).
`QueueIntact`: each entry is in one list or in one hand, signals are played once
and in order, whatever two statements of the dispatcher a handler runs between, and
the end of the request uses no entry that is freed. Its part `NoUseOfFreed` has an
exception, which three signals a request do not reach and four do: while
`RSHUTDOWN` frees the queue, its last entry is gone and `tail` dangles. One handler finds the
queue empty, stores `head` and is interrupted before it stores `tail`; the next one
then finds a queue whose `tail` is freed. Its store is the one that sets `torn`, so
that nothing is claimed from there on; the property exempts the moment before.
`Played`: a queued signal is played as long as there are ticks. *Fairness*: handlers and calls go on, functions
return, and a script that has ticks ticks. Three signals let one be played, one wait and
one arrive; the second request inherits handlers, `processing` and `ticking`.

*Output* (2 buffers, 2 pieces, chunk size 2, so that a chunk fills from two
pieces; every kind of buffer). `NothingLost`: what is
written reaches the client or waits in a buffer, once and in order. It is said of the
levels: pieces increase in each text, those of a level come before all of the levels above,
and all levels together have the pieces that were written and not dropped.
`StateAgrees`: level, stack of buffers, function and lock agree whenever code of the
script runs. `HandlerProtocol`: a handler is told of the start until it has returned
once and is not called again after its end. `FlushEnds`: the flush at the end of the
request ends. *Fairness*: calls go on and handlers return or bail out. Two buffers
suffice for a flush into a buffer that is flushed inside it; the third level would
repeat the second, since a call looks at its own buffer and the one below only.

*A directive* (3 duplicates of values, 4 alterations, 2 calls inside one another).
`DirectivesSafe`: a request leaves nothing to the next one, what the administrator has set
holds, the value is in memory and nothing else is freed, nothing leaks, and the
module uses the value the directive says it has.

**`session_old_end`**, **`directive_dangling`**: see section 5.

### The objects store

**`objects_store`** (3 references, 3 handles, a table of 2 that grows to 4; 517,633
states). `RefcountExact`: each valid object's count is the number of references
to it, at every step, bailouts included. `NoDangling`: until storage is torn down
no reference leads to an object that is freed or being freed, so the code that
freeing runs cannot meet it. `FreeListExact`: the free list holds each free handle
once. `NoOrphan`: while the script runs an object without references is gone.
`DestructedOnce`: one destructor call for an object, whatever happens.
`TypeOK` includes that a handle given out has a bucket (`size >= top`).
Three references suffice for an object that is stored by its own destructor while
its caller drops the last reference, for a chain of objects freed one inside the
other, and for cycles that only shutdown frees; three handles for reuse of a
handle while another del_ref is on the stack, and for the growth of the table.

**`objects_moved`**, **`objects_seen_freed`**: see section 5. The first has an
initial table of 3 so that it moves at the last handle.

### The collector

**`gc_cycles`** (2 variables, 3 zvals, 1 object, 2 elements per array or object,
buffer of 4; 2,023,489 states). Buffer entries never run out here, as at most 4
nodes can be roots. `NothingDangles`: what the script can reach is in memory.
`NoUseAfterFree`: the C code never works on memory given back. `RefcountExact`: between
operations, all counts are what the graph says, so trial deletion gave back what
it took. `BufferExact`: buffered nodes and buffer entries correspond one to one,
entries are not lost, and roots are in use. It includes that no node
outside the buffer has a colour but black. `GarbageHasRoot`: every unreachable node can be reached from a
root in the buffer, so the next collection can find it: this is the completeness
of the collector. The graphs that matter are all there: an array in itself, twice
in itself, two arrays in each other, a cycle through an object, garbage that
points at live data, and roots inside one another's subgraphs.

**`gc_destructors`** (2 objects with or without destructors, 1 element, buffer of 2,
gc_disable allowed; 1,677,761 states). The buffer fills, so that collections start
inside the dropping of a reference, also of one a destructor drops inside another
collection. Destructors drop references, collect and switch the collector, but
store nothing (`DestructorsAdd = FALSE`; with it the code is wrong, see section 5).
`FreesOnlyGarbage`: when the list of garbage is given back, each zval on it is in
memory and unreachable. `NothingDangles` and `RefcountExact` as before.

With a *full* buffer the properties about the buffer do not hold of the code, and
so `gc_cycles` is where they are checked. No text of the repository promises
otherwise, so these are observations and not findings:

* `Zend/zend_gc.c` 179: after the collection in the middle of
  `gc_zval_possible_root` the zval may have been entered already, and is entered
  twice; or its count is 0 and nobody frees it. (Buffer of 1, 2 elements.)
* `Zend/zend_gc.c` 217: full buffer and collector off: the object has been painted
  purple and the *zval* is painted black again. The object stays purple, is
  therefore never buffered later, and its cycles are lost.

**`gc_resurrected`**, **`gc_freed_root`**: see section 5.

## 4. What is proved

A run checks a property of one small instance; a theorem here says the same of every
value of the constants that the named assumptions admit. Of the safety properties
in section 3 these are theorems:

| Theorems in | Properties, for every instance |
|---|---|
| `TsHashLock_proof` | `TypeOK`, `Exclusion`, `CountExact`, `NoLeakedLock`, `CountNotAbove`, `ImplementsLock`; `ResourcesSafe` |
| `SysvSem_proof` | the first half of `FirstUserIsAlone` (`GuardSerializes`); `FileIsLastWrite`, `ReadIsCurrent` |
| `PcntlSignals_proof` | `TypesOK`, `QueueIntact`; `StateAgrees`, `NothingLost`, `HandlerProtocol`; `DirectivesSafe` |
| `ObjectsStore_proof` | `TypeOK`, `DestructedOnce`, `RefcountExact`, `NoDangling`, `FreeListExact`, `NoOrphan` |

The MC modules put components side by side, so a property named after a semicolon is
first proved of its component (`Tsrm_proof`, `SessionFiles_proof`, `OutputBuffers_proof`,
`IniEntries_proof`) and then carried over: the proof module of the component is
instantiated (`Kept`, `Shown`), each initial state and step of the composition is one of the
component or leaves its variables alone, and so the component's theorem applies.

Hardly any of these properties is inductive: each says what is right, and not why. The
invariants below add what every point in the code relies on.

### The lock, for any finite set of threads

Assumptions: `ThreadsFinite`, `NoThreadIsNone`. Nothing is assumed about how many
threads clean, or when.

That `writing` and `reading` exclude each other
depends on why `mx_writer` is locked. The inductive invariant `IInv`
(`LockInvariant == Spec => []IInv`) says

* `ReaderMutexInv`: exactly the holder of `mx_reader` is in a critical label;
* `WriterMutexInv`: a thread that writes holds `mx_writer`;
* `SharedInv`: from passing `mx_writer` until the last `--reader`, a reader implies
  that `mx_writer` is locked and nobody writes;
* `CountInv`: how far the count can be trusted. Until somebody cleans `reader` is
  exact; afterwards it is exact when positive (except while a first reader waits),
  and a negative count implies that `mx_writer` is held for readers. This is what
  makes the reset harmless for exclusion: a count that lost readers goes negative or
  comes down to 0 too late, never too early.

There is one lemma for each statement of the lock, and `IInvIsInductive` combines them.
`TypesHold` and `CountNotAboveHolds` also need `DriftInv`: `reader` lies between the
number of counted readers less all threads, and that number. `CountExactHolds` and
`NoLeakedLockHolds` need `ExactInv`: until somebody cleans the count is exact and a locked
`mx_writer` has somebody it is locked for. `LockImplemented` is the refinement: under `IInv`
each step enters, leaves or stutters in `ReadersWriterLock` (`StepImplementsLock`).

### Resources of threads, for any number of threads and ids

Assumptions: `WorkersFinite`, `MainIsNoWorker`, `NearAreWorkers`, `NoOneIsNone`,
`MaxIdsNat`. `RInv` says

* `Locked`: only the main thread keeps `tsmm_mutex` for more than a step, while it loads
  a module;
* `Order`: there are other threads only while the server serves, modules are loaded
  before and unloaded after;
* `Relies(t)`: a thread that knows of its entry has one, the id it fetches exists,
  and the array it has read is still that of its entry;
* `Entries`: each entry has an array of its own with the resources it counts, those
  that `ts_allocate_id` has not reached yet one less; between `realloc` and the store of
  its result the entry's array is the one Main has in hand. There are no other arrays.

So the reads outside of the mutex are safe for one reason only: `Order`. The
mutant `Load_WhileServing` drops it.

### The guard of `sem_get`, for any finite set of processes

Assumptions: `ProcsFinite`, `MaxesNat`. `GuardSerializesHolds == Spec => []GuardSerializes`:
however many processes and resources there are, whoever dies or removes the set,
one process at a time is between the two `semop` of `sem_get`. It does not follow from
SETVAL alone, which says whether somebody is there and not who. The invariant `GInv` reads
it off the kernel's records: it would decrement SETVAL for one process at most, and for none
when SETVAL is 0 (`OneHolds`), and for a live process it would do so exactly while the process is
between the two operations on the set the key has now (`GuardHolds`); so a dead process that
is not undone yet keeps the others out. `IdsPast` and `NoneKept` say why a new set starts with
nobody inside although processes may still be in a `sem_get` of the removed one.

### Session files, for any requests, ids, sizes and starts

Assumptions: `MaxSizeNat`, `MaxStartsNat`. The invariant `SInv` says

* `LockHeld`: a file is locked exactly by the request that has it open and does not
  wait for it, and by no second one. Everything else rests on this;
* `Knows(r)`: what a request may rely on where it is. While the script runs the file
  holds what was read (`ReadIsCurrent`) and `st_size` is its length; before a write
  `st_size` is the length of the file if `size_of` names it; between `ftruncate`
  and `pwrite` the file is no longer than what will be written;
* `LastWrite`: a file that does not hold the last data has been emptied by a live
  request that is about to write it, unless its writer died or was misled;
* `NamesExist`, `FewFiles`: names are of files that were made, and a session makes two
  files at most, so that a new file has a number.

The proof found the model too kind in one place. With two ids, whoever writes to a
file it has not read has read the other one. With three, a request may read one session,
change to a second, let `session_regenerate_id(TRUE)` close the file, and come back to
the first id: it then writes with the size of a file that others have written since, which is
the finding of `session_old_end` by another way. `size_of` forgets the file when it is
closed, so that `misled` has these files too.

### The queue of signals, for any signals, entries, batches and requests

Assumptions: `SigsFinite`, `MaxEntriesNat`, `BatchPos`, `MaxSignalsNat`, `MaxRequestsPos`.
The code keeps three lists as pointers, and a property about lists that are
followed to their ends cannot be shown step by step from the pointers alone. `QueueInv`
says that there *are* sequences `S` (spares), `P` (to be played) and `W` (waiting), unless `torn`, with

* `Lists`: each is the path of `next` from its pointer;
* `Numbered`: signals in `P` and then `W` have the numbers after the last one played;
* `Apart`: no entry is in two of them or twice in one, or in a list and in a hand,
  and together they are the memory but for what was left behind by `exit()`;
* `Between`: what the dispatcher has in hand between two stores;
* `Nested`, `Hands`: of handlers inside one another, which may have what in hand, and
  that what each has read is still so;
* `Ends`: `tail` is the last entry of the list, but for the handler that has linked and
  not yet stored it.

Every action has a lemma that names the three lists after it. `WalkIsPath` says that the
model's walk along `next` finds the sequence `Path` describes; it uses well-founded induction
over a set, as induction over an operator is not available. `NoUseOfFreed` had to be restated
(section 3), and `EntriesApart` became stronger: two handlers never have the same entry.

### Output buffers, for any number of buffers and pieces

No assumptions. Unless `reentered`, `IInv` says

* `CallsOK`, `Levels`: only the call on top does anything but wait; the level is the
  number of buffers, and counts none for which a call waits (it was taken off first);
* `Ids`: buffers lie above those started before them, and those of waiting calls above
  all that are left, so that a call that goes on cannot meet a buffer it knows;
* `Statuses`: `status` says whether the handler has returned, and a handler that was
  told of its end belongs to no buffer any more;
* `Order`, `Complete`, `Handled`, `Over`: `NothingLost` at every step, also inside the C
  code, with what the handler was given and has returned.

`TypeOKHolds` (with `Known`: all pieces anywhere, also in buffers that have been left, have been written) and the three properties follow.
`NothingLost` speaks of levels one by one: as a statement about their concatenation it was
a recursion over a sequence, of which nothing can be proved.

### A directive, for any duplicates, alterations and depth of calls

Assumptions: `DuplicatesAreNew`, `MaxCallsPos`. `IInv` has `WhoCalls` (calls of
`on_modify` in each stage, and in whose name), `AdminLocks` (what `php_admin_value` has set is
the value, and only it could alter it: this holds of nested alterations too), and, while
alterations are not nested, `Reserve` (a modified directive keeps value and rights of startup),
`Memory` (the allocated duplicates are the value and what calls try), `OneCall` and `Follows`
(the module's pointer is the value, or ahead of it when `on_modify` stores early).

### The objects store, for any references, handles and table size

Assumptions: `MaxHandleNat`, `InitSizePos`, `RefsFinite`, `RefsNotInts`.
`DestructedOnceHolds` has an invariant of its own, `DInv`: a valid bucket that is
not marked holds an object never destructed. The rest is `IInv`:

* `CallStack`: which calls may lie below others, and that no two drop the same
  reference or run the same destructor;
* `DelRefCalls`, `LoopCalls`, `RunningDestructors`: what a call relies on at each
  point. The reference it drops is dying and names its object; the object is valid until
  storage is freed; from then on the dying reference is the only one; after it, either
  the table has not moved or the handle is free;
* `OwnReferences`: the zval of `$this` and the count of the loop;
* `FreeListExact`, `FreeUnreferenced`: nothing refers to a handle on the free list but the
  reference whose drop put it there;
* `RefsCounted`, `CountBounds`, `ScriptHolds`: the count is the number of references, and
  as long as the script runs a valid object has one.

The table may move under `free_storage`, as it does in the run `objects_moved`: the lost
store to the old table hits a bucket that is free by then, which is why the counts
stay exact although `NoStalePointer` fails.

### Only model-checked

* Liveness (`SomebodyGetsIn`, `GetReturns`, `LockGranted`, `Played`, `FlushEnds`): fairness
  and `ENABLED` are beyond the prover.
* `BooksBalance` and the second half of `FirstUserIsAlone`: sums over resources and processes.
  Sums are folds, and what a fold computes needs induction over data. `TypesOK` of `MCProcesses`
  bounds semaphores by these sums and stays with them.
* `ImplementsLocks` and `DeadlockNeedsCopyCycle`, about several tables, and with them `TypesOK` of
  `MCThreads`: not attempted yet.
* `ZendGC`: its counts are sums over a graph and its garbage is what cannot be
  reached, both recursive; what can be said without them is in section 7.

## 5. What the code does that its texts deny

Six runs are expected to end in a violation. `PROJECT.json` ("findings") has the quotations.

| Run, property | What happens |
|---|---|
| `objects_moved`, `NoStalePointer` | `zend_objects_store_del_ref_by_handle_ex` re-reads `obj` after the destructor ("the store might have been reallocated") but not after `free_storage`, which runs destructors of the properties' objects. If one of them creates an object in a full table, `obj->refcount--` (`Zend/zend_objects_API.c` 230) goes to the old table. |
| `objects_seen_freed`, `DestructorsSeeLiveObjects` | A destructor called by the loop creates an object on a handle the loop has passed; it is destructed while storage is freed, and can name objects that have gone, the situation `Zend/zend_execute_API.c` 236 wants to exclude. |
| `gc_resurrected`, `FreesOnlyGarbage` | A destructor run by the collector stores `$this`. The object is kept, but the zvals of its properties are on the list and are freed (`Zend/zend_gc.c` 684). |
| `gc_freed_root`, `RootsInUse` | The collection a full buffer starts frees the object for which an entry was wanted; its free bucket is then entered as a root (`Zend/zend_gc.c` 228). |
| `session_old_end`, `NoOldEnd` | A request changes its id with `session_id('other')` and writes to the other session's file, whose size it has never asked for: it compares its data with the size of the file it has read, does not truncate, and the end of the older data stays (`ext/session/mod_files.c` 409). |
| `directive_dangling`, `GlobalAlive` | `ini_restore()` frees the value in use whatever `on_modify` says (`Zend/zend_ini.c` 55-59). A handler that refuses the value of startup at run time, as that of `session.save_path` may, leaves its module with a pointer to freed memory. |

## 6. What is not modelled

In the modelled components:

* `TsHashLock`: destruction of a table (it frees the mutexes, and nobody may use
  the table then); the contents of the table.
* `ObjectsStore`: proxy objects, clone handlers beyond the put they end in,
  exceptions saved around destructors, and the size of the table as memory.
  Handles that user code may come to use are bounded by `MaxHandle`.
* `ZendGC`: bailouts inside a collection; copy-on-write (all variables are
  references); `$GLOBALS` as an array; objects without `get_properties`; statistics.
  Elements are bounded by `MaxElems`, the buffer by `BufferSize` (10,000 in the code).
  Memory is a set of cells; a freed cell can be given out again at once. An object
  whose class has no destructor is one whose destructor has been called.
* `Tsrm`: contexts of an interpreter (`tsrm_new_interpreter_context`), handlers for
  new threads, failing allocations. `ts_free_worker_threads` looks at one bucket only,
  as in the code: the entries of the others stay until `tsrm_shutdown`.
* `SysvSem`: `semget` and `semop` failing for other reasons than removal, the largest
  value of a semaphore, `pcntl_fork`.
* `SessionFiles`: system calls that fail, sub-directories, other save handlers,
  cookies, the encoding of variables.
* `PcntlSignals`: what happens after a handler has run in an unprotected window
  (`torn`): an entry is then in two lists, and nothing good can be said. A signal
  for which there is no spare entry is forgotten, as the code does. Forks, waiting
  and masks are calls of the kernel.
* `OutputBuffers`: handlers written in C, headers and implicit flushes, the branch
  that sends nothing when memory is exhausted, and what happens after a handler has
  entered the buffer it handles once more (`reentered`): the code goes on with freed memory.
* `IniEntries`: registration and its removal, the copies of the table that threads
  have, `force_change`. When directives are altered inside one another (`nested`) only
  `AdminHolds` is claimed.

Why these are left out: what follows `torn`, `reentered` and `nested` is undefined
behaviour of C (a freed or doubly linked block is used), of which a model can only
say that anything may happen. The hazards in `PROJECT.json` name the lines.

Other components, each with its reason, are in `PROJECT.json`: the compiler and
the virtual machine (sequential; the user steps of the modules above stand for
what a script makes them do), the memory manager and `zend_hash` (data structures
without a small faithful instance, or well tested), server interfaces and streams
(input and output), standard extensions (pure functions), clients and bundled
libraries (others' code).

`zend_list` (resources) is not modelled: it is sequential, and its destructors are C
functions that run no code of the script, so that nothing comes between two steps.
`zend_ts_hash_graceful_destroy` frees `mx_reader` twice and `mx_writer` never (`Zend/zend_ts_hash.c` 154), which needs no model.

## 7. Plan

Done: the models and runs of section 3; the lock and its refinement; the invariants
of resources of threads, session files, the queue of signals, output buffers, directives
and the objects store, with all the safety properties their runs check; the guard of `sem_get`.

What is left, the most valuable first:

1. `ZendGC`: prove that entries of the buffer are conserved
   (`Len(roots) + unused + fresh = BufferSize`) and that buffered nodes and entries correspond,
   which need no sum over the graph.
2. `TsHashTables`: prove `ImplementsLocks`, by the invariant of `TsHashLock` for each table with
   the steps left in each agenda in place of labels, and from it `DeadlockNeedsCopyCycle`
   (a stuck group has a member that waits for a writer's mutex readers hold).
3. `SysvSem`: `BooksBalance` from how one resource changes the two sides of each sum.
4. An abstract queue for `PcntlSignals` and an abstract collector for `ZendGC` that frees only what is
   unreachable, for the detailed ones to implement.
