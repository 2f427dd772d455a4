------------------------------ MODULE SysvSem ------------------------------
(***************************************************************************)
(* The semaphores of one key (ext/sysvsem/sysvsem.c).  sem_get() takes a   *)
(* set of three kernel semaphores: SEM is the semaphore scripts acquire,   *)
(* USAGE counts its users, and SETVAL lets one process at a time find out  *)
(* whether it is the first user, which sets SEM to max_acquire.            *)
(*                                                                         *)
(* The kernel (external) performs a semop() as a whole or not at all, and  *)
(* undoes what a dead process did one semaphore after the other, in any    *)
(* order, as the comment in sem_get() says it does.                        *)
(***************************************************************************)
EXTENDS Integers, FiniteSets, FiniteSetsExt

CONSTANTS
    Procs,      \* processes; one that has died starts again as a new one
    Slots,      \* the resources each process may have
    Maxes,      \* the values scripts pass as max_acquire
    MaxSets,    \* bound: sets created for the key, each after the last is removed
    MaxUses     \* bound: calls of sem_get() and uses of the set at a time

ASSUME ProcsFinite == IsFiniteSet(Procs)
ASSUME MaxesNat == Maxes \subseteq Nat

Sems == {"SEM", "USAGE", "SETVAL"}
Zero == [SEM |-> 0, USAGE |-> 0, SETVAL |-> 0]

VARIABLES
    set,        \* the sets created so far; the last one is the key's
    exists,     \* it has not been removed
    val,        \* the values of its semaphores
    adj,        \* what the kernel will add for each process when it dies
    res,        \* the resources of each process
    call,       \* the sem_get() each process is in, if any
    limit,      \* history: the value SEM was last set to, 0 for never
    kept        \* history: what each process keeps of resources it has freed

vars == <<set, exists, val, adj, res, call, limit, kept>>

NoResource == [id |-> 0, count |-> 0, auto |-> FALSE]
NoCall     == [at |-> "out", id |-> 0, max |-> 0, auto |-> FALSE, slot |-> 0, count |-> 0]
Nothing    == [uses |-> 0, units |-> 0]

\* An id whose operations do not fail.
Live(id) == exists /\ id = set

Idle(p)  == call[p].at = "out"
Dying(p) == call[p].at = "dying"
Alive    == {p \in Procs : ~Dying(p)}

\* The resources of a process that lead to the key's set.
Here(p) == {s \in Slots : Live(res[p][s].id)}

\* The processes between the two semop() of sem_get().
Guarding == {p \in Procs : call[p].at \in {"getval", "setval", "unlock"} /\ Live(call[p].id)}

\* What a live process has of the set, as the code sees it.
Units(p) == MapThenSumSet(LAMBDA s : res[p][s].count, Here(p)) + kept[p].units
Uses(p)  == Cardinality(Here(p)) + kept[p].uses + (IF p \in Guarding THEN 1 ELSE 0)

Init ==
    /\ set = 0
    /\ exists = FALSE
    /\ val = Zero
    /\ adj = [p \in Procs |-> Zero]
    /\ res = [p \in Procs |-> [s \in Slots |-> NoResource]]
    /\ call = [p \in Procs |-> NoCall]
    /\ limit = 0
    /\ kept = [p \in Procs |-> Nothing]

-----------------------------------------------------------------------------
(* The kernel *)

\* semop() with SEM_UNDO: waits while a value is too small, then adds ops.
SemOp(p, ops) ==
    /\ \A s \in Sems : ops[s] < 0 => val[s] + ops[s] >= 0
    /\ val' = [s \in Sems |-> val[s] + ops[s]]
    /\ adj' = [adj EXCEPT ![p] = [s \in Sems |-> @[s] - ops[s]]]

\* A process dies, at the end of its last request or anywhere before.
Die(p) ==
    /\ ~Dying(p)
    /\ call' = [call EXCEPT ![p] = [NoCall EXCEPT !.at = "dying"]]
    /\ res' = [res EXCEPT ![p] = [s \in Slots |-> NoResource]]
    /\ kept' = [kept EXCEPT ![p] = Nothing]
    /\ UNCHANGED <<set, exists, val, adj, limit>>

Undo(p, s) ==
    /\ Dying(p)
    /\ adj[p][s] # 0
    /\ val' = [val EXCEPT ![s] = Max({0, @ + adj[p][s]})]
    /\ adj' = [adj EXCEPT ![p][s] = 0]
    /\ UNCHANGED <<set, exists, res, call, limit, kept>>

\* The process is gone and another one takes its name.
Restart(p) ==
    /\ Dying(p)
    /\ adj[p] = Zero
    /\ call' = [call EXCEPT ![p] = NoCall]
    /\ UNCHANGED <<set, exists, val, adj, res, limit, kept>>

-----------------------------------------------------------------------------
(* sem_get *)

UsesOfSet ==
    Cardinality({p \in Procs : call[p].at \notin {"out", "dying"}})
    + Cardinality({ps \in Procs \X Slots : res[ps[1]][ps[2]] # NoResource})
    + MapThenSumSet(LAMBDA p : kept[p].uses, Procs)

\* semget(): the key's set, created with zeros if there is none.
SemGet(p, slot, max, auto) ==
    /\ Idle(p)
    /\ res[p][slot] = NoResource
    /\ UsesOfSet < MaxUses
    /\ exists \/ set < MaxSets
    /\ set' = IF exists THEN set ELSE set + 1
    /\ exists' = TRUE
    /\ call' = [call EXCEPT ![p] = [at |-> "guard", id |-> set', max |-> max,
                                   auto |-> auto, slot |-> slot, count |-> 0]]
    /\ UNCHANGED <<val, adj, res, limit, kept>>

\* Mutant: SETVAL is incremented without SEM_UNDO.
TakeGuard_NoUndo(p) ==
    /\ call[p].at = "guard"
    /\ call' = [call EXCEPT ![p].at = "getval"]
    /\ IF Live(call[p].id)
       THEN /\ val.SETVAL = 0
            /\ val' = [val EXCEPT !.SETVAL = 1, !.USAGE = @ + 1]
            /\ adj' = [adj EXCEPT ![p].USAGE = @ - 1]
       ELSE UNCHANGED <<val, adj>>
    /\ UNCHANGED <<set, exists, res, limit, kept>>

\* One semop() waits for SETVAL to be zero, increments it, and counts a user.
\* If the set has been removed it fails; the code warns and goes on.
TakeGuard(p) ==
    /\ call[p].at = "guard"
    /\ call' = [call EXCEPT ![p].at = "getval"]
    /\ IF Live(call[p].id)
       THEN /\ val.SETVAL = 0
            /\ SemOp(p, [SEM |-> 0, USAGE |-> 1, SETVAL |-> 1])
       ELSE UNCHANGED <<val, adj>>
    /\ UNCHANGED <<set, exists, res, limit, kept>>

GetVal(p) ==
    /\ call[p].at = "getval"
    /\ LET count == IF Live(call[p].id) THEN val.USAGE ELSE -1
       IN  call' = [call EXCEPT ![p].at = "setval", ![p].count = count]
    /\ UNCHANGED <<set, exists, val, adj, res, limit, kept>>

\* The first user sets SEM; the kernel then forgets what it would undo on it.
SetVal(p) ==
    /\ call[p].at = "setval"
    /\ call' = [call EXCEPT ![p].at = "unlock", ![p].count = 0]
    /\ IF call[p].count = 1 /\ Live(call[p].id)
       THEN /\ val' = [val EXCEPT !.SEM = call[p].max]
            /\ adj' = [q \in Procs |-> [adj[q] EXCEPT !.SEM = 0]]
            /\ limit' = call[p].max
       ELSE UNCHANGED <<val, adj, limit>>
    /\ UNCHANGED <<set, exists, res, kept>>

\* Give the guard back and register the resource, even if everything has failed.
DropGuard(p) ==
    /\ call[p].at = "unlock"
    /\ IF Live(call[p].id)
       THEN SemOp(p, [SEM |-> 0, USAGE |-> 0, SETVAL |-> -1])
       ELSE UNCHANGED <<val, adj>>
    /\ res' = [res EXCEPT ![p][call[p].slot] =
                  [id |-> call[p].id, count |-> 0, auto |-> call[p].auto]]
    /\ call' = [call EXCEPT ![p] = NoCall]
    /\ UNCHANGED <<set, exists, limit, kept>>

-----------------------------------------------------------------------------
(* sem_acquire, sem_release, sem_remove, and the end of a resource *)

SemAcquire(p, slot) ==
    /\ Idle(p)
    /\ slot \in Here(p)
    /\ SemOp(p, [SEM |-> -1, USAGE |-> 0, SETVAL |-> 0])
    /\ res' = [res EXCEPT ![p][slot].count = @ + 1]
    /\ UNCHANGED <<set, exists, call, limit, kept>>

\* Mutant: a semaphore that is not acquired may be released.
SemRelease_Unacquired(p, slot) ==
    /\ Idle(p)
    /\ slot \in Here(p)
    /\ SemOp(p, [SEM |-> 1, USAGE |-> 0, SETVAL |-> 0])
    /\ res' = [res EXCEPT ![p][slot].count = @ - 1]
    /\ UNCHANGED <<set, exists, call, limit, kept>>

\* Mutant: sem_op = 1 without SEM_UNDO.
SemRelease_NoUndo(p, slot) ==
    /\ Idle(p)
    /\ slot \in Here(p)
    /\ res[p][slot].count # 0
    /\ val' = [val EXCEPT !.SEM = @ + 1]
    /\ res' = [res EXCEPT ![p][slot].count = @ - 1]
    /\ UNCHANGED <<set, exists, adj, call, limit, kept>>

SemRelease(p, slot) ==
    /\ Idle(p)
    /\ slot \in Here(p)
    /\ res[p][slot].count # 0
    /\ SemOp(p, [SEM |-> 1, USAGE |-> 0, SETVAL |-> 0])
    /\ res' = [res EXCEPT ![p][slot].count = @ - 1]
    /\ UNCHANGED <<set, exists, call, limit, kept>>

\* The kernel forgets the set and all undoing; other resources keep its id.
SemRemove(p, slot) ==
    /\ Idle(p)
    /\ slot \in Here(p)
    /\ res' = [res EXCEPT ![p][slot].count = -1]
    /\ exists' = FALSE
    /\ val' = Zero
    /\ adj' = [q \in Procs |-> Zero]
    /\ limit' = 0
    /\ kept' = [q \in Procs |-> Nothing]
    /\ UNCHANGED <<set, call>>

\* Mutant: the usage count is given back whatever auto_release says.
Free_AlwaysUncounts(p, slot) ==
    LET r == res[p][slot] IN
    /\ Idle(p)
    /\ r # NoResource
    /\ IF r.count # -1 /\ Live(r.id)
       THEN SemOp(p, [SEM |-> IF r.auto THEN r.count ELSE 0, USAGE |-> -1, SETVAL |-> 0])
       ELSE UNCHANGED <<val, adj>>
    /\ kept' = IF ~r.auto /\ Live(r.id)
               THEN [kept EXCEPT ![p].units = @ + r.count] ELSE kept
    /\ res' = [res EXCEPT ![p][slot] = NoResource]
    /\ UNCHANGED <<set, exists, call, limit>>

\* Mutant: units that are still acquired are not given back.
Free_ForgetsUnits(p, slot) ==
    LET r == res[p][slot] IN
    /\ Idle(p)
    /\ r # NoResource
    /\ IF r.count # -1 /\ r.auto /\ Live(r.id)
       THEN SemOp(p, [SEM |-> 0, USAGE |-> -1, SETVAL |-> 0])
       ELSE UNCHANGED <<val, adj>>
    /\ kept' = IF ~r.auto /\ Live(r.id)
               THEN [kept EXCEPT ![p] = [uses |-> @.uses + 1, units |-> @.units + r.count]]
               ELSE kept
    /\ res' = [res EXCEPT ![p][slot] = NoResource]
    /\ UNCHANGED <<set, exists, call, limit>>

\* release_sysvsem_sem(): the last reference to the resource goes.  Without
\* auto_release the process keeps the use and the units until it dies.
Free(p, slot) ==
    LET r == res[p][slot] IN
    /\ Idle(p)
    /\ r # NoResource
    /\ IF r.count # -1 /\ r.auto /\ Live(r.id)
       THEN SemOp(p, [SEM |-> r.count, USAGE |-> -1, SETVAL |-> 0])
       ELSE UNCHANGED <<val, adj>>
    /\ kept' = IF ~r.auto /\ Live(r.id)
               THEN [kept EXCEPT ![p] = [uses |-> @.uses + 1, units |-> @.units + r.count]]
               ELSE kept
    /\ res' = [res EXCEPT ![p][slot] = NoResource]
    /\ UNCHANGED <<set, exists, call, limit>>

-----------------------------------------------------------------------------

InSemGet(p) == TakeGuard(p) \/ GetVal(p) \/ SetVal(p) \/ DropGuard(p)

Script(p, slot) ==
    \/ \E max \in Maxes, auto \in BOOLEAN : SemGet(p, slot, max, auto)
    \/ SemAcquire(p, slot)
    \/ SemRelease(p, slot)
    \/ SemRemove(p, slot)
    \/ Free(p, slot)

Kernel(p) == Restart(p) \/ \E s \in Sems : Undo(p, s)

Next == \E p \in Procs :
    \/ InSemGet(p)
    \/ \E slot \in Slots : Script(p, slot)
    \/ Die(p)
    \/ Kernel(p)

Spec == Init /\ [][Next]_vars

(***************************************************************************)
(* A process inside sem_get() goes on, the kernel finishes with the dead,  *)
(* and serves those that wait for SETVAL in turn: it keeps them in a queue *)
(* (hence strong fairness).  Scripts need not do anything.                 *)
(***************************************************************************)
Fairness == \A p \in Procs :
    WF_vars(InSemGet(p)) /\ SF_vars(TakeGuard(p)) /\ WF_vars(Kernel(p))

FairSpec == Spec /\ Fairness

-----------------------------------------------------------------------------
(* Properties *)

TypeOK ==
    /\ set \in 0 .. MaxSets
    /\ exists \in BOOLEAN
    /\ val \in [SEM : 0 .. Max(Maxes), USAGE : Nat, SETVAL : {0, 1}]
    /\ \A p \in Procs :
        /\ adj[p] \in [Sems -> Int]
        /\ call[p].at \in {"out", "guard", "getval", "setval", "unlock", "dying"}
        /\ \A s \in Slots : res[p][s].id \in 0 .. set /\ res[p][s].count >= -1
        /\ kept[p] \in [uses : 0 .. MaxUses, units : 0 .. Max(Maxes)]

\* Whenever a process dies, in sem_get() or with the semaphore acquired, the
\* kernel gives back exactly what the process has: every operation is undone,
\* and SETVAL on SEM makes it forget nothing a process still holds.
UndoExact == \A p \in Alive :
    /\ adj[p].SEM = Units(p)
    /\ adj[p].USAGE = -Uses(p)
    /\ adj[p].SETVAL = -(IF p \in Guarding THEN 1 ELSE 0)

Sum(f(_), S) == MapThenSumSet(f, S)

\* No unit and no use is lost or made, whoever dies and however the kernel's
\* undoing interleaves with the sem_get() of others.
CountsExact ==
    /\ val.SEM + Sum(Units, Alive) + Sum(LAMBDA p : adj[p].SEM, Procs \ Alive) = limit
    /\ val.USAGE = Sum(Uses, Alive) - Sum(LAMBDA p : adj[p].USAGE, Procs \ Alive)

\* The books of the kernel and of the processes balance, at every moment.
BooksBalance == UndoExact /\ CountsExact

\* SETVAL serializes GETVAL of USAGE and SETVAL of SEM.
GuardSerializes == Cardinality(Guarding) <= 1

\* One process at a time finds out whether it is the first user, and the one that
\* is about to set the maximum is the only one that uses the set and has acquired
\* nothing, although it has counted the users before.
FirstUserIsAlone ==
    /\ GuardSerializes
    /\ \A p \in Guarding :
        call[p].at = "setval" /\ call[p].count = 1 =>
            Units(p) = 0 /\ \A q \in Alive \ {p} : Units(q) = 0 /\ Uses(q) = 0

\* Every sem_get() returns, even if a process dies between its two semop() or
\* removes the set (or else the caller dies).  The processes are alike, in what
\* they do and in what is fair to them: what one is promised, each is.
GetReturns == LET p == CHOOSE q \in Procs : TRUE IN
    call[p].at = "guard" ~> call[p].at \in {"out", "dying"}
=============================================================================
