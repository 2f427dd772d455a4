---------------------------- MODULE SysvSem_proof ----------------------------
(***************************************************************************)
(* Proof that one process at a time is between the two semop() of sem_get, *)
(* for any finite set of processes, any number of resources, and crashes   *)
(* and removals of the set at any moment.                                  *)
(*                                                                         *)
(* That SETVAL is 0 must mean that nobody is there.  The kernel's records  *)
(* say why: SETVAL has been incremented by the one process the kernel      *)
(* would decrement it for, alive or dead.                                  *)
(*                                                                         *)
(* The last section carries what is proved of sessions over to the         *)
(* behaviours of MCProcesses, which has both.                              *)
(***************************************************************************)
EXTENDS MCProcesses, FiniteSetTheorems, TLAPS

Labels   == {"out", "guard", "getval", "setval", "unlock", "dying"}
Calls    == [at : Labels, id : Nat, max : Nat, auto : BOOLEAN, slot : Slots \cup {0}, count : Int]
Resource == [id : Nat, count : Int, auto : BOOLEAN]

\* The types of the state, which the argument below needs.
SemTypes ==
    /\ set \in Nat /\ exists \in BOOLEAN
    /\ val \in [Sems -> Int]
    /\ adj \in [Procs -> [Sems -> Int]]
    /\ call \in [Procs -> Calls]
    /\ res \in [Procs -> [Slots -> Resource]]

\* What the kernel would undo on SETVAL for a process.
Holds(p) == adj[p].SETVAL = -1

\* A call is of the key's set or of one that has been removed, and the kernel
\* keeps nothing of a removed set.
IdsPast   == \A p \in Procs : call[p].id <= set
NoneKept  == ~exists => val.SETVAL = 0 /\ \A p \in Procs : adj[p].SETVAL = 0

\* At most one process has incremented SETVAL.
OneHolds ==
    /\ \A p \in Procs : adj[p].SETVAL \in {0, -1}
    /\ val.SETVAL \in {0, 1}
    /\ val.SETVAL = 0 => \A p \in Procs : ~Holds(p)
    /\ \A p, q \in Procs : Holds(p) /\ Holds(q) => p = q

\* A live process has done so exactly while it is between the two semop().
GuardHolds == \A p \in Procs : ~Dying(p) => (Holds(p) <=> p \in Guarding)

GInv == SemTypes /\ IdsPast /\ NoneKept /\ OneHolds /\ GuardHolds

-----------------------------------------------------------------------------

\* The value an undone semaphore gets.
LEMMA MaxOfTwo ==
    ASSUME NEW z \in Int
    PROVE  Max({0, z}) = IF z > 0 THEN z ELSE 0
<1>1. CASE z > 0
  <2>1. \E x \in {0, z} : \A y \in {0, z} : x >= y
    BY <1>1
  <2> QED
    BY <1>1, <2>1 DEF Max
<1>2. CASE ~(z > 0)
  <2>1. \E x \in {0, z} : \A y \in {0, z} : x >= y
    BY <1>2
  <2> QED
    BY <1>2, <2>1 DEF Max
<1> QED
  BY <1>1, <1>2

\* The names of the semaphores, and the changes of one of them.
LEMMA SemOpTypes ==
    ASSUME SemTypes, NEW p \in Procs,
           NEW a \in Int, NEW b \in Int, NEW c \in Int,
           SemOp(p, [SEM |-> a, USAGE |-> b, SETVAL |-> c])
    PROVE  /\ val' \in [Sems -> Int]
           /\ adj' \in [Procs -> [Sems -> Int]]
           /\ val'.SETVAL = val.SETVAL + c
           /\ c < 0 => val.SETVAL + c >= 0
           /\ adj'[p].SETVAL = adj[p].SETVAL - c
           /\ \A q \in Procs \ {p} : adj'[q] = adj[q]
<1> DEFINE ops == [SEM |-> a, USAGE |-> b, SETVAL |-> c]
<1>1. \A s \in Sems : ops[s] \in Int
  BY DEF Sems
<1>2. ops["SETVAL"] = c /\ "SETVAL" \in Sems
  BY DEF Sems
<1> HIDE DEF ops
<1>3. /\ \A s \in Sems : ops[s] < 0 => val[s] + ops[s] >= 0
      /\ val' = [s \in Sems |-> val[s] + ops[s]]
      /\ adj' = [adj EXCEPT ![p] = [s \in Sems |-> @[s] - ops[s]]]
  BY DEF SemOp, ops
<1>4. /\ val["SETVAL"] \in Int
      /\ adj[p] \in [Sems -> Int]
  BY <1>2 DEF SemTypes
<1>5. val' \in [Sems -> Int] /\ val'["SETVAL"] = val["SETVAL"] + c
  BY <1>1, <1>2, <1>3, <1>4 DEF SemTypes
<1>6. [s \in Sems |-> adj[p][s] - ops[s]] \in [Sems -> Int]
  BY <1>1, <1>4
<1>7. adj' \in [Procs -> [Sems -> Int]] /\ adj'[p]["SETVAL"] = adj[p]["SETVAL"] - c
  BY <1>1, <1>2, <1>3, <1>6 DEF SemTypes
<1> QED
  BY <1>2, <1>3, <1>5, <1>7 DEF SemTypes

\* Where SETVAL and what the kernel would undo on it stay, so does the argument.
LEMMA SetvalKept ==
    ASSUME GInv, SemTypes', IdsPast', GuardHolds', set' = set, exists' = exists,
           val'.SETVAL = val.SETVAL, \A q \in Procs : adj'[q].SETVAL = adj[q].SETVAL
    PROVE  GInv'
BY DEF GInv, NoneKept, OneHolds, Holds

\* A call that is moved on, with all else unchanged.
LEMMA CallTypes ==
    ASSUME NEW c \in Calls, NEW at \in Labels
    PROVE  /\ [c EXCEPT !.at = at] \in Calls
           /\ [c EXCEPT !.at = at].id = c.id /\ [c EXCEPT !.at = at].at = at
BY DEF Calls

\* A call that is moved on with a new count of users.
LEMMA CountTypes ==
    ASSUME NEW c \in Calls, NEW at \in Labels, NEW n \in Int
    PROVE  /\ [c EXCEPT !.at = at, !.count = n] \in Calls
           /\ [c EXCEPT !.at = at, !.count = n].id = c.id
           /\ [c EXCEPT !.at = at, !.count = n].at = at
BY DEF Calls

\* A call that has not begun, and what a dead process leaves of its call.
LEMMA NoCallTypes ==
    /\ NoCall \in Calls /\ NoCall.at = "out" /\ NoCall.id = 0
    /\ [NoCall EXCEPT !.at = "dying"] \in Calls
    /\ [NoCall EXCEPT !.at = "dying"].at = "dying" /\ [NoCall EXCEPT !.at = "dying"].id = 0
<1>1. "out" \in Labels /\ "dying" \in Labels /\ 0 \in Slots \cup {0}
  BY DEF Labels
<1>2. NoCall \in Calls /\ NoCall.at = "out" /\ NoCall.id = 0
  BY <1>1 DEF NoCall, Calls
<1> QED
  BY <1>1, <1>2, CallTypes

\* A set of semaphores that has just been created.
LEMMA ZeroTypes == Zero \in [Sems -> Int] /\ Zero.SETVAL = 0
BY DEF Zero, Sems

\* A slot without a resource.
LEMMA NoResourceTypes == NoResource \in Resource
BY DEF NoResource, Resource

\* At the start there is no set and nobody is in sem_get().
LEMMA InitGInv ==
    ASSUME Init
    PROVE  GInv
<1>1. SemTypes
  BY NoCallTypes, ZeroTypes, NoResourceTypes DEF Init, SemTypes
<1>2. IdsPast /\ NoneKept /\ OneHolds /\ GuardHolds
  BY NoCallTypes, ZeroTypes DEF Init, IdsPast, NoneKept, OneHolds, Holds, GuardHolds, Guarding, Dying
<1> QED
  BY <1>1, <1>2 DEF GInv

-----------------------------------------------------------------------------
(* The kernel *)

\* The dead process guards nothing, but SETVAL stays incremented for it.
LEMMA DieKeeps ==
    ASSUME GInv, NEW p \in Procs, Die(p)
    PROVE  GInv'
<1> DEFINE c == [NoCall EXCEPT !.at = "dying"]
<1>0. c \in Calls /\ c.at = "dying" /\ c.id = 0
  BY NoCallTypes
<1> HIDE DEF c
<1>1. /\ call' = [call EXCEPT ![p] = c]
      /\ res' = [res EXCEPT ![p] = [s \in Slots |-> NoResource]]
      /\ UNCHANGED <<set, exists, val, adj>>
  BY DEF Die, c
<1>2. SemTypes'
  BY <1>0, <1>1, NoResourceTypes DEF GInv, SemTypes
<1>3. \A q \in Procs : call'[q] = IF q = p THEN c ELSE call[q]
  BY <1>1 DEF GInv, SemTypes
<1>4. IdsPast'
  BY <1>0, <1>1, <1>3 DEF GInv, IdsPast, SemTypes
<1>5. GuardHolds'
  BY <1>0, <1>1, <1>3 DEF GInv, GuardHolds, Guarding, Dying, Holds, Live
<1> QED
  BY <1>1, <1>2, <1>4, <1>5, SetvalKept DEF GInv

\* Restart waits for the kernel, so the new process holds nothing.
LEMMA RestartKeeps ==
    ASSUME GInv, NEW p \in Procs, Restart(p)
    PROVE  GInv'
<1>1. /\ call' = [call EXCEPT ![p] = NoCall]
      /\ adj[p] = Zero
      /\ UNCHANGED <<set, exists, val, adj, res>>
  BY DEF Restart
<1>2. SemTypes'
  BY <1>1, NoCallTypes DEF GInv, SemTypes
<1>3. \A q \in Procs : call'[q] = IF q = p THEN NoCall ELSE call[q]
  BY <1>1 DEF GInv, SemTypes
<1>4. IdsPast'
  BY <1>1, <1>3, NoCallTypes DEF GInv, IdsPast, SemTypes
<1>5. GuardHolds'
  BY <1>1, <1>3, NoCallTypes, ZeroTypes DEF GInv, GuardHolds, Guarding, Dying, Holds, Live
<1> QED
  BY <1>1, <1>2, <1>4, <1>5, SetvalKept DEF GInv

\* Undoing SETVAL of the dead holder brings it back to 0.
LEMMA UndoKeeps ==
    ASSUME GInv, NEW p \in Procs, NEW s \in Sems, Undo(p, s)
    PROVE  GInv'
<1> DEFINE v == Max({0, val[s] + adj[p][s]})
<1>0. val[s] + adj[p][s] \in Int
  BY DEF GInv, SemTypes
<1>1. v \in Int /\ v = IF val[s] + adj[p][s] > 0 THEN val[s] + adj[p][s] ELSE 0
  BY <1>0, MaxOfTwo
<1>2. val' = [val EXCEPT ![s] = v]
  BY DEF Undo
<1> HIDE DEF v
<1>3. /\ adj' = [adj EXCEPT ![p][s] = 0]
      /\ Dying(p) /\ adj[p][s] # 0
      /\ UNCHANGED <<set, exists, res, call>>
  BY DEF Undo
<1>4. SemTypes'
  BY <1>1, <1>2, <1>3 DEF GInv, SemTypes
<1>5. /\ \A q \in Procs \ {p} : adj'[q] = adj[q]
      /\ \A t \in Sems : adj'[p][t] = IF t = s THEN 0 ELSE adj[p][t]
      /\ \A t \in Sems : val'[t] = IF t = s THEN v ELSE val[t]
  BY <1>2, <1>3 DEF GInv, SemTypes
<1>6. IdsPast'
  BY <1>3 DEF GInv, IdsPast
<1>7. GuardHolds'
  BY <1>3, <1>5 DEF GInv, GuardHolds, Guarding, Dying, Holds, Live
<1>8. CASE s # "SETVAL"
  <2>1. "SETVAL" \in Sems
    BY DEF Sems
  <2>2. val'.SETVAL = val.SETVAL /\ \A q \in Procs : adj'[q].SETVAL = adj[q].SETVAL
    BY <1>5, <1>8, <2>1
  <2> QED
    BY <1>3, <1>4, <1>6, <1>7, <2>2, SetvalKept
<1>9. CASE s = "SETVAL"
  <2>1. Holds(p) /\ val.SETVAL = 1 /\ \A q \in Procs \ {p} : adj[q].SETVAL = 0
    BY <1>3, <1>9 DEF GInv, OneHolds, Holds
  <2>2. val'.SETVAL = 0 /\ \A q \in Procs : adj'[q].SETVAL = 0
    BY <1>1, <1>5, <1>9, <2>1 DEF Holds
  <2>3. OneHolds' /\ NoneKept'
    BY <2>2 DEF OneHolds, NoneKept, Holds
  <2> QED
    BY <1>4, <1>6, <1>7, <2>3 DEF GInv
<1> QED
  BY <1>8, <1>9

-----------------------------------------------------------------------------
(* sem_get *)

\* A new set has an id no call under way has, so it makes nobody guard it.
LEMMA SemGetKeeps ==
    ASSUME GInv, NEW p \in Procs, NEW slot \in Slots, NEW max \in Maxes, NEW auto \in BOOLEAN,
           SemGet(p, slot, max, auto)
    PROVE  GInv'
<1> DEFINE c == [at |-> "guard", id |-> set', max |-> max, auto |-> auto, slot |-> slot, count |-> 0]
<1>1. /\ call' = [call EXCEPT ![p] = c]
      /\ Idle(p)
      /\ exists' = TRUE
      /\ set' = IF exists THEN set ELSE set + 1
      /\ UNCHANGED <<val, adj, res>>
  BY DEF SemGet
<1>2. set' \in Nat /\ max \in Nat /\ "guard" \in Labels /\ slot \in Slots \cup {0}
  BY <1>1, MaxesNat DEF GInv, SemTypes, Labels
<1>3. c \in Calls /\ c.at = "guard" /\ c.id = set'
  BY <1>2 DEF Calls
<1> HIDE DEF c
<1>4. SemTypes'
  BY <1>1, <1>2, <1>3 DEF GInv, SemTypes
<1>5. \A q \in Procs : call'[q] = IF q = p THEN c ELSE call[q]
  BY <1>1 DEF GInv, SemTypes
<1>6. \A q \in Procs : call[q].id \in Nat /\ call[q].id <= set
  BY DEF GInv, SemTypes, IdsPast, Calls
<1>7. IdsPast'
  BY <1>1, <1>2, <1>3, <1>5, <1>6 DEF GInv, IdsPast, SemTypes
<1>8. OneHolds' /\ NoneKept'
  BY <1>1 DEF GInv, OneHolds, NoneKept, Holds
<1>9. GuardHolds'
  <2> SUFFICES ASSUME NEW q \in Procs, ~Dying(q)'
               PROVE  Holds(q)' <=> q \in Guarding'
    BY DEF GuardHolds
  <2>1. Holds(q)' <=> Holds(q)
    BY <1>1 DEF Holds
  <2>2. CASE q = p
    <3>1. ~Dying(p) /\ p \notin Guarding
      BY <1>1 DEF Idle, Dying, Guarding
    <3>2. p \notin Guarding'
      BY <1>3, <1>5 DEF Guarding
    <3> QED
      BY <2>1, <2>2, <3>1, <3>2 DEF GInv, GuardHolds
  <2>3. CASE q # p
    <3>1. call'[q] = call[q] /\ ~Dying(q)
      BY <1>5, <2>3 DEF Dying
    <3>2. Holds(q) <=> q \in Guarding
      BY <3>1 DEF GInv, GuardHolds
    <3>3. CASE exists
      BY <1>1, <2>1, <3>1, <3>2, <3>3 DEF Guarding, Live
    <3>4. CASE ~exists
      <4>1. ~Holds(q)
        BY <3>4 DEF GInv, NoneKept, Holds
      <4>2. call[q].id # set'
        BY <1>1, <1>6, <3>4 DEF GInv, SemTypes
      <4> QED
        BY <2>1, <3>1, <4>1, <4>2 DEF Guarding, Live
    <3> QED
      BY <3>3, <3>4
  <2> QED
    BY <2>2, <2>3
<1> QED
  BY <1>4, <1>7, <1>8, <1>9 DEF GInv

\* A call that is moved on within the part that SETVAL guards, or of a removed set.
LEMMA CallMoves ==
    ASSUME GInv, NEW p \in Procs, NEW c \in Calls, ~Dying(p),
           call' = [call EXCEPT ![p] = c],
           UNCHANGED <<set, exists>>, res' \in [Procs -> [Slots -> Resource]],
           val' \in [Sems -> Int], adj' \in [Procs -> [Sems -> Int]],
           val'.SETVAL = val.SETVAL, \A q \in Procs : adj'[q].SETVAL = adj[q].SETVAL,
           c.at # "dying", c.id <= set,
           (c.at \in {"getval", "setval", "unlock"} /\ Live(c.id)) <=> p \in Guarding
    PROVE  GInv'
<1>1. SemTypes'
  BY DEF GInv, SemTypes
<1>2. \A q \in Procs : call'[q] = IF q = p THEN c ELSE call[q]
  BY DEF GInv, SemTypes
<1>3. IdsPast'
  BY <1>2 DEF GInv, IdsPast
<1>4. \A q \in Procs : (q \in Guarding' <=> q \in Guarding) /\ (Dying(q)' <=> Dying(q))
  BY <1>2 DEF Guarding, Dying, Live
<1>5. GuardHolds'
  BY <1>4 DEF GInv, GuardHolds, Holds
<1> QED
  BY <1>1, <1>3, <1>5, SetvalKept

\* What is known of a call that a step moves on.
LEMMA CallKnown ==
    ASSUME GInv, NEW p \in Procs
    PROVE  /\ call[p] \in Calls /\ call[p].at \in Labels /\ call[p].id \in Nat
           /\ call[p].id <= set /\ call[p].max \in Nat /\ call[p].auto \in BOOLEAN
           /\ val.SETVAL \in Int /\ val.USAGE \in Int
           /\ res[p] \in [Slots -> Resource]
BY DEF GInv, SemTypes, IdsPast, Calls, Sems

\* SETVAL was 0, so nobody was there; now the caller is.
LEMMA TakeGuardKeeps ==
    ASSUME GInv, NEW p \in Procs, TakeGuard(p)
    PROVE  GInv'
<1> DEFINE c == [call[p] EXCEPT !.at = "getval"]
<1>0. "getval" \in Labels
  BY DEF Labels
<1>1. c \in Calls /\ c.at = "getval" /\ c.id = call[p].id
  BY <1>0, CallKnown, CallTypes
<1>2. call' = [call EXCEPT ![p] = c]
  BY DEF TakeGuard
<1> HIDE DEF c
<1>3. /\ call[p].at = "guard"
      /\ UNCHANGED <<set, exists, res>>
  BY DEF TakeGuard
<1>4. ~Dying(p) /\ p \notin Guarding
  BY <1>3 DEF Dying, Guarding
<1>5. CASE ~Live(call[p].id)
  <2>1. UNCHANGED <<val, adj>>
    BY <1>5 DEF TakeGuard
  <2> QED
    BY <1>1, <1>2, <1>3, <1>4, <1>5, <2>1, CallKnown, CallMoves DEF GInv, SemTypes
<1>6. CASE Live(call[p].id)
  <2>1. val.SETVAL = 0 /\ SemOp(p, [SEM |-> 0, USAGE |-> 1, SETVAL |-> 1])
    BY <1>6 DEF TakeGuard
  <2>2. /\ val' \in [Sems -> Int] /\ adj' \in [Procs -> [Sems -> Int]]
        /\ val'.SETVAL = val.SETVAL + 1
        /\ adj'[p].SETVAL = adj[p].SETVAL - 1
        /\ \A q \in Procs \ {p} : adj'[q] = adj[q]
    BY <2>1, SemOpTypes DEF GInv
  <2>3. \A q \in Procs : adj[q].SETVAL = 0
    BY <2>1 DEF GInv, OneHolds, Holds
  <2>4. val'.SETVAL = 1 /\ adj'[p].SETVAL = -1 /\ \A q \in Procs \ {p} : adj'[q].SETVAL = 0
    BY <2>1, <2>2, <2>3
  <2>5. SemTypes'
    BY <1>1, <1>2, <1>3, <2>2 DEF GInv, SemTypes
  <2>6. \A q \in Procs : call'[q] = IF q = p THEN c ELSE call[q]
    BY <1>2 DEF GInv, SemTypes
  <2>7. IdsPast'
    BY <1>1, <1>3, <2>6 DEF GInv, IdsPast
  <2>8. exists'
    BY <1>3, <1>6 DEF Live
  <2>9. OneHolds' /\ NoneKept'
    BY <2>4, <2>8 DEF OneHolds, NoneKept, Holds
  <2>10. p \in Guarding'
    BY <1>1, <1>3, <1>6, <2>6 DEF Guarding, Live
  <2>11. \A q \in Procs \ {p} : q \in Guarding' => q \in Guarding /\ ~Dying(q)
    BY <1>3, <2>6 DEF Guarding, Dying, Live
  <2>12. \A q \in Procs \ {p} : q \notin Guarding'
    BY <2>3, <2>11 DEF GInv, GuardHolds, Holds
  <2>13. GuardHolds'
    BY <2>4, <2>10, <2>12 DEF GuardHolds, Holds
  <2> QED
    BY <2>5, <2>7, <2>9, <2>13 DEF GInv
<1> QED
  BY <1>5, <1>6

\* Reading the number of users keeps the guard.
LEMMA GetValKeeps ==
    ASSUME GInv, NEW p \in Procs, GetVal(p)
    PROVE  GInv'
<1> DEFINE n == IF Live(call[p].id) THEN val.USAGE ELSE -1
           c == [call[p] EXCEPT !.at = "setval", !.count = n]
<1>0. "setval" \in Labels /\ n \in Int
  BY CallKnown DEF Labels
<1>1. c \in Calls /\ c.at = "setval" /\ c.id = call[p].id
  <2>1. call[p] \in Calls
    BY CallKnown
  <2> HIDE DEF n
  <2> QED
    BY <1>0, <2>1 DEF Calls
<1>2. call' = [call EXCEPT ![p] = c]
  BY DEF GetVal
<1> HIDE DEF c
<1>3. /\ call[p].at = "getval"
      /\ UNCHANGED <<set, exists, val, adj, res>>
  BY DEF GetVal
<1>4. ~Dying(p)
  BY <1>3 DEF Dying
<1>5. p \in Guarding <=> Live(c.id)
  BY <1>1, <1>3 DEF Guarding
<1> QED
  BY <1>1, <1>2, <1>3, <1>4, <1>5, CallKnown, CallMoves DEF GInv, SemTypes

\* Setting SEM clears what would be undone on SEM only.
LEMMA SetValKeeps ==
    ASSUME GInv, NEW p \in Procs, SetVal(p)
    PROVE  GInv'
<1> DEFINE c == [call[p] EXCEPT !.at = "unlock", !.count = 0]
<1>0. "unlock" \in Labels
  BY DEF Labels
<1>1. c \in Calls /\ c.at = "unlock" /\ c.id = call[p].id
  <2>1. call[p] \in Calls /\ 0 \in Int
    BY CallKnown
  <2> QED
    BY <1>0, <2>1 DEF Calls
<1>2. call' = [call EXCEPT ![p] = c]
  BY DEF SetVal
<1> HIDE DEF c
<1>3. /\ call[p].at = "setval"
      /\ UNCHANGED <<set, exists, res>>
  BY DEF SetVal
<1>4. ~Dying(p)
  BY <1>3 DEF Dying
<1>5. p \in Guarding <=> Live(c.id)
  BY <1>1, <1>3 DEF Guarding
<1>6. \/ UNCHANGED <<val, adj>>
      \/ /\ val' = [val EXCEPT !.SEM = call[p].max]
         /\ adj' = [q \in Procs |-> [adj[q] EXCEPT !.SEM = 0]]
  BY DEF SetVal
<1>7. /\ val' \in [Sems -> Int] /\ adj' \in [Procs -> [Sems -> Int]]
      /\ val'.SETVAL = val.SETVAL /\ \A q \in Procs : adj'[q].SETVAL = adj[q].SETVAL
  <2>1. "SEM" \in Sems /\ "SETVAL" \in Sems /\ call[p].max \in Int
    BY CallKnown DEF Sems
  <2>2. val \in [Sems -> Int] /\ adj \in [Procs -> [Sems -> Int]]
    BY DEF GInv, SemTypes
  <2> QED
    BY <1>6, <2>1, <2>2
<1> QED
  BY <1>1, <1>2, <1>3, <1>4, <1>5, <1>7, CallKnown, CallMoves DEF GInv, SemTypes

\* The one holder gives SETVAL back.
LEMMA DropGuardKeeps ==
    ASSUME GInv, NEW p \in Procs, DropGuard(p)
    PROVE  GInv'
<1>1. /\ call[p].at = "unlock"
      /\ call' = [call EXCEPT ![p] = NoCall]
      /\ UNCHANGED <<set, exists>>
  BY DEF DropGuard
<1>2. ~Dying(p) /\ (p \in Guarding <=> Live(call[p].id))
  BY <1>1 DEF Dying, Guarding
<1>3. res' \in [Procs -> [Slots -> Resource]]
  <2> DEFINE r == [id |-> call[p].id, count |-> 0, auto |-> call[p].auto]
  <2>1. r \in Resource
    BY CallKnown DEF Resource
  <2>2. res' = [res EXCEPT ![p][call[p].slot] = r]
    BY DEF DropGuard
  <2> HIDE DEF r
  <2> QED
    BY <2>1, <2>2 DEF GInv, SemTypes
<1>4. CASE ~Live(call[p].id)
  <2>1. UNCHANGED <<val, adj>>
    BY <1>4 DEF DropGuard
  <2>2. NoCall.id <= set /\ p \notin Guarding
    BY <1>2, <1>4, NoCallTypes DEF GInv, SemTypes
  <2>3. NoCall.at \notin {"getval", "setval", "unlock", "dying"}
    BY NoCallTypes
  <2> QED
    BY <1>1, <1>2, <1>3, <2>1, <2>2, <2>3, NoCallTypes, CallMoves DEF GInv, SemTypes
<1>5. CASE Live(call[p].id)
  <2>1. SemOp(p, [SEM |-> 0, USAGE |-> 0, SETVAL |-> -1])
    BY <1>5 DEF DropGuard
  <2>2. /\ val' \in [Sems -> Int] /\ adj' \in [Procs -> [Sems -> Int]]
        /\ val'.SETVAL = val.SETVAL + (-1)
        /\ adj'[p].SETVAL = adj[p].SETVAL - (-1)
        /\ \A q \in Procs \ {p} : adj'[q] = adj[q]
    BY <2>1, SemOpTypes DEF GInv
  <2>3. Holds(p)
    BY <1>2, <1>5 DEF GInv, GuardHolds
  <2>4. val.SETVAL = 1 /\ \A q \in Procs \ {p} : adj[q].SETVAL = 0
    BY <2>3 DEF GInv, OneHolds, Holds
  <2>5. val'.SETVAL = 0 /\ \A q \in Procs : adj'[q].SETVAL = 0
    BY <2>2, <2>3, <2>4 DEF Holds
  <2>6. SemTypes'
    BY <1>1, <1>3, <2>2, NoCallTypes DEF GInv, SemTypes
  <2>7. \A q \in Procs : call'[q] = IF q = p THEN NoCall ELSE call[q]
    BY <1>1 DEF GInv, SemTypes
  <2>8. IdsPast'
    BY <1>1, <2>7, NoCallTypes DEF GInv, IdsPast, SemTypes
  <2>9. OneHolds' /\ NoneKept'
    BY <2>5 DEF OneHolds, NoneKept, Holds
  <2>10. p \notin Guarding'
    BY <2>7, NoCallTypes DEF Guarding
  <2>11. \A q \in Procs \ {p} : q \in Guarding' => q \in Guarding /\ ~Dying(q)
    BY <1>1, <2>7 DEF Guarding, Dying, Live
  <2>12. \A q \in Procs \ {p} : q \notin Guarding'
    BY <2>4, <2>11 DEF GInv, GuardHolds, Holds
  <2>13. GuardHolds'
    BY <2>5, <2>10, <2>12 DEF GuardHolds, Holds
  <2> QED
    BY <2>6, <2>8, <2>9, <2>13 DEF GInv
<1> QED
  BY <1>4, <1>5

-----------------------------------------------------------------------------
(* sem_acquire, sem_release, sem_remove, and the end of a resource *)

\* An operation on SEM and USAGE alone.
LEMMA OtherOpTypes ==
    ASSUME GInv, NEW p \in Procs, NEW a \in Int, NEW b \in Int,
           SemOp(p, [SEM |-> a, USAGE |-> b, SETVAL |-> 0])
    PROVE  /\ val' \in [Sems -> Int] /\ adj' \in [Procs -> [Sems -> Int]]
           /\ val'.SETVAL = val.SETVAL /\ \A q \in Procs : adj'[q].SETVAL = adj[q].SETVAL
<1>1. /\ val' \in [Sems -> Int] /\ adj' \in [Procs -> [Sems -> Int]]
      /\ val'.SETVAL = val.SETVAL + 0
      /\ adj'[p].SETVAL = adj[p].SETVAL - 0
      /\ \A q \in Procs \ {p} : adj'[q] = adj[q]
  BY SemOpTypes DEF GInv
<1>2. val.SETVAL \in Int /\ adj[p].SETVAL \in Int
  BY DEF GInv, SemTypes, Sems
<1> QED
  BY <1>1, <1>2

\* A step outside sem_get() that leaves SETVAL alone.
LEMMA OtherOpKeeps ==
    ASSUME GInv, UNCHANGED <<set, exists, call>>, res' \in [Procs -> [Slots -> Resource]],
           val' \in [Sems -> Int], adj' \in [Procs -> [Sems -> Int]],
           val'.SETVAL = val.SETVAL, \A q \in Procs : adj'[q].SETVAL = adj[q].SETVAL
    PROVE  GInv'
<1>1. SemTypes' /\ IdsPast'
  BY DEF GInv, SemTypes, IdsPast
<1>2. GuardHolds'
  BY DEF GInv, GuardHolds, Guarding, Dying, Holds, Live
<1> QED
  BY <1>1, <1>2, SetvalKept

\* A resource whose count of units changes.
LEMMA CountKeeps ==
    ASSUME SemTypes, NEW p \in Procs, NEW slot \in Slots
    PROVE  /\ [res EXCEPT ![p][slot].count = @ + 1] \in [Procs -> [Slots -> Resource]]
           /\ [res EXCEPT ![p][slot].count = @ - 1] \in [Procs -> [Slots -> Resource]]
           /\ [res EXCEPT ![p][slot].count = -1] \in [Procs -> [Slots -> Resource]]
           /\ [res EXCEPT ![p][slot] = NoResource] \in [Procs -> [Slots -> Resource]]
<1>1. res[p][slot] \in Resource
  BY DEF SemTypes
<1>2. res[p][slot].count \in Int
  BY <1>1 DEF Resource
<1>3. \A n \in Int : [res[p][slot] EXCEPT !.count = n] \in Resource
  BY <1>1 DEF Resource
<1>4. \A r \in Resource : [res EXCEPT ![p][slot] = r] \in [Procs -> [Slots -> Resource]]
  BY DEF SemTypes
<1>5. \A n \in Int : [res EXCEPT ![p][slot] = [res[p][slot] EXCEPT !.count = n]]
                       \in [Procs -> [Slots -> Resource]]
  BY <1>3, <1>4
<1>6. /\ [res EXCEPT ![p][slot].count = @ + 1]
           = [res EXCEPT ![p][slot] = [res[p][slot] EXCEPT !.count = res[p][slot].count + 1]]
      /\ [res EXCEPT ![p][slot].count = @ - 1]
           = [res EXCEPT ![p][slot] = [res[p][slot] EXCEPT !.count = res[p][slot].count - 1]]
      /\ [res EXCEPT ![p][slot].count = -1]
           = [res EXCEPT ![p][slot] = [res[p][slot] EXCEPT !.count = -1]]
  OBVIOUS
<1>7. res[p][slot].count + 1 \in Int /\ res[p][slot].count - 1 \in Int /\ -1 \in Int
  BY <1>2
<1>8. /\ [res EXCEPT ![p][slot].count = @ + 1] \in [Procs -> [Slots -> Resource]]
      /\ [res EXCEPT ![p][slot].count = @ - 1] \in [Procs -> [Slots -> Resource]]
      /\ [res EXCEPT ![p][slot].count = -1] \in [Procs -> [Slots -> Resource]]
  BY <1>5, <1>6, <1>7, Zenon
<1>9. [res EXCEPT ![p][slot] = NoResource] \in [Procs -> [Slots -> Resource]]
  BY <1>4, NoResourceTypes
<1> QED
  BY <1>8, <1>9

\* Acquiring changes SEM only.
LEMMA SemAcquireKeeps ==
    ASSUME GInv, NEW p \in Procs, NEW slot \in Slots, SemAcquire(p, slot)
    PROVE  GInv'
<1>1. /\ SemOp(p, [SEM |-> -1, USAGE |-> 0, SETVAL |-> 0])
      /\ res' = [res EXCEPT ![p][slot].count = @ + 1]
      /\ UNCHANGED <<set, exists, call>>
  BY DEF SemAcquire
<1>2. res' \in [Procs -> [Slots -> Resource]]
  BY <1>1, CountKeeps DEF GInv
<1>3. /\ val' \in [Sems -> Int] /\ adj' \in [Procs -> [Sems -> Int]]
      /\ val'.SETVAL = val.SETVAL /\ \A q \in Procs : adj'[q].SETVAL = adj[q].SETVAL
  BY <1>1, OtherOpTypes
<1> QED
  BY <1>1, <1>2, <1>3, OtherOpKeeps

\* Releasing changes SEM only.
LEMMA SemReleaseKeeps ==
    ASSUME GInv, NEW p \in Procs, NEW slot \in Slots, SemRelease(p, slot)
    PROVE  GInv'
<1>1. /\ SemOp(p, [SEM |-> 1, USAGE |-> 0, SETVAL |-> 0])
      /\ res' = [res EXCEPT ![p][slot].count = @ - 1]
      /\ UNCHANGED <<set, exists, call>>
  BY DEF SemRelease
<1>2. res' \in [Procs -> [Slots -> Resource]]
  BY <1>1, CountKeeps DEF GInv
<1>3. /\ val' \in [Sems -> Int] /\ adj' \in [Procs -> [Sems -> Int]]
      /\ val'.SETVAL = val.SETVAL /\ \A q \in Procs : adj'[q].SETVAL = adj[q].SETVAL
  BY <1>1, OtherOpTypes
<1> QED
  BY <1>1, <1>2, <1>3, OtherOpKeeps

\* The end of a resource changes SEM and USAGE only.
LEMMA FreeKeeps ==
    ASSUME GInv, NEW p \in Procs, NEW slot \in Slots, Free(p, slot)
    PROVE  GInv'
<1> DEFINE n == res[p][slot].count
<1>1. /\ \/ SemOp(p, [SEM |-> n, USAGE |-> -1, SETVAL |-> 0])
         \/ UNCHANGED <<val, adj>>
      /\ res' = [res EXCEPT ![p][slot] = NoResource]
      /\ UNCHANGED <<set, exists, call>>
  BY DEF Free
<1>2. n \in Int
  BY DEF GInv, SemTypes, Resource
<1>3. res' \in [Procs -> [Slots -> Resource]]
  BY <1>1, CountKeeps DEF GInv
<1> HIDE DEF n
<1>4. /\ val' \in [Sems -> Int] /\ adj' \in [Procs -> [Sems -> Int]]
      /\ val'.SETVAL = val.SETVAL /\ \A q \in Procs : adj'[q].SETVAL = adj[q].SETVAL
  <2>1. CASE SemOp(p, [SEM |-> n, USAGE |-> -1, SETVAL |-> 0])
    BY <1>2, <2>1, OtherOpTypes
  <2>2. CASE UNCHANGED <<val, adj>>
    BY <2>2 DEF GInv, SemTypes
  <2> QED
    BY <1>1, <2>1, <2>2
<1> QED
  BY <1>1, <1>3, <1>4, OtherOpKeeps

\* A process that is in sem_get() when the set is removed guards nothing any more.
LEMMA SemRemoveKeeps ==
    ASSUME GInv, NEW p \in Procs, NEW slot \in Slots, SemRemove(p, slot)
    PROVE  GInv'
<1>1. /\ res' = [res EXCEPT ![p][slot].count = -1]
      /\ exists' = FALSE
      /\ val' = Zero
      /\ adj' = [q \in Procs |-> Zero]
      /\ UNCHANGED <<set, call>>
  BY DEF SemRemove
<1>2. res' \in [Procs -> [Slots -> Resource]]
  BY <1>1, CountKeeps DEF GInv
<1>3. SemTypes'
  BY <1>1, <1>2, ZeroTypes DEF GInv, SemTypes
<1>4. IdsPast'
  BY <1>1 DEF GInv, IdsPast
<1>5. val'.SETVAL = 0 /\ \A q \in Procs : adj'[q].SETVAL = 0
  BY <1>1, ZeroTypes
<1>6. OneHolds' /\ NoneKept'
  BY <1>5 DEF OneHolds, NoneKept, Holds
<1>7. GuardHolds'
  BY <1>1, <1>5 DEF GuardHolds, Guarding, Holds, Live
<1> QED
  BY <1>3, <1>4, <1>6, <1>7 DEF GInv

-----------------------------------------------------------------------------

\* Every step keeps the invariant.
LEMMA NextKeeps ==
    ASSUME GInv, [Next]_vars
    PROVE  GInv'
<1>1. CASE UNCHANGED vars
  <2>1. UNCHANGED <<set, exists, val, adj, res, call>>
    BY <1>1 DEF vars
  <2>2. SemTypes' /\ IdsPast' /\ NoneKept' /\ OneHolds'
    BY <2>1 DEF GInv, SemTypes, IdsPast, NoneKept, OneHolds, Holds
  <2>3. GuardHolds'
    BY <2>1 DEF GInv, GuardHolds, Guarding, Dying, Holds, Live
  <2> QED
    BY <2>2, <2>3 DEF GInv
<1>2. ASSUME NEW p \in Procs, InSemGet(p)
      PROVE  GInv'
  BY <1>2, TakeGuardKeeps, GetValKeeps, SetValKeeps, DropGuardKeeps DEF InSemGet
<1>3. ASSUME NEW p \in Procs, NEW slot \in Slots, Script(p, slot)
      PROVE  GInv'
  BY <1>3, SemGetKeeps, SemAcquireKeeps, SemReleaseKeeps, SemRemoveKeeps, FreeKeeps DEF Script
<1>4. ASSUME NEW p \in Procs, Die(p)
      PROVE  GInv'
  BY <1>4, DieKeeps
<1>5. ASSUME NEW p \in Procs, Kernel(p)
      PROVE  GInv'
  BY <1>5, RestartKeeps, UndoKeeps DEF Kernel
<1> QED
  BY <1>1, <1>2, <1>3, <1>4, <1>5 DEF Next

\* Guards are holders, and there is one holder at most.
LEMMA GInvSerializes ==
    ASSUME GInv
    PROVE  GuardSerializes
<1>1. \A p, q \in Guarding : p = q
  <2>1. \A p \in Guarding : p \in Procs /\ ~Dying(p)
    BY DEF Guarding, Dying
  <2> QED
    BY <2>1 DEF GInv, GuardHolds, OneHolds
<1>2. CASE Guarding = {}
  BY <1>2, FS_EmptySet DEF GuardSerializes
<1>3. CASE Guarding # {}
  <2>1. PICK p \in Guarding : TRUE
    BY <1>3
  <2>2. Guarding = {p}
    BY <1>1, <2>1
  <2> QED
    BY <2>2, FS_Singleton DEF GuardSerializes
<1> QED
  BY <1>2, <1>3

\* One process at a time finds out whether it is the first user of the set,
\* whatever dies or is removed meanwhile.
THEOREM GuardSerializesHolds == Spec => []GuardSerializes
<1>1. Init => GInv
  BY InitGInv
<1>2. GInv /\ [Next]_vars => GInv'
  BY NextKeeps
<1>3. GInv => GuardSerializes
  BY GInvSerializes
<1> QED
  BY <1>1, <1>2, <1>3, PTL DEF Spec

-----------------------------------------------------------------------------
(* Sessions next to semaphores: what SessionFiles_proof proves *)

Kept == INSTANCE SessionFiles_proof

LEMMA SessionsInit == AllInit => Kept!Init
BY DEF AllInit, Sessions!Init, Kept!Init, Sessions!NoSession, Kept!NoSession,
       Sessions!NoFile, Kept!NoFile, Sessions!NoId, Kept!NoId, Sessions!Inodes,
       Kept!Inodes

LEMMA SessionsNext == Sessions!Next => Kept!Next
BY DEF Sessions!Next, Kept!Next, Sessions!Goes, Kept!Goes, Sessions!Start,
       Kept!Start, Sessions!Open, Kept!Open, Sessions!At, Kept!At,
       Sessions!NoSession, Kept!NoSession, Sessions!files, Kept!files,
       Sessions!past, Kept!past, Sessions!Released, Kept!Released,
       Sessions!Lock, Kept!Lock, Sessions!Read, Kept!Read, Sessions!Collect,
       Kept!Collect, Sessions!GcStat, Kept!GcStat, Sessions!GcUnlink,
       Kept!GcUnlink, Sessions!GcEnd, Kept!GcEnd, Sessions!SessionId,
       Kept!SessionId, Sessions!Fresh, Kept!Fresh, Sessions!Regenerate,
       Kept!Regenerate, Sessions!CloseToDestroy, Kept!CloseToDestroy,
       Sessions!Destroy, Kept!Destroy, Sessions!RegenerateAndDelete,
       Kept!RegenerateAndDelete, Sessions!Unlink, Kept!Unlink,
       Sessions!Unlinked, Kept!Unlinked, Sessions!Flush, Kept!Flush,
       Sessions!Truncate, Kept!Truncate, Sessions!Write, Kept!Write,
       Sessions!Discard, Kept!Discard, Sessions!Crash, Kept!Crash,
       Sessions!NoFile, Kept!NoFile, Sessions!NoId, Kept!NoId, Sessions!Inodes,
       Kept!Inodes

LEMMA SessionsStep == [AllNext]_<<part, vars, sessions>> => [Kept!Next]_Kept!vars
BY SessionsNext DEF AllNext, sessions, vars, Kept!vars

LEMMA SessionsSpec == AllSpec => Kept!Spec
BY SessionsInit, SessionsStep, PTL DEF AllSpec, Kept!Spec

\* PS_WRITE_FUNC(files): a file holds what the last request to write it has
\* written, all of it and nothing else, whatever files are removed or replaced in
\* the meantime, next to anything that processes do with semaphores.
THEOREM FileIsLastWriteHolds == AllSpec => []FileIsLastWrite
<1>1. Kept!FileIsLastWrite => FileIsLastWrite
  BY DEF FileIsLastWrite, Sessions!FileIsLastWrite, Kept!FileIsLastWrite, Sessions!Truncated,
       Kept!Truncated, Sessions!At, Kept!At, Sessions!Inodes, Kept!Inodes
<1>2. Kept!Spec => []Kept!FileIsLastWrite
  BY Kept!FileIsLastWriteHolds, MaxSizeNat, MaxStartsNat
<1> QED
  BY <1>1, <1>2, SessionsSpec, PTL

\* ps_files_open(): while a script runs, no other request writes the file that it
\* has read and has open.
THEOREM ReadIsCurrentHolds == AllSpec => []ReadIsCurrent
<1>1. Kept!ReadIsCurrent => ReadIsCurrent
  BY DEF ReadIsCurrent, Sessions!ReadIsCurrent, Kept!ReadIsCurrent, Sessions!NoFile, Kept!NoFile
<1>2. Kept!Spec => []Kept!ReadIsCurrent
  BY Kept!ReadIsCurrentHolds, MaxSizeNat, MaxStartsNat
<1> QED
  BY <1>1, <1>2, SessionsSpec, PTL
=============================================================================
