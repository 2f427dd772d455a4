------------------------- MODULE ObjectsStore_proof -------------------------
(***************************************************************************)
(* Proofs about the objects store, for any set of references, any bound on *)
(* handles and any first size of the table.                                *)
(*                                                                         *)
(* First, that an object's destructor runs at most once.  The bucket's two *)
(* flags have to be related to the history of calls: an object that is     *)
(* valid and not marked has not been destructed.  Every call of a          *)
(* destructor is behind both flags, and sets the second one before user    *)
(* code can come back to the object.                                       *)
(*                                                                         *)
(* Second, that the counts are exact, the free list holds the free handles *)
(* and no reference dangles.  The invariant IInv says of each C call in    *)
(* progress what it may rely on at the point where it is: which reference  *)
(* it drops, whether its object is still valid, whether the bucket it      *)
(* points to has moved.  One lemma for each kind of step shows that the    *)
(* calls below the one on top keep what they rely on.                      *)
(***************************************************************************)
EXTENDS ObjectsStore, FiniteSetTheorems, SequenceTheorems, TLAPS

Bucket == [valid : BOOLEAN, destructed : BOOLEAN, refcount : Int]

\* The types of the buckets and of the history, which the argument below needs.
BucketTypes ==
    /\ slot \in [Handles -> Bucket]
    /\ runs \in [Handles -> Nat]

\* A bucket that is in use and not marked holds an object never destructed.
UnmarkedIsFresh ==
    \A h \in Handles : slot[h].valid /\ ~slot[h].destructed => runs[h] = 0

DInv == BucketTypes /\ UnmarkedIsFresh /\ DestructedOnce

-----------------------------------------------------------------------------
(* What the operators do to buckets *)

\* An update of a function, at a point that may lie outside its domain.
LEMMA Update ==
    ASSUME NEW S, NEW T, NEW f \in [S -> T], NEW x, NEW v, x \in S => v \in T
    PROVE  /\ [f EXCEPT ![x] = v] \in [S -> T]
           /\ \A y \in S : [f EXCEPT ![x] = v][y] = IF y = x THEN v ELSE f[y]
OBVIOUS

\* The buckets the store's updates of single fields make.
LEMMA BucketFields ==
    ASSUME NEW b \in Bucket, NEW n \in Int
    PROVE  /\ [b EXCEPT !.refcount = n] \in Bucket
           /\ [b EXCEPT !.refcount = n].valid = b.valid
           /\ [b EXCEPT !.refcount = n].destructed = b.destructed
           /\ [b EXCEPT !.valid = FALSE] \in Bucket
           /\ ~[b EXCEPT !.valid = FALSE].valid
           /\ [b EXCEPT !.valid = FALSE].destructed = b.destructed
           /\ [b EXCEPT !.destructed = TRUE] \in Bucket
           /\ [b EXCEPT !.destructed = TRUE].destructed
BY DEF Bucket

\* Marking objects as destructed keeps the types, valid, the counts and the marks.
LEMMA MarkedBuckets ==
    ASSUME NEW buckets \in [Handles -> Bucket]
    PROVE  /\ MarkDestructed(buckets) \in [Handles -> Bucket]
           /\ \A h \in Handles :
                 /\ MarkDestructed(buckets)[h].valid = buckets[h].valid
                 /\ MarkDestructed(buckets)[h].refcount = buckets[h].refcount
                 /\ buckets[h].destructed => MarkDestructed(buckets)[h].destructed
<1>1. \A b \in Bucket : [b EXCEPT !.destructed = b.destructed \/ b.valid]
          = [valid |-> b.valid, destructed |-> b.destructed \/ b.valid, refcount |-> b.refcount]
  BY DEF Bucket
<1> QED
  BY <1>1 DEF MarkDestructed, Bucket

\* A new object starts its history in its bucket.
LEMMA PutKeeps ==
    ASSUME DInv, NEW h, NEW r, NEW ctorFailed \in BOOLEAN,
           Put(h, r, ctorFailed)
    PROVE  DInv'
<1>1. /\ slot' = [slot EXCEPT ![h] = [valid |-> TRUE, destructed |-> ctorFailed, refcount |-> 1]]
      /\ runs' = [runs EXCEPT ![h] = 0]
  BY DEF Put
<1>2. [valid |-> TRUE, destructed |-> ctorFailed, refcount |-> 1] \in Bucket
  BY DEF Bucket
<1>3. /\ slot' \in [Handles -> Bucket]
      /\ \A g \in Handles \ {h} : slot'[g] = slot[g]
  BY <1>1, <1>2, Update DEF DInv, BucketTypes
<1>4. /\ runs' \in [Handles -> Nat]
      /\ \A g \in Handles : runs'[g] = IF g = h THEN 0 ELSE runs[g]
  BY <1>1, Update DEF DInv, BucketTypes
<1> QED
  BY <1>3, <1>4 DEF DInv, BucketTypes, UnmarkedIsFresh, DestructedOnce

\* A destructor call of an unmarked object marks it and is its first.
LEMMA CallDestructorKeeps ==
    ASSUME DInv, NEW h, slot[h].valid, ~slot[h].destructed,
           NEW held, Cardinality(held) \in Int,
           CallDestructor(h, held)
    PROVE  DInv'
<1> DEFINE n == slot[h].refcount + 1 + Cardinality(held)
<1>1. /\ slot' = [slot EXCEPT ![h] = [[slot[h] EXCEPT !.destructed = TRUE] EXCEPT !.refcount = n]]
      /\ runs' = [runs EXCEPT ![h] = runs[h] + 1]
  BY DEF CallDestructor, DInv, BucketTypes, Bucket
<1>2. h \in Handles => slot[h] \in Bucket /\ n \in Int
  BY DEF DInv, BucketTypes, Bucket
<1>3. h \in Handles => /\ [[slot[h] EXCEPT !.destructed = TRUE] EXCEPT !.refcount = n] \in Bucket
                       /\ [[slot[h] EXCEPT !.destructed = TRUE] EXCEPT !.refcount = n].destructed
  BY <1>2, BucketFields
<1>5. /\ slot' \in [Handles -> Bucket]
      /\ \A g \in Handles \ {h} : slot'[g] = slot[g]
      /\ h \in Handles => slot'[h].destructed
  BY <1>1, <1>3, Update DEF DInv, BucketTypes
<1>6. h \in Handles => runs[h] + 1 \in Nat
  BY DEF DInv, BucketTypes
<1>7. /\ runs' \in [Handles -> Nat]
      /\ \A g \in Handles : runs'[g] = IF g = h THEN runs[g] + 1 ELSE runs[g]
  BY <1>1, <1>6, Update DEF DInv, BucketTypes
<1> QED
  BY <1>5, <1>7 DEF DInv, BucketTypes, UnmarkedIsFresh, DestructedOnce

\* Steps that only count references, or clear valid, keep the invariant, for
\* neither a mark is taken away nor an object added.
LEMMA MonotoneKeeps ==
    ASSUME DInv,
           slot' \in [Handles -> Bucket],
           \A h \in Handles : slot'[h].valid /\ ~slot'[h].destructed
                                 => slot[h].valid /\ ~slot[h].destructed,
           runs' = runs
    PROVE  DInv'
BY DEF DInv, BucketTypes, UnmarkedIsFresh, DestructedOnce

\* Unwinding the stack either keeps the buckets it is given or marks them.
LEMMA UnwindKeeps ==
    ASSUME DInv, NEW stack, NEW buckets,
           buckets \in [Handles -> Bucket],
           \A h \in Handles : /\ buckets[h].valid = slot[h].valid
                              /\ slot[h].destructed => buckets[h].destructed,
           Unwind(stack, buckets),
           runs' = runs
    PROVE  DInv'
<1>1. slot' = buckets \/ slot' = MarkDestructed(buckets)
  BY DEF Unwind
<1>2. /\ slot' \in [Handles -> Bucket]
      /\ \A h \in Handles : /\ slot'[h].valid = slot[h].valid
                            /\ slot[h].destructed => slot'[h].destructed
  BY <1>1, MarkedBuckets
<1>3. \A h \in Handles : /\ slot'[h].valid /\ ~slot'[h].destructed
                              => slot[h].valid /\ ~slot[h].destructed
  BY <1>2
<1> QED
  BY <1>2, <1>3, MonotoneKeeps

-----------------------------------------------------------------------------
(* The steps *)

\* References taken and given back, and buckets given up, leave the marks alone.
LEMMA CountingKeeps ==
    ASSUME DInv,
           \/ \E h : slot' = [slot EXCEPT ![h].refcount = @ + 1]
           \/ \E h : slot' = [slot EXCEPT ![h].refcount = @ - 1]
           \/ \E h : slot' = [slot EXCEPT ![h].valid = FALSE]
           \/ slot' = slot,
           runs' = runs
    PROVE  DInv'
<1> DEFINE Kept == /\ slot' \in [Handles -> Bucket]
                   /\ \A g \in Handles : slot'[g].valid /\ ~slot'[g].destructed
                                            => slot[g].valid /\ ~slot[g].destructed
<1>1. ASSUME NEW h, NEW b, slot' = [slot EXCEPT ![h] = b],
             h \in Handles => b \in Bucket
                              /\ (b.valid => slot[h].valid) /\ b.destructed = slot[h].destructed
      PROVE  Kept
  BY <1>1, Update DEF DInv, BucketTypes
<1>2. \A h \in Handles :
         /\ slot[h] \in Bucket
         /\ slot[h].refcount + 1 \in Int
         /\ slot[h].refcount - 1 \in Int
  BY DEF DInv, BucketTypes, Bucket
<1>3. ASSUME NEW h, slot' = [slot EXCEPT ![h].refcount = @ + 1] PROVE Kept
  <2> DEFINE b == [slot[h] EXCEPT !.refcount = slot[h].refcount + 1]
  <2>1. slot' = [slot EXCEPT ![h] = b]
    BY <1>3
  <2>2. h \in Handles => /\ b \in Bucket
                         /\ b.valid => slot[h].valid
                         /\ b.destructed = slot[h].destructed
    BY <1>2, BucketFields DEF Bucket
  <2> QED
    BY <1>1, <2>1, <2>2
<1>4. ASSUME NEW h, slot' = [slot EXCEPT ![h].refcount = @ - 1] PROVE Kept
  <2> DEFINE b == [slot[h] EXCEPT !.refcount = slot[h].refcount - 1]
  <2>1. slot' = [slot EXCEPT ![h] = b]
    BY <1>4
  <2>2. h \in Handles => /\ b \in Bucket
                         /\ b.valid => slot[h].valid
                         /\ b.destructed = slot[h].destructed
    BY <1>2, BucketFields DEF Bucket
  <2> QED
    BY <1>1, <2>1, <2>2
<1>5. ASSUME NEW h, slot' = [slot EXCEPT ![h].valid = FALSE] PROVE Kept
  <2> DEFINE b == [slot[h] EXCEPT !.valid = FALSE]
  <2>1. slot' = [slot EXCEPT ![h] = b]
    BY <1>5
  <2>2. h \in Handles => /\ b \in Bucket
                         /\ b.valid => slot[h].valid
                         /\ b.destructed = slot[h].destructed
    BY <1>2, BucketFields DEF Bucket
  <2> QED
    BY <1>1, <2>1, <2>2
<1>6. ASSUME slot' = slot PROVE Kept
  BY <1>6 DEF DInv, BucketTypes
<1> QED
  BY <1>3, <1>4, <1>5, <1>6, MonotoneKeeps

\* The invariant holds at first.
LEMMA DestructedOnceInit == Init => DInv
BY DEF Init, DInv, BucketTypes, UnmarkedIsFresh, DestructedOnce, Bucket

\* The invariant is inductive: each action keeps it.
LEMMA DestructedOnceStep == DInv /\ [Next]_vars => DInv'
<1> SUFFICES ASSUME DInv, [Next]_vars PROVE DInv'
  OBVIOUS
<1>1. ASSUME UserStep PROVE DInv'
  <2>1. ASSUME NEW r \in Refs, NEW ctorFailed \in BOOLEAN,
               NewFromFreeList(r, ctorFailed) \/ NewOnTop(r, ctorFailed)
        PROVE  DInv'
    BY <2>1, PutKeeps DEF NewFromFreeList, NewOnTop
  <2>2. ASSUME NEW r \in AllRefs, NEW s \in Refs, AddRef(r, s) PROVE DInv'
    BY <2>2, CountingKeeps DEF AddRef
  <2>3. ASSUME NEW r \in Refs, Unset(r) PROVE DInv'
    BY <2>3, CountingKeeps DEF Unset, store
  <2>4. ASSUME NEW fatal \in BOOLEAN, Bailout(fatal) PROVE DInv'
    <3> DEFINE buckets == IF fatal THEN MarkDestructed(slot) ELSE slot
    <3>1. /\ buckets \in [Handles -> Bucket]
          /\ \A h \in Handles : /\ buckets[h].valid = slot[h].valid
                                /\ slot[h].destructed => buckets[h].destructed
      BY MarkedBuckets DEF DInv, BucketTypes
    <3>2. Unwind(calls, buckets) /\ runs' = runs
      BY <2>4 DEF Bailout
    <3> QED
      BY <3>1, <3>2, UnwindKeeps
  <2>5. ASSUME DestructorReturns PROVE DInv'
    BY <2>5, CountingKeeps DEF DestructorReturns, store
  <2>6. ASSUME EndScript PROVE DInv'
    BY <2>6, CountingKeeps DEF EndScript, store
  <2> QED
    BY <1>1, <2>1, <2>2, <2>3, <2>4, <2>5, <2>6 DEF UserStep
<1>2. ASSUME DelRefStep PROVE DInv'
  <2>1. ASSUME LastRef PROVE DInv'
    BY <2>1, CallDestructorKeeps, FS_EmptySet DEF LastRef, IsLast
  <2>2. ASSUME LastRefAgain \/ NotLastRef \/ AfterDestructor PROVE DInv'
    BY <2>2, CountingKeeps DEF LastRefAgain, NotLastRef, AfterDestructor, store
  <2>3. ASSUME NEW r \in Refs, FreeProperty(r) PROVE DInv'
    BY <2>3, CountingKeeps DEF FreeProperty, store
  <2>4. ASSUME AddToFreeList PROVE DInv'
    BY <2>4, CountingKeeps DEF AddToFreeList
  <2>5. ASSUME DecRefcount PROVE DInv'
    BY <2>5, CountingKeeps DEF DecRefcount
  <2>6. ASSUME BailoutOn PROVE DInv'
    BY <2>6, UnwindKeeps DEF BailoutOn, DInv, BucketTypes
  <2> QED
    BY <1>2, <2>1, <2>2, <2>3, <2>4, <2>5, <2>6 DEF DelRefStep
<1>3. ASSUME ShutdownStep PROVE DInv'
  <2>1. ASSUME NEW r \in Refs, DestroyGlobal(r) PROVE DInv'
    BY <2>1, CountingKeeps DEF DestroyGlobal, store
  <2>2. ASSUME LoopCallsDestructor PROVE DInv'
    <3>1. Cardinality({LoopRef}) = 1
      BY FS_Singleton
    <3>2. /\ slot[loop].valid /\ ~slot[loop].destructed
          /\ CallDestructor(loop, {LoopRef})
      BY <2>2 DEF LoopCallsDestructor
    <3> QED
      BY <3>1, <3>2, CallDestructorKeeps
  <2>3. ASSUME LoopDestructorDone \/ LoopFreesStorage PROVE DInv'
    BY <2>3, CountingKeeps DEF LoopDestructorDone, LoopFreesStorage
  <2>4. ASSUME EndGlobals \/ LoopStorageFreed \/ LoopSkips \/ LoopEnds \/ Over
        PROVE  DInv'
    BY <2>4, CountingKeeps
       DEF EndGlobals, LoopStorageFreed, LoopSkips, LoopEnds, Over, store, vars
  <2> QED
    BY <1>3, <2>1, <2>2, <2>3, <2>4 DEF ShutdownStep
<1>4. ASSUME UNCHANGED vars PROVE DInv'
  BY <1>4, CountingKeeps DEF vars, store
<1> QED
  BY <1>1, <1>2, <1>3, <1>4 DEF Next

\* A destructor runs at most once for an object, in
\* zend_objects_store_del_ref_by_handle_ex or in the loop over the store at the
\* end of the request, whatever user code does and wherever it bails out.
THEOREM DestructedOnceHolds == Spec => []DestructedOnce
<1>1. DInv => DestructedOnce
  BY DEF DInv
<1> QED
  BY DestructedOnceInit, DestructedOnceStep, <1>1, PTL DEF Spec

-----------------------------------------------------------------------------
(* The counts, the free list and the references: the invariant *)

\* The steps of a request, in their order.
Phases == {"script", "symbols", "destructors", "globals", "storage", "done"}

\* What ref and calls hold.
RefRecord == [by : {"none", "script", "property", "temp", "loop", "dying", "leaked"},
              of : Handles \cup {0}, handle : Handles \cup {0}]

CallFrame == [fn : {"del_ref", "call_destructors", "free_object_storage"},
              handle : Handles, ref : AllRefs,
              pc : {"entry", "in_dtor", "dtor_done", "freeing", "dec", "bailout"},
              base : Nat, failed : BOOLEAN]

\* r is a live reference to the object of handle h.
Refers(r, h) == Live(r) /\ ref[r].handle = h

StoreTypes ==
    /\ slot \in [Handles -> Bucket]
    /\ top \in 1 .. MaxHandle + 1
    /\ size \in Nat /\ size >= top
    /\ base \in Nat
    /\ freeList \in Seq(Handles)
    /\ ref \in [AllRefs -> RefRecord]
    /\ calls \in Seq(CallFrame)
    /\ phase \in Phases
    /\ loop \in 1 .. MaxHandle + 1

\* Handles from top on have never been used, and nothing refers to them.
UsedHandles ==
    /\ \A h \in Handles : slot[h].valid => h < top
    /\ \A r \in AllRefs : Live(r) => ref[r].handle \in 1 .. top - 1

\* The loops of the shutdown are at the bottom of the stack; a call that has
\* another one on top of it is inside a destructor, has just left it or frees
\* the object.  Each reference is being dropped, and each object destructed, by
\* one call.
CallStack ==
    /\ \A i \in 1 .. Len(calls) : calls[i].fn # "del_ref" => i = 1
    /\ \A i \in 1 .. Len(calls) - 1 : calls[i].pc \in {"in_dtor", "dtor_done", "freeing"}
    /\ \A i, j \in 1 .. Len(calls) :
          i # j /\ calls[i].fn = "del_ref" /\ calls[j].fn = "del_ref" => calls[i].ref # calls[j].ref
    /\ \A i, j \in 1 .. Len(calls) :
          i # j /\ calls[i].pc = "in_dtor" /\ calls[j].pc = "in_dtor" => calls[i].handle # calls[j].handle
    /\ phase = "done" => calls = <<>>

\* The reference a call drops is dying until the count is given back; its object
\* stays valid up to the end of free_storage, and from the beginning of
\* free_storage that reference is the only one.
DelRefCalls ==
    \A i \in 1 .. Len(calls) : calls[i].fn = "del_ref" =>
        /\ calls[i].pc # "bailout" =>
              ref[calls[i].ref].by = "dying" /\ ref[calls[i].ref].handle = calls[i].handle
        /\ calls[i].pc \in {"in_dtor", "dtor_done", "freeing"} => slot[calls[i].handle].valid
        /\ calls[i].pc = "freeing" =>
              \A s \in AllRefs : Refers(s, calls[i].handle) => s = calls[i].ref
        /\ calls[i].pc = "entry" => calls[i].base = base
        /\ calls[i].pc = "dec" =>
              \/ /\ calls[i].base = base
                 /\ slot[calls[i].handle].valid => slot[calls[i].handle].refcount >= 2
              \/ /\ ~slot[calls[i].handle].valid
                 /\ \A s \in AllRefs : Refers(s, calls[i].handle) => s = calls[i].ref

LoopCalls ==
    \A i \in 1 .. Len(calls) : calls[i].fn # "del_ref" =>
        /\ calls[i].handle = loop /\ loop < top
        /\ calls[i].fn = "call_destructors" =>
              /\ phase = "destructors"
              /\ calls[i].pc \in {"in_dtor", "dtor_done"}
              /\ ref[LoopRef].by = "loop" /\ ref[LoopRef].handle = loop
        /\ calls[i].fn = "free_object_storage" => phase = "storage" /\ calls[i].pc = "freeing"

RunningDestructors ==
    \A i \in 1 .. Len(calls) : calls[i].pc = "in_dtor" =>
        slot[calls[i].handle].destructed /\ ref[calls[i].handle].by = "temp"

\* The zval for $this exists only after the object's destructor was called, and
\* the count of the loop only in the loop, unless a bailout has leaked it.
OwnReferences ==
    /\ \A h \in Handles : Live(h) =>
          /\ ref[h].handle = h
          /\ ref[h].by \in {"temp", "dying", "leaked"}
          /\ slot[h].valid => slot[h].destructed
    /\ Live(LoopRef) =>
          /\ ref[LoopRef].by \in {"loop", "leaked"}
          /\ phase \in {"script", "symbols", "destructors"} =>
                Len(calls) > 0 /\ calls[1].fn = "call_destructors"

\* Nothing refers to a handle on the free list, but the reference whose drop has
\* just put it there.
FreeUnreferenced ==
    \A i \in DOMAIN freeList, r \in AllRefs : Refers(r, freeList[i]) =>
        /\ Len(calls) > 0
        /\ calls[Len(calls)].fn = "del_ref"
        /\ calls[Len(calls)].pc = "dec"
        /\ calls[Len(calls)].ref = r

\* The count is exact for every object that is valid or referred to.
RefsCounted ==
    \A h \in Handles :
        slot[h].valid \/ (\E r \in AllRefs : Refers(r, h))
            => slot[h].refcount = Cardinality(RefsTo(h))

CountBounds == \A h \in Handles : slot[h].refcount \in 0 .. Cardinality(AllRefs)

\* Until the loop over the store gives its count back unasked, an object that is
\* valid is referred to.
ScriptHolds ==
    phase = "script" => \A h \in Handles : slot[h].valid => slot[h].refcount >= 1

IInv ==
    /\ StoreTypes /\ UsedHandles
    /\ CallStack /\ DelRefCalls /\ LoopCalls /\ RunningDestructors
    /\ OwnReferences
    /\ FreeListExact /\ FreeUnreferenced
    /\ RefsCounted /\ CountBounds /\ ScriptHolds

-----------------------------------------------------------------------------
(* The stack of calls, and the references that a count stands for *)

\* The first elements of a sequence.
LEMMA Prefix ==
    ASSUME NEW S, NEW s \in Seq(S), NEW n \in 0 .. Len(s)
    PROVE  /\ SubSeq(s, 1, n) \in Seq(S)
           /\ Len(SubSeq(s, 1, n)) = n
           /\ \A i \in 1 .. n : SubSeq(s, 1, n)[i] = s[i]
OBVIOUS

\* An element put in front of a sequence.
LEMMA Pushed ==
    ASSUME NEW S, NEW s \in Seq(S), NEW x \in S
    PROVE  /\ <<x>> \o s \in Seq(S)
           /\ 1 \in DOMAIN (<<x>> \o s) /\ (<<x>> \o s)[1] = x
           /\ \A j \in DOMAIN s : j + 1 \in DOMAIN (<<x>> \o s) /\ (<<x>> \o s)[j + 1] = s[j]
           /\ \A i \in DOMAIN (<<x>> \o s) : i = 1 \/ \E j \in DOMAIN s : i = j + 1
<1> DEFINE t == <<x>>
<1>1. t \in Seq(S) /\ Len(t) = 1 /\ t[1] = x
  OBVIOUS
<1> HIDE DEF t
<1>2. /\ t \o s \in Seq(S)
      /\ Len(t \o s) = Len(t) + Len(s)
      /\ \A i \in 1 .. Len(t) + Len(s) : (t \o s)[i] = IF i <= Len(t) THEN t[i] ELSE s[i - Len(t)]
  BY <1>1, ConcatProperties
<1>3. Len(s) \in Nat /\ DOMAIN s = 1 .. Len(s)
  BY LenProperties
<1>6. DOMAIN (t \o s) = 1 .. Len(s) + 1
  BY <1>1, <1>2, <1>3, LenProperties
<1>7. ASSUME NEW i \in 1 .. Len(s) + 1 PROVE i = 1 \/ \E j \in 1 .. Len(s) : i = j + 1
  <2>1. i # 1 => i - 1 \in 1 .. Len(s) /\ i = (i - 1) + 1
    BY <1>3
  <2> QED
    BY <2>1
<1>4. (t \o s)[1] = x
  BY <1>1, <1>2, <1>3
<1>5. ASSUME NEW i \in 1 .. Len(s) PROVE (t \o s)[i + 1] = s[i]
  <2>1. i + 1 \in 1 .. Len(t) + Len(s) /\ ~(i + 1 <= Len(t)) /\ (i + 1) - Len(t) = i
    BY <1>1, <1>3
  <2> QED
    BY <1>2, <2>1
<1> QED
  BY <1>2, <1>3, <1>4, <1>5, <1>6, <1>7 DEF t

\* What the operators on the stack make of it.
LEMMA StackOperators ==
    ASSUME calls \in Seq(CallFrame), NEW f \in CallFrame
    PROVE  /\ Enter(calls, f) \in Seq(CallFrame)
           /\ Len(Enter(calls, f)) = Len(calls) + 1
           /\ \A i \in 1 .. Len(calls) : Enter(calls, f)[i] = calls[i]
           /\ Enter(calls, f)[Len(calls) + 1] = f
           /\ calls # <<>> =>
                 /\ Len(calls) \in Nat \ {0}
                 /\ Current = calls[Len(calls)] /\ Current \in CallFrame
                 /\ Below \in Seq(CallFrame)
                 /\ Len(Below) = Len(calls) - 1
                 /\ \A i \in 1 .. Len(calls) - 1 : Below[i] = calls[i]
                 /\ Become(f) \in Seq(CallFrame)
                 /\ Len(Become(f)) = Len(calls)
                 /\ \A i \in 1 .. Len(calls) - 1 : Become(f)[i] = calls[i]
                 /\ Become(f)[Len(calls)] = f
<1>1. /\ Enter(calls, f) \in Seq(CallFrame)
      /\ Len(Enter(calls, f)) = Len(calls) + 1
      /\ \A i \in 1 .. Len(calls) : Enter(calls, f)[i] = calls[i]
      /\ Enter(calls, f)[Len(calls) + 1] = f
  BY DEF Enter
<1>2. ASSUME calls # <<>>
      PROVE  /\ Len(calls) \in Nat \ {0}
             /\ Current = calls[Len(calls)] /\ Current \in CallFrame
             /\ Below \in Seq(CallFrame)
             /\ Len(Below) = Len(calls) - 1
             /\ \A i \in 1 .. Len(calls) - 1 : Below[i] = calls[i]
  <2>1. Len(calls) \in Nat \ {0} /\ Current = calls[Len(calls)] /\ Current \in CallFrame
    BY <1>2, EmptySeq, ElementOfSeq DEF Current
  <2>2. Len(calls) - 1 \in 0 .. Len(calls)
    BY <2>1
  <2>3. /\ Below \in Seq(CallFrame)
        /\ Len(Below) = Len(calls) - 1
        /\ \A i \in 1 .. Len(calls) - 1 : Below[i] = calls[i]
    BY <2>2, Prefix DEF Below
  <2> QED
    BY <2>1, <2>3
<1>3. ASSUME calls # <<>>
      PROVE  /\ Become(f) \in Seq(CallFrame)
             /\ Len(Become(f)) = Len(calls)
             /\ \A i \in 1 .. Len(calls) - 1 : Become(f)[i] = calls[i]
             /\ Become(f)[Len(calls)] = f
  <2>1. /\ Become(f) \in Seq(CallFrame)
        /\ Len(Become(f)) = Len(Below) + 1
        /\ \A i \in 1 .. Len(Below) : Become(f)[i] = Below[i]
        /\ Become(f)[Len(Below) + 1] = f
    BY <1>2, <1>3 DEF Become
  <2> QED
    BY <1>2, <1>3, <2>1
<1> QED
  BY <1>1, <1>2, <1>3

\* The call on top.
LEMMA StackTop ==
    ASSUME calls \in Seq(CallFrame), calls # <<>>
    PROVE  /\ Len(calls) \in Nat \ {0}
           /\ Current = calls[Len(calls)] /\ Current \in CallFrame
BY EmptySeq, ElementOfSeq DEF Current

\* References are finitely many.
LEMMA AllRefsFinite == IsFiniteSet(AllRefs) /\ Cardinality(AllRefs) \in Nat
<1>1. IsFiniteSet(Handles)
  BY FS_Interval, MaxHandleNat DEF Handles
<1>2. IsFiniteSet({LoopRef})
  BY FS_Singleton
<1>3. IsFiniteSet(AllRefs)
  BY <1>1, <1>2, RefsFinite, FS_Union DEF AllRefs
<1> QED
  BY <1>3, FS_CardinalityType

\* The references of user code, the zvals for $this and the loop's count differ.
LEMMA RefsApart ==
    /\ Handles \subseteq AllRefs /\ Refs \subseteq AllRefs /\ LoopRef \in AllRefs
    /\ LoopRef \notin Handles /\ LoopRef \notin Refs
    /\ \A r \in Refs : r \notin Handles
    /\ Handles \subseteq Nat
BY RefsNotInts, MaxHandleNat DEF AllRefs, Handles, LoopRef

\* How many references an object has.
LEMMA CountOf ==
    ASSUME NEW h
    PROVE  /\ IsFiniteSet(RefsTo(h))
           /\ Cardinality(RefsTo(h)) \in 0 .. Cardinality(AllRefs)
           /\ \A r \in AllRefs : Refers(r, h) => Cardinality(RefsTo(h)) >= 1
           /\ Cardinality(RefsTo(h)) = 0 <=> \A r \in AllRefs : ~Refers(r, h)
           /\ \A r \in AllRefs : Refers(r, h) /\ Cardinality(RefsTo(h)) = 1
                 => \A s \in AllRefs : Refers(s, h) => s = r
<1>1. RefsTo(h) \subseteq AllRefs
  BY DEF RefsTo
<1>2. IsFiniteSet(RefsTo(h)) /\ Cardinality(RefsTo(h)) <= Cardinality(AllRefs)
  BY <1>1, AllRefsFinite, FS_Subset
<1>3. Cardinality(RefsTo(h)) \in Nat
  BY <1>2, FS_CardinalityType
<1>4. \A r \in AllRefs : Refers(r, h) <=> r \in RefsTo(h)
  BY DEF RefsTo, Refers
<1>5. Cardinality(RefsTo(h)) = 0 <=> RefsTo(h) = {}
  BY <1>2, FS_EmptySet
<1>6. \A r \in AllRefs : Refers(r, h) => Cardinality(RefsTo(h)) >= 1
  BY <1>3, <1>4, <1>5
<1>7. ASSUME NEW r \in AllRefs, Refers(r, h), Cardinality(RefsTo(h)) = 1,
             NEW s \in AllRefs, Refers(s, h)
      PROVE  s = r
  <2>1. /\ IsFiniteSet(RefsTo(h) \ {r})
        /\ Cardinality(RefsTo(h) \ {r}) = 0
    BY <1>2, <1>4, <1>7, FS_RemoveElement
  <2>2. RefsTo(h) \ {r} = {}
    BY <2>1, FS_EmptySet
  <2> QED
    BY <2>2, <1>4, <1>7
<1>8. Cardinality(RefsTo(h)) = 0 <=> \A r \in AllRefs : ~Refers(r, h)
  BY <1>4, <1>5 DEF RefsTo
<1> QED
  BY <1>2, <1>3, <1>6, <1>7, <1>8, AllRefsFinite

\* The bound after a step.
LEMMA CountOfNext ==
    ASSUME NEW h
    PROVE  Cardinality(RefsTo(h))' \in 0 .. Cardinality(AllRefs)
<1>1. RefsTo(h)' \subseteq AllRefs
  BY DEF RefsTo
<1>2. IsFiniteSet(RefsTo(h)') /\ Cardinality(RefsTo(h)') <= Cardinality(AllRefs)
  BY <1>1, AllRefsFinite, FS_Subset
<1>3. Cardinality(RefsTo(h)') \in Nat
  BY <1>2, FS_CardinalityType
<1> QED
  BY <1>2, <1>3, AllRefsFinite

\* The count of an object none of whose references change.
LEMMA CountKept ==
    ASSUME NEW h, \A r \in AllRefs : Refers(r, h)' <=> Refers(r, h)
    PROVE  RefsTo(h)' = RefsTo(h)
BY DEF RefsTo, Refers

\* One reference more.
LEMMA CountAdded ==
    ASSUME NEW h, NEW s \in AllRefs, ~Refers(s, h), Refers(s, h)',
           \A r \in AllRefs \ {s} : Refers(r, h)' <=> Refers(r, h)
    PROVE  Cardinality(RefsTo(h))' = Cardinality(RefsTo(h)) + 1
<1>1. RefsTo(h)' = RefsTo(h) \cup {s} /\ s \notin RefsTo(h)
  BY DEF RefsTo, Refers
<1> QED
  BY <1>1, CountOf, FS_AddElement

\* Two references more.
LEMMA CountAddedTwo ==
    ASSUME NEW h, NEW s \in AllRefs, NEW t \in AllRefs, s # t,
           \A r \in {s, t} : Refers(r, h)' /\ ~Refers(r, h),
           \A r \in AllRefs \ {s, t} : Refers(r, h)' <=> Refers(r, h)
    PROVE  Cardinality(RefsTo(h))' = Cardinality(RefsTo(h)) + 2
<1>1. /\ RefsTo(h)' = (RefsTo(h) \cup {s}) \cup {t}
      /\ s \notin RefsTo(h) /\ t \notin RefsTo(h) \cup {s}
  BY DEF RefsTo, Refers
<1>2. /\ IsFiniteSet(RefsTo(h) \cup {s})
      /\ Cardinality(RefsTo(h) \cup {s}) = Cardinality(RefsTo(h)) + 1
  BY <1>1, CountOf, FS_AddElement
<1>3. Cardinality((RefsTo(h) \cup {s}) \cup {t}) = Cardinality(RefsTo(h) \cup {s}) + 1
  BY <1>1, <1>2, FS_AddElement
<1> QED
  BY <1>1, <1>2, <1>3, CountOf

\* One reference less.
LEMMA CountRemoved ==
    ASSUME NEW h, NEW s \in AllRefs, Refers(s, h), ~Refers(s, h)',
           \A r \in AllRefs \ {s} : Refers(r, h)' <=> Refers(r, h)
    PROVE  Cardinality(RefsTo(h))' = Cardinality(RefsTo(h)) - 1
<1>1. RefsTo(h)' = RefsTo(h) \ {s} /\ s \in RefsTo(h)
  BY DEF RefsTo, Refers
<1> QED
  BY <1>1, CountOf, FS_RemoveElement

-----------------------------------------------------------------------------
(* What updates of single fields make of the references and the buckets *)

\* A reference that changes hands still leads to the same object.
LEMMA Marked ==
    ASSUME StoreTypes, NEW r,
           NEW k \in {"none", "script", "property", "temp", "loop", "dying", "leaked"},
           ref' = [ref EXCEPT ![r].by = k]
    PROVE  /\ ref' \in [AllRefs -> RefRecord]
           /\ \A s \in AllRefs : /\ ref'[s].handle = ref[s].handle
                                 /\ ref'[s].of = ref[s].of
                                 /\ ref'[s].by = IF s = r THEN k ELSE ref[s].by
<1> DEFINE v == [ref[r] EXCEPT !.by = k]
<1>1. ref' = [ref EXCEPT ![r] = v]
  OBVIOUS
<1>2. ref \in [AllRefs -> RefRecord]
  BY DEF StoreTypes
<1>3. r \in AllRefs => /\ v \in RefRecord
                       /\ v.by = k /\ v.handle = ref[r].handle /\ v.of = ref[r].of
  BY <1>2 DEF RefRecord
<1> HIDE DEF v
<1>4. /\ ref' \in [AllRefs -> RefRecord]
      /\ \A s \in AllRefs : ref'[s] = IF s = r THEN v ELSE ref[s]
  BY <1>1, <1>2, <1>3, Update
<1> QED
  BY <1>3, <1>4

\* A reference that is made, or gone.
LEMMA Given ==
    ASSUME StoreTypes, NEW r, NEW v \in RefRecord, ref' = [ref EXCEPT ![r] = v]
    PROVE  /\ ref' \in [AllRefs -> RefRecord]
           /\ \A s \in AllRefs : ref'[s] = IF s = r THEN v ELSE ref[s]
BY Update DEF StoreTypes

\* Every record RefTo can make.
LEMMA RefToType ==
    ASSUME NEW h \in Handles \cup {0}, NEW of \in Handles \cup {0},
           NEW k \in {"none", "script", "property", "temp", "loop", "dying", "leaked"}
    PROVE  /\ RefTo(h, k, of) \in RefRecord
           /\ RefTo(h, k, of).by = k /\ RefTo(h, k, of).handle = h /\ RefTo(h, k, of).of = of
BY DEF RefTo, RefRecord

\* The record of a reference that is gone.
LEMMA NoRefType == NoRef \in RefRecord /\ NoRef.by = "none"
BY DEF NoRef, RefTo, RefRecord

\* A reference counted.
LEMMA CountedUp ==
    ASSUME StoreTypes, NEW h \in Handles,
           slot' = [slot EXCEPT ![h].refcount = @ + 1]
    PROVE  /\ slot' \in [Handles -> Bucket]
           /\ \A g \in Handles : /\ slot'[g].valid = slot[g].valid
                                 /\ slot'[g].destructed = slot[g].destructed
                                 /\ g # h => slot'[g].refcount = slot[g].refcount
           /\ slot'[h].refcount = slot[h].refcount + 1
<1> DEFINE b == [slot[h] EXCEPT !.refcount = slot[h].refcount + 1]
<1>1. slot' = [slot EXCEPT ![h] = b]
  OBVIOUS
<1>2. slot \in [Handles -> Bucket]
  BY DEF StoreTypes
<1>3. /\ b \in Bucket /\ b.valid = slot[h].valid /\ b.destructed = slot[h].destructed
      /\ b.refcount = slot[h].refcount + 1
  BY <1>2 DEF Bucket
<1> HIDE DEF b
<1>4. /\ slot' \in [Handles -> Bucket]
      /\ \A g \in Handles : slot'[g] = IF g = h THEN b ELSE slot[g]
  BY <1>1, <1>2, <1>3, Update
<1> QED
  BY <1>3, <1>4

\* A reference no longer counted.
LEMMA CountedDown ==
    ASSUME StoreTypes, NEW h \in Handles,
           slot' = [slot EXCEPT ![h].refcount = @ - 1]
    PROVE  /\ slot' \in [Handles -> Bucket]
           /\ \A g \in Handles : /\ slot'[g].valid = slot[g].valid
                                 /\ slot'[g].destructed = slot[g].destructed
                                 /\ g # h => slot'[g].refcount = slot[g].refcount
           /\ slot'[h].refcount = slot[h].refcount - 1
<1> DEFINE b == [slot[h] EXCEPT !.refcount = slot[h].refcount - 1]
<1>1. slot' = [slot EXCEPT ![h] = b]
  OBVIOUS
<1>2. slot \in [Handles -> Bucket]
  BY DEF StoreTypes
<1>3. /\ b \in Bucket /\ b.valid = slot[h].valid /\ b.destructed = slot[h].destructed
      /\ b.refcount = slot[h].refcount - 1
  BY <1>2 DEF Bucket
<1> HIDE DEF b
<1>4. /\ slot' \in [Handles -> Bucket]
      /\ \A g \in Handles : slot'[g] = IF g = h THEN b ELSE slot[g]
  BY <1>1, <1>2, <1>3, Update
<1> QED
  BY <1>3, <1>4

\* A bucket that is given up.
LEMMA Invalidated ==
    ASSUME StoreTypes, NEW h \in Handles, slot' = [slot EXCEPT ![h].valid = FALSE]
    PROVE  /\ slot' \in [Handles -> Bucket]
           /\ \A g \in Handles : /\ slot'[g].valid <=> slot[g].valid /\ g # h
                                 /\ slot'[g].destructed = slot[g].destructed
                                 /\ slot'[g].refcount = slot[g].refcount
<1> DEFINE b == [slot[h] EXCEPT !.valid = FALSE]
<1>1. slot' = [slot EXCEPT ![h] = b]
  OBVIOUS
<1>2. slot \in [Handles -> Bucket]
  BY DEF StoreTypes
<1>0. b \in Bucket
  BY <1>2 DEF Bucket
<1>3. /\ b.valid = FALSE /\ b.destructed = slot[h].destructed
      /\ b.refcount = slot[h].refcount
  BY <1>2 DEF Bucket
<1> HIDE DEF b
<1>4. /\ slot' \in [Handles -> Bucket]
      /\ \A g \in Handles : slot'[g] = IF g = h THEN b ELSE slot[g]
  BY <1>1, <1>2, <1>0, Update
<1>5. \A g \in Handles : slot[g].valid \in BOOLEAN
  BY <1>2 DEF Bucket
<1> QED
  BY <1>3, <1>4, <1>5

\* The bucket of an object whose destructor is called.
LEMMA DestructedBucket ==
    ASSUME NEW b \in Bucket, NEW n \in Int
    PROVE  /\ [[b EXCEPT !.destructed = TRUE] EXCEPT !.refcount = n] \in Bucket
           /\ [[b EXCEPT !.destructed = TRUE] EXCEPT !.refcount = n].valid = b.valid
           /\ [[b EXCEPT !.destructed = TRUE] EXCEPT !.refcount = n].destructed
           /\ [[b EXCEPT !.destructed = TRUE] EXCEPT !.refcount = n].refcount = n
<1> DEFINE c == [b EXCEPT !.destructed = TRUE]
<1>1. c \in Bucket /\ c.valid = b.valid /\ c.destructed
  BY DEF Bucket
<1> HIDE DEF c
<1>2. /\ [c EXCEPT !.refcount = n] \in Bucket
      /\ [c EXCEPT !.refcount = n].valid = c.valid
      /\ [c EXCEPT !.refcount = n].destructed = c.destructed
      /\ [c EXCEPT !.refcount = n].refcount = n
  BY <1>1 DEF Bucket
<1> QED
  BY <1>1, <1>2 DEF c

\* The free list when no bucket is taken or given up.
LEMMA FreeListKept ==
    ASSUME IInv, UNCHANGED <<top, freeList>>,
           phase \in {"storage", "done"} => phase' \in {"storage", "done"},
           \A g \in Handles : slot'[g].valid <=> slot[g].valid
    PROVE  FreeListExact'
<1>1. \A i \in DOMAIN freeList : freeList[i] \in Handles
  BY ElementOfSeq, LenProperties DEF IInv, StoreTypes
<1>2. \A g \in 1 .. top - 1 : g \in Handles
  BY MaxHandleNat DEF IInv, StoreTypes, Handles
<1> QED
  BY <1>1, <1>2 DEF IInv, FreeListExact

-----------------------------------------------------------------------------
(* The steps *)

\* A reference begins to be dropped: it dies, and a call of
\* zend_objects_store_del_ref goes on top of the stack; the call below it may
\* just have left its destructor.
LEMMA DropKeeps ==
    ASSUME IInv, NEW r \in AllRefs, ref[r].by \in {"script", "property", "temp"},
           ref' = [ref EXCEPT ![r].by = "dying"],
           calls' \in Seq(CallFrame),
           Len(calls') = Len(calls) + 1,
           calls'[Len(calls) + 1] = DelRef(r),
           \A i \in 1 .. Len(calls) :
              /\ calls'[i].fn = calls[i].fn /\ calls'[i].handle = calls[i].handle
              /\ calls'[i].ref = calls[i].ref /\ calls'[i].base = calls[i].base
              /\ \/ calls'[i].pc = calls[i].pc
                 \/ i = Len(calls) /\ calls[i].pc = "in_dtor" /\ calls'[i].pc = "dtor_done"
              /\ calls'[i].pc = "in_dtor" => calls'[i].handle # r,
           Len(calls) > 0 => calls'[Len(calls)].pc \in {"in_dtor", "dtor_done", "freeing"},
           phase # "done",
           UNCHANGED <<store, phase, loop>>
    PROVE  IInv'
<1> DEFINE n == Len(calls)
<1>a. /\ n \in Nat /\ Len(calls') = n + 1
      /\ \A i \in 1 .. n : calls[i] \in CallFrame
      /\ \A i \in 1 .. n + 1 : calls'[i] \in CallFrame
  BY ElementOfSeq, LenProperties DEF IInv, StoreTypes
<1>b. /\ ref' \in [AllRefs -> RefRecord]
      /\ \A s \in AllRefs : /\ ref'[s].handle = ref[s].handle
                            /\ ref'[s].of = ref[s].of
                            /\ ref'[s].by = IF s = r THEN "dying" ELSE ref[s].by
  BY Marked DEF IInv
<1>c. \A h \in Handles, s \in AllRefs : Refers(s, h)' <=> Refers(s, h)
  BY <1>b DEF Refers, Live
<1>d. \A s \in AllRefs : Live(s)' <=> Live(s)
  BY <1>b DEF Live
<1>e. /\ calls'[n + 1].fn = "del_ref" /\ calls'[n + 1].pc = "entry"
      /\ calls'[n + 1].ref = r /\ calls'[n + 1].handle = ref[r].handle
      /\ calls'[n + 1].base = base
  BY DEF DelRef, Frame
<1>f. UNCHANGED <<slot, top, size, base, freeList, phase, loop>>
  BY DEF store
<1>g. r # LoopRef /\ LoopRef \in AllRefs
  BY RefsApart DEF IInv, OwnReferences, Live
<1>1. StoreTypes'
  BY <1>b, <1>f DEF IInv, StoreTypes
<1>2. UsedHandles'
  BY <1>b, <1>d, <1>f DEF IInv, UsedHandles
<1>3. CallStack'
  <2>1. \A i \in 1 .. n + 1 : calls'[i].fn # "del_ref" => i = 1
    BY <1>a, <1>e DEF IInv, CallStack
  <2>2. \A i \in 1 .. n : calls'[i].pc \in {"in_dtor", "dtor_done", "freeing"}
    BY <1>a, <1>e DEF IInv, CallStack
  <2>3. \A i \in 1 .. n : calls[i].fn = "del_ref" => calls[i].ref # r
    <3>1. \A i \in 1 .. n : calls[i].pc # "bailout"
      BY <2>2
    <3> QED
      BY <3>1 DEF IInv, DelRefCalls
  <2>4. \A i, j \in 1 .. n + 1 :
          i # j /\ calls'[i].fn = "del_ref" /\ calls'[j].fn = "del_ref" => calls'[i].ref # calls'[j].ref
    BY <1>a, <1>e, <2>3 DEF IInv, CallStack
  <2>5. \A i, j \in 1 .. n + 1 :
          i # j /\ calls'[i].pc = "in_dtor" /\ calls'[j].pc = "in_dtor" => calls'[i].handle # calls'[j].handle
    BY <1>a, <1>e DEF IInv, CallStack
  <2> QED
    BY <1>a, <1>f, <2>1, <2>2, <2>4, <2>5 DEF CallStack
<1>4. DelRefCalls'
  BY <1>a, <1>b, <1>c, <1>e, <1>f DEF IInv, DelRefCalls, CallFrame
<1>5. LoopCalls'
  BY <1>a, <1>b, <1>e, <1>f, <1>g DEF IInv, LoopCalls
<1>6. RunningDestructors'
  <2>1. \A i \in 1 .. n : calls'[i].handle \in AllRefs
    BY <1>a, RefsApart DEF CallFrame
  <2>2. \A i \in 1 .. n : calls'[i].pc = "in_dtor" => calls[i].pc = "in_dtor" /\ calls'[i].handle # r
    OBVIOUS
  <2>3. \A i \in 1 .. n : calls'[i].pc = "in_dtor" =>
           slot[calls[i].handle].destructed /\ ref[calls[i].handle].by = "temp"
    BY <2>2 DEF IInv, RunningDestructors
  <2> QED
    BY <1>a, <1>b, <1>e, <1>f, <2>1, <2>2, <2>3 DEF RunningDestructors
<1>7. OwnReferences'
  BY <1>a, <1>b, <1>d, <1>f, <1>g, RefsApart DEF IInv, OwnReferences
<1>8. FreeUnreferenced'
  <2>1. \A i \in DOMAIN freeList, s \in AllRefs : ~Refers(s, freeList[i])
    BY <1>a DEF IInv, FreeUnreferenced
  <2> QED
    BY <1>b, <1>d, <1>f, <2>1 DEF FreeUnreferenced, Refers
<1>9. RefsCounted'
  <2>1. \A h \in Handles : RefsTo(h)' = RefsTo(h)
    BY <1>c, CountKept
  <2> QED
    BY <1>c, <1>f, <2>1 DEF IInv, RefsCounted
<1>10. FreeListExact' /\ CountBounds' /\ ScriptHolds'
  BY <1>f DEF IInv, FreeListExact, CountBounds, ScriptHolds
<1> QED
  BY <1>1, <1>2, <1>3, <1>4, <1>5, <1>6, <1>7, <1>8, <1>9, <1>10 DEF IInv

\* A call of zend_objects_store_del_ref goes on: to the end of the destructor's
\* part, to free_storage or to the decrement.
LEMMA MoveKeeps ==
    ASSUME IInv, calls # <<>>, Current.fn = "del_ref", Current.pc \in {"entry", "dtor_done"},
           NEW f \in CallFrame,
           f.fn = "del_ref", f.handle = Current.handle, f.ref = Current.ref, f.base = base,
           f.pc \in {"dtor_done", "freeing", "dec"},
           f.pc # "dec" => slot[f.handle].valid,
           f.pc = "freeing" => slot[f.handle].refcount = 1,
           f.pc = "dec" => ~(slot[f.handle].valid /\ slot[f.handle].refcount = 1),
           calls' = Become(f),
           UNCHANGED <<store, ref, phase, loop>>
    PROVE  IInv'
<1> DEFINE n == Len(calls)
<1>a. /\ n \in Nat \ {0} /\ Len(calls') = n
      /\ Current = calls[n]
      /\ \A i \in 1 .. n - 1 : calls'[i] = calls[i]
      /\ calls'[n] = f
      /\ calls' \in Seq(CallFrame)
  BY StackOperators DEF IInv, StoreTypes
<1>b. UNCHANGED <<slot, top, size, base, freeList, ref, phase, loop>>
  BY DEF store
<1>c. f.handle \in Handles /\ f.ref \in AllRefs
  BY DEF CallFrame
<1>d. Refers(f.ref, f.handle)
  BY <1>a, <1>b DEF IInv, DelRefCalls, Refers, Live
<1>e. slot[f.handle].refcount = Cardinality(RefsTo(f.handle))
  BY <1>c, <1>d DEF IInv, RefsCounted
<1>1. StoreTypes'
  BY <1>a, <1>b DEF IInv, StoreTypes
<1>2. UsedHandles' /\ FreeListExact' /\ CountBounds' /\ ScriptHolds'
  BY <1>b DEF IInv, UsedHandles, FreeListExact, CountBounds, ScriptHolds, Live
<1>3. CallStack'
  BY <1>a, <1>b DEF IInv, CallStack
<1>4. DelRefCalls'
  <2>1. f.pc = "freeing" => \A s \in AllRefs : Refers(s, f.handle) => s = f.ref
    BY <1>c, <1>d, <1>e, CountOf
  <2>2. f.pc = "dec" => (slot[f.handle].valid => slot[f.handle].refcount >= 2)
    BY <1>c, <1>d, <1>e, CountOf
  <2> QED
    BY <1>a, <1>b, <2>1, <2>2 DEF IInv, DelRefCalls, Refers, Live
<1>5. LoopCalls' /\ RunningDestructors'
  BY <1>a, <1>b DEF IInv, LoopCalls, RunningDestructors
<1>6. OwnReferences'
  BY <1>a, <1>b DEF IInv, OwnReferences, Live
<1>7. FreeUnreferenced'
  BY <1>a, <1>b DEF IInv, FreeUnreferenced, Refers, Live
<1>8. RefsCounted'
  BY <1>b DEF IInv, RefsCounted, RefsTo, Refers, Live
<1> QED
  BY <1>1, <1>2, <1>3, <1>4, <1>5, <1>6, <1>7, <1>8 DEF IInv

\* A last reference to an object not destructed yet calls its destructor.
LEMMA LastRefKeeps ==
    ASSUME IInv, NEW h \in Handles, NEW q \in AllRefs,
           LastRef, h = Current.handle, q = Current.ref
    PROVE  IInv'
<1> DEFINE n == Len(calls)
           f == [Current EXCEPT !.pc = "in_dtor"]
<1>0. /\ calls # <<>> /\ Current.fn = "del_ref" /\ Current.pc = "entry"
      /\ slot[h].valid /\ slot[h].refcount = 1 /\ ~slot[h].destructed
      /\ CallDestructor(h, {})
      /\ calls' = Become(f)
      /\ UNCHANGED <<top, size, base, freeList, phase, loop>>
  BY DEF LastRef, At, IsLast
<1>00. Current \in CallFrame
  BY <1>0, StackOperators DEF IInv, StoreTypes
<1>01. /\ f \in CallFrame /\ f.fn = "del_ref" /\ f.pc = "in_dtor"
       /\ f.handle = h /\ f.ref = q
  BY <1>00, <1>0 DEF CallFrame
<1>02. calls[Len(calls)].handle = h /\ calls[Len(calls)].ref = q
  BY DEF Current
<1> HIDE DEF f
<1>a. /\ n \in Nat \ {0} /\ Len(calls') = n
      /\ Current = calls[n]
      /\ \A i \in 1 .. n - 1 : calls'[i] = calls[i]
      /\ calls'[n] = f
      /\ calls' \in Seq(CallFrame)
  BY <1>0, <1>01, StackOperators DEF IInv, StoreTypes
<1>b. /\ slot' \in [Handles -> Bucket]
      /\ \A g \in Handles \ {h} : slot'[g] = slot[g]
      /\ slot'[h].valid /\ slot'[h].destructed /\ slot'[h].refcount = 2
  <2> DEFINE k == slot[h].refcount + 1 + Cardinality({})
             b == [[slot[h] EXCEPT !.destructed = TRUE] EXCEPT !.refcount = k]
  <2>1. slot' = [slot EXCEPT ![h] = b]
    BY <1>0, <1>02 DEF CallDestructor, IInv, StoreTypes, Bucket
  <2>2. k = 2
    BY <1>0, FS_EmptySet
  <2>3. slot[h] \in Bucket
    BY <1>02 DEF IInv, StoreTypes
  <2> HIDE DEF k
  <2>4. b \in Bucket /\ b.valid = slot[h].valid /\ b.destructed /\ b.refcount = k
    <3>1. k \in Int
      BY <2>2
    <3> QED
      BY <3>1, <2>3, DestructedBucket, Zenon
  <2> HIDE DEF b
  <2> QED
    BY <1>0, <1>02, <2>1, <2>2, <2>4, Update DEF IInv, StoreTypes
<1>c. /\ ref' \in [AllRefs -> RefRecord]
      /\ \A s \in AllRefs \ {h} : ref'[s] = ref[s]
      /\ ref'[h].by = "temp" /\ ref'[h].handle = h
  BY <1>0, <1>02, RefToType, RefsApart DEF CallDestructor, IInv, StoreTypes
<1>d. h \in AllRefs /\ ~Live(h) /\ h # q /\ h # LoopRef /\ LoopRef \in AllRefs
  <2>1. ~Live(h) /\ h \in AllRefs
    BY <1>0, <1>02, RefsApart DEF IInv, OwnReferences
  <2>2. ref[q].by = "dying"
    BY <1>0, <1>a DEF IInv, DelRefCalls
  <2> QED
    BY <1>02, <2>1, <2>2, RefsApart DEF Live
<1>e. /\ Refers(q, h)
      /\ Refers(h, h)' /\ ~Refers(h, h)
      /\ \A s \in AllRefs \ {h}, g \in Handles : Refers(s, g)' <=> Refers(s, g)
      /\ \A g \in Handles \ {h} : ~Refers(h, g)' /\ ~Refers(h, g)
  BY <1>0, <1>a, <1>c, <1>d DEF IInv, DelRefCalls, Refers, Live
<1>f. \A s \in AllRefs \ {h} : Live(s)' <=> Live(s)
  BY <1>c DEF Live
<1>g. \A i \in 1 .. n - 1 : calls[i].fn = "del_ref" =>
         /\ ref[calls[i].ref].by = "dying" /\ calls[i].ref \in AllRefs \ {h}
         /\ calls[i].pc \notin {"entry", "dec", "bailout"}
         /\ ~(calls[i].pc = "freeing" /\ calls[i].handle = h)
  <2>1. \A i \in 1 .. n - 1 : calls[i].fn = "del_ref" => calls[i].ref # q
    BY <1>0, <1>a DEF IInv, CallStack
  <2>2. \A i \in 1 .. n - 1 : calls[i].pc \notin {"entry", "dec", "bailout"}
    BY <1>a DEF IInv, CallStack
  <2>3. \A i \in 1 .. n - 1 : calls[i] \in CallFrame
    BY <1>a, ElementOfSeq DEF IInv, StoreTypes
  <2>4. \A i \in 1 .. n - 1 : calls[i].fn = "del_ref" =>
           /\ ref[calls[i].ref].by = "dying" /\ calls[i].ref \in AllRefs
           /\ ~(calls[i].pc = "freeing" /\ calls[i].handle = h)
    BY <1>02, <1>a, <1>e, <2>1, <2>2, <2>3 DEF IInv, DelRefCalls, CallFrame
  <2> QED
    BY <1>d, <2>2, <2>4 DEF Live
<1>h. \A i \in 1 .. n - 1 : calls[i] \in CallFrame
  BY <1>a, ElementOfSeq DEF IInv, StoreTypes
<1>1. StoreTypes'
  BY <1>0, <1>a, <1>b, <1>c DEF IInv, StoreTypes
<1>2. UsedHandles'
  <2>1. h \in 1 .. top - 1
    BY <1>0 DEF IInv, UsedHandles, StoreTypes, Handles
  <2>2. \A g \in Handles : slot'[g].valid => g < top
    BY <1>0, <1>b, <2>1 DEF IInv, UsedHandles
  <2>3. \A s \in AllRefs : Live(s)' => ref'[s].handle \in 1 .. top - 1
    BY <1>c, <1>f, <2>1 DEF IInv, UsedHandles
  <2> QED
    BY <1>0, <2>2, <2>3 DEF UsedHandles
<1>3. CallStack'
  <2>1. \A i \in 1 .. n - 1 : calls[i].pc = "in_dtor" => calls[i].handle # h
    BY <1>0, <1>a DEF IInv, RunningDestructors
  <2> QED
    BY <1>0, <1>01, <1>a, <2>1 DEF IInv, CallStack
<1>4. DelRefCalls'
  <2>1. \A i \in 1 .. n - 1 : calls[i].fn = "del_ref" =>
        /\ ref'[calls[i].ref].by = "dying" /\ ref'[calls[i].ref].handle = calls[i].handle
        /\ calls[i].pc \in {"in_dtor", "dtor_done", "freeing"} => slot'[calls[i].handle].valid
        /\ calls[i].pc = "freeing" =>
              \A s \in AllRefs : Live(s)' /\ ref'[s].handle = calls[i].handle => s = calls[i].ref
    <3> SUFFICES ASSUME NEW i \in 1 .. n - 1, calls[i].fn = "del_ref"
                 PROVE  /\ ref'[calls[i].ref].by = "dying" /\ ref'[calls[i].ref].handle = calls[i].handle
                        /\ calls[i].pc \in {"in_dtor", "dtor_done", "freeing"} => slot'[calls[i].handle].valid
                        /\ calls[i].pc = "freeing" =>
                              \A s \in AllRefs : Live(s)' /\ ref'[s].handle = calls[i].handle => s = calls[i].ref
      OBVIOUS
    <3>1. /\ ref[calls[i].ref].by = "dying" /\ ref[calls[i].ref].handle = calls[i].handle
          /\ calls[i].pc \in {"in_dtor", "dtor_done", "freeing"} => slot[calls[i].handle].valid
          /\ calls[i].pc = "freeing" =>
                \A s \in AllRefs : Live(s) /\ ref[s].handle = calls[i].handle => s = calls[i].ref
      BY <1>a, <1>g DEF IInv, DelRefCalls, Refers
    <3>2. calls[i].handle \in Handles
      BY <1>h DEF CallFrame
    <3> QED
      BY <1>b, <1>c, <1>f, <1>g, <3>1, <3>2
  <2> QED
    BY <1>0, <1>01, <1>a, <1>b, <1>c, <1>d, <1>g, <2>1 DEF IInv, DelRefCalls, Refers
<1>5. LoopCalls'
  BY <1>0, <1>01, <1>a, <1>c, <1>d DEF IInv, LoopCalls
<1>6. RunningDestructors'
  <2>1. \A i \in 1 .. n - 1 : calls[i].handle \in Handles
    BY <1>h DEF CallFrame
  <2> QED
    BY <1>01, <1>a, <1>b, <1>c, <2>1, RefsApart DEF IInv, RunningDestructors
<1>7. OwnReferences'
  <2>1. \A g \in Handles \ {h} : ref'[g] = ref[g] /\ slot'[g] = slot[g]
    BY <1>b, <1>c, RefsApart
  <2>2. ref'[LoopRef] = ref[LoopRef]
    BY <1>c, <1>d
  <2>3. Len(calls) > 0 /\ calls[1].fn = "call_destructors" => calls'[1].fn = "call_destructors"
    BY <1>0, <1>a
  <2> QED
    BY <1>0, <1>a, <1>b, <1>c, <2>1, <2>2, <2>3 DEF IInv, OwnReferences, Live
<1>8. FreeListExact'
  <2>1. \A g \in Handles : slot'[g].valid <=> slot[g].valid
    BY <1>0, <1>b
  <2> QED
    BY <1>0, <2>1, FreeListKept
<1>9. FreeUnreferenced'
  <2>1. \A i \in DOMAIN freeList : freeList[i] \in Handles \ {h}
    BY <1>0, ElementOfSeq, LenProperties DEF IInv, FreeListExact, StoreTypes
  <2>2. \A i \in DOMAIN freeList, s \in AllRefs : ~Refers(s, freeList[i])
    BY <1>0, <1>a DEF IInv, FreeUnreferenced
  <2> QED
    BY <1>0, <1>c, <1>f, <2>1, <2>2 DEF FreeUnreferenced, Refers
<1>10. RefsCounted' /\ CountBounds'
  <2>1. \A g \in Handles \ {h} : RefsTo(g)' = RefsTo(g)
    BY <1>d, <1>e, CountKept
  <2>2. Cardinality(RefsTo(h))' = Cardinality(RefsTo(h)) + 1
    BY <1>d, <1>e, CountAdded
  <2>3. slot[h].refcount = Cardinality(RefsTo(h))
    BY <1>0, <1>02 DEF IInv, RefsCounted
  <2>4. slot'[h].refcount = Cardinality(RefsTo(h))'
    BY <1>0, <1>b, <2>2, <2>3
  <2>5. Cardinality(RefsTo(h))' \in 0 .. Cardinality(AllRefs)
    BY CountOfNext
  <2>6. RefsCounted'
    BY <1>b, <1>d, <1>e, <2>1, <2>4 DEF IInv, RefsCounted
  <2> QED
    BY <1>b, <2>4, <2>5, <2>6 DEF IInv, CountBounds
<1>11. ScriptHolds'
  BY <1>0, <1>b DEF IInv, ScriptHolds
<1> QED
  BY <1>1, <1>2, <1>3, <1>4, <1>5, <1>6, <1>7, <1>8, <1>9, <1>10, <1>11 DEF IInv

\* An object freed for good gets its handle onto the free list: the reference
\* being dropped is the only one left, and it is the only call for the object.
LEMMA AddToFreeListKeeps ==
    ASSUME IInv, NEW h \in Handles, NEW q \in AllRefs,
           AddToFreeList, h = Current.handle, q = Current.ref
    PROVE  IInv'
<1> DEFINE n == Len(calls)
           f == [Current EXCEPT !.pc = "dec"]
<1>0. /\ calls # <<>> /\ Current.fn = "del_ref" /\ Current.pc = "freeing"
      /\ freeList' = <<h>> \o freeList
      /\ slot' = [slot EXCEPT ![h].valid = FALSE]
      /\ calls' = Become(f)
  BY DEF AddToFreeList, At
<1>u. UNCHANGED <<top, size, base, ref, phase, loop>>
  BY DEF AddToFreeList
<1>00. Current \in CallFrame
  BY <1>0, StackOperators DEF IInv, StoreTypes
<1>01. f \in CallFrame /\ f.fn = "del_ref" /\ f.pc = "dec" /\ f.handle = h /\ f.ref = q
  BY <1>00, <1>0 DEF CallFrame
<1>02. calls[Len(calls)].handle = h /\ calls[Len(calls)].ref = q
  BY DEF Current
<1> HIDE DEF f
<1>a. /\ n \in Nat \ {0} /\ Len(calls') = n
      /\ Current = calls[n]
      /\ \A i \in 1 .. n - 1 : calls'[i] = calls[i]
      /\ calls'[n] = f
      /\ calls' \in Seq(CallFrame)
  BY <1>0, <1>01, StackOperators DEF IInv, StoreTypes
<1>t. /\ calls[n].fn = "del_ref" /\ calls[n].pc = "freeing"
      /\ calls[n].handle = h /\ calls[n].ref = q
      /\ phase # "done"
  BY <1>0, <1>02, <1>a DEF IInv, CallStack
<1>b. /\ slot' \in [Handles -> Bucket]
      /\ \A g \in Handles : /\ slot'[g].valid <=> slot[g].valid /\ g # h
                            /\ slot'[g].destructed = slot[g].destructed
                            /\ slot'[g].refcount = slot[g].refcount
  BY <1>0, Invalidated DEF IInv
<1>c. /\ slot[h].valid /\ Refers(q, h) /\ ref[q].by = "dying"
      /\ \A s \in AllRefs : Refers(s, h) => s = q
  BY <1>a, <1>t DEF IInv, DelRefCalls, Refers, Live
<1>d. /\ freeList' \in Seq(Handles)
      /\ 1 \in DOMAIN freeList' /\ freeList'[1] = h
      /\ \A j \in DOMAIN freeList : j + 1 \in DOMAIN freeList' /\ freeList'[j + 1] = freeList[j]
      /\ \A i \in DOMAIN freeList' : i = 1 \/ \E j \in DOMAIN freeList : i = j + 1
  BY <1>0, Pushed DEF IInv, StoreTypes
<1>i. \A j \in DOMAIN freeList : freeList[j] \in Handles \ {h}
  <2>1. \A j \in DOMAIN freeList : freeList[j] \in Handles
    BY ElementOfSeq, LenProperties DEF IInv, StoreTypes
  <2>2. \A j \in DOMAIN freeList : freeList[j] # h
    BY <1>c DEF IInv, FreeListExact
  <2> QED
    BY <2>1, <2>2
<1>h. \A i \in 1 .. n - 1 : calls[i].handle \in Handles /\ calls[i].ref \in AllRefs
  <2>1. \A i \in 1 .. n - 1 : calls[i] \in CallFrame
    BY <1>a, ElementOfSeq DEF IInv, StoreTypes
  <2> QED
    BY <2>1 DEF CallFrame
<1>e. \A i \in 1 .. n - 1 : calls[i].fn = "del_ref" => calls[i].handle # h
  <2>1. \A i \in 1 .. n - 1 : calls[i].fn = "del_ref" => calls[i].ref # q
    BY <1>a, <1>t DEF IInv, CallStack
  <2>2. \A i \in 1 .. n - 1 : calls[i].fn = "del_ref" =>
           ref[calls[i].ref].by = "dying" /\ ref[calls[i].ref].handle = calls[i].handle
    BY <1>a DEF IInv, CallStack, DelRefCalls
  <2> QED
    BY <1>c, <1>h, <2>1, <2>2 DEF Refers, Live
<1>1. StoreTypes'
  BY <1>t, <1>u, <1>a, <1>b, <1>d DEF IInv, StoreTypes
<1>2. UsedHandles'
  BY <1>t, <1>u, <1>b DEF IInv, UsedHandles, Live
<1>3. CallStack'
  BY <1>u, <1>t, <1>01, <1>a DEF IInv, CallStack
<1>4. DelRefCalls'
  <2>1. \A i \in 1 .. n - 1 : calls[i].fn = "del_ref" => slot'[calls[i].handle].valid <=> slot[calls[i].handle].valid
    BY <1>b, <1>e, <1>h
  <2>2. \A i \in 1 .. n - 1 : calls[i].pc \notin {"entry", "dec", "bailout"}
    BY <1>a DEF IInv, CallStack
  <2> QED
    BY <1>t, <1>u, <1>01, <1>a, <1>b, <1>c, <2>1, <2>2 DEF IInv, DelRefCalls, Refers, Live
<1>5. LoopCalls'
  BY <1>t, <1>u, <1>01, <1>a DEF IInv, LoopCalls
<1>6. RunningDestructors'
  BY <1>t, <1>u, <1>01, <1>a, <1>b, <1>h DEF IInv, RunningDestructors
<1>7. OwnReferences'
  <2>1. calls[1].fn = "call_destructors" => calls'[1].fn = "call_destructors"
    BY <1>t, <1>u, <1>a
  <2> QED
    BY <1>t, <1>u, <1>a, <1>b, <2>1 DEF IInv, OwnReferences, Live
<1>8. FreeListExact'
  <2>1. h < top
    BY <1>c DEF IInv, UsedHandles
  <2>2. \A i, j \in DOMAIN freeList' : i # j => freeList'[i] # freeList'[j]
    BY <1>d, <1>i DEF IInv, FreeListExact
  <2>3. \A i \in DOMAIN freeList' : freeList'[i] < top' /\ ~slot'[freeList'[i]].valid
    BY <1>u, <1>b, <1>d, <1>i, <2>1 DEF IInv, FreeListExact
  <2>4. ASSUME phase' \notin {"storage", "done"}, NEW g \in 1 .. top' - 1, ~slot'[g].valid
        PROVE  \E i \in DOMAIN freeList' : freeList'[i] = g
    <3>1. g \in Handles
      BY <1>t, <1>u, MaxHandleNat DEF IInv, StoreTypes, Handles
    <3>2. CASE g = h
      BY <1>d, <3>2
    <3>3. CASE g # h
      <4>1. PICK i \in DOMAIN freeList : freeList[i] = g
        BY <1>t, <1>u, <1>b, <2>4, <3>1, <3>3 DEF IInv, FreeListExact
      <4> QED
        BY <1>d, <4>1
    <3> QED
      BY <3>2, <3>3
  <2> QED
    BY <2>2, <2>3, <2>4 DEF FreeListExact
<1>9. FreeUnreferenced'
  <2>1. \A i \in DOMAIN freeList, s \in AllRefs : ~(Live(s) /\ ref[s].handle = freeList[i])
    BY <1>t, <1>u, <1>a DEF IInv, FreeUnreferenced, Refers
  <2>2. \A i \in DOMAIN freeList', s \in AllRefs : Live(s) /\ ref[s].handle = freeList'[i] => s = q
    BY <1>c, <1>d, <2>1 DEF Refers
  <2> QED
    BY <1>t, <1>u, <1>01, <1>a, <2>2 DEF FreeUnreferenced, Refers, Live
<1>10. RefsCounted' /\ CountBounds' /\ ScriptHolds'
  BY <1>t, <1>u, <1>b DEF IInv, RefsCounted, CountBounds, ScriptHolds, RefsTo, Refers, Live
<1> QED
  BY <1>1, <1>2, <1>3, <1>4, <1>5, <1>6, <1>7, <1>8, <1>9, <1>10 DEF IInv

\* A reference is gone, and so is its count, but when the table has moved under
\* free_storage: then the object is freed, and nothing counts it any more.
LEMMA DecRefcountKeeps ==
    ASSUME IInv, NEW h \in Handles, NEW q \in AllRefs,
           DecRefcount, h = Current.handle, q = Current.ref
    PROVE  IInv'
<1> DEFINE n == Len(calls)
           f == [Current EXCEPT !.pc = "bailout"]
<1>0. /\ calls # <<>> /\ Current.fn = "del_ref" /\ Current.pc = "dec"
      /\ IF Current.base = base THEN slot' = [slot EXCEPT ![h].refcount = slot[h].refcount - 1] ELSE slot' = slot
      /\ ref' = [ref EXCEPT ![q] = NoRef]
      /\ calls' = Become(f) \/ calls' = Below
  BY DEF DecRefcount, At
<1>u. UNCHANGED <<top, size, base, freeList, phase, loop>>
  BY DEF DecRefcount
<1>00. Current \in CallFrame
  BY <1>0, StackOperators DEF IInv, StoreTypes
<1>01. f \in CallFrame /\ f.fn = "del_ref" /\ f.pc = "bailout" /\ f.handle = h /\ f.ref = q
  BY <1>00, <1>0 DEF CallFrame
<1>02. calls[Len(calls)].handle = h /\ calls[Len(calls)].ref = q
  BY DEF Current
<1> HIDE DEF f
<1>a. /\ n \in Nat \ {0} /\ Len(calls') \in {n - 1, n}
      /\ Len(calls') = n => calls'[n] = f
      /\ Current = calls[n]
      /\ \A i \in 1 .. n - 1 : calls'[i] = calls[i]
      /\ calls' \in Seq(CallFrame)
  <2>1. /\ n \in Nat \ {0} /\ Current = calls[n]
        /\ Len(Below) = n - 1 /\ Below \in Seq(CallFrame)
        /\ Len(Become(f)) = n /\ Become(f)[n] = f /\ Become(f) \in Seq(CallFrame)
        /\ \A i \in 1 .. n - 1 : Below[i] = calls[i] /\ Become(f)[i] = calls[i]
    BY <1>0, <1>01, StackOperators DEF IInv, StoreTypes
  <2>2. CASE calls' = Become(f)
    BY <2>1, <2>2
  <2>3. CASE calls' = Below
    BY <2>1, <2>3
  <2> QED
    BY <1>0, <2>2, <2>3
<1>t. /\ calls[n].fn = "del_ref" /\ calls[n].pc = "dec"
      /\ calls[n].handle = h /\ calls[n].ref = q
      /\ phase # "done"
  BY <1>0, <1>02, <1>a DEF IInv, CallStack
<1>b. Refers(q, h) /\ ref[q].by = "dying" /\ ref[q].handle = h
  BY <1>t, <1>a DEF IInv, DelRefCalls, Refers, Live
<1>c. /\ ref' \in [AllRefs -> RefRecord]
      /\ ref'[q].by = "none"
      /\ \A s \in AllRefs \ {q} : ref'[s] = ref[s]
  BY <1>0, NoRefType, Given DEF IInv
<1>d. /\ slot[h].refcount = Cardinality(RefsTo(h)) /\ slot[h].refcount >= 1
      /\ slot[h].refcount \in Nat
  BY <1>b, CountOf DEF IInv, RefsCounted
<1>e. /\ slot' \in [Handles -> Bucket]
      /\ \A g \in Handles : /\ slot'[g].valid = slot[g].valid
                            /\ slot'[g].destructed = slot[g].destructed
                            /\ g # h => slot'[g].refcount = slot[g].refcount
      /\ slot'[h].refcount = IF Current.base = base THEN slot[h].refcount - 1 ELSE slot[h].refcount
  <2>1. CASE Current.base = base
    BY <1>0, <2>1, CountedDown DEF IInv
  <2>2. CASE Current.base # base
    BY <1>0, <2>2 DEF IInv, StoreTypes
  <2> QED
    BY <2>1, <2>2
<1>f. /\ \A s \in AllRefs \ {q}, g \in Handles : Refers(s, g)' <=> Refers(s, g)
      /\ \A g \in Handles : ~Refers(q, g)'
      /\ \A g \in Handles \ {h} : ~Refers(q, g)
  BY <1>b, <1>c DEF Refers, Live
<1>g. /\ \A s \in AllRefs : Live(s)' <=> Live(s) /\ s # q
      /\ LoopRef # q \/ ~Live(LoopRef)
  BY <1>b, <1>c, RefsApart DEF Live, IInv, OwnReferences
<1>h. \A i \in 1 .. n - 1 : calls[i] \in CallFrame
  BY <1>a, ElementOfSeq DEF IInv, StoreTypes
<1>1. StoreTypes'
  BY <1>t, <1>u, <1>a, <1>c, <1>e DEF IInv, StoreTypes
<1>2. UsedHandles'
  <2>1. \A g \in Handles : slot'[g].valid => g < top
    BY <1>e DEF IInv, UsedHandles
  <2>2. \A s \in AllRefs : Live(s)' => ref'[s].handle \in 1 .. top - 1
    BY <1>c, <1>g DEF IInv, UsedHandles
  <2> QED
    BY <1>u, <2>1, <2>2 DEF UsedHandles
<1>3. CallStack'
  <2>1. \A i \in 1 .. Len(calls') :
           /\ i \in 1 .. n
           /\ calls'[i].fn = calls[i].fn /\ calls'[i].ref = calls[i].ref
           /\ calls'[i].handle = calls[i].handle
           /\ calls'[i].pc = calls[i].pc \/ (i = n /\ calls'[i].pc = "bailout")
    BY <1>a, <1>t, <1>01
  <2>2. Len(calls') - 1 <= n - 1
    BY <1>a
  <2> QED
    BY <1>u, <1>t, <1>a, <2>1, <2>2 DEF IInv, CallStack
<1>4. DelRefCalls'
  <2>1. \A i \in 1 .. n - 1 : calls[i].fn = "del_ref" => calls[i].ref \in AllRefs \ {q}
    BY <1>a, <1>t, <1>h DEF IInv, CallStack, CallFrame
  <2>2. \A i \in 1 .. n - 1 : calls[i].handle \in Handles
    BY <1>h DEF CallFrame
  <2>3. \A i \in 1 .. n - 1 : calls[i].pc \notin {"entry", "dec", "bailout"}
    BY <1>a DEF IInv, CallStack
  <2>4. \A i \in 1 .. n - 1 : calls[i].fn = "del_ref" =>
        /\ ref[calls[i].ref].by = "dying" /\ ref[calls[i].ref].handle = calls[i].handle
        /\ slot[calls[i].handle].valid
        /\ calls[i].pc = "freeing" =>
              \A s \in AllRefs : Live(s) /\ ref[s].handle = calls[i].handle => s = calls[i].ref
    BY <1>a, <2>3 DEF IInv, DelRefCalls, Refers, CallStack
  <2>5. \A i \in 1 .. n - 1 : calls[i].fn = "del_ref" =>
        /\ ref'[calls[i].ref].by = "dying" /\ ref'[calls[i].ref].handle = calls[i].handle
        /\ slot'[calls[i].handle].valid
        /\ calls[i].pc = "freeing" =>
              \A s \in AllRefs : Live(s)' /\ ref'[s].handle = calls[i].handle => s = calls[i].ref
    BY <1>c, <1>e, <1>g, <2>1, <2>2, <2>4
  <2> QED
    BY <1>01, <1>a, <2>3, <2>5 DEF DelRefCalls, Refers
<1>5. LoopCalls'
  <2>1. \A i \in 1 .. n - 1 : calls[i].fn = "call_destructors" => ref[LoopRef].by = "loop"
    BY <1>a DEF IInv, LoopCalls
  <2> QED
    BY <1>t, <1>u, <1>01, <1>a, <1>b, <1>c, <1>g, <2>1, RefsApart DEF IInv, LoopCalls, Live
<1>6. RunningDestructors'
  <2>1. \A i \in 1 .. n - 1 : calls[i].handle \in Handles /\ calls[i].handle \in AllRefs
    BY <1>h, RefsApart DEF CallFrame
  <2>2. \A i \in 1 .. n - 1 : calls[i].pc = "in_dtor" =>
           slot[calls[i].handle].destructed /\ ref[calls[i].handle].by = "temp"
    BY <1>a DEF IInv, RunningDestructors
  <2>3. \A i \in 1 .. n - 1 : calls[i].pc = "in_dtor" =>
           slot'[calls[i].handle].destructed /\ ref'[calls[i].handle].by = "temp"
    BY <1>b, <1>c, <1>e, <2>1, <2>2
  <2> QED
    BY <1>01, <1>a, <2>3 DEF RunningDestructors
<1>7. OwnReferences'
  <2>1. \A g \in Handles \ {q} : ref'[g] = ref[g]
    BY <1>c, RefsApart
  <2>2. Live(LoopRef)' => Live(LoopRef) /\ ref'[LoopRef] = ref[LoopRef]
    BY <1>c, <1>g, RefsApart
  <2>3. Len(calls) > 0 /\ calls[1].fn = "call_destructors" => Len(calls') > 0 /\ calls'[1].fn = "call_destructors"
    BY <1>t, <1>u, <1>a
  <2>4. \A g \in Handles : Live(g)' => Live(g) /\ g # q
    BY <1>g, RefsApart
  <2> QED
    BY <1>t, <1>u, <1>e, <2>1, <2>2, <2>3, <2>4 DEF IInv, OwnReferences
<1>8. FreeListExact'
  BY <1>t, <1>u, <1>e, FreeListKept
<1>9. FreeUnreferenced'
  <2>1. \A i \in DOMAIN freeList, s \in AllRefs : Live(s) /\ ref[s].handle = freeList[i] => s = q
    BY <1>t DEF IInv, FreeUnreferenced, Refers
  <2> QED
    BY <1>t, <1>u, <1>c, <1>g, <2>1 DEF FreeUnreferenced, Refers
<1>10. RefsCounted'
  <2>1. \A g \in Handles \ {h} : RefsTo(g)' = RefsTo(g)
    BY <1>f, CountKept
  <2>2. Cardinality(RefsTo(h))' = Cardinality(RefsTo(h)) - 1
    BY <1>b, <1>f, CountRemoved
  <2>3. calls[n].base = base \/ (~slot[h].valid /\ \A s \in AllRefs : Refers(s, h) => s = q)
    BY <1>t, <1>a DEF IInv, DelRefCalls, Refers, Live
  <2>4. slot'[h].valid \/ (\E s \in AllRefs : Refers(s, h)') => slot'[h].refcount = Cardinality(RefsTo(h))'
    BY <1>a, <1>d, <1>e, <1>f, <2>2, <2>3
  <2> QED
    BY <1>e, <1>f, <2>1, <2>4 DEF IInv, RefsCounted
<1>11. CountBounds'
  BY <1>d, <1>e, AllRefsFinite DEF IInv, CountBounds
<1>12. ScriptHolds'
  <2>1. slot[h].valid => slot[h].refcount >= 2
    BY <1>t, <1>a DEF IInv, DelRefCalls
  <2> QED
    BY <1>t, <1>u, <1>d, <1>e, <2>1 DEF IInv, ScriptHolds
<1> QED
  BY <1>1, <1>2, <1>3, <1>4, <1>5, <1>6, <1>7, <1>8, <1>9, <1>10, <1>11, <1>12 DEF IInv

\* What holds when user code runs.
LEMMA WhenUserRuns ==
    ASSUME IInv, UserRuns
    PROVE  /\ phase # "done"
           /\ \A i \in 1 .. Len(calls) : calls[i].pc \in {"in_dtor", "dtor_done", "freeing"}
           /\ \A i \in DOMAIN freeList, r \in AllRefs : ~(Live(r) /\ ref[r].handle = freeList[i])
           /\ \A r \in AllRefs : ref[r].by # "none" => ref[r].handle \in Handles
<1> DEFINE n == Len(calls)
<1>3. \A r \in AllRefs : ref[r].by # "none" => ref[r].handle \in Handles
  BY MaxHandleNat DEF IInv, StoreTypes, UsedHandles, Live, Handles
<1>1. CASE calls = <<>>
  <2>1. n = 0 /\ phase = "script"
    BY <1>1 DEF UserRuns
  <2> QED
    BY <2>1, <1>3 DEF IInv, FreeUnreferenced, Refers
<1>2. CASE calls # <<>>
  <2>1. n \in Nat \ {0} /\ calls[n].pc = "in_dtor" /\ Current = calls[n]
    BY <1>2, StackTop DEF UserRuns, IInv, StoreTypes
  <2>2. \A i \in 1 .. n : i = n \/ i \in 1 .. n - 1
    BY <2>1
  <2> QED
    BY <1>2, <1>3, <2>1, <2>2 DEF IInv, CallStack, FreeUnreferenced, Refers
<1> QED
  BY <1>1, <1>2

\* Handles in use stay so when the table grows.
LEMMA LongerInterval ==
    ASSUME NEW a \in Int, NEW b \in Int, b >= a
    PROVE  \A x \in 1 .. a - 1 : x \in 1 .. b - 1
OBVIOUS

\* zend_objects_store_put takes a bucket that nothing refers to.
LEMMA NewKeeps ==
    ASSUME IInv, UserRuns, NEW h \in Handles, NEW r \in Refs, NEW c \in BOOLEAN,
           ~Live(r), Put(h, r, c),
           ~slot[h].valid, \A s \in AllRefs : ~Refers(s, h),
           size' \in Nat, size' >= top', base' \in Nat,
           top' \in 1 .. MaxHandle + 1, top' >= top, h < top',
           \A g \in 1 .. top' - 1 : g = h \/ g \in 1 .. top - 1,
           freeList' \in Seq(Handles),
           \A i \in DOMAIN freeList' :
              freeList'[i] # h /\ \E j \in DOMAIN freeList : freeList'[i] = freeList[j],
           \A i, j \in DOMAIN freeList' : i # j => freeList'[i] # freeList'[j],
           \A j \in DOMAIN freeList :
              freeList[j] = h \/ \E i \in DOMAIN freeList' : freeList'[i] = freeList[j]
    PROVE  IInv'
<1> DEFINE n == Len(calls)
<1>u. UNCHANGED <<calls, phase, loop>> /\ slot \in [Handles -> Bucket] /\ top \in 1 .. MaxHandle + 1
  BY DEF Put, IInv, StoreTypes
<1>a. /\ n \in Nat /\ phase # "done"
      /\ \A i \in 1 .. n : calls[i].pc \in {"in_dtor", "dtor_done", "freeing"}
      /\ \A i \in DOMAIN freeList, s \in AllRefs : ~(Live(s) /\ ref[s].handle = freeList[i])
  BY WhenUserRuns, LenProperties DEF IInv, StoreTypes
<1>b. /\ slot' \in [Handles -> Bucket]
      /\ \A g \in Handles \ {h} : slot'[g] = slot[g]
      /\ slot'[h].valid /\ slot'[h].refcount = 1
  <2> DEFINE b == [valid |-> TRUE, destructed |-> c, refcount |-> 1]
  <2>1. b \in Bucket /\ b.valid /\ b.refcount = 1
    BY DEF Bucket
  <2>2. slot' = [slot EXCEPT ![h] = b]
    BY DEF Put
  <2> HIDE DEF b
  <2> QED
    BY <1>u, <2>1, <2>2, Update
<1>c. /\ ref' \in [AllRefs -> RefRecord]
      /\ ref'[r].by = "script" /\ ref'[r].handle = h
      /\ \A s \in AllRefs \ {r} : ref'[s] = ref[s]
  <2> DEFINE v == RefTo(h, "script", 0)
  <2>1. v \in RefRecord /\ v.by = "script" /\ v.handle = h
    BY RefToType
  <2>2. r \in AllRefs /\ StoreTypes /\ ref' = [ref EXCEPT ![r] = v]
    BY RefsApart DEF Put, IInv
  <2> HIDE DEF v
  <2> QED
    BY <2>1, <2>2, Given
<1>d. r \in AllRefs /\ r \notin Handles /\ r # LoopRef /\ LoopRef \in AllRefs
  BY RefsApart
<1>e. /\ \A s \in AllRefs \ {r}, g \in Handles : Refers(s, g)' <=> Refers(s, g)
      /\ \A g \in Handles \ {h} : ~Refers(r, g)' /\ ~Refers(r, g)
      /\ Refers(r, h)' /\ ~Refers(r, h)
      /\ \A s \in AllRefs \ {r} : Live(s)' <=> Live(s)
  BY <1>c, <1>d DEF Refers, Live
<1>h. \A i \in 1 .. n :
        /\ calls[i].handle \in Handles /\ calls[i].ref \in AllRefs
        /\ calls[i].fn \in {"del_ref", "call_destructors", "free_object_storage"}
  <2>1. \A i \in 1 .. n : calls[i] \in CallFrame
    BY <1>a, ElementOfSeq DEF IInv, StoreTypes
  <2> QED
    BY <2>1 DEF CallFrame
<1>i. \A i \in 1 .. n : calls[i].fn = "del_ref" =>
        /\ ref[calls[i].ref].by = "dying" /\ ref[calls[i].ref].handle = calls[i].handle
        /\ slot[calls[i].handle].valid
        /\ calls[i].handle # h /\ calls[i].ref # r
        /\ calls[i].pc = "freeing" =>
              \A s \in AllRefs : Live(s) /\ ref[s].handle = calls[i].handle => s = calls[i].ref
  BY <1>a, <1>h DEF IInv, DelRefCalls, Refers, Live
<1>1. StoreTypes'
  BY <1>u, <1>b, <1>c DEF IInv, StoreTypes
<1>2. UsedHandles'
  <2>1. \A g \in Handles : slot'[g].valid => g < top'
    BY <1>u, <1>b DEF IInv, UsedHandles, Handles
  <2>2. \A s \in AllRefs \ {r} : Live(s)' => ref'[s].handle \in 1 .. top' - 1
    <3>1. \A s \in AllRefs \ {r} : Live(s)' => ref'[s].handle \in 1 .. top - 1
      BY <1>c DEF IInv, UsedHandles, Live
    <3>2. top \in Int /\ top' \in Int /\ top' >= top
      BY <1>u, MaxHandleNat
    <3>3. \A x \in 1 .. top - 1 : x \in 1 .. top' - 1
      BY <3>2, LongerInterval, Zenon
    <3> QED
      BY <3>1, <3>3
  <2>3. ref'[r].handle \in 1 .. top' - 1
    BY <1>c, MaxHandleNat DEF Handles
  <2> QED
    BY <2>1, <2>2, <2>3 DEF UsedHandles
<1>3. CallStack'
  BY <1>u DEF IInv, CallStack
<1>4. DelRefCalls'
  <2>1. \A i \in 1 .. n : calls[i].fn = "del_ref" =>
        /\ ref'[calls[i].ref].by = "dying" /\ ref'[calls[i].ref].handle = calls[i].handle
        /\ slot'[calls[i].handle].valid
        /\ calls[i].pc = "freeing" =>
              \A s \in AllRefs : Live(s)' /\ ref'[s].handle = calls[i].handle => s = calls[i].ref
    BY <1>b, <1>c, <1>e, <1>h, <1>i
  <2> QED
    BY <1>u, <1>a, <2>1 DEF DelRefCalls, Refers
<1>5. LoopCalls'
  <2>1. loop < top => loop < top'
    BY <1>u, MaxHandleNat DEF IInv, StoreTypes
  <2> QED
    BY <1>u, <1>c, <1>d, <2>1 DEF IInv, LoopCalls
<1>6. RunningDestructors'
  <2>1. \A i \in 1 .. n : calls[i].pc = "in_dtor" => calls[i].handle # h
    <3>1. \A i \in 1 .. n : calls[i].pc = "in_dtor" /\ calls[i].fn # "del_ref"
             => Refers(LoopRef, calls[i].handle)
      BY <1>h DEF IInv, LoopCalls, Refers, Live
    <3> QED
      BY <1>i, <3>1, <1>d
  <2>2. \A i \in 1 .. n : calls[i].handle \in AllRefs \ {r}
    BY <1>h, <1>d, RefsApart
  <2> QED
    BY <1>u, <1>b, <1>c, <1>h, <2>1, <2>2 DEF IInv, RunningDestructors
<1>7. OwnReferences'
  <2>1. \A g \in Handles : ref'[g] = ref[g] /\ (Live(g)' <=> Live(g)) /\ (Live(g) => g # h)
    BY <1>c, <1>d, <1>e, RefsApart DEF IInv, OwnReferences, Refers
  <2>2. ref'[LoopRef] = ref[LoopRef] /\ (Live(LoopRef)' <=> Live(LoopRef))
    BY <1>c, <1>d, <1>e
  <2> QED
    BY <1>u, <1>b, <2>1, <2>2 DEF IInv, OwnReferences
<1>8. FreeListExact'
  <2>1. \A i \in DOMAIN freeList : freeList[i] \in Handles
    BY ElementOfSeq, LenProperties DEF IInv, StoreTypes
  <2>2. \A i \in DOMAIN freeList' : freeList'[i] < top' /\ ~slot'[freeList'[i]].valid
    <3> SUFFICES ASSUME NEW i \in DOMAIN freeList'
                 PROVE  freeList'[i] < top' /\ ~slot'[freeList'[i]].valid
      OBVIOUS
    <3>1. PICK j \in DOMAIN freeList : freeList'[i] = freeList[j]
      OBVIOUS
    <3>2. freeList[j] < top /\ ~slot[freeList[j]].valid /\ freeList[j] \in Handles \ {h}
      BY <2>1, <3>1 DEF IInv, FreeListExact
    <3>3. freeList[j] < top'
      BY <1>u, <3>2 DEF Handles
    <3> QED
      BY <1>b, <3>1, <3>2, <3>3
  <2>3. ASSUME phase' \notin {"storage", "done"}, NEW g \in 1 .. top' - 1, ~slot'[g].valid
        PROVE  \E i \in DOMAIN freeList' : freeList'[i] = g
    <3>1. g \in 1 .. top - 1 /\ g \in Handles /\ g # h
      <4>1. g # h /\ g \in 1 .. top - 1
        BY <1>b, <2>3
      <4> QED
        BY <1>u, <4>1, MaxHandleNat DEF Handles
    <3>2. PICK j \in DOMAIN freeList : freeList[j] = g
      BY <1>u, <1>b, <2>3, <3>1 DEF IInv, FreeListExact
    <3> QED
      BY <3>1, <3>2
  <2> QED
    BY <2>2, <2>3 DEF FreeListExact
<1>9. FreeUnreferenced'
  <2>1. \A i \in DOMAIN freeList', s \in AllRefs : ~(Live(s)' /\ ref'[s].handle = freeList'[i])
    BY <1>a, <1>c, <1>e
  <2> QED
    BY <2>1 DEF FreeUnreferenced, Refers
<1>10. RefsCounted' /\ CountBounds'
  <2>1. \A g \in Handles \ {h} : RefsTo(g)' = RefsTo(g)
    BY <1>d, <1>e, CountKept
  <2>2. Cardinality(RefsTo(h))' = Cardinality(RefsTo(h)) + 1
    BY <1>d, <1>e, CountAdded
  <2>3. Cardinality(RefsTo(h)) = 0
    BY CountOf
  <2>4. slot'[h].refcount = Cardinality(RefsTo(h))'
    BY <1>b, <2>2, <2>3
  <2>5. Cardinality(RefsTo(h))' \in 0 .. Cardinality(AllRefs)
    BY CountOfNext
  <2>6. RefsCounted'
    BY <1>b, <1>d, <1>e, <2>1, <2>4 DEF IInv, RefsCounted
  <2> QED
    BY <1>b, <2>4, <2>5, <2>6 DEF IInv, CountBounds
<1>11. ScriptHolds'
  BY <1>u, <1>b DEF IInv, ScriptHolds
<1> QED
  BY <1>1, <1>2, <1>3, <1>4, <1>5, <1>6, <1>7, <1>8, <1>9, <1>10, <1>11 DEF IInv

\* A reference that user code can read is copied, and counted.
LEMMA AddRefKeeps ==
    ASSUME IInv, UserRuns, NEW h \in Handles, NEW r \in AllRefs, NEW s \in Refs, NEW v \in RefRecord,
           Refers(r, h), ref[r].by # "dying", slot[h].valid, ~Live(s),
           v.handle = h, v.by # "none",
           ref' = [ref EXCEPT ![s] = v],
           slot' = [slot EXCEPT ![h].refcount = @ + 1],
           UNCHANGED <<top, size, base, freeList, calls, phase, loop>>
    PROVE  IInv'
<1> DEFINE n == Len(calls)
<1>a. /\ n \in Nat /\ phase # "done"
      /\ \A i \in 1 .. n : calls[i].pc \in {"in_dtor", "dtor_done", "freeing"}
      /\ \A i \in DOMAIN freeList, q \in AllRefs : ~(Live(q) /\ ref[q].handle = freeList[i])
  BY WhenUserRuns, LenProperties DEF IInv, StoreTypes
<1>b. /\ slot' \in [Handles -> Bucket]
      /\ \A g \in Handles : /\ slot'[g].valid = slot[g].valid
                            /\ slot'[g].destructed = slot[g].destructed
                            /\ g # h => slot'[g].refcount = slot[g].refcount
      /\ slot'[h].refcount = slot[h].refcount + 1
  BY CountedUp DEF IInv
<1>c. /\ ref' \in [AllRefs -> RefRecord]
      /\ ref'[s] = v
      /\ \A q \in AllRefs \ {s} : ref'[q] = ref[q]
  BY RefsApart, Given DEF IInv
<1>d. s \in AllRefs /\ s \notin Handles /\ s # LoopRef /\ LoopRef \in AllRefs
  BY RefsApart
<1>e. /\ \A q \in AllRefs \ {s}, g \in Handles : Refers(q, g)' <=> Refers(q, g)
      /\ \A g \in Handles \ {h} : ~Refers(s, g)' /\ ~Refers(s, g)
      /\ Refers(s, h)' /\ ~Refers(s, h)
      /\ \A q \in AllRefs \ {s} : Live(q)' <=> Live(q)
  BY <1>c, <1>d DEF Refers, Live
<1>h. \A i \in 1 .. n :
        /\ calls[i].handle \in Handles /\ calls[i].ref \in AllRefs
  <2>1. \A i \in 1 .. n : calls[i] \in CallFrame
    BY <1>a, ElementOfSeq DEF IInv, StoreTypes
  <2> QED
    BY <2>1 DEF CallFrame
<1>i. \A i \in 1 .. n : calls[i].fn = "del_ref" =>
        /\ ref[calls[i].ref].by = "dying" /\ ref[calls[i].ref].handle = calls[i].handle
        /\ slot[calls[i].handle].valid
        /\ calls[i].ref # s
        /\ calls[i].pc = "freeing" =>
              /\ calls[i].handle # h
              /\ \A q \in AllRefs : Live(q) /\ ref[q].handle = calls[i].handle => q = calls[i].ref
  BY <1>a, <1>h DEF IInv, DelRefCalls, Refers, Live
<1>1. StoreTypes'
  BY <1>b, <1>c DEF IInv, StoreTypes
<1>2. UsedHandles'
  <2>1. \A g \in Handles : slot'[g].valid => g < top'
    BY <1>b DEF IInv, UsedHandles
  <2>2. \A q \in AllRefs \ {s} : Live(q)' => ref'[q].handle \in 1 .. top' - 1
    BY <1>c, <1>e DEF IInv, UsedHandles
  <2>3. ref'[s].handle \in 1 .. top' - 1
    BY <1>c DEF Refers, IInv, UsedHandles
  <2> QED
    BY <2>1, <2>2, <2>3 DEF UsedHandles
<1>3. CallStack'
  BY DEF IInv, CallStack
<1>4. DelRefCalls'
  <2>1. \A i \in 1 .. n : calls[i].fn = "del_ref" =>
        /\ ref'[calls[i].ref].by = "dying" /\ ref'[calls[i].ref].handle = calls[i].handle
        /\ slot'[calls[i].handle].valid
        /\ calls[i].pc = "freeing" =>
              \A q \in AllRefs : Live(q)' /\ ref'[q].handle = calls[i].handle => q = calls[i].ref
    BY <1>b, <1>c, <1>e, <1>h, <1>i
  <2> QED
    BY <1>a, <2>1 DEF DelRefCalls, Refers
<1>5. LoopCalls'
  BY <1>c, <1>d DEF IInv, LoopCalls
<1>6. RunningDestructors'
  <2>2. \A i \in 1 .. n : calls[i].handle \in AllRefs \ {s}
    BY <1>h, <1>d, RefsApart
  <2> QED
    BY <1>b, <1>c, <1>h, <2>2 DEF IInv, RunningDestructors
<1>7. OwnReferences'
  <2>1. \A g \in Handles : ref'[g] = ref[g] /\ (Live(g)' <=> Live(g))
    BY <1>c, <1>d, <1>e, RefsApart
  <2>2. ref'[LoopRef] = ref[LoopRef] /\ (Live(LoopRef)' <=> Live(LoopRef))
    BY <1>c, <1>d, <1>e
  <2> QED
    BY <1>b, <2>1, <2>2 DEF IInv, OwnReferences
<1>8. FreeListExact'
  BY <1>b, FreeListKept
<1>9. FreeUnreferenced'
  <2>1. \A i \in DOMAIN freeList : freeList[i] # h
    BY <1>a DEF Refers
  <2>2. \A i \in DOMAIN freeList, q \in AllRefs : ~(Live(q)' /\ ref'[q].handle = freeList[i])
    BY <1>a, <1>c, <1>e, <2>1
  <2> QED
    BY <2>2 DEF FreeUnreferenced, Refers
<1>10. RefsCounted' /\ CountBounds'
  <2>1. \A g \in Handles \ {h} : RefsTo(g)' = RefsTo(g)
    BY <1>d, <1>e, CountKept
  <2>2. Cardinality(RefsTo(h))' = Cardinality(RefsTo(h)) + 1
    BY <1>d, <1>e, CountAdded
  <2>3. slot[h].refcount = Cardinality(RefsTo(h))
    BY DEF IInv, RefsCounted
  <2>4. slot'[h].refcount = Cardinality(RefsTo(h))'
    BY <1>b, <2>2, <2>3
  <2>5. Cardinality(RefsTo(h))' \in 0 .. Cardinality(AllRefs)
    BY CountOfNext
  <2>6. RefsCounted'
    BY <1>b, <1>d, <1>e, <2>1, <2>4 DEF IInv, RefsCounted
  <2> QED
    BY <1>b, <2>4, <2>5, <2>6 DEF IInv, CountBounds
<1>11. ScriptHolds'
  BY <1>b DEF IInv, ScriptHolds, CountBounds
<1> QED
  BY <1>1, <1>2, <1>3, <1>4, <1>5, <1>6, <1>7, <1>8, <1>9, <1>10, <1>11 DEF IInv

\* Between two calls the request moves on, never back to an earlier step.
LEMMA QuietKeeps ==
    ASSUME IInv, calls = <<>>,
           UNCHANGED <<store, ref, calls>>,
           phase' \in Phases, loop' \in 1 .. MaxHandle + 1,
           phase' = "script" => phase = "script",
           phase' \in {"script", "symbols", "destructors"} => phase \in {"script", "symbols", "destructors"},
           phase \in {"storage", "done"} => phase' \in {"storage", "done"}
    PROVE  IInv'
<1>1. /\ UNCHANGED <<slot, top, size, base, freeList>>
      /\ Len(calls) = 0 /\ Len(calls') = 0 /\ calls' = <<>>
  BY DEF store
<1>2. StoreTypes' /\ UsedHandles' /\ CallStack' /\ DelRefCalls' /\ LoopCalls' /\ RunningDestructors'
  BY <1>1 DEF IInv, StoreTypes, UsedHandles, CallStack, DelRefCalls, LoopCalls,
              RunningDestructors, Live
<1>3. OwnReferences'
  BY <1>1 DEF IInv, OwnReferences, Live
<1>4. FreeListExact'
  BY <1>1, FreeListKept
<1>5. FreeUnreferenced'
  BY <1>1 DEF IInv, FreeUnreferenced, Refers, Live
<1>6. RefsCounted' /\ CountBounds' /\ ScriptHolds'
  BY <1>1 DEF IInv, RefsCounted, CountBounds, ScriptHolds, RefsTo, Refers, Live
<1> QED
  BY <1>2, <1>3, <1>4, <1>5, <1>6 DEF IInv

\* zend_objects_store_free_object_storage gives up a bucket.
LEMMA LoopFreesStorageKeeps == ASSUME IInv, LoopFreesStorage PROVE IInv'
<1> DEFINE f == Frame("free_object_storage", loop, LoopRef, "freeing")
<1>0. /\ phase = "storage" /\ calls = <<>> /\ loop < top /\ slot[loop].valid
      /\ slot' = [slot EXCEPT ![loop].valid = FALSE]
      /\ calls' = Enter(calls, f)
      /\ UNCHANGED <<top, size, base, freeList, ref, phase, loop>>
  BY DEF LoopFreesStorage
<1>1. loop \in Handles
  BY <1>0, MaxHandleNat DEF IInv, StoreTypes, Handles
<1>2. /\ f \in CallFrame /\ f.fn = "free_object_storage" /\ f.pc = "freeing" /\ f.handle = loop
  BY <1>1, RefsApart DEF Frame, CallFrame, IInv, StoreTypes
<1> HIDE DEF f
<1>a. calls' \in Seq(CallFrame) /\ Len(calls') = 1 /\ calls'[1] = f /\ Len(calls) = 0
  BY <1>0, <1>2, StackOperators DEF IInv, StoreTypes
<1>b. /\ slot' \in [Handles -> Bucket]
      /\ \A g \in Handles : /\ slot'[g].valid <=> slot[g].valid /\ g # loop
                            /\ slot'[g].destructed = slot[g].destructed
                            /\ slot'[g].refcount = slot[g].refcount
  <2>1. PICK h \in Handles : h = loop
    BY <1>1
  <2>2. slot' = [slot EXCEPT ![h].valid = FALSE]
    BY <1>0, <2>1
  <2> QED
    BY <2>1, <2>2, Invalidated DEF IInv
<1>3. StoreTypes' /\ UsedHandles'
  BY <1>0, <1>a, <1>b DEF IInv, StoreTypes, UsedHandles, Live
<1>4. CallStack' /\ DelRefCalls' /\ LoopCalls' /\ RunningDestructors'
  BY <1>0, <1>2, <1>a DEF CallStack, DelRefCalls, LoopCalls, RunningDestructors
<1>5. OwnReferences'
  BY <1>0, <1>b DEF IInv, OwnReferences, Live
<1>6. FreeListExact'
  <2>1. \A i \in DOMAIN freeList : freeList[i] \in Handles
    BY ElementOfSeq, LenProperties DEF IInv, StoreTypes
  <2> QED
    BY <1>0, <1>b, <2>1 DEF IInv, FreeListExact
<1>7. FreeUnreferenced'
  BY <1>0, <1>a DEF IInv, FreeUnreferenced, Refers, Live
<1>8. RefsCounted' /\ CountBounds' /\ ScriptHolds'
  BY <1>0, <1>b DEF IInv, RefsCounted, CountBounds, ScriptHolds, RefsTo, Refers, Live
<1> QED
  BY <1>3, <1>4, <1>5, <1>6, <1>7, <1>8 DEF IInv

\* Its call ends when the properties are gone.
LEMMA LoopStorageFreedKeeps == ASSUME IInv, LoopStorageFreed PROVE IInv'
<1> DEFINE n == Len(calls)
<1>0. /\ calls # <<>> /\ Current.fn = "free_object_storage"
      /\ calls' = Below /\ loop' = loop + 1
      /\ UNCHANGED <<slot, top, size, base, freeList, ref, phase>>
  BY DEF LoopStorageFreed, At, store
<1>1. n \in Nat \ {0} /\ Current = calls[n]
  BY <1>0, StackTop DEF IInv, StoreTypes
<1>2. n = 1 /\ phase = "storage" /\ loop < top
  <2>0. n \in 1 .. n /\ calls[n].fn # "del_ref"
    BY <1>0, <1>1
  <2>1. n = 1
    BY <2>0 DEF IInv, CallStack
  <2> QED
    BY <1>0, <1>1, <2>1 DEF IInv, LoopCalls
<1>3. calls' \in Seq(CallFrame) /\ Len(calls') = 0 /\ calls' = <<>>
  <2>1. 0 \in 0 .. n
    BY <1>1
  <2>2. Below = SubSeq(calls, 1, 0)
    BY <1>2 DEF Below
  <2>3. SubSeq(calls, 1, 0) = <<>>
    BY SubSeqEmpty
  <2> QED
    BY <1>0, <2>2, <2>3
<1>4. loop' \in 1 .. MaxHandle + 1
  BY <1>0, <1>2, MaxHandleNat DEF IInv, StoreTypes
<1>5. StoreTypes' /\ UsedHandles'
  BY <1>0, <1>3, <1>4 DEF IInv, StoreTypes, UsedHandles, Live
<1>6. CallStack' /\ DelRefCalls' /\ LoopCalls' /\ RunningDestructors'
  BY <1>0, <1>2, <1>3 DEF CallStack, DelRefCalls, LoopCalls, RunningDestructors
<1>7. OwnReferences'
  BY <1>0, <1>2 DEF IInv, OwnReferences, Live
<1>8. FreeListExact'
  BY <1>0, FreeListKept
<1>9. FreeUnreferenced'
  BY <1>0, <1>1, <1>2 DEF IInv, FreeUnreferenced, Refers, Live
<1>10. RefsCounted' /\ CountBounds' /\ ScriptHolds'
  BY <1>0 DEF IInv, RefsCounted, CountBounds, ScriptHolds, RefsTo, Refers, Live
<1> QED
  BY <1>5, <1>6, <1>7, <1>8, <1>9, <1>10 DEF IInv

\* zend_objects_store_call_destructors calls a destructor with a count of its own.
LEMMA LoopCallsDestructorKeeps ==
    ASSUME IInv, NEW h \in Handles, h = loop, LoopCallsDestructor
    PROVE  IInv'
<1> DEFINE f == Frame("call_destructors", h, LoopRef, "in_dtor")
<1>0. /\ phase = "destructors" /\ calls = <<>> /\ h < top
      /\ slot[h].valid /\ ~slot[h].destructed
      /\ CallDestructor(h, {LoopRef})
      /\ calls' = Enter(calls, f)
  BY DEF LoopCallsDestructor
<1>u. UNCHANGED <<top, size, base, freeList, phase, loop>> /\ phase = "destructors"
  BY DEF LoopCallsDestructor
<1>1. /\ f \in CallFrame /\ f.fn = "call_destructors" /\ f.pc = "in_dtor" /\ f.handle = h
  BY RefsApart DEF Frame, CallFrame, IInv, StoreTypes
<1> HIDE DEF f
<1>a. calls' \in Seq(CallFrame) /\ Len(calls') = 1 /\ calls'[1] = f /\ Len(calls) = 0
  BY <1>0, <1>1, StackOperators DEF IInv, StoreTypes
<1>b. /\ slot' \in [Handles -> Bucket]
      /\ \A g \in Handles \ {h} : slot'[g] = slot[g]
      /\ slot'[h].valid /\ slot'[h].destructed /\ slot'[h].refcount = slot[h].refcount + 2
  <2> DEFINE k == slot[h].refcount + 1 + Cardinality({LoopRef})
             b == [[slot[h] EXCEPT !.destructed = TRUE] EXCEPT !.refcount = k]
  <2>1. slot' = [slot EXCEPT ![h] = b]
    BY <1>0 DEF CallDestructor, IInv, StoreTypes, Bucket
  <2>2. slot[h] \in Bucket
    BY DEF IInv, StoreTypes
  <2>3. Cardinality({LoopRef}) = 1
    BY FS_Singleton
  <2>4. k = slot[h].refcount + 2 /\ k \in Int
    BY <2>2, <2>3 DEF Bucket
  <2> HIDE DEF k
  <2>5. b \in Bucket /\ b.valid = slot[h].valid /\ b.destructed /\ b.refcount = k
    BY <2>2, <2>4, DestructedBucket, Zenon
  <2> HIDE DEF b
  <2> QED
    <3>1. /\ slot' \in [Handles -> Bucket]
          /\ \A g \in Handles : slot'[g] = IF g = h THEN b ELSE slot[g]
      BY <2>1, <2>5, Update DEF IInv, StoreTypes
    <3> QED
      BY <1>0, <2>4, <2>5, <3>1
<1>c. /\ ref' \in [AllRefs -> RefRecord]
      /\ \A s \in AllRefs \ {h, LoopRef} : ref'[s] = ref[s]
      /\ ref'[h].by = "temp" /\ ref'[h].handle = h
      /\ ref'[LoopRef].by = "loop" /\ ref'[LoopRef].handle = h
  BY <1>0, RefToType, RefsApart DEF CallDestructor, IInv, StoreTypes
<1>d. h \in AllRefs /\ LoopRef \in AllRefs /\ h # LoopRef /\ ~Live(h) /\ ~Live(LoopRef)
  BY <1>0, <1>a, RefsApart DEF IInv, OwnReferences
<1>e. /\ \A s \in AllRefs \ {h, LoopRef}, g \in Handles : Refers(s, g)' <=> Refers(s, g)
      /\ \A g \in Handles \ {h}, s \in {h, LoopRef} : ~Refers(s, g)' /\ ~Refers(s, g)
      /\ \A s \in {h, LoopRef} : Refers(s, h)' /\ ~Refers(s, h)
      /\ \A s \in AllRefs \ {h, LoopRef} : Live(s)' <=> Live(s)
  BY <1>c, <1>d DEF Refers, Live
<1>2. StoreTypes'
  BY <1>u, <1>a, <1>b, <1>c DEF IInv, StoreTypes
<1>3. UsedHandles'
  <2>1. h \in 1 .. top - 1
    BY <1>0 DEF IInv, UsedHandles, StoreTypes, Handles
  <2>2. \A g \in Handles : slot'[g].valid => g < top
    BY <1>0, <1>b DEF IInv, UsedHandles
  <2>3. \A s \in AllRefs : Live(s)' => ref'[s].handle \in 1 .. top - 1
    BY <1>c, <1>e, <2>1 DEF IInv, UsedHandles
  <2> QED
    BY <1>u, <2>2, <2>3 DEF UsedHandles
<1>4. CallStack' /\ DelRefCalls' /\ LoopCalls'
  BY <1>0, <1>u, <1>1, <1>a, <1>c DEF CallStack, DelRefCalls, LoopCalls
<1>5. RunningDestructors'
  BY <1>1, <1>a, <1>b, <1>c DEF RunningDestructors
<1>6. OwnReferences'
  <2>1. \A g \in Handles \ {h} : ref'[g] = ref[g] /\ slot'[g] = slot[g] /\ (Live(g)' <=> Live(g))
    BY <1>b, <1>c, <1>e, RefsApart
  <2> QED
    BY <1>1, <1>a, <1>b, <1>c, <2>1 DEF IInv, OwnReferences
<1>7. FreeListExact'
  <2>1. \A g \in Handles : slot'[g].valid <=> slot[g].valid
    BY <1>0, <1>b
  <2> QED
    BY <1>u, <2>1, FreeListKept
<1>8. FreeUnreferenced'
  <2>1. \A i \in DOMAIN freeList : freeList[i] \in Handles \ {h}
    <3>1. \A i \in DOMAIN freeList : freeList[i] \in Handles
      BY ElementOfSeq, LenProperties DEF IInv, StoreTypes
    <3>2. \A i \in DOMAIN freeList : freeList[i] # h
      BY <1>0 DEF IInv, FreeListExact
    <3> QED
      BY <3>1, <3>2
  <2>2. \A i \in DOMAIN freeList, s \in AllRefs : ~(Live(s) /\ ref[s].handle = freeList[i])
    BY <1>a DEF IInv, FreeUnreferenced, Refers
  <2>3. \A i \in DOMAIN freeList, s \in AllRefs : ~(Live(s)' /\ ref'[s].handle = freeList[i])
    BY <1>c, <1>e, <2>1, <2>2
  <2> QED
    BY <1>u, <2>3 DEF FreeUnreferenced, Refers
<1>9. RefsCounted' /\ CountBounds'
  <2>1. \A g \in Handles \ {h} : RefsTo(g)' = RefsTo(g)
    BY <1>d, <1>e, CountKept
  <2>2. Cardinality(RefsTo(h))' = Cardinality(RefsTo(h)) + 2
    BY <1>d, <1>e, CountAddedTwo
  <2>3. slot[h].refcount = Cardinality(RefsTo(h))
    BY <1>0 DEF IInv, RefsCounted
  <2>4. slot'[h].refcount = Cardinality(RefsTo(h))'
    BY <1>b, <2>2, <2>3
  <2>5. Cardinality(RefsTo(h))' \in 0 .. Cardinality(AllRefs)
    BY CountOfNext
  <2>6. RefsCounted'
    BY <1>b, <1>d, <1>e, <2>1, <2>4 DEF IInv, RefsCounted
  <2> QED
    BY <1>b, <2>4, <2>5, <2>6 DEF IInv, CountBounds
<1>10. ScriptHolds'
  BY <1>u DEF ScriptHolds
<1> QED
  BY <1>2, <1>3, <1>4, <1>5, <1>6, <1>7, <1>8, <1>9, <1>10 DEF IInv

\* It gives its count back.
LEMMA LoopDestructorDoneKeeps ==
    ASSUME IInv, NEW h \in Handles, h = loop, LoopDestructorDone
    PROVE  IInv'
<1> DEFINE n == Len(calls)
<1>0. /\ calls # <<>> /\ Current.fn = "call_destructors"
      /\ slot' = [slot EXCEPT ![h].refcount = @ - 1]
      /\ ref' = [ref EXCEPT ![LoopRef] = NoRef]
      /\ calls' = Below /\ loop' = loop + 1
  BY DEF LoopDestructorDone, At
<1>u. UNCHANGED <<top, size, base, freeList, phase>>
  BY DEF LoopDestructorDone
<1>1. n \in Nat \ {0} /\ Current = calls[n]
  BY <1>0, StackTop DEF IInv, StoreTypes
<1>2. /\ n = 1 /\ calls[1].fn = "call_destructors"
      /\ phase = "destructors" /\ loop < top
      /\ ref[LoopRef].by = "loop" /\ ref[LoopRef].handle = h
  <2>0. n \in 1 .. n /\ calls[n].fn # "del_ref"
    BY <1>0, <1>1
  <2>1. n = 1
    BY <2>0 DEF IInv, CallStack
  <2> QED
    BY <1>0, <1>1, <2>1 DEF IInv, LoopCalls
<1>3. calls' \in Seq(CallFrame) /\ Len(calls') = 0 /\ calls' = <<>>
  <2>1. Below = SubSeq(calls, 1, 0)
    BY <1>2 DEF Below
  <2>2. SubSeq(calls, 1, 0) = <<>>
    BY SubSeqEmpty
  <2> QED
    BY <1>0, <2>1, <2>2
<1>4. loop' \in 1 .. MaxHandle + 1
  BY <1>0, <1>2, MaxHandleNat DEF IInv, StoreTypes
<1>b. /\ slot' \in [Handles -> Bucket]
      /\ \A g \in Handles : /\ slot'[g].valid = slot[g].valid
                            /\ slot'[g].destructed = slot[g].destructed
                            /\ g # h => slot'[g].refcount = slot[g].refcount
      /\ slot'[h].refcount = slot[h].refcount - 1
  BY <1>0, CountedDown DEF IInv
<1>c. /\ ref' \in [AllRefs -> RefRecord]
      /\ ref'[LoopRef].by = "none"
      /\ \A s \in AllRefs \ {LoopRef} : ref'[s] = ref[s]
  BY <1>0, NoRefType, RefsApart, Given DEF IInv
<1>e. /\ LoopRef \in AllRefs /\ Refers(LoopRef, h) /\ ~Refers(LoopRef, h)'
      /\ \A s \in AllRefs \ {LoopRef}, g \in Handles : Refers(s, g)' <=> Refers(s, g)
      /\ \A g \in Handles \ {h} : ~Refers(LoopRef, g)' /\ ~Refers(LoopRef, g)
      /\ \A s \in AllRefs \ {LoopRef} : Live(s)' <=> Live(s)
      /\ ~Live(LoopRef)'
  BY <1>2, <1>c, RefsApart DEF Refers, Live
<1>5. StoreTypes'
  BY <1>u, <1>3, <1>4, <1>b, <1>c DEF IInv, StoreTypes
<1>6. UsedHandles'
  <2>1. \A g \in Handles : slot'[g].valid => g < top
    BY <1>b DEF IInv, UsedHandles
  <2>2. \A s \in AllRefs : Live(s)' => ref'[s].handle \in 1 .. top - 1
    BY <1>c, <1>e DEF IInv, UsedHandles
  <2> QED
    BY <1>u, <2>1, <2>2 DEF UsedHandles
<1>7. CallStack' /\ DelRefCalls' /\ LoopCalls' /\ RunningDestructors'
  BY <1>u, <1>2, <1>3 DEF CallStack, DelRefCalls, LoopCalls, RunningDestructors
<1>8. OwnReferences'
  <2>1. \A g \in Handles : ref'[g] = ref[g] /\ (Live(g)' <=> Live(g))
    BY <1>c, <1>e, RefsApart
  <2> QED
    BY <1>b, <1>e, <2>1 DEF IInv, OwnReferences
<1>9. FreeListExact'
  BY <1>u, <1>b, FreeListKept
<1>10. FreeUnreferenced'
  <2>1. \A i \in DOMAIN freeList, s \in AllRefs : ~(Live(s) /\ ref[s].handle = freeList[i])
    BY <1>2 DEF IInv, FreeUnreferenced, Refers
  <2>2. \A i \in DOMAIN freeList, s \in AllRefs : ~(Live(s)' /\ ref'[s].handle = freeList[i])
    BY <1>c, <1>e, <2>1
  <2> QED
    BY <1>u, <2>2 DEF FreeUnreferenced, Refers
<1>11. RefsCounted' /\ CountBounds'
  <2>1. \A g \in Handles \ {h} : RefsTo(g)' = RefsTo(g)
    BY <1>e, CountKept
  <2>2. Cardinality(RefsTo(h))' = Cardinality(RefsTo(h)) - 1
    BY <1>e, CountRemoved
  <2>3. slot[h].refcount = Cardinality(RefsTo(h))
    BY <1>e DEF IInv, RefsCounted
  <2>4. slot'[h].refcount = Cardinality(RefsTo(h))'
    BY <1>b, <2>2, <2>3
  <2>5. Cardinality(RefsTo(h))' \in 0 .. Cardinality(AllRefs)
    BY CountOfNext
  <2>6. RefsCounted'
    BY <1>b, <1>e, <2>1, <2>4 DEF IInv, RefsCounted
  <2> QED
    BY <1>b, <2>4, <2>5, <2>6 DEF IInv, CountBounds
<1>12. ScriptHolds'
  BY <1>u, <1>2 DEF ScriptHolds
<1> QED
  BY <1>5, <1>6, <1>7, <1>8, <1>9, <1>10, <1>11, <1>12 DEF IInv

-----------------------------------------------------------------------------
(* Bailout *)

\* Abandoned references still lead to their objects, and are live.
LEMMA Abandoned ==
    ASSUME StoreTypes, NEW lost \in SUBSET AllRefs, ref' = Abandon(lost)
    PROVE  /\ ref' \in [AllRefs -> RefRecord]
           /\ \A s \in AllRefs : /\ ref'[s].handle = ref[s].handle
                                 /\ ref'[s].by = IF s \in lost THEN "leaked" ELSE ref[s].by
<1>1. \A s \in AllRefs : ref[s] \in RefRecord
  BY DEF StoreTypes
<1>2. \A v \in RefRecord : /\ [v EXCEPT !.by = "leaked"] \in RefRecord
                           /\ [v EXCEPT !.by = "leaked"].by = "leaked"
                           /\ [v EXCEPT !.by = "leaked"].handle = v.handle
  BY DEF RefRecord
<1> QED
  BY <1>1, <1>2 DEF Abandon

\* A bailout that zend_objects_store_del_ref_by_handle_ex catches in its call m.
LEMMA CaughtKeeps ==
    ASSUME IInv, NEW m \in 1 .. Len(calls), calls[m].fn = "del_ref",
           \A i \in 1 .. m : calls[i].pc \in {"in_dtor", "dtor_done", "freeing"},
           calls' \in Seq(CallFrame), Len(calls') = m,
           \A i \in 1 .. m - 1 : calls'[i] = calls[i],
           calls'[m].fn = "del_ref", calls'[m].handle = calls[m].handle, calls'[m].ref = calls[m].ref,
           calls'[m].pc = IF calls[m].pc = "in_dtor" THEN "dtor_done" ELSE calls[m].pc,
           slot' \in [Handles -> Bucket],
           \A g \in Handles : /\ slot'[g].valid = slot[g].valid
                              /\ slot'[g].refcount = slot[g].refcount
                              /\ slot[g].destructed => slot'[g].destructed,
           ref' \in [AllRefs -> RefRecord],
           \A s \in AllRefs :
              /\ ref'[s].handle = ref[s].handle
              /\ \/ ref'[s].by = ref[s].by
                 \/ /\ ref'[s].by = "leaked"
                    /\ \/ ref[s].by = "property"
                       \/ ref[s].by = "temp" /\ calls[m].pc = "in_dtor" /\ s = calls[m].handle,
           \A i \in DOMAIN freeList, s \in AllRefs : ~(Live(s) /\ ref[s].handle = freeList[i]),
           UNCHANGED <<top, size, base, freeList, phase, loop>>
    PROVE  IInv'
<1>a. m \in Nat \ {0} /\ Len(calls) \in Nat /\ \A i \in 1 .. m : i \in 1 .. Len(calls)
  BY LenProperties DEF IInv, StoreTypes
<1>b. /\ \A s \in AllRefs : Live(s)' <=> Live(s)
      /\ \A s \in AllRefs, g \in Handles : Refers(s, g)' <=> Refers(s, g)
  BY DEF Refers, Live
<1>h. \A i \in 1 .. m : calls[i].handle \in Handles /\ calls[i].ref \in AllRefs
  <2>1. \A i \in 1 .. m : calls[i] \in CallFrame
    BY <1>a, ElementOfSeq DEF IInv, StoreTypes
  <2> QED
    BY <2>1 DEF CallFrame
<1>i. \A i \in 1 .. m : calls[i].fn = "del_ref" =>
        /\ ref[calls[i].ref].by = "dying" /\ ref[calls[i].ref].handle = calls[i].handle
        /\ slot[calls[i].handle].valid
        /\ calls[i].pc = "freeing" =>
              \A s \in AllRefs : Live(s) /\ ref[s].handle = calls[i].handle => s = calls[i].ref
  BY <1>a DEF IInv, DelRefCalls, Refers
<1>j. \A i \in 1 .. m :
        /\ calls'[i].fn = calls[i].fn /\ calls'[i].handle = calls[i].handle
        /\ calls'[i].ref = calls[i].ref
        /\ calls'[i].pc = calls[i].pc \/ (calls'[i].pc = "dtor_done" /\ i = m)
        /\ calls'[i].pc = "in_dtor" => i # m
  BY <1>a
<1>1. StoreTypes'
  BY DEF IInv, StoreTypes
<1>2. UsedHandles'
  BY <1>b DEF IInv, UsedHandles
<1>3. CallStack'
  <2>1. phase # "done"
    BY <1>a DEF IInv, CallStack
  <2>2. \A i \in 1 .. m : calls'[i].fn # "del_ref" => i = 1
    BY <1>a, <1>j DEF IInv, CallStack
  <2>3. \A i \in 1 .. m - 1 : calls'[i].pc \in {"in_dtor", "dtor_done", "freeing"}
    BY <1>a
  <2>4. \A i, j \in 1 .. m :
          i # j /\ calls'[i].fn = "del_ref" /\ calls'[j].fn = "del_ref" => calls'[i].ref # calls'[j].ref
    BY <1>a, <1>j DEF IInv, CallStack
  <2>5. \A i, j \in 1 .. m :
          i # j /\ calls'[i].pc = "in_dtor" /\ calls'[j].pc = "in_dtor" => calls'[i].handle # calls'[j].handle
    BY <1>a, <1>j DEF IInv, CallStack
  <2> QED
    BY <2>1, <2>2, <2>3, <2>4, <2>5 DEF CallStack
<1>4. DelRefCalls'
  <2>1. \A i \in 1 .. m : calls[i].fn = "del_ref" =>
        /\ ref'[calls[i].ref].by = "dying" /\ ref'[calls[i].ref].handle = calls[i].handle
        /\ slot'[calls[i].handle].valid
        /\ calls[i].pc = "freeing" =>
              \A s \in AllRefs : Live(s)' /\ ref'[s].handle = calls[i].handle => s = calls[i].ref
    BY <1>b, <1>h, <1>i
  <2> QED
    BY <1>j, <2>1 DEF DelRefCalls, Refers
<1>5. LoopCalls'
  <2>1. \A i \in 1 .. m : calls[i].fn = "call_destructors" => ref[LoopRef].by = "loop"
    BY <1>a DEF IInv, LoopCalls
  <2>2. ref[LoopRef].by = "loop" => ref'[LoopRef].by = "loop" /\ ref'[LoopRef].handle = ref[LoopRef].handle
    BY RefsApart
  <2>3. \A i \in 1 .. m : calls'[i].fn # "del_ref" => i # m /\ calls'[i].pc = calls[i].pc
    BY <1>j
  <2> QED
    BY <1>a, <1>j, <2>1, <2>2, <2>3 DEF IInv, LoopCalls
<1>6. RunningDestructors'
  <2>1. ASSUME NEW i \in 1 .. m, calls'[i].pc = "in_dtor"
        PROVE  slot'[calls[i].handle].destructed /\ ref'[calls[i].handle].by = "temp"
    <3>1. i # m /\ calls[i].pc = "in_dtor" /\ calls[i].handle \in AllRefs /\ calls[i].handle \in Handles
      BY <1>h, <1>j, <2>1, RefsApart
    <3>2. slot[calls[i].handle].destructed /\ ref[calls[i].handle].by = "temp"
      BY <1>a, <3>1 DEF IInv, RunningDestructors
    <3>3. calls[m].pc = "in_dtor" => calls[i].handle # calls[m].handle
      BY <1>a, <3>1 DEF IInv, CallStack
    <3> QED
      BY <3>1, <3>2, <3>3
  <2> QED
    BY <1>j, <2>1 DEF RunningDestructors
<1>7. OwnReferences'
  <2>1. \A g \in Handles : Live(g) =>
          /\ ref'[g].handle = g /\ ref'[g].by \in {"temp", "dying", "leaked"}
          /\ slot'[g].valid => slot'[g].destructed
    <3>1. \A g \in Handles : Live(g) =>
             /\ ref[g].handle = g /\ ref[g].by \in {"temp", "dying", "leaked"}
             /\ slot[g].valid => slot[g].destructed
      BY DEF IInv, OwnReferences
    <3> QED
      BY <3>1, RefsApart
  <2>2. Live(LoopRef) => ref'[LoopRef].by \in {"loop", "leaked"}
    BY RefsApart DEF IInv, OwnReferences
  <2>3. calls'[1].fn = calls[1].fn
    BY <1>a, <1>j
  <2> QED
    BY <1>a, <1>b, <2>1, <2>2, <2>3, RefsApart DEF IInv, OwnReferences
<1>8. FreeListExact'
  BY FreeListKept
<1>9. FreeUnreferenced'
  BY <1>b DEF FreeUnreferenced, Refers
<1>10. RefsCounted'
  <2>1. \A g \in Handles : RefsTo(g)' = RefsTo(g)
    BY <1>b, CountKept
  <2> QED
    BY <1>b, <2>1 DEF IInv, RefsCounted
<1>11. CountBounds' /\ ScriptHolds'
  BY DEF IInv, CountBounds, ScriptHolds
<1> QED
  BY <1>1, <1>2, <1>3, <1>4, <1>5, <1>6, <1>7, <1>8, <1>9, <1>10, <1>11 DEF IInv

\* A bailout that ends a step of the shutdown, or the script.
LEMMA UncaughtKeeps ==
    ASSUME IInv, calls' = <<>>, loop' = 1,
           phase' \in Phases, phase' # "script",
           phase' \in {"symbols", "destructors"} => phase = "script",
           phase \in {"storage", "done"} => phase' \in {"storage", "done"},
           slot' \in [Handles -> Bucket],
           \A g \in Handles : /\ slot'[g].valid = slot[g].valid
                              /\ slot'[g].refcount = slot[g].refcount
                              /\ slot[g].destructed => slot'[g].destructed,
           ref' \in [AllRefs -> RefRecord],
           \A s \in AllRefs :
              /\ ref'[s].handle = ref[s].handle
              /\ \/ ref'[s].by = ref[s].by
                 \/ ref'[s].by = "leaked" /\ ref[s].by # "none",
           \A i \in DOMAIN freeList, s \in AllRefs : ~(Live(s) /\ ref[s].handle = freeList[i]),
           UNCHANGED <<top, size, base, freeList>>
    PROVE  IInv'
<1>a. calls' \in Seq(CallFrame) /\ Len(calls') = 0
  OBVIOUS
<1>b. /\ \A s \in AllRefs : Live(s)' <=> Live(s)
      /\ \A s \in AllRefs, g \in Handles : Refers(s, g)' <=> Refers(s, g)
  BY DEF Refers, Live
<1>1. StoreTypes'
  BY <1>a, MaxHandleNat DEF IInv, StoreTypes
<1>2. UsedHandles'
  BY <1>b DEF IInv, UsedHandles
<1>3. CallStack' /\ DelRefCalls' /\ LoopCalls' /\ RunningDestructors'
  BY <1>a DEF CallStack, DelRefCalls, LoopCalls, RunningDestructors
<1>4. OwnReferences'
  <2>1. \A g \in Handles : Live(g) =>
          /\ ref'[g].handle = g /\ ref'[g].by \in {"temp", "dying", "leaked"}
          /\ slot'[g].valid => slot'[g].destructed
    <3>1. \A g \in Handles : Live(g) =>
             /\ ref[g].handle = g /\ ref[g].by \in {"temp", "dying", "leaked"}
             /\ slot[g].valid => slot[g].destructed
      BY DEF IInv, OwnReferences
    <3> QED
      BY <3>1, RefsApart
  <2>2. Live(LoopRef) => ref'[LoopRef].by \in {"loop", "leaked"}
    BY RefsApart DEF IInv, OwnReferences
  <2>3. phase = "script" => ~Live(LoopRef)
    <3>1. phase = "script" /\ Live(LoopRef) =>
             Len(calls) > 0 /\ calls[1].fn = "call_destructors"
      BY DEF IInv, OwnReferences
    <3>2. Len(calls) > 0 /\ calls[1].fn = "call_destructors" => phase = "destructors"
      <4>1. Len(calls) \in Nat
        BY LenProperties DEF IInv, StoreTypes
      <4> QED
        BY <4>1 DEF IInv, LoopCalls
    <3> QED
      BY <3>1, <3>2
  <2> QED
    BY <1>b, <2>1, <2>2, <2>3, RefsApart DEF OwnReferences
<1>5. FreeListExact'
  BY FreeListKept
<1>6. FreeUnreferenced'
  BY <1>b DEF FreeUnreferenced, Refers
<1>7. RefsCounted'
  <2>1. \A g \in Handles : RefsTo(g)' = RefsTo(g)
    BY <1>b, CountKept
  <2> QED
    BY <1>b, <2>1 DEF IInv, RefsCounted
<1>8. CountBounds' /\ ScriptHolds'
  BY DEF IInv, CountBounds, ScriptHolds
<1> QED
  BY <1>1, <1>2, <1>3, <1>4, <1>5, <1>6, <1>7, <1>8 DEF IInv

\* Unwinding the stack from a destructor, or from a call that bails out itself.
LEMMA UnwindCounts ==
    ASSUME IInv, NEW stack \in Seq(CallFrame), NEW buckets \in [Handles -> Bucket],
           \A g \in Handles : /\ buckets[g].valid = slot[g].valid
                              /\ buckets[g].refcount = slot[g].refcount
                              /\ slot[g].destructed => buckets[g].destructed,
           Len(stack) <= Len(calls),
           \A i \in 1 .. Len(stack) : stack[i] = calls[i] /\ calls[i].pc \in {"in_dtor", "dtor_done", "freeing"},
           phase # "done",
           \A i \in DOMAIN freeList, s \in AllRefs : ~(Live(s) /\ ref[s].handle = freeList[i]),
           Unwind(stack, buckets),
           UNCHANGED <<top, size, base, freeList>>
    PROVE  IInv'
<1> DEFINE m == Len(stack)
<1>a. m \in Nat /\ Len(calls) \in Nat /\ (m > 0 <=> stack # <<>>)
  BY LenProperties, EmptySeq DEF IInv, StoreTypes
<1>m. /\ MarkDestructed(buckets) \in [Handles -> Bucket]
      /\ \A g \in Handles : /\ MarkDestructed(buckets)[g].valid = buckets[g].valid
                            /\ MarkDestructed(buckets)[g].refcount = buckets[g].refcount
                            /\ buckets[g].destructed => MarkDestructed(buckets)[g].destructed
  BY MarkedBuckets
<1>s. StoreTypes
  BY DEF IInv
<1>1. CASE m > 0 /\ stack[m].fn = "del_ref"
  <2> DEFINE f == stack[m]
             g == [f EXCEPT !.failed = TRUE, !.pc = IF f.pc = "in_dtor" THEN "dtor_done" ELSE f.pc]
             lost == {r \in AllRefs : \/ f.pc = "in_dtor" /\ r = f.handle /\ Live(r)
                                      \/ f.pc = "freeing" /\ PropertyOf(r, f.handle)}
             under == SubSeq(stack, 1, m - 1)
  <2>1. /\ calls' = Append(under, g)
        /\ ref' = Abandon(lost)
        /\ slot' = buckets
        /\ UNCHANGED <<phase, loop>>
    BY <1>a, <1>1 DEF Unwind
  <2>2. m \in 1 .. Len(calls) /\ f = calls[m] /\ f \in CallFrame
    BY <1>a, <1>1, ElementOfSeq DEF IInv, StoreTypes
  <2>3. /\ g \in CallFrame /\ g.fn = f.fn /\ g.handle = f.handle /\ g.ref = f.ref
        /\ g.pc = IF f.pc = "in_dtor" THEN "dtor_done" ELSE f.pc
    BY <2>2 DEF CallFrame
  <2> HIDE DEF g
  <2>4. /\ under \in Seq(CallFrame) /\ Len(under) = m - 1
        /\ \A i \in 1 .. m - 1 : under[i] = stack[i]
    <3>1. m - 1 \in 0 .. Len(stack)
      BY <1>a, <1>1
    <3> QED
      BY <3>1, Prefix
  <2> HIDE DEF under
  <2>5. /\ calls' \in Seq(CallFrame) /\ Len(calls') = m
        /\ \A i \in 1 .. m - 1 : calls'[i] = calls[i]
        /\ calls'[m] = g
    <3>1. /\ calls' \in Seq(CallFrame) /\ Len(calls') = Len(under) + 1
          /\ \A i \in 1 .. Len(under) : calls'[i] = under[i]
          /\ calls'[Len(under) + 1] = g
      BY <2>1, <2>3, <2>4
    <3> QED
      BY <1>a, <2>4, <3>1
  <2>6. lost \in SUBSET AllRefs
    OBVIOUS
  <2>7. \A s \in lost : \/ ref[s].by = "property"
                        \/ ref[s].by = "temp" /\ f.pc = "in_dtor" /\ s = f.handle
    BY <2>2 DEF IInv, RunningDestructors, PropertyOf
  <2> HIDE DEF lost
  <2>8. /\ ref' \in [AllRefs -> RefRecord]
        /\ \A s \in AllRefs : /\ ref'[s].handle = ref[s].handle
                              /\ ref'[s].by = IF s \in lost THEN "leaked" ELSE ref[s].by
    BY <1>s, <2>1, <2>6, Abandoned
  <2>9. \A s \in AllRefs :
              /\ ref'[s].handle = ref[s].handle
              /\ \/ ref'[s].by = ref[s].by
                 \/ /\ ref'[s].by = "leaked"
                    /\ \/ ref[s].by = "property"
                       \/ ref[s].by = "temp" /\ calls[m].pc = "in_dtor" /\ s = calls[m].handle
    BY <2>2, <2>7, <2>8
  <2>10. PICK k \in 1 .. Len(calls) : k = m
    BY <2>2
  <2>11. /\ calls[k].fn = "del_ref" /\ Len(calls') = k
         /\ \A i \in 1 .. k : calls[i].pc \in {"in_dtor", "dtor_done", "freeing"}
         /\ \A i \in 1 .. k - 1 : calls'[i] = calls[i]
         /\ calls'[k].fn = "del_ref" /\ calls'[k].handle = calls[k].handle
         /\ calls'[k].ref = calls[k].ref
         /\ calls'[k].pc = IF calls[k].pc = "in_dtor" THEN "dtor_done" ELSE calls[k].pc
         /\ \A s \in AllRefs :
              /\ ref'[s].handle = ref[s].handle
              /\ \/ ref'[s].by = ref[s].by
                 \/ /\ ref'[s].by = "leaked"
                    /\ \/ ref[s].by = "property"
                       \/ ref[s].by = "temp" /\ calls[k].pc = "in_dtor" /\ s = calls[k].handle
    BY <1>1, <2>2, <2>3, <2>5, <2>9, <2>10
  <2>12. /\ slot' \in [Handles -> Bucket]
         /\ \A h \in Handles : /\ slot'[h].valid = slot[h].valid
                               /\ slot'[h].refcount = slot[h].refcount
                               /\ slot[h].destructed => slot'[h].destructed
    BY <2>1
  <2>13. calls' \in Seq(CallFrame) /\ ref' \in [AllRefs -> RefRecord] /\ UNCHANGED <<phase, loop>>
    BY <2>1, <2>5, <2>8
  <2> HIDE DEF m, f
  <2> QED
    BY <2>11, <2>12, <2>13, CaughtKeeps
<1>2. CASE ~(m > 0 /\ stack[m].fn = "del_ref")
  <2> DEFINE lost == {r \in AllRefs : \/ ref[r].by \in {"temp", "loop"}
                                      \/ phase = "storage" /\ PropertyOf(r, loop)}
  <2>1. /\ calls' = <<>> /\ loop' = 1
        /\ ref' = Abandon(lost)
        /\ slot' = buckets \/ slot' = MarkDestructed(buckets)
        /\ phase' = CASE phase = "script" -> "symbols"
                       [] phase \in {"symbols", "destructors"} -> "globals"
                       [] phase = "globals" -> "storage"
                       [] phase = "storage" -> "done"
    BY <1>a, <1>2 DEF Unwind
  <2>2. phase \in {"script", "symbols", "destructors", "globals", "storage"}
    BY DEF IInv, StoreTypes, Phases
  <2>3. /\ phase' \in Phases /\ phase' # "script"
        /\ phase' \in {"symbols", "destructors"} => phase = "script"
        /\ phase \in {"storage", "done"} => phase' \in {"storage", "done"}
    BY <2>1, <2>2 DEF Phases
  <2>4. \A s \in lost : ref[s].by # "none"
    BY DEF PropertyOf
  <2>5. lost \in SUBSET AllRefs
    OBVIOUS
  <2> HIDE DEF lost
  <2>6. /\ ref' \in [AllRefs -> RefRecord]
        /\ \A s \in AllRefs : /\ ref'[s].handle = ref[s].handle
                              /\ ref'[s].by = IF s \in lost THEN "leaked" ELSE ref[s].by
    BY <1>s, <2>1, <2>5, Abandoned
  <2>7. \A s \in AllRefs : /\ ref'[s].handle = ref[s].handle
                           /\ \/ ref'[s].by = ref[s].by
                              \/ ref'[s].by = "leaked" /\ ref[s].by # "none"
    BY <2>4, <2>6
  <2>8. /\ slot' \in [Handles -> Bucket]
        /\ \A g \in Handles : /\ slot'[g].valid = slot[g].valid
                              /\ slot'[g].refcount = slot[g].refcount
                              /\ slot[g].destructed => slot'[g].destructed
    BY <1>m, <2>1
  <2>9. calls' = <<>> /\ loop' = 1 /\ ref' \in [AllRefs -> RefRecord]
    BY <2>1, <2>6
  <2> QED
    BY <2>3, <2>7, <2>8, <2>9, UncaughtKeeps
<1> QED
  BY <1>1, <1>2

\* A bailout of user code: every call on the stack is inside a destructor or frees
\* an object, or has just done so.
LEMMA BailoutKeeps ==
    ASSUME IInv, NEW fatal \in BOOLEAN, Bailout(fatal)
    PROVE  IInv'
<1>1. /\ phase # "done"
      /\ \A i \in 1 .. Len(calls) : calls[i].pc \in {"in_dtor", "dtor_done", "freeing"}
      /\ \A i \in DOMAIN freeList, r \in AllRefs : ~(Live(r) /\ ref[r].handle = freeList[i])
  BY WhenUserRuns DEF Bailout
<1>2. PICK buckets : buckets = IF fatal THEN MarkDestructed(slot) ELSE slot
  OBVIOUS
<1>3. /\ buckets \in [Handles -> Bucket]
      /\ \A g \in Handles : /\ buckets[g].valid = slot[g].valid
                            /\ buckets[g].refcount = slot[g].refcount
                            /\ slot[g].destructed => buckets[g].destructed
  BY <1>2, MarkedBuckets DEF IInv, StoreTypes
<1>4. PICK stack : stack = calls
  OBVIOUS
<1>5. stack \in Seq(CallFrame) /\ Len(stack) <= Len(calls)
  BY <1>4, LenProperties DEF IInv, StoreTypes
<1>6. Unwind(stack, buckets) /\ UNCHANGED <<top, size, base, freeList>>
  BY <1>2, <1>4 DEF Bailout
<1> QED
  BY <1>1, <1>3, <1>4, <1>5, <1>6, UnwindCounts

\* The bailout of a call whose destructor or free_storage bailed out.
LEMMA BailoutOnKeeps == ASSUME IInv, BailoutOn PROVE IInv'
<1>1. calls # <<>> /\ Current.pc = "bailout" /\ Unwind(Below, slot)
  BY DEF BailoutOn, At
<1>u. UNCHANGED <<top, size, base, freeList>>
  BY DEF BailoutOn
<1>2. Len(calls) \in Nat \ {0} /\ calls[Len(calls)].pc = "bailout"
  BY <1>1, StackTop DEF IInv, StoreTypes
<1>3. /\ Below \in Seq(CallFrame) /\ Len(Below) = Len(calls) - 1
      /\ \A i \in 1 .. Len(calls) - 1 : Below[i] = calls[i]
  <2>1. Current \in CallFrame
    BY <1>1, StackTop DEF IInv, StoreTypes
  <2> QED
    BY <1>1, <2>1, StackOperators DEF IInv, StoreTypes
<1>4. /\ phase # "done"
      /\ \A i \in 1 .. Len(calls) - 1 : calls[i].pc \in {"in_dtor", "dtor_done", "freeing"}
      /\ \A i \in DOMAIN freeList, r \in AllRefs : ~(Live(r) /\ ref[r].handle = freeList[i])
  BY <1>1, <1>2 DEF IInv, CallStack, FreeUnreferenced, Refers
<1>5. PICK stack : stack = Below
  OBVIOUS
<1>6. /\ stack \in Seq(CallFrame) /\ Len(stack) <= Len(calls)
      /\ \A i \in 1 .. Len(stack) : stack[i] = calls[i] /\ calls[i].pc \in {"in_dtor", "dtor_done", "freeing"}
  BY <1>2, <1>3, <1>4, <1>5
<1>7. PICK buckets : buckets = slot
  OBVIOUS
<1>8. /\ buckets \in [Handles -> Bucket]
      /\ \A g \in Handles : /\ buckets[g].valid = slot[g].valid
                            /\ buckets[g].refcount = slot[g].refcount
                            /\ slot[g].destructed => buckets[g].destructed
  BY <1>7 DEF IInv, StoreTypes
<1>9. Unwind(stack, buckets)
  BY <1>1, <1>5, <1>7
<1> QED
  BY <1>4, <1>6, <1>8, <1>9, <1>u, UnwindCounts

-----------------------------------------------------------------------------
(* The steps that come down to one of the above *)

\* A new bucket is the first of the free list.
LEMMA NewFromFreeListKeeps ==
    ASSUME IInv, NEW r \in Refs, NEW c \in BOOLEAN, NewFromFreeList(r, c)
    PROVE  IInv'
<1> DEFINE t == freeList'
<1>1. /\ UserRuns /\ ~Live(r) /\ freeList # <<>>
      /\ t = Tail(freeList) /\ Put(Head(freeList), r, c)
      /\ UNCHANGED <<top, size, base>>
  BY DEF NewFromFreeList
<1>2. freeList \in Seq(Handles) /\ FreeListExact /\ StoreTypes
  BY DEF IInv, StoreTypes
<1>3. /\ t \in Seq(Handles)
      /\ Len(freeList) \in Nat \ {0} /\ DOMAIN freeList = 1 .. Len(freeList)
      /\ Len(t) = Len(freeList) - 1 /\ DOMAIN t = 1 .. Len(t)
      /\ \A i \in 1 .. Len(t) : t[i] = freeList[i + 1]
  BY <1>1, <1>2, HeadTailProperties, LenProperties, EmptySeq
<1>4. PICK h \in Handles : h = Head(freeList) /\ h = freeList[1] /\ 1 \in DOMAIN freeList
  BY <1>1, <1>2, <1>3, HeadTailProperties
<1> HIDE DEF t
<1>5. ~slot[h].valid /\ h < top
  BY <1>2, <1>4 DEF FreeListExact
<1>6. \A s \in AllRefs : ~Refers(s, h)
  BY <1>1, <1>4, WhenUserRuns DEF Refers
<1>7. \A i \in 1 .. Len(t) : i + 1 \in DOMAIN freeList /\ i + 1 # 1
  BY <1>3
<1>8. \A i \in DOMAIN t : t[i] # h /\ \E j \in DOMAIN freeList : t[i] = freeList[j]
  BY <1>2, <1>3, <1>4, <1>7 DEF FreeListExact
<1>9. ASSUME NEW i \in DOMAIN t, NEW j \in DOMAIN t, i # j PROVE t[i] # t[j]
  <2>1. i + 1 # j + 1
    BY <1>3, <1>9
  <2>2. i + 1 \in DOMAIN freeList /\ j + 1 \in DOMAIN freeList
    BY <1>3, <1>7
  <2>3. freeList[i + 1] # freeList[j + 1]
    BY <1>2, <2>1, <2>2 DEF FreeListExact
  <2>4. t[i] = freeList[i + 1] /\ t[j] = freeList[j + 1]
    BY <1>3
  <2> QED
    BY <2>3, <2>4
<1>10. ASSUME NEW j \in DOMAIN freeList PROVE freeList[j] = h \/ \E i \in DOMAIN t : t[i] = freeList[j]
  <2>1. j # 1 => j - 1 \in 1 .. Len(t) /\ (j - 1) + 1 = j
    BY <1>3
  <2> QED
    BY <1>3, <1>4, <2>1
<1>11. /\ size' \in Nat /\ size' >= top' /\ base' \in Nat
       /\ top' \in 1 .. MaxHandle + 1 /\ top' >= top /\ h < top'
       /\ \A g \in 1 .. top' - 1 : g = h \/ g \in 1 .. top - 1
  BY <1>1, <1>2, <1>5, MaxHandleNat DEF StoreTypes, Handles
<1>12. Put(h, r, c)
  BY <1>1, <1>4
<1> QED
  BY <1>1, <1>3, <1>5, <1>6, <1>8, <1>9, <1>10, <1>11, <1>12, NewKeeps DEF t

\* A new bucket is the one at top, which may have moved the table.
LEMMA NewOnTopKeeps ==
    ASSUME IInv, NEW r \in Refs, NEW c \in BOOLEAN, NewOnTop(r, c)
    PROVE  IInv'
<1>1. /\ UserRuns /\ ~Live(r) /\ freeList = <<>> /\ top <= MaxHandle
      /\ IF top = size THEN size' = 2 * size /\ base' = base + 1 ELSE size' = size /\ base' = base
      /\ top' = top + 1 /\ Put(top, r, c) /\ freeList' = freeList
  BY DEF NewOnTop
<1>2. top \in 1 .. MaxHandle + 1 /\ size \in Nat /\ size >= top /\ base \in Nat
  BY DEF IInv, StoreTypes
<1>3. PICK h \in Handles : h = top
  BY <1>1, <1>2, MaxHandleNat DEF Handles
<1>4. ~slot[h].valid
  BY <1>2, <1>3 DEF IInv, UsedHandles
<1>5. ASSUME NEW s \in AllRefs, Refers(s, h) PROVE FALSE
  <2>1. ref[s].handle \in 1 .. top - 1 /\ ref[s].handle = h
    BY <1>5 DEF IInv, UsedHandles, Refers
  <2> QED
    BY <1>2, <1>3, <2>1
<1>6. size' \in Nat /\ base' \in Nat
  BY <1>1, <1>2
<1>7. size' >= top'
  <2>1. CASE top = size
    <3>1. size' = 2 * size /\ top' = size + 1 /\ size \in Nat /\ size >= 1
      BY <1>1, <1>2, <2>1, MaxHandleNat
    <3> QED
      BY <3>1
  <2>2. CASE top # size
    <3>1. size' = size /\ top' = top + 1 /\ size > top /\ size \in Nat /\ top \in Int
      BY <1>1, <1>2, <2>2, MaxHandleNat
    <3> QED
      BY <3>1
  <2> QED
    BY <2>1, <2>2
<1>8. /\ top' \in 1 .. MaxHandle + 1 /\ top' >= top /\ h < top'
      /\ \A g \in 1 .. top' - 1 : g = h \/ g \in 1 .. top - 1
  BY <1>1, <1>2, <1>3, MaxHandleNat
<1>9. /\ freeList' \in Seq(Handles)
      /\ DOMAIN freeList' = {} /\ DOMAIN freeList = {}
  BY <1>1
<1>10. Put(h, r, c)
  BY <1>1, <1>3
<1> QED
  BY <1>1, <1>4, <1>5, <1>6, <1>7, <1>8, <1>9, <1>10, NewKeeps

\* A copy of a reference refers to what the first one refers to.
LEMMA AddRefStepKeeps ==
    ASSUME IInv, NEW r \in AllRefs, NEW s \in Refs, AddRef(r, s)
    PROVE  IInv'
<1>1. /\ UserRuns /\ Readable(r) /\ ~Live(s) /\ slot[ref[r].handle].valid
      /\ \/ ref' = [ref EXCEPT ![s] = RefTo(ref[r].handle, "script", 0)]
         \/ \E h \in Handles : ref' = [ref EXCEPT ![s] = RefTo(ref[r].handle, "property", h)]
      /\ slot' = [slot EXCEPT ![ref[r].handle].refcount = @ + 1]
      /\ UNCHANGED <<top, size, base, freeList, calls, phase, loop>>
  BY DEF AddRef
<1>2. ref[r].by \in {"script", "temp", "property"}
  BY <1>1 DEF Readable
<1>3. PICK h \in Handles : h = ref[r].handle
  BY <1>1, <1>2, WhenUserRuns
<1>4. Refers(r, h) /\ ref[r].by # "dying" /\ slot[h].valid
  BY <1>1, <1>2, <1>3 DEF Refers, Live
<1>5. \E v \in RefRecord : v.handle = h /\ v.by # "none" /\ ref' = [ref EXCEPT ![s] = v]
  <2>1. CASE ref' = [ref EXCEPT ![s] = RefTo(ref[r].handle, "script", 0)]
    <3>1. /\ RefTo(h, "script", 0) \in RefRecord
          /\ RefTo(h, "script", 0).handle = h /\ RefTo(h, "script", 0).by = "script"
      BY RefToType
    <3> QED
      BY <1>3, <2>1, <3>1
  <2>2. ASSUME NEW g \in Handles, ref' = [ref EXCEPT ![s] = RefTo(ref[r].handle, "property", g)]
        PROVE  \E v \in RefRecord : v.handle = h /\ v.by # "none" /\ ref' = [ref EXCEPT ![s] = v]
    <3>1. /\ RefTo(h, "property", g) \in RefRecord
          /\ RefTo(h, "property", g).handle = h /\ RefTo(h, "property", g).by = "property"
      BY RefToType
    <3> QED
      BY <1>3, <2>2, <3>1
  <2> QED
    BY <1>1, <2>1, <2>2
<1>6. PICK v \in RefRecord : v.handle = h /\ v.by # "none" /\ ref' = [ref EXCEPT ![s] = v]
  BY <1>5
<1>7. slot' = [slot EXCEPT ![h].refcount = @ + 1]
  BY <1>1, <1>3
<1> QED
  BY <1>1, <1>4, <1>6, <1>7, AddRefKeeps

\* A new call is made for a reference that is dropped.
LEMMA DelRefCall ==
    ASSUME IInv, NEW r \in AllRefs, ref[r].by # "none"
    PROVE  DelRef(r) \in CallFrame
<1>1. ref[r].handle \in 1 .. top - 1 /\ top \in 1 .. MaxHandle + 1 /\ base \in Nat
  BY DEF IInv, StoreTypes, UsedHandles, Live
<1>2. ref[r].handle \in Handles
  BY <1>1, MaxHandleNat DEF Handles
<1> QED
  BY <1>1, <1>2 DEF DelRef, Frame, CallFrame

\* User code, the freeing of an object or the end of the request drops a
\* reference of its own.
LEMMA DropStepKeeps ==
    ASSUME IInv, NEW r \in Refs, ref[r].by \in {"script", "property", "temp"}, Drop(r),
           calls # <<>> => calls[Len(calls)].pc \in {"in_dtor", "freeing"},
           phase # "done",
           UNCHANGED <<store, phase, loop>>
    PROVE  IInv'
<1> DEFINE n == Len(calls)
<1>1. r \in AllRefs /\ r \notin Handles
  BY RefsNotInts DEF AllRefs, Handles
<1>2. DelRef(r) \in CallFrame
  BY <1>1, DelRefCall
<1>3. calls \in Seq(CallFrame)
  BY DEF IInv, StoreTypes
<1>4. /\ calls' \in Seq(CallFrame)
      /\ Len(calls') = n + 1
      /\ calls'[n + 1] = DelRef(r)
      /\ \A i \in 1 .. n : calls'[i] = calls[i]
  BY <1>2, <1>3, StackOperators DEF Drop
<1>5. n \in Nat /\ (n > 0 => calls # <<>> /\ n \in 1 .. n)
  BY <1>3, EmptySeq, LenProperties
<1>6. \A i \in 1 .. n : calls[i].handle \in Handles
  <2>1. \A i \in 1 .. n : calls[i] \in CallFrame
    BY <1>3, ElementOfSeq
  <2> QED
    BY <2>1 DEF CallFrame
<1>7. /\ \A i \in 1 .. n : /\ calls'[i].fn = calls[i].fn /\ calls'[i].handle = calls[i].handle
                           /\ calls'[i].ref = calls[i].ref /\ calls'[i].base = calls[i].base
                           /\ calls'[i].pc = calls[i].pc
                           /\ calls'[i].handle # r
      /\ n > 0 => calls'[n].pc \in {"in_dtor", "dtor_done", "freeing"}
  BY <1>1, <1>4, <1>5, <1>6
<1>8. ref' = [ref EXCEPT ![r].by = "dying"]
  BY DEF Drop
<1> QED
  BY <1>1, <1>4, <1>7, <1>8, DropKeeps

\* The zval for $this is dropped when the destructor on top has returned.
LEMMA DestructorReturnsKeeps ==
    ASSUME IInv, NEW h \in Handles, h = Current.handle, DestructorReturns
    PROVE  IInv'
<1> DEFINE n == Len(calls)
           f == [Current EXCEPT !.pc = "dtor_done"]
           g == DelRef(h)
<1>1. /\ calls # <<>> /\ Current.pc = "in_dtor"
      /\ ref' = [ref EXCEPT ![h].by = "dying"]
      /\ calls' = Append(Become(f), g)
      /\ UNCHANGED <<store, phase, loop>>
  BY DEF DestructorReturns, Enter
<1>2. calls \in Seq(CallFrame)
  BY DEF IInv, StoreTypes
<1>3. n \in Nat \ {0} /\ Current = calls[n] /\ Current \in CallFrame
  BY <1>1, <1>2, StackTop
<1>4. /\ f \in CallFrame
      /\ f.fn = calls[n].fn /\ f.handle = h /\ f.ref = calls[n].ref
      /\ f.base = calls[n].base /\ f.pc = "dtor_done"
  BY <1>3 DEF CallFrame
<1>5. ref[h].by = "temp"
  BY <1>1, <1>3 DEF IInv, RunningDestructors
<1>6. h \in AllRefs
  BY DEF AllRefs
<1>7. g \in CallFrame
  BY <1>5, <1>6, DelRefCall
<1> HIDE DEF f, g
<1>8. /\ Become(f) \in Seq(CallFrame) /\ Len(Become(f)) = n
      /\ \A i \in 1 .. n - 1 : Become(f)[i] = calls[i]
      /\ Become(f)[n] = f
  BY <1>1, <1>2, <1>4, StackOperators
<1>9. /\ calls' \in Seq(CallFrame) /\ Len(calls') = n + 1 /\ calls'[n + 1] = g
      /\ \A i \in 1 .. n : calls'[i] = Become(f)[i]
  <2> DEFINE b == Become(f)
  <2>1. b \in Seq(CallFrame) /\ Len(b) = n /\ calls' = Append(b, g)
    BY <1>1, <1>8
  <2> HIDE DEF b
  <2>2. /\ calls' \in Seq(CallFrame) /\ Len(calls') = Len(b) + 1 /\ calls'[Len(b) + 1] = g
        /\ \A i \in 1 .. Len(b) : calls'[i] = b[i]
    BY <1>7, <2>1
  <2> QED
    BY <2>1, <2>2 DEF b
<1>10. \A i \in 1 .. n - 1 : calls'[i] = calls[i] /\ i # n /\ i \in 1 .. n
  BY <1>3, <1>8, <1>9
<1>11. calls'[n] = f
  BY <1>3, <1>8, <1>9
<1>12. ASSUME NEW i \in 1 .. n
       PROVE  /\ calls'[i].fn = calls[i].fn /\ calls'[i].handle = calls[i].handle
              /\ calls'[i].ref = calls[i].ref /\ calls'[i].base = calls[i].base
              /\ \/ calls'[i].pc = calls[i].pc
                 \/ i = n /\ calls[i].pc = "in_dtor" /\ calls'[i].pc = "dtor_done"
              /\ calls'[i].pc = "in_dtor" => calls'[i].handle # h
  <2>1. CASE i = n
    BY <1>1, <1>3, <1>4, <1>11, <2>1
  <2>2. CASE i # n
    <3>1. i \in 1 .. n - 1 /\ n \in 1 .. n
      BY <1>3, <2>2
    <3>2. calls[i].pc = "in_dtor" => calls[i].handle # calls[n].handle
      BY <1>1, <1>3, <2>2, <3>1 DEF IInv, CallStack
    <3> QED
      BY <1>3, <1>10, <3>1, <3>2
  <2> QED
    BY <2>1, <2>2
<1>13. calls'[n].pc = "dtor_done"
  BY <1>4, <1>11
<1>14. phase # "done"
  BY <1>1 DEF IInv, CallStack
<1>15. /\ Len(calls') = Len(calls) + 1
       /\ calls'[Len(calls) + 1] = DelRef(h)
  BY <1>9 DEF g
<1> HIDE DEF n
<1> QED
  BY <1>1, <1>5, <1>6, <1>9, <1>12, <1>13, <1>14, <1>15, DropKeeps DEF n

\* The steps of a call of zend_objects_store_del_ref that only choose its way:
\* the object is destructed already, it has other references, or its destructor
\* is done.
LEMMA WayChosenKeeps ==
    ASSUME IInv, LastRefAgain \/ NotLastRef \/ AfterDestructor
    PROVE  IInv'
<1>1. /\ calls # <<>> /\ Current.fn = "del_ref" /\ Current.pc \in {"entry", "dtor_done"}
      /\ UNCHANGED <<store, ref, phase, loop>>
  BY DEF LastRefAgain, NotLastRef, AfterDestructor, At
<1>2. calls \in Seq(CallFrame)
  BY DEF IInv, StoreTypes
<1>3. Len(calls) \in Nat \ {0} /\ Current = calls[Len(calls)] /\ Current \in CallFrame
  BY <1>1, <1>2, StackTop
<1>4. PICK h \in Handles : h = Current.handle
  BY <1>3 DEF CallFrame
<1>5. ASSUME NEW pc \in {"dtor_done", "freeing", "dec"},
             NEW f, f = [Current EXCEPT !.base = base, !.pc = pc],
             calls' = Become(f),
             pc # "dec" => slot[h].valid,
             pc = "freeing" => slot[h].refcount = 1,
             pc = "dec" => ~(slot[h].valid /\ slot[h].refcount = 1)
      PROVE  IInv'
  <2>1. base \in Nat
    BY DEF IInv, StoreTypes
  <2>2. /\ f \in CallFrame
        /\ f.fn = "del_ref" /\ f.handle = h /\ f.ref = Current.ref
        /\ f.base = base /\ f.pc = pc
    BY <1>1, <1>3, <1>4, <1>5, <2>1 DEF CallFrame
  <2> QED
    BY <1>1, <1>4, <1>5, <2>2, MoveKeeps
<1>6. ASSUME Current.pc = "entry", NEW pc \in {"dtor_done", "dec"}
      PROVE  [Current EXCEPT !.pc = pc] = [Current EXCEPT !.base = base, !.pc = pc]
  <2>1. Current.base = base
    BY <1>1, <1>3, <1>6 DEF IInv, DelRefCalls
  <2> QED
    BY <1>3, <2>1 DEF CallFrame
<1>7. CASE LastRefAgain
  BY <1>4, <1>5, <1>6, <1>7 DEF LastRefAgain, At, IsLast
<1>8. CASE NotLastRef
  BY <1>4, <1>5, <1>6, <1>8 DEF NotLastRef, At, IsLast
<1>9. CASE AfterDestructor
  <2>1. slot[h].valid
    BY <1>1, <1>3, <1>4, <1>9 DEF AfterDestructor, At, IInv, DelRefCalls
  <2>2. calls' = Become([Current EXCEPT !.base = base,
                            !.pc = IF slot[h].refcount = 1 THEN "freeing" ELSE "dec"])
    BY <1>4, <1>9 DEF AfterDestructor
  <2>3. CASE slot[h].refcount = 1
    BY <1>5, <2>1, <2>2, <2>3
  <2>4. CASE slot[h].refcount # 1
    BY <1>5, <2>1, <2>2, <2>4
  <2> QED
    BY <2>3, <2>4
<1> QED
  BY <1>7, <1>8, <1>9

\* The request goes on to its next phase, or the loop to its next handle.
LEMMA PhaseStepKeeps ==
    ASSUME IInv, EndScript \/ EndGlobals \/ LoopSkips \/ LoopEnds
    PROVE  IInv'
<1>1. phase \in Phases /\ loop \in 1 .. MaxHandle + 1 /\ top \in 1 .. MaxHandle + 1
  BY DEF IInv, StoreTypes
<1>2. calls = <<>> /\ UNCHANGED <<store, ref, calls>>
  BY DEF EndScript, EndGlobals, LoopSkips, LoopEnds
<1>3. loop' \in 1 .. MaxHandle + 1
  <2>1. loop' = loop \/ loop' = 1 \/ (loop < top /\ loop' = loop + 1)
    BY DEF EndScript, EndGlobals, LoopSkips, LoopEnds
  <2> QED
    BY <1>1, <2>1, MaxHandleNat
<1>4. /\ phase' \in Phases
      /\ phase' = "script" => phase = "script"
      /\ phase' \in {"script", "symbols", "destructors"} => phase \in {"script", "symbols", "destructors"}
      /\ phase \in {"storage", "done"} => phase' \in {"storage", "done"}
  BY <1>1 DEF EndScript, EndGlobals, LoopSkips, LoopEnds, Phases
<1> QED
  BY <1>2, <1>3, <1>4, QuietKeeps

\* Steps that change nothing.
LEMMA StutterKeeps == ASSUME IInv, UNCHANGED vars PROVE IInv'
<1>1. UNCHANGED <<slot, top, size, base, freeList, ref, calls, phase, loop>>
  BY DEF vars, store
<1>2. (StoreTypes /\ UsedHandles)'
  BY <1>1 DEF IInv, StoreTypes, UsedHandles, Live
<1>3. (CallStack /\ DelRefCalls)'
  BY <1>1 DEF IInv, CallStack, DelRefCalls, Refers, Live
<1>4. (LoopCalls /\ RunningDestructors /\ OwnReferences)'
  BY <1>1 DEF IInv, LoopCalls, RunningDestructors, OwnReferences, Live
<1>5. (FreeListExact /\ FreeUnreferenced)'
  BY <1>1 DEF IInv, FreeListExact, FreeUnreferenced, Refers, Live
<1>6. (RefsCounted /\ CountBounds /\ ScriptHolds)'
  BY <1>1 DEF IInv, RefsCounted, CountBounds, ScriptHolds, RefsTo, Refers, Live
<1> QED
  BY <1>2, <1>3, <1>4, <1>5, <1>6 DEF IInv

\* The invariant holds at first.
LEMMA StoreInit == Init => IInv
<1> SUFFICES ASSUME Init PROVE IInv
  OBVIOUS
<1>1. /\ slot = [h \in Handles |-> [valid |-> FALSE, destructed |-> FALSE, refcount |-> 0]]
      /\ top = 1 /\ size = InitSize /\ base = 0 /\ freeList = <<>>
      /\ ref = [r \in AllRefs |-> NoRef]
      /\ calls = <<>> /\ phase = "script" /\ loop = 1
  BY DEF Init
<1>2. \A r \in AllRefs : ref[r] \in RefRecord /\ ~Live(r)
  BY <1>1, NoRefType DEF Live
<1>3. \A h \in Handles : /\ slot[h] \in Bucket
                         /\ ~slot[h].valid /\ slot[h].refcount = 0
  BY <1>1 DEF Bucket
<1>4. Len(calls) = 0 /\ DOMAIN freeList = {}
  BY <1>1
<1>5. StoreTypes
  <2>1. slot \in [Handles -> Bucket] /\ ref \in [AllRefs -> RefRecord]
    BY <1>1, <1>2, <1>3
  <2>2. /\ top \in 1 .. MaxHandle + 1 /\ loop \in 1 .. MaxHandle + 1
        /\ size \in Nat /\ size >= top /\ base \in Nat
    BY <1>1, MaxHandleNat, InitSizePos
  <2>3. freeList \in Seq(Handles) /\ calls \in Seq(CallFrame) /\ phase \in Phases
    BY <1>1 DEF Phases
  <2> QED
    BY <2>1, <2>2, <2>3 DEF StoreTypes
<1>6. FreeListExact
  BY <1>1, <1>4 DEF FreeListExact
<1>7. CountBounds
  BY <1>3, AllRefsFinite DEF CountBounds
<1>8. CallStack /\ DelRefCalls /\ LoopCalls /\ RunningDestructors
  BY <1>1, <1>4 DEF CallStack, DelRefCalls, LoopCalls, RunningDestructors
<1>9. UsedHandles /\ OwnReferences
  <2>1. LoopRef \in AllRefs /\ Handles \in SUBSET AllRefs
    BY DEF AllRefs
  <2> QED
    BY <1>2, <1>3, <2>1 DEF UsedHandles, OwnReferences
<1>10. FreeUnreferenced /\ RefsCounted /\ ScriptHolds
  BY <1>2, <1>3, <1>4 DEF FreeUnreferenced, RefsCounted, ScriptHolds, Refers
<1> QED
  BY <1>5, <1>6, <1>7, <1>8, <1>9, <1>10 DEF IInv

\* The invariant is inductive: each action keeps it.
LEMMA StoreStep == IInv /\ [Next]_vars => IInv'
<1> SUFFICES ASSUME IInv, [Next]_vars PROVE IInv'
  OBVIOUS
<1>a. calls \in Seq(CallFrame) /\ loop \in 1 .. MaxHandle + 1 /\ top \in 1 .. MaxHandle + 1
  BY DEF IInv, StoreTypes
<1>b. ASSUME calls # <<>>
      PROVE  /\ Len(calls) > 0 /\ Current = calls[Len(calls)]
             /\ Current.handle \in Handles /\ Current.ref \in AllRefs
  BY <1>a, <1>b, StackTop DEF CallFrame
<1>c. ASSUME loop < top PROVE loop \in Handles
  BY <1>a, <1>c, MaxHandleNat DEF Handles
<1>1. ASSUME UserStep PROVE IInv'
  <2>1. ASSUME NEW r \in Refs, NEW ctorFailed \in BOOLEAN,
               NewFromFreeList(r, ctorFailed) \/ NewOnTop(r, ctorFailed)
        PROVE  IInv'
    BY <2>1, NewFromFreeListKeeps, NewOnTopKeeps
  <2>2. ASSUME NEW r \in AllRefs, NEW s \in Refs, AddRef(r, s) PROVE IInv'
    BY <2>2, AddRefStepKeeps
  <2>3. ASSUME NEW r \in Refs, Unset(r) PROVE IInv'
    <3>1. UserRuns /\ Readable(r) /\ Drop(r) /\ UNCHANGED <<store, phase, loop>>
      BY <2>3 DEF Unset
    <3>2. ref[r].by \in {"script", "property", "temp"}
      BY <3>1 DEF Readable
    <3>3. calls # <<>> => calls[Len(calls)].pc = "in_dtor"
      BY <1>b, <3>1 DEF UserRuns
    <3>4. phase # "done"
      BY <3>1, WhenUserRuns
    <3> QED
      BY <3>1, <3>2, <3>3, <3>4, DropStepKeeps
  <2>4. ASSUME NEW fatal \in BOOLEAN, Bailout(fatal) PROVE IInv'
    BY <2>4, BailoutKeeps
  <2>5. ASSUME DestructorReturns PROVE IInv'
    <3>1. PICK h \in Handles : h = Current.handle
      BY <1>b, <2>5 DEF DestructorReturns
    <3> QED
      BY <2>5, <3>1, DestructorReturnsKeeps
  <2>6. ASSUME EndScript PROVE IInv'
    BY <2>6, PhaseStepKeeps
  <2> QED
    BY <1>1, <2>1, <2>2, <2>3, <2>4, <2>5, <2>6 DEF UserStep
<1>2. ASSUME DelRefStep PROVE IInv'
  <2>1. ASSUME LastRef \/ AddToFreeList \/ DecRefcount PROVE IInv'
    <3>1. calls # <<>>
      BY <2>1 DEF LastRef, AddToFreeList, DecRefcount, At
    <3>2. PICK h \in Handles, q \in AllRefs : h = Current.handle /\ q = Current.ref
      BY <1>b, <3>1
    <3> QED
      BY <2>1, <3>2, LastRefKeeps, AddToFreeListKeeps, DecRefcountKeeps
  <2>2. ASSUME LastRefAgain \/ NotLastRef \/ AfterDestructor PROVE IInv'
    BY <2>2, WayChosenKeeps
  <2>3. ASSUME NEW r \in Refs, FreeProperty(r) PROVE IInv'
    <3>1. /\ calls # <<>> /\ Current.pc = "freeing" /\ ref[r].by = "property"
          /\ Drop(r) /\ UNCHANGED <<store, phase, loop>>
      BY <2>3 DEF FreeProperty, PropertyOf
    <3>2. calls[Len(calls)].pc = "freeing" /\ phase # "done"
      BY <1>b, <3>1 DEF IInv, CallStack
    <3> QED
      BY <3>1, <3>2, DropStepKeeps
  <2>4. ASSUME BailoutOn PROVE IInv'
    BY <2>4, BailoutOnKeeps
  <2> QED
    BY <1>2, <2>1, <2>2, <2>3, <2>4 DEF DelRefStep
<1>3. ASSUME ShutdownStep PROVE IInv'
  <2>1. ASSUME NEW r \in Refs, DestroyGlobal(r) PROVE IInv'
    <3>1. /\ calls = <<>> /\ ref[r].by = "script" /\ phase # "done"
          /\ Drop(r) /\ UNCHANGED <<store, phase, loop>>
      BY <2>1 DEF DestroyGlobal
    <3> QED
      BY <3>1, DropStepKeeps
  <2>2. ASSUME LoopCallsDestructor PROVE IInv'
    <3>1. PICK h \in Handles : h = loop
      BY <1>c, <2>2 DEF LoopCallsDestructor
    <3> QED
      BY <2>2, <3>1, LoopCallsDestructorKeeps
  <2>3. ASSUME LoopDestructorDone PROVE IInv'
    <3>1. /\ calls # <<>> /\ Current.fn = "call_destructors"
      BY <2>3 DEF LoopDestructorDone, At
    <3>2. loop < top
      <4>1. Len(calls) \in 1 .. Len(calls)
        BY <1>a, <1>b, <3>1, LenProperties
      <4> QED
        BY <1>b, <3>1, <4>1 DEF IInv, LoopCalls
    <3>3. PICK h \in Handles : h = loop
      BY <1>c, <3>2
    <3> QED
      BY <2>3, <3>3, LoopDestructorDoneKeeps
  <2>4. ASSUME LoopFreesStorage \/ LoopStorageFreed PROVE IInv'
    BY <2>4, LoopFreesStorageKeeps, LoopStorageFreedKeeps
  <2>5. ASSUME EndGlobals \/ LoopSkips \/ LoopEnds PROVE IInv'
    BY <2>5, PhaseStepKeeps
  <2>6. ASSUME Over PROVE IInv'
    BY <2>6, StutterKeeps DEF Over
  <2> QED
    BY <1>3, <2>1, <2>2, <2>3, <2>4, <2>5, <2>6 DEF ShutdownStep
<1>4. ASSUME UNCHANGED vars PROVE IInv'
  BY <1>4, StutterKeeps
<1> QED
  BY <1>1, <1>2, <1>3, <1>4 DEF Next

\* The invariant holds in every state of every behaviour.
LEMMA StoreInvariant == Spec => []IInv
BY StoreInit, StoreStep, PTL DEF Spec

-----------------------------------------------------------------------------
(* What follows *)

\* The table, its counters and its references have their types, no refcount is
\* negative or above the number of references, and the handles in use fit into
\* the buckets allocated, also while the table grows in a destructor.
THEOREM TypeOKHolds == Spec => []TypeOK
<1>1. ASSUME IInv PROVE TypeOK
  <2>1. StoreTypes /\ CountBounds
    BY <1>1 DEF IInv
  <2>2. \A h \in Handles : slot[h].valid \in BOOLEAN /\ slot[h].destructed \in BOOLEAN
    BY <2>1 DEF StoreTypes, Bucket
  <2>3. \A r \in AllRefs :
           /\ ref[r].by \in {"none", "script", "property", "temp", "loop", "dying", "leaked"}
           /\ ref[r].of \in Handles \cup {0}
           /\ ref[r].handle \in Handles \cup {0}
    BY <2>1 DEF StoreTypes, RefRecord
  <2>4. \A h \in Handles : slot[h].refcount \in 0 .. Cardinality(AllRefs)
    BY <2>1 DEF CountBounds
  <2>5. /\ top \in 1 .. MaxHandle + 1 /\ size >= top /\ base \in Nat
        /\ freeList \in Seq(Handles) /\ loop \in 1 .. MaxHandle + 1
        /\ phase \in {"script", "symbols", "destructors", "globals", "storage", "done"}
    BY <2>1 DEF StoreTypes, Phases
  <2> QED
    BY <2>2, <2>3, <2>4, <2>5 DEF TypeOK
<1> QED
  BY StoreInvariant, <1>1, PTL

\* zend_objects_store_add_ref and zend_objects_store_del_ref keep obj->refcount
\* of every object equal to the number of references to it, through destructors,
\* bailouts, the moves of the table and the loops of the shutdown.
THEOREM RefcountExactHolds == Spec => []RefcountExact
<1>1. IInv => RefcountExact
  BY DEF IInv, RefsCounted, RefcountExact
<1> QED
  BY StoreInvariant, <1>1, PTL

\* Up to the end of the destructors, no reference leads to an object that is
\* freed or being freed, but the one whose drop frees it.
THEOREM NoDanglingHolds == Spec => []NoDangling
<1>1. ASSUME IInv PROVE NoDangling
  <2> SUFFICES ASSUME phase \notin {"storage", "done"}, NEW r \in AllRefs, Live(r)
               PROVE  \/ slot[ref[r].handle].valid /\ ~BeingFreed(ref[r].handle)
                      \/ \E i \in DOMAIN calls :
                            /\ calls[i].fn = "del_ref" /\ calls[i].ref = r
                            /\ calls[i].pc \in {"freeing", "dec"}
    BY DEF NoDangling
  <2>1. /\ ref[r].handle \in 1 .. top - 1
        /\ calls \in Seq(CallFrame)
        /\ top \in 1 .. MaxHandle + 1
    BY <1>1 DEF IInv, UsedHandles, StoreTypes
  <2>2. PICK h \in Handles : h = ref[r].handle /\ Refers(r, h)
    BY <2>1, MaxHandleNat DEF Refers, Handles
  <2>3. DOMAIN calls = 1 .. Len(calls) /\ Len(calls) \in Nat
    BY <2>1, LenProperties
  <2>4. CASE ~slot[h].valid
    <3>1. PICK i \in DOMAIN freeList : freeList[i] = h
      BY <1>1, <2>1, <2>2, <2>4 DEF IInv, FreeListExact
    <3>2. /\ Len(calls) > 0
          /\ calls[Len(calls)].fn = "del_ref"
          /\ calls[Len(calls)].pc = "dec"
          /\ calls[Len(calls)].ref = r
      BY <1>1, <2>2, <3>1 DEF IInv, FreeUnreferenced
    <3>3. Len(calls) \in DOMAIN calls
      BY <2>3, <3>2
    <3> QED
      BY <3>2, <3>3
  <2>5. ASSUME BeingFreed(h)
        PROVE  \E i \in DOMAIN calls :
                  /\ calls[i].fn = "del_ref" /\ calls[i].ref = r
                  /\ calls[i].pc \in {"freeing", "dec"}
    <3>1. PICK i \in DOMAIN calls :
             calls[i].fn = "del_ref" /\ calls[i].pc = "freeing" /\ calls[i].handle = h
      BY <2>5 DEF BeingFreed
    <3>2. calls[i].ref = r
      BY <1>1, <2>2, <2>3, <3>1 DEF IInv, DelRefCalls
    <3> QED
      BY <3>1, <3>2
  <2> QED
    BY <2>2, <2>4, <2>5
<1> QED
  BY StoreInvariant, <1>1, PTL

\* The chain behind free_list_head holds each free handle once and no other, until
\* zend_objects_store_free_object_storage stops to put handles on it.
THEOREM FreeListExactHolds == Spec => []FreeListExact
<1>1. IInv => FreeListExact
  BY DEF IInv
<1> QED
  BY StoreInvariant, <1>1, PTL

\* While the script runs and no call of the store is in progress, every object is
\* referred to: zend_objects_store_del_ref frees an object with its last
\* reference, also one whose destructor brought it back or bailed out.
THEOREM NoOrphanHolds == Spec => []NoOrphan
<1>1. ASSUME IInv PROVE NoOrphan
  <2> SUFFICES ASSUME phase = "script", NEW h \in Handles, slot[h].valid
               PROVE  \E r \in AllRefs : Live(r) /\ ref[r].handle = h
    BY DEF NoOrphan
  <2>1. slot[h].refcount >= 1 /\ slot[h].refcount = Cardinality(RefsTo(h))
    BY <1>1 DEF IInv, ScriptHolds, RefsCounted
  <2>2. RefsTo(h) # {}
    BY <2>1, FS_EmptySet
  <2> QED
    BY <2>2 DEF RefsTo
<1> QED
  BY StoreInvariant, <1>1, PTL

=============================================================================
