---------------------------- MODULE ObjectsStore ----------------------------
(***************************************************************************)
(* The objects store (Zend/zend_objects_API.c): the table of all objects   *)
(* of a request, their reference counts, their destructors and the free    *)
(* list of handles, from the running script to the end of the request.     *)
(*                                                                         *)
(* Dropping a reference may run a destructor, which is user code: it can   *)
(* create objects (and move the table), drop and copy references, leave    *)
(* the object reachable again, or never return (exit, a fatal error).      *)
(* Freeing an object drops the references it holds, one by one.  The C     *)
(* calls in progress are the stack calls; user code runs when it is empty, *)
(* or when the call on top of it is inside a destructor.                   *)
(***************************************************************************)
EXTENDS Integers, Sequences, FiniteSets

CONSTANTS
    Refs,           \* zvals of type object that user code may hold
    MaxHandle,      \* bound: the handles user code may come to use
    InitSize        \* buckets allocated at first (1024 in init_executor)

ASSUME MaxHandleNat == MaxHandle \in Nat
ASSUME InitSizePos  == InitSize \in Nat \ {0}
ASSUME RefsFinite   == IsFiniteSet(Refs)
ASSUME RefsNotInts  == Refs \cap (0 .. MaxHandle) = {}

Handles == 1 .. MaxHandle

(***************************************************************************)
(* References besides those of user code: ref h is the zval made for $this *)
(* while the destructor of object h runs, and ref 0 is the count that      *)
(* zend_objects_store_call_destructors holds around a destructor.          *)
(***************************************************************************)
LoopRef == 0
AllRefs == Refs \cup Handles \cup {LoopRef}

VARIABLES
    slot,       \* the bucket of each handle
    top,        \* the first handle never used
    size,       \* buckets allocated
    base,       \* how often the table has moved in memory
    freeList,   \* free_list_head and the chain of free_list.next behind it
    ref,        \* who holds each reference, and to what
    calls,      \* the C calls in progress, the innermost last
    phase,      \* the script, then the steps of the request's shutdown
    loop,       \* i of the two loops over the store at shutdown
    stale,      \* a bucket was written through a pointer into a moved table
    runs        \* history: for each handle, the destructor calls of its object

store == <<slot, top, size, base, freeList>>
vars  == <<store, ref, calls, phase, loop, stale, runs>>

\* A reference is held by a variable of the script, by the property of an object
\* (of), by a running destructor (temp), by the loop at shutdown; it is dying
\* while it is being dropped, and leaked when nothing will drop it any more.
RefTo(h, by, of) == [by |-> by, of |-> of, handle |-> h]
NoRef == RefTo(0, "none", 0)

Live(r) == ref[r].by # "none"
PropertyOf(r, h) == ref[r].by = "property" /\ ref[r].of = h

\* The references that obj->refcount of a handle counts.
RefsTo(h) == {r \in AllRefs : Live(r) /\ ref[r].handle = h}

Current == calls[Len(calls)]
Below   == SubSeq(calls, 1, Len(calls) - 1)

At(fn, pc) == calls # <<>> /\ Current.fn = fn /\ Current.pc = pc

\* Replace the innermost call, and put another one on top of it.
Become(frame)       == Append(Below, frame)
Enter(stack, frame) == Append(stack, frame)

Frame(fn, h, r, pc) ==
    [fn |-> fn, handle |-> h, ref |-> r, pc |-> pc, base |-> base, failed |-> FALSE]

\* zend_objects_store_del_ref_by_handle_ex for the object zval r refers to;
\* obj is computed from the table as it lies now.
DelRef(r) == Frame("del_ref", ref[r].handle, r, "entry")

UserRuns ==
    \/ phase = "script" /\ calls = <<>>
    \/ calls # <<>> /\ Current.pc = "in_dtor"

\* What user code can name: its variables, $this of the destructors that run,
\* and the properties of the objects behind these.
Visible(h) == \E r \in AllRefs : ref[r].by \in {"script", "temp"} /\ ref[r].handle = h
Readable(r) ==
    \/ ref[r].by \in {"script", "temp"}
    \/ ref[r].by = "property" /\ Visible(ref[r].of) /\ slot[ref[r].of].valid

Init ==
    /\ slot = [h \in Handles |->
                  [valid |-> FALSE, destructed |-> FALSE, refcount |-> 0]]
    /\ top = 1
    /\ size = InitSize
    /\ base = 0
    /\ freeList = <<>>
    /\ ref = [r \in AllRefs |-> NoRef]
    /\ calls = <<>>
    /\ phase = "script"
    /\ loop = 1
    /\ stale = FALSE
    /\ runs = [h \in Handles |-> 0]

-----------------------------------------------------------------------------
(* What user code does *)

\* zend_objects_store_put of an object whose only reference is r.  When the
\* constructor throws, zend_object_store_ctor_failed marks it destructed.
Put(h, r, ctorFailed) ==
    /\ slot' = [slot EXCEPT ![h] = [valid |-> TRUE, destructed |-> ctorFailed,
                                    refcount |-> 1]]
    /\ ref' = [ref EXCEPT ![r] = RefTo(h, "script", 0)]
    /\ runs' = [runs EXCEPT ![h] = 0]
    /\ UNCHANGED <<calls, phase, loop, stale>>

NewFromFreeList(r, ctorFailed) ==
    /\ UserRuns
    /\ ~Live(r)
    /\ freeList # <<>>
    /\ freeList' = Tail(freeList)
    /\ Put(Head(freeList), r, ctorFailed)
    /\ UNCHANGED <<top, size, base>>

\* Mutant: the table grows one object too late.
NewOnTop_GrowsLate(r, ctorFailed) ==
    /\ UserRuns
    /\ ~Live(r)
    /\ freeList = <<>>
    /\ top <= MaxHandle
    /\ IF top > size
       THEN size' = 2 * size /\ base' = base + 1
       ELSE UNCHANGED <<size, base>>
    /\ top' = top + 1
    /\ Put(top, r, ctorFailed)
    /\ UNCHANGED freeList

\* A full table is doubled with erealloc, which may move it.
NewOnTop(r, ctorFailed) ==
    /\ UserRuns
    /\ ~Live(r)
    /\ freeList = <<>>
    /\ top <= MaxHandle
    /\ IF top = size
       THEN size' = 2 * size /\ base' = base + 1
       ELSE UNCHANGED <<size, base>>
    /\ top' = top + 1
    /\ Put(top, r, ctorFailed)
    /\ UNCHANGED freeList

\* zend_objects_store_add_ref: r is copied to s, a variable or a property.
AddRef(r, s) ==
    /\ UserRuns
    /\ Readable(r)
    /\ ~Live(s)
    /\ slot[ref[r].handle].valid
    /\ \/ ref' = [ref EXCEPT ![s] = RefTo(ref[r].handle, "script", 0)]
       \/ \E h \in Handles :
             /\ Visible(h) /\ slot[h].valid
             /\ ref' = [ref EXCEPT ![s] = RefTo(ref[r].handle, "property", h)]
    /\ slot' = [slot EXCEPT ![ref[r].handle].refcount = @ + 1]
    /\ UNCHANGED <<top, size, base, freeList, calls, phase, loop, stale, runs>>

\* A variable or a property is unset or overwritten: what held r forgets it
\* before _zval_ptr_dtor comes to zend_objects_store_del_ref.
Drop(r) ==
    /\ ref' = [ref EXCEPT ![r].by = "dying"]
    /\ calls' = Enter(calls, DelRef(r))

Unset(r) ==
    /\ UserRuns
    /\ r \in Refs
    /\ Readable(r)
    /\ Drop(r)
    /\ UNCHANGED <<store, phase, loop, stale, runs>>

EndScript ==
    /\ phase = "script"
    /\ calls = <<>>
    /\ phase' = "symbols"
    /\ UNCHANGED <<store, ref, calls, loop, stale, runs>>

-----------------------------------------------------------------------------
(* Bailout: exit(), or a fatal error, which first marks every object as    *)
(* destructed, unwinds the C stack to the innermost zend_try.              *)

MarkDestructed(buckets) ==
    [h \in Handles |-> [buckets[h] EXCEPT !.destructed = @ \/ buckets[h].valid]]

\* References whose holder the unwinding jumps over are never given back.
Abandon(lost) ==
    [r \in AllRefs |-> IF r \in lost THEN [ref[r] EXCEPT !.by = "leaked"] ELSE ref[r]]

\* The bailout reaches the calls left on stack, with the table as buckets.
\* zend_objects_store_del_ref_by_handle_ex catches it around the destructor
\* and around free_storage; shutdown_destructors and shutdown_executor catch
\* it around each step of the shutdown.
Unwind(stack, buckets) ==
    IF stack # <<>> /\ stack[Len(stack)].fn = "del_ref"
    THEN LET f == stack[Len(stack)]
         IN /\ calls' = Append(SubSeq(stack, 1, Len(stack) - 1),
                               [f EXCEPT !.failed = TRUE,
                                         !.pc = IF @ = "in_dtor" THEN "dtor_done" ELSE @])
            /\ ref' = Abandon({r \in AllRefs :
                          \/ f.pc = "in_dtor" /\ r = f.handle /\ Live(r)
                          \/ f.pc = "freeing" /\ PropertyOf(r, f.handle)})
            /\ slot' = buckets
            /\ UNCHANGED <<phase, loop>>
    ELSE /\ calls' = <<>>
         /\ ref' = Abandon({r \in AllRefs :
                       \/ ref[r].by \in {"temp", "loop"}
                       \/ phase = "storage" /\ PropertyOf(r, loop)})
         /\ phase' = CASE phase = "script" -> "symbols"
                       [] phase \in {"symbols", "destructors"} -> "globals"
                       [] phase = "globals" -> "storage"
                       [] phase = "storage" -> "done"
         /\ slot' = IF phase \in {"symbols", "destructors"}
                    THEN MarkDestructed(buckets) ELSE buckets
         /\ loop' = 1

Bailout(fatal) ==
    /\ UserRuns
    /\ Unwind(calls, IF fatal THEN MarkDestructed(slot) ELSE slot)
    /\ UNCHANGED <<top, size, base, freeList, stale, runs>>

\* A call whose destructor or free_storage bailed out does so itself at its end.
BailoutOn ==
    /\ At("del_ref", "bailout")
    /\ Unwind(Below, slot)
    /\ UNCHANGED <<top, size, base, freeList, stale, runs>>

-----------------------------------------------------------------------------
(* zend_objects_store_del_ref_by_handle_ex, a step at a time *)

\* zend_objects_destroy_object makes a zval for $this and calls __destruct;
\* held is the count a caller adds first.
CallDestructor(h, held) ==
    /\ slot' = [slot EXCEPT ![h].destructed = TRUE, ![h].refcount = @ + 1 + Cardinality(held)]
    /\ ref' = [r \in AllRefs |-> IF r = h THEN RefTo(h, "temp", 0)
                                 ELSE IF r \in held THEN RefTo(h, "loop", 0)
                                 ELSE ref[r]]
    /\ runs' = [runs EXCEPT ![h] = @ + 1]

IsLast(h) == slot[h].valid /\ slot[h].refcount = 1

\* The last reference goes and the destructor has not run.
LastRef ==
    /\ At("del_ref", "entry")
    /\ IsLast(Current.handle)
    /\ ~slot[Current.handle].destructed
    /\ CallDestructor(Current.handle, {})
    /\ calls' = Become([Current EXCEPT !.pc = "in_dtor"])
    /\ UNCHANGED <<top, size, base, freeList, phase, loop, stale>>

\* Mutant: an object whose destructor has run before is not freed.
LastRefAgain_Kept ==
    /\ At("del_ref", "entry")
    /\ IsLast(Current.handle)
    /\ slot[Current.handle].destructed
    /\ calls' = Become([Current EXCEPT !.pc = "dec"])
    /\ UNCHANGED <<store, ref, phase, loop, stale, runs>>

LastRefAgain ==
    /\ At("del_ref", "entry")
    /\ IsLast(Current.handle)
    /\ slot[Current.handle].destructed
    /\ calls' = Become([Current EXCEPT !.pc = "dtor_done"])
    /\ UNCHANGED <<store, ref, phase, loop, stale, runs>>

NotLastRef ==
    /\ At("del_ref", "entry")
    /\ ~IsLast(Current.handle)
    /\ calls' = Become([Current EXCEPT !.pc = "dec"])
    /\ UNCHANGED <<store, ref, phase, loop, stale, runs>>

\* The destructor returns, and its zval for $this goes through _zval_ptr_dtor.
DestructorReturns ==
    /\ calls # <<>> /\ Current.pc = "in_dtor"
    /\ ref' = [ref EXCEPT ![Current.handle].by = "dying"]
    /\ calls' = Enter(Become([Current EXCEPT !.pc = "dtor_done"]), DelRef(Current.handle))
    /\ UNCHANGED <<store, phase, loop, stale, runs>>

\* Mutant: the object is freed whatever its destructor did with $this.
AfterDestructor_NotAsked ==
    /\ At("del_ref", "dtor_done")
    /\ calls' = Become([Current EXCEPT !.base = base, !.pc = "freeing"])
    /\ UNCHANGED <<store, ref, phase, loop, stale, runs>>

\* obj is read again, for the store may have been reallocated, and the object
\* is freed unless the destructor made it reachable again.
AfterDestructor ==
    /\ At("del_ref", "dtor_done")
    /\ calls' = Become([Current EXCEPT !.base = base,
                           !.pc = IF slot[Current.handle].refcount = 1 THEN "freeing" ELSE "dec"])
    /\ UNCHANGED <<store, ref, phase, loop, stale, runs>>

\* free_storage: the next property goes through _zval_ptr_dtor.
FreeProperty(r) ==
    /\ calls # <<>> /\ Current.pc = "freeing"
    /\ PropertyOf(r, Current.handle)
    /\ Drop(r)
    /\ UNCHANGED <<store, phase, loop, stale, runs>>

PropertiesGone == \A r \in AllRefs : ~PropertyOf(r, Current.handle)

\* Mutant: valid is not reset.
AddToFreeList_StaysValid ==
    /\ At("del_ref", "freeing")
    /\ PropertiesGone
    /\ freeList' = <<Current.handle>> \o freeList
    /\ calls' = Become([Current EXCEPT !.pc = "dec"])
    /\ UNCHANGED <<slot, top, size, base, ref, phase, loop, stale, runs>>

AddToFreeList ==
    /\ At("del_ref", "freeing")
    /\ PropertiesGone
    /\ freeList' = <<Current.handle>> \o freeList
    /\ slot' = [slot EXCEPT ![Current.handle].valid = FALSE]
    /\ calls' = Become([Current EXCEPT !.pc = "dec"])
    /\ UNCHANGED <<top, size, base, ref, phase, loop, stale, runs>>

\* Mutant: a failed destructor's bailout comes before obj->refcount--.
DecRefcount_NotWhenFailed ==
    /\ At("del_ref", "dec")
    /\ IF Current.base = base /\ ~Current.failed
       THEN slot' = [slot EXCEPT ![Current.handle].refcount = @ - 1] /\ UNCHANGED stale
       ELSE stale' = (stale \/ Current.base # base) /\ UNCHANGED slot
    /\ ref' = [ref EXCEPT ![Current.ref] = NoRef]
    /\ calls' = IF Current.failed THEN Become([Current EXCEPT !.pc = "bailout"]) ELSE Below
    /\ UNCHANGED <<top, size, base, freeList, phase, loop, runs>>

\* obj->refcount--, through the obj read before free_storage.
DecRefcount ==
    /\ At("del_ref", "dec")
    /\ IF Current.base = base
       THEN slot' = [slot EXCEPT ![Current.handle].refcount = @ - 1] /\ UNCHANGED stale
       ELSE stale' = TRUE /\ UNCHANGED slot
    /\ ref' = [ref EXCEPT ![Current.ref] = NoRef]
    /\ calls' = IF Current.failed THEN Become([Current EXCEPT !.pc = "bailout"]) ELSE Below
    /\ UNCHANGED <<top, size, base, freeList, phase, loop, runs>>

-----------------------------------------------------------------------------
(* The shutdown of the request *)

\* shutdown_destructors: variables of the global scope whose object has no
\* other variable are removed, and their objects destructed, again and again;
\* shutdown_executor later destroys all of them.  Variables the symbol table
\* does not hold (statics, locals of abandoned functions) may stay.
DestroyGlobal(r) ==
    /\ phase \in {"symbols", "globals"}
    /\ calls = <<>>
    /\ r \in Refs
    /\ ref[r].by = "script"
    /\ Drop(r)
    /\ UNCHANGED <<store, phase, loop, stale, runs>>

EndGlobals ==
    /\ phase \in {"symbols", "globals"}
    /\ calls = <<>>
    /\ phase' = IF phase = "symbols" THEN "destructors" ELSE "storage"
    /\ loop' = 1
    /\ UNCHANGED <<store, ref, calls, stale, runs>>

\* Mutant: the loop does not look at destructor_called.
LoopCallsDestructor_Again ==
    /\ phase = "destructors"
    /\ calls = <<>>
    /\ loop < top
    /\ slot[loop].valid
    /\ CallDestructor(loop, {LoopRef})
    /\ calls' = Enter(calls, Frame("call_destructors", loop, LoopRef, "in_dtor"))
    /\ UNCHANGED <<top, size, base, freeList, phase, loop, stale>>

\* zend_objects_store_call_destructors, for (i = 1; i < objects->top; i++)
LoopCallsDestructor ==
    /\ phase = "destructors"
    /\ calls = <<>>
    /\ loop < top
    /\ slot[loop].valid
    /\ ~slot[loop].destructed
    /\ CallDestructor(loop, {LoopRef})
    /\ calls' = Enter(calls, Frame("call_destructors", loop, LoopRef, "in_dtor"))
    /\ UNCHANGED <<top, size, base, freeList, phase, loop, stale>>

\* The count is given back without looking whether it was the last one.
LoopDestructorDone ==
    /\ At("call_destructors", "dtor_done")
    /\ slot' = [slot EXCEPT ![loop].refcount = @ - 1]
    /\ ref' = [ref EXCEPT ![LoopRef] = NoRef]
    /\ calls' = Below
    /\ loop' = loop + 1
    /\ UNCHANGED <<top, size, base, freeList, phase, stale, runs>>

\* zend_objects_store_free_object_storage: handles are not put on the free list.
LoopFreesStorage ==
    /\ phase = "storage"
    /\ calls = <<>>
    /\ loop < top
    /\ slot[loop].valid
    /\ slot' = [slot EXCEPT ![loop].valid = FALSE]
    /\ calls' = Enter(calls, Frame("free_object_storage", loop, LoopRef, "freeing"))
    /\ UNCHANGED <<top, size, base, freeList, ref, phase, loop, stale, runs>>

LoopStorageFreed ==
    /\ At("free_object_storage", "freeing")
    /\ PropertiesGone
    /\ calls' = Below
    /\ loop' = loop + 1
    /\ UNCHANGED <<store, ref, phase, stale, runs>>

LoopSkips ==
    /\ calls = <<>>
    /\ loop < top
    /\ \/ phase = "destructors" /\ (slot[loop].valid => slot[loop].destructed)
       \/ phase = "storage" /\ ~slot[loop].valid
    /\ loop' = loop + 1
    /\ UNCHANGED <<store, ref, calls, phase, stale, runs>>

LoopEnds ==
    /\ phase \in {"destructors", "storage"}
    /\ calls = <<>>
    /\ loop >= top
    /\ phase' = IF phase = "destructors" THEN "globals" ELSE "done"
    /\ loop' = 1
    /\ UNCHANGED <<store, ref, calls, stale, runs>>

\* zend_objects_store_destroy: nothing uses the store after it.
Over == phase = "done" /\ UNCHANGED vars

-----------------------------------------------------------------------------
UserStep ==
    \/ \E r \in Refs, ctorFailed \in BOOLEAN :
          NewFromFreeList(r, ctorFailed) \/ NewOnTop(r, ctorFailed)
    \/ \E r \in AllRefs, s \in Refs : AddRef(r, s)
    \/ \E r \in Refs : Unset(r)
    \/ \E fatal \in BOOLEAN : Bailout(fatal)
    \/ DestructorReturns
    \/ EndScript

DelRefStep ==
    \/ LastRef \/ LastRefAgain \/ NotLastRef \/ AfterDestructor
    \/ \E r \in Refs : FreeProperty(r)
    \/ AddToFreeList \/ DecRefcount \/ BailoutOn

ShutdownStep ==
    \/ \E r \in Refs : DestroyGlobal(r)
    \/ EndGlobals \/ LoopCallsDestructor \/ LoopDestructorDone
    \/ LoopFreesStorage \/ LoopStorageFreed \/ LoopSkips \/ LoopEnds \/ Over

Next == UserStep \/ DelRefStep \/ ShutdownStep

Spec == Init /\ [][Next]_vars

-----------------------------------------------------------------------------
(* Properties *)

TypeOK ==
    /\ \A h \in Handles : /\ slot[h].valid \in BOOLEAN
                          /\ slot[h].destructed \in BOOLEAN
                          /\ slot[h].refcount \in 0 .. Cardinality(AllRefs)
    /\ top \in 1 .. MaxHandle + 1
    /\ size >= top
    /\ base \in Nat
    /\ freeList \in Seq(Handles)
    /\ \A r \in AllRefs : /\ ref[r].by \in {"none", "script", "property", "temp",
                                            "loop", "dying", "leaked"}
                          /\ ref[r].of \in Handles \cup {0}
                          /\ ref[r].handle \in Handles \cup {0}
    /\ phase \in {"script", "symbols", "destructors", "globals", "storage", "done"}
    /\ loop \in 1 .. MaxHandle + 1

\* obj->refcount of an object counts the references to it, each of them once.
RefcountExact ==
    \A h \in Handles : slot[h].valid => slot[h].refcount = Cardinality(RefsTo(h))

\* No reference leads to an object that is freed or whose properties are being
\* destroyed, except the one whose drop frees it, as long as the request has not
\* begun to free all objects: user code that the freeing runs never meets it.
BeingFreed(h) == \E i \in DOMAIN calls :
    calls[i].fn = "del_ref" /\ calls[i].pc = "freeing" /\ calls[i].handle = h

NoDangling ==
    phase \notin {"storage", "done"} =>
        \A r \in AllRefs : Live(r) =>
            \/ slot[ref[r].handle].valid /\ ~BeingFreed(ref[r].handle)
            \/ \E i \in DOMAIN calls :
                  calls[i].fn = "del_ref" /\ calls[i].ref = r /\ calls[i].pc \in {"freeing", "dec"}

\* Until the store is torn down, the free list holds each handle that was used
\* and is free, once.
FreeListExact ==
    /\ \A i, j \in DOMAIN freeList : i # j => freeList[i] # freeList[j]
    /\ \A i \in DOMAIN freeList : freeList[i] < top /\ ~slot[freeList[i]].valid
    /\ phase \notin {"storage", "done"} =>
           \A h \in 1 .. top - 1 : ~slot[h].valid => \E i \in DOMAIN freeList : freeList[i] = h

\* While the script runs, no object outlives its last reference.
NoOrphan ==
    phase = "script" /\ calls = <<>> =>
        \A h \in Handles : slot[h].valid => \E r \in AllRefs : Live(r) /\ ref[r].handle = h

\* A destructor runs at most once for an object, however often the object is
\* made reachable again and also when the request ends in the middle of it.
DestructedOnce == \A h \in Handles : runs[h] <= 1

\* zend_objects_API.c:213: the store may be reallocated while user code runs, so
\* a pointer into it is read again before it is used.
NoStalePointer == ~stale

\* zend_execute_API.c:236: no destructor gets to see an object already freed.
DestructorsSeeLiveObjects ==
    UserRuns => \A h \in Handles : Visible(h) => slot[h].valid
=============================================================================
