------------------------------- MODULE ZendGC -------------------------------
(***************************************************************************)
(* The cycle collector (Zend/zend_gc.c) over the reference counts of the   *)
(* engine: the heap of zvals and object buckets, the buffer of possible    *)
(* roots, and the collection with its destructors.                         *)
(*                                                                         *)
(* The C code in progress is the stack of tasks work, the next one first:  *)
(* a call that recurses over the elements of an array or the properties of *)
(* an object puts one task for each of them on the stack.  User code runs  *)
(* when the stack is empty, and when the first task is a destructor that   *)
(* runs.  All variables are references (=&), so nothing is separated.      *)
(***************************************************************************)
EXTENDS Integers, Sequences, FiniteSets, SequencesExt

CONSTANTS
    Vars,           \* variables of the script
    Zvals,          \* memory for zvals
    Handles,        \* buckets of the objects store
    BufferSize,     \* entries of the root buffer (10000)
    MaxElems,       \* bound: elements of an array, properties of an object
    HasDestructor,  \* whether classes declare __destruct: a subset of BOOLEAN
    DestructorsAdd, \* whether destructors create and store, or only drop and collect
    MayDisable      \* whether the script calls gc_disable

ASSUME FiniteHeap == IsFiniteSet(Zvals) /\ IsFiniteSet(Handles) /\ Zvals \cap Handles = {}
ASSUME BufferSizePos == BufferSize \in Nat \ {0}
ASSUME MaxElemsNat == MaxElems \in Nat

\* The zval zend_objects_destroy_object makes for $this of a destructor, and the
\* variable that holds it.
This(h) == <<h>>
Cells   == Zvals \cup {This(h) : h \in Handles}
Names   == Vars \cup Handles
Nodes   == Cells \cup Handles
None    == <<>>

VARIABLES
    node,       \* zvals and buckets: type, count, what they hold, colour, address
    var,        \* the zval of each variable
    roots,      \* GC_G(roots), the newest first
    unused,     \* entries on GC_G(unused)
    fresh,      \* entries from GC_G(first_unused) on
    enabled,    \* GC_G(gc_enabled)
    active,     \* GC_G(gc_active)
    toFree,     \* GC_G(zval_to_free)
    freeList,   \* GC_G(free_list)
    nextToFree, \* GC_G(next_to_free) and what follows it
    work        \* the C code in progress

buffer == <<roots, unused, fresh>>
lists  == <<toFree, freeList, nextToFree>>
vars   == <<node, var, buffer, enabled, active, lists, work>>

Task(op, n) == [op |-> op, node |-> n]
Tasks(op, ns) == [i \in DOMAIN ns |-> Task(op, ns[i])]

Free == [type |-> "free", rc |-> 0, elems |-> <<>>, obj |-> None,
         color |-> "black", addr |-> "null", destructed |-> FALSE]

Init ==
    /\ node = [n \in Nodes |-> Free]
    /\ var = [v \in Names |-> None]
    /\ roots = <<>>
    /\ unused = 0
    /\ fresh = BufferSize
    /\ enabled = TRUE
    /\ active = FALSE
    /\ toFree = <<>>
    /\ freeList = <<>>
    /\ nextToFree = <<>>
    /\ work = <<>>

Doing(op) == work # <<>> /\ Head(work).op = op
Current   == Head(work).node

\* The current task is replaced by the tasks it leads to.
Become(tasks) == work' = tasks \o Tail(work)

-----------------------------------------------------------------------------
(* The root buffer *)

\* Entries are taken off the unused list first.
EntryLeft == unused > 0 \/ fresh > 0
\* Mutant: entries given back are not used again.
TakeEntry_Fresh == fresh' = fresh - 1 /\ UNCHANGED unused

TakeEntry ==
    IF unused > 0 THEN unused' = unused - 1 /\ UNCHANGED fresh
                  ELSE fresh' = fresh - 1 /\ UNCHANGED unused

\* gc_zval_possible_root and gc_zobj_possible_root of n, with heap the nodes as
\* they are at the call.  A full buffer is emptied by a collection first, during
\* which zval z is kept.
PossibleRoot(heap, n, z, rest) ==
    LET purple == [heap EXCEPT ![n].color = "purple"] IN
    CASE heap[n].color = "purple" ->
            node' = heap /\ work' = rest /\ UNCHANGED buffer
      [] heap[n].color # "purple" /\ heap[n].addr # "null" ->
            node' = purple /\ work' = rest /\ UNCHANGED buffer
      [] heap[n].color # "purple" /\ heap[n].addr = "null" /\ EntryLeft ->
            /\ node' = [purple EXCEPT ![n].addr = "buffer"]
            /\ roots' = <<n>> \o roots
            /\ TakeEntry
            /\ work' = rest
      [] heap[n].color # "purple" /\ heap[n].addr = "null" /\ ~EntryLeft /\ ~enabled ->
            /\ node' = [purple EXCEPT ![z].color = "black"]
            /\ work' = rest
            /\ UNCHANGED buffer
      [] heap[n].color # "purple" /\ heap[n].addr = "null" /\ ~EntryLeft /\ enabled ->
            /\ node' = [purple EXCEPT ![z].rc = @ + 1]
            /\ work' = <<Task("collect", None),
                         [op |-> "root_after", node |-> n, zval |-> z]>> \o rest
            /\ UNCHANGED buffer

\* A zval of the free list of a collection that runs.
Doomed(heap, z) == heap[z].addr = "list" /\ heap[z].color = "black"

\* Mutant: only arrays are possible roots.
CheckZval_ArraysOnly(heap, z, rest) ==
    IF heap[z].type # "array" \/ Doomed(heap, z)
    THEN node' = heap /\ work' = rest /\ UNCHANGED buffer
    ELSE PossibleRoot(heap, z, z, rest)

\* GC_ZVAL_CHECK_POSSIBLE_ROOT
CheckZval(heap, z, rest) ==
    IF heap[z].type \notin {"array", "object"} \/ Doomed(heap, z)
    THEN node' = heap /\ work' = rest /\ UNCHANGED buffer
    ELSE IF heap[z].type = "array"
    THEN PossibleRoot(heap, z, z, rest)
    ELSE IF heap[heap[z].obj].type = "free"
    THEN node' = heap /\ work' = rest /\ UNCHANGED buffer
    ELSE PossibleRoot(heap, heap[z].obj, z, rest)

\* Mutant: the count that kept the zval during the collection stays.
RootAfter_StillCounted ==
    /\ Doing("root_after")
    /\ IF unused = 0
       THEN UNCHANGED <<node, buffer>>
       ELSE /\ node' = [node EXCEPT ![Current].color = "purple", ![Current].addr = "buffer"]
            /\ roots' = <<Current>> \o roots
            /\ unused' = unused - 1
            /\ UNCHANGED fresh
    /\ Become(<<>>)
    /\ UNCHANGED <<var, enabled, active, lists>>

\* The buffer is full again after the collection: the node is given up.
RootAfter ==
    /\ Doing("root_after")
    /\ LET n == Current
           z == Head(work).zval
           back == [node EXCEPT ![z].rc = @ - 1]
       IN IF unused = 0
          THEN node' = back /\ UNCHANGED buffer
          ELSE /\ node' = [back EXCEPT ![n].color = "purple", ![n].addr = "buffer"]
               /\ roots' = <<n>> \o roots
               /\ unused' = unused - 1
               /\ UNCHANGED fresh
    /\ Become(<<>>)
    /\ UNCHANGED <<var, enabled, active, lists>>

\* gc_remove_from_buffer
RemoveRoot(n) ==
    /\ roots' = RemoveFirst(roots, n)
    /\ unused' = unused + 1
    /\ UNCHANGED fresh

-----------------------------------------------------------------------------
(* User code *)

UserRuns == work = <<>> \/ Doing("destructor")
UserAdds == UserRuns /\ (work = <<>> \/ DestructorsAdd)

\* The variables user code can name: those of the script, and $this of the
\* destructors that run.
InScope(v) == v \in Vars \/ Task("destructor", v) \in ToSet(work)

\* The array, or the properties, behind a zval.
Container(z) == IF node[z].type = "object" THEN node[z].obj ELSE z

NewArray(v, z) ==
    /\ UserAdds
    /\ var[v] = None
    /\ node[z].type = "free"
    /\ node' = [node EXCEPT ![z] = [Free EXCEPT !.type = "array", !.rc = 1]]
    /\ var' = [var EXCEPT ![v] = z]
    /\ UNCHANGED <<buffer, enabled, active, lists, work>>

\* An object without a destructor is modelled as one whose destructor was called.
NewObject(v, z, h, destructor) ==
    /\ UserAdds
    /\ var[v] = None
    /\ node[z].type = "free"
    /\ node[h].type = "free"
    /\ node' = [node EXCEPT
          ![z] = [Free EXCEPT !.type = "object", !.rc = 1, !.obj = h],
          ![h] = [Free EXCEPT !.type = "bucket", !.rc = 1, !.destructed = ~destructor]]
    /\ var' = [var EXCEPT ![v] = z]
    /\ UNCHANGED <<buffer, enabled, active, lists, work>>

\* v is assigned a zval of its own for the object of w.
CopyHandle(v, w, z) ==
    /\ UserAdds
    /\ InScope(w)
    /\ var[v] = None
    /\ var[w] # None
    /\ node[var[w]].type = "object"
    /\ node[z].type = "free"
    /\ node' = [node EXCEPT
          ![z] = [Free EXCEPT !.type = "object", !.rc = 1, !.obj = node[var[w]].obj],
          ![node[var[w]].obj].rc = @ + 1]
    /\ var' = [var EXCEPT ![v] = z]
    /\ UNCHANGED <<buffer, enabled, active, lists, work>>

\* The zval of w becomes an element of the array of v, or a property of its object.
Store(v, w) ==
    /\ UserAdds
    /\ InScope(v) /\ InScope(w)
    /\ var[v] # None /\ var[w] # None
    /\ node[var[v]].type \in {"array", "object"}
    /\ Len(node[Container(var[v])].elems) < MaxElems
    /\ node' = [node EXCEPT ![Container(var[v])].elems = Append(@, var[w]),
                            ![var[w]].rc = @ + 1]
    /\ UNCHANGED <<var, buffer, enabled, active, lists, work>>

\* v becomes a reference to an element of w.
Fetch(v, w, i) ==
    /\ UserAdds
    /\ InScope(w)
    /\ var[v] = None
    /\ var[w] # None
    /\ node[var[w]].type \in {"array", "object"}
    /\ i \in DOMAIN node[Container(var[w])].elems
    /\ LET e == node[Container(var[w])].elems[i]
       IN /\ var' = [var EXCEPT ![v] = e]
          /\ node' = [node EXCEPT ![e].rc = @ + 1]
    /\ UNCHANGED <<buffer, enabled, active, lists, work>>

UnsetVar(v) ==
    /\ UserRuns
    /\ v \in Vars
    /\ var[v] # None
    /\ var' = [var EXCEPT ![v] = None]
    /\ work' = <<Task("ptr_dtor", var[v])>> \o work
    /\ UNCHANGED <<node, buffer, enabled, active, lists>>

UnsetElem(w, i) ==
    /\ UserRuns
    /\ InScope(w)
    /\ var[w] # None
    /\ node[var[w]].type \in {"array", "object"}
    /\ i \in DOMAIN node[Container(var[w])].elems
    /\ node' = [node EXCEPT ![Container(var[w])].elems = RemoveAt(@, i)]
    /\ work' = <<Task("ptr_dtor", node[Container(var[w])].elems[i])>> \o work
    /\ UNCHANGED <<var, buffer, enabled, active, lists>>

\* gc_collect_cycles() called by the script.
UserCollects ==
    /\ UserRuns
    /\ work' = <<Task("collect", None)>> \o work
    /\ UNCHANGED <<node, var, buffer, enabled, active, lists>>

\* gc_enable() and gc_disable()
SetEnabled ==
    /\ UserRuns
    /\ MayDisable
    /\ enabled' = ~enabled
    /\ UNCHANGED <<node, var, buffer, active, lists, work>>

\* __destruct returns, and $this is given back.
DestructorReturns ==
    /\ Doing("destructor")
    /\ var' = [var EXCEPT ![Current] = None]
    /\ Become(<<Task("ptr_dtor", This(Current))>>)
    /\ UNCHANGED <<node, buffer, enabled, active, lists>>

-----------------------------------------------------------------------------
(* Reference counting *)

\* Mutant: a zval that is freed stays in the buffer.
RemoveZval_Stays(heap, z) ==
    /\ node' = heap
    /\ nextToFree' = IF nextToFree # <<>> /\ Head(nextToFree) = z
                     THEN Tail(nextToFree) ELSE nextToFree
    /\ UNCHANGED buffer

\* GC_REMOVE_ZVAL_FROM_BUFFER in heap; a zval that a collection is going to free
\* is only taken out of the way of its loop.
RemoveZval(heap, z) ==
    CASE heap[z].addr = "null" ->
            node' = heap /\ UNCHANGED <<buffer, nextToFree>>
      [] heap[z].addr = "buffer" ->
            /\ node' = [heap EXCEPT ![z].addr = "null", ![z].color = "black"]
            /\ RemoveRoot(z)
            /\ UNCHANGED nextToFree
      [] heap[z].addr = "list" ->
            /\ node' = heap
            /\ nextToFree' = IF nextToFree # <<>> /\ Head(nextToFree) = z
                             THEN Tail(nextToFree) ELSE nextToFree
            /\ UNCHANGED buffer

\* _zval_ptr_dtor
PtrDtorLast ==
    /\ Doing("ptr_dtor")
    /\ node[Current].rc = 1
    /\ RemoveZval([node EXCEPT ![Current].rc = 0], Current)
    /\ Become((CASE node[Current].type = "array" -> Tasks("ptr_dtor", node[Current].elems)
                 [] node[Current].type = "object" ->
                        <<Task("del_ref", node[Current].obj),
                          [op |-> "check_object", node |-> node[Current].obj, zval |-> Current]>>
                 [] OTHER -> <<>>)
              \o <<Task("efree", Current)>>)
    /\ UNCHANGED <<var, enabled, active, toFree, freeList>>

PtrDtorNotLast ==
    /\ Doing("ptr_dtor")
    /\ node[Current].rc # 1
    /\ CheckZval([node EXCEPT ![Current].rc = @ - 1], Current, Tail(work))
    /\ UNCHANGED <<var, enabled, active, lists>>

Efree ==
    /\ Doing("efree")
    /\ node' = [node EXCEPT ![Current] = Free]
    /\ Become(<<>>)
    /\ UNCHANGED <<var, buffer, enabled, active, lists>>

\* zend_objects_store_del_ref_by_handle_ex, up to the destructor
DelRef ==
    /\ Doing("del_ref")
    /\ IF node[Current].type = "bucket" /\ node[Current].rc = 1
       THEN Become((IF node[Current].destructed THEN <<>> ELSE <<Task("call_destructor", Current)>>)
                   \o <<Task("destructed", Current)>>) /\ UNCHANGED node
       ELSE node' = [node EXCEPT ![Current].rc = @ - 1] /\ Become(<<>>)
    /\ UNCHANGED <<var, buffer, enabled, active, lists>>

\* destructor_called is set and zend_objects_destroy_object makes $this.
CallDestructor ==
    /\ Doing("call_destructor")
    /\ node' = [node EXCEPT
          ![This(Current)] = [Free EXCEPT !.type = "object", !.rc = 1, !.obj = Current],
          ![Current].rc = @ + 1,
          ![Current].destructed = TRUE]
    /\ var' = [var EXCEPT ![Current] = This(Current)]
    /\ Become(<<Task("destructor", Current)>>)
    /\ UNCHANGED <<buffer, enabled, active, lists>>

\* The object is freed unless its destructor stored it somewhere.
Destructed ==
    /\ Doing("destructed")
    /\ IF node[Current].rc # 1
       THEN /\ node' = [node EXCEPT ![Current].rc = @ - 1]
            /\ Become(<<>>)
            /\ UNCHANGED buffer
       ELSE /\ Become(Tasks("ptr_dtor", node[Current].elems) \o <<Task("efree", Current)>>)
            /\ IF node[Current].addr # "null" /\ ~active
               THEN /\ node' = [node EXCEPT ![Current].addr = "null", ![Current].color = "black"]
                    /\ RemoveRoot(Current)
               ELSE UNCHANGED <<node, buffer>>
    /\ UNCHANGED <<var, enabled, active, lists>>

\* GC_ZOBJ_CHECK_POSSIBLE_ROOT at the end of zend_objects_store_del_ref
CheckObject ==
    /\ Doing("check_object")
    /\ IF node[Current].type = "bucket"
       THEN PossibleRoot(node, Current, Head(work).zval, Tail(work))
       ELSE Become(<<>>) /\ UNCHANGED <<node, buffer>>
    /\ UNCHANGED <<var, enabled, active, lists>>

-----------------------------------------------------------------------------
(* gc_collect_cycles: marking, scanning and collecting, where no user code runs *)

Collect ==
    /\ Doing("collect")
    /\ IF roots = <<>> \/ active
       THEN Become(<<>>) /\ UNCHANGED <<active, toFree>>
       ELSE /\ Become(Tasks("mark_root", roots) \o
                      <<Task("scan_roots", None), Task("collect_roots", None), Task("swap", None)>>)
            /\ active' = TRUE
            /\ toFree' = <<>>
    /\ UNCHANGED <<node, var, buffer, enabled, freeList, nextToFree>>

\* Zval z gets a colour; so does the object behind it, whose count of zvals
\* changes by d.
Paint(heap, z, color, d) ==
    IF heap[z].type # "object"
    THEN [heap EXCEPT ![z].color = color]
    ELSE [heap EXCEPT ![z].color = color, ![heap[z].obj].color = color,
                      ![heap[z].obj].rc = @ + d]

\* The elements of z, unless they are the properties of an object painted before.
Inside(heap, z, color) ==
    CASE heap[z].type = "array" -> heap[z].elems
      [] heap[z].type = "object" ->
            IF heap[heap[z].obj].color = color THEN <<>> ELSE heap[heap[z].obj].elems
      [] OTHER -> <<>>

\* zval_mark_grey takes the counts of all references inside the subgraph away.
GreyFrom(heap, z) ==
    IF heap[z].color = "grey"
    THEN node' = heap /\ Become(<<>>)
    ELSE node' = Paint(heap, z, "grey", -1) /\ Become(Tasks("grey", Inside(heap, z, "grey")))

MarkRoot ==
    /\ Doing("mark_root")
    /\ IF node[Current].color # "purple"
       THEN /\ node' = [node EXCEPT ![Current].addr = "null"]
            /\ RemoveRoot(Current)
            /\ Become(<<>>)
       ELSE /\ IF Current \in Handles
               THEN /\ node' = [node EXCEPT ![Current].color = "grey"]
                    /\ Become(Tasks("grey", node[Current].elems))
               ELSE GreyFrom(node, Current)
            /\ UNCHANGED buffer
    /\ UNCHANGED <<var, enabled, active, lists>>

MarkGrey ==
    /\ Doing("grey")
    /\ GreyFrom([node EXCEPT ![Current].rc = @ - 1], Current)
    /\ UNCHANGED <<var, buffer, enabled, active, lists>>

\* Mutant: no root is scanned.
ScanRoots_Skipped ==
    /\ Doing("scan_roots")
    /\ Become(<<>>)
    /\ UNCHANGED <<node, var, buffer, enabled, active, lists>>

ScanRoots ==
    /\ Doing("scan_roots")
    /\ Become(Tasks("scan", roots))
    /\ UNCHANGED <<node, var, buffer, enabled, active, lists>>

\* zval_scan_black gives the counts back to what is referenced from outside.
BlackFrom(heap, z) ==
    /\ node' = Paint(heap, z, "black", 1)
    /\ Become(Tasks("black", Inside(heap, z, "black")))

\* zobj_scan and the part of zval_scan about the object behind a zval.
ScanObject(heap, h) ==
    IF heap[h].color # "grey"
    THEN node' = heap /\ Become(<<>>)
    ELSE IF heap[h].rc # 0
    THEN /\ node' = [heap EXCEPT ![h].color = "black"]
         /\ Become(Tasks("black", heap[h].elems))
    ELSE /\ node' = [heap EXCEPT ![h].color = "white"]
         /\ Become(Tasks("scan", heap[h].elems))

Scan ==
    /\ Doing("scan")
    /\ LET white == [node EXCEPT ![Current].color = "white"] IN
       CASE Current \in Handles -> ScanObject(node, Current)
         [] Current \in Cells /\ node[Current].color # "grey" ->
               node' = node /\ Become(<<>>)
         [] Current \in Cells /\ node[Current].color = "grey" /\ node[Current].rc # 0 ->
               BlackFrom(node, Current)
         [] Current \in Cells /\ node[Current].color = "grey" /\ node[Current].rc = 0 ->
               IF node[Current].type = "object"
               THEN ScanObject(white, node[Current].obj)
               ELSE node' = white /\ Become(Tasks("scan", node[Current].elems))
    /\ UNCHANGED <<var, buffer, enabled, active, lists>>

\* Mutant: the counts of what is painted black again are not given back.
ScanBlack_NotCounted ==
    /\ Doing("black")
    /\ IF node[Current].color = "black"
       THEN node' = node /\ Become(<<>>)
       ELSE BlackFrom(node, Current)
    /\ UNCHANGED <<var, buffer, enabled, active, lists>>

ScanBlack ==
    /\ Doing("black")
    /\ LET counted == [node EXCEPT ![Current].rc = @ + 1] IN
       IF node[Current].color = "black"
       THEN node' = counted /\ Become(<<>>)
       ELSE BlackFrom(counted, Current)
    /\ UNCHANGED <<var, buffer, enabled, active, lists>>

CollectRoots ==
    /\ Doing("collect_roots")
    /\ Become(Tasks("collect_root", roots))
    /\ UNCHANGED <<node, var, buffer, enabled, active, lists>>

\* buffered == GC_WHITE: white, and not, or no longer, in the buffer.
IsWhite(heap, n) == heap[n].color = "white" /\ heap[n].addr = "null"

\* zval_collect_white gives the counts of references between garbage back,
\* except those of objects, and puts the zvals on a list.
WhiteFrom(heap, z) ==
    IF ~IsWhite(heap, z)
    THEN node' = heap /\ Become(<<>>) /\ UNCHANGED toFree
    ELSE LET h == heap[z].obj
             listed == [heap EXCEPT ![z].color = "black", ![z].addr = "list", ![z].rc = @ + 1]
             object == heap[z].type = "object" /\ IsWhite(heap, h)
         IN /\ node' = IF object THEN [listed EXCEPT ![h].color = "black"] ELSE listed
            /\ Become(Tasks("white", IF object THEN heap[h].elems ELSE heap[z].elems))
            /\ toFree' = <<z>> \o toFree

CollectRoot ==
    /\ Doing("collect_root")
    /\ LET out == [node EXCEPT ![Current].addr = "null"] IN
       IF Current \in Cells
       THEN WhiteFrom(out, Current)
       ELSE /\ UNCHANGED toFree
            /\ IF IsWhite(out, Current)
               THEN /\ node' = [out EXCEPT ![Current].color = "black"]
                    /\ Become(Tasks("white", node[Current].elems))
               ELSE node' = out /\ Become(<<>>)
    /\ RemoveRoot(Current)
    /\ UNCHANGED <<var, enabled, active, freeList, nextToFree>>

\* Mutant: the counts of references between garbage are not given back.
CollectWhite_NotCounted ==
    /\ Doing("white")
    /\ WhiteFrom(node, Current)
    /\ UNCHANGED <<var, buffer, enabled, active, freeList, nextToFree>>

CollectWhite ==
    /\ Doing("white")
    /\ WhiteFrom([node EXCEPT ![Current].rc = @ + 1], Current)
    /\ UNCHANGED <<var, buffer, enabled, active, freeList, nextToFree>>

-----------------------------------------------------------------------------
(* gc_collect_cycles: destructors and freeing, where user code runs *)

\* The lists of the collection in the middle of which this one was called.
Swap ==
    /\ Doing("swap")
    /\ freeList' = toFree
    /\ toFree' = <<>>
    /\ active' = FALSE
    /\ Become(<<[op |-> "destructors", node |-> None, list |-> toFree],
                Task("destroy_list", None),
                [op |-> "free_list", node |-> None, list |-> freeList, next |-> nextToFree]>>)
    /\ UNCHANGED <<node, var, buffer, enabled, nextToFree>>

\* Mutant: the count of the bucket is not looked at.
ObjectIsGarbage_AnyCount(z) ==
    /\ node[z].type = "object"
    /\ node[node[z].obj].type = "bucket"

\* The bucket of zval z is in use and nothing but garbage refers to it.
ObjectIsGarbage(z) ==
    /\ node[z].type = "object"
    /\ node[node[z].obj].type = "bucket"
    /\ node[node[z].obj].rc = 0

\* Destructors run with a count held.
CallDestructors ==
    /\ Doing("destructors")
    /\ LET list == Head(work).list
           rest == [Head(work) EXCEPT !.list = Tail(list)]
           h == node[Head(list)].obj
       IN IF list = <<>>
          THEN Become(<<>>) /\ UNCHANGED node
          ELSE IF ObjectIsGarbage(Head(list)) /\ ~node[h].destructed
          THEN /\ node' = [node EXCEPT ![h].rc = @ + 1]
               /\ Become(<<Task("call_destructor", h), Task("uncount", h), rest>>)
          ELSE Become(<<rest>>) /\ UNCHANGED node
    /\ UNCHANGED <<var, buffer, enabled, active, lists>>

Uncount ==
    /\ Doing("uncount")
    /\ node' = [node EXCEPT ![Current].rc = @ - 1]
    /\ Become(<<>>)
    /\ UNCHANGED <<var, buffer, enabled, active, lists>>

StartDestroying ==
    /\ Doing("destroy_list")
    /\ nextToFree' = freeList
    /\ Become(<<Task("destroy", None)>>)
    /\ UNCHANGED <<node, var, buffer, enabled, active, toFree, freeList>>

\* The contents of the next zval are destroyed, its memory is kept.
Destroy ==
    /\ Doing("destroy")
    /\ IF nextToFree = <<>>
       THEN Become(<<>>) /\ UNCHANGED <<node, nextToFree>>
       ELSE LET z == Head(nextToFree)
                again == <<Task("destroy", None)>>
                null == [node EXCEPT ![z].type = "null", ![z].elems = <<>>, ![z].obj = None]
            IN /\ nextToFree' = Tail(nextToFree)
               /\ CASE ObjectIsGarbage(z) ->
                          /\ node' = [null EXCEPT ![node[z].obj].rc = 1]
                          /\ Become(<<Task("del_ref", node[z].obj)>> \o again)
                    [] node[z].type = "object" /\ ~ObjectIsGarbage(z) ->
                          UNCHANGED node /\ Become(again)
                    [] node[z].type # "object" ->
                          node' = null /\ Become(Tasks("ptr_dtor", node[z].elems) \o again)
    /\ UNCHANGED <<var, buffer, enabled, active, toFree, freeList>>

FreeList ==
    /\ Doing("free_list")
    /\ node' = [n \in Nodes |-> IF n \in ToSet(freeList) THEN Free ELSE node[n]]
    /\ freeList' = Head(work).list
    /\ nextToFree' = Head(work).next
    /\ Become(<<>>)
    /\ UNCHANGED <<var, buffer, enabled, active, toFree>>

-----------------------------------------------------------------------------
UserStep ==
    \/ \E v \in Vars, z \in Zvals :
          \/ NewArray(v, z)
          \/ \E h \in Handles, d \in HasDestructor : NewObject(v, z, h, d)
          \/ \E w \in Names : CopyHandle(v, w, z)
    \/ \E v, w \in Names : Store(v, w)
    \/ \E v \in Vars, w \in Names, i \in 1 .. MaxElems : Fetch(v, w, i)
    \/ \E v \in Vars : UnsetVar(v)
    \/ \E w \in Names, i \in 1 .. MaxElems : UnsetElem(w, i)
    \/ UserCollects
    \/ SetEnabled
    \/ DestructorReturns

CountingStep ==
    \/ PtrDtorLast \/ PtrDtorNotLast \/ Efree \/ RootAfter
    \/ DelRef \/ CallDestructor \/ Destructed \/ CheckObject

CollectorStep ==
    \/ Collect \/ MarkRoot \/ MarkGrey
    \/ ScanRoots \/ Scan \/ ScanBlack
    \/ CollectRoots \/ CollectRoot \/ CollectWhite \/ Swap
    \/ CallDestructors \/ Uncount \/ StartDestroying \/ Destroy \/ FreeList

Next == UserStep \/ CountingStep \/ CollectorStep

Spec == Init /\ [][Next]_vars

-----------------------------------------------------------------------------
(* Properties *)

InUse == {n \in Nodes : node[n].type # "free"}

\* What a node refers to.
Refers(n) ==
    ToSet(node[n].elems) \cup (IF node[n].type = "object" THEN {node[n].obj} ELSE {})

\* What can be reached from a set of nodes.
Reach(from) ==
    LET reach[i \in 0 .. Cardinality(Nodes)] ==
            IF i = 0 THEN from
            ELSE reach[i - 1] \cup UNION {Refers(n) : n \in reach[i - 1]}
    IN reach[Cardinality(Nodes)]

ByScript == Reach({var[v] : v \in {w \in Names : var[w] # None}})

\* No collection and no destruction is under way.
Quiet == work = <<>>

Garbage == InUse \ ByScript

TypeOK ==
    /\ \A n \in Nodes :
          /\ node[n].type \in IF n \in Handles THEN {"free", "bucket"}
                              ELSE {"free", "null", "array", "object"}
          /\ node[n].color \in {"black", "white", "grey", "purple"}
          /\ node[n].addr \in {"null", "buffer", "list"}
          /\ node[n].rc \in Int
          /\ node[n].elems \in Seq(Cells)
    /\ roots \in Seq(Nodes)
    /\ var \in [Names -> Cells \cup {None}]
    /\ unused \in 0 .. BufferSize /\ fresh \in 0 .. BufferSize

\* Whatever user code can name is in memory, whenever user code runs.
NothingDangles == UserRuns => ByScript \subseteq InUse

\* The C code in progress never works on memory already given back.
NoUseAfterFree ==
    /\ work # <<>> /\ Current # None /\ Head(work).op \notin {"check_object", "uncount", "del_ref"}
          => node[Current].type # "free"
    /\ Doing("destroy") => ToSet(nextToFree) \subseteq InUse

\* The zvals a collection frees at its end are still in memory, and nothing
\* outside the list leads to one of them.
FreesOnlyGarbage ==
    Doing("free_list") =>
        ToSet(freeList) \subseteq InUse /\ ToSet(freeList) \cap ByScript = {}

\* The count of a zval is the number of variables, elements and properties that
\* hold it, and the count of a bucket the number of zvals of the object.
RefcountExact ==
    Quiet => \A n \in InUse :
        node[n].rc = Cardinality({v \in Names : var[v] = n})
                     + FoldFunction(+, 0, [m \in Nodes |->
                           Cardinality({i \in DOMAIN node[m].elems : node[m].elems[i] = n})
                           + IF node[m].type = "object" /\ node[m].obj = n THEN 1 ELSE 0])

\* Only zvals and objects in memory are possible roots.
RootsInUse == ToSet(roots) \subseteq InUse

\* Between collections nodes are black, or purple and in the buffer.
PurpleIsBuffered ==
    Quiet => \A n \in InUse :
        \/ node[n].color = "black"
        \/ node[n].color = "purple" /\ node[n].addr = "buffer"

\* Every node in the buffer is there once, knows it, and is in use; no entry of
\* the buffer is lost.
BufferExact ==
    /\ IsInjective(roots)
    /\ \A n \in Nodes : node[n].addr = "buffer" <=> n \in ToSet(roots)
    /\ RootsInUse
    /\ Len(roots) + unused + fresh = BufferSize
    /\ PurpleIsBuffered

\* All garbage can be found from the possible roots.
GarbageHasRoot ==
    Quiet => Garbage \subseteq Reach({n \in ToSet(roots) : node[n].color = "purple"})
=============================================================================
