----------------------------- MODULE IniEntries -----------------------------
(***************************************************************************)
(* A directive of php.ini (Zend/zend_ini.c) over the requests of a process.*)
(* The server (php_admin_value, .htaccess) and the script (ini_set) alter  *)
(* it, ini_restore() and the end of the request give it back the value it  *)
(* had at startup.  The module that owns the directive has a handler,      *)
(* on_modify, which keeps the pointer to the value in a global of its own. *)
(*                                                                         *)
(* Handlers may refuse a value or not return (bail out).  One that warns   *)
(* runs the error handler of the script, which may alter and restore the   *)
(* directive while it is being altered: `calls' is the stack of calls.     *)
(***************************************************************************)
EXTENDS Integers, Sequences, SequencesExt, IniBounds

User == "USER"  Perdir == "PERDIR"  System == "SYSTEM"
Everybody == {User, Perdir, System}

VARIABLES
    value, orig,                \* ini_entry->value, ini_entry->orig_value
    modifiable, origModifiable,
    modified,
    listed,      \* the entry is in EG(modified_ini_directives)
    heap,        \* the duplicates that are allocated
    global,      \* the pointer the module has kept
    calls,       \* the calls of the handler that have not returned
    stage,       \* of the request
    alters,      \* how often the directive has been altered
    admin,       \* history: the value php_admin_value has given it
    nested,      \* history: altered or restored while it was being so
    refused,     \* history: the handler has refused the value of startup
    corrupt      \* history: something was freed that was not a duplicate

entry == <<value, orig, modifiable, origModifiable, modified, listed>>
past  == <<alters, admin, nested, refused, corrupt>>
directive == <<entry, heap, global, calls, stage, past>>

Init ==
    /\ value = Startup /\ orig = None
    /\ modifiable = Everybody /\ origModifiable = {}
    /\ modified = FALSE /\ listed = FALSE
    /\ heap = {}
    /\ global = Startup
    /\ calls = <<>>
    /\ stage = "between requests"
    /\ alters = 0
    /\ admin = None
    /\ nested = FALSE /\ refused = FALSE /\ corrupt = FALSE

-----------------------------------------------------------------------------

Top == Last(calls)
Returning(op) == calls # <<>> /\ Top.op = op

\* Code of the script runs, in the error handler, too.
Script == stage = "script" /\ Len(calls) < MaxCalls

\* A handler is called with a value; it may store the pointer at once and then
\* warn, or look at the value first.
Call(op, new, was, by) == \E early \in BOOLEAN :
    /\ calls' = Append(calls, [op |-> op, new |-> new, was |-> was, by |-> by, early |-> early])
    /\ global' = IF early THEN new ELSE global
    /\ nested' = (nested \/ calls # <<>>)

\* It accepts the value.
Accepts == global' = IF Top.early THEN global ELSE Top.new

\* efree()
Efree(p) == heap' = heap \ {p} /\ corrupt' = (corrupt \/ p \notin heap)
NoFree == UNCHANGED <<heap, corrupt>>

-----------------------------------------------------------------------------
(* zend_alter_ini_entry_ex() *)

\* Up to the call of on_modify.
AlterBy(by, locks) ==
    /\ alters < MaxAlters
    /\ alters' = alters + 1
    /\ by \in (IF locks THEN {System} ELSE modifiable)
    /\ modifiable' = IF locks THEN {System} ELSE modifiable
    /\ IF modified THEN UNCHANGED <<orig, origModifiable, modified, listed>>
       ELSE orig' = value /\ origModifiable' = modifiable /\ modified' = TRUE /\ listed' = TRUE
    /\ \E new \in Duplicates \ heap :
        /\ heap' = heap \cup {new}
        /\ Call("alter", new, modified, by)
    /\ UNCHANGED <<value, stage, admin, refused, corrupt>>

\* php_admin_value locks the directive for the request; php_value and .htaccess.
AdminValue == stage = "activate" /\ calls = <<>> /\ AlterBy(System, TRUE)
PerdirValue == stage = "activate" /\ calls = <<>> /\ AlterBy(Perdir, FALSE)
IniSet == Script /\ AlterBy(User, FALSE)

\* Mutant: the value before the last alteration is not freed.
AlterAccepted_Leaks ==
    /\ Returning("alter")
    /\ Accepts
    /\ value' = Top.new
    /\ NoFree
    /\ calls' = Front(calls)
    /\ admin' = IF Top.by = System THEN Top.new ELSE admin
    /\ UNCHANGED <<orig, modifiable, origModifiable, modified, listed, stage, alters, nested, refused>>

AlterAccepted ==
    /\ Returning("alter")
    /\ Accepts
    /\ value' = Top.new
    /\ IF Top.was /\ orig # value THEN Efree(value) ELSE NoFree
    /\ calls' = Front(calls)
    /\ admin' = IF Top.by = System THEN Top.new ELSE admin
    /\ UNCHANGED <<orig, modifiable, origModifiable, modified, listed, stage, alters, nested, refused>>

AlterRefused ==
    /\ Returning("alter")
    /\ ~Top.early
    /\ Efree(Top.new)
    /\ calls' = Front(calls)
    /\ UNCHANGED <<entry, global, stage, alters, admin, nested, refused>>

\* A handler does not return: zend_restore_ini_entry_cb() catches that, in the
\* call it has made itself or one inside, and its handler stores nothing any
\* more; else the request goes on with its end.
Bailout ==
    /\ Returning("alter")
    /\ LET restores == {i \in DOMAIN calls : calls[i].op = "restore"} IN
       \/ /\ restores = {}
          /\ calls' = <<>>
          /\ stage' = "deactivate"
       \/ /\ \E last \in restores :
                /\ \A i \in restores : i <= last
                /\ calls' = [SubSeq(calls, 1, last) EXCEPT ![last].early = TRUE]
          /\ stage' = stage
    /\ UNCHANGED <<entry, heap, global, past>>

-----------------------------------------------------------------------------
(* zend_restore_ini_entry() *)

IniRestore ==
    /\ Script
    /\ User \in modifiable
    /\ modified
    /\ Call("restore", orig, TRUE, User)
    /\ UNCHANGED <<entry, heap, stage, alters, admin, refused, corrupt>>

\* The rest of zend_restore_ini_entry_cb().
GiveBack ==
    /\ IF value # orig THEN Efree(value) ELSE NoFree
    /\ value' = orig
    /\ modifiable' = origModifiable
    /\ modified' = FALSE
    /\ orig' = None
    /\ origModifiable' = {}

\* What the handler says makes no difference, nor that it does not return.
Restored ==
    /\ Returning("restore")
    /\ \/ Accepts /\ refused' = refused
       \/ ~Top.early /\ global' = global /\ refused' = TRUE
    /\ GiveBack
    /\ listed' = FALSE
    /\ calls' = Front(calls)
    /\ UNCHANGED <<stage, alters, admin, nested>>

-----------------------------------------------------------------------------
(* The request *)

Activate ==
    /\ stage = "between requests"
    /\ stage' = "activate"
    /\ admin' = None
    /\ UNCHANGED <<entry, heap, global, calls, alters, nested, refused, corrupt>>

StartScript ==
    /\ stage = "activate" /\ calls = <<>>
    /\ stage' = "script"
    /\ UNCHANGED <<entry, heap, global, calls, past>>

EndScript ==
    /\ stage = "script" /\ calls = <<>>
    /\ stage' = "deactivate"
    /\ UNCHANGED <<entry, heap, global, calls, past>>

\* zend_ini_deactivate(): the value of startup is given back even if on_modify
\* bails out, before or after it has stored it.
Deactivate ==
    /\ stage = "deactivate"
    /\ IF listed /\ modified
       THEN GiveBack /\ global' \in {global, orig}
       ELSE UNCHANGED <<value, orig, modifiable, origModifiable, modified, heap, global, corrupt>>
    /\ refused' = (refused \/ (listed /\ modified /\ global' # orig))
    /\ listed' = FALSE
    /\ stage' = "free"
    /\ UNCHANGED <<calls, alters, admin, nested>>

\* The memory of the request is freed.
FreeMemory ==
    /\ stage = "free"
    /\ heap' = {}
    /\ stage' = "between requests"
    /\ admin' = None
    /\ UNCHANGED <<entry, global, calls, alters, nested, refused, corrupt>>

-----------------------------------------------------------------------------

Next ==
    \/ AdminValue \/ PerdirValue \/ IniSet
    \/ AlterAccepted \/ AlterRefused
    \/ Bailout
    \/ IniRestore \/ Restored
    \/ Activate \/ StartScript \/ EndScript
    \/ Deactivate \/ FreeMemory

Spec == Init /\ [][Next]_directive

-----------------------------------------------------------------------------
(* Properties *)

Pointers == Duplicates \cup {Startup}

TypeOK ==
    /\ value \in Pointers \cup {None} /\ orig \in Pointers \cup {None}
    /\ global \in Pointers \cup {None}
    /\ modifiable \subseteq Everybody /\ origModifiable \subseteq Everybody
    /\ heap \subseteq Duplicates
    /\ Len(calls) <= MaxCalls
    /\ admin \in Duplicates \cup {None}

\* No request leaves anything to the next one, through refusals and bailouts.
LeavesNothing == stage = "between requests" /\ ~nested =>
    /\ value = Startup /\ orig = None /\ ~modified /\ ~listed
    /\ modifiable = Everybody

\* The value php_admin_value has given holds until the request ends, whatever
\* the script and .htaccess try.
AdminHolds == admin # None /\ stage \in {"activate", "script"} => value = admin

\* The value is in memory that is allocated, and nothing else is freed.
ValueAlive == ~nested => ~corrupt /\ value \in heap \cup {Startup}

\* Every duplicate is the value, or in a call of the handler.
NoLeak == ~nested /\ stage \in {"activate", "script"} =>
    heap = ({value} \cup {calls[i].new : i \in DOMAIN calls}) \ {Startup}

\* The module uses the value the directive says it has, unless its handler has
\* refused to go back or has not returned.
GlobalFollows == ~nested /\ ~refused /\ calls = <<>> /\ stage \in {"activate", "script"} =>
    global = value

DirectivesSafe == LeavesNothing /\ AdminHolds /\ ValueAlive /\ NoLeak /\ GlobalFollows

\* zend_restore_ini_entry_cb(): "even if on_modify bails out, we have to continue
\* on with restoring", or memory would be corrupted: when the script goes on, the
\* module is not left with a pointer to a value that has been freed.
GlobalAlive == stage = "script" /\ calls = <<>> /\ ~nested =>
    global \in heap \cup {Startup}
=============================================================================
