---------------------------- MODULE PcntlSignals ----------------------------
(***************************************************************************)
(* The queue of signals of ext/pcntl/pcntl.c.  The handler the kernel runs *)
(* (pcntl_signal_handler) may not allocate: it takes an entry of the list  *)
(* `spares' and links it to the queue `head' .. `tail'.  The tick function *)
(* (pcntl_signal_dispatch) takes the whole queue, calls the functions of   *)
(* the script and gives the entries back.  No signal is masked meanwhile.  *)
(*                                                                         *)
(* A handler runs between any two stores of the script's process (main),   *)
(* and php_signal() masks only the signal itself, so that the handler of   *)
(* another one runs in between its stores, too.                            *)
(***************************************************************************)
EXTENDS Integers, FiniteSets, Sequences, SequencesExt

CONSTANTS
    Sigs,        \* the signals
    MaxEntries,  \* bound: the entries in memory
    Batch,       \* how many pcntl_signal() allocates at a time (32 in the code)
    MaxSignals,  \* bound: the signals recorded in a request
    MaxRequests  \* bound: the requests of the process (more than one in FastCGI)

ASSUME SigsFinite     == IsFiniteSet(Sigs)
ASSUME MaxEntriesNat  == MaxEntries \in Nat
ASSUME BatchPos       == Batch \in Nat \ {0}
ASSUME MaxSignalsNat  == MaxSignals \in Nat
ASSUME MaxRequestsPos == MaxRequests \in Nat \ {0}

Entries == 1 .. MaxEntries
NULL == 0

VARIABLES
    next,       \* the next entry of each entry
    seq,        \* history: the place of its signal among those of the request
    memory,     \* the entries that are allocated
    head, tail, spares,
    processing, \* processing_signal_queue
    ticking,    \* ticks call pcntl_signal_dispatch()
    main,       \* what the script's process does, and its local variables
    frames,     \* the handlers that run, the innermost last
    linked,     \* history: how many signals have been queued in this request
    called,     \* history: how many have been taken off the queue, or given up
    abandoned,  \* history: the entries dispatch has left behind
    torn,       \* history: a handler has run where it may not
    request     \* the number of the request

vars == <<next, seq, memory, head, tail, spares, processing, ticking, main,
          frames, linked, called, abandoned, torn, request>>

lists == <<next, head, tail, spares>>
past  == <<seq, linked, called, abandoned, torn>>

\* `at' is the next statement ("user": of a function of the script that dispatch
\* has called), `back' the one after pcntl_signal(), queue and entry are local
\* variables.
Idle == [at |-> "script", back |-> "script", queue |-> NULL, entry |-> NULL, left |-> 0]

\* The entries from e on in a memory nx, one more than there are at most.
Walk(nx, e) ==
    LET c[n \in 0 .. MaxEntries] ==
            IF n = 0 THEN IF e = NULL THEN <<>> ELSE <<e>>
            ELSE IF c[n-1] = <<>> \/ nx[Last(c[n-1])] = NULL THEN c[n-1]
            ELSE Append(c[n-1], nx[Last(c[n-1])])
    IN  c[MaxEntries]

Chain(e) == Walk(next, e)

Init ==
    /\ next = [e \in Entries |-> NULL]
    /\ seq = [e \in Entries |-> 0]
    /\ memory = {}
    /\ head = NULL /\ tail = NULL /\ spares = NULL
    /\ processing = FALSE
    /\ ticking = TRUE   \* MINIT adds the tick function
    /\ main = Idle
    /\ frames = <<>>
    /\ linked = 0 /\ called = 0
    /\ abandoned = {}
    /\ torn = FALSE
    /\ request = 1

-----------------------------------------------------------------------------
(* pcntl_signal_handler *)

Top == frames[Len(frames)]
Outer == {frames[i] : i \in 1 .. Len(frames) - 1}
Goto(at) == frames' = [frames EXCEPT ![Len(frames)].at = at]

\* A signal arrives and its handler reads `spares'; it ends if there are none.
Arrive(s) ==
    /\ request <= MaxRequests
    /\ \A i \in DOMAIN frames : frames[i].sig # s
    /\ linked + Len(frames) < MaxSignals
    /\ spares # NULL
    /\ frames' = Append(frames, [sig |-> s, at |-> "pop", psig |-> spares, old |-> NULL])
    /\ UNCHANGED <<lists, past, memory, processing, ticking, main, request>>

\* spares = psig->next; psig->next = NULL.
Pop ==
    /\ frames # <<>> /\ Top.at = "pop"
    /\ spares' = next[Top.psig]
    /\ next' = [next EXCEPT ![Top.psig] = NULL]
    /\ Goto("test")
    /\ torn' = (torn \/ main.at \in {"give", "add", "free spare"} \/ \E f \in Outer : f.at = "pop")
    /\ UNCHANGED <<seq, memory, head, tail, processing, ticking, main, linked, called, abandoned, request>>

\* Mutant: the handler looks at tail only.
Test_TailOnly ==
    /\ frames # <<>> /\ Top.at = "test"
    /\ frames' = [frames EXCEPT ![Len(frames)] =
                     [@ EXCEPT !.at = IF tail # NULL THEN "append" ELSE "first", !.old = tail]]
    /\ UNCHANGED <<lists, past, memory, processing, ticking, main, request>>

\* The head check: dispatch cannot clear both the head and the tail at once.
Test ==
    /\ frames # <<>> /\ Top.at = "test"
    /\ frames' = [frames EXCEPT ![Len(frames)] =
                     [@ EXCEPT !.at = IF head # NULL /\ tail # NULL THEN "append" ELSE "first",
                               !.old = tail]]
    /\ UNCHANGED <<lists, past, memory, processing, ticking, main, request>>

\* tail->next = psig, or head = psig.  The compiler may use the tail it has
\* tested or read it again.
Link ==
    /\ frames # <<>> /\ Top.at \in {"append", "first"}
    /\ \/ /\ Top.at = "append"
          /\ \E t \in {Top.old, tail} : next' = [next EXCEPT ![t] = Top.psig]
          /\ UNCHANGED head
       \/ /\ Top.at = "first"
          /\ head' = Top.psig
          /\ UNCHANGED next
    /\ linked' = linked + 1
    /\ seq' = [seq EXCEPT ![Top.psig] = linked + 1]
    /\ Goto("tail")
    /\ torn' = (torn \/ \E f \in Outer : f.at \in {"append", "first", "tail"})
    /\ UNCHANGED <<memory, tail, spares, processing, ticking, main, called, abandoned, request>>

\* tail = psig, and the handler returns.
SetTail ==
    /\ frames # <<>> /\ Top.at = "tail"
    /\ tail' = Top.psig
    /\ frames' = Front(frames)
    /\ UNCHANGED <<next, head, spares, past, memory, processing, ticking, main, request>>

Handler == Pop \/ Test \/ Link \/ SetTail

-----------------------------------------------------------------------------
(* The script's process runs when no handler does. *)

At(at) == frames = <<>> /\ main.at = at

\* pcntl_signal(): fill the list of spares when it is empty, ...
PcntlSignal ==
    /\ At("script") \/ At("user")
    /\ spares = NULL
    /\ Cardinality(memory) + Batch <= MaxEntries
    /\ main' = [main EXCEPT !.at = "alloc", !.back = main.at, !.left = Batch]
    /\ UNCHANGED <<lists, past, memory, processing, ticking, frames, request>>

\* ... psig->next = spares
Alloc ==
    /\ At("alloc")
    /\ LET psig == CHOOSE e \in Entries \ memory : TRUE IN
       /\ memory' = memory \cup {psig}
       /\ next' = [next EXCEPT ![psig] = spares]
       /\ main' = [main EXCEPT !.at = "add", !.entry = psig]
    /\ UNCHANGED <<head, tail, spares, past, processing, ticking, frames, request>>

\* ... spares = psig.
Add ==
    /\ At("add")
    /\ spares' = main.entry
    /\ main' = [main EXCEPT !.left = @ - 1, !.entry = NULL,
                            !.at = IF main.left > 1 THEN "alloc" ELSE main.back]
    /\ UNCHANGED <<next, head, tail, past, memory, processing, ticking, frames, request>>

\* pcntl_signal_dispatch(), from a tick or called by the script: queue = head
Dispatch ==
    /\ At("script") \/ At("user")
    /\ head # NULL
    /\ ~processing
    /\ processing' = TRUE
    /\ main' = [main EXCEPT !.at = "clear", !.queue = head]
    /\ UNCHANGED <<lists, past, memory, ticking, frames, request>>

\* ... head = NULL
Clear ==
    /\ At("clear")
    /\ head' = NULL
    /\ main' = [main EXCEPT !.at = "user"]
    /\ UNCHANGED <<next, tail, spares, past, memory, processing, ticking, frames, request>>

\* Mutant: the rest of the queue is read after the entry is given back.
Called_NextAfter ==
    /\ At("user")
    /\ next' = [next EXCEPT ![main.queue] = spares]
    /\ main' = [main EXCEPT !.at = "give", !.entry = spares]
    /\ called' = IF torn THEN called ELSE called + 1
    /\ UNCHANGED <<head, tail, spares, memory, processing, ticking, frames, request,
                   seq, linked, abandoned, torn>>

\* ... the function of the script, if there is one, returns: next = queue->next;
\* queue->next = spares
Called ==
    /\ At("user")
    /\ next' = [next EXCEPT ![main.queue] = spares]
    /\ main' = [main EXCEPT !.at = "give", !.entry = next[main.queue]]
    /\ called' = IF torn THEN called ELSE called + 1
    /\ UNCHANGED <<head, tail, spares, memory, processing, ticking, frames, request,
                   seq, linked, abandoned, torn>>

\* Mutant: the queue is not enabled again.
Give_StaysBusy ==
    /\ At("give")
    /\ spares' = main.queue
    /\ main' = IF main.entry = NULL THEN Idle
               ELSE [Idle EXCEPT !.at = "user", !.queue = main.entry]
    /\ UNCHANGED <<next, head, tail, past, memory, frames, request, processing, ticking>>

\* ... spares = queue; queue = next, and the queue is enabled again at its end.
Give ==
    /\ At("give")
    /\ spares' = main.queue
    /\ main' = IF main.entry = NULL THEN Idle
               ELSE [Idle EXCEPT !.at = "user", !.queue = main.entry]
    /\ processing' = (main.entry # NULL)
    /\ UNCHANGED <<next, head, tail, past, memory, ticking, frames, request>>

\* exit() in a function that dispatch has called: what runs until the end of
\* the request finds the queue disabled.
Exit ==
    /\ At("user")
    /\ main' = Idle
    /\ LET rest == IF torn THEN <<>> ELSE Chain(main.queue) IN
       /\ abandoned' = abandoned \cup ToSet(rest)
       /\ called' = called + Len(rest)
    /\ ticking' = FALSE
    /\ UNCHANGED <<lists, memory, processing, frames, request, seq, linked, torn>>

-----------------------------------------------------------------------------
(* The end of the request *)

\* php_request_shutdown() forgets the tick functions for good; then functions
\* registered for shutdown, destructors and output handlers run on ...
EndScript ==
    /\ At("script")
    /\ ticking
    /\ ticking' = FALSE
    /\ UNCHANGED <<lists, past, memory, processing, main, frames, request>>

\* ... up to RSHUTDOWN.
EndRequest ==
    /\ At("script")
    /\ ~ticking
    /\ request <= MaxRequests
    /\ main' = [Idle EXCEPT !.at = IF head # NULL THEN "drop" ELSE "spares"]
    /\ UNCHANGED <<lists, past, memory, processing, ticking, frames, request>>

\* RSHUTDOWN: sig = head, ...
ReadHead ==
    /\ At("drop")
    /\ main' = IF head = NULL THEN [Idle EXCEPT !.at = "spares"]
               ELSE [Idle EXCEPT !.at = "free head", !.entry = head]
    /\ UNCHANGED <<lists, past, memory, processing, ticking, frames, request>>

\* ... head = sig->next; efree(sig).
FreeHead ==
    /\ At("free head")
    /\ head' = next[main.entry]
    /\ memory' = memory \ {main.entry}
    /\ main' = [Idle EXCEPT !.at = "drop"]
    /\ UNCHANGED <<next, tail, spares, past, processing, ticking, frames, request>>

ReadSpares ==
    /\ At("spares")
    /\ main' = [Idle EXCEPT !.at = IF spares = NULL THEN "off" ELSE "free spare",
                            !.entry = spares]
    /\ UNCHANGED <<lists, past, memory, processing, ticking, frames, request>>

FreeSpare ==
    /\ At("free spare")
    /\ spares' = next[main.entry]
    /\ memory' = memory \ {main.entry}
    /\ main' = [Idle EXCEPT !.at = "spares"]
    /\ UNCHANGED <<next, head, tail, past, processing, ticking, frames, request>>

\* The memory of the request is freed, and RINIT of the next one clears the
\* three pointers.
NextRequest ==
    /\ At("off")
    /\ request < MaxRequests
    /\ request' = request + 1
    /\ head' = NULL /\ tail' = NULL /\ spares' = NULL
    /\ next' = [e \in Entries |-> NULL]
    /\ seq' = [e \in Entries |-> 0]
    /\ memory' = {}
    /\ abandoned' = {}
    /\ linked' = 0 /\ called' = 0
    /\ torn' = FALSE
    /\ main' = Idle
    /\ UNCHANGED <<processing, frames, ticking>>

Shutdown == ReadHead \/ FreeHead \/ ReadSpares \/ FreeSpare
Play == Clear \/ Called \/ Give

Next ==
    \/ \E s \in Sigs : Arrive(s)
    \/ Handler
    \/ PcntlSignal \/ Alloc \/ Add
    \/ Dispatch \/ Play
    \/ Exit
    \/ EndScript \/ EndRequest
    \/ Shutdown
    \/ NextRequest

Spec == Init /\ [][Next]_vars

(***************************************************************************)
(* Handlers and calls go on, the functions of the script return, and as    *)
(* long as there are ticks the script ticks again and again.  Signals need *)
(* not come, and nothing need end.                                         *)
(***************************************************************************)
Fairness ==
    /\ WF_vars(Handler) /\ WF_vars(Alloc \/ Add) /\ WF_vars(Play) /\ WF_vars(Shutdown)
    /\ WF_vars(ticking /\ Dispatch)

FairSpec == Spec /\ Fairness

-----------------------------------------------------------------------------
(* Properties *)

Pointers == Entries \cup {NULL}

TypeOK ==
    /\ next \in [Entries -> Pointers] /\ {head, tail, spares} \subseteq Pointers
    /\ memory \subseteq Entries /\ abandoned \subseteq Entries
    /\ main.queue \in Pointers /\ main.entry \in Pointers /\ main.left \in 0 .. Batch
    /\ Len(frames) <= Cardinality(Sigs)
    /\ \A f \in ToSet(frames) : f.psig \in Entries
    /\ linked \in 0 .. MaxSignals
    /\ called <= linked \/ torn
    /\ request \in 1 .. MaxRequests

Running == main.at \in {"script", "alloc", "add", "clear", "user", "give"}

\* The signals that dispatch plays, and those that wait.
Playing == IF main.at = "give" THEN Chain(main.entry) ELSE Chain(main.queue)
Waiting == IF main.at = "clear" THEN <<>> ELSE Chain(head)

\* A handler that has an entry in hand, and one that has read the queue and has
\* not stored all of it yet.
Holding(f) == f.at \in {"test", "append", "first"}
Linking(f) == f.at \in {"append", "first", "tail"}

Held(fs) == {fs[i].psig : i \in {i \in DOMAIN fs : Holding(fs[i])}}

\* The entries that are on no list for a moment.
InHand == Held(frames)
          \cup (IF main.at = "give" THEN {main.queue} ELSE {})
          \cup (IF main.at = "add" THEN {main.entry} ELSE {})

\* Unless a handler has run in one of the windows `torn' names, each entry is
\* in one place: spare, playing, waiting, or in the hand of one handler.
EntriesApart == Running /\ ~torn =>
    LET all == Chain(spares) \o Playing \o Waiting IN
    /\ IsInjective(all)
    /\ ToSet(all) \cap InHand = {}
    /\ ToSet(all) \cup InHand = memory \ abandoned
    /\ \A i, j \in DOMAIN frames :
        i # j /\ Holding(frames[i]) /\ Holding(frames[j]) => frames[i].psig # frames[j].psig

\* Whatever statements of dispatch a handler runs between, the signals are
\* played once each, in the order in which they were queued.
InOrder == Running /\ ~torn =>
    LET queued == Playing \o Waiting IN
    /\ Len(queued) = linked - called
    /\ \A i \in DOMAIN queued : seq[queued[i]] = called + i

\* RSHUTDOWN frees the entries while the handlers are still installed: it
\* frees none twice, and no handler writes to one that is freed, but for the
\* store that tears the queue (after the last entry is freed a handler sets
\* head, one that runs inside it finds a head, and the tail that was freed).
NoUseOfFreed == ~torn =>
    /\ \A i \in DOMAIN frames :
        /\ frames[i].psig \in memory
        /\ frames[i].at = "append" /\ (\A j \in 1 .. i - 1 : ~Linking(frames[j]))
               => {frames[i].old, tail} \subseteq memory
    /\ main.at \in {"free head", "free spare"} => main.entry \in memory
    /\ main.at = "give" => main.queue \in memory

\* No signal is lost, played twice or overtaken, no entry is lost with one, and
\* none is used after it is freed.
QueueIntact == EntriesApart /\ InOrder /\ NoUseOfFreed

\* A signal that is queued is played, as long as there are ticks: until the
\* script ends, exits in a function called by dispatch, or is the second one of
\* its process.
Played == \A n \in 1 .. MaxSignals :
    linked = n ~> called >= n \/ torn \/ ~ticking
=============================================================================
