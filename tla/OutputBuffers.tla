---------------------------- MODULE OutputBuffers ----------------------------
(***************************************************************************)
(* The output buffers of a request (main/output.c).  Scripts nest buffers; *)
(* what is written goes to the active one, and from there, when it is      *)
(* flushed or ended, through its handler to the one below.  Handlers are   *)
(* functions of the script, which may write, start buffers and exit.       *)
(*                                                                         *)
(* php_end_ob_buffer() is a procedure that calls handlers and, through     *)
(* php_body_write, itself: `stack' is its stack of calls.  Output is a    *)
(* sequence of pieces, numbered in the order in which they are written.    *)
(*                                                                         *)
(* A handler that flushes, cleans or ends a buffer enters it again for the *)
(* buffer that is being handled, which nothing forbids: `reentered' then   *)
(* stops the model (the outer call would go on with a freed buffer).       *)
(***************************************************************************)
EXTENDS Integers, Sequences, FiniteSets, SequencesExt

CONSTANTS
    MaxPieces,   \* bound: what is written
    MaxBuffers,  \* bound: the buffers that are started
    ChunkSize    \* the size at which a buffer with a chunk size is flushed

VARIABLES
    level,       \* ob_nesting_level
    buffers,     \* ob_buffers, the stack of the buffers below the active one
    active,      \* active_ob_buffer
    lock,        \* ob_lock
    buffered,    \* php_body_write is php_b_body_write
    sent,        \* what the client gets
    stack,       \* the calls of php_end_ob_buffer
    phase,       \* of the request
    written,     \* history: how many pieces have been written
    started,     \* history: how many buffers
    dropped,     \* history: pieces cleaned, or not in what a handler returned
    returned,    \* history: the buffers whose handler has returned before
    ended,       \* history: and has been told that it is the last time
    bailed,      \* history: a handler has not returned
    reentered

core == <<level, buffers, active, lock, buffered, sent, stack>>
past == <<written, started, dropped, returned, ended, bailed, reentered>>
vars == <<core, phase, past>>

NoBuffer == [id |-> 0, text |-> <<>>, handler |-> FALSE, chunk |-> FALSE,
             erase |-> TRUE, status |-> FALSE]

Init ==
    /\ level = 0 /\ buffers = <<>> /\ active = NoBuffer
    /\ lock = FALSE /\ buffered = FALSE
    /\ sent = <<>>
    /\ stack = <<>>
    /\ phase = "script"
    /\ written = 0 /\ started = 0
    /\ dropped = {} /\ returned = {} /\ ended = {}
    /\ bailed = FALSE /\ reentered = FALSE

-----------------------------------------------------------------------------

Top == Last(stack)
InEnd(at) == ~reentered /\ stack # <<>> /\ Top.at = at
SetTop(frame) == stack' = Front(stack) \o <<frame>>

\* Code of the script runs, in a handler or not.
InHandler == InEnd("handler")
InScript  == ~reentered /\ stack = <<>> /\ phase \in {"script", "functions", "destructors"}

Call(send, flush) ==
    [at |-> "enter", send |-> send, flush |-> flush, orig |-> <<>>, final |-> <<>>,
     start |-> FALSE, saved |-> NoBuffer]

\* php_body_write(): to the client, or to the buffer `to', which is flushed
\* (with a call on top of `calls') when it has reached its chunk size.
Write(text, to, calls) ==
    IF buffered'
    THEN LET all == to.text \o text IN
         /\ active' = [to EXCEPT !.text = all]
         /\ stack' = IF to.chunk /\ Len(all) >= ChunkSize
                      THEN Append(calls, Call(TRUE, TRUE)) ELSE calls
         /\ UNCHANGED sent
    ELSE /\ sent' = sent \o text
         /\ active' = to
         /\ stack' = calls

-----------------------------------------------------------------------------
(* php_end_ob_buffer() *)

\* The handler, if there is one, is called with ob_lock set.
Enter ==
    /\ InEnd("enter")
    /\ IF active.handler
       THEN /\ lock' = TRUE
            /\ SetTop([Top EXCEPT !.at = "handler", !.orig = active.text,
                                  !.start = ~active.status])
       ELSE /\ SetTop([Top EXCEPT !.at = "end", !.final = active.text])
            /\ UNCHANGED lock
    /\ UNCHANGED <<level, buffers, active, buffered, sent, phase, past>>

\* The handler returns FALSE for the buffer as it is now, or the string it was
\* given, or another (which has none of the pieces, here).
Return_With(final, locked) ==
    /\ InHandler
    /\ lock' = locked
    /\ SetTop([Top EXCEPT !.at = "end", !.final = final])
    /\ returned' = returned \cup {active.id}
    /\ ended' = IF Top.flush THEN ended ELSE ended \cup {active.id}
    /\ UNCHANGED <<level, buffers, active, buffered, sent, phase, written, started,
                   dropped, bailed, reentered>>

\* Mutant: the lock is given back at the end of the buffer only.
Return_KeepsLock(final) == Return_With(final, Top.flush)
Return(final) == Return_With(final, FALSE)

Results == {active.text, Top.orig, <<>>}

\* The buffer below is active for the time it takes to send it the output.
End_With(still) ==
    /\ InEnd("end")
    /\ buffered' = still
    /\ buffers' = IF level > 1 THEN Front(buffers) ELSE buffers
    /\ level' = level - 1
    /\ LET prev  == IF level > 1 THEN Last(buffers) ELSE active
           calls == Front(stack) \o <<[Top EXCEPT !.at = "sent", !.saved = active]>>
       IN  IF Top.send THEN Write(Top.final, prev, calls)
           ELSE active' = prev /\ stack' = calls /\ UNCHANGED sent
    /\ dropped' = dropped \cup (ToSet(active.text) \ (IF Top.send THEN ToSet(Top.final) ELSE {}))
    /\ UNCHANGED <<lock, phase, written, started, returned, ended, bailed, reentered>>

\* Mutant: what follows the last buffer is written to it, too.
End_StaysBuffered == End_With(buffered)
End == End_With(level # 1)

\* After a flush the buffer is active again, empty and no longer new.
Resume(emptied) ==
    /\ buffers' = IF level > 0 THEN Append(buffers, active) ELSE buffers
    /\ active' = emptied
    /\ level' = level + 1
    /\ buffered' = TRUE

Sent_Then(flush, emptied) ==
    /\ InEnd("sent")
    /\ IF flush
       THEN Resume(emptied)
       ELSE /\ active' = IF level = 0 THEN NoBuffer ELSE active
            /\ UNCHANGED <<level, buffers, buffered>>
    /\ stack' = Front(stack)
    /\ UNCHANGED <<lock, sent, phase, past>>

\* Mutants: the text is kept, the status, the buffer that has been ended.
Sent_KeepsText     == Sent_Then(Top.flush, [Top.saved EXCEPT !.status = TRUE])
Sent_KeepsStatus   == Sent_Then(Top.flush, [Top.saved EXCEPT !.text = <<>>])
Sent_AlwaysResumes == Sent_Then(TRUE, [Top.saved EXCEPT !.text = <<>>, !.status = TRUE])

\* Mutant: the buffer is active again, one level too low.
Sent_ForgetsLevel ==
    /\ InEnd("sent")
    /\ IF Top.flush
       THEN /\ active' = [Top.saved EXCEPT !.text = <<>>, !.status = TRUE]
            /\ buffered' = TRUE
            /\ UNCHANGED <<level, buffers>>
       ELSE /\ active' = IF level = 0 THEN NoBuffer ELSE active
            /\ UNCHANGED <<level, buffers, buffered>>
    /\ stack' = Front(stack)
    /\ UNCHANGED <<lock, sent, phase, past>>

Sent == Sent_Then(Top.flush, [Top.saved EXCEPT !.text = <<>>, !.status = TRUE])

EndBuffer == Enter \/ End \/ Sent

-----------------------------------------------------------------------------
(* What scripts and handlers do *)

Echo ==
    /\ InScript \/ InHandler
    /\ written < MaxPieces
    /\ written' = written + 1
    /\ UNCHANGED buffered
    /\ Write(<<written + 1>>, active, stack)
    /\ reentered' = (InHandler /\ Len(stack') > Len(stack))
    /\ UNCHANGED <<level, buffers, lock, phase, started, dropped, returned, ended, bailed>>

\* php_start_ob_buffer(), for each handler in the argument of ob_start().
ObStart(handler, chunk, erase) ==
    /\ InScript \/ InHandler
    /\ ~lock
    /\ started < MaxBuffers
    /\ started' = started + 1
    /\ buffers' = IF level = 0 THEN <<>>
                  ELSE IF level = 1 THEN <<active>> ELSE Append(buffers, active)
    /\ active' = [id |-> started + 1, text |-> <<>>, handler |-> handler, chunk |-> chunk,
                  erase |-> erase, status |-> FALSE]
    /\ level' = level + 1
    /\ buffered' = TRUE
    /\ UNCHANGED <<lock, sent, stack, phase, written, dropped, returned, ended, bailed, reentered>>

\* What the client has got, and what is in the buffers, up to the active one.
Text(i) == IF i = 0 THEN sent ELSE IF i < level THEN buffers[i].text ELSE active.text
Pieces(levels) == UNION {ToSet(Text(i)) : i \in levels}

\* zend_bailout(): all calls are left, and the next part of the shutdown runs
\* (the functions registered for shutdown, the destructors, the flush).
\* What is in the buffers when the last part is left is lost.
NextPhase == CASE phase = "script" -> "functions" [] phase = "functions" -> "destructors"
               [] phase = "destructors" -> "flush" [] OTHER -> "over"
Bailout ==
    /\ stack' = <<>>
    /\ phase' = NextPhase
    /\ bailed' = (bailed \/ InHandler)

\* ... with ob_lock set: "Cannot use output buffering in output buffering
\* display handlers" is fatal, and drops all buffers.
ObStartLocked ==
    /\ InScript \/ InHandler
    /\ lock
    /\ level' = 0
    /\ buffered' = FALSE
    /\ dropped' = dropped \cup Pieces(1 .. level)
    /\ Bailout
    /\ UNCHANGED <<buffers, active, lock, sent, written, started, returned, ended, reentered>>

\* ob_flush, ob_clean, ob_end_flush and ob_end_clean (or ob_get_...).
ObEnd(send, flush) ==
    /\ InScript \/ InHandler
    /\ level # 0
    /\ active.status \/ active.erase
    /\ stack' = Append(stack, Call(send, flush))
    /\ reentered' = InHandler
    /\ UNCHANGED <<level, buffers, active, lock, buffered, sent, phase, written, started,
                   dropped, returned, ended, bailed>>

\* exit() or a fatal error.
Exit ==
    /\ InScript \/ InHandler
    /\ Bailout
    /\ dropped' = IF phase = "flush" THEN dropped \cup Pieces(1 .. level) ELSE dropped
    /\ UNCHANGED <<level, buffers, active, lock, buffered, sent, written, started, returned,
                   ended, reentered>>

-----------------------------------------------------------------------------
(* php_request_shutdown() *)

\* The script, the functions registered for shutdown and the destructors end.
EndScript ==
    /\ InScript
    /\ phase' = "flush"
    /\ UNCHANGED <<core, past>>

\* php_end_ob_buffers()
EndBuffers ==
    /\ phase = "flush" /\ stack = <<>>
    /\ IF level # 0
       THEN stack' = <<Call(TRUE, FALSE)>> /\ UNCHANGED phase
       ELSE phase' = "over" /\ UNCHANGED stack
    /\ UNCHANGED <<level, buffers, active, lock, buffered, sent, past>>

Returns == InHandler /\ \E final \in Results : Return(final)

Next ==
    \/ EndBuffer
    \/ Returns
    \/ Echo
    \/ \E handler, chunk, erase \in BOOLEAN : ObStart(handler, chunk, erase)
    \/ ObStartLocked
    \/ \E send, flush \in BOOLEAN : ObEnd(send, flush)
    \/ Exit
    \/ EndScript
    \/ EndBuffers

Spec == Init /\ [][Next]_vars

\* Calls go on and handlers return (or exit); the script need not end.
Fairness == WF_vars(EndBuffer) /\ WF_vars(Returns) /\ WF_vars(EndBuffers)

FairSpec == Spec /\ Fairness

-----------------------------------------------------------------------------
(* Properties *)

TypeOK ==
    /\ level \in 0 .. started
    /\ Len(buffers) <= started
    /\ \A b \in ToSet(buffers) \cup {active} :
        b.id \in 0 .. started /\ ToSet(b.text) \subseteq 1 .. written
    /\ ToSet(sent) \subseteq 1 .. written
    /\ dropped \subseteq 1 .. written /\ returned \cup ended \subseteq 1 .. started
    /\ phase \in {"script", "functions", "destructors", "flush", "over"}

InCode == stack = <<>> \/ Top.at = "handler"

\* Whenever code of the script runs, in a handler of a buffer that another one
\* is sent to, too, the level counts the buffers and output goes where it says.
LevelAgrees == InCode =>
    /\ buffered <=> level > 0
    /\ level > 0 => active # NoBuffer
    /\ level > 1 => /\ Len(buffers) = level - 1
                    /\ active.id \notin {b.id : b \in ToSet(buffers)}

\* What is written reaches the client or waits in a buffer, once and in order,
\* through any nesting of flushes, chunks and handlers that fail: nothing goes
\* but what is cleaned, what a handler leaves out, and the buffers of a request
\* that ends with a fatal error in a handler.
NothingLost == InCode /\ ~reentered =>
    LET levels == IF phase = "over" THEN {0} ELSE 0 .. level IN
    /\ \A i \in levels : \A m, n \in DOMAIN Text(i) : m < n => Text(i)[m] < Text(i)[n]
    /\ \A i, j \in levels : i < j => \A x \in ToSet(Text(i)), y \in ToSet(Text(j)) : x < y
    /\ Pieces(levels) = (1 .. written) \ dropped

\* A handler is told PHP_OUTPUT_HANDLER_START until a call returns, and is not
\* called again after a call with PHP_OUTPUT_HANDLER_END has returned.
HandlerProtocol == stack # <<>> /\ Top.at = "handler" =>
    /\ Top.start <=> active.id \notin returned
    /\ active.id \notin ended

\* The lock is set exactly while a handler runs, up to the first that bails out.
LockIsHandler == ~bailed /\ ~reentered =>
    (lock <=> \E f \in ToSet(stack) : f.at = "handler")

\* The variables that php_end_ob_buffer() keeps outside its calls agree with them.
StateAgrees == LevelAgrees /\ LockIsHandler

\* The flush at the end of the request comes to its end, whatever the handlers do.
FlushEnds == phase = "flush" ~> phase = "over" \/ reentered
=============================================================================
