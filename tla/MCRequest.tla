----------------------------- MODULE MCRequest -----------------------------
(***************************************************************************)
(* What a request keeps for its script, and what code of the script may    *)
(* come back to while it is being changed: the queue of signals            *)
(* (PcntlSignals), the output buffers (OutputBuffers) and a directive      *)
(* (IniEntries).  They have no state in common: a behaviour picks one of   *)
(* them and the others stay as they are, so that one run checks each by    *)
(* itself.                                                                 *)
(***************************************************************************)
EXTENDS PcntlSignals, IniBounds

CONSTANTS a, b, d1, d2, d3

CONSTANTS MaxPieces, MaxBuffers, ChunkSize
VARIABLES level, buffers, active, lock, buffered, sent, stack, phase,
          written, started, dropped, returned, ended, bailed, reentered
output == <<level, buffers, active, lock, buffered, sent, stack, phase,
            written, started, dropped, returned, ended, bailed, reentered>>
Output == INSTANCE OutputBuffers

VARIABLES value, orig, modifiable, origModifiable, modified, listed, heap,
          global, calls, stage, alters, admin, nested, refused, corrupt
directive == <<value, orig, modifiable, origModifiable, modified, listed, heap,
               global, calls, stage, alters, admin, nested, refused, corrupt>>
Ini == INSTANCE IniEntries

VARIABLE part

AllInit ==
    /\ part \in {"signals", "output", "directive"}
    /\ Init
    /\ Output!Init
    /\ Ini!Init

AllNext ==
    \/ part = "signals" /\ Next /\ UNCHANGED <<part, output, directive>>
    \/ part = "output" /\ Output!Next /\ UNCHANGED <<part, vars, directive>>
    \/ part = "directive" /\ Ini!Next /\ UNCHANGED <<part, vars, output>>

\* Nothing is asked of a queue that is empty or of a script that has not started.
AllSpec ==
    /\ AllInit
    /\ [][AllNext]_<<part, vars, output, directive>>
    /\ Fairness
    /\ Output!Fairness

\* The types of the three, and the properties of the others under their own names.
TypesOK         == TypeOK /\ Output!TypeOK /\ Ini!TypeOK
StateAgrees     == Output!StateAgrees
NothingLost     == Output!NothingLost
HandlerProtocol == Output!HandlerProtocol
FlushEnds       == Output!FlushEnds
DirectivesSafe  == Ini!DirectivesSafe
=============================================================================
