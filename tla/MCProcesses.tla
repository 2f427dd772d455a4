---------------------------- MODULE MCProcesses ----------------------------
(***************************************************************************)
(* What the processes of a server share through the kernel: a System V     *)
(* semaphore (SysvSem) and the files of sessions (SessionFiles).  They     *)
(* have no state in common: a behaviour picks one of them and the other    *)
(* stays as it is, so that one run checks each by itself.                  *)
(***************************************************************************)
EXTENDS SysvSem, SessionBounds

CONSTANTS p1, p2, p3

CONSTANTS r1, r2, k1, k2
VARIABLES dir, content, locked, inodes, req, starts, meant, cut, misled
sessions == <<dir, content, locked, inodes, req, starts, meant, cut, misled>>
Sessions == INSTANCE SessionFiles

VARIABLE part

AllInit ==
    /\ part \in {"semaphores", "sessions"}
    /\ Init
    /\ Sessions!Init

AllNext ==
    \/ part = "semaphores" /\ Next /\ UNCHANGED <<part, sessions>>
    \/ part = "sessions" /\ Sessions!Next /\ UNCHANGED <<part, vars>>

\* Neither asks anything of a process before its first call.
AllSpec ==
    /\ AllInit
    /\ [][AllNext]_<<part, vars, sessions>>
    /\ Fairness
    /\ Sessions!Fairness

\* The types of both, and the properties of SessionFiles under their own names.
TypesOK         == TypeOK /\ Sessions!TypeOK
FileIsLastWrite == Sessions!FileIsLastWrite
ReadIsCurrent   == Sessions!ReadIsCurrent
LockGranted     == Sessions!LockGranted
=============================================================================
