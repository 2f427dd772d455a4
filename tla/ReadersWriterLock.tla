------------------------- MODULE ReadersWriterLock -------------------------
(***************************************************************************)
(* What a readers-writer lock promises: any number of readers, or one      *)
(* writer and nobody else.                                                 *)
(***************************************************************************)
CONSTANT Threads

VARIABLES readers, writers

Init == readers = {} /\ writers = {}

EnterRead(t) ==
    /\ t \notin readers
    /\ writers = {}
    /\ readers' = readers \cup {t}
    /\ UNCHANGED writers

LeaveRead(t) ==
    /\ t \in readers
    /\ readers' = readers \ {t}
    /\ UNCHANGED writers

EnterWrite(t) ==
    /\ readers = {}
    /\ writers = {}
    /\ writers' = {t}
    /\ UNCHANGED readers

LeaveWrite(t) ==
    /\ writers = {t}
    /\ writers' = {}
    /\ UNCHANGED readers

Next == \E t \in Threads :
    EnterRead(t) \/ LeaveRead(t) \/ EnterWrite(t) \/ LeaveWrite(t)

Spec == Init /\ [][Next]_<<readers, writers>>
=============================================================================
