------------------------------ MODULE TsrmBounds ------------------------------
(* The instance of Tsrm: the threads of a server, and the bounds. *)
EXTENDS Integers, FiniteSets

CONSTANTS
    Main,       \* the thread that starts and stops the server
    Workers,    \* the numbers of the other threads; the kernel uses them again
    Near,       \* the workers in the same bucket of tsrm_tls_table as Main
    MaxIds,     \* bound: resource ids
    MaxFetches  \* bound: what the workers fetch

AllThreads == {Main} \cup Workers
NoOne == "no thread"

ASSUME WorkersFinite  == IsFiniteSet(Workers)
ASSUME MainIsNoWorker == Main \notin Workers
ASSUME NearAreWorkers == Near \subseteq Workers
ASSUME NoOneIsNone    == NoOne \notin AllThreads
ASSUME MaxIdsNat      == MaxIds \in Nat
=============================================================================
