------------------------------ MODULE IniBounds ------------------------------
(* The instance of IniEntries: the values of a directive, and the bounds. *)
EXTENDS Integers

CONSTANTS
    Duplicates,  \* bound: the copies of values in the memory of a request
    MaxAlters,   \* bound: alterations in all
    MaxCalls     \* bound: calls inside one another

None == "none"
Startup == "startup value"

ASSUME DuplicatesAreNew == Duplicates \cap {None, Startup} = {}
ASSUME MaxCallsPos      == MaxCalls \in Nat \ {0}
=============================================================================
