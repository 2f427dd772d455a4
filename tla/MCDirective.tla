---------------------------- MODULE MCDirective ----------------------------
(* One directive, with memory for three duplicates of its values. *)
EXTENDS IniEntries

CONSTANTS d1, d2, d3
=============================================================================
