--------------------------- MODULE MCObjectsStore ---------------------------
(* Two or three references over two or three handles, in a table of two. *)
EXTENDS ObjectsStore, TLC

CONSTANTS r1, r2, r3, r4

Symmetry == Permutations(Refs)
=============================================================================
