------------------------------ MODULE MCZendGC ------------------------------
(* Two variables, three zvals and one or two objects. *)
EXTENDS ZendGC

CONSTANTS a, b, z1, z2, z3, h1, h2

Symmetry == Permutations(Vars) \cup Permutations(Zvals) \cup Permutations(Handles)
=============================================================================
