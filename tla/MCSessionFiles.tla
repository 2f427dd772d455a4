--------------------------- MODULE MCSessionFiles ---------------------------
(* Two requests and the files of two session ids. *)
EXTENDS SessionFiles

CONSTANTS r1, r2, k1, k2
=============================================================================
