--------------------------- MODULE MCSessionFile ---------------------------
(* Small instance of SessionFile: two tasks append and two rewrite.           *)
EXTENDS SessionFile, TLC

Symmetry == Permutations(Appenders) \cup Permutations(Rewriters)
=============================================================================
