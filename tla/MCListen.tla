------------------------------- MODULE MCListen -------------------------------
(* Listen on small instances: calls are interchangeable.                   *)
EXTENDS Listen, TLC

Symmetry == Permutations(Gets)
=============================================================================
