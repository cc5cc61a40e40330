---------------------------- MODULE MCSessions ----------------------------
(* Sessions on small sets.                                                 *)
EXTENDS Sessions, TLC

Symmetry == Permutations(Keys) \cup Permutations(Passwords) \cup Permutations(Requests)
============================================================================
