---------------------------- MODULE MCAppSession ----------------------------
(* AppSession on small sets.                                                *)
EXTENDS AppSession, TLC

Symmetry == Permutations(Emails) \cup Permutations(Keys) \cup Permutations(Threads)
=============================================================================
