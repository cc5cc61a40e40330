---------------------------- MODULE MCMailLinks ----------------------------
(* MailLinks on small sets.                                                *)
EXTENDS MailLinks, TLC

Symmetry == Permutations(Tokens) \cup Permutations(Passwords) \cup Permutations(Requests)
============================================================================
