--------------------------- MODULE MCListScreen ---------------------------
(* ListScreen on small sets.                                               *)
EXTENDS ListScreen, TLC

CONSTANTS Plain, Marked  \* a name, and the same with a character the server replaces

\* The server keeps Marked as Plain.
MCStored == [n \in Names |-> IF n = Marked THEN Plain ELSE n]

Symmetry == Permutations(Workers) \cup Permutations(Objects)
===========================================================================
