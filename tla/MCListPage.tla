-------------------------- MODULE MCListPage --------------------------
\* The requests of the scripts and the products are interchangeable.
EXTENDS ListPage, TLC

Symmetry == Permutations(Ajax) \cup Permutations(Products)
====
