---------------------------- MODULE ListTables ----------------------------
(* The shopping lists of one account, as the routes of handlers/list.js    *)
(* change them: the tables list and list_product, kept as a function from  *)
(* the names of the lists to the products of each.                         *)
(*                                                                         *)
(* The schema is not in the repository.  That a name is unique follows     *)
(* from the answer of postList to an error of its INSERT; that the         *)
(* products of a list follow it when it is renamed and go with it is       *)
(* assumed of the foreign key.                                             *)
EXTENDS Functions

\* POST /list/:name, an INSERT which the primary key refuses for a name in use.
PostRefused(table, n) == n \in DOMAIN table
Posted(table, n) == [l \in DOMAIN table \cup {n} |-> IF l = n THEN {} ELSE table[l]]

\* DELETE /list/:name; there may be no such list, which is no error.
Deleted(table, n) == Restrict(table, DOMAIN table \ {n})

\* PUT /list/:old-:ne, an UPDATE of no row when there is no such list.
PutRefused(table, old, ne) == old \in DOMAIN table /\ ne \in DOMAIN table \ {old}
Put(table, old, ne) ==
  IF old \notin DOMAIN table THEN table
  ELSE [l \in (DOMAIN table \ {old}) \cup {ne} |-> IF l = ne THEN table[old] ELSE table[l]]

\* POST and DELETE /list/:name/product/:product.  The foreign key refuses a
\* product for a list that is not there, the primary key a product twice.
PostProductRefused(table, n, e) == n \notin DOMAIN table \/ e \in table[n]
ProductPosted(table, n, e) == [table EXCEPT ![n] = @ \cup {e}]
ProductDeleted(table, n, e) ==
  IF n \notin DOMAIN table THEN table ELSE [table EXCEPT ![n] = @ \ {e}]
===========================================================================
