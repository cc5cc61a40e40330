----------------------------- MODULE ListPage -----------------------------
(* The page of the shopping lists in a browser: getList of handlers/list.js *)
(* on the server, which reads the account by two statements and fills the   *)
(* page from both, and the scripts of the page, jquery-list.js, which       *)
(* change the account by AJAX and the page by the answers.  Other clients   *)
(* of the account change it at any time.                                    *)
EXTENDS ListTables, FiniteSetsExt, Naturals, Sequences

CONSTANTS Names,     \* names of lists, numbers so that they have an order
          Products,
          Ajax,      \* requests of the scripts that may be under way at a time
          MaxTimers, \* bound on the timers that run at a time
          None

ASSUME NamesAssumption == Names \subseteq Nat
ASSUME NoneAssumption == None \notin Names
ASSUME TimersAssumption == MaxTimers \in Nat

VARIABLES table,   \* the lists of the account and their products
          alive,   \* the server runs
          pc,      \* the request of the page: what the browser shows of it
          titles,  \* resultat: the names of the lists, as the first statement gave them
          shown,   \* the lists on the page
          items,   \* the products on the page: the list each is under, the product,
                   \* and the list it is in, which the page does not show
          modal,   \* the dialog "delete this list" is open
          toDelete,  \* varNameListDelete
          ajax,    \* the requests of the scripts
          timers,  \* how many lists are about to be removed from the page
          cause    \* history: what came between since the page was asked for

\* Bound: the user and the other clients leave a page alone that something came
\* between, until it is loaded again.
Fresh == cause = {}

script == <<modal, toDelete, ajax, timers>>
vars == <<table, alive, pc, titles, shown, items, script, cause>>

Accounts == UNION {[L -> SUBSET Products] : L \in {S \in SUBSET Names : IsFiniteSet(S)}}
NoAjax == [op |-> "none", pc |-> "free", name |-> None, arg |-> None, ok |-> FALSE]
OnPage == pc = "shown"

Init ==
  /\ table \in Accounts
  /\ alive = TRUE /\ pc = "asked"
  /\ titles = <<>> /\ shown = {} /\ items = {}
  /\ modal = FALSE /\ toDelete = None /\ timers = 0
  /\ ajax = [r \in Ajax |-> NoAjax]
  /\ cause = {}

-----------------------------------------------------------------------------
(* The server.                                                              *)

\* The browser gives up the page it shows, and what its scripts were about.
Load ==
  /\ pc' = "asked"
  /\ titles' = <<>> /\ shown' = {} /\ items' = {}
  /\ modal' = FALSE /\ toDelete' = None /\ timers' = 0
  /\ ajax' = [r \in Ajax |-> NoAjax]
  /\ cause' = {}

Ask ==
  /\ pc \in {"shown", "error"}
  /\ Load
  /\ UNCHANGED <<table, alive>>

\* The names of the lists, in the order the table happens to have.
SelectLists ==
  /\ alive /\ pc = "asked"
  /\ pc' = "titled"
  /\ titles' \in Bijection(1 .. Cardinality(DOMAIN table), DOMAIN table)
  /\ UNCHANGED <<table, alive, shown, items, script, cause>>

\* The products, each with the name of its list, by which they are ordered.
ProductRows == UNION {{l} \X table[l] : l \in DOMAIN table}

\* The names the rows have up to the name l.
NamesUpTo(rows, l) == {row[1] : row \in {x \in rows : x[1] <= l}}

\* Mutant: fillResponse goes to the next list when the name changes, instead of looking for it.
FiledInOrder(names, rows) ==
  LET nth(l) == Min({Cardinality(NamesUpTo(rows, l)), Cardinality(DOMAIN names)})
  IN {<<names[nth(row[1])], row[2], row[1]>> : row \in rows}

\* fillResponse: the list a row of the name l goes to, the one it names or else the
\* one the rows before went to, at first the first.
To(names, rows, l) ==
  LET known == NamesUpTo(rows, l) \cap Range(names)
  IN IF known = {} THEN names[1] ELSE Max(known)

Filed(names, rows) == {<<To(names, rows, row[1]), row[2], row[1]>> : row \in rows}

\* Products and no list is an exception, which ends the process.
SelectProducts ==
  /\ alive /\ pc = "titled"
  /\ \/ /\ titles # <<>> \/ ProductRows = {}
        /\ pc' = "shown"
        /\ shown' = Range(titles)
        /\ items' = Filed(titles, ProductRows)
        /\ UNCHANGED alive
     \/ /\ titles = <<>> /\ ProductRows # {}
        /\ alive' = FALSE /\ pc' = "error"
        /\ UNCHANGED <<shown, items>>
  /\ UNCHANGED <<table, titles, script, cause>>

\* A statement fails, or there is no server: the login page, or none.
Fail ==
  /\ pc \in {"asked", "titled"}
  /\ pc' = "error"
  /\ UNCHANGED <<table, alive, titles, shown, items, script, cause>>

Restart ==
  /\ ~ alive /\ alive' = TRUE
  /\ UNCHANGED <<table, pc, titles, shown, items, script, cause>>

\* Another client, or a request of a page that was left.
Others ==
  /\ alive /\ (Fresh \/ pc = "titled")
  /\ \E n, m \in Names, e \in Products :
       \/ ~ PostRefused(table, n) /\ table' = Posted(table, n)
       \/ table' = Deleted(table, n)
       \/ ~ PutRefused(table, n, m) /\ table' = Put(table, n, m)
       \/ ~ PostProductRefused(table, n, e) /\ table' = ProductPosted(table, n, e)
       \/ table' = ProductDeleted(table, n, e)
  /\ cause' = IF pc \in {"titled", "shown"} /\ table' # table THEN cause \cup {"others"} ELSE cause
  /\ UNCHANGED <<alive, pc, titles, shown, items, script>>

-----------------------------------------------------------------------------
(* The scripts of the page.                                                 *)

Send(r, request) ==
  /\ OnPage /\ Fresh /\ ajax[r].pc = "free"
  /\ ajax' = [ajax EXCEPT ![r] = request]
  /\ UNCHANGED <<table, alive, pc, titles, shown, items, modal, toDelete, timers, cause>>

Request(op, n, x) == [NoAjax EXCEPT !.op = op, !.pc = "sent", !.name = n, !.arg = x]

\* nameListDelete.  The dialog is opened for another list than the one whose
\* deletion is still under way.
NameListDelete(n) ==
  /\ OnPage /\ Fresh /\ ~ modal /\ n \in shown
  /\ modal' = TRUE /\ toDelete' = n
  /\ cause' = IF n # toDelete /\ (timers > 0 \/ \E r \in Ajax : ajax[r].op = "delete")
              THEN cause \cup {"retargeted"} ELSE cause
  /\ UNCHANGED <<table, alive, pc, titles, shown, items, ajax, timers>>

HideDialog ==
  /\ OnPage /\ modal /\ modal' = FALSE
  /\ UNCHANGED <<table, alive, pc, titles, shown, items, toDelete, ajax, timers, cause>>

SupList(r) == modal /\ Send(r, Request("delete", toDelete, None))
SupProduct(r, x) == Send(r, Request("deleteProduct", x[1], x[2]))
AddList(r, n) == Send(r, Request("post", n, None))
ChangeList(r, old, ne) == old \in shown /\ Send(r, Request("put", old, ne))

\* The routes the scripts call.
Serve(r) ==
  /\ alive /\ ajax[r].pc = "sent"
  /\ LET x == ajax[r] IN
       \/ /\ \/ x.op = "delete" /\ table' = Deleted(table, x.name)
             \/ x.op = "deleteProduct" /\ table' = ProductDeleted(table, x.name, x.arg)
             \/ x.op = "post" /\ ~ PostRefused(table, x.name) /\ table' = Posted(table, x.name)
             \/ x.op = "put" /\ ~ PutRefused(table, x.name, x.arg)
                             /\ table' = Put(table, x.name, x.arg)
          /\ ajax' = [ajax EXCEPT ![r] = [x EXCEPT !.pc = "served", !.ok = TRUE]]
       \/ /\ ajax' = [ajax EXCEPT ![r].pc = "served"]
          /\ UNCHANGED table
  /\ UNCHANGED <<alive, pc, titles, shown, items, modal, toDelete, timers, cause>>

\* The answer is lost, or the request; complete is called and throws.
Lose(r) ==
  /\ ajax[r].pc \in {"sent", "served"}
  /\ ajax' = [ajax EXCEPT ![r] = NoAjax]
  /\ cause' = IF ajax[r].ok THEN cause \cup {"lost"} ELSE cause
  /\ UNCHANGED <<table, alive, pc, titles, shown, items, modal, toDelete, timers>>

Done(r) == ajax[r].pc = "served" /\ ajax' = [ajax EXCEPT ![r] = NoAjax]

CompleteFailure(r) ==
  /\ ~ ajax[r].ok /\ Done(r)
  /\ UNCHANGED <<table, alive, pc, titles, shown, items, modal, toDelete, timers, cause>>

\* supList: the dialog is hidden, and a second later the list leaves the page.
CompleteDelete(r) ==
  /\ ajax[r].ok /\ ajax[r].op = "delete" /\ Done(r) /\ timers < MaxTimers
  /\ modal' = FALSE /\ timers' = timers + 1
  /\ UNCHANGED <<table, alive, pc, titles, shown, items, toDelete, cause>>

\* Mutant: the second of the two removals of supList is forgotten.
TimerHalf ==
  /\ timers > 0 /\ timers' = timers - 1
  /\ shown' = shown \ {toDelete}
  /\ UNCHANGED <<table, alive, pc, titles, items, modal, toDelete, ajax, cause>>

\* The list that leaves the page is the one varNameListDelete names by then.
Timer ==
  /\ timers > 0 /\ timers' = timers - 1
  /\ shown' = shown \ {toDelete}
  /\ items' = {x \in items : x[1] # toDelete}
  /\ UNCHANGED <<table, alive, pc, titles, modal, toDelete, ajax, cause>>

\* Mutant: the product leaves the page wherever it is.
CompleteProductEverywhere(r) ==
  /\ ajax[r].ok /\ ajax[r].op = "deleteProduct" /\ Done(r)
  /\ items' = {x \in items : x[2] # ajax[r].arg}
  /\ UNCHANGED <<table, alive, pc, titles, shown, modal, toDelete, timers, cause>>

CompleteProduct(r) ==
  /\ ajax[r].ok /\ ajax[r].op = "deleteProduct" /\ Done(r)
  /\ items' = {x \in items : x[1] # ajax[r].name \/ x[2] # ajax[r].arg}
  /\ UNCHANGED <<table, alive, pc, titles, shown, modal, toDelete, timers, cause>>

\* addList and changeList reload the page.
CompleteReload(r) ==
  /\ ajax[r].pc = "served" /\ ajax[r].ok /\ ajax[r].op \in {"post", "put"}
  /\ Load
  /\ UNCHANGED <<table, alive>>

-----------------------------------------------------------------------------
Page == Ask \/ SelectLists \/ SelectProducts \/ Fail
ByUser ==
  \/ HideDialog \/ \E n \in Names : NameListDelete(n)
  \/ \E r \in Ajax : SupList(r) \/ \E x \in items : SupProduct(r, x)
  \/ \E r \in Ajax, n, m \in Names : AddList(r, n) \/ ChangeList(r, n, m)
Complete(r) ==
  CompleteFailure(r) \/ CompleteDelete(r) \/ CompleteProduct(r) \/ CompleteReload(r)
Answers == \E r \in Ajax : Serve(r) \/ Lose(r) \/ Complete(r)

Next == Page \/ Restart \/ Others \/ ByUser \/ Answers \/ Timer

Spec == Init /\ [][Next]_vars

-----------------------------------------------------------------------------
(* What is checked.                                                         *)

Ops == {"none", "delete", "deleteProduct", "post", "put"}
AjaxState ==
  {x \in [op : Ops, pc : {"free", "sent", "served"}, name : Names \cup {None},
          arg : Names \cup Products \cup {None}, ok : BOOLEAN] :
     \/ x = NoAjax
     \/ /\ x.pc # "free" /\ x.op # "none" /\ x.name \in Names
        /\ x.op = "put" => x.arg \in Names
        /\ x.op = "deleteProduct" => x.arg \in Products}

\* The types; what is on the page was there when it was loaded, a product is only
\* shown under a list that is, and the dialog always names a list.
TypeOK ==
  /\ table \in Accounts
  /\ alive \in BOOLEAN
  /\ pc \in {"asked", "titled", "shown", "error"}
  /\ titles \in Seq(Names) /\ IsInjective(titles) /\ shown \subseteq Range(titles)
  /\ items \subseteq shown \X Products \X Names
  /\ toDelete \in Range(titles) \cup {None} /\ (modal => toDelete # None)
  /\ modal \in BOOLEAN
  /\ ajax \in [Ajax -> AjaxState]
  /\ timers \in 0 .. MaxTimers
  /\ cause \subseteq {"others", "retargeted", "lost"}

\* The page getList makes of two statements that were not read together: it shows
\* every list of the first, and every product of the second once, under its own
\* list whenever the first statement had that list.
PageFiled ==
  [][pc = "titled" /\ pc' = "shown" =>
       /\ shown' = Range(titles)
       /\ \A l \in DOMAIN table : \A e \in table[l] :
            \E x \in items' :
              /\ x[2] = e /\ x[3] = l /\ x[1] \in shown'
              /\ l \in Range(titles) => x[1] = l
              /\ \A y \in items' : y[2] = e /\ y[3] = l => y = x]_vars

\* Once the answers have come and the deleted list has left, the page shows the
\* lists of the account and the products of each, unless something came between:
\* another client changed the account, an answer was lost, or the dialog was opened
\* for another list while a deletion was under way.
PageTrue ==
  (OnPage /\ Fresh /\ timers = 0 /\ \A r \in Ajax : ajax[r].pc = "free")
  => /\ shown = DOMAIN table
     /\ {<<x[1], x[2]>> : x \in items} = UNION {{l} \X table[l] : l \in shown}
===========================================================================
