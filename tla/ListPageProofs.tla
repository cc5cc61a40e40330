-------------------------- MODULE ListPageProofs --------------------------
(***************************************************************************)
(* For every set of names, products and requests of the scripts, and        *)
(* however many deleted lists are about to leave the page: how getList files *)
(* the products of its second statement under the lists of its first, and   *)
(* that the page agrees with the account once the answers have come.        *)
(***************************************************************************)
EXTENDS ListPage, FiniteSetTheorems, WellFoundedInduction, TLAPS

\* What the account has, and what the page shows.
Has(l, e) == l \in DOMAIN table /\ e \in table[l]
Shows(l, e) == \E x \in items : x[1] = l /\ x[2] = e

\* What the scripts have had done and do not show yet: a deleted list, deleted
\* products, a page to be loaded again.
Answered(r, op) == ajax[r].ok /\ ajax[r].op = op
Deleting == timers > 0 \/ \E r \in Ajax : Answered(r, "delete")
Gone(l, e) ==
  \E r \in Ajax : Answered(r, "deleteProduct") /\ ajax[r].name = l /\ ajax[r].arg = e
Reloading == \E r \in Ajax : Answered(r, "post") \/ Answered(r, "put")

\* Only an answer says success, and without the page there are no requests, and
\* nothing on it.
Requested ==
  /\ \A r \in Ajax : ajax[r].ok => ajax[r].pc = "served"
  /\ ~ OnPage => /\ timers = 0 /\ \A r \in Ajax : ajax[r] = NoAjax
                 /\ shown = {} /\ items = {} /\ toDelete = None

\* The lists on the page are those of the account, but for the one that leaves.
ListsAgree ==
  /\ DOMAIN table \subseteq shown
  /\ Deleting => toDelete \notin DOMAIN table
  /\ \A l \in shown : l \in DOMAIN table \/ (Deleting /\ l = toDelete)

\* So are the products, but for those that leave, of which none is in the account.
ProductsAgree ==
  /\ \A l \in Names, e \in Products : Has(l, e) => Shows(l, e) /\ ~ Gone(l, e)
  /\ \A l \in Names, e \in Products :
       Shows(l, e) => Has(l, e) \/ Gone(l, e) \/ (Deleting /\ l = toDelete)

\* While nothing has come between.
Agreed ==
  Fresh =>
    /\ pc = "titled" => Range(titles) = DOMAIN table
    /\ \A r \in Ajax : ajax[r].op = "delete" => ajax[r].name = toDelete
    /\ OnPage /\ ~ Reloading => ListsAgree /\ ProductsAgree

IInv == TypeOK /\ Requested /\ Agreed

----------------------------------------------------------------------------
(* The account.                                                             *)

(* An account has finitely many lists of Names, each a set of products.     *)
LEMMA AccountIs ==
  ASSUME NEW t
  PROVE  t \in Accounts <=> /\ DOMAIN t \subseteq Names /\ IsFiniteSet(DOMAIN t)
                            /\ t \in [DOMAIN t -> SUBSET Products]
<1>1. ASSUME t \in Accounts
      PROVE  /\ DOMAIN t \subseteq Names /\ IsFiniteSet(DOMAIN t)
             /\ t \in [DOMAIN t -> SUBSET Products]
  <2>1. PICK L \in SUBSET Names : IsFiniteSet(L) /\ t \in [L -> SUBSET Products]
    BY <1>1, Zenon DEF Accounts
  <2>2. DOMAIN t = L
    BY <2>1
  <2> QED
    BY <2>1, <2>2
<1>2. ASSUME DOMAIN t \subseteq Names, IsFiniteSet(DOMAIN t), t \in [DOMAIN t -> SUBSET Products]
      PROVE  t \in Accounts
  BY <1>2, Zenon DEF Accounts
<1> QED
  BY <1>1, <1>2

(* Every route leaves an account, and what it does to one list.             *)
LEMMA RoutesTyped ==
  ASSUME NEW t \in Accounts, NEW n \in Names
  PROVE  /\ Posted(t, n) \in Accounts
         /\ Deleted(t, n) \in Accounts
         /\ \A m \in Names : Put(t, n, m) \in Accounts
         /\ \A e \in Products :
              /\ ~ PostProductRefused(t, n, e) => ProductPosted(t, n, e) \in Accounts
              /\ ProductDeleted(t, n, e) \in Accounts
<1>1. /\ DOMAIN t \subseteq Names /\ IsFiniteSet(DOMAIN t)
      /\ t \in [DOMAIN t -> SUBSET Products]
  BY AccountIs
<1>2. ASSUME NEW L, NEW u \in [L -> SUBSET Products], L \subseteq Names, IsFiniteSet(L)
      PROVE  u \in Accounts
  BY <1>2, AccountIs
<1>3. Posted(t, n) \in Accounts
  <2>1. Posted(t, n) \in [DOMAIN t \cup {n} -> SUBSET Products]
    BY <1>1 DEF Posted
  <2>2. DOMAIN t \cup {n} \subseteq Names /\ IsFiniteSet(DOMAIN t \cup {n})
    BY <1>1, FS_AddElement
  <2> QED
    BY <1>2, <2>1, <2>2
<1>4. Deleted(t, n) \in Accounts
  <2>1. Deleted(t, n) \in [DOMAIN t \ {n} -> SUBSET Products]
    BY <1>1 DEF Deleted, Restrict
  <2>2. DOMAIN t \ {n} \subseteq Names /\ IsFiniteSet(DOMAIN t \ {n})
    BY <1>1, FS_RemoveElement
  <2> QED
    BY <1>2, <2>1, <2>2
<1>5. ASSUME NEW m \in Names PROVE Put(t, n, m) \in Accounts
  <2> DEFINE L == (DOMAIN t \ {n}) \cup {m}
  <2>1. CASE n \notin DOMAIN t
    BY <2>1 DEF Put
  <2>2. CASE n \in DOMAIN t
    <3>1. Put(t, n, m) \in [L -> SUBSET Products]
      BY <1>1, <2>2 DEF Put
    <3>2. L \subseteq Names /\ IsFiniteSet(L)
      BY <1>1, FS_AddElement, FS_RemoveElement
    <3> QED
      BY <1>2, <3>1, <3>2
  <2> QED
    BY <2>1, <2>2
<1>6. ASSUME NEW e \in Products
      PROVE  /\ ~ PostProductRefused(t, n, e) => ProductPosted(t, n, e) \in Accounts
             /\ ProductDeleted(t, n, e) \in Accounts
  <2>1. ~ PostProductRefused(t, n, e) => ProductPosted(t, n, e) \in [DOMAIN t -> SUBSET Products]
    BY <1>1 DEF ProductPosted, PostProductRefused
  <2>2. ProductDeleted(t, n, e) \in [DOMAIN t -> SUBSET Products]
    BY <1>1 DEF ProductDeleted
  <2> QED
    BY <1>1, <1>2, <2>1, <2>2
<1> QED
  BY <1>3, <1>4, <1>5, <1>6

----------------------------------------------------------------------------
(* The order of the names.                                                  *)

(* A set of numbers that is not empty has a least one.                      *)
LEMMA LeastExists ==
  ASSUME NEW T \in SUBSET Nat, T # {}
  PROVE  \E d \in T : \A c \in T : d <= c
<1> DEFINE R == OpToRel(<, Nat)
<1>1. IsWellFoundedOn(R, Nat)
  BY NatLessThanWellFounded
<1>2. \A x, y \in Nat : x < y => <<x, y>> \in R
  BY DEF OpToRel
<1> HIDE DEF R
<1>3. PICK d \in T : \A c \in T : ~ (<<c, d>> \in R)
  BY <1>1, WFMin
<1>4. ASSUME NEW c \in T PROVE d <= c
  <2>1. ~ (<<c, d>> \in R) /\ c \in Nat /\ d \in Nat
    BY <1>3
  <2>2. ~ (c < d)
    BY <1>2, <2>1
  <2> QED
    BY <2>1, <2>2
<1> QED
  BY <1>4

(* A bounded set of numbers that is not empty has a greatest one: there is a *)
(* least distance to the bound.                                             *)
LEMMA GreatestExists ==
  ASSUME NEW S \in SUBSET Nat, S # {}, NEW b \in Nat, \A x \in S : x <= b
  PROVE  Max(S) \in S /\ \A y \in S : Max(S) >= y
<1> DEFINE T == {b - x : x \in S}
<1>1. \A x \in S : b - x \in Nat
  OBVIOUS
<1>2. T \in SUBSET Nat
  BY <1>1
<1>3. T # {}
  <2>1. PICK x : x \in S
    OBVIOUS
  <2>2. b - x \in T
    BY <2>1
  <2> QED
    BY <2>2
<1>4. PICK d \in T : \A c \in T : d <= c
  <2> HIDE DEF T
  <2> QED
    BY <1>2, <1>3, LeastExists
<1>5. PICK x \in S : d = b - x
  OBVIOUS
<1>6. ASSUME NEW y \in S PROVE x >= y
  <2>1. d <= b - y
    BY <1>4
  <2> QED
    BY <1>5, <2>1
<1> QED
  BY <1>6 DEF Max

(* Where a row goes: under a list of the page, and under its own if the page *)
(* has it.                                                                  *)
LEMMA FiledUnder ==
  ASSUME NEW names, Range(names) \subseteq Names, 1 \in DOMAIN names,
         NEW rows, NEW row \in rows, \A x \in rows : x[1] \in Names
  PROVE  /\ To(names, rows, row[1]) \in Range(names)
         /\ row[1] \in Range(names) => To(names, rows, row[1]) = row[1]
<1> DEFINE l == row[1]
           known == NamesUpTo(rows, l) \cap Range(names)
<1>1. known \in SUBSET Nat /\ l \in Nat /\ \A x \in known : x <= l
  BY NamesAssumption DEF NamesUpTo
<1>2. CASE known = {}
  <2>1. l \notin Range(names)
    BY <1>1, <1>2 DEF NamesUpTo
  <2>2. To(names, rows, l) = names[1]
    BY <1>2 DEF To
  <2> QED
    BY <2>1, <2>2 DEF Range
<1>3. CASE known # {}
  <2>1. To(names, rows, l) = Max(known)
    BY <1>3 DEF To
  <2>2. Max(known) \in known /\ \A y \in known : Max(known) >= y
    BY <1>1, <1>3, GreatestExists
  <2>3. l \in Range(names) => l \in known
    BY <1>1 DEF NamesUpTo
  <2>4. l \in Range(names) => Max(known) = l
    BY <1>1, <2>2, <2>3
  <2> QED
    BY <2>1, <2>2, <2>4
<1> QED
  BY <1>2, <1>3

----------------------------------------------------------------------------
(* The types, and the requests of the scripts.                              *)

(* The titles the page has before the first statement is answered.          *)
LEMMA NoTitles ==
  <<>> \in Seq(Names) /\ Range(<<>>) = {} /\ IsInjective(<<>>)
BY DEF Range, IsInjective

(* No request is a request.                                                 *)
LEMMA NoAjaxTyped == NoAjax \in AjaxState
BY DEF NoAjax, AjaxState, Ops

(* A page that is asked for keeps the strengthening, whatever was on it.    *)
LEMMA LoadStep ==
  ASSUME table' \in Accounts, alive' \in BOOLEAN, Load PROVE IInv'
<1>1. TypeOK'
  <2>1. titles' \in Seq(Names) /\ Range(titles') = {} /\ IsInjective(titles')
    BY NoTitles DEF Load
  <2>2. ajax' \in [Ajax -> AjaxState] /\ timers' \in 0 .. MaxTimers
    BY NoAjaxTyped, TimersAssumption DEF Load
  <2> QED
    BY <2>1, <2>2 DEF Load, TypeOK
<1>2. Requested'
  BY DEF Load, Requested, NoAjax, OnPage
<1>3. Agreed'
  BY DEF Load, Agreed, NoAjax, OnPage
<1> QED
  BY <1>1, <1>2, <1>3 DEF IInv

(* It holds initially.                                                      *)
LEMMA InitIInv == Init => IInv
<1> SUFFICES ASSUME Init PROVE IInv
  OBVIOUS
<1>1. TypeOK
  <2>1. titles \in Seq(Names) /\ Range(titles) = {} /\ IsInjective(titles)
    BY NoTitles DEF Init
  <2>2. ajax \in [Ajax -> AjaxState] /\ timers \in 0 .. MaxTimers
    BY NoAjaxTyped, TimersAssumption DEF Init
  <2> QED
    BY <2>1, <2>2 DEF Init, TypeOK
<1>2. Requested
  BY DEF Init, Requested, NoAjax, OnPage
<1>3. Agreed
  BY DEF Init, Agreed, NoAjax, OnPage
<1> QED
  BY <1>1, <1>2, <1>3 DEF IInv

\* The answer of a request, or its loss, and a step that only changes one request.
AjaxStep(r, x) ==
  /\ ajax' = [ajax EXCEPT ![r] = x]
  /\ UNCHANGED pc

(* A request that is typed, and says success only as an answer.             *)
LEMMA AjaxTyped ==
  ASSUME TypeOK, Requested, OnPage, NEW r \in Ajax, NEW x \in AjaxState, AjaxStep(r, x),
         x.ok => x.pc = "served"
  PROVE  ajax' \in [Ajax -> AjaxState] /\ Requested'
<1>1. /\ ajax' \in [Ajax -> AjaxState] /\ ajax'[r] = x
      /\ \A q \in Ajax : q # r => ajax'[q] = ajax[q]
  BY DEF TypeOK, AjaxStep
<1>2. OnPage'
  BY DEF AjaxStep, OnPage
<1> QED
  BY <1>1, <1>2 DEF Requested

(* What a request that is under way tells of the page.                      *)
LEMMA UnderWay ==
  ASSUME TypeOK, Requested, NEW r \in Ajax
  PROVE  /\ ajax[r] \in AjaxState
         /\ ajax[r].pc = "free" <=> ajax[r] = NoAjax
         /\ ajax[r].pc # "free" => OnPage
<1>1. ajax[r] \in AjaxState
  BY DEF TypeOK
<1>2. ajax[r].pc = "free" <=> ajax[r] = NoAjax
  <2>1. NoAjax.pc = "free"
    BY DEF NoAjax
  <2> QED
    BY <1>1, <2>1 DEF AjaxState
<1> QED
  BY <1>1, <1>2 DEF Requested

(* The statements of getList: the lists, and what is made of the products.  *)
LEMMA SelectListsTyped ==
  ASSUME TypeOK, Requested, SelectLists
  PROVE  TypeOK' /\ Requested' /\ Range(titles') = DOMAIN table
<1> DEFINE D == DOMAIN table
           n == Cardinality(D)
<1>1. D \subseteq Names /\ n \in Nat
  BY AccountIs, FS_CardinalityType DEF TypeOK
<1>2. /\ titles' \in [1 .. n -> D] /\ IsInjective(titles')
      /\ \A t \in D : \E k \in 1 .. n : titles'[k] = t
  BY DEF SelectLists, Bijection, Injection, Surjection
<1>3. Range(titles') = D
  BY <1>2 DEF Range
<1>4. titles' \in Seq(Names)
  BY <1>1, <1>2
<1>5. /\ pc = "asked" /\ pc' = "titled"
      /\ UNCHANGED <<table, alive, shown, items, modal, toDelete, ajax, timers, cause>>
  BY DEF SelectLists, script
<1>6. shown = {} /\ toDelete = None
  BY <1>5 DEF Requested, OnPage
<1>7. TypeOK'
  BY <1>2, <1>3, <1>4, <1>5, <1>6 DEF TypeOK
<1>8. Requested'
  BY <1>5 DEF Requested, OnPage
<1> QED
  BY <1>3, <1>7, <1>8

(* The rows are the products of the account, each with its list.            *)
LEMMA RowsAre ==
  ASSUME TypeOK
  PROVE  /\ \A row \in ProductRows : /\ row \in Names \X Products
                                     /\ row[1] \in DOMAIN table /\ row[2] \in table[row[1]]
         /\ \A l \in DOMAIN table : \A e \in table[l] : <<l, e>> \in ProductRows
<1>1. DOMAIN table \subseteq Names /\ \A l \in DOMAIN table : table[l] \subseteq Products
  BY AccountIs DEF TypeOK
<1>2. ASSUME NEW row \in ProductRows
      PROVE  /\ row \in Names \X Products
             /\ row[1] \in DOMAIN table /\ row[2] \in table[row[1]]
  <2>1. PICK l \in DOMAIN table : row \in {l} \X table[l]
    BY <1>2, Zenon DEF ProductRows
  <2> QED
    BY <1>1, <2>1
<1>3. ASSUME NEW l \in DOMAIN table, NEW e \in table[l] PROVE <<l, e>> \in ProductRows
  <2>1. <<l, e>> \in {l} \X table[l]
    OBVIOUS
  <2> QED
    BY <2>1, Zenon DEF ProductRows
<1> QED
  BY <1>2, <1>3

(* What the page shows once the products are read: every list of the first  *)
(* statement, each product once, under its own list if the page has it.     *)
LEMMA PageMade ==
  ASSUME TypeOK, SelectProducts, pc' = "shown"
  PROVE  /\ shown' = Range(titles)
         /\ \A row \in ProductRows :
              /\ To(titles, ProductRows, row[1]) \in Range(titles)
              /\ row[1] \in Range(titles) => To(titles, ProductRows, row[1]) = row[1]
         /\ items' = {<<To(titles, ProductRows, row[1]), row[2], row[1]>> : row \in ProductRows}
<1>1. /\ titles # <<>> \/ ProductRows = {}
      /\ shown' = Range(titles) /\ items' = Filed(titles, ProductRows)
  BY DEF SelectProducts
<1>2. ASSUME NEW row \in ProductRows
      PROVE  /\ To(titles, ProductRows, row[1]) \in Range(titles)
             /\ row[1] \in Range(titles) => To(titles, ProductRows, row[1]) = row[1]
  <2>1. 1 \in DOMAIN titles
    <3>1. titles # <<>> /\ titles \in Seq(Names)
      BY <1>1, <1>2 DEF TypeOK
    <3> QED
      BY <3>1
  <2>2. \A x \in ProductRows : x[1] \in Names
    BY RowsAre
  <2>3. Range(titles) \subseteq Names
    BY DEF TypeOK, Range
  <2> QED
    BY <1>2, <2>1, <2>2, <2>3, FiledUnder
<1> QED
  BY <1>1, <1>2 DEF Filed

LEMMA SelectProductsTyped ==
  ASSUME TypeOK, Requested, SelectProducts PROVE TypeOK' /\ Requested'
<1>1. /\ pc = "titled" /\ UNCHANGED <<table, titles, modal, toDelete, ajax, timers, cause>>
  BY DEF SelectProducts, script
<1>2. CASE pc' = "shown"
  <2>1. shown' = Range(titles) /\ alive' = alive
    BY <1>2 DEF SelectProducts
  <2>2. ASSUME NEW x \in items' PROVE x \in shown' \X Products \X Names
    <3>1. PICK row \in ProductRows : x = <<To(titles, ProductRows, row[1]), row[2], row[1]>>
      BY <1>2, <2>2, PageMade
    <3>2. To(titles, ProductRows, row[1]) \in shown'
      BY <1>2, PageMade
    <3>3. row \in Names \X Products
      BY RowsAre
    <3> QED
      BY <3>1, <3>2, <3>3
  <2>3. TypeOK'
    BY <1>1, <1>2, <2>1, <2>2 DEF TypeOK
  <2>4. Requested'
    BY <1>1, <1>2 DEF Requested, OnPage
  <2> QED
    BY <2>3, <2>4
<1>3. CASE pc' # "shown"
  <2>1. pc' = "error" /\ alive' = FALSE /\ UNCHANGED <<shown, items>>
    BY <1>3 DEF SelectProducts
  <2>2. TypeOK'
    BY <1>1, <2>1 DEF TypeOK
  <2>3. Requested'
    BY <1>1, <2>1 DEF Requested, OnPage
  <2> QED
    BY <2>2, <2>3
<1> QED
  BY <1>2, <1>3

(* Steps that change neither the requests nor what is on the page.          *)
LEMMA ServerTyped ==
  ASSUME TypeOK, Requested, Fail \/ Restart \/ Others PROVE TypeOK' /\ Requested'
<1>1. /\ UNCHANGED <<titles, shown, items, modal, toDelete, ajax, timers>>
      /\ pc' = pc \/ (~ OnPage /\ pc' = "error")
      /\ alive' \in BOOLEAN
  BY DEF Fail, Restart, Others, script, OnPage, TypeOK
<1>2. cause' \subseteq {"others", "retargeted", "lost"}
  BY DEF Fail, Restart, Others, TypeOK
<1>3. table' \in Accounts
  <2>1. CASE Fail \/ Restart
    BY <2>1 DEF Fail, Restart, TypeOK
  <2>2. CASE Others
    BY <2>2, RoutesTyped DEF Others, TypeOK
  <2> QED
    BY <2>1, <2>2
<1>4. TypeOK'
  BY <1>1, <1>2, <1>3 DEF TypeOK
<1>5. Requested'
  BY <1>1 DEF Requested, OnPage
<1> QED
  BY <1>4, <1>5

\* What a click sends.
Click == \/ \E r \in Ajax : SupList(r) \/ \E x \in items : SupProduct(r, x)
         \/ \E r \in Ajax, n, m \in Names : AddList(r, n) \/ ChangeList(r, n, m)

(* A click sends one request, to delete a list only the list of the dialog. *)
LEMMA ClickSends ==
  ASSUME TypeOK, Requested, Click
  PROVE  \E r \in Ajax, x \in AjaxState :
           /\ AjaxStep(r, x) /\ ajax[r] = NoAjax /\ x.pc = "sent" /\ ~ x.ok
           /\ x.op = "delete" => x.name = toDelete
           /\ OnPage
           /\ UNCHANGED <<table, alive, pc, titles, shown, items, modal, toDelete, timers, cause>>
<1>1. ASSUME NEW r \in Ajax, NEW op, NEW n, NEW y, Send(r, Request(op, n, y)),
             Request(op, n, y) \in AjaxState, op = "delete" => n = toDelete
      PROVE  \E x \in AjaxState :
               /\ AjaxStep(r, x) /\ ajax[r] = NoAjax /\ x.pc = "sent" /\ ~ x.ok
               /\ x.op = "delete" => x.name = toDelete
               /\ OnPage
               /\ UNCHANGED <<table, alive, pc, titles, shown, items, modal, toDelete, timers, cause>>
  <2>1. /\ Request(op, n, y).op = op /\ Request(op, n, y).pc = "sent"
        /\ Request(op, n, y).name = n /\ ~ Request(op, n, y).ok
    BY DEF Request, NoAjax
  <2>2. /\ AjaxStep(r, Request(op, n, y)) /\ ajax[r] = NoAjax /\ OnPage
        /\ UNCHANGED <<table, alive, pc, titles, shown, items, modal, toDelete, timers, cause>>
    BY <1>1, UnderWay DEF Send, AjaxStep
  <2> QED
    BY <1>1, <2>1, <2>2
<1>2. ASSUME NEW n \in Names
      PROVE  /\ Request("delete", n, None) \in AjaxState
             /\ \A y \in Products : Request("deleteProduct", n, y) \in AjaxState
             /\ Request("post", n, None) \in AjaxState
             /\ \A m \in Names : Request("put", n, m) \in AjaxState
  BY DEF Request, NoAjax, AjaxState, Ops
<1>3. /\ modal => toDelete \in Names
      /\ shown \subseteq Names /\ \A x \in items : x[1] \in Names /\ x[2] \in Products
  BY DEF TypeOK, Range
<1>4. CASE \E r \in Ajax : SupList(r)
  BY <1>1, <1>2, <1>3, <1>4 DEF SupList
<1>5. CASE \E r \in Ajax : \E x \in items : SupProduct(r, x)
  BY <1>1, <1>2, <1>3, <1>5 DEF SupProduct
<1>6. CASE \E r \in Ajax, n, m \in Names : AddList(r, n)
  BY <1>1, <1>2, <1>6 DEF AddList
<1>7. CASE \E r \in Ajax, n, m \in Names : ChangeList(r, n, m)
  BY <1>1, <1>2, <1>7 DEF ChangeList
<1> QED
  BY <1>4, <1>5, <1>6, <1>7 DEF Click

(* The dialog.                                                              *)
LEMMA DialogTyped ==
  ASSUME TypeOK, Requested, HideDialog \/ \E n \in Names : NameListDelete(n)
  PROVE  TypeOK' /\ Requested'
<1>1. /\ OnPage /\ UNCHANGED <<table, alive, pc, titles, shown, items, ajax, timers>>
      /\ modal' \in BOOLEAN
  BY DEF HideDialog, NameListDelete
<1>2. /\ toDelete' \in Range(titles) \cup {None} /\ (modal' => toDelete' # None)
      /\ cause' \subseteq {"others", "retargeted", "lost"}
  <2>1. CASE HideDialog
    BY <2>1 DEF HideDialog, TypeOK
  <2>2. ASSUME NEW n \in Names, NameListDelete(n)
        PROVE  /\ toDelete' = n /\ n \in Range(titles) /\ n # None
               /\ cause' \subseteq {"others", "retargeted", "lost"}
    BY <2>2, NoneAssumption DEF NameListDelete, TypeOK
  <2> QED
    BY <2>1, <2>2
<1>3. TypeOK'
  BY <1>1, <1>2 DEF TypeOK
<1>4. Requested'
  BY <1>1 DEF Requested, OnPage
<1> QED
  BY <1>3, <1>4

(* What a click sends is a request.                                         *)
LEMMA ClickTyped == ASSUME TypeOK, Requested, Click PROVE TypeOK' /\ Requested'
<1>1. PICK r \in Ajax, x \in AjaxState :
        /\ AjaxStep(r, x) /\ x.pc = "sent" /\ ~ x.ok /\ OnPage
        /\ UNCHANGED <<table, alive, pc, titles, shown, items, modal, toDelete, timers, cause>>
  BY ClickSends
<1>2. ajax' \in [Ajax -> AjaxState] /\ Requested'
  BY <1>1, AjaxTyped
<1> QED
  BY <1>1, <1>2 DEF TypeOK

(* A route, and the answer it gives: to an account it leaves an account.    *)
LEMMA ServeTyped ==
  ASSUME TypeOK, Requested, NEW r \in Ajax, Serve(r) PROVE TypeOK' /\ Requested'
<1>1. /\ ajax[r].pc = "sent" /\ OnPage /\ ajax[r] \in AjaxState
      /\ UNCHANGED <<alive, pc, titles, shown, items, modal, toDelete, timers, cause>>
  BY UnderWay DEF Serve
<1>2. PICK b \in BOOLEAN : AjaxStep(r, [ajax[r] EXCEPT !.pc = "served", !.ok = b])
  <2>1. CASE ajax' = [ajax EXCEPT ![r] = [ajax[r] EXCEPT !.pc = "served", !.ok = TRUE]]
    BY <1>1, <2>1 DEF AjaxStep
  <2>2. CASE ajax' = [ajax EXCEPT ![r].pc = "served"]
    <3>1. ajax[r].ok \in BOOLEAN /\ [ajax[r] EXCEPT !.pc = "served"]
                                    = [ajax[r] EXCEPT !.pc = "served", !.ok = ajax[r].ok]
      BY <1>1 DEF AjaxState, NoAjax, Ops
    <3> QED
      BY <1>1, <2>2, <3>1 DEF AjaxStep
  <2> QED
    BY <2>1, <2>2 DEF Serve
<1>3. ajax' \in [Ajax -> AjaxState] /\ Requested'
  <2> DEFINE x == [ajax[r] EXCEPT !.pc = "served", !.ok = b]
  <2>1. ajax[r] # NoAjax
    BY <1>1, UnderWay
  <2>2. x \in AjaxState /\ x.pc = "served"
    BY <1>1, <2>1 DEF AjaxState
  <2> HIDE DEF x
  <2> QED
    BY <1>1, <1>2, <2>2, AjaxTyped DEF x
<1>4. table' \in Accounts
  <2>1. CASE UNCHANGED table
    BY <2>1 DEF TypeOK
  <2>2. CASE ~ UNCHANGED table
    <3>1. /\ table \in Accounts /\ ajax[r].name \in Names
          /\ ajax[r].op = "put" => ajax[r].arg \in Names
          /\ ajax[r].op = "deleteProduct" => ajax[r].arg \in Products
      BY <1>1 DEF AjaxState, NoAjax, Ops, TypeOK
    <3> QED
      BY <2>2, <3>1, RoutesTyped DEF Serve
  <2> QED
    BY <2>1, <2>2
<1> QED
  BY <1>1, <1>3, <1>4 DEF TypeOK

(* An answer that is lost, or comes: the request is none.                   *)
LEMMA AnswerTyped ==
  ASSUME TypeOK, Requested, NEW r \in Ajax,
         Lose(r) \/ CompleteFailure(r) \/ CompleteDelete(r) \/ CompleteProduct(r)
  PROVE  TypeOK' /\ Requested'
<1>1. /\ ajax[r].pc # "free" /\ ajax' = [ajax EXCEPT ![r] = NoAjax]
      /\ UNCHANGED <<table, alive, pc, titles, shown, toDelete>>
  BY DEF Lose, CompleteFailure, CompleteDelete, CompleteProduct, Done
<1>2. OnPage /\ AjaxStep(r, NoAjax)
  BY <1>1, UnderWay DEF AjaxStep
<1>3. NoAjax.ok = FALSE
  BY DEF NoAjax
<1>4. ajax' \in [Ajax -> AjaxState] /\ Requested'
  BY <1>2, <1>3, NoAjaxTyped, AjaxTyped
<1>5. items' \subseteq items /\ items' \subseteq shown' \X Products \X Names
  <2>1. items' = items \/ items' = {x \in items : x[1] # ajax[r].name \/ x[2] # ajax[r].arg}
    BY DEF Lose, CompleteFailure, CompleteDelete, CompleteProduct
  <2> QED
    BY <1>1, <2>1 DEF TypeOK
<1>6. timers' \in 0 .. MaxTimers
  <2>1. timers' = timers \/ (timers < MaxTimers /\ timers' = timers + 1)
    BY DEF Lose, CompleteFailure, CompleteDelete, CompleteProduct
  <2> QED
    BY <2>1, TimersAssumption DEF TypeOK
<1>7. modal' \in BOOLEAN /\ (modal' => toDelete' # None)
  <2>1. modal' = modal \/ modal' = FALSE
    BY DEF Lose, CompleteFailure, CompleteDelete, CompleteProduct
  <2>2. modal \in BOOLEAN /\ (modal => toDelete # None)
    BY DEF TypeOK
  <2>3. toDelete' = toDelete
    BY <1>1
  <2>4. CASE modal' = modal
    BY <2>2, <2>3, <2>4, Zenon
  <2>5. CASE modal' = FALSE
    BY <2>5, Zenon
  <2> QED
    BY <2>1, <2>4, <2>5, Zenon
<1>8. cause' \subseteq {"others", "retargeted", "lost"}
  BY DEF Lose, CompleteFailure, CompleteDelete, CompleteProduct, TypeOK
<1> QED
  BY <1>1, <1>4, <1>5, <1>6, <1>7, <1>8 DEF TypeOK

(* The list leaves the page with its products.                              *)
LEMMA TimerTyped == ASSUME TypeOK, Requested, Timer PROVE TypeOK' /\ Requested'
<1>1. /\ UNCHANGED <<table, alive, pc, titles, modal, toDelete, ajax, cause>>
      /\ timers > 0 /\ timers' = timers - 1
      /\ shown' = shown \ {toDelete} /\ items' = {x \in items : x[1] # toDelete}
  BY DEF Timer
<1>2. timers' \in 0 .. MaxTimers /\ timers \in Nat
  BY <1>1, TimersAssumption DEF TypeOK
<1>3. items' \subseteq shown' \X Products \X Names
  BY <1>1 DEF TypeOK
<1>4. TypeOK'
  BY <1>1, <1>2, <1>3 DEF TypeOK
<1>5. OnPage /\ OnPage'
  BY <1>1, <1>2 DEF Requested, OnPage
<1>6. Requested'
  BY <1>1, <1>5 DEF Requested
<1> QED
  BY <1>4, <1>6

----------------------------------------------------------------------------
(* The page and the account.                                                *)

\* A request that is the same but for its way, or says nothing before and after.
Quiet(r) ==
  \/ /\ ajax'[r].ok = ajax[r].ok /\ ajax'[r].op = ajax[r].op
     /\ ajax'[r].name = ajax[r].name /\ ajax'[r].arg = ajax[r].arg
  \/ /\ ~ ajax[r].ok /\ ~ ajax'[r].ok
     /\ ajax'[r].op = "delete" => ajax'[r].name = toDelete

(* Such requests have answered the same.                                    *)
LEMMA QuietAnswers ==
  ASSUME \A r \in Ajax : Quiet(r), UNCHANGED timers
  PROVE  /\ Deleting' <=> Deleting
         /\ Reloading' <=> Reloading
         /\ \A l, e : Gone(l, e)' <=> Gone(l, e)
<1>1. ASSUME NEW r \in Ajax
      PROVE  /\ \A op : ajax'[r].ok /\ ajax'[r].op = op <=> ajax[r].ok /\ ajax[r].op = op
             /\ ajax[r].ok => ajax'[r].name = ajax[r].name /\ ajax'[r].arg = ajax[r].arg
  BY DEF Quiet
<1> QED
  BY <1>1 DEF Deleting, Reloading, Gone, Answered

(* A step that leaves account and page alone, and all requests quiet unless *)
(* something came between, keeps them in agreement.                         *)
LEMMA QuietStep ==
  ASSUME Agreed, UNCHANGED <<table, pc, titles, shown, items, toDelete, timers>>,
         Fresh' => Fresh /\ \A r \in Ajax : Quiet(r)
  PROVE  Agreed'
<1> SUFFICES ASSUME Fresh'
             PROVE  /\ pc' = "titled" => Range(titles') = DOMAIN table'
                    /\ \A r \in Ajax : ajax'[r].op = "delete" => ajax'[r].name = toDelete'
                    /\ OnPage' /\ ~ Reloading' => ListsAgree' /\ ProductsAgree'
  BY DEF Agreed
<1>1. Fresh /\ \A r \in Ajax : Quiet(r)
  OBVIOUS
<1>2. \A r \in Ajax : ajax'[r].op = "delete" => ajax'[r].name = toDelete'
  BY <1>1 DEF Agreed, Quiet
<1>3. /\ Deleting' <=> Deleting
      /\ Reloading' <=> Reloading
      /\ \A l, e : Gone(l, e)' <=> Gone(l, e)
  BY <1>1, QuietAnswers
<1>4. /\ OnPage' <=> OnPage
      /\ \A l, e : (Has(l, e)' <=> Has(l, e)) /\ (Shows(l, e)' <=> Shows(l, e))
  BY DEF OnPage, Has, Shows
<1>5. OnPage' /\ ~ Reloading' => ListsAgree'
  BY <1>1, <1>3, <1>4 DEF Agreed, ListsAgree
<1>6. OnPage' /\ ~ Reloading' => ProductsAgree'
  BY <1>1, <1>3, <1>4 DEF Agreed, ProductsAgree
<1> QED
  BY <1>1, <1>2, <1>5, <1>6 DEF Agreed

(* Without the page there is nothing to agree on but the titles.            *)
LEMMA AwayStep ==
  ASSUME Requested', ~ OnPage', Fresh' /\ pc' = "titled" => Range(titles') = DOMAIN table'
  PROVE  Agreed'
<1>1. \A r \in Ajax : ajax'[r].op # "delete"
  BY DEF Requested, NoAjax
<1> QED
  BY <1>1 DEF Agreed

(* A page that is made of two statements with nothing between agrees.       *)
LEMMA SelectProductsAgrees ==
  ASSUME TypeOK, Requested, Agreed, Requested', SelectProducts PROVE Agreed'
<1>1. /\ pc = "titled" /\ UNCHANGED <<table, titles, modal, toDelete, ajax, timers, cause>>
      /\ pc' \in {"shown", "error"}
  BY DEF SelectProducts, script
<1>2. \A r \in Ajax : ajax'[r] = NoAjax
  BY <1>1 DEF Requested, OnPage
<1>3. CASE ~ (Fresh' /\ pc' = "shown")
  BY <1>1, <1>2, <1>3 DEF Agreed, OnPage, NoAjax
<1>4. CASE Fresh' /\ pc' = "shown"
  <2>1. Range(titles) = DOMAIN table
    BY <1>1, <1>4 DEF Agreed, Fresh
  <2>2. \A row \in ProductRows : To(titles, ProductRows, row[1]) = row[1]
    BY <1>4, <2>1, PageMade, RowsAre
  <2>3. shown' = DOMAIN table'
    BY <1>1, <1>4, <2>1, PageMade
  <2>4. ASSUME NEW l, NEW e PROVE Has(l, e)' <=> Shows(l, e)'
    <3>1. ASSUME Has(l, e)' PROVE Shows(l, e)'
      <4>1. <<l, e>> \in ProductRows
        BY <1>1, <3>1, RowsAre DEF Has
      <4>2. <<l, e, l>> \in items'
        <5>1. <<To(titles, ProductRows, <<l, e>>[1]), <<l, e>>[2], <<l, e>>[1]>> \in items'
          BY <1>4, <4>1, PageMade
        <5> QED
          BY <2>2, <4>1, <5>1
      <4> QED
        BY <4>2 DEF Shows
    <3>2. ASSUME Shows(l, e)' PROVE Has(l, e)'
      <4>1. PICK x \in items' : x[1] = l /\ x[2] = e
        BY <3>2 DEF Shows
      <4>2. PICK row \in ProductRows : x = <<To(titles, ProductRows, row[1]), row[2], row[1]>>
        BY <1>4, <4>1, PageMade
      <4>3. l = row[1] /\ e = row[2]
        BY <2>2, <4>1, <4>2
      <4> QED
        BY <1>1, <4>3, RowsAre DEF Has
    <3> QED
      BY <3>1, <3>2
  <2>5. ~ Deleting' /\ \A l, e : ~ Gone(l, e)'
    BY <1>1, <1>2 DEF Deleting, Gone, Answered, NoAjax, Requested, OnPage
  <2>6. ListsAgree' /\ ProductsAgree'
    BY <2>3, <2>4, <2>5 DEF ListsAgree, ProductsAgree
  <2> QED
    BY <1>2, <1>4, <2>6 DEF Agreed, NoAjax
<1> QED
  BY <1>3, <1>4

(* Another client: something comes between, unless the page is not made yet. *)
LEMMA OthersAgree == ASSUME Agreed, Requested', Others PROVE Agreed'
<1>1. UNCHANGED <<alive, pc, titles, shown, items, modal, toDelete, ajax, timers>>
  BY DEF Others, script
<1>2. CASE table' = table
  <2>1. cause' = cause
    BY <1>2 DEF Others
  <2> QED
    BY <1>1, <1>2, <2>1, QuietStep DEF Quiet, Fresh
<1>3. CASE table' # table /\ pc \in {"titled", "shown"}
  <2>1. ~ Fresh'
    BY <1>3 DEF Others, Fresh
  <2> QED
    BY <2>1 DEF Agreed
<1>4. CASE pc \notin {"titled", "shown"}
  BY <1>1, <1>4, AwayStep DEF OnPage
<1> QED
  BY <1>2, <1>3, <1>4

(* The dialog names another list only while no deletion is under way.       *)
LEMMA NameListDeleteAgrees ==
  ASSUME TypeOK, Requested, Agreed, NEW n \in Names, NameListDelete(n) PROVE Agreed'
<1>1. /\ OnPage /\ toDelete' = n /\ cause \subseteq cause'
      /\ UNCHANGED <<table, alive, pc, titles, shown, items, ajax, timers>>
  BY DEF NameListDelete
<1>2. CASE n = toDelete
  BY <1>1, <1>2, QuietStep DEF Quiet, Fresh
<1>3. CASE n # toDelete /\ ~ Fresh'
  BY <1>3 DEF Agreed
<1>4. CASE n # toDelete /\ Fresh'
  <2>1. Fresh /\ timers \in Nat
    BY <1>1, <1>4, TimersAssumption DEF Fresh, TypeOK
  <2>2. ~ (timers > 0) /\ \A r \in Ajax : ajax[r].op # "delete"
    BY <1>4 DEF NameListDelete, Fresh
  <2>3. ~ Deleting /\ ~ Deleting'
    BY <1>1, <2>2 DEF Deleting, Answered
  <2>4. /\ Reloading' <=> Reloading
        /\ \A l, e : /\ Gone(l, e)' <=> Gone(l, e)
                     /\ Has(l, e)' <=> Has(l, e)
                     /\ Shows(l, e)' <=> Shows(l, e)
    BY <1>1 DEF Reloading, Gone, Answered, Has, Shows
  <2>5. ~ Reloading => ListsAgree'
    BY <1>1, <2>1, <2>3 DEF Agreed, ListsAgree
  <2>6. ~ Reloading => ProductsAgree'
    BY <1>1, <2>1, <2>3, <2>4 DEF Agreed, ProductsAgree
  <2> QED
    BY <1>1, <2>1, <2>2, <2>4, <2>5, <2>6 DEF Agreed, OnPage
<1> QED
  BY <1>2, <1>3, <1>4

(* A route has done what its request says, and the page does not show it    *)
(* yet: a list is to leave, or a product, or the page is to be loaded.      *)
LEMMA ServeAgrees ==
  ASSUME TypeOK, Requested, Agreed, NEW r \in Ajax, Serve(r) PROVE Agreed'
<1> DEFINE n == ajax[r].name
           y == ajax[r].arg
<1>1. /\ ajax[r].pc = "sent" /\ OnPage /\ OnPage' /\ ajax[r] \in AjaxState /\ ajax[r] # NoAjax
      /\ UNCHANGED <<alive, pc, titles, shown, items, modal, toDelete, timers, cause>>
  BY UnderWay DEF Serve, OnPage
<1>2. CASE ajax' = [ajax EXCEPT ![r].pc = "served"] /\ UNCHANGED table
  <2>1. \A q \in Ajax : Quiet(q)
    BY <1>2 DEF TypeOK, AjaxState, Quiet
  <2> QED
    BY <1>1, <1>2, <2>1, QuietStep DEF Fresh
<1>3. CASE ~ (ajax' = [ajax EXCEPT ![r].pc = "served"] /\ UNCHANGED table)
  <2> SUFFICES ASSUME Fresh' PROVE Agreed'
    BY DEF Agreed
  <2>1. Fresh
    BY <1>1 DEF Fresh
  <2>2. /\ ajax'[r].ok /\ ajax'[r].op = ajax[r].op /\ ajax'[r].name = n /\ ajax'[r].arg = y
        /\ \A q \in Ajax : q # r => ajax'[q] = ajax[q]
    <3>1. ajax' = [ajax EXCEPT ![r] = [ajax[r] EXCEPT !.pc = "served", !.ok = TRUE]]
      BY <1>3 DEF Serve
    <3>2. ajax \in [Ajax -> AjaxState] /\ ajax[r] \in [op : Ops, pc : {"free", "sent", "served"},
            name : Names \cup {None}, arg : Names \cup Products \cup {None}, ok : BOOLEAN]
      BY <1>1 DEF TypeOK, AjaxState
    <3> QED
      BY <3>1, <3>2
  <2>3. ~ ajax[r].ok /\ n \in Names
    BY <1>1 DEF Requested, AjaxState
  <2>4. \A q \in Ajax : ajax'[q].op = "delete" => ajax'[q].name = toDelete'
    BY <1>1, <2>1, <2>2 DEF Agreed
  <2>5. \A l, e : Shows(l, e)' <=> Shows(l, e)
    BY <1>1 DEF Shows
  <2>6. CASE ajax[r].op \in {"post", "put"}
    <3>1. Reloading'
      BY <2>2, <2>6 DEF Reloading, Answered
    <3> QED
      BY <1>1, <2>4, <3>1 DEF Agreed, OnPage
  <2>7. CASE ajax[r].op = "delete"
    <3>1. n = toDelete /\ table' = Deleted(table, n)
      BY <1>3, <2>1, <2>7 DEF Serve, Agreed
    <3>2. DOMAIN table' = DOMAIN table \ {n} /\ \A l \in DOMAIN table' : table'[l] = table[l]
      BY <3>1 DEF Deleted, Restrict
    <3>3. Deleting' /\ (Reloading' <=> Reloading)
      BY <2>2, <2>3, <2>7 DEF Deleting, Reloading, Answered
    <3>4. \A l, e : Gone(l, e)' <=> Gone(l, e)
      BY <2>2, <2>3, <2>7 DEF Gone, Answered
    <3>5. \A l, e : Has(l, e)' <=> Has(l, e) /\ l # n
      BY <3>2 DEF Has
    <3>6. ~ Reloading => ListsAgree' /\ ProductsAgree'
      BY <1>1, <2>1, <2>5, <3>1, <3>2, <3>3, <3>4, <3>5 DEF Agreed, ListsAgree, ProductsAgree
    <3> QED
      BY <1>1, <2>4, <3>3, <3>6 DEF Agreed, OnPage
  <2>8. CASE ajax[r].op = "deleteProduct"
    <3>1. table' = ProductDeleted(table, n, y)
      BY <1>3, <2>8 DEF Serve
    <3>2. DOMAIN table' = DOMAIN table /\ \A l \in DOMAIN table :
            table'[l] = IF l = n THEN table[l] \ {y} ELSE table[l]
      BY <3>1, AccountIs DEF ProductDeleted, TypeOK
    <3>3. (Deleting' <=> Deleting) /\ (Reloading' <=> Reloading)
      BY <1>1, <2>2, <2>3, <2>8 DEF Deleting, Reloading, Answered
    <3>4. \A l, e : Gone(l, e)' <=> Gone(l, e) \/ (l = n /\ e = y)
      BY <2>2, <2>3, <2>8 DEF Gone, Answered
    <3>5. \A l, e : Has(l, e)' <=> Has(l, e) /\ ~ (l = n /\ e = y)
      BY <3>2 DEF Has
    <3>6. ~ Reloading => ListsAgree'
      BY <1>1, <2>1, <3>2, <3>3 DEF Agreed, ListsAgree
    <3>7. ~ Reloading => ProductsAgree'
      BY <1>1, <2>1, <2>5, <3>3, <3>4, <3>5 DEF Agreed, ProductsAgree
    <3> QED
      BY <1>1, <2>4, <3>3, <3>6, <3>7 DEF Agreed, OnPage
  <2> QED
    BY <1>3, <2>6, <2>7, <2>8 DEF Serve
<1> QED
  BY <1>2, <1>3

(* The list has been deleted and is to leave the page in a second.          *)
LEMMA CompleteDeleteAgrees ==
  ASSUME TypeOK, Requested, Agreed, NEW r \in Ajax, CompleteDelete(r) PROVE Agreed'
<1>1. /\ ajax' = [ajax EXCEPT ![r] = NoAjax] /\ Answered(r, "delete") /\ timers' = timers + 1
      /\ UNCHANGED <<table, alive, pc, titles, shown, items, toDelete, cause>>
  BY DEF CompleteDelete, Done, Answered
<1>2. OnPage /\ timers \in Nat
  BY <1>1, TimersAssumption DEF Requested, Answered, NoAjax, TypeOK
<1>3. ajax'[r] = NoAjax /\ \A q \in Ajax : q # r => ajax'[q] = ajax[q]
  BY <1>1 DEF TypeOK
<1>4. Deleting /\ Deleting' /\ (Reloading' <=> Reloading)
  BY <1>1, <1>2, <1>3 DEF Deleting, Reloading, Answered, NoAjax
<1>5. \A l, e : /\ Gone(l, e)' <=> Gone(l, e)
                /\ Has(l, e)' <=> Has(l, e)
                /\ Shows(l, e)' <=> Shows(l, e)
  BY <1>1, <1>3 DEF Gone, Answered, NoAjax, Has, Shows
<1> SUFFICES ASSUME Fresh' PROVE Agreed'
  BY DEF Agreed
<1>6. \A q \in Ajax : ajax'[q].op = "delete" => ajax'[q].name = toDelete'
  BY <1>1, <1>3 DEF Agreed, NoAjax, Fresh
<1>7. ~ Reloading => ListsAgree'
  BY <1>1, <1>2, <1>4 DEF Agreed, ListsAgree, Fresh
<1>8. ~ Reloading => ProductsAgree'
  BY <1>1, <1>2, <1>4, <1>5 DEF Agreed, ProductsAgree, Fresh
<1> QED
  BY <1>1, <1>2, <1>4, <1>6, <1>7, <1>8 DEF Agreed, OnPage

(* A product that has been deleted leaves the page.                         *)
LEMMA CompleteProductAgrees ==
  ASSUME TypeOK, Requested, Agreed, NEW r \in Ajax, CompleteProduct(r) PROVE Agreed'
<1> DEFINE n == ajax[r].name
           y == ajax[r].arg
<1>1. /\ ajax' = [ajax EXCEPT ![r] = NoAjax] /\ Answered(r, "deleteProduct")
      /\ items' = {x \in items : x[1] # n \/ x[2] # y}
      /\ UNCHANGED <<table, alive, pc, titles, shown, modal, toDelete, timers, cause>>
  BY DEF CompleteProduct, Done, Answered
<1>2. OnPage
  BY <1>1 DEF Requested, Answered, NoAjax
<1>3. ajax'[r] = NoAjax /\ \A q \in Ajax : q # r => ajax'[q] = ajax[q]
  BY <1>1 DEF TypeOK
<1>4. (Deleting' <=> Deleting) /\ (Reloading' <=> Reloading)
  BY <1>1, <1>3 DEF Deleting, Reloading, Answered, NoAjax
<1>5. Gone(n, y)
  BY <1>1 DEF Gone
<1>6. \A l, e : /\ Gone(l, e)' => Gone(l, e)
                /\ Gone(l, e) => Gone(l, e)' \/ (l = n /\ e = y)
                /\ Has(l, e)' <=> Has(l, e)
                /\ Shows(l, e)' <=> Shows(l, e) /\ ~ (l = n /\ e = y)
  <2>1. \A l, e : Gone(l, e)' => Gone(l, e)
    BY <1>3 DEF Gone, Answered, NoAjax
  <2>2. \A l, e : Gone(l, e) => Gone(l, e)' \/ (l = n /\ e = y)
    BY <1>3 DEF Gone, Answered
  <2>3. \A l, e : Has(l, e)' <=> Has(l, e)
    BY <1>1 DEF Has
  <2>4. \A l, e : Shows(l, e)' <=> Shows(l, e) /\ ~ (l = n /\ e = y)
    BY <1>1 DEF Shows
  <2> QED
    BY <2>1, <2>2, <2>3, <2>4
<1> SUFFICES ASSUME Fresh' PROVE Agreed'
  BY DEF Agreed
<1>7. \A q \in Ajax : ajax'[q].op = "delete" => ajax'[q].name = toDelete'
  BY <1>1, <1>3 DEF Agreed, NoAjax, Fresh
<1>8. ~ Reloading => ListsAgree'
  BY <1>1, <1>2, <1>4 DEF Agreed, ListsAgree, Fresh
<1>9. ~ Reloading => ProductsAgree'
  BY <1>1, <1>2, <1>4, <1>5, <1>6 DEF Agreed, ProductsAgree, Fresh
<1> QED
  BY <1>1, <1>2, <1>4, <1>7, <1>8, <1>9 DEF Agreed, OnPage

(* A list that has been deleted leaves the page.                            *)
LEMMA TimerAgrees == ASSUME TypeOK, Requested, Agreed, Timer PROVE Agreed'
<1>1. /\ UNCHANGED <<table, alive, pc, titles, modal, toDelete, ajax, cause>>
      /\ timers > 0 /\ shown' = shown \ {toDelete}
      /\ items' = {x \in items : x[1] # toDelete}
  BY DEF Timer
<1>2. OnPage /\ Deleting
  BY <1>1 DEF Requested, Deleting
<1>3. Reloading' <=> Reloading
  BY <1>1 DEF Reloading, Answered
<1>4. \A l, e : /\ Gone(l, e)' <=> Gone(l, e)
                /\ Has(l, e)' <=> Has(l, e)
                /\ Shows(l, e)' <=> Shows(l, e) /\ l # toDelete
  BY <1>1 DEF Gone, Answered, Has, Shows
<1> SUFFICES ASSUME Fresh' PROVE Agreed'
  BY DEF Agreed
<1>5. ~ Reloading => ListsAgree'
  BY <1>1, <1>2 DEF Agreed, ListsAgree, Fresh
<1>6. ~ Reloading => ProductsAgree'
  <2>1. ~ Reloading => \A l, e : Has(l, e) => l # toDelete
    BY <1>1, <1>2 DEF Agreed, ListsAgree, Fresh, Has
  <2> QED
    BY <1>1, <1>2, <1>4, <2>1 DEF Agreed, ProductsAgree, Fresh
<1> QED
  BY <1>1, <1>2, <1>3, <1>5, <1>6 DEF Agreed, OnPage, Fresh

----------------------------------------------------------------------------
(* Each step keeps the strengthening.                                       *)
LEMMA NextIInv == ASSUME IInv, [Next]_vars PROVE IInv'
<1> USE DEF IInv
<1>1. CASE Ask \/ \E r \in Ajax : CompleteReload(r)
  <2>1. Load /\ UNCHANGED <<table, alive>>
    BY <1>1 DEF Ask, CompleteReload
  <2> QED
    BY <2>1, LoadStep DEF TypeOK
<1>2. CASE SelectLists
  <2>1. TypeOK' /\ Requested' /\ Range(titles') = DOMAIN table'
    BY <1>2, SelectListsTyped DEF SelectLists
  <2> QED
    BY <1>2, <2>1, AwayStep DEF SelectLists, OnPage
<1>3. CASE SelectProducts
  BY <1>3, SelectProductsTyped, SelectProductsAgrees
<1>4. CASE Fail
  <2>1. TypeOK' /\ Requested'
    BY <1>4, ServerTyped
  <2> QED
    BY <1>4, <2>1, AwayStep DEF Fail, OnPage
<1>5. CASE Restart
  <2>1. TypeOK' /\ Requested'
    BY <1>5, ServerTyped
  <2>2. Agreed'
    BY <1>5, QuietStep DEF Restart, script, Quiet, Fresh
  <2> QED
    BY <2>1, <2>2
<1>6. CASE Others
  BY <1>6, ServerTyped, OthersAgree
<1>7. CASE HideDialog
  <2>1. TypeOK' /\ Requested'
    BY <1>7, DialogTyped
  <2>2. Agreed'
    BY <1>7, QuietStep DEF HideDialog, Quiet, Fresh
  <2> QED
    BY <2>1, <2>2
<1>8. CASE \E n \in Names : NameListDelete(n)
  BY <1>8, DialogTyped, NameListDeleteAgrees
<1>9. CASE Click
  <2>1. TypeOK' /\ Requested'
    BY <1>9, ClickTyped
  <2>2. PICK r \in Ajax, x \in AjaxState :
          /\ AjaxStep(r, x) /\ ajax[r] = NoAjax /\ x.pc = "sent" /\ ~ x.ok
          /\ x.op = "delete" => x.name = toDelete
          /\ UNCHANGED <<table, alive, pc, titles, shown, items, modal, toDelete, timers, cause>>
    BY <1>9, ClickSends
  <2>3. \A q \in Ajax : Quiet(q)
    BY <2>2 DEF AjaxStep, Quiet, NoAjax, TypeOK
  <2>4. Agreed'
    BY <2>2, <2>3, QuietStep DEF Fresh
  <2> QED
    BY <2>1, <2>4
<1>10. CASE \E r \in Ajax : Serve(r)
  BY <1>10, ServeTyped, ServeAgrees
<1>11. ASSUME NEW r \in Ajax, Lose(r) \/ CompleteFailure(r) PROVE IInv'
  <2>1. TypeOK' /\ Requested'
    BY <1>11, AnswerTyped
  <2>2. /\ ajax' = [ajax EXCEPT ![r] = NoAjax]
        /\ UNCHANGED <<table, pc, titles, shown, items, toDelete, timers>>
        /\ Fresh' => Fresh /\ ~ ajax[r].ok
    BY <1>11 DEF Lose, CompleteFailure, Done, Fresh
  <2>3. Fresh' => Fresh /\ \A q \in Ajax : Quiet(q)
    BY <2>2 DEF Quiet, NoAjax, TypeOK
  <2>4. Agreed'
    BY <2>2, <2>3, QuietStep
  <2> QED
    BY <2>1, <2>4
<1>12. CASE \E r \in Ajax : CompleteDelete(r)
  BY <1>12, AnswerTyped, CompleteDeleteAgrees
<1>13. CASE \E r \in Ajax : CompleteProduct(r)
  BY <1>13, AnswerTyped, CompleteProductAgrees
<1>14. CASE Timer
  BY <1>14, TimerTyped, TimerAgrees
<1>15. CASE UNCHANGED vars
  <2>1. TypeOK' /\ Requested'
    BY <1>15 DEF vars, script, TypeOK, Requested, OnPage
  <2>2. Agreed'
    BY <1>15, QuietStep DEF vars, script, Quiet, Fresh
  <2> QED
    BY <2>1, <2>2
<1> QED
  BY <1>1, <1>2, <1>3, <1>4, <1>5, <1>6, <1>7, <1>8, <1>9, <1>10, <1>11, <1>12, <1>13, <1>14, <1>15
     DEF Next, Page, ByUser, Click, Answers, Complete

(* The strengthened invariant holds in every reachable state.               *)
THEOREM Strengthened == Spec => []IInv
BY InitIInv, NextIInv, PTL DEF Spec

(* Type correctness: a product is only shown under a list of the page, and  *)
(* the dialog always names one.                                             *)
THEOREM TypeCorrect == Spec => []TypeOK
BY Strengthened, PTL DEF IInv

(* getList files every product of its second statement once, under its own  *)
(* list whenever the first statement had it, for any order of the titles    *)
(* and whatever other clients did between the two (list.js:41-66).          *)
THEOREM ProductsAreFiled == Spec => PageFiled
<1> DEFINE Made ==
      pc = "titled" /\ pc' = "shown" =>
        /\ shown' = Range(titles)
        /\ \A l \in DOMAIN table : \A e \in table[l] :
             \E x \in items' :
               /\ x[2] = e /\ x[3] = l /\ x[1] \in shown'
               /\ l \in Range(titles) => x[1] = l
               /\ \A y \in items' : y[2] = e /\ y[3] = l => y = x
<1>1. ASSUME IInv, [Next]_vars PROVE Made
  <2> SUFFICES ASSUME pc = "titled", pc' = "shown"
               PROVE  /\ shown' = Range(titles)
                      /\ \A l \in DOMAIN table : \A e \in table[l] :
                           \E x \in items' :
                             /\ x[2] = e /\ x[3] = l /\ x[1] \in shown'
                             /\ l \in Range(titles) => x[1] = l
                             /\ \A y \in items' : y[2] = e /\ y[3] = l => y = x
    OBVIOUS
  <2>1. SelectProducts
    <3>1. pc' # pc
      OBVIOUS
    <3>2. ~ Page => UNCHANGED pc \/ \E r \in Ajax : CompleteReload(r)
      BY <1>1 DEF Next, Restart, Others, ByUser, NameListDelete, HideDialog, SupList, SupProduct,
         AddList, ChangeList, Send, Answers, Serve, Lose, Complete, CompleteFailure,
         CompleteDelete, CompleteProduct, Timer, vars
    <3> QED
      BY <3>1, <3>2 DEF Page, Ask, SelectLists, Fail, CompleteReload, Load
  <2>2. /\ shown' = Range(titles)
        /\ \A row \in ProductRows :
             /\ To(titles, ProductRows, row[1]) \in Range(titles)
             /\ row[1] \in Range(titles) => To(titles, ProductRows, row[1]) = row[1]
        /\ items' = {<<To(titles, ProductRows, row[1]), row[2], row[1]>> : row \in ProductRows}
    BY <1>1, <2>1, PageMade DEF IInv
  <2>3. ASSUME NEW l \in DOMAIN table, NEW e \in table[l]
        PROVE  \E x \in items' :
                 /\ x[2] = e /\ x[3] = l /\ x[1] \in shown'
                 /\ l \in Range(titles) => x[1] = l
                 /\ \A y \in items' : y[2] = e /\ y[3] = l => y = x
    <3> DEFINE x == <<To(titles, ProductRows, l), e, l>>
    <3>1. <<l, e>> \in ProductRows
      BY <1>1, RowsAre DEF IInv
    <3>2. x \in items'
      <4>1. <<To(titles, ProductRows, <<l, e>>[1]), <<l, e>>[2], <<l, e>>[1]>> \in items'
        BY <2>2, <3>1
      <4> QED
        BY <4>1
    <3>3. /\ To(titles, ProductRows, l) \in Range(titles)
          /\ l \in Range(titles) => To(titles, ProductRows, l) = l
      <4>1. <<l, e>>[1] = l
        OBVIOUS
      <4> QED
        BY <2>2, <3>1, <4>1
    <3>4. \A y \in items' : y[2] = e /\ y[3] = l => y = x
      BY <2>2
    <3> QED
      BY <2>2, <3>2, <3>3, <3>4
  <2> QED
    BY <2>2, <2>3
<1> QED
  BY <1>1, Strengthened, PTL DEF Spec, PageFiled

(* Once the answers have come and the deleted list has left, the page shows *)
(* the lists and products of the account, for any number of requests under  *)
(* way, unless something came between.                                      *)
THEOREM PageIsTrue == Spec => []PageTrue
<1>1. IInv => PageTrue
  <2> SUFFICES ASSUME IInv, OnPage, Fresh, timers = 0, \A r \in Ajax : ajax[r].pc = "free"
               PROVE  /\ shown = DOMAIN table
                      /\ {<<x[1], x[2]>> : x \in items} = UNION {{l} \X table[l] : l \in shown}
    BY DEF PageTrue
  <2>1. \A r \in Ajax : ~ ajax[r].ok
    BY DEF IInv, Requested
  <2>2. ~ Deleting /\ ~ Reloading /\ \A l, e : ~ Gone(l, e)
    BY <2>1 DEF Deleting, Reloading, Gone, Answered
  <2>3. ListsAgree /\ ProductsAgree
    BY <2>2 DEF IInv, Agreed
  <2>4. shown = DOMAIN table
    BY <2>2, <2>3 DEF ListsAgree
  <2>5. ASSUME NEW p \in {<<x[1], x[2]>> : x \in items} PROVE p \in ProductRows
    <3>1. PICK x \in items : p = <<x[1], x[2]>>
      BY <2>5
    <3>2. x[1] \in Names /\ x[2] \in Products
      BY DEF IInv, TypeOK, Range
    <3>3. Has(x[1], x[2])
      BY <2>2, <2>3, <3>2 DEF ProductsAgree, Shows
    <3> QED
      BY <3>1, <3>3, RowsAre DEF Has, IInv
  <2>6. ASSUME NEW p \in ProductRows PROVE p \in {<<x[1], x[2]>> : x \in items}
    <3>1. p \in Names \X Products /\ Has(p[1], p[2])
      BY RowsAre DEF Has, IInv
    <3>2. Shows(p[1], p[2])
      BY <2>3, <3>1 DEF ProductsAgree
    <3>3. PICK x \in items : x[1] = p[1] /\ x[2] = p[2]
      BY <3>2 DEF Shows
    <3>4. p = <<x[1], x[2]>>
      BY <3>1, <3>3
    <3> QED
      BY <3>4
  <2>7. ProductRows = UNION {{l} \X table[l] : l \in shown}
    BY <2>4 DEF ProductRows
  <2> QED
    BY <2>4, <2>5, <2>6, <2>7
<1> QED
  BY <1>1, Strengthened, PTL

============================================================================
