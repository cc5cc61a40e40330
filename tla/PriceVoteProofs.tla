-------------------------- MODULE PriceVoteProofs --------------------------
(***************************************************************************)
(* For every set of clients, items, prices and requests, every quorum and   *)
(* every number of jobs: a client is counted for an item at most once in    *)
(* the life of its circle, "success" is honest, and a row stands for a      *)
(* quorum of increments.                                                    *)
(***************************************************************************)
EXTENDS PriceVote, FiniteSetTheorems, TLAPS

\* The requests that SADD has let in for client u and item i and that have not
\* called INCR yet.
Voting(u, i) == {r \in Requests : /\ post[r].pc = "incr"
                                  /\ post[r].form.user = u
                                  /\ post[r].form.item = i}

Place(u, i) == IF u \in circle[i] THEN 1 ELSE 0

\* A vote, cast or about to be, has taken a place in a circle.
VotesHeld ==
  \A u \in Users, i \in Items :
    votes[<<u, i>>] + Cardinality(Voting(u, i)) <= purged[i] + Place(u, i)

\* What a request knows of the stores when it goes on.
Witnessed ==
  \A r \in Requests :
    /\ post[r].pc \in {"insert", "stat", "ok"} => raised[Key(r)] >= 1
    /\ post[r].pc \in {"stat", "ok"} /\ AtQuorum(post[r].number) => rows[Key(r)] >= 1

\* A request that is under way, or answered "success", has a form.
Carried == \A r \in Requests : post[r].pc \in Calls \cup {"ok"} => post[r].form \in Form

IInv == TypeOK /\ Carried /\ VotesHeld /\ Witnessed

----------------------------------------------------------------------------
(* The sets of voting requests are finite.                                 *)
LEMMA VotingFinite ==
  ASSUME NEW u, NEW i
  PROVE  IsFiniteSet(Voting(u, i)) /\ Cardinality(Voting(u, i)) \in Nat
<1>1. Voting(u, i) \subseteq Requests
  BY DEF Voting
<1> QED
  BY <1>1, RequestsAssumption, FS_Subset, FS_CardinalityType

(* The strengthening holds initially.                                      *)
LEMMA InitIInv == Init => IInv
<1> SUFFICES ASSUME Init PROVE IInv
  OBVIOUS
<1>1. TypeOK
  BY DEF Init, TypeOK, Idle, PurgeCalls, PostState, Done, Calls, Free
<1>2. \A r \in Requests : post[r].pc = "free"
  BY DEF Init, Free
<1>3. VotesHeld
  <2> SUFFICES ASSUME NEW u \in Users, NEW i \in Items
               PROVE  votes[<<u, i>>] + Cardinality(Voting(u, i)) <= purged[i] + Place(u, i)
    BY DEF VotesHeld
  <2>1. Cardinality(Voting(u, i)) = 0
    BY <1>2, FS_EmptySet DEF Voting
  <2>2. votes[<<u, i>>] = 0 /\ purged[i] = 0 /\ Place(u, i) = 0
    BY DEF Init, Place
  <2> QED
    BY <2>1, <2>2
<1>4. Carried /\ Witnessed
  BY <1>2 DEF Carried, Witnessed, Calls
<1> QED
  BY <1>1, <1>3, <1>4 DEF IInv

----------------------------------------------------------------------------
(* What Goto does to the requests.                                         *)
LEMMA GotoFrame ==
  ASSUME TypeOK, NEW r \in Requests, NEW s \in Done \cup Calls, Goto(r, s)
  PROVE  /\ post' \in [Requests -> PostState]
         /\ post'[r].pc = s
         /\ s # "free" => /\ post'[r].form = post[r].form
                          /\ post'[r].number = post[r].number
         /\ \A q \in Requests : q # r => post'[q] = post[q]
BY DEF TypeOK, Goto, PostState, Free, Done

\* Request r stays as it is, starts with a form, or ends without success.
Quiet(r) == \/ post'[r] = post[r]
            \/ post'[r].pc = "sadd" /\ post'[r].form \in Form
            \/ post'[r].pc = "free"

(* A step in which every request is quiet, nobody's vote is counted and no  *)
(* place in a circle is lost without a purge keeps the strengthening.       *)
LEMMA QuietStep ==
  ASSUME IInv, TypeOK', \A r \in Requests : Quiet(r), UNCHANGED votes,
         \A k \in Items \X Prices : raised[k] <= raised'[k] /\ rows[k] <= rows'[k],
         \A u \in Users, i \in Items :
           purged[i] + Place(u, i) <= purged'[i] + Place(u, i)'
  PROVE  IInv'
<1>1. Carried'
  BY DEF IInv, Carried, Quiet, Calls
<1>2. VotesHeld'
  <2> SUFFICES ASSUME NEW u \in Users, NEW i \in Items
               PROVE  votes'[<<u, i>>] + Cardinality(Voting(u, i)') <= purged'[i] + Place(u, i)'
    BY DEF VotesHeld
  <2>1. Voting(u, i)' \subseteq Voting(u, i)
    BY DEF Voting, Quiet
  <2>2. /\ Cardinality(Voting(u, i)') <= Cardinality(Voting(u, i))
        /\ Cardinality(Voting(u, i)') \in Nat /\ Cardinality(Voting(u, i)) \in Nat
    BY <2>1, VotingFinite, FS_Subset, FS_CardinalityType
  <2>3. votes[<<u, i>>] + Cardinality(Voting(u, i)) <= purged[i] + Place(u, i)
    BY DEF IInv, VotesHeld
  <2>4. /\ votes[<<u, i>>] \in Nat /\ purged[i] \in Nat /\ purged'[i] \in Nat
        /\ Place(u, i) \in Nat /\ Place(u, i)' \in Nat
    BY DEF IInv, TypeOK, Place
  <2> QED
    BY <2>2, <2>3, <2>4
<1>3. Witnessed'
  <2> SUFFICES ASSUME NEW r \in Requests
               PROVE  /\ post'[r].pc \in {"insert", "stat", "ok"} => raised'[Key(r)'] >= 1
                      /\ post'[r].pc \in {"stat", "ok"} /\ AtQuorum(post'[r].number)
                           => rows'[Key(r)'] >= 1
    BY DEF Witnessed, AtQuorum
  <2>1. CASE post'[r] # post[r] \/ post[r].pc \notin {"insert", "stat", "ok"}
    BY <2>1 DEF Quiet
  <2>2. CASE post'[r] = post[r] /\ post[r].pc \in {"insert", "stat", "ok"}
    <3>1. Key(r)' = Key(r) /\ Key(r) \in Items \X Prices
      BY <2>2 DEF Key, IInv, Carried, Calls, Form
    <3>2. raised[Key(r)] \in Nat /\ raised'[Key(r)] \in Nat
          /\ rows[Key(r)] \in Nat /\ rows'[Key(r)] \in Nat
      BY <3>1 DEF IInv, TypeOK
    <3> QED
      BY <2>2, <3>1, <3>2 DEF IInv, Witnessed
  <2> QED
    BY <2>1, <2>2
<1> QED
  BY <1>1, <1>2, <1>3 DEF IInv

(* A request that has counted, and goes on or ends, keeps what it witnessed.*)
LEMMA ForwardStep ==
  ASSUME IInv, TypeOK', NEW r \in Requests, UNCHANGED <<circle, votes, raised, purged>>,
         \A k \in Items \X Prices : rows[k] <= rows'[k],
         \A q \in Requests : q # r => post'[q] = post[q],
         post'[r].pc # "free" => /\ post'[r].form = post[r].form
                                 /\ post'[r].number = post[r].number,
         \/ post'[r].pc = "free"
         \/ post[r].pc = "insert" /\ post'[r].pc = "stat" /\ rows'[Key(r)] >= 1
         \/ post[r].pc = "stat" /\ post'[r].pc = "ok"
  PROVE  IInv'
<1>1. CASE post'[r].pc = "free"
  <2>1. \A q \in Requests : Quiet(q)
    BY <1>1 DEF Quiet
  <2>2. \A u \in Users, i \in Items :
          purged[i] + Place(u, i) <= purged'[i] + Place(u, i)'
    BY DEF IInv, TypeOK, Place
  <2>3. \A k \in Items \X Prices : raised[k] <= raised'[k]
    BY DEF IInv, TypeOK
  <2> QED
    BY <2>1, <2>2, <2>3, QuietStep
<1>2. CASE post'[r].pc # "free"
  <2>1. /\ post[r].pc \in {"insert", "stat"}
        /\ post'[r].pc \in {"stat", "ok"}
        /\ post[r].form \in Form
        /\ Key(r)' = Key(r) /\ Key(r) \in Items \X Prices
    BY <1>2 DEF IInv, Carried, Calls, Key, Form
  <2>2. Carried'
    BY <2>1 DEF IInv, Carried
  <2>3. VotesHeld'
    <3>1. \A u, i : Voting(u, i)' = Voting(u, i)
      BY <2>1 DEF Voting
    <3> QED
      BY <3>1 DEF IInv, VotesHeld, Place
  <2>4. raised'[Key(r)'] >= 1 /\ (AtQuorum(post'[r].number) => rows'[Key(r)'] >= 1)
    <3>1. raised[Key(r)] >= 1
      BY <2>1 DEF IInv, Witnessed
    <3>2. rows[Key(r)] \in Nat /\ rows'[Key(r)] \in Nat /\ rows[Key(r)] <= rows'[Key(r)]
      BY <2>1 DEF IInv, TypeOK
    <3>3. post[r].pc = "stat" /\ AtQuorum(post[r].number) => rows[Key(r)] >= 1
      BY DEF IInv, Witnessed
    <3> QED
      BY <1>2, <2>1, <3>1, <3>2, <3>3
  <2>5. ASSUME NEW q \in Requests, q # r, post'[q].pc \in {"insert", "stat", "ok"}
        PROVE  raised'[Key(q)'] >= 1
               /\ (post'[q].pc \in {"stat", "ok"} /\ AtQuorum(post'[q].number)
                     => rows'[Key(q)'] >= 1)
    <3>1. post'[q] = post[q] /\ Key(q)' = Key(q) /\ Key(q) \in Items \X Prices
      BY <2>5 DEF Key, IInv, Carried, Calls, Form
    <3>2. rows[Key(q)] \in Nat /\ rows'[Key(q)] \in Nat /\ rows[Key(q)] <= rows'[Key(q)]
      BY <3>1 DEF IInv, TypeOK
    <3> QED
      BY <2>5, <3>1, <3>2 DEF IInv, Witnessed
  <2>6. Witnessed'
    BY <2>1, <2>4, <2>5 DEF Witnessed, AtQuorum
  <2> QED
    BY <2>2, <2>3, <2>6 DEF IInv
<1> QED
  BY <1>1, <1>2

----------------------------------------------------------------------------
(* Each step keeps the strengthened invariant.                             *)
LEMMA PostFrame ==
  ASSUME IInv, NEW r \in Requests, NEW form \in Form, Post(r, form) PROVE IInv'
<1>1. /\ UNCHANGED <<circle, count, entries, rows, purge, starts, votes, raised, purged>>
      /\ post' \in [Requests -> PostState]
      /\ post'[r].pc = "sadd" /\ post'[r].form = form
      /\ \A q \in Requests : q # r => post'[q] = post[q]
  BY DEF Post, stores, history, IInv, TypeOK, PostState, Done, Calls
<1>2. TypeOK'
  BY <1>1 DEF IInv, TypeOK
<1>3. \A q \in Requests : Quiet(q)
  BY <1>1 DEF Quiet
<1> QED
  BY <1>1, <1>2, <1>3, QuietStep DEF IInv, TypeOK, Place

LEMMA SaddStep == ASSUME IInv, NEW r \in Requests, Sadd(r) PROVE IInv'
<1> DEFINE u == post[r].form.user
           i == post[r].form.item
<1>1. PICK out \in Outcomes :
        /\ circle' = IF Applied(out) THEN [circle EXCEPT ![i] = @ \cup {u}] ELSE circle
        /\ Goto(r, IF out = "ok" /\ u \notin circle[i] THEN "incr" ELSE "free")
  BY DEF Sadd
<1> DEFINE s == IF out = "ok" /\ u \notin circle[i] THEN "incr" ELSE "free"
<1>2. UNCHANGED <<count, entries, rows, purge, starts, votes, raised, purged>>
  BY DEF Sadd, history
<1>3. post[r].pc = "sadd" /\ post[r].form \in Form /\ u \in Users /\ i \in Items
  BY DEF Sadd, IInv, Carried, Calls, Form
<1>4. /\ post' \in [Requests -> PostState]
      /\ post'[r].pc = s
      /\ s # "free" => post'[r].form = post[r].form
      /\ \A q \in Requests : q # r => post'[q] = post[q]
  <2>1. s \in Done \cup Calls
    BY DEF Done, Calls
  <2> QED
    BY <1>1, <2>1, GotoFrame DEF IInv
<1>5. TypeOK'
  BY <1>1, <1>2, <1>3, <1>4 DEF IInv, TypeOK
<1>6. \A j \in Items : circle[j] \subseteq circle'[j]
  BY <1>1, <1>3 DEF IInv, TypeOK
<1>7. CASE s = "free"
  <2>1. \A q \in Requests : Quiet(q)
    BY <1>4, <1>7 DEF Quiet
  <2>2. \A v \in Users, j \in Items :
          purged[j] + Place(v, j) <= purged'[j] + Place(v, j)'
    BY <1>2, <1>6 DEF IInv, TypeOK, Place
  <2> QED
    BY <1>2, <1>5, <2>1, <2>2, QuietStep DEF IInv, TypeOK
<1>8. CASE s = "incr"
  <2>1. u \notin circle[i] /\ u \in circle'[i]
    BY <1>1, <1>3, <1>8 DEF Applied, IInv, TypeOK
  <2>2. Carried'
    BY <1>3, <1>4, <1>8 DEF IInv, Carried, Calls
  <2>3. Witnessed'
    BY <1>2, <1>4, <1>8 DEF IInv, Witnessed, Key
  <2>4. ASSUME NEW v \in Users, NEW j \in Items
        PROVE  votes'[<<v, j>>] + Cardinality(Voting(v, j)') <= purged'[j] + Place(v, j)'
    <3>1. votes[<<v, j>>] + Cardinality(Voting(v, j)) <= purged[j] + Place(v, j)
      BY DEF IInv, VotesHeld
    <3>2. votes[<<v, j>>] \in Nat /\ purged[j] \in Nat
      BY DEF IInv, TypeOK
    <3>3. CASE v = u /\ j = i
      <4>1. Voting(v, j)' = Voting(v, j) \cup {r}
        BY <1>4, <1>8, <3>3 DEF Voting
      <4>2. r \notin Voting(v, j)
        BY <1>3 DEF Voting
      <4>3. Cardinality(Voting(v, j)') = Cardinality(Voting(v, j)) + 1
        BY <4>1, <4>2, VotingFinite, FS_AddElement
      <4>4. Place(v, j) = 0 /\ Place(v, j)' = 1
        BY <2>1, <3>3 DEF Place
      <4> QED
        BY <1>2, <3>1, <3>2, <4>3, <4>4, VotingFinite
    <3>4. CASE ~(v = u /\ j = i)
      <4>1. Voting(v, j)' = Voting(v, j)
        BY <1>3, <1>4, <3>4 DEF Voting
      <4>2. Place(v, j) <= Place(v, j)' /\ Place(v, j) \in Nat /\ Place(v, j)' \in Nat
        BY <1>6 DEF Place
      <4> QED
        BY <1>2, <3>1, <3>2, <4>1, <4>2, VotingFinite
    <3> QED
      BY <3>3, <3>4
  <2> QED
    BY <1>5, <2>2, <2>3, <2>4 DEF IInv, VotesHeld
<1> QED
  BY <1>7, <1>8

LEMMA IncrStep == ASSUME IInv, NEW r \in Requests, Incr(r) PROVE IInv'
<1> DEFINE u == post[r].form.user
           i == post[r].form.item
           k == Key(r)
<1>1. UNCHANGED <<circle, entries, rows, purge, starts, purged>>
  BY DEF Incr
<1>2. /\ post[r].pc = "incr" /\ post[r].form \in Form
      /\ u \in Users /\ i \in Items /\ k \in Items \X Prices
  BY DEF Incr, IInv, Carried, Calls, Form, Key
<1>3. CASE Goto(r, "free") /\ UNCHANGED <<count, votes, raised>>
  <2>1. /\ post' \in [Requests -> PostState]
        /\ \A q \in Requests : Quiet(q)
    BY <1>3, GotoFrame DEF IInv, Quiet, Done
  <2>2. TypeOK'
    BY <1>1, <1>3, <2>1 DEF IInv, TypeOK
  <2> QED
    BY <1>1, <1>3, <2>1, <2>2, QuietStep DEF IInv, TypeOK, Place
<1>4. CASE ~(Goto(r, "free") /\ UNCHANGED <<count, votes, raised>>)
  <2>1. /\ count' = [count EXCEPT ![k] = @ + 1]
        /\ votes' = [votes EXCEPT ![<<u, i>>] = @ + 1]
        /\ raised' = [raised EXCEPT ![k] = @ + 1]
    BY <1>4 DEF Incr
  <2>2. /\ post' \in [Requests -> PostState]
        /\ post'[r].pc # "free" => post'[r].form = post[r].form
        /\ \A q \in Requests : q # r => post'[q] = post[q]
        /\ \/ post'[r].pc = "free"
           \/ post'[r].pc = "insert"
           \/ post'[r].pc = "stat" /\ ~AtQuorum(post'[r].number)
    <3>1. CASE Goto(r, "free")
      BY <3>1, GotoFrame DEF IInv, Done
    <3>2. CASE ~Goto(r, "free")
      <4>1. post' = [post EXCEPT ![r].number = count[k] + 1,
                                 ![r].pc = IF AtQuorum(count[k] + 1)
                                           THEN "insert" ELSE "stat"]
        BY <1>4, <3>2 DEF Incr
      <4>2. count[k] + 1 \in Nat
        BY <1>2 DEF IInv, TypeOK
      <4> QED
        BY <4>1, <4>2 DEF IInv, TypeOK, PostState, Calls
    <3> QED
      BY <3>1, <3>2
  <2>3. TypeOK'
    BY <1>1, <1>2, <2>1, <2>2 DEF IInv, TypeOK
  <2>4. Carried'
    BY <1>2, <2>2 DEF IInv, Carried, Calls
  <2>5. \A l \in Items \X Prices : raised[l] <= raised'[l] /\ (l = k => raised'[l] >= 1)
    BY <1>2, <2>1 DEF IInv, TypeOK
  <2>6. Witnessed'
    <3>1. ASSUME NEW q \in Requests, q # r, post'[q].pc \in {"insert", "stat", "ok"}
          PROVE  raised'[Key(q)'] >= 1
      <4>1. post'[q] = post[q] /\ Key(q)' = Key(q) /\ Key(q) \in Items \X Prices
        BY <2>2, <3>1 DEF Key, IInv, Carried, Calls, Form
      <4>2. raised[Key(q)] \in Nat /\ raised'[Key(q)] \in Nat /\ raised[Key(q)] <= raised'[Key(q)]
        BY <2>3, <2>5, <4>1 DEF IInv, TypeOK
      <4> QED
        BY <3>1, <4>1, <4>2 DEF IInv, Witnessed
    <3>2. post'[r].pc # "free" => raised'[Key(r)'] >= 1
      BY <1>2, <2>2, <2>5 DEF Key
    <3>3. ASSUME NEW q \in Requests, post'[q].pc \in {"stat", "ok"}, AtQuorum(post'[q].number)
          PROVE  rows'[Key(q)'] >= 1
      <4>1. q # r
        BY <2>2, <3>3
      <4>2. post'[q] = post[q] /\ Key(q)' = Key(q)
        BY <2>2, <4>1 DEF Key
      <4> QED
        BY <1>1, <3>3, <4>2 DEF IInv, Witnessed
    <3> QED
      BY <3>1, <3>2, <3>3 DEF Witnessed, AtQuorum
  <2>7. ASSUME NEW v \in Users, NEW j \in Items
        PROVE  votes'[<<v, j>>] + Cardinality(Voting(v, j)') <= purged'[j] + Place(v, j)'
    <3>1. votes[<<v, j>>] + Cardinality(Voting(v, j)) <= purged[j] + Place(v, j)
      BY DEF IInv, VotesHeld
    <3>2. votes[<<v, j>>] \in Nat /\ purged[j] \in Nat /\ Place(v, j) \in Nat
      BY DEF IInv, TypeOK, Place
    <3>3. Place(v, j)' = Place(v, j) /\ purged'[j] = purged[j]
      BY <1>1 DEF Place
    <3>4. Voting(v, j)' = Voting(v, j) \ {r}
      BY <2>2 DEF Voting
    <3>5. CASE v = u /\ j = i
      <4>1. r \in Voting(v, j)
        BY <1>2, <3>5 DEF Voting
      <4>2. Cardinality(Voting(v, j)') = Cardinality(Voting(v, j)) - 1
        BY <3>4, <4>1, VotingFinite, FS_RemoveElement
      <4>3. votes'[<<v, j>>] = votes[<<v, j>>] + 1
        BY <1>2, <2>1, <3>5 DEF IInv, TypeOK
      <4> QED
        BY <3>1, <3>2, <3>3, <4>2, <4>3, VotingFinite
    <3>6. CASE ~(v = u /\ j = i)
      <4>1. Voting(v, j)' = Voting(v, j)
        BY <3>4, <3>6 DEF Voting
      <4>2. votes'[<<v, j>>] = votes[<<v, j>>]
        BY <2>1, <3>6 DEF IInv, TypeOK
      <4> QED
        BY <3>1, <3>3, <4>1, <4>2
    <3> QED
      BY <3>5, <3>6
  <2> QED
    BY <2>3, <2>4, <2>6, <2>7 DEF IInv, VotesHeld
<1> QED
  BY <1>3, <1>4

LEMMA InsertStep == ASSUME IInv, NEW r \in Requests, Insert(r) PROVE IInv'
<1>1. PICK out \in Outcomes :
        /\ rows' = IF Applied(out) THEN [rows EXCEPT ![Key(r)] = @ + 1] ELSE rows
        /\ Goto(r, IF out = "ok" THEN "stat" ELSE "free")
  BY DEF Insert
<1> DEFINE s == IF out = "ok" THEN "stat" ELSE "free"
<1>2. s \in Done \cup Calls
  BY DEF Done, Calls
<1>3. UNCHANGED <<circle, count, entries, purge, starts, votes, raised, purged>>
  BY DEF Insert, history
<1>4. /\ post' \in [Requests -> PostState]
      /\ post'[r].pc = s
      /\ s # "free" => post'[r].form = post[r].form /\ post'[r].number = post[r].number
      /\ \A q \in Requests : q # r => post'[q] = post[q]
  BY <1>1, <1>2, GotoFrame DEF IInv
<1>5. post[r].pc = "insert" /\ Key(r) \in Items \X Prices
  BY DEF Insert, IInv, Carried, Calls, Form, Key
<1>6. /\ rows' \in [Items \X Prices -> Nat]
      /\ \A k \in Items \X Prices : rows[k] <= rows'[k]
      /\ out = "ok" => rows'[Key(r)] >= 1
  BY <1>1, <1>5 DEF IInv, TypeOK, Applied
<1>7. TypeOK'
  BY <1>3, <1>4, <1>6 DEF IInv, TypeOK
<1> QED
  BY <1>3, <1>4, <1>5, <1>6, <1>7, ForwardStep

LEMMA IncrEntriesStep == ASSUME IInv, NEW r \in Requests, IncrEntries(r) PROVE IInv'
<1>1. PICK out \in Outcomes :
        /\ entries' = IF Applied(out) THEN entries + 1 ELSE entries
        /\ Goto(r, IF out = "ok" THEN "ok" ELSE "free")
  BY DEF IncrEntries
<1> DEFINE s == IF out = "ok" THEN "ok" ELSE "free"
<1>2. s \in Done \cup Calls
  BY DEF Done, Calls
<1>3. UNCHANGED <<circle, count, rows, purge, starts, votes, raised, purged>>
  BY DEF IncrEntries, history
<1>4. /\ post' \in [Requests -> PostState]
      /\ post'[r].pc = s
      /\ s # "free" => post'[r].form = post[r].form /\ post'[r].number = post[r].number
      /\ \A q \in Requests : q # r => post'[q] = post[q]
  BY <1>1, <1>2, GotoFrame DEF IInv
<1>5. post[r].pc = "stat"
  BY DEF IncrEntries
<1>6. TypeOK' /\ \A k \in Items \X Prices : rows[k] <= rows'[k]
  BY <1>1, <1>3, <1>4 DEF IInv, TypeOK
<1> QED
  BY <1>3, <1>4, <1>5, <1>6, ForwardStep

\* The job, and the end of the process.
LEMMA JobStep ==
  ASSUME IInv, StartPurge \/ PurgeStep \/ Restart \/ UNCHANGED vars PROVE IInv'
<1>1. UNCHANGED <<rows, entries, votes, raised>>
  BY DEF StartPurge, PurgeStep, KeysCount, DelCount, KeysCircle, DelCircle, Restart,
     vars, stores, history
<1>2. post' \in [Requests -> PostState] /\ \A r \in Requests : Quiet(r)
  <2>1. CASE Restart
    <3>1. \A r \in Requests : post[r] \in PostState
      BY DEF IInv, TypeOK
    <3>2. \A r \in Requests : post'[r] = post[r] \/ post'[r] = Free
      BY <2>1 DEF Restart
    <3>3. DOMAIN post' = Requests /\ post' = [r \in Requests |-> post'[r]]
      BY <2>1 DEF Restart
    <3>4. \A r \in Requests : post'[r] \in PostState /\ Quiet(r)
      BY <3>1, <3>2 DEF PostState, Quiet, Done, Free
    <3> QED
      BY <3>3, <3>4
  <2>2. CASE UNCHANGED post
    BY <2>2 DEF Quiet, IInv, TypeOK
  <2> QED
    BY <2>1, <2>2 DEF StartPurge, PurgeStep, KeysCount, DelCount, KeysCircle, DelCircle,
       vars, stores, history
<1>3. /\ circle' \in [Items -> SUBSET Users] /\ purged' \in [Items -> Nat]
      /\ \A u \in Users, i \in Items : purged[i] + Place(u, i) <= purged'[i] + Place(u, i)'
  <2>1. CASE UNCHANGED <<circle, purged>>
    BY <2>1 DEF IInv, TypeOK, Place
  <2>2. CASE DelCircle /\ ~UNCHANGED <<circle, purged>>
    <3>1. /\ circle' = [i \in Items |-> IF i \in purge.circles THEN {} ELSE circle[i]]
          /\ purged' = [i \in Items |-> IF i \in purge.circles THEN purged[i] + 1 ELSE purged[i]]
      BY <2>2 DEF DelCircle
    <3> QED
      BY <3>1 DEF IInv, TypeOK, Place
  <2> QED
    BY <2>1, <2>2 DEF StartPurge, PurgeStep, KeysCount, DelCount, KeysCircle, Restart,
       vars, stores, history
<1>4. count' \in [Items \X Prices -> Nat]
  BY DEF IInv, TypeOK, StartPurge, PurgeStep, KeysCount, DelCount, KeysCircle, DelCircle,
     Restart, vars, stores, history
<1>5. purge' \in [pc : PurgeCalls, counts : SUBSET (Items \X Prices), circles : SUBSET Items]
  <2> DEFINE P == [pc : PurgeCalls, counts : SUBSET (Items \X Prices), circles : SUBSET Items]
  <2> SUFFICES purge' \in P
    OBVIOUS
  <2>1. purge \in P /\ Idle \in P
    BY DEF IInv, TypeOK, Idle, PurgeCalls
  <2>0. \A n \in PurgeCalls, C \in SUBSET (Items \X Prices), S \in SUBSET Items :
          /\ [purge EXCEPT !.pc = n, !.counts = C] \in P
          /\ [purge EXCEPT !.pc = n, !.circles = S] \in P
    BY <2>1
  <2> DEFINE C == {k \in Items \X Prices : count[k] > 0}
             S == {i \in Items : circle[i] # {}}
  <2> HIDE DEF P
  <2>2. CASE StartPurge
    <3>1. purge' = [Idle EXCEPT !.pc = "keysCount"]
      BY <2>2 DEF StartPurge
    <3> QED
      BY <2>1, <3>1 DEF P, PurgeCalls
  <2>3. CASE KeysCount
    <3>1. purge' = [purge EXCEPT !.pc = "delCount", !.counts = C] \/ purge' = Idle
      BY <2>3 DEF KeysCount
    <3>2. C \in SUBSET (Items \X Prices) /\ "delCount" \in PurgeCalls
      BY DEF PurgeCalls
    <3> QED
      BY <2>0, <2>1, <3>1, <3>2
  <2>4. CASE DelCount
    <3>1. purge' = [purge EXCEPT !.pc = "keysCircle", !.counts = {}] \/ purge' = Idle
      BY <2>4 DEF DelCount
    <3>2. {} \in SUBSET (Items \X Prices) /\ "keysCircle" \in PurgeCalls
      BY DEF PurgeCalls
    <3> QED
      BY <2>0, <2>1, <3>1, <3>2
  <2>5. CASE KeysCircle
    <3>1. purge' = [purge EXCEPT !.pc = "delCircle", !.circles = S] \/ purge' = Idle
      BY <2>5 DEF KeysCircle
    <3>2. S \in SUBSET Items /\ "delCircle" \in PurgeCalls
      BY DEF PurgeCalls
    <3> QED
      BY <2>0, <2>1, <3>1, <3>2
  <2>6. CASE DelCircle \/ Restart \/ UNCHANGED vars
    BY <2>1, <2>6 DEF DelCircle, Restart, vars
  <2> QED
    BY <2>2, <2>3, <2>4, <2>5, <2>6 DEF PurgeStep
<1>6. starts' \in Nat
  BY DEF IInv, TypeOK, StartPurge, PurgeStep, KeysCount, DelCount, KeysCircle, DelCircle,
     Restart, vars, stores, history
<1>7. TypeOK'
  BY <1>1, <1>2, <1>3, <1>4, <1>5, <1>6 DEF IInv, TypeOK
<1> QED
  BY <1>1, <1>2, <1>3, <1>7, QuietStep DEF IInv, TypeOK

----------------------------------------------------------------------------
(* The strengthened invariant holds in every reachable state.              *)
THEOREM Strengthened == Spec => []IInv
<1>1. IInv /\ [Next]_vars => IInv'
  <2> SUFFICES ASSUME IInv, [Next]_vars PROVE IInv'
    OBVIOUS
  <2>1. CASE \E r \in Requests : PostStep(r) \/ \E form \in Form : Post(r, form)
    BY <2>1, PostFrame, SaddStep, IncrStep, InsertStep, IncrEntriesStep DEF PostStep
  <2>2. CASE StartPurge \/ PurgeStep \/ Restart \/ UNCHANGED vars
    BY <2>2, JobStep
  <2> QED
    BY <2>1, <2>2 DEF Next
<1> QED
  BY <1>1, InitIInv, PTL DEF Spec

(* Type correctness of the whole module.                                   *)
THEOREM TypeCorrect == Spec => []TypeOK
BY Strengthened, PTL DEF IInv

(* "success" is honest, whatever the job deletes meanwhile.                *)
THEOREM AnswersAreHonest == Spec => []HonestAnswer
<1>1. IInv => HonestAnswer
  BY DEF IInv, Witnessed, HonestAnswer
<1> QED
  BY <1>1, Strengthened, PTL

(* A client is counted at most once in the life of a circle, for any number *)
(* of clients, requests in flight and jobs (requete.js:257-264).            *)
THEOREM OneVotePerPeriod == Spec => []VotesPerPeriod
<1>1. IInv => VotesPerPeriod
  <2> SUFFICES ASSUME IInv, NEW u \in Users, NEW i \in Items
               PROVE  votes[<<u, i>>] <= purged[i] + 1
    BY DEF VotesPerPeriod
  <2>1. votes[<<u, i>>] + Cardinality(Voting(u, i)) <= purged[i] + Place(u, i)
    BY DEF IInv, VotesHeld
  <2>2. votes[<<u, i>>] \in Nat /\ purged[i] \in Nat
    BY DEF IInv, TypeOK
  <2>3. Place(u, i) \in {0, 1}
    BY DEF Place
  <2> QED
    BY <2>1, <2>2, <2>3, VotingFinite
<1> QED
  BY <1>1, Strengthened, PTL

----------------------------------------------------------------------------
(* Rows: what is inserted against what was counted.                        *)

\* The requests that have brought a counter to a multiple of Quorum and have
\* not been answered by PostgreSQL yet.
Inserting(k) == {r \in Requests : post[r].pc = "insert" /\ Key(r) = k}

Claims(k) == rows[k] + Cardinality(Inserting(k))

\* Each row, inserted or about to be, has used up Quorum increments, and what
\* is left in the counter has not been used yet.
RowsHeld ==
  \A k \in Items \X Prices : (Quorum * Claims(k)) + (count[k] % Quorum) <= raised[k]

(* Multiples of the quorum are in the order of their factors.              *)
LEMMA MultipleMonotone ==
  ASSUME NEW a \in Nat, NEW b \in Nat, a <= b
  PROVE  Quorum * a \in Nat /\ Quorum * b \in Nat /\ Quorum * a <= Quorum * b
<1>1. Quorum \in Nat
  BY QuorumAssumption
<1>2. Quorum * a \in Nat /\ Quorum * b \in Nat
  BY <1>1, SMTT(30)
<1>3. PICK d \in Nat : b = a + d
  BY SMT
<1>4. Quorum * b = Quorum * a + Quorum * d /\ Quorum * d \in Nat
  BY <1>1, <1>3, SMTT(30)
<1> QED
  BY <1>2, <1>4

(* One row more is Quorum increments more.                                 *)
LEMMA NextMultiple ==
  ASSUME NEW a \in Nat PROVE Quorum * (a + 1) = Quorum * a + Quorum
BY QuorumAssumption, SMTT(30)

(* What the remainder of a counter does when the counter goes up.          *)
LEMMA Remainder ==
  ASSUME NEW n \in Nat
  PROVE  /\ n % Quorum \in 0 .. Quorum - 1
         /\ 0 % Quorum = 0
         /\ (n + 1) % Quorum = IF n % Quorum = Quorum - 1 THEN 0 ELSE (n % Quorum) + 1
<1> DEFINE Q == Quorum
           a == n \div Q
           b == (n + 1) \div Q
<1>0. Q \in Nat /\ Q >= 1
  BY QuorumAssumption
<1>1. ASSUME NEW m \in Nat
      PROVE  /\ m % Q \in 0 .. Q - 1 /\ m \div Q \in Nat
             /\ m = (Q * (m \div Q)) + (m % Q)
  BY <1>0, SMTT(30)
<1>2. /\ n % Q \in 0 .. Q - 1 /\ a \in Nat /\ n = (Q * a) + (n % Q)
      /\ (n + 1) % Q \in 0 .. Q - 1 /\ b \in Nat /\ n + 1 = (Q * b) + ((n + 1) % Q)
  BY <1>1
<1>3. 0 % Q = 0
  BY <1>0, SMTT(30)
<1> HIDE DEF Q, a, b
<1>4. \A x, y \in Nat : x < y => (Q * x) + Q <= Q * y
  BY <1>0, SMTT(30)
<1>5. Q * a \in Nat /\ Q * b \in Nat /\ Q * (a + 1) = Q * a + Q
  BY <1>0, <1>2, SMTT(30)
<1>6. b = a \/ b = a + 1
  <2>1. CASE b < a
    BY <1>0, <1>2, <1>4, <1>5, <2>1
  <2>2. CASE a + 1 < b
    <3>1. (Q * (a + 1)) + Q <= Q * b
      BY <1>2, <1>4, <2>2
    <3> QED
      BY <1>0, <1>2, <1>5, <3>1
  <2> QED
    BY <1>2, <2>1, <2>2
<1>7. (n + 1) % Q = IF n % Q = Q - 1 THEN 0 ELSE (n % Q) + 1
  <2> DEFINE x == n % Q  y == (n + 1) % Q
  <2>1. x \in 0 .. Q - 1 /\ y \in 0 .. Q - 1 /\ n = Q * a + x /\ n + 1 = Q * b + y
    BY <1>2
  <2> HIDE DEF x, y
  <2>2. CASE b = a
    BY <1>0, <1>5, <2>1, <2>2 DEF x, y
  <2>3. CASE b = a + 1
    <3>1. Q * b = Q * a + Q
      BY <1>5, <2>3
    <3>2. x + 1 = Q + y
      BY <1>0, <1>5, <2>1, <3>1
    <3> QED
      BY <1>0, <2>1, <3>2 DEF x, y
  <2> QED
    BY <1>6, <2>2, <2>3
<1> QED
  BY <1>2, <1>3, <1>7 DEF Q

(* The sets of inserting requests are finite.                              *)
LEMMA InsertingFinite ==
  ASSUME NEW k
  PROVE  IsFiniteSet(Inserting(k)) /\ Cardinality(Inserting(k)) \in Nat
<1>1. Inserting(k) \subseteq Requests
  BY DEF Inserting
<1> QED
  BY <1>1, RequestsAssumption, FS_Subset, FS_CardinalityType

(* A step that claims no more rows, and adds to a remainder only what it    *)
(* adds to raised, keeps RowsHeld.                                          *)
LEMMA NoMoreClaims ==
  ASSUME IInv, TypeOK', RowsHeld, NEW k \in Items \X Prices,
         Claims(k)' <= Claims(k),
         count'[k] % Quorum <= (count[k] % Quorum) + (raised'[k] - raised[k])
  PROVE  (Quorum * Claims(k)') + (count'[k] % Quorum) <= raised'[k]
<1>1. Claims(k) \in Nat /\ Claims(k)' \in Nat
  <2>1. rows[k] \in Nat /\ rows'[k] \in Nat
    BY DEF IInv, TypeOK
  <2>2. Cardinality(Inserting(k)) \in Nat /\ Cardinality(Inserting(k)') \in Nat
    BY InsertingFinite, RequestsAssumption, FS_Subset, FS_CardinalityType DEF Inserting
  <2> QED
    BY <2>1, <2>2 DEF Claims
<1>2. Quorum * Claims(k)' <= Quorum * Claims(k)
      /\ Quorum * Claims(k)' \in Nat /\ Quorum * Claims(k) \in Nat
  BY <1>1, MultipleMonotone
<1>3. count[k] % Quorum \in Int /\ count'[k] % Quorum \in Int
      /\ raised[k] \in Nat /\ raised'[k] \in Nat
  <2>1. count[k] \in Nat /\ count'[k] \in Nat /\ raised[k] \in Nat /\ raised'[k] \in Nat
    BY DEF IInv, TypeOK
  <2> QED
    BY <2>1, Remainder
<1>4. (Quorum * Claims(k)) + (count[k] % Quorum) <= raised[k]
  BY DEF RowsHeld
<1> QED
  BY <1>2, <1>3, <1>4

(* A step that lets no request reach INSERT, and leaves rows, counters of   *)
(* votes and raised alone, but for counters that are deleted.               *)
LEMMA NobodyInserts ==
  ASSUME IInv, TypeOK', RowsHeld, UNCHANGED <<rows, raised>>,
         \A k \in Items \X Prices : count'[k] \in {count[k], 0},
         \A r \in Requests : post'[r] = post[r] \/ post'[r].pc # "insert"
  PROVE  RowsHeld'
<1> SUFFICES ASSUME NEW k \in Items \X Prices
             PROVE  (Quorum * Claims(k)') + (count'[k] % Quorum) <= raised'[k]
  BY DEF RowsHeld
<1>1. Inserting(k)' \subseteq Inserting(k)
  BY DEF Inserting, Key
<1>2. Cardinality(Inserting(k)') <= Cardinality(Inserting(k))
      /\ Cardinality(Inserting(k)') \in Nat /\ Cardinality(Inserting(k)) \in Nat
  BY <1>1, InsertingFinite, FS_Subset, FS_CardinalityType
<1>3. Claims(k)' <= Claims(k)
  BY <1>2 DEF Claims, IInv, TypeOK
<1>4. count'[k] % Quorum <= (count[k] % Quorum) + (raised'[k] - raised[k])
  <2>1. count[k] \in Nat /\ count'[k] \in {count[k], 0} /\ raised[k] \in Nat
    BY DEF IInv, TypeOK
  <2>2. count[k] % Quorum \in Nat /\ 0 % Quorum = 0
    BY <2>1, Remainder
  <2>3. raised'[k] - raised[k] = 0
    BY <2>1
  <2>4. count'[k] % Quorum = count[k] % Quorum \/ count'[k] % Quorum = 0
    BY <2>1, <2>2
  <2> QED
    BY <2>2, <2>3, <2>4
<1> QED
  BY <1>3, <1>4, NoMoreClaims

(* INCR: at a multiple of the quorum the request claims a row, and the      *)
(* remainder falls from Quorum - 1 to 0.                                    *)
LEMMA IncrHolds == ASSUME IInv, TypeOK', RowsHeld, NEW r \in Requests, Incr(r) PROVE RowsHeld'
<1> DEFINE l == Key(r)
<1>1. post[r].pc = "incr" /\ l \in Items \X Prices /\ UNCHANGED rows
  BY DEF Incr, IInv, Carried, Calls, Form, Key
<1>2. CASE Goto(r, "free") /\ UNCHANGED <<count, votes, raised>>
  <2>1. \A q \in Requests : post'[q] = post[q] \/ post'[q].pc # "insert"
    BY <1>2, GotoFrame DEF IInv, Done
  <2> QED
    BY <1>1, <1>2, <2>1, NobodyInserts
<1>3. CASE ~(Goto(r, "free") /\ UNCHANGED <<count, votes, raised>>)
  <2>1. /\ count' = [count EXCEPT ![l] = @ + 1]
        /\ raised' = [raised EXCEPT ![l] = @ + 1]
    BY <1>3 DEF Incr
  <2>2. count[l] \in Nat /\ raised[l] \in Nat /\ rows[l] \in Nat
        /\ count'[l] = count[l] + 1 /\ raised'[l] = raised[l] + 1
    BY <1>1, <2>1 DEF IInv, TypeOK
  <2>3. /\ \A q \in Requests : q # r => post'[q] = post[q]
        /\ post'[r].pc # "free" => post'[r].form = post[r].form
        /\ \/ post'[r].pc # "insert"
           \/ post'[r].pc = "insert" /\ AtQuorum(count[l] + 1)
    <3>1. CASE Goto(r, "free")
      BY <3>1, GotoFrame DEF IInv, Done
    <3>2. CASE ~Goto(r, "free")
      BY <1>3, <3>2 DEF Incr, IInv, TypeOK, PostState
    <3> QED
      BY <3>1, <3>2
  <2>4. ASSUME NEW k \in Items \X Prices
        PROVE  (Quorum * Claims(k)') + (count'[k] % Quorum) <= raised'[k]
    <3>1. CASE k # l
      <4>1. Inserting(k)' = Inserting(k)
        BY <1>1, <2>3, <3>1 DEF Inserting, Key
      <4>2. Claims(k)' = Claims(k) /\ count'[k] = count[k] /\ raised'[k] = raised[k]
        BY <1>1, <2>1, <3>1, <4>1 DEF Claims, IInv, TypeOK
      <4> QED
        BY <4>2 DEF RowsHeld
    <3>2. CASE k = l /\ post'[r].pc # "insert"
      <4>1. Inserting(k)' = Inserting(k)
        BY <1>1, <2>3, <3>2 DEF Inserting, Key
      <4>2. Claims(k)' = Claims(k) /\ Claims(k) \in Nat
        BY <1>1, <2>2, <3>2, <4>1, InsertingFinite DEF Claims
      <4>3. (count[k] + 1) % Quorum <= (count[k] % Quorum) + 1
        BY <2>2, <3>2, Remainder, QuorumAssumption
      <4> QED
        BY <2>2, <3>2, <4>2, <4>3, NoMoreClaims
    <3>3. CASE k = l /\ post'[r].pc = "insert"
      <4>1. Inserting(k)' = Inserting(k) \cup {r} /\ r \notin Inserting(k)
        BY <1>1, <2>3, <3>3 DEF Inserting, Key
      <4>2. Cardinality(Inserting(k)') = Cardinality(Inserting(k)) + 1
        BY <4>1, InsertingFinite, FS_AddElement
      <4>3. Claims(k)' = Claims(k) + 1 /\ Claims(k) \in Nat
        BY <1>1, <2>2, <3>3, <4>2, InsertingFinite DEF Claims
      <4>4. Quorum * Claims(k)' = Quorum * Claims(k) + Quorum /\ Quorum * Claims(k) \in Nat
        BY <4>3, NextMultiple, MultipleMonotone
      <4>5. (count[k] + 1) % Quorum = 0
        BY <2>3, <3>3 DEF AtQuorum
      <4>6. count[k] % Quorum = Quorum - 1
        BY <2>2, <3>3, <4>5, Remainder
      <4>7. (Quorum * Claims(k)) + (count[k] % Quorum) <= raised[k]
        BY DEF RowsHeld
      <4>8. Quorum \in Nat
        BY QuorumAssumption
      <4> QED
        BY <2>2, <3>3, <4>4, <4>5, <4>6, <4>7, <4>8
    <3> QED
      BY <3>1, <3>2, <3>3
  <2> QED
    BY <2>4 DEF RowsHeld
<1> QED
  BY <1>2, <1>3

(* INSERT: the row takes the place of the claim, or the claim is given up.  *)
LEMMA InsertHolds ==
  ASSUME IInv, TypeOK', RowsHeld, NEW r \in Requests, Insert(r) PROVE RowsHeld'
<1>1. PICK out \in Outcomes :
        /\ rows' = IF Applied(out) THEN [rows EXCEPT ![Key(r)] = @ + 1] ELSE rows
        /\ Goto(r, IF out = "ok" THEN "stat" ELSE "free")
  BY DEF Insert
<1>2. /\ post[r].pc = "insert" /\ Key(r) \in Items \X Prices
      /\ UNCHANGED <<count, raised>>
  BY DEF Insert, IInv, Carried, Calls, Form, Key, history
<1>3. /\ post'[r].pc # "insert"
      /\ \A q \in Requests : q # r => post'[q] = post[q]
  <2>1. (IF out = "ok" THEN "stat" ELSE "free") \in {"stat", "free"}
    OBVIOUS
  <2>2. {"stat", "free"} \subseteq Done \cup Calls
    BY DEF Done, Calls
  <2> QED
    BY <1>1, <2>1, <2>2, GotoFrame DEF IInv
<1>4. ASSUME NEW k \in Items \X Prices
      PROVE  (Quorum * Claims(k)') + (count'[k] % Quorum) <= raised'[k]
  <2>1. rows[k] \in Nat /\ count[k] \in Nat /\ raised[k] \in Nat
    BY DEF IInv, TypeOK
  <2>2. Claims(k)' <= Claims(k)
    <3>1. CASE k = Key(r)
      <4>1. Inserting(k)' = Inserting(k) \ {r} /\ r \in Inserting(k)
        BY <1>2, <1>3, <3>1 DEF Inserting, Key
      <4>2. Cardinality(Inserting(k)') = Cardinality(Inserting(k)) - 1
        BY <4>1, InsertingFinite, FS_RemoveElement
      <4>3. rows'[k] \in {rows[k], rows[k] + 1}
        BY <1>1, <1>2, <3>1 DEF IInv, TypeOK
      <4> QED
        BY <2>1, <4>2, <4>3, InsertingFinite DEF Claims
    <3>2. CASE k # Key(r)
      <4>1. Inserting(k)' = Inserting(k)
        BY <1>2, <1>3, <3>2 DEF Inserting, Key
      <4>2. rows'[k] = rows[k]
        BY <1>1, <3>2 DEF IInv, TypeOK
      <4> QED
        BY <2>1, <4>1, <4>2, InsertingFinite DEF Claims
    <3> QED
      BY <3>1, <3>2
  <2>3. count'[k] % Quorum <= (count[k] % Quorum) + (raised'[k] - raised[k])
    <3>1. count[k] % Quorum \in Nat
      BY <2>1, Remainder
    <3> QED
      BY <1>2, <2>1, <3>1
  <2> QED
    BY <2>2, <2>3, NoMoreClaims
<1> QED
  BY <1>4 DEF RowsHeld

(* Every other step lets no request reach INSERT.                          *)
LEMMA OtherStepHolds ==
  ASSUME IInv, TypeOK', RowsHeld,
         \/ \E r \in Requests : Sadd(r) \/ IncrEntries(r) \/ \E form \in Form : Post(r, form)
         \/ StartPurge \/ PurgeStep \/ Restart \/ UNCHANGED vars
  PROVE  RowsHeld'
<1>1. UNCHANGED <<rows, raised>>
  BY DEF Sadd, IncrEntries, Post, StartPurge, PurgeStep, KeysCount, DelCount, KeysCircle,
     DelCircle, Restart, vars, stores, history
<1>2. \A k \in Items \X Prices : count'[k] \in {count[k], 0}
  <2>1. CASE DelCount
    BY <2>1 DEF DelCount
  <2>2. CASE UNCHANGED count
    BY <2>2
  <2> QED
    BY <2>1, <2>2 DEF Sadd, IncrEntries, Post, StartPurge, PurgeStep, KeysCount, KeysCircle,
       DelCircle, Restart, vars, stores, history
<1>3. \A q \in Requests : post'[q] = post[q] \/ post'[q].pc # "insert"
  <2>1. ASSUME NEW r \in Requests, Sadd(r) \/ IncrEntries(r)
        PROVE  \E s \in {"incr", "free", "ok"} : Goto(r, s)
    BY <2>1 DEF Sadd, IncrEntries
  <2>2. \A r \in Requests : Sadd(r) \/ IncrEntries(r) =>
          \A q \in Requests : post'[q] = post[q] \/ post'[q].pc # "insert"
    <3>1. {"incr", "free", "ok"} \subseteq Done \cup Calls
      BY DEF Done, Calls
    <3> QED
      BY <2>1, <3>1, GotoFrame DEF IInv
  <2>3. ASSUME NEW r \in Requests, NEW form \in Form, Post(r, form)
        PROVE  \A q \in Requests : post'[q] = post[q] \/ post'[q].pc # "insert"
    BY <2>3 DEF Post, IInv, TypeOK
  <2>4. CASE Restart
    <3>1. \A q \in Requests : post[q] \in PostState
      BY DEF IInv, TypeOK
    <3> QED
      BY <2>4, <3>1 DEF Restart, PostState, Free
  <2>5. CASE StartPurge \/ PurgeStep \/ UNCHANGED vars
    BY <2>5 DEF StartPurge, PurgeStep, KeysCount, DelCount, KeysCircle, DelCircle, vars
  <2> QED
    BY <2>2, <2>3, <2>4, <2>5
<1> QED
  BY <1>1, <1>2, <1>3, NobodyInserts

(* Every row stands for Quorum increments of its own counter, for every     *)
(* quorum, and however counters are deleted between the calls of a request. *)
THEOREM RowsAreBacked == Spec => []RowsBacked
<1>1. Init => RowsHeld
  <2> SUFFICES ASSUME Init, NEW k \in Items \X Prices
               PROVE  (Quorum * Claims(k)) + (count[k] % Quorum) <= raised[k]
    BY DEF RowsHeld
  <2>1. rows[k] = 0 /\ count[k] = 0 /\ raised[k] = 0
    BY DEF Init
  <2>2. Inserting(k) = {}
    BY DEF Init, Inserting, Free
  <2>3. Claims(k) = 0
    BY <2>1, <2>2, FS_EmptySet DEF Claims
  <2>4. Quorum * 0 = 0 /\ 0 % Quorum = 0
    BY QuorumAssumption, Remainder
  <2> QED
    BY <2>1, <2>3, <2>4
<1>2. IInv /\ TypeOK' /\ RowsHeld /\ [Next]_vars => RowsHeld'
  <2> SUFFICES ASSUME IInv, TypeOK', RowsHeld, [Next]_vars PROVE RowsHeld'
    OBVIOUS
  <2>1. CASE \E r \in Requests : Incr(r) \/ Insert(r)
    BY <2>1, IncrHolds, InsertHolds
  <2>2. CASE ~\E r \in Requests : Incr(r) \/ Insert(r)
    BY <2>2, OtherStepHolds DEF Next, PostStep
  <2> QED
    BY <2>1, <2>2
<1>3. IInv /\ RowsHeld => RowsBacked
  <2> SUFFICES ASSUME IInv, RowsHeld, NEW k \in Items \X Prices
               PROVE  Quorum * rows[k] <= raised[k]
    BY DEF RowsBacked
  <2>1. rows[k] \in Nat /\ count[k] \in Nat /\ raised[k] \in Nat
    BY DEF IInv, TypeOK
  <2>2. Claims(k) \in Nat /\ rows[k] <= Claims(k)
    BY <2>1, InsertingFinite DEF Claims
  <2>3. Quorum * rows[k] <= Quorum * Claims(k)
        /\ Quorum * rows[k] \in Nat /\ Quorum * Claims(k) \in Nat
    BY <2>1, <2>2, MultipleMonotone
  <2>4. count[k] % Quorum \in Nat
    BY <2>1, Remainder
  <2>5. (Quorum * Claims(k)) + (count[k] % Quorum) <= raised[k]
    BY DEF RowsHeld
  <2> QED
    BY <2>1, <2>3, <2>4, <2>5
<1> QED
  BY <1>1, <1>2, <1>3, Strengthened, TypeCorrect, PTL DEF Spec

----------------------------------------------------------------------------
(* The statistics: prices entered against what all counters have counted.   *)

\* The requests that have raised a counter and not raised stats:price_entry yet.
Counted == {r \in Requests : post[r].pc \in {"insert", "stat"}}

\* An entry, counted or about to be, has an increment of its own.
EntriesHeld == IsFiniteSet(Increments) /\ entries + Cardinality(Counted) <= Cardinality(Increments)

(* The set of requests about to raise stats:price_entry is finite.          *)
LEMMA CountedFinite == IsFiniteSet(Counted) /\ Cardinality(Counted) \in Nat
<1>1. Counted \subseteq Requests
  BY DEF Counted
<1> QED
  BY <1>1, RequestsAssumption, FS_Subset, FS_CardinalityType

(* A step that raises no counter and lets nobody start to count keeps       *)
(* EntriesHeld, if every entry it adds is given up by a request.            *)
LEMMA NoMoreEntries ==
  ASSUME IInv, TypeOK', EntriesHeld, UNCHANGED raised, Counted' \subseteq Counted,
         \/ entries' = entries
         \/ entries' = entries + 1 /\ \E r \in Counted : r \notin Counted'
  PROVE  EntriesHeld'
<1>1. Increments' = Increments
  BY DEF Increments
<1>2. /\ Cardinality(Increments) \in Nat /\ Cardinality(Counted) \in Nat /\ entries \in Nat
      /\ entries + Cardinality(Counted) <= Cardinality(Increments)
  BY CountedFinite, FS_CardinalityType DEF EntriesHeld, IInv, TypeOK
<1>3. CASE entries' = entries
  <2>1. Cardinality(Counted') <= Cardinality(Counted) /\ Cardinality(Counted') \in Nat
    BY CountedFinite, FS_Subset, FS_CardinalityType
  <2> QED
    BY <1>1, <1>2, <1>3, <2>1 DEF EntriesHeld
<1>4. CASE entries' = entries + 1 /\ \E r \in Counted : r \notin Counted'
  <2>1. PICK r \in Counted : r \notin Counted'
    BY <1>4
  <2>2. Counted' \subseteq Counted \ {r} /\ IsFiniteSet(Counted \ {r})
    BY <2>1, CountedFinite, FS_RemoveElement
  <2>3. Cardinality(Counted \ {r}) = Cardinality(Counted) - 1
    BY <2>1, CountedFinite, FS_RemoveElement
  <2>4. Cardinality(Counted') <= Cardinality(Counted \ {r}) /\ Cardinality(Counted') \in Nat
    BY <2>2, FS_Subset, FS_CardinalityType
  <2> QED
    BY <1>1, <1>2, <1>4, <2>3, <2>4 DEF EntriesHeld
<1> QED
  BY <1>3, <1>4

(* INCR: the request counts, and one increment more stands for it.          *)
LEMMA IncrCounts == ASSUME IInv, TypeOK', EntriesHeld, NEW r \in Requests, Incr(r) PROVE EntriesHeld'
<1> DEFINE l == Key(r)
           x == <<l, raised[l] + 1>>
<1>1. post[r].pc = "incr" /\ l \in Items \X Prices /\ entries' = entries
  BY DEF Incr, IInv, Carried, Calls, Form, Key
<1>2. r \notin Counted
  BY <1>1 DEF Counted
<1>3. CASE Goto(r, "free") /\ UNCHANGED raised
  <2>1. Counted' \subseteq Counted
    BY <1>3, GotoFrame DEF IInv, Done, Counted
  <2> QED
    BY <1>1, <1>3, <2>1, NoMoreEntries
<1>4. CASE raised' = [raised EXCEPT ![l] = @ + 1]
  <2>1. \A q \in Requests : q # r => post'[q] = post[q]
    <3>1. CASE Goto(r, "free")
      BY <3>1, GotoFrame DEF IInv, Done
    <3>2. CASE ~Goto(r, "free")
      BY <3>2 DEF Incr, IInv, TypeOK
    <3> QED
      BY <3>1, <3>2
  <2>2. /\ raised[l] \in Nat /\ raised'[l] = raised[l] + 1
        /\ \A k \in Items \X Prices : raised[k] \in Nat
        /\ \A k \in Items \X Prices : k # l => raised'[k] = raised[k]
    BY <1>1, <1>4 DEF IInv, TypeOK
  <2>3. Increments' = Increments \cup {x} /\ x \notin Increments
    <3>1. 1 .. (raised[l] + 1) = (1 .. raised[l]) \cup {raised[l] + 1}
      BY <2>2
    <3>2. ASSUME NEW k \in Items \X Prices
          PROVE  {k} \X (1 .. raised'[k])
                   = {k} \X (1 .. raised[k]) \cup (IF k = l THEN {x} ELSE {})
      BY <2>2, <3>1
    <3>3. Increments' = Increments \cup {x}
      <4>1. ASSUME NEW y \in Increments' PROVE y \in Increments \cup {x}
        <5>1. PICK k \in Items \X Prices : y \in {k} \X (1 .. raised'[k])
          BY <4>1, Zenon DEF Increments
        <5>2. y \in {k} \X (1 .. raised[k]) \/ y = x
          BY <3>2, <5>1
        <5> QED
          BY <5>2, Zenon DEF Increments
      <4>2. ASSUME NEW y \in Increments PROVE y \in Increments'
        <5>1. PICK k \in Items \X Prices : y \in {k} \X (1 .. raised[k])
          BY <4>2, Zenon DEF Increments
        <5>2. y \in {k} \X (1 .. raised'[k])
          BY <3>2, <5>1
        <5> QED
          BY <5>2, Zenon DEF Increments
      <4>3. x \in Increments'
        <5>1. x \in {l} \X (1 .. raised'[l])
          BY <1>1, <3>2
        <5> QED
          BY <1>1, <5>1, Zenon DEF Increments
      <4> QED
        BY <4>1, <4>2, <4>3
    <3>4. x \notin Increments
      <4>1. raised[l] + 1 \notin 1 .. raised[l]
        BY <2>2
      <4>2. \A k : x \in {k} \X (1 .. raised[k]) => k = l /\ raised[l] + 1 \in 1 .. raised[l]
        OBVIOUS
      <4> QED
        BY <4>1, <4>2, Zenon DEF Increments
    <3> QED
      BY <3>3, <3>4
  <2>4. /\ IsFiniteSet(Increments')
        /\ Cardinality(Increments') = Cardinality(Increments) + 1
        /\ Cardinality(Increments) \in Nat
    BY <2>3, FS_AddElement, FS_CardinalityType DEF EntriesHeld
  <2>5. Counted' \subseteq Counted \cup {r}
    BY <2>1 DEF Counted
  <2>6. /\ IsFiniteSet(Counted \cup {r})
        /\ Cardinality(Counted \cup {r}) = Cardinality(Counted) + 1
    BY <1>2, CountedFinite, FS_AddElement
  <2>7. Cardinality(Counted') <= Cardinality(Counted \cup {r}) /\ Cardinality(Counted') \in Nat
    BY <2>5, <2>6, FS_Subset, FS_CardinalityType
  <2>8. entries \in Nat /\ entries + Cardinality(Counted) <= Cardinality(Increments)
    BY DEF EntriesHeld, IInv, TypeOK
  <2> QED
    BY <1>1, <2>4, <2>6, <2>7, <2>8, CountedFinite DEF EntriesHeld
<1> QED
  BY <1>3, <1>4 DEF Incr

(* INCR of stats:price_entry: the entry takes the place of the request.     *)
LEMMA IncrEntriesCounts ==
  ASSUME IInv, TypeOK', EntriesHeld, NEW r \in Requests, IncrEntries(r) PROVE EntriesHeld'
<1>1. PICK out \in Outcomes :
        /\ entries' = IF Applied(out) THEN entries + 1 ELSE entries
        /\ Goto(r, IF out = "ok" THEN "ok" ELSE "free")
  BY DEF IncrEntries
<1>2. UNCHANGED raised /\ r \in Counted
  BY DEF IncrEntries, history, Counted
<1>3. /\ post'[r].pc \in {"ok", "free"}
      /\ \A q \in Requests : q # r => post'[q] = post[q]
  <2>1. (IF out = "ok" THEN "ok" ELSE "free") \in {"ok", "free"}
    OBVIOUS
  <2>2. {"ok", "free"} \subseteq Done \cup Calls
    BY DEF Done
  <2> QED
    BY <1>1, <2>1, <2>2, GotoFrame DEF IInv
<1>4. Counted' \subseteq Counted /\ r \notin Counted'
  BY <1>3 DEF Counted
<1> QED
  BY <1>1, <1>2, <1>4, NoMoreEntries

(* Every other step raises no counter, and nobody starts to count.          *)
LEMMA OtherStepCounts ==
  ASSUME IInv, TypeOK', EntriesHeld,
         \/ \E r \in Requests : Sadd(r) \/ Insert(r) \/ \E form \in Form : Post(r, form)
         \/ StartPurge \/ PurgeStep \/ Restart \/ UNCHANGED vars
  PROVE  EntriesHeld'
<1>1. UNCHANGED <<entries, raised>>
  BY DEF Sadd, Insert, Post, StartPurge, PurgeStep, KeysCount, DelCount, KeysCircle,
     DelCircle, Restart, vars, stores, history
<1>2. Counted' \subseteq Counted
  <2>1. ASSUME NEW r \in Requests, Sadd(r) PROVE Counted' \subseteq Counted
    <3>1. PICK s \in {"incr", "free"} : Goto(r, s)
      BY <2>1 DEF Sadd
    <3>2. s \in Done \cup Calls
      BY DEF Done, Calls
    <3> QED
      BY <3>1, <3>2, GotoFrame DEF IInv, Counted
  <2>2. ASSUME NEW r \in Requests, Insert(r) PROVE Counted' \subseteq Counted
    <3>1. PICK s \in {"stat", "free"} : Goto(r, s)
      BY <2>2 DEF Insert
    <3>2. s \in Done \cup Calls /\ post[r].pc = "insert"
      BY <2>2 DEF Insert, Done, Calls
    <3> QED
      BY <3>1, <3>2, GotoFrame DEF IInv, Counted
  <2>3. ASSUME NEW r \in Requests, NEW form \in Form, Post(r, form)
        PROVE  Counted' \subseteq Counted
    BY <2>3 DEF Post, IInv, TypeOK, Counted
  <2>4. CASE Restart
    BY <2>4 DEF Restart, Free, Counted
  <2>5. CASE UNCHANGED post
    BY <2>5 DEF Counted
  <2> QED
    BY <2>1, <2>2, <2>3, <2>4, <2>5 DEF StartPurge, PurgeStep, KeysCount, DelCount, KeysCircle,
       DelCircle, vars
<1> QED
  BY <1>1, <1>2, NoMoreEntries

(* stats:price_entry never exceeds what all counters have counted together, *)
(* for any number of items, prices and requests in flight.                  *)
THEOREM EntriesAreBacked == Spec => []EntriesBacked
<1>1. Init => EntriesHeld
  <2> SUFFICES ASSUME Init PROVE EntriesHeld
    OBVIOUS
  <2>1. Increments = {}
    <3>1. \A k \in Items \X Prices : {k} \X (1 .. raised[k]) = {}
      BY DEF Init
    <3> QED
      BY <3>1, Zenon DEF Increments
  <2>2. Counted = {}
    BY DEF Init, Counted, Free
  <2> QED
    BY <2>1, <2>2, FS_EmptySet DEF Init, EntriesHeld
<1>2. IInv /\ TypeOK' /\ EntriesHeld /\ [Next]_vars => EntriesHeld'
  <2> SUFFICES ASSUME IInv, TypeOK', EntriesHeld, [Next]_vars PROVE EntriesHeld'
    OBVIOUS
  <2>1. CASE \E r \in Requests : Incr(r) \/ IncrEntries(r)
    BY <2>1, IncrCounts, IncrEntriesCounts
  <2>2. CASE ~\E r \in Requests : Incr(r) \/ IncrEntries(r)
    BY <2>2, OtherStepCounts DEF Next, PostStep
  <2> QED
    BY <2>1, <2>2
<1>3. IInv /\ EntriesHeld => EntriesBacked
  BY CountedFinite, FS_CardinalityType DEF EntriesHeld, EntriesBacked, IInv, TypeOK
<1> QED
  BY <1>1, <1>2, <1>3, Strengthened, TypeCorrect, PTL DEF Spec

============================================================================
