----------------------------- MODULE PriceVote -----------------------------
(***************************************************************************)
(* Prices that clients enter, and the weekly job that opens a new period.   *)
(*                                                                         *)
(* POST /product/:ean/shop/:id/price/:price-:promotion asks for a price of  *)
(* a product in a shop, promotion or not: an item.  Redis keeps the circle  *)
(* of the clients that have entered a price of the item, any price, and one *)
(* counter per price.  A client not yet in the circle is let in (SADD) and  *)
(* the counter goes up (INCR); at every multiple of numberClientPostPrice   *)
(* the price is inserted in PostgreSQL.  The job funcProduct lists and      *)
(* deletes the counters, then lists and deletes the circles.  These are     *)
(* separate calls, and every action is what happens between two callbacks.  *)
(***************************************************************************)
EXTENDS Integers, FiniteSets

CONSTANTS
  Users,      \* e-mail addresses of the clients in session
  Items,      \* pairs of product and shop, with the promotion flag
  Prices,
  Requests,   \* requests that may be in flight together
  Quorum,     \* config.misc.numberClientPostPrice
  MaxPurges,  \* bound: how often the job starts
  None        \* no form yet

ASSUME QuorumAssumption == Quorum \in Nat \ {0}
ASSUME RequestsAssumption == IsFiniteSet(Requests)
ASSUME PurgesAssumption == MaxPurges \in Nat

VARIABLES
  circle,     \* Redis: circle:product:<item>, the clients let in
  count,      \* Redis: product:<item>:<price>, 0 when there is no such key
  entries,    \* Redis: the counter stats:price_entry
  rows,       \* PostgreSQL: how many rows of product_shop have item and price
  post,       \* the requests
  purge,      \* the job: its next call and the keys it has listed
  starts,     \* how often the job was started
  votes,      \* history: how often a client raised a counter of an item
  raised,     \* history: how often the counter of item and price was raised
  purged      \* history: how often the circle of an item was deleted

stores == <<circle, count, entries, rows>>
history == <<votes, raised, purged>>
vars == <<stores, post, purge, starts, history>>

Done  == {"free", "ok"}
Calls == {"sadd", "incr", "insert", "stat"}

Form == [user : Users, item : Items, price : Prices]

\* number is what INCR answered.
PostState == [pc : Done \cup Calls, form : Form \cup {None}, number : Nat]

PurgeCalls == {"idle", "keysCount", "delCount", "keysCircle", "delCircle"}

Outcomes == {"ok", "fail", "lost"}
Applied(out) == out # "fail"

TypeOK ==
  /\ circle \in [Items -> SUBSET Users]
  /\ count \in [Items \X Prices -> Nat]
  /\ entries \in Nat
  /\ rows \in [Items \X Prices -> Nat]
  /\ post \in [Requests -> PostState]
  /\ purge \in [pc : PurgeCalls, counts : SUBSET (Items \X Prices), circles : SUBSET Items]
  /\ starts \in Nat
  /\ votes \in [Users \X Items -> Nat]
  /\ raised \in [Items \X Prices -> Nat]
  /\ purged \in [Items -> Nat]

Free == [pc |-> "free", form |-> None, number |-> 0]

Idle == [pc |-> "idle", counts |-> {}, circles |-> {}]

Init ==
  /\ circle = [i \in Items |-> {}]
  /\ count = [k \in Items \X Prices |-> 0]
  /\ entries = 0
  /\ rows = [k \in Items \X Prices |-> 0]
  /\ post = [r \in Requests |-> Free]
  /\ purge = Idle
  /\ starts = 0
  /\ votes = [x \in Users \X Items |-> 0]
  /\ raised = [k \in Items \X Prices |-> 0]
  /\ purged = [i \in Items |-> 0]

----------------------------------------------------------------------------
(* A client enters a price.                                                *)

Key(r) == <<post[r].form.item, post[r].form.price>>

\* A request that failed is free, and nothing of it is kept.
Goto(r, call) ==
  post' = [post EXCEPT ![r] = IF call = "free" THEN Free ELSE [@ EXCEPT !.pc = call]]

Post(r, form) ==
  /\ post[r].pc \in Done
  /\ post' = [post EXCEPT ![r] = [pc |-> "sadd", form |-> form, number |-> 0]]
  /\ UNCHANGED <<stores, purge, starts, history>>

\* Mutant: only an error of SADD is looked at, not its answer.
SaddAnswerIgnored(r) ==
  /\ post[r].pc = "sadd"
  /\ LET u == post[r].form.user
         i == post[r].form.item
     IN \E out \in Outcomes :
          /\ circle' = IF Applied(out) THEN [circle EXCEPT ![i] = @ \cup {u}] ELSE circle
          /\ Goto(r, IF out = "ok" THEN "incr" ELSE "free")
  /\ UNCHANGED <<count, entries, rows, purge, starts, history>>

\* SADD answers 1 to a client that was not in the circle; anything else is refused.
Sadd(r) ==
  /\ post[r].pc = "sadd"
  /\ LET u == post[r].form.user
         i == post[r].form.item
     IN \E out \in Outcomes :
          /\ circle' = IF Applied(out) THEN [circle EXCEPT ![i] = @ \cup {u}] ELSE circle
          /\ Goto(r, IF out = "ok" /\ u \notin circle[i] THEN "incr" ELSE "free")
  /\ UNCHANGED <<count, entries, rows, purge, starts, history>>

\* Mutant: every price after the first Quorum ones is inserted.
FromQuorum(number) == number >= Quorum

AtQuorum(number) == number % Quorum = 0 /\ number # 0

\* Mutants: an error of INCR is not looked at; its result is not passed on (-1
\* stands for undefined, which is no multiple of anything).
IncrUnchecked(r) ==
  /\ post[r].pc = "incr"
  /\ LET k == Key(r)
         x == <<post[r].form.user, post[r].form.item>>
     IN \/ /\ Goto(r, "stat")
           /\ UNCHANGED <<count, votes, raised>>
        \/ /\ count' = [count EXCEPT ![k] = @ + 1]
           /\ votes' = [votes EXCEPT ![x] = @ + 1]
           /\ raised' = [raised EXCEPT ![k] = @ + 1]
           /\ post' = [post EXCEPT ![r].number = count[k] + 1,
                                   ![r].pc = IF AtQuorum(count[k] + 1)
                                             THEN "insert" ELSE "stat"]
  /\ UNCHANGED <<circle, entries, rows, purge, starts, purged>>

IncrNotPassedOn(r) ==
  /\ post[r].pc = "incr"
  /\ post' = [post EXCEPT ![r].number = -1, ![r].pc = "stat"]
  /\ count' = [count EXCEPT ![Key(r)] = @ + 1]
  /\ votes' = [votes EXCEPT ![<<post[r].form.user, post[r].form.item>>] = @ + 1]
  /\ raised' = [raised EXCEPT ![Key(r)] = @ + 1]
  /\ UNCHANGED <<circle, entries, rows, purge, starts, purged>>

Incr(r) ==
  /\ post[r].pc = "incr"
  /\ LET k == Key(r)
         x == <<post[r].form.user, post[r].form.item>>
     IN \/ /\ Goto(r, "free")
           /\ UNCHANGED <<count, votes, raised>>
        \/ /\ count' = [count EXCEPT ![k] = @ + 1]
           /\ votes' = [votes EXCEPT ![x] = @ + 1]
           /\ raised' = [raised EXCEPT ![k] = @ + 1]
           /\ \/ Goto(r, "free")                \* the reply is lost
              \/ post' = [post EXCEPT ![r].number = count[k] + 1,
                                      ![r].pc = IF AtQuorum(count[k] + 1)
                                                THEN "insert" ELSE "stat"]
  /\ UNCHANGED <<circle, entries, rows, purge, starts, purged>>

\* Mutants: an error of INSERT is not looked at; it is never called back.
InsertUnchecked(r) ==
  /\ post[r].pc = "insert"
  /\ \E out \in Outcomes :
       /\ rows' = IF Applied(out) THEN [rows EXCEPT ![Key(r)] = @ + 1] ELSE rows
       /\ Goto(r, "stat")
  /\ UNCHANGED <<circle, count, entries, purge, starts, history>>

InsertSilent(r) ==
  /\ post[r].pc = "insert"
  /\ \E out \in Outcomes :
       /\ rows' = IF Applied(out) THEN [rows EXCEPT ![Key(r)] = @ + 1] ELSE rows
       /\ Goto(r, IF out = "ok" THEN "stat" ELSE "silent")
  /\ UNCHANGED <<circle, count, entries, purge, starts, history>>

Insert(r) ==
  /\ post[r].pc = "insert"
  /\ \E out \in Outcomes :
       /\ rows' = IF Applied(out) THEN [rows EXCEPT ![Key(r)] = @ + 1] ELSE rows
       /\ Goto(r, IF out = "ok" THEN "stat" ELSE "free")
  /\ UNCHANGED <<circle, count, entries, purge, starts, history>>

IncrEntries(r) ==
  /\ post[r].pc = "stat"
  /\ \E out \in Outcomes :
       /\ entries' = IF Applied(out) THEN entries + 1 ELSE entries
       /\ Goto(r, IF out = "ok" THEN "ok" ELSE "free")
  /\ UNCHANGED <<circle, count, rows, purge, starts, history>>

----------------------------------------------------------------------------
(* The weekly job.  An error of any call ends it.                          *)

StartPurge ==
  /\ purge.pc = "idle"
  /\ starts < MaxPurges
  /\ starts' = starts + 1
  /\ purge' = [Idle EXCEPT !.pc = "keysCount"]
  /\ UNCHANGED <<stores, post, history>>

KeysCount ==
  /\ purge.pc = "keysCount"
  /\ \/ purge' = [purge EXCEPT !.pc = "delCount",
                               !.counts = {k \in Items \X Prices : count[k] > 0}]
     \/ purge' = Idle
  /\ UNCHANGED <<stores, post, starts, history>>

\* Mutant: when nothing was listed the next function is not called.
DelCountWaits ==
  /\ purge.pc = "delCount"
  /\ purge.counts # {}
  /\ \E out \in Outcomes :
       /\ count' = IF Applied(out)
                   THEN [k \in Items \X Prices |-> IF k \in purge.counts THEN 0 ELSE count[k]]
                   ELSE count
       /\ purge' = IF out = "ok" THEN [purge EXCEPT !.pc = "keysCircle", !.counts = {}]
                   ELSE Idle
  /\ UNCHANGED <<circle, entries, rows, post, starts, history>>

\* No DEL is sent when nothing was listed; then no call can fail.
DelCount ==
  /\ purge.pc = "delCount"
  /\ \E out \in Outcomes :
       /\ purge.counts = {} => out = "ok"
       /\ count' = IF Applied(out)
                   THEN [k \in Items \X Prices |-> IF k \in purge.counts THEN 0 ELSE count[k]]
                   ELSE count
       /\ purge' = IF out = "ok" THEN [purge EXCEPT !.pc = "keysCircle", !.counts = {}]
                   ELSE Idle
  /\ UNCHANGED <<circle, entries, rows, post, starts, history>>

KeysCircle ==
  /\ purge.pc = "keysCircle"
  /\ \/ purge' = [purge EXCEPT !.pc = "delCircle",
                               !.circles = {i \in Items : circle[i] # {}}]
     \/ purge' = Idle
  /\ UNCHANGED <<stores, post, starts, history>>

DelCircle ==
  /\ purge.pc = "delCircle"
  /\ \/ /\ circle' = [i \in Items |-> IF i \in purge.circles THEN {} ELSE circle[i]]
        /\ purged' = [i \in Items |-> IF i \in purge.circles THEN purged[i] + 1 ELSE purged[i]]
     \/ purge.circles # {} /\ UNCHANGED <<circle, purged>>
  /\ purge' = Idle
  /\ UNCHANGED <<count, entries, rows, post, starts, votes, raised>>

\* The Node process ends and is started again: requests and job are gone, the
\* stores stay.
Restart ==
  /\ post' = [r \in Requests |-> IF post[r].pc \in Done THEN post[r] ELSE Free]
  /\ purge' = Idle
  /\ UNCHANGED <<stores, starts, history>>

----------------------------------------------------------------------------
PostStep(r) == Sadd(r) \/ Incr(r) \/ Insert(r) \/ IncrEntries(r)
PurgeStep == KeysCount \/ DelCount \/ KeysCircle \/ DelCircle

Next ==
  \/ \E r \in Requests : PostStep(r) \/ \E form \in Form : Post(r, form)
  \/ StartPurge \/ PurgeStep \/ Restart

Spec == Init /\ [][Next]_vars

\* Redis and PostgreSQL answer or break the connection, so the next callback comes.
Fairness == /\ \A r \in Requests : WF_vars(PostStep(r))
            /\ WF_vars(PurgeStep)

FairSpec == Spec /\ Fairness

----------------------------------------------------------------------------
(* Properties.                                                             *)

(* However posts, retries, broken calls, restarts and the job interleave, a *)
(* client is counted for an item at most once in the life of its circle,    *)
(* whatever the price: the circle is what makes it once (requete.js:257-264).*)
VotesPerPeriod == \A u \in Users, i \in Items : votes[<<u, i>>] <= purged[i] + 1

(* Every row of product_shop stands for Quorum increments of its own        *)
(* counter, though counters are deleted between any two calls of a request  *)
(* (requete.js:274).                                                        *)
RowsBacked == \A k \in Items \X Prices : Quorum * rows[k] <= raised[k]

(* "success" is honest: the price was counted, and if it made the quorum it *)
(* was inserted, whatever the job deleted meanwhile (product.js:170-177).   *)
HonestAnswer ==
  \A r \in Requests : post[r].pc = "ok" =>
    /\ raised[Key(r)] >= 1
    /\ AtQuorum(post[r].number) => rows[Key(r)] >= 1

\* Every time a counter was raised, whichever it is.
Increments == UNION {{k} \X (1 .. raised[k]) : k \in Items \X Prices}

(* stats:price_entry counts no price that no counter has counted, over all   *)
(* items and prices together.                                               *)
EntriesBacked == entries <= Cardinality(Increments)

(* Every request that enters a price is answered or cut off, and the job    *)
(* comes to its end, also in a week in which nobody entered a price.        *)
PostEnds == \A r \in Requests : post[r].pc \in Calls ~> post[r].pc \in Done
PurgeEnds == purge.pc # "idle" ~> purge.pc = "idle"

============================================================================
