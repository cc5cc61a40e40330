------------------------------- MODULE Stats -------------------------------
(* The statistics of ScanOID: the counters stats:<name> of Redis, which the *)
(* routes increment (requete.js queryStatIncr), and the weekly job funcStat *)
(* of schedule.js, which moves every counter to the table stats by a GET, a *)
(* DEL and an INSERT.  Of the routes that count, the search of products is  *)
(* here in full (product.js getProduct); the others are in MailLinks,       *)
(* Sessions and PriceVote and are here only as the increments they ask for. *)
(*                                                                          *)
(* A counter is the set of the requests it has counted: GET returns their   *)
(* number, and rows of the table keep the set, so that an increment can be  *)
(* followed.  A call ends as ok, as fail (an error, nothing done) or as     *)
(* lost (done, but the caller is given an error).                           *)
EXTENDS Naturals, FiniteSets

CONSTANTS Names,     \* config.stats
          Search,    \* the counter product_research
          Requests,  \* requests of clients, each used once
          Jobs,      \* runs of funcStat
          None

ASSUME SearchAssumption == Search \in Names
ASSUME NoneAssumption == None \notin Names

VARIABLES pc,       \* where each request is
          counter,  \* Redis: the requests that stats:<name> counts
          job,      \* runs of funcStat: a waterfall for each name
          table     \* PostgreSQL: the rows of stats

\* History: requests whose INCR was done; those that came between the GET and
\* the DEL of a waterfall; those a waterfall lost by an error or an exit; those
\* that a waterfall took although its DEL had failed.
VARIABLES counted, late, spoilt, kept

history == <<counted, late, spoilt, kept>>
vars == <<pc, counter, job, table, history>>

Waterfall == [pc : {"idle", "get", "del", "insert", "end"}, number : SUBSET Requests]
Idle == [pc |-> "idle", number |-> {}]
Ended == [pc |-> "end", number |-> {}]
Row == [job : Jobs, name : Names, number : SUBSET Requests]

Running(j) == \E n \in Names : job[j][n].pc \in {"get", "del", "insert"}
\* What the waterfalls have taken from Redis and not yet written.
Held == UNION {IF job[j][n].pc = "insert" THEN job[j][n].number ELSE {} : j \in Jobs, n \in Names}
AtRedis(j) == \E n \in Names : job[j][n].pc \in {"get", "del"}

Init ==
  /\ pc = [r \in Requests |-> "idle"]
  /\ counter = [n \in Names |-> {}]
  /\ job = [j \in Jobs |-> [n \in Names |-> Idle]]
  /\ table = {}
  /\ counted = {} /\ late = {} /\ spoilt = {} /\ kept = {}

-----------------------------------------------------------------------------
(* Requests.                                                                *)

\* The INCR was done by Redis.
Counted(r, n) ==
  /\ counter' = [counter EXCEPT ![n] = @ \cup {r}]
  /\ counted' = counted \cup {r}
  /\ late' = IF \E j \in Jobs : job[j][n].pc = "del" THEN late \cup {r} ELSE late
  /\ UNCHANGED <<spoilt, kept>>

\* A route sends its INCR; for the search it is the first call, and the SELECT
\* follows; the other routes have done their work and answer.
Incr(r, n) ==
  /\ pc[r] = "idle"
  /\ \/ /\ Counted(r, n)
        /\ pc' = [pc EXCEPT ![r] = IF n = Search THEN "select" ELSE "done"]
     \/ /\ Counted(r, n)
        /\ pc' = [pc EXCEPT ![r] = "done"]
     \/ /\ pc' = [pc EXCEPT ![r] = "done"]
        /\ UNCHANGED <<counter, history>>
  /\ UNCHANGED <<job, table>>

\* The products found, or an error, are answered.
Select(r) ==
  /\ pc[r] = "select"
  /\ pc' = [pc EXCEPT ![r] = "done"]
  /\ UNCHANGED <<counter, job, table, history>>

-----------------------------------------------------------------------------
(* The weekly job.                                                          *)

\* The timer fires.  A week has passed since the last run: its calls to Redis
\* have come to an end, though its INSERTs may still be waiting.
StartJob(j) ==
  /\ \A n \in Names : job[j][n] = Idle
  /\ \A k \in Jobs : ~ AtRedis(k)
  /\ job' = [job EXCEPT ![j] = [n \in Names |-> [Idle EXCEPT !.pc = "get"]]]
  /\ UNCHANGED <<pc, counter, table, history>>

\* A waterfall goes on to its next call.
Move(j, n, call, number) == job' = [job EXCEPT ![j][n] = [pc |-> call, number |-> number]]

\* Mutant: the number of a counter that does not exist is not replaced by "0".
GetNull(j, n) ==
  /\ job[j][n].pc = "get"
  /\ Move(j, n, "del", IF counter[n] = {} THEN {None} ELSE counter[n])
  /\ UNCHANGED <<pc, counter, table, history>>

\* GET: an error is not looked at, the number is then "0".
Get(j, n) ==
  /\ job[j][n].pc = "get"
  /\ \/ /\ Move(j, n, "del", counter[n])
        /\ UNCHANGED history
     \/ /\ Move(j, n, "del", {})
        /\ spoilt' = spoilt \cup counter[n]
        /\ UNCHANGED <<counted, late, kept>>
  /\ UNCHANGED <<pc, counter, table>>

\* Mutant: one DEL for all counters.
DelAll(j, n) ==
  /\ job[j][n].pc = "del"
  /\ Move(j, n, "insert", job[j][n].number)
  /\ counter' = [m \in Names |-> {}]
  /\ UNCHANGED <<pc, table, history>>

\* Mutant: no DEL is sent.
DelForgotten(j, n) ==
  /\ job[j][n].pc = "del"
  /\ Move(j, n, "insert", job[j][n].number)
  /\ UNCHANGED <<pc, counter, table, history>>

\* DEL: an error is not looked at either.
Del(j, n) ==
  /\ job[j][n].pc = "del"
  /\ Move(j, n, "insert", job[j][n].number)
  /\ \/ /\ counter' = [counter EXCEPT ![n] = {}]
        /\ UNCHANGED kept
     \/ /\ kept' = kept \cup job[j][n].number
        /\ UNCHANGED counter
  /\ UNCHANGED <<pc, table, counted, late, spoilt>>

\* Mutant: an INSERT that fails calls nothing back.
InsertSilent(j, n) ==
  /\ job[j][n].pc = "insert"
  /\ \/ /\ Move(j, n, "end", {})
        /\ table' = table \cup {[job |-> j, name |-> n, number |-> job[j][n].number]}
     \/ /\ Move(j, n, "silent", job[j][n].number)
        /\ UNCHANGED table
  /\ UNCHANGED <<pc, counter, history>>

\* INSERT INTO stats, the last call of the waterfall.
Insert(j, n) ==
  /\ job[j][n].pc = "insert"
  /\ Move(j, n, "end", {})
  /\ \/ /\ table' = table \cup {[job |-> j, name |-> n, number |-> job[j][n].number]}
        /\ UNCHANGED history
     \/ /\ spoilt' = spoilt \cup job[j][n].number
        /\ UNCHANGED <<table, counted, late, kept>>
  /\ UNCHANGED <<pc, counter>>

-----------------------------------------------------------------------------
(* The end of the process.                                                  *)

\* Requests and waterfalls under way are cut off; the stores stay.
Exit ==
  /\ pc' = [r \in Requests |-> IF pc[r] = "idle" THEN "idle" ELSE "done"]
  /\ job' = [j \in Jobs |-> [n \in Names |->
               IF job[j][n].pc = "idle" THEN Idle ELSE Ended]]
  /\ spoilt' = spoilt \cup Held
  /\ UNCHANGED <<counter, table, counted, late, kept>>

\* Further results of a search: one SELECT, and nothing is counted.  The
\* rows are looked at before the error: a failed SELECT, which has no rows, is an
\* exception that nobody catches.
SelectNext(r) ==
  /\ pc[r] = "idle"
  /\ \/ /\ pc' = [pc EXCEPT ![r] = "done"]
        /\ UNCHANGED <<counter, job, table, history>>
     \/ Exit

\* The process is stopped, or ends by an exception of another route.
Crash ==
  /\ \/ \E r \in Requests : pc[r] \notin {"idle", "done"}
     \/ \E j \in Jobs : Running(j)
  /\ Exit

\* Every request of the model has been used and every run has ended.
Quiet ==
  /\ \A r \in Requests : pc[r] = "done"
  /\ \A j \in Jobs, n \in Names : job[j][n].pc = "end"
  /\ UNCHANGED vars

Next ==
  \/ \E r \in Requests : \/ \E n \in Names : Incr(r, n)
                         \/ Select(r)
                         \/ SelectNext(r)
  \/ \E j \in Jobs : \/ StartJob(j)
                     \/ \E n \in Names : Get(j, n) \/ Del(j, n) \/ Insert(j, n)
  \/ Crash
  \/ Quiet

Spec == Init /\ [][Next]_vars

\* The stores answer, or break the connection, which is an error to the caller.
FairSpec ==
  /\ Spec
  /\ \A j \in Jobs : WF_vars(\E n \in Names : Get(j, n) \/ Del(j, n) \/ Insert(j, n))

-----------------------------------------------------------------------------
(* Properties.                                                              *)

\* Types: the number of a waterfall is always a number, also for a counter that
\* no request has incremented yet (reply || "0").
TypeOK ==
  /\ pc \in [Requests -> {"idle", "select", "done"}]
  /\ counter \in [Names -> SUBSET Requests]
  /\ job \in [Jobs -> [Names -> Waterfall]]
  /\ table \subseteq Row
  /\ counted \subseteq Requests /\ late \subseteq Requests
  /\ spoilt \subseteq Requests /\ kept \subseteq Requests

Reported == UNION {row.number : row \in table}

\* What the administrators see is not more than what happened: rows hold
\* requests that Redis counted, and a request is in two rows only if the DEL
\* that followed its first reading had failed.
ReportedOnce ==
  /\ Reported \subseteq counted
  /\ \A a, b \in table : a # b => a.number \cap b.number \subseteq kept

\* Nothing counted disappears but in three ways: it came between the GET and
\* the DEL of a waterfall, or that GET had failed, or the INSERT failed or was
\* cut off.  Anything else is still in Redis, or in the hands of a waterfall,
\* or in the table: counters are collected apart from each other.
LossExplained ==
  counted \subseteq (UNION {counter[n] : n \in Names}) \cup Held \cup Reported \cup late \cup spoilt

\* A collection that started comes to an end for every name, whatever errors it
\* meets.
CollectionEnds ==
  \A j \in Jobs : (\E n \in Names : job[j][n].pc = "get") ~> (\A n \in Names : job[j][n].pc = "end")

=============================================================================
