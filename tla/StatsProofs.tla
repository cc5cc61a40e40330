---------------------------- MODULE StatsProofs ----------------------------
(* What holds of the statistics for any counters, requests and runs.        *)
EXTENDS Stats, TLAPS

-----------------------------------------------------------------------------
(* The inductive invariant.                                                 *)

\* Only one run at a time is at its calls to Redis.
OneAtRedis == \A j, k \in Jobs : AtRedis(j) /\ AtRedis(k) => j = k

\* A request is counted once, under one name, and by a request that was sent.
CountedApart ==
  /\ \A r \in counted : pc[r] # "idle"
  /\ \A n \in Names : counter[n] \subseteq counted
  /\ \A n, m \in Names : n # m => counter[n] \cap counter[m] = {}

\* What a waterfall read is still in the counter until its DEL, and what has
\* come since is late.
Window ==
  \A j \in Jobs, n \in Names :
    job[j][n].pc = "del" =>
      /\ job[j][n].number \subseteq counter[n]
      /\ counter[n] \subseteq job[j][n].number \cup late \cup spoilt

\* What waits for its INSERT was counted, and is nowhere else unless a DEL failed.
HeldApart ==
  \A j \in Jobs, n \in Names :
    job[j][n].pc = "insert" =>
      /\ job[j][n].number \subseteq counted
      /\ job[j][n].number \cap Reported \subseteq kept
      /\ \A m \in Names : job[j][n].number \cap counter[m] \subseteq kept
      /\ \A k \in Jobs, m \in Names :
           job[k][m].pc = "insert" /\ (k # j \/ m # n)
             => job[j][n].number \cap job[k][m].number \subseteq kept

\* What was reported is in no counter unless a DEL failed.
CounterApart == \A n \in Names : counter[n] \cap Reported \subseteq kept

IInv ==
  /\ TypeOK
  /\ OneAtRedis
  /\ CountedApart
  /\ Window
  /\ HeldApart
  /\ CounterApart
  /\ ReportedOnce
  /\ LossExplained

-----------------------------------------------------------------------------
(* What the steps do to the waterfalls, and what the unions hold.           *)

LEMMA InitIInv == Init => IInv
<1> SUFFICES ASSUME Init PROVE IInv
  OBVIOUS
<1>1. \A j \in Jobs, n \in Names : job[j][n] = Idle
  BY DEF Init
<1>2. \A j \in Jobs, n \in Names : job[j][n].pc = "idle" /\ job[j][n].number = {}
  BY <1>1 DEF Idle
<1>3. TypeOK
  BY DEF Init, TypeOK, Waterfall, Idle
<1>4. Reported = {}
  BY DEF Init, Reported
<1>5. OneAtRedis /\ Window /\ HeldApart
  BY <1>2 DEF OneAtRedis, AtRedis, Window, HeldApart
<1>6. CountedApart /\ CounterApart /\ ReportedOnce /\ LossExplained
  BY <1>4 DEF Init, CountedApart, CounterApart, ReportedOnce, LossExplained
<1> QED
  BY <1>3, <1>5, <1>6 DEF IInv

\* One waterfall moves.
LEMMA MoveFrame ==
  ASSUME TypeOK, NEW j \in Jobs, NEW n \in Names, NEW number \in SUBSET Requests,
         NEW call \in {"idle", "get", "del", "insert", "end"}, Move(j, n, call, number)
  PROVE  /\ job' \in [Jobs -> [Names -> Waterfall]]
         /\ job'[j][n].pc = call /\ job'[j][n].number = number
         /\ \A k \in Jobs, m \in Names : k # j \/ m # n => job'[k][m] = job[k][m]
<1> DEFINE w == [pc |-> call, number |-> number]
<1>1. w \in Waterfall /\ w.pc = call /\ w.number = number
  BY DEF Waterfall
<1>2. job' = [job EXCEPT ![j][n] = w]
  BY DEF Move
<1> HIDE DEF w
<1>3. /\ job' \in [Jobs -> [Names -> Waterfall]]
      /\ job'[j][n] = w
      /\ \A k \in Jobs, m \in Names : k # j \/ m # n => job'[k][m] = job[k][m]
  BY <1>1, <1>2 DEF TypeOK
<1> QED
  BY <1>1, <1>3

LEMMA NumberType ==
  ASSUME TypeOK, NEW j \in Jobs, NEW n \in Names
  PROVE  job[j][n].number \in SUBSET Requests
BY DEF TypeOK, Waterfall

\* The loss of a request, told one request at a time.
Kept1(x) ==
  \/ \E n \in Names : x \in counter[n]
  \/ \E j \in Jobs, n \in Names : job[j][n].pc = "insert" /\ x \in job[j][n].number
  \/ x \in Reported \/ x \in late \/ x \in spoilt

LEMMA HeldMember ==
  \A x : x \in Held <=> \E j \in Jobs, n \in Names : job[j][n].pc = "insert" /\ x \in job[j][n].number
BY DEF Held

LEMMA LossPointwise == LossExplained <=> \A x \in counted : Kept1(x)
BY HeldMember DEF LossExplained, Kept1

LEMMA LossNext == (\A x \in counted : Kept1(x))' => LossExplained'
<1>1. \A x : (\E j \in Jobs, n \in Names : job'[j][n].pc = "insert" /\ x \in job'[j][n].number)
              => x \in Held'
  BY DEF Held
<1> QED
  BY <1>1 DEF LossExplained, Kept1

-----------------------------------------------------------------------------
(* Each step preserves the invariant.                                       *)

LEMMA TypeStep == TypeOK /\ [Next]_vars => TypeOK'
<1> SUFFICES ASSUME TypeOK, [Next]_vars PROVE TypeOK'
  OBVIOUS
<1>1. ASSUME NEW r \in Requests, NEW n \in Names, Incr(r, n) PROVE TypeOK'
  <2>1. pc' \in [Requests -> {"idle", "select", "done"}]
    BY <1>1 DEF Incr, TypeOK
  <2>2. counter' \in [Names -> SUBSET Requests]
    BY <1>1 DEF Incr, Counted, TypeOK
  <2>3. counted' \subseteq Requests /\ late' \subseteq Requests
    BY <1>1 DEF Incr, Counted, TypeOK, history
  <2>4. spoilt' = spoilt /\ kept' = kept
    BY <1>1 DEF Incr, Counted, history
  <2>5. job' = job /\ table' = table
    BY <1>1 DEF Incr
  <2> QED
    BY <2>1, <2>2, <2>3, <2>4, <2>5 DEF TypeOK
<1>2. ASSUME NEW r \in Requests, Select(r) PROVE TypeOK'
  BY <1>2 DEF Select, TypeOK, history
<1>3. ASSUME NEW j \in Jobs, StartJob(j) PROVE TypeOK'
  <2>1. [n \in Names |-> [Idle EXCEPT !.pc = "get"]] \in [Names -> Waterfall]
    BY DEF Idle, Waterfall
  <2> QED
    BY <1>3, <2>1 DEF StartJob, TypeOK, history
<1>4. ASSUME NEW j \in Jobs, NEW n \in Names, Get(j, n) PROVE TypeOK'
  <2>1. counter[n] \in SUBSET Requests /\ {} \in SUBSET Requests
    BY DEF TypeOK
  <2>3. job' \in [Jobs -> [Names -> Waterfall]]
    BY <1>4, <2>1, MoveFrame DEF Get
  <2>4. spoilt' \subseteq Requests
    BY <1>4 DEF Get, TypeOK, history
  <2> QED
    BY <1>4, <2>3, <2>4 DEF Get, TypeOK, history
<1>5. ASSUME NEW j \in Jobs, NEW n \in Names, Del(j, n) PROVE TypeOK'
  <2>1. job' \in [Jobs -> [Names -> Waterfall]]
    BY <1>5, NumberType, MoveFrame DEF Del
  <2>2. counter' \in [Names -> SUBSET Requests]
    BY <1>5 DEF Del, TypeOK
  <2>3. kept' \subseteq Requests
    BY <1>5 DEF Del, TypeOK, Waterfall
  <2> QED
    BY <1>5, <2>1, <2>2, <2>3 DEF Del, TypeOK
<1>6. ASSUME NEW j \in Jobs, NEW n \in Names, Insert(j, n) PROVE TypeOK'
  <2>1. {} \in SUBSET Requests
    OBVIOUS
  <2>2. job' \in [Jobs -> [Names -> Waterfall]]
    BY <1>6, <2>1, MoveFrame DEF Insert
  <2>3. job[j][n].number \subseteq Requests
    BY DEF TypeOK, Waterfall
  <2>4. table' \subseteq Row /\ spoilt' \subseteq Requests
    BY <1>6, <2>3 DEF Insert, TypeOK, Row, history
  <2> QED
    BY <1>6, <2>2, <2>4 DEF Insert, TypeOK, history
<1>7. ASSUME Exit PROVE TypeOK'
  <2>1. Idle \in Waterfall /\ Ended \in Waterfall
    BY DEF Idle, Ended, Waterfall
  <2>2. job' \in [Jobs -> [Names -> Waterfall]]
    BY <1>7, <2>1 DEF Exit
  <2>3. Held \subseteq Requests
    BY HeldMember DEF TypeOK, Waterfall
  <2>4. pc' \in [Requests -> {"idle", "select", "done"}]
    BY <1>7 DEF Exit
  <2> QED
    BY <1>7, <2>2, <2>3, <2>4 DEF Exit, TypeOK
<1>8. ASSUME NEW r \in Requests, SelectNext(r) PROVE TypeOK'
  BY <1>7, <1>8 DEF SelectNext, TypeOK, history
<1>9. CASE UNCHANGED vars
  BY <1>9 DEF TypeOK, vars, history
<1> QED
  BY <1>1, <1>2, <1>3, <1>4, <1>5, <1>6, <1>7, <1>8, <1>9 DEF Next, Crash, Quiet

LEMMA IncrIInv ==
  ASSUME IInv, TypeOK', NEW r \in Requests, NEW n \in Names, Incr(r, n)
  PROVE  IInv'
<1> USE DEF IInv
<1>1. job' = job /\ Reported' = Reported /\ spoilt' = spoilt /\ kept' = kept
  BY DEF Incr, Counted, Reported, history
<1>2. r \notin counted /\ pc[r] = "idle"
  BY DEF Incr, CountedApart
<1>3. /\ counter' \in [Names -> SUBSET Requests]
      /\ \A m \in Names : m # n => counter'[m] = counter[m]
      /\ counter'[n] \in {counter[n], counter[n] \cup {r}}
      /\ \/ counter' = counter /\ counted' = counted /\ late' = late
         \/ /\ counter'[n] = counter[n] \cup {r}
            /\ counted' = counted \cup {r}
            /\ late \subseteq late'
            /\ \A j \in Jobs : job[j][n].pc = "del" => r \in late'
      /\ \A q \in Requests : pc[q] # "idle" => pc'[q] # "idle"
      /\ pc'[r] # "idle"
  BY DEF Incr, Counted, TypeOK, history
<1>4. OneAtRedis'
  BY <1>1 DEF OneAtRedis, AtRedis
<1>5. CountedApart'
  BY <1>2, <1>3 DEF CountedApart, TypeOK
<1>6. Window'
  BY <1>1, <1>3 DEF Window
<1>7. HeldApart' /\ CounterApart'
  <2>1. r \notin Reported /\ \A j \in Jobs, m \in Names : job[j][m].pc = "insert" => r \notin job[j][m].number
    BY <1>2 DEF ReportedOnce, HeldApart
  <2>2. HeldApart'
    BY <1>1, <1>3, <2>1 DEF HeldApart
  <2> QED
    BY <1>1, <1>3, <2>1, <2>2 DEF CounterApart
<1>8. ReportedOnce'
  <2>1. table' = table /\ counted \subseteq counted'
    BY <1>3 DEF Incr
  <2> QED
    BY <1>1, <2>1 DEF ReportedOnce
<1>9. LossExplained'
  <2>1. \A x \in counted : Kept1(x)
    BY LossPointwise
  <2>2. \A x \in counted' : Kept1(x)'
    BY <1>1, <1>3, <2>1 DEF Kept1
  <2> QED
    BY <2>2, LossNext
<1> QED
  BY <1>4, <1>5, <1>6, <1>7, <1>8, <1>9

LEMMA GetIInv ==
  ASSUME IInv, TypeOK', NEW j \in Jobs, NEW n \in Names, Get(j, n)
  PROVE  IInv'
<1> USE DEF IInv
<1>1. PICK number \in SUBSET Requests :
        /\ Move(j, n, "del", number)
        /\ number \subseteq counter[n]
        /\ counter[n] \subseteq number \cup spoilt'
  <2>1. counter[n] \in SUBSET Requests /\ {} \in SUBSET Requests
    BY DEF TypeOK
  <2> QED
    BY <2>1 DEF Get
<1>2. /\ job[j][n].pc = "get"
      /\ counter' = counter /\ counted' = counted /\ late' = late /\ kept' = kept
      /\ pc' = pc /\ table' = table /\ Reported' = Reported /\ spoilt \subseteq spoilt'
  BY DEF Get, Reported, history
<1>4. /\ job'[j][n].pc = "del" /\ job'[j][n].number = number
      /\ \A k \in Jobs, m \in Names : k # j \/ m # n => job'[k][m] = job[k][m]
  BY <1>1, MoveFrame
<1>5. OneAtRedis'
  <2>1. AtRedis(j) /\ \A k \in Jobs : AtRedis(k)' => AtRedis(k)
    BY <1>2, <1>4 DEF AtRedis
  <2> QED
    BY <2>1 DEF OneAtRedis
<1>6. CountedApart' /\ CounterApart' /\ ReportedOnce'
  BY <1>2 DEF CountedApart, CounterApart, ReportedOnce
<1>7. Window'
  BY <1>1, <1>2, <1>4 DEF Window
<1>8. HeldApart'
  BY <1>2, <1>4 DEF HeldApart
<1>9. LossExplained'
  <2>1. \A x \in counted : Kept1(x)
    BY LossPointwise
  <2>2. (\A x \in counted : Kept1(x))'
    BY <1>2, <1>4, <2>1 DEF Kept1
  <2> QED
    BY <2>2, LossNext
<1> QED
  BY <1>5, <1>6, <1>7, <1>8, <1>9

LEMMA DelIInv ==
  ASSUME IInv, TypeOK', NEW j \in Jobs, NEW n \in Names, Del(j, n)
  PROVE  IInv'
<1> USE DEF IInv
<1> DEFINE number == job[j][n].number
<1>1. /\ job[j][n].pc = "del"
      /\ counted' = counted /\ late' = late /\ spoilt' = spoilt
      /\ pc' = pc /\ table' = table /\ Reported' = Reported /\ kept \subseteq kept'
      /\ number \subseteq counter[n] /\ counter[n] \subseteq number \cup late \cup spoilt
  BY DEF Del, Reported, Window
<1>2. /\ job'[j][n].pc = "insert" /\ job'[j][n].number = number
      /\ \A k \in Jobs, m \in Names : k # j \/ m # n => job'[k][m] = job[k][m]
  BY NumberType, MoveFrame DEF Del
<1>3. /\ \A m \in Names : m # n => counter'[m] = counter[m]
      /\ \A m \in Names : counter'[m] \subseteq counter[m]
      /\ counter'[n] = {} \/ (counter' = counter /\ number \subseteq kept')
  <2>1. CASE counter' = [counter EXCEPT ![n] = {}]
    BY <2>1 DEF TypeOK
  <2>2. CASE counter' = counter /\ kept' = kept \cup number
    BY <2>2
  <2> QED
    BY <2>1, <2>2 DEF Del
<1> HIDE DEF number
<1>4. OneAtRedis'
  <2>1. \A k \in Jobs : AtRedis(k)' => AtRedis(k)
    BY <1>2, <1>1 DEF AtRedis
  <2> QED
    BY <2>1 DEF OneAtRedis
<1>5. CountedApart' /\ CounterApart' /\ ReportedOnce'
  BY <1>1, <1>3 DEF CountedApart, CounterApart, ReportedOnce
<1>6. Window'
  <2> SUFFICES ASSUME NEW k \in Jobs, NEW m \in Names, job'[k][m].pc = "del"
               PROVE  /\ job'[k][m].number \subseteq counter'[m]
                      /\ counter'[m] \subseteq job'[k][m].number \cup late' \cup spoilt'
    BY DEF Window
  <2>1. AtRedis(j) /\ (k # j \/ m # n)
    BY <1>1, <1>2 DEF AtRedis
  <2>2. job'[k][m] = job[k][m] /\ AtRedis(k)
    BY <1>2, <2>1 DEF AtRedis
  <2>3. m # n
    BY <2>1, <2>2 DEF OneAtRedis
  <2> QED
    BY <1>1, <1>3, <2>2, <2>3 DEF Window
<1>7. HeldApart'
  <2>1. number \subseteq counted' /\ number \cap Reported' \subseteq kept'
    BY <1>1 DEF CountedApart, CounterApart
  <2>2. \A m \in Names : number \cap counter'[m] \subseteq kept'
    BY <1>1, <1>3 DEF CountedApart
  <2>3. \A k \in Jobs, m \in Names :
          job[k][m].pc = "insert" => job[k][m].number \cap number \subseteq kept'
    BY <1>1 DEF HeldApart
  <2>4. \A k \in Jobs, m \in Names : job[k][m].pc = "insert" =>
          /\ job[k][m].number \subseteq counted'
          /\ job[k][m].number \cap Reported' \subseteq kept'
          /\ \A p \in Names : job[k][m].number \cap counter'[p] \subseteq kept'
    BY <1>1, <1>3 DEF HeldApart
  <2>5. \A k, l \in Jobs, m, p \in Names :
          job[k][m].pc = "insert" /\ job[l][p].pc = "insert" /\ (k # l \/ m # p)
            => job[k][m].number \cap job[l][p].number \subseteq kept'
    BY <1>1 DEF HeldApart
  <2>6. \A k \in Jobs, m \in Names : job'[k][m].pc = "insert" =>
          \/ k = j /\ m = n /\ job'[k][m].number = number
          \/ (k # j \/ m # n) /\ job[k][m].pc = "insert" /\ job'[k][m].number = job[k][m].number
    BY <1>2
  <2> QED
    BY <2>1, <2>2, <2>3, <2>4, <2>5, <2>6 DEF HeldApart
<1>8. LossExplained'
  <2>1. \A x \in counted : Kept1(x)
    BY LossPointwise
  <2>2. (\A x \in counted : Kept1(x))'
    <3> SUFFICES ASSUME NEW x \in counted PROVE Kept1(x)'
      BY <1>1
    <3>1. CASE x \in counter[n]
      BY <1>1, <1>2, <3>1 DEF Kept1
    <3>2. CASE \E m \in Names : m # n /\ x \in counter[m]
      BY <1>3, <3>2 DEF Kept1
    <3>3. CASE \E k \in Jobs, m \in Names : job[k][m].pc = "insert" /\ x \in job[k][m].number
      BY <1>1, <1>2, <3>3 DEF Kept1
    <3>4. CASE x \in Reported \/ x \in late \/ x \in spoilt
      BY <1>1, <3>4 DEF Kept1
    <3> QED
      BY <2>1, <3>1, <3>2, <3>3, <3>4 DEF Kept1
  <2> QED
    BY <2>2, LossNext
<1> QED
  BY <1>4, <1>5, <1>6, <1>7, <1>8

LEMMA InsertIInv ==
  ASSUME IInv, TypeOK', NEW j \in Jobs, NEW n \in Names, Insert(j, n)
  PROVE  IInv'
<1> USE DEF IInv
<1> DEFINE number == job[j][n].number
<1>1. /\ job[j][n].pc = "insert"
      /\ pc' = pc /\ counter' = counter /\ counted' = counted /\ late' = late /\ kept' = kept
      /\ spoilt \subseteq spoilt'
  BY DEF Insert, history
<1>2. /\ job'[j][n].pc = "end"
      /\ \A k \in Jobs, m \in Names : k # j \/ m # n => job'[k][m] = job[k][m]
  <2>1. {} \in SUBSET Requests
    OBVIOUS
  <2> QED
    BY <2>1, MoveFrame DEF Insert
<1>3. /\ number \subseteq counted /\ number \cap Reported \subseteq kept
      /\ \A m \in Names : number \cap counter[m] \subseteq kept
      /\ \A k \in Jobs, m \in Names : job[k][m].pc = "insert" /\ (k # j \/ m # n)
           => number \cap job[k][m].number \subseteq kept
  BY <1>1 DEF HeldApart
<1>4. \/ table' = table /\ Reported' = Reported /\ number \subseteq spoilt'
      \/ \E row : row.number = number /\ table' = table \cup {row} /\ Reported' = Reported \cup number
  <2>1. CASE table' = table /\ spoilt' = spoilt \cup number
    BY <2>1 DEF Reported
  <2>2. CASE table' = table \cup {[job |-> j, name |-> n, number |-> number]}
    <3> DEFINE row == [job |-> j, name |-> n, number |-> number]
    <3>1. row.number = number /\ table' = table \cup {row}
      BY <2>2
    <3> HIDE DEF row, number
    <3>2. Reported' = Reported \cup number
      BY <3>1 DEF Reported
    <3> QED
      BY <3>1, <3>2
  <2> QED
    BY <2>1, <2>2 DEF Insert
<1> HIDE DEF number
<1>5. OneAtRedis'
  <2>1. \A k \in Jobs : AtRedis(k)' => AtRedis(k)
    BY <1>2 DEF AtRedis
  <2> QED
    BY <2>1 DEF OneAtRedis
<1>6. CountedApart'
  BY <1>1 DEF CountedApart
<1>7. Window'
  BY <1>1, <1>2 DEF Window
<1>8. \A k \in Jobs, m \in Names : job'[k][m].pc = "insert" =>
         job[k][m].pc = "insert" /\ job'[k][m] = job[k][m] /\ (k # j \/ m # n)
  BY <1>2
<1>9. \A k \in Jobs, m \in Names : job'[k][m].pc = "insert" =>
         job'[k][m].number \cap Reported' \subseteq kept
  BY <1>3, <1>4, <1>8 DEF HeldApart
<1>10. HeldApart'
  BY <1>1, <1>8, <1>9 DEF HeldApart
<1>11. CounterApart'
  BY <1>1, <1>3, <1>4 DEF CounterApart
<1>12. ReportedOnce'
  <2>1. Reported' \subseteq counted'
    BY <1>1, <1>3, <1>4 DEF ReportedOnce
  <2>2. \A row \in table : row.number \subseteq Reported
    BY DEF Reported
  <2> QED
    BY <1>1, <1>3, <1>4, <2>1, <2>2 DEF ReportedOnce
<1>13. LossExplained'
  <2>1. \A x \in counted : Kept1(x)
    BY LossPointwise
  <2>2. \A x \in number : x \in Reported' \/ x \in spoilt'
    BY <1>4
  <2>3. Reported \subseteq Reported'
    BY <1>4
  <2>4. (\A x \in counted : Kept1(x))'
    <3> SUFFICES ASSUME NEW x \in counted PROVE Kept1(x)'
      BY <1>1
    <3>1. CASE x \in number
      BY <2>2, <3>1 DEF Kept1
    <3>2. CASE \E k \in Jobs, m \in Names : job[k][m].pc = "insert" /\ x \in job[k][m].number /\ x \notin number
      BY <1>2, <3>2 DEF Kept1, number
    <3>3. CASE (\E m \in Names : x \in counter[m]) \/ x \in Reported \/ x \in late \/ x \in spoilt
      BY <1>1, <2>3, <3>3 DEF Kept1
    <3> QED
      BY <2>1, <3>1, <3>2, <3>3 DEF Kept1
  <2> QED
    BY <2>4, LossNext
<1> QED
  BY <1>5, <1>6, <1>7, <1>10, <1>11, <1>12, <1>13

LEMMA StartIInv ==
  ASSUME IInv, TypeOK', NEW j \in Jobs, StartJob(j)
  PROVE  IInv'
<1> USE DEF IInv
<1>1. UNCHANGED <<pc, counter, table, counted, late, spoilt, kept>> /\ Reported' = Reported
  BY DEF StartJob, history, Reported
<1>2. /\ \A n \in Names : job[j][n].pc = "idle" /\ job'[j][n].pc = "get"
      /\ \A k \in Jobs, n \in Names : k # j => job'[k][n] = job[k][n]
      /\ \A k \in Jobs : ~ AtRedis(k)
  BY DEF StartJob, TypeOK, Idle
<1>3. OneAtRedis'
  BY <1>2 DEF OneAtRedis, AtRedis
<1>4. Window' /\ HeldApart'
  BY <1>1, <1>2 DEF Window, HeldApart
<1>5. CountedApart' /\ CounterApart' /\ ReportedOnce'
  BY <1>1 DEF CountedApart, CounterApart, ReportedOnce, StartJob
<1>6. LossExplained'
  <2>1. \A x \in counted : Kept1(x)
    BY LossPointwise
  <2>2. (\A x \in counted : Kept1(x))'
    BY <1>1, <1>2, <2>1 DEF Kept1
  <2> QED
    BY <2>2, LossNext
<1> QED
  BY <1>3, <1>4, <1>5, <1>6

LEMMA ExitIInv ==
  ASSUME IInv, TypeOK', Exit
  PROVE  IInv'
<1> USE DEF IInv
<1>1. /\ UNCHANGED <<counter, table, counted, late, kept>> /\ Reported' = Reported
      /\ spoilt' = spoilt \cup Held
      /\ \A r \in Requests : pc[r] # "idle" => pc'[r] # "idle"
  BY DEF Exit, Reported
<1>2. \A j \in Jobs, n \in Names : job'[j][n].pc \in {"idle", "end"}
  BY DEF Exit, Idle, Ended
<1>3. OneAtRedis' /\ Window' /\ HeldApart'
  BY <1>2 DEF OneAtRedis, AtRedis, Window, HeldApart
<1>4. CountedApart' /\ CounterApart' /\ ReportedOnce'
  BY <1>1 DEF CountedApart, CounterApart, ReportedOnce, TypeOK
<1>5. LossExplained'
  <2>1. \A x \in counted : Kept1(x)
    BY LossPointwise
  <2>2. (\A x \in counted : Kept1(x))'
    BY <1>1, <2>1, HeldMember DEF Kept1
  <2> QED
    BY <2>2, LossNext
<1> QED
  BY <1>3, <1>4, <1>5

\* Only the place of requests that were sent changes.
LEMMA PcIInv ==
  ASSUME IInv, TypeOK', UNCHANGED <<counter, job, table, history>>,
         \A r \in Requests : pc[r] # "idle" => pc'[r] # "idle"
  PROVE  IInv'
<1> USE DEF IInv, history
<1>1. Reported' = Reported
  BY DEF Reported
<1>2. OneAtRedis' /\ Window' /\ HeldApart'
  BY <1>1 DEF OneAtRedis, AtRedis, Window, HeldApart
<1>3. CountedApart' /\ CounterApart' /\ ReportedOnce'
  BY <1>1 DEF CountedApart, CounterApart, ReportedOnce, TypeOK
<1>4. LossExplained'
  <2>1. \A x \in counted : Kept1(x)
    BY LossPointwise
  <2>2. (\A x \in counted : Kept1(x))'
    BY <1>1, <2>1 DEF Kept1
  <2> QED
    BY <2>2, LossNext
<1> QED
  BY <1>2, <1>3, <1>4

LEMMA NextIInv == IInv /\ [Next]_vars => IInv'
<1> SUFFICES ASSUME IInv, [Next]_vars PROVE IInv'
  OBVIOUS
<1>1. TypeOK'
  BY TypeStep DEF IInv
<1>2. ASSUME NEW r \in Requests, NEW n \in Names, Incr(r, n) PROVE IInv'
  BY <1>1, <1>2, IncrIInv
<1>3. ASSUME NEW r \in Requests, Select(r) PROVE IInv'
  BY <1>1, <1>3, PcIInv DEF Select, IInv, TypeOK
<1>4. ASSUME NEW r \in Requests, SelectNext(r) PROVE IInv'
  BY <1>1, <1>4, PcIInv, ExitIInv DEF SelectNext, IInv, TypeOK
<1>5. ASSUME NEW j \in Jobs, StartJob(j) PROVE IInv'
  BY <1>1, <1>5, StartIInv
<1>6. ASSUME NEW j \in Jobs, NEW n \in Names, Get(j, n) PROVE IInv'
  BY <1>1, <1>6, GetIInv
<1>7. ASSUME NEW j \in Jobs, NEW n \in Names, Del(j, n) PROVE IInv'
  BY <1>1, <1>7, DelIInv
<1>8. ASSUME NEW j \in Jobs, NEW n \in Names, Insert(j, n) PROVE IInv'
  BY <1>1, <1>8, InsertIInv
<1>9. ASSUME Crash PROVE IInv'
  BY <1>1, <1>9, ExitIInv DEF Crash
<1>10. CASE UNCHANGED vars
  BY <1>1, <1>10, PcIInv DEF vars
<1> QED
  BY <1>2, <1>3, <1>4, <1>5, <1>6, <1>7, <1>8, <1>9, <1>10 DEF Next, Quiet

-----------------------------------------------------------------------------
(* The theorems.                                                            *)

\* The strengthening holds in every state of the statistics.
THEOREM Strengthened == Spec => []IInv
<1> QED
  BY InitIInv, NextIInv, PTL DEF Spec

\* Every variable keeps its type: a number is always a number, also of a
\* counter that does not exist.
THEOREM TypeCorrect == Spec => []TypeOK
<1>1. IInv => TypeOK
  BY DEF IInv
<1> QED
  BY <1>1, Strengthened, PTL

\* The rows of stats hold only what Redis counted, and hold it once unless a
\* DEL failed.
THEOREM NothingReportedTwice == Spec => []ReportedOnce
<1>1. IInv => ReportedOnce
  BY DEF IInv
<1> QED
  BY <1>1, Strengthened, PTL

\* An increment that is nowhere was late, or lost by an error or an exit.
THEOREM NothingElseIsLost == Spec => []LossExplained
<1>1. IInv => LossExplained
  BY DEF IInv
<1> QED
  BY <1>1, Strengthened, PTL

=============================================================================
