------------------------- MODULE ListScreenProofs -------------------------
(***************************************************************************)
(* For every set of names, objects and threads: the listeners count the     *)
(* rows that move, the positions that are kept mean the rows they were kept *)
(* for, and the screen agrees with the account once nothing is under way.   *)
(***************************************************************************)
EXTENDS ListScreen, SequenceTheorems, FiniteSetTheorems, WellFoundedInduction, TLAPS

Rows == Objects \cup {Vacant}

\* The names an account may have.
Clean == {Stored[n] : n \in Names}

USE DEF Changing

----------------------------------------------------------------------------
(* Sequences and sets.                                                      *)

(* A set of numbers that is not empty has a least one.                      *)
LEMMA LeastExists ==
  ASSUME NEW T \in SUBSET Nat, T # {}
  PROVE  \E d \in T : \A c \in T : d <= c
<1> DEFINE R == OpToRel(<, Nat)
<1>1. IsWellFoundedOn(R, Nat)
  BY NatLessThanWellFounded
<1>2. \A x, y \in Nat : x < y => <<x, y>> \in R
  BY DEF OpToRel
<1> HIDE DEF R
<1>3. PICK d \in T : \A c \in T : ~ (<<c, d>> \in R)
  BY <1>1, WFMin
<1>4. ASSUME NEW c \in T PROVE d <= c
  <2>1. ~ (<<c, d>> \in R) /\ c \in Nat /\ d \in Nat
    BY <1>3
  <2>2. ~ (c < d)
    BY <1>2, <2>1
  <2> QED
    BY <2>1, <2>2
<1> QED
  BY <1>4

(* The elements of a sequence, and whether it has any.                      *)
LEMMA SeqElements ==
  ASSUME NEW S, NEW s \in Seq(S)
  PROVE  /\ Len(s) \in Nat /\ DOMAIN s = 1 .. Len(s) /\ ToSet(s) \subseteq S
         /\ \A i \in DOMAIN s : s[i] \in ToSet(s)
         /\ \A e \in ToSet(s) : \E i \in DOMAIN s : s[i] = e
         /\ (s = <<>>) <=> (ToSet(s) = {})
<1>1. /\ Len(s) \in Nat /\ DOMAIN s = 1 .. Len(s)
      /\ \A i \in DOMAIN s : s[i] \in S
      /\ s # <<>> => Len(s) \in Nat \ {0}
  BY EmptySeq
<1>2. \A e : e \in ToSet(s) <=> \E i \in DOMAIN s : s[i] = e
  BY Zenon DEF ToSet
<1>3. s # <<>> => s[1] \in ToSet(s)
  BY <1>1, <1>2
<1>4. s = <<>> => ToSet(s) = {}
  BY <1>1, <1>2
<1>5. ToSet(s) \subseteq S
  BY <1>1, <1>2
<1>6. \A i \in DOMAIN s : s[i] \in ToSet(s)
  BY <1>2
<1> QED
  BY <1>1, <1>2, <1>3, <1>4, <1>5, <1>6

(* RemoveFirst takes the first of its kind, and the rest moves up.          *)
LEMMA FirstRemoved ==
  ASSUME NEW S, NEW s \in Seq(S), NEW e, e \in ToSet(s)
  PROVE  \E i \in DOMAIN s :
           /\ s[i] = e /\ \A j \in DOMAIN s : s[j] = e => i <= j
           /\ RemoveFirst(s, e) \in Seq(S)
           /\ Len(RemoveFirst(s, e)) = Len(s) - 1
           /\ \A j \in 1 .. Len(s) - 1 : RemoveFirst(s, e)[j] = IF j < i THEN s[j] ELSE s[j + 1]
<1> DEFINE I == {i \in 1 .. Len(s) : s[i] = e}
<1>1. I # {} /\ I \in SUBSET Nat /\ \E i \in 1 .. Len(s) : s[i] = e
  BY SeqElements
<1>2. PICK d \in I : \A c \in I : d <= c
  <2> HIDE DEF I
  <2> QED
    BY <1>1, LeastExists
<1>3. Min(I) = d
  <2>1. Min(I) \in I /\ \A c \in I : Min(I) <= c
    BY <1>2 DEF Min
  <2> QED
    BY <1>2, <2>1
<1>4. RemoveFirst(s, e) = SubSeq(s, 1, d - 1) \o SubSeq(s, d + 1, Len(s))
  BY <1>1, <1>3 DEF RemoveFirst, RemoveAt, SelectInSeq
<1>5. /\ SubSeq(s, 1, d - 1) \in Seq(S) /\ Len(SubSeq(s, 1, d - 1)) = d - 1
      /\ \A i \in 1 .. d - 1 : SubSeq(s, 1, d - 1)[i] = s[i]
  BY SubSeqProperties
<1>6. /\ SubSeq(s, d + 1, Len(s)) \in Seq(S) /\ Len(SubSeq(s, d + 1, Len(s))) = Len(s) - d
      /\ \A i \in 1 .. Len(s) - d : SubSeq(s, d + 1, Len(s))[i] = s[d + i]
  BY SubSeqProperties
<1>7. /\ RemoveFirst(s, e) \in Seq(S) /\ Len(RemoveFirst(s, e)) = Len(s) - 1
      /\ \A j \in 1 .. Len(s) - 1 : RemoveFirst(s, e)[j] = IF j < d THEN s[j] ELSE s[j + 1]
  <2> DEFINE p == SubSeq(s, 1, d - 1)
             q == SubSeq(s, d + 1, Len(s))
  <2>1. /\ p \in Seq(S) /\ Len(p) = d - 1 /\ \A i \in 1 .. d - 1 : p[i] = s[i]
        /\ q \in Seq(S) /\ Len(q) = Len(s) - d /\ \A i \in 1 .. Len(s) - d : q[i] = s[d + i]
        /\ RemoveFirst(s, e) = p \o q
    BY <1>4, <1>5, <1>6
  <2> HIDE DEF p, q
  <2>2. /\ p \o q \in Seq(S) /\ Len(p \o q) = Len(p) + Len(q)
        /\ \A i \in 1 .. Len(p) + Len(q) :
             (p \o q)[i] = IF i <= Len(p) THEN p[i] ELSE q[i - Len(p)]
    BY <2>1, ConcatProperties
  <2> QED
    BY <2>1, <2>2
<1> QED
  BY <1>2, <1>7

(* What RemoveFirst does to any sequence.                                   *)
LEMMA RemovedFrom ==
  ASSUME NEW S, NEW s \in Seq(S), NEW e
  PROVE  /\ RemoveFirst(s, e) \in Seq(S)
         /\ e \notin ToSet(s) => RemoveFirst(s, e) = s
         /\ ToSet(s) \ {e} \subseteq ToSet(RemoveFirst(s, e))
         /\ ToSet(RemoveFirst(s, e)) \subseteq ToSet(s)
<1> DEFINE r == RemoveFirst(s, e)
<1>1. CASE e \notin ToSet(s)
  <2>1. ~ \E i \in 1 .. Len(s) : s[i] = e
    BY <1>1, SeqElements
  <2>2. r = s
    BY <2>1 DEF RemoveFirst
  <2> QED
    BY <2>2
<1>2. CASE e \in ToSet(s)
  <2>1. PICK i \in DOMAIN s :
           /\ s[i] = e /\ r \in Seq(S) /\ Len(r) = Len(s) - 1
           /\ \A j \in 1 .. Len(s) - 1 : r[j] = IF j < i THEN s[j] ELSE s[j + 1]
    BY <1>2, FirstRemoved
  <2> HIDE DEF r
  <2>2. ASSUME NEW x \in ToSet(s) \ {e} PROVE x \in ToSet(r)
    <3>1. PICK j \in DOMAIN s : s[j] = x
      BY SeqElements
    <3>2. CASE j < i
      <4>1. j \in DOMAIN r /\ r[j] = x
        BY <2>1, <3>1, <3>2
      <4> QED
        BY <4>1 DEF ToSet
    <3>3. CASE j > i
      <4>1. j - 1 \in DOMAIN r /\ r[j - 1] = x
        BY <2>1, <3>1, <3>3
      <4> QED
        BY <4>1 DEF ToSet
    <3> QED
      BY <2>1, <3>1, <3>2, <3>3
  <2>3. ASSUME NEW x \in ToSet(r) PROVE x \in ToSet(s)
    <3>1. PICK j \in DOMAIN r : r[j] = x
      BY <2>1, SeqElements
    <3>2. j \in 1 .. Len(s) - 1 /\ j \in DOMAIN s /\ j + 1 \in DOMAIN s
      BY <2>1, <3>1
    <3> QED
      BY <2>1, <3>1, <3>2 DEF ToSet
  <2> QED
    BY <1>2, <2>1, <2>2, <2>3 DEF r
<1> QED
  BY <1>1, <1>2

(* Of rows that are all different exactly the one goes, those above it stay  *)
(* where they are, and no other row comes up to above where it was.         *)
LEMMA RemovedOnce ==
  ASSUME NEW S, NEW s \in Seq(S), NEW e, IsInjective(s)
  PROVE  /\ IsInjective(RemoveFirst(s, e))
         /\ ToSet(RemoveFirst(s, e)) = ToSet(s) \ {e}
         /\ \A k \in DOMAIN s : (\A i \in DOMAIN s : s[i] = e => k < i) =>
              k \in DOMAIN RemoveFirst(s, e) /\ RemoveFirst(s, e)[k] = s[k]
         /\ \A k \in DOMAIN RemoveFirst(s, e) :
              \/ k \in DOMAIN s /\ RemoveFirst(s, e)[k] = s[k]
              \/ \E i \in DOMAIN s : s[i] = e /\ i <= k
<1> DEFINE r == RemoveFirst(s, e)
<1>1. CASE e \notin ToSet(s)
  <2>1. r = s
    BY <1>1, RemovedFrom
  <2> QED
    BY <1>1, <2>1
<1>2. CASE e \in ToSet(s)
  <2>1. PICK i \in DOMAIN s :
           /\ s[i] = e /\ r \in Seq(S) /\ Len(r) = Len(s) - 1
           /\ \A j \in 1 .. Len(s) - 1 : r[j] = IF j < i THEN s[j] ELSE s[j + 1]
    BY <1>2, FirstRemoved
  <2>2. ToSet(s) \ {e} \subseteq ToSet(r) /\ ToSet(r) \subseteq ToSet(s)
    BY RemovedFrom
  <2> HIDE DEF r
  <2>3. ASSUME NEW k \in DOMAIN r
        PROVE  /\ k \in 1 .. Len(s) - 1 /\ k \in DOMAIN s /\ k + 1 \in DOMAIN s
               /\ r[k] = s[IF k < i THEN k ELSE k + 1]
    BY <2>1
  <2>4. IsInjective(r)
    <3> SUFFICES ASSUME NEW a \in DOMAIN r, NEW b \in DOMAIN r, r[a] = r[b] PROVE a = b
      BY DEF IsInjective
    <3>1. (IF a < i THEN a ELSE a + 1) = (IF b < i THEN b ELSE b + 1)
      BY <2>3 DEF IsInjective
    <3> QED
      BY <2>3, <3>1
  <2>5. e \notin ToSet(r)
    <3> SUFFICES ASSUME NEW k \in DOMAIN r, r[k] = e PROVE FALSE
      BY DEF ToSet
    <3>1. (IF k < i THEN k ELSE k + 1) = i
      BY <2>1, <2>3 DEF IsInjective
    <3> QED
      BY <2>3, <3>1
  <2>6. ASSUME NEW k \in DOMAIN s, \A j \in DOMAIN s : s[j] = e => k < j
        PROVE  k \in DOMAIN r /\ r[k] = s[k]
    <3>1. k < i
      BY <2>1, <2>6
    <3> QED
      BY <2>1, <3>1
  <2>7. ASSUME NEW k \in DOMAIN r PROVE (k \in DOMAIN s /\ r[k] = s[k]) \/ i <= k
    BY <2>3
  <2> QED
    BY <2>1, <2>2, <2>4, <2>5, <2>6, <2>7 DEF r
<1> QED
  BY <1>1, <1>2

(* Append adds one element, at the end.                                     *)
LEMMA Appended ==
  ASSUME NEW S, NEW s \in Seq(S), NEW e \in S
  PROVE  /\ Append(s, e) \in Seq(S) /\ ToSet(Append(s, e)) = ToSet(s) \cup {e}
         /\ \A i \in DOMAIN s : i \in DOMAIN Append(s, e) /\ Append(s, e)[i] = s[i]
         /\ \A i \in DOMAIN Append(s, e) :
              (i \in DOMAIN s /\ Append(s, e)[i] = s[i]) \/ (i = Len(s) + 1 /\ Append(s, e)[i] = e)
         /\ IsInjective(s) /\ e \notin ToSet(s) => IsInjective(Append(s, e))
<1> DEFINE a == Append(s, e)
<1>1. /\ a \in Seq(S) /\ Len(a) = Len(s) + 1 /\ a[Len(s) + 1] = e
      /\ \A i \in 1 .. Len(s) : a[i] = s[i]
  BY AppendProperties
<1> HIDE DEF a
<1>2. DOMAIN a = 1 .. Len(s) + 1 /\ DOMAIN s = 1 .. Len(s) /\ Len(s) \in Nat
  BY <1>1
<1>3. ToSet(a) = ToSet(s) \cup {e}
  <2>1. ASSUME NEW x \in ToSet(a) PROVE x \in ToSet(s) \cup {e}
    BY <1>1, <1>2 DEF ToSet
  <2>2. ASSUME NEW x \in ToSet(s) PROVE x \in ToSet(a)
    BY <1>1, <1>2 DEF ToSet
  <2>3. e \in ToSet(a)
    BY <1>1, <1>2 DEF ToSet
  <2> QED
    BY <2>1, <2>2, <2>3
<1>4. ASSUME IsInjective(s), e \notin ToSet(s) PROVE IsInjective(a)
  BY <1>1, <1>2, <1>4 DEF IsInjective, ToSet
<1> QED
  BY <1>1, <1>2, <1>3, <1>4 DEF a

----------------------------------------------------------------------------
(* The invariants.                                                          *)

\* What a thread may be at, and what it has with it.
Shape(t, x) ==
  /\ x.pc = "free" \/ x.op = "none" => x = Free
  /\ x.ok => x.pc \in {"served"} \cup Changing
  /\ x.pc \in Changing => x.ok /\ x.op \in {"load", "add", "delete"}
  /\ x.pc = "empty" => x.op = "delete"
  /\ x.pc = "dialog" => x.op \in {"delete", "rename"}
  /\ x.op = "load" => t = Loader /\ x.pc \notin {"removed", "empty"}
  /\ t = Loader => x.op \in {"none", "load"}
  /\ t = Ui => x.op \in {"none", "delete"} /\ x.pc # "dialog"
  /\ x.row # None <=> x.op \in {"delete", "rename"}
  /\ x.op \in {"add", "rename"} => x.name \in Names
  /\ x.op = "rename" => x.pos # 0

Running == \A t \in Threads : Shape(t, ops[t])

\* The parts of TypeOK: the account and the screen, and what fingers do.
ScreenTyped ==
  /\ table \in Accounts
  /\ alive \in BOOLEAN /\ shown \in BOOLEAN /\ loaded \in BOOLEAN
  /\ armed \subseteq {"click", "touch"}
  /\ rows \in Seq(Rows)
  /\ label \in [Rows -> Names \cup {None}]
  /\ cause \subseteq {"early", "twice", "lost", "shifted", "raced"}

Moving(u) == {s \in swipes : s.by = u /\ s.phase = "moving"}

FingersTyped ==
  /\ refs \in [Listeners -> Nat]
  /\ swipes \subseteq Gesture
  /\ batch \in Seq(Kept)
  /\ \A u \in Listeners : refs[u] = Cardinality(Moving(u))

\* No row is swiped twice.
Touched ==
  /\ IsFiniteSet(swipes)
  /\ \A s, u \in swipes : s.row = u.row => s = u

\* Before getLists has filled the rows there is no row to touch but those that were
\* added, and after that it only sets the listeners; and nothing happens in an
\* application that has ended.
Opened ==
  /\ ops[Loader] = Free \/ (loaded <=> ops[Loader].pc \in Changing)
  /\ ~ loaded => /\ Vacant \notin ToSet(rows) /\ swipes = {} /\ batch = <<>>
                 /\ ops[Ui] = Free /\ \A w \in Workers : ops[w].op \in {"none", "add"}
  /\ ~ alive => /\ swipes = {} /\ batch = <<>> /\ \A t \in Threads : ops[t] = Free

WellTyped == ScreenTyped /\ ops \in [Threads -> OpState] /\ FingersTyped
Shaped == WellTyped /\ Running /\ Touched /\ Opened

(* TypeOK is the conjunction of its parts.                                  *)
LEMMA TypedIs == TypeOK <=> WellTyped
  BY DEF TypeOK, WellTyped, ScreenTyped, FingersTyped, Moving, Rows

----------------------------------------------------------------------------
(* The listeners.                                                           *)

(* There is always a listener without a row that moves, and a first one: no  *)
(* two rows that move are the same row.                                     *)
LEMMA FreeListener ==
  ASSUME FingersTyped, Touched
  PROVE  \E u \in Listeners : refs[u] = 0 /\ \A v \in 0 .. u - 1 : refs[v] > 0
<1> DEFINE M == {s \in swipes : s.phase = "moving"}
           T == {u \in Listeners : refs[u] = 0}
<1>1. Cardinality(Objects) \in Nat /\ IsFiniteSet(Rows) /\ Cardinality(Rows) = Cardinality(Objects) + 1
  BY SizesAssumption, OthersAssumption, FS_CardinalityType, FS_AddElement DEF Rows
<1>2. IsFiniteSet(Listeners) /\ Cardinality(Listeners) = Cardinality(Objects) + 2
  BY <1>1, FS_Interval DEF Listeners
<1>3. IsFiniteSet(M) /\ Cardinality(M) \in Nat /\ Cardinality(M) <= Cardinality(Rows)
  <2> DEFINE g == [s \in M |-> s.row]
  <2>1. \A s \in M : s.row \in Rows
    BY DEF FingersTyped, Gesture, Rows
  <2>2. g \in [M -> Rows]
    BY <2>1
  <2>3. IsInjective(g)
    BY DEF IsInjective, Touched
  <2>4. g \in Injection(M, Rows)
    BY <2>2, <2>3 DEF Injection
  <2> HIDE DEF g, M
  <2> QED
    BY <1>1, <2>4, FS_Injection, FS_CardinalityType
<1>4. ASSUME \A u \in Listeners : refs[u] # 0 PROVE FALSE
  <2> DEFINE f == [s \in M |-> s.by]
  <2>1. \A s \in M : s.by \in Listeners
    BY DEF FingersTyped, Gesture
  <2>2. ASSUME NEW u \in Listeners PROVE \E s \in M : s.by = u
    <3>1. Moving(u) # {}
      BY <1>4, FS_EmptySet DEF FingersTyped
    <3> QED
      BY <3>1 DEF Moving
  <2>3. f \in Surjection(M, Listeners)
    BY <2>1, <2>2 DEF Surjection
  <2> HIDE DEF f, M
  <2>4. Cardinality(Listeners) <= Cardinality(M)
    BY <1>3, <2>3, FS_Surjection
  <2> QED
    BY <1>1, <1>2, <1>3, <2>4
<1>5. T \in SUBSET Nat /\ T # {}
  BY <1>1, <1>4 DEF Listeners
<1>6. PICK u \in T : \A v \in T : u <= v
  <2> HIDE DEF T
  <2> QED
    BY <1>5, LeastExists
<1>7. ASSUME NEW v \in 0 .. u - 1 PROVE refs[v] > 0
  <2>1. v \in Listeners /\ v \in Nat /\ ~ (u <= v)
    BY <1>1, <1>6 DEF Listeners
  <2>2. v \notin T
    BY <1>6, <2>1
  <2> QED
    BY <2>1, <2>2 DEF FingersTyped
<1> QED
  BY <1>6, <1>7

(* A new listener takes number 0 and makes room for it: the rows that move    *)
(* stay counted by the listener they move for.                              *)
LEMMA NewListenerTyped ==
  ASSUME FingersTyped, Touched, NewListener, UNCHANGED batch
  PROVE  FingersTyped' /\ Touched' /\ Swiped' \subseteq Swiped
<1> DEFINE free == CHOOSE u \in Listeners : refs[u] = 0 /\ \A v \in 0 .. u - 1 : refs[v] > 0
           h(s) == [s EXCEPT !.by = IF @ < free THEN @ + 1 ELSE @]
           D == {u \in swipes : u.phase # "down"}
<1>1. free \in Listeners /\ refs[free] = 0 /\ \A v \in 0 .. free - 1 : refs[v] > 0
  BY FreeListener
<1>2. /\ swipes' = {h(s) : s \in D}
      /\ refs' = [u \in Listeners |-> IF u = 0 THEN 0
                                      ELSE IF u <= free THEN refs[u - 1] ELSE refs[u]]
  BY DEF NewListener
<1> HIDE DEF free
<1>3. Cardinality(Objects) \in Nat /\ Listeners = 0 .. Cardinality(Objects) + 1
  BY SizesAssumption, FS_CardinalityType DEF Listeners
<1>4. ASSUME NEW s \in D
      PROVE  /\ s \in swipes /\ s \in Gesture /\ h(s) \in Gesture
             /\ h(s).by = IF s.by < free THEN s.by + 1 ELSE s.by
             /\ h(s).row = s.row /\ h(s).pos = s.pos /\ h(s).phase = s.phase
             /\ s.by \in Nat /\ s.phase # "down" /\ (s.by >= free => h(s) = s)
  <2>1. s \in swipes /\ s \in Gesture /\ s.phase # "down" /\ s.by \in Listeners
    BY DEF FingersTyped, Gesture
  <2>2. s.by \in Nat /\ free \in Nat /\ (s.by < free => s.by + 1 \in Listeners)
    BY <1>1, <1>3, <2>1
  <2>3. s = [by |-> s.by, pos |-> s.pos, row |-> s.row, phase |-> s.phase]
    BY <2>1 DEF Gesture
  <2>4. h(s) = [by |-> IF s.by < free THEN s.by + 1 ELSE s.by, pos |-> s.pos, row |-> s.row,
                phase |-> s.phase]
    BY <2>1 DEF Gesture
  <2> HIDE DEF h
  <2>5. h(s).by = IF s.by < free THEN s.by + 1 ELSE s.by
    BY <2>4
  <2>6. h(s).row = s.row /\ h(s).pos = s.pos /\ h(s).phase = s.phase
    BY <2>4
  <2>7. s.by >= free => h(s) = s
    BY <2>2, <2>3, <2>4
  <2>8. h(s) \in Gesture
    BY <2>1, <2>2, <2>4 DEF Gesture
  <2> QED
    BY <2>1, <2>2, <2>5, <2>6, <2>7, <2>8
<1>5. \A x : x \in swipes' <=> \E s \in D : x = h(s)
  BY <1>2
<1> HIDE DEF h, D
<1>6. swipes' \subseteq Gesture
  BY <1>4, <1>5
<1>7. \A x, y \in swipes' : x.row = y.row => x = y
  BY <1>4, <1>5 DEF Touched
<1>8. IsFiniteSet(swipes')
  <2> DEFINE g == [s \in D |-> h(s)]
  <2>1. g \in Surjection(D, swipes')
    BY <1>5 DEF Surjection
  <2>2. IsFiniteSet(D)
    BY FS_Subset DEF D, Touched
  <2> HIDE DEF g
  <2> QED
    BY <2>1, <2>2, FS_Surjection
<1>9. Swiped' \subseteq Swiped
  <2> SUFFICES ASSUME NEW k \in Swiped' PROVE k \in Swiped
    OBVIOUS
  <2>1. PICK x \in swipes' : k = [pos |-> x.pos, row |-> x.row]
    BY DEF Swiped
  <2>2. PICK s \in D : x = h(s)
    BY <1>5
  <2>3. s \in swipes /\ k = [pos |-> s.pos, row |-> s.row]
    BY <1>4, <2>1, <2>2
  <2> QED
    BY <2>3 DEF Swiped
<1>10. refs' \in [Listeners -> Nat]
  <2>1. \A u \in Listeners : u # 0 => u - 1 \in Listeners
    BY <1>3
  <2> QED
    BY <1>1, <1>2, <2>1 DEF FingersTyped
<1>11. ASSUME NEW u \in Listeners PROVE refs'[u] = Cardinality(Moving(u)')
  <2>1. \A x : x \in Moving(u)' <=> \E s \in D : x = h(s) /\ h(s).by = u /\ s.phase = "moving"
    BY <1>4, <1>5 DEF Moving
  <2>2. \A v \in Listeners : refs[v] = 0 => Moving(v) = {}
    <3>1. \A v \in Listeners : IsFiniteSet(Moving(v))
      BY FS_Subset DEF Moving, Touched
    <3> QED
      BY <3>1, FS_EmptySet DEF FingersTyped
  <2>3. \A v \in Listeners : \A s : s \in Moving(v) <=> s \in D /\ s.by = v /\ s.phase = "moving"
    BY DEF Moving, D
  <2>4. CASE u = 0
    <3>1. Moving(u)' = {}
      <4> SUFFICES ASSUME NEW s \in D, h(s).by = 0, s.phase = "moving" PROVE FALSE
        BY <2>1, <2>4
      <4>1. s.by = 0 /\ free = 0
        BY <1>1, <1>3, <1>4
      <4> QED
        BY <1>1, <1>3, <2>2, <2>3, <4>1
    <3> QED
      BY <1>2, <2>4, <3>1, FS_EmptySet
  <2>5. CASE u # 0 /\ u <= free
    <3>1. u - 1 \in Listeners /\ u \in Nat
      BY <1>3, <2>5
    <3>2. ASSUME NEW s \in D, s.phase = "moving" PROVE h(s).by = u <=> s.by = u - 1
      <4>1. s.by # free
        BY <1>1, <2>2, <2>3, <3>2
      <4> QED
        BY <1>1, <1>3, <1>4, <2>5, <3>1, <4>1
    <3> DEFINE g == [s \in Moving(u - 1) |-> h(s)]
    <3>3. g \in Bijection(Moving(u - 1), Moving(u)')
      <4>1. \A s \in Moving(u - 1) : s \in D /\ h(s) \in Moving(u)'
        BY <2>1, <2>3, <3>1, <3>2
      <4>2. \A x \in Moving(u)' : \E s \in Moving(u - 1) : h(s) = x
        BY <2>1, <2>3, <3>1, <3>2
      <4>3. \A s, v \in Moving(u - 1) : h(s) = h(v) => s = v
        BY <1>4, <4>1 DEF Touched
      <4> QED
        BY <4>1, <4>2, <4>3 DEF Bijection, Injection, Surjection, IsInjective
    <3> HIDE DEF g
    <3>4. IsFiniteSet(Moving(u - 1))
      BY FS_Subset DEF Moving, Touched
    <3>5. Cardinality(Moving(u)') = Cardinality(Moving(u - 1))
      BY <3>3, <3>4, FS_Bijection DEF ExistsBijection
    <3> QED
      BY <1>2, <2>5, <3>1, <3>5 DEF FingersTyped
  <2>6. CASE u > free
    <3>1. ASSUME NEW s \in D PROVE h(s).by = u <=> s.by = u
      BY <1>1, <1>3, <1>4, <2>6
    <3>2. ASSUME NEW s \in D, s.by = u PROVE h(s) = s
      BY <1>1, <1>3, <1>4, <2>6, <3>2
    <3>3. Moving(u)' = Moving(u)
      BY <2>1, <2>3, <3>1, <3>2
    <3> QED
      BY <1>1, <1>2, <1>3, <2>6, <3>3 DEF FingersTyped
  <2> QED
    BY <1>1, <1>3, <2>4, <2>5, <2>6
<1> QED
  BY <1>6, <1>7, <1>8, <1>9, <1>10, <1>11 DEF FingersTyped, Touched

(* A row that goes on to move, or to wait, stays the row it is.             *)
LEMMA Goes ==
  ASSUME FingersTyped, Touched, NEW s \in swipes, NEW p \in {"moving", "pending"}, Advanced(s, p)
  PROVE  /\ swipes' \subseteq Gesture /\ Touched' /\ Swiped' = Swiped
         /\ \A u \in Listeners :
              Moving(u)' = IF p = "moving" /\ s.by = u THEN (Moving(u) \ {s}) \cup {[s EXCEPT !.phase = p]}
                           ELSE Moving(u) \ {s}
<1> DEFINE w == [s EXCEPT !.phase = p]
<1>1. s \in Gesture /\ w \in Gesture /\ w.row = s.row /\ w.pos = s.pos /\ w.by = s.by /\ w.phase = p
  BY DEF FingersTyped, Gesture
<1>2. swipes' = (swipes \ {s}) \cup {w}
  BY DEF Advanced
<1> HIDE DEF w
<1>3. swipes' \subseteq Gesture
  BY <1>1, <1>2 DEF FingersTyped
<1>4. IsFiniteSet(swipes')
  BY <1>2, FS_RemoveElement, FS_AddElement DEF Touched
<1>5. \A x, y \in swipes' : x.row = y.row => x = y
  BY <1>1, <1>2 DEF Touched
<1>6. Swiped' = Swiped
  <2>1. ASSUME NEW k \in Swiped' PROVE k \in Swiped
    <3>1. PICK x \in swipes' : k = [pos |-> x.pos, row |-> x.row]
      BY DEF Swiped
    <3>2. k = [pos |-> s.pos, row |-> s.row] \/ x \in swipes
      BY <1>1, <1>2, <3>1
    <3> QED
      BY <3>1, <3>2 DEF Swiped
  <2>2. ASSUME NEW k \in Swiped PROVE k \in Swiped'
    <3>1. PICK x \in swipes : k = [pos |-> x.pos, row |-> x.row]
      BY DEF Swiped
    <3>2. \E y \in swipes' : k = [pos |-> y.pos, row |-> y.row]
      BY <1>1, <1>2, <3>1
    <3> QED
      BY <3>2 DEF Swiped
  <2> QED
    BY <2>1, <2>2
<1>7. ASSUME NEW u \in Listeners
      PROVE  Moving(u)' = IF p = "moving" /\ s.by = u THEN (Moving(u) \ {s}) \cup {w} ELSE Moving(u) \ {s}
  BY <1>1, <1>2 DEF Moving
<1> QED
  BY <1>3, <1>4, <1>5, <1>6, <1>7 DEF w, Touched

----------------------------------------------------------------------------
(* Types.                                                                   *)

(* An account is a function from some of the names.                         *)
LEMMA AccountIs ==
  ASSUME NEW T
  PROVE  T \in Accounts <=> DOMAIN T \subseteq Clean /\ T \in [DOMAIN T -> {{}}]
<1>1. ASSUME T \in Accounts PROVE DOMAIN T \subseteq Clean /\ T \in [DOMAIN T -> {{}}]
  <2>1. PICK L \in SUBSET Clean : T \in [L -> {{}}]
    BY <1>1 DEF Accounts, Clean
  <2> QED
    BY <2>1
<1>2. ASSUME DOMAIN T \subseteq Clean, T \in [DOMAIN T -> {{}}] PROVE T \in Accounts
  BY <1>2 DEF Accounts, Clean
<1> QED
  BY <1>1, <1>2

(* The server keeps a name as it stores it, and stores that as it is.        *)
LEMMA SentIs ==
  /\ Clean \subseteq Names /\ None \notin Clean /\ Sent(None) = None
  /\ \A n \in Names : Sent(n) \in Clean
  /\ \A n \in Clean : Sent(n) = n
<1>1. None \notin Names
  BY OthersAssumption
<1>2. Clean \subseteq Names
  BY StoredAssumption DEF Clean
<1>3. \A n \in Names : Sent(n) \in Clean
  BY <1>1 DEF Sent, Clean
<1>4. \A n \in Clean : Sent(n) = n
  BY <1>1, <1>2, StoredAssumption DEF Sent, Clean
<1> QED
  BY <1>1, <1>2, <1>3, <1>4 DEF Sent

(* What the routes make of an account.                                      *)
LEMMA RoutesTyped ==
  ASSUME NEW T \in Accounts, NEW n \in Clean, NEW old
  PROVE  /\ Posted(T, n) \in Accounts /\ DOMAIN Posted(T, n) = DOMAIN T \cup {n}
         /\ Deleted(T, old) \in Accounts /\ DOMAIN Deleted(T, old) = DOMAIN T \ {old}
         /\ Put(T, old, n) \in Accounts
         /\ DOMAIN Put(T, old, n) = IF old \in DOMAIN T THEN (DOMAIN T \ {old}) \cup {n} ELSE DOMAIN T
<1>1. DOMAIN T \subseteq Clean /\ T \in [DOMAIN T -> {{}}]
  BY AccountIs
<1>2. DOMAIN Posted(T, n) = DOMAIN T \cup {n} /\ Posted(T, n) \in [DOMAIN T \cup {n} -> {{}}]
  BY <1>1 DEF Posted
<1>3. DOMAIN Deleted(T, old) = DOMAIN T \ {old} /\ Deleted(T, old) \in [DOMAIN T \ {old} -> {{}}]
  BY <1>1 DEF Deleted, Restrict
<1>4. CASE old \in DOMAIN T
  <2>1. /\ DOMAIN Put(T, old, n) = (DOMAIN T \ {old}) \cup {n}
        /\ Put(T, old, n) \in [(DOMAIN T \ {old}) \cup {n} -> {{}}]
    BY <1>1, <1>4 DEF Put
  <2>2. Put(T, old, n) \in Accounts
    BY <1>1, <2>1, AccountIs
  <2> QED
    BY <1>1, <1>2, <1>3, <1>4, <2>1, <2>2, AccountIs
<1>5. CASE old \notin DOMAIN T
  <2>1. Put(T, old, n) = T
    BY <1>5 DEF Put
  <2> QED
    BY <1>1, <1>2, <1>3, <1>5, <2>1, AccountIs
<1> QED
  BY <1>4, <1>5

(* The states a thread begins and ends with.                                *)
LEMMA OpsTyped ==
  /\ Free \in OpState /\ \A t \in Threads : Shape(t, Free)
  /\ Op("load") \in OpState /\ Shape(Loader, Op("load"))
  /\ \A n \in Names, w \in Workers :
       LET x == [Op("add") EXCEPT !.name = n]
       IN x \in OpState /\ Shape(w, x) /\ x.op = "add" /\ x.pc = "sent" /\ x.row = None /\ ~ x.ok
  /\ \A o \in Rows :
       LET x == [Op("delete") EXCEPT !.row = o]
       IN x \in OpState /\ Shape(Ui, x) /\ x.op = "delete" /\ x.pc = "sent" /\ x.row = o /\ ~ x.ok
  /\ \A o \in Rows, w \in Workers :
       LET x == [Op("delete") EXCEPT !.row = o, !.pc = "dialog"]
       IN x \in OpState /\ Shape(w, x) /\ x.op = "delete" /\ x.pc = "dialog" /\ x.row = o /\ ~ x.ok
  /\ \A o \in Rows, w \in Workers, i \in Nat \ {0}, n \in Names :
       LET x == [Rename(i, n) EXCEPT !.row = o, !.pc = "dialog"]
       IN /\ x \in OpState /\ Shape(w, x) /\ x.op = "rename" /\ x.pc = "dialog" /\ x.row = o
          /\ ~ x.ok /\ x.pos = i
<1>1. Free \in OpState /\ \A t \in Threads : Shape(t, Free)
  BY DEF Free, OpState, Shape
<1>2. Op("load") \in OpState /\ Shape(Loader, Op("load"))
  BY OthersAssumption, ThreadsAssumption DEF Free, Op, OpState, Shape
<1>3. ASSUME NEW n \in Names, NEW w \in Workers
      PROVE LET x == [Op("add") EXCEPT !.name = n]
            IN x \in OpState /\ Shape(w, x) /\ x.op = "add" /\ x.pc = "sent" /\ x.row = None /\ ~ x.ok
  BY OthersAssumption, ThreadsAssumption DEF Free, Op, OpState, Shape
<1>4. ASSUME NEW o \in Rows
      PROVE LET x == [Op("delete") EXCEPT !.row = o]
            IN x \in OpState /\ Shape(Ui, x) /\ x.op = "delete" /\ x.pc = "sent" /\ x.row = o /\ ~ x.ok
  BY OthersAssumption, ThreadsAssumption DEF Free, Op, OpState, Shape, Rows
<1>5. ASSUME NEW o \in Rows, NEW w \in Workers
      PROVE LET x == [Op("delete") EXCEPT !.row = o, !.pc = "dialog"]
            IN x \in OpState /\ Shape(w, x) /\ x.op = "delete" /\ x.pc = "dialog" /\ x.row = o /\ ~ x.ok
  BY OthersAssumption, ThreadsAssumption DEF Free, Op, OpState, Shape, Rows
<1>6. ASSUME NEW o \in Rows, NEW w \in Workers, NEW i \in Nat \ {0}, NEW n \in Names
      PROVE LET x == [Rename(i, n) EXCEPT !.row = o, !.pc = "dialog"]
            IN /\ x \in OpState /\ Shape(w, x) /\ x.op = "rename" /\ x.pc = "dialog" /\ x.row = o
               /\ ~ x.ok /\ x.pos = i
  BY OthersAssumption, ThreadsAssumption DEF Free, Op, OpState, Shape, Rows, Rename
<1> QED
  BY <1>1, <1>2, <1>3, <1>4, <1>5, <1>6

(* A thread that goes on with what it does, or ends it.                     *)
LEMMA ThreadGoes ==
  ASSUME Shaped, NEW t \in Threads, NEW x \in OpState, ops[t] # Free, Shape(t, x),
         x = Free \/ x.op = ops[t].op, ops' = [ops EXCEPT ![t] = x],
         x = Free \/ (t = Loader => (loaded <=> x.pc \in Changing)),
         UNCHANGED <<alive, loaded>>,
         ~ loaded => UNCHANGED <<swipes, batch>> /\ Vacant \notin ToSet(rows')
  PROVE  ops' \in [Threads -> OpState] /\ Running' /\ Opened'
<1>1. ops \in [Threads -> OpState] /\ Loader \in Threads /\ Ui \in Threads /\ Workers \subseteq Threads
  BY DEF Shaped, WellTyped, Threads
<1>2. ops' \in [Threads -> OpState] /\ \A u \in Threads : ops'[u] = IF u = t THEN x ELSE ops[u]
  BY <1>1
<1>3. Running'
  BY <1>2 DEF Shaped, Running
<1>4. alive /\ alive'
  BY DEF Shaped, Opened
<1>5. ops'[Loader] = Free \/ (loaded' <=> ops'[Loader].pc \in Changing)
  BY <1>1, <1>2 DEF Shaped, Opened
<1>6. ASSUME ~ loaded PROVE ops'[Ui] = Free /\ \A w \in Workers : ops'[w].op \in {"none", "add"}
  <2>1. ops[Ui] = Free /\ \A w \in Workers : ops[w].op \in {"none", "add"}
    BY <1>6 DEF Shaped, Opened
  <2>2. Free.op = "none"
    BY DEF Free
  <2> QED
    BY <1>1, <1>2, <2>1, <2>2
<1>7. ~ loaded' => swipes' = {} /\ batch' = <<>> /\ Vacant \notin (ToSet(rows))'
  BY DEF Shaped, Opened, ToSet
<1> QED
  BY <1>2, <1>3, <1>4, <1>5, <1>6, <1>7 DEF Opened

(* The fingers do nothing.                                                  *)
LEMMA FingersRest ==
  ASSUME Shaped, UNCHANGED fingers
  PROVE  FingersTyped' /\ Touched' /\ Swiped' = Swiped
  BY DEF Shaped, WellTyped, FingersTyped, Touched, Moving, Swiped, fingers

(* The end of the application, or a new screen.                             *)
LEMMA FingersGone ==
  ASSUME Shaped, refs' = [u \in Listeners |-> 0], swipes' = {}, batch' = <<>>
  PROVE  FingersTyped' /\ Touched'
<1>1. \A u \in Listeners : Moving(u)' = {}
  BY DEF Moving
<1>2. Cardinality({}) = 0 /\ IsFiniteSet({}) /\ <<>> \in Seq(Kept)
  BY FS_EmptySet
<1> QED
  BY <1>1, <1>2 DEF FingersTyped, Touched

LEMMA InitShaped == Init => Shaped
<1> SUFFICES ASSUME Init PROVE Shaped
  OBVIOUS
<1>1. ScreenTyped
  <2>1. rows \in Seq(Rows) /\ label \in [Rows -> Names \cup {None}]
    BY EmptySeq DEF Init, Rows
  <2> QED
    BY <2>1 DEF Init, ScreenTyped
<1>2. Loader \in Threads /\ Ui \in Threads /\ Workers \subseteq Threads
  BY DEF Threads
<1>3. /\ \A t \in Threads : ops[t] = IF t = Loader THEN Op("load") ELSE Free
      /\ ops \in [Threads -> OpState]
  BY OpsTyped DEF Init
<1>4. Running
  <2> SUFFICES ASSUME NEW t \in Threads PROVE Shape(t, ops[t])
    BY DEF Running
  <2>1. CASE t = Loader
    BY <1>3, <2>1, OpsTyped
  <2>2. CASE t # Loader
    <3>1. ops[t] = Free
      BY <1>3, <2>2
    <3>2. Shape(t, Free)
      BY OpsTyped
    <3> QED
      BY <3>1, <3>2
  <2> QED
    BY <2>1, <2>2
<1>5. FingersTyped /\ Touched
  <2>1. \A u \in Listeners : Moving(u) = {}
    BY DEF Moving, Init
  <2>2. Cardinality({}) = 0 /\ IsFiniteSet({}) /\ <<>> \in Seq(Kept)
    BY FS_EmptySet
  <2> QED
    BY <2>1, <2>2 DEF FingersTyped, Touched, Init
<1>6. Opened
  <2>1. ops[Ui] = Free /\ \A w \in Workers : ops[w] = Free
    BY <1>2, <1>3, ThreadsAssumption
  <2>2. Free.op = "none" /\ ops[Loader].pc = "sent"
    BY <1>2, <1>3 DEF Free, Op
  <2>3. Vacant \notin ToSet(rows)
    BY DEF Init, ToSet
  <2> QED
    BY <2>1, <2>2, <2>3 DEF Opened, Init
<1> QED
  BY <1>1, <1>3, <1>4, <1>5, <1>6 DEF Shaped, WellTyped

LEMMA ReopenShaped == ASSUME Shaped, Reopen PROVE Shaped'
<1>1. ScreenTyped'
  <2>1. rows' \in Seq(Rows) /\ label' \in [Rows -> Names \cup {None}]
    BY EmptySeq DEF Reopen, Rows
  <2> QED
    BY <2>1 DEF Reopen, ScreenTyped
<1>2. Loader \in Threads /\ Ui \in Threads /\ Workers \subseteq Threads
  BY DEF Threads
<1>3. /\ \A t \in Threads : ops'[t] = IF t = Loader THEN Op("load") ELSE Free
      /\ ops' \in [Threads -> OpState]
  BY OpsTyped DEF Reopen
<1>4. Running'
  <2> SUFFICES ASSUME NEW t \in Threads PROVE Shape(t, ops'[t])
    BY DEF Running
  <2>1. CASE t = Loader
    BY <1>3, <2>1, OpsTyped
  <2>2. CASE t # Loader
    <3>1. ops'[t] = Free
      BY <1>3, <2>2
    <3>2. Shape(t, Free)
      BY OpsTyped
    <3> QED
      BY <3>1, <3>2
  <2> QED
    BY <2>1, <2>2
<1>5. FingersTyped' /\ Touched'
  BY FingersGone DEF Reopen
<1>6. Opened'
  <2>1. ops'[Ui] = Free /\ \A w \in Workers : ops'[w] = Free
    BY <1>2, <1>3, ThreadsAssumption
  <2>2. Free.op = "none" /\ ops'[Loader].pc = "sent"
    BY <1>2, <1>3 DEF Free, Op
  <2>3. Vacant \notin (ToSet(rows))'
    BY DEF Reopen, ToSet
  <2>4. alive' /\ ~ loaded' /\ swipes' = {} /\ batch' = <<>>
    BY DEF Reopen
  <2> QED
    BY <2>1, <2>2, <2>3, <2>4 DEF Opened
<1> QED
  BY <1>1, <1>3, <1>4, <1>5, <1>6 DEF Shaped, WellTyped

LEMMA DiesShaped ==
  ASSUME Shaped, Dies, ScreenTyped', UNCHANGED <<rows, loaded>>
  PROVE  Shaped'
<1>1. FingersTyped' /\ Touched'
  BY FingersGone DEF Dies
<1>2. \A t \in Threads : ops'[t] = Free
  BY DEF Dies
<1>3. ops' \in [Threads -> OpState] /\ Running'
  BY <1>2, OpsTyped DEF Dies, Running
<1>4. Opened'
  <2>1. Loader \in Threads /\ Ui \in Threads /\ Workers \subseteq Threads
    BY DEF Threads
  <2>2. Free.op = "none"
    BY DEF Free
  <2>3. ~ loaded' => Vacant \notin (ToSet(rows))'
    BY DEF Shaped, Opened, ToSet
  <2> QED
    BY <1>2, <2>1, <2>2, <2>3 DEF Dies, Opened
<1> QED
  BY <1>1, <1>3, <1>4 DEF Shaped, WellTyped

(* What the user begins: one more thread has something to do.               *)
LEMMA BeginsShaped ==
  ASSUME Shaped, ScreenTyped', UNCHANGED <<alive, rows, loaded>>, UNCHANGED fingers, alive,
         NEW w \in Workers \cup {Ui}, NEW x \in OpState, Shape(w, x), ops' = [ops EXCEPT ![w] = x],
         ~ loaded => w # Ui /\ x.op = "add"
  PROVE  Shaped'
<1>1. /\ ops \in [Threads -> OpState] /\ w \in Threads /\ w # Loader
      /\ Loader \in Threads /\ Ui \in Threads /\ Workers \subseteq Threads
  BY ThreadsAssumption DEF Shaped, WellTyped, Threads
<1>2. ops' \in [Threads -> OpState] /\ \A u \in Threads : ops'[u] = IF u = w THEN x ELSE ops[u]
  BY <1>1
<1>3. Running'
  BY <1>2 DEF Shaped, Running
<1>4. Opened'
  <2>1. ops'[Loader] = Free \/ (loaded' <=> ops'[Loader].pc \in Changing)
    BY <1>1, <1>2 DEF Shaped, Opened
  <2>2. ASSUME ~ loaded
        PROVE  /\ Vacant \notin (ToSet(rows))' /\ swipes' = {} /\ batch' = <<>>
               /\ ops'[Ui] = Free /\ \A v \in Workers : ops'[v].op \in {"none", "add"}
    BY <1>1, <1>2, <2>2 DEF Shaped, Opened, ToSet, fingers
  <2> QED
    BY <2>1, <2>2 DEF Opened
<1> QED
  BY <1>2, <1>3, <1>4, FingersRest DEF Shaped, WellTyped

LEMMA ConfirmAddShaped ==
  ASSUME Shaped, NEW w \in Workers, NEW n \in Names, ConfirmAdd(w, n)
  PROVE  Shaped'
<1> DEFINE x == [Op("add") EXCEPT !.name = n]
<1>1. x \in OpState /\ Shape(w, x) /\ x.op = "add"
  BY OpsTyped
<1>2. ops' = [ops EXCEPT ![w] = x] /\ alive /\ UNCHANGED <<alive, rows, loaded>> /\ UNCHANGED fingers
  BY DEF ConfirmAdd, CanBegin, CanTouch
<1>3. ScreenTyped'
  BY DEF Shaped, WellTyped, ScreenTyped, ConfirmAdd
<1> HIDE DEF x
<1> QED
  BY <1>1, <1>2, <1>3, ThreadsAssumption, BeginsShaped

LEMMA LongClickShaped ==
  ASSUME Shaped, NEW w \in Workers, NEW i \in DOMAIN rows, NEW n \in Names,
         NEW op \in {Op("delete"), Rename(i, n)}, LongClick(w, i, op)
  PROVE  Shaped'
<1> DEFINE x == [op EXCEPT !.row = rows[i], !.pc = "dialog"]
<1>1. rows[i] \in Rows /\ i \in Nat \ {0}
  BY DEF Shaped, WellTyped, ScreenTyped
<1>2. x \in OpState /\ Shape(w, x)
  <2>1. CASE op = Op("delete")
    BY <1>1, <2>1, OpsTyped
  <2>2. CASE op = Rename(i, n)
    BY <1>1, <2>2, OpsTyped
  <2> QED
    BY <2>1, <2>2
<1>3. /\ ops' = [ops EXCEPT ![w] = x] /\ alive /\ loaded
      /\ UNCHANGED <<alive, rows, loaded>> /\ UNCHANGED fingers
  BY DEF LongClick, CanBegin, CanTouch, OnRow, screen
<1>4. ScreenTyped'
  BY DEF Shaped, WellTyped, ScreenTyped, LongClick, Chosen, screen
<1> HIDE DEF x
<1> QED
  BY <1>2, <1>3, <1>4, BeginsShaped

(* A thread whose fields are known goes on from one step to the next.       *)
LEMMA FieldsKept ==
  ASSUME NEW t \in Threads, NEW x \in OpState, Shape(t, x), x # Free, NEW ok \in BOOLEAN
  PROVE  /\ x.pc = "dialog" => LET y == [x EXCEPT !.pc = "sent"]
                               IN y \in OpState /\ Shape(t, y) /\ y.op = x.op
         /\ x.pc \in {"sent", "served"} =>
              LET y == [x EXCEPT !.pc = "served", !.ok = ok]
              IN y \in OpState /\ Shape(t, y) /\ y.op = x.op
<1>1. ASSUME x.pc = "dialog"
      PROVE  LET y == [x EXCEPT !.pc = "sent"] IN y \in OpState /\ Shape(t, y) /\ y.op = x.op
  <2> DEFINE y == [x EXCEPT !.pc = "sent"]
  <2>1. /\ y.op = x.op /\ y.pc = "sent" /\ y.row = x.row /\ y.pos = x.pos /\ y.name = x.name
        /\ y.ok = x.ok /\ y.names = x.names /\ y \in OpState
    BY DEF OpState
  <2> HIDE DEF y
  <2>2. y # Free
    BY <2>1 DEF Free
  <2>3. Shape(t, y)
    BY <1>1, <2>1, <2>2 DEF Shape, Free
  <2> QED
    BY <2>1, <2>3 DEF y
<1>2. ASSUME x.pc \in {"sent", "served"}
      PROVE  LET y == [x EXCEPT !.pc = "served", !.ok = ok] IN y \in OpState /\ Shape(t, y) /\ y.op = x.op
  <2> DEFINE y == [x EXCEPT !.pc = "served", !.ok = ok]
  <2>1. /\ y.op = x.op /\ y.pc = "served" /\ y.row = x.row /\ y.pos = x.pos /\ y.name = x.name
        /\ y.ok = ok /\ y.names = x.names /\ y \in OpState
    BY DEF OpState
  <2> HIDE DEF y
  <2>3. Shape(t, y)
    BY <1>2, <2>1 DEF Shape, Free
  <2> QED
    BY <2>1, <2>3 DEF y
<1> QED
  BY <1>1, <1>2

LEMMA ChangingKept ==
  ASSUME NEW t \in Threads, NEW x \in OpState, Shape(t, x), x # Free, x.ok,
         x.op \in {"load", "add", "delete"}, NEW pc \in Changing, pc = "empty" => x.op = "delete",
         x.op = "load" => pc # "removed", NEW y, y = [x EXCEPT !.pc = pc]
  PROVE  y \in OpState /\ Shape(t, y) /\ y.op = x.op
<1>1. /\ y.op = x.op /\ y.pc = pc /\ y.row = x.row /\ y.pos = x.pos /\ y.name = x.name
      /\ y.ok = x.ok /\ y.names = x.names /\ y \in OpState
  BY DEF OpState
<1>2. Shape(t, y)
  BY <1>1 DEF Shape, Free
<1> QED
  BY <1>1, <1>2

(* A thread goes on and the fingers do nothing.                             *)
LEMMA GoesShaped ==
  ASSUME Shaped, NEW t \in Threads, NEW x \in OpState, ops[t] # Free, Shape(t, x),
         x = Free \/ x.op = ops[t].op, ops' = [ops EXCEPT ![t] = x],
         x = Free \/ (t = Loader => (loaded <=> x.pc \in Changing)),
         UNCHANGED <<alive, loaded>>, UNCHANGED fingers, ScreenTyped',
         ~ loaded => Vacant \notin ToSet(rows')
  PROVE  Shaped'
<1>1. UNCHANGED <<swipes, batch>>
  BY DEF fingers
<1>2. ops' \in [Threads -> OpState] /\ Running' /\ Opened'
  BY <1>1, ThreadGoes
<1> QED
  BY <1>2, FingersRest DEF Shaped, WellTyped

(* What is known of a thread that is not free.                              *)
LEMMA AtWork ==
  ASSUME Shaped, NEW t \in Threads, ops[t].pc # "free"
  PROVE  /\ ops[t] \in OpState /\ Shape(t, ops[t]) /\ ops[t] # Free
         /\ alive /\ (~ loaded => Vacant \notin ToSet(rows))
         /\ ops[t].op \in {"delete", "rename"} => loaded
         /\ ops[t].op = "load" <=> t = Loader
         /\ t = Loader => (loaded <=> ops[t].pc \in Changing)
<1>1. ops[t] \in OpState /\ Shape(t, ops[t])
  BY DEF Shaped, WellTyped, Running
<1>2. ops[t] # Free
  BY DEF Free
<1>3. /\ alive /\ (~ loaded => Vacant \notin ToSet(rows))
      /\ t = Loader => (loaded <=> ops[t].pc \in Changing)
  BY <1>2 DEF Shaped, Opened
<1>4. ASSUME ops[t].op \in {"delete", "rename"} PROVE loaded
  BY <1>1, <1>2, <1>4 DEF Shaped, Opened, Threads, Shape
<1>5. ops[t].op = "load" <=> t = Loader
  BY <1>1, <1>2 DEF Shape
<1> QED
  BY <1>1, <1>2, <1>3, <1>4, <1>5

LEMMA ConfirmShaped == ASSUME Shaped, NEW w \in Workers, Confirm(w) PROVE Shaped'
<1> DEFINE x == [ops[w] EXCEPT !.pc = "sent"]
<1>1. w \in Threads /\ ops[w].pc = "dialog"
  BY DEF Threads, Confirm
<1>2. ops[w] \in OpState /\ Shape(w, ops[w]) /\ ops[w] # Free /\ (~ loaded => Vacant \notin ToSet(rows))
  BY <1>1, AtWork
<1>3. x \in OpState /\ Shape(w, x) /\ x.op = ops[w].op
  BY <1>1, <1>2, FieldsKept
<1>4. ops' = [ops EXCEPT ![w] = x] /\ UNCHANGED <<alive, loaded, rows>> /\ UNCHANGED fingers
  BY DEF Confirm, Goto
<1>5. ScreenTyped'
  BY DEF Shaped, WellTyped, ScreenTyped, Confirm
<1> HIDE DEF x
<1> QED
  BY <1>1, <1>2, <1>3, <1>4, <1>5, ThreadsAssumption, GoesShaped

LEMMA EndsShaped ==
  ASSUME Shaped, NEW t \in Threads, ops[t].pc # "free", Ends(t),
         UNCHANGED <<alive, loaded>>, UNCHANGED fingers, ScreenTyped',
         ~ loaded => Vacant \notin ToSet(rows')
  PROVE  Shaped'
<1>1. Free \in OpState /\ Shape(t, Free)
  BY OpsTyped
<1>2. ops[t] # Free
  BY AtWork
<1>3. ops' = [ops EXCEPT ![t] = Free]
  BY DEF Ends
<1> QED
  BY <1>1, <1>2, <1>3, GoesShaped

LEMMA GotoShaped ==
  ASSUME Shaped, NEW t \in Threads, ops[t].ok, ops[t].op \in {"load", "add", "delete"},
         NEW pc \in Changing, Goto(t, pc), pc = "empty" => ops[t].op = "delete",
         ops[t].op = "load" => ops[t].pc \in Changing /\ pc # "removed",
         UNCHANGED <<alive, loaded>>, UNCHANGED fingers, ScreenTyped',
         ~ loaded => Vacant \notin ToSet(rows')
  PROVE  Shaped'
<1> DEFINE x == [ops[t] EXCEPT !.pc = pc]
<1>1. ops[t].pc # "free"
  BY DEF Shaped, Running, Shape
<1>2. ops[t] \in OpState /\ Shape(t, ops[t]) /\ ops[t] # Free
  BY <1>1, AtWork
<1>3. x \in OpState /\ Shape(t, x) /\ x.op = ops[t].op
  BY <1>2, ChangingKept
<1>4. ops' = [ops EXCEPT ![t] = x] /\ x.pc = pc
  BY <1>2 DEF Goto, OpState
<1>5. t = Loader => loaded
  BY <1>1, AtWork
<1> HIDE DEF x
<1> QED
  BY <1>2, <1>3, <1>4, <1>5, GoesShaped

LEMMA CancelShaped == ASSUME Shaped, NEW w \in Workers, Cancel(w) PROVE Shaped'
<1>1. w \in Threads /\ ops[w].pc # "free"
  BY DEF Threads, Cancel
<1>2. ScreenTyped' /\ Ends(w) /\ UNCHANGED <<alive, loaded, rows>> /\ UNCHANGED fingers
  BY DEF Shaped, WellTyped, ScreenTyped, Cancel, screen
<1>3. ~ loaded => Vacant \notin ToSet(rows')
  BY <1>1, <1>2, AtWork
<1> QED
  BY <1>1, <1>2, <1>3, EndsShaped

LEMMA ReturnFailureShaped == ASSUME Shaped, NEW t \in Threads, ReturnFailure(t) PROVE Shaped'
<1>1. ops[t].pc # "free"
  BY DEF ReturnFailure
<1>2. ScreenTyped' /\ Ends(t) /\ UNCHANGED <<alive, loaded, rows>> /\ UNCHANGED fingers
  BY DEF Shaped, WellTyped, ScreenTyped, ReturnFailure, screen
<1>3. ~ loaded => Vacant \notin ToSet(rows')
  BY <1>1, <1>2, AtWork
<1> QED
  BY <1>1, <1>2, <1>3, EndsShaped

LEMMA LoseShaped == ASSUME Shaped, NEW t \in Threads, Lose(t) PROVE Shaped'
<1> DEFINE x == [ops[t] EXCEPT !.pc = "served", !.ok = FALSE]
<1>1. ops[t].pc \in {"sent", "served"}
  BY DEF Lose
<1>2. ops[t] \in OpState /\ Shape(t, ops[t]) /\ ops[t] # Free /\ (~ loaded => Vacant \notin ToSet(rows))
  BY <1>1, AtWork
<1>3. x \in OpState /\ Shape(t, x) /\ x.op = ops[t].op
  BY <1>1, <1>2, FieldsKept
<1>4. ops' = [ops EXCEPT ![t] = x] /\ x.pc = "served" /\ (t = Loader => ~ loaded)
  BY <1>1, <1>2, AtWork DEF Lose, OpState
<1>5. UNCHANGED <<alive, loaded, rows>> /\ UNCHANGED fingers
  BY DEF Lose, screen
<1>6. ScreenTyped'
  BY DEF Shaped, WellTyped, ScreenTyped, Lose, screen
<1> HIDE DEF x
<1> QED
  BY <1>2, <1>3, <1>4, <1>5, <1>6, GoesShaped

LEMMA ServeShaped == ASSUME Shaped, NEW t \in Threads, Serve(t) PROVE Shaped'
<1> DEFINE name == IF ops[t].row = None THEN None ELSE Sent(label[ops[t].row])
           new == Sent(ops[t].name)
           y == [ops[t] EXCEPT !.pc = "served", !.ok = TRUE]
<1>1. ops[t].pc = "sent"
  BY DEF Serve
<1>2. /\ ops[t] \in OpState /\ Shape(t, ops[t]) /\ ops[t] # Free /\ (t = Loader => ~ loaded)
      /\ ~ loaded => Vacant \notin ToSet(rows)
  BY <1>1, AtWork
<1>3. UNCHANGED <<alive, loaded, rows>> /\ UNCHANGED fingers
  BY DEF Serve, screen
<1>4. y \in OpState /\ Shape(t, y) /\ y.op = ops[t].op
  BY <1>1, <1>2, FieldsKept
<1>10. y.pc = "served"
  BY <1>2 DEF OpState
<1>5. table' \in Accounts => ScreenTyped'
  BY DEF Shaped, WellTyped, ScreenTyped, Serve, screen
<1>6. table \in Accounts
  BY DEF Shaped, WellTyped, ScreenTyped
<1>7. CASE /\ ops[t].op = "load"
           /\ ops' = [ops EXCEPT ![t] = [ops[t] EXCEPT !.pc = "served", !.ok = TRUE,
                                                       !.names = DOMAIN table]]
           /\ UNCHANGED table
  <2> DEFINE x == [ops[t] EXCEPT !.pc = "served", !.ok = TRUE, !.names = DOMAIN table]
  <2>1. DOMAIN table \subseteq Names
    BY <1>6, AccountIs, SentIs
  <2>2. /\ x \in OpState /\ x.op = ops[t].op /\ x.pc = "served" /\ x.row = ops[t].row
        /\ x.name = ops[t].name /\ x.pos = ops[t].pos
    BY <1>2, <2>1 DEF OpState
  <2>3. ops' = [ops EXCEPT ![t] = x]
    BY <1>7
  <2> HIDE DEF x
  <2>4. Shape(t, x)
    BY <1>1, <1>2, <1>7, <2>2 DEF Shape, Free
  <2> QED
    BY <1>2, <1>3, <1>5, <1>6, <1>7, <2>2, <2>3, <2>4, GoesShaped
<1>8. CASE /\ \/ ops[t].op = "add" /\ table' = Posted(table, new)
              \/ ops[t].op = "delete" /\ table' = Deleted(table, name)
              \/ ops[t].op = "rename" /\ table' = Put(table, name, new)
           /\ ops' = [ops EXCEPT ![t] = y]
  <2>1. table' \in Accounts
    <3>1. ops[t].op \in {"add", "rename"} => new \in Clean
      BY <1>2, SentIs DEF Shape
    <3> HIDE DEF new
    <3>2. CASE ops[t].op = "add" /\ table' = Posted(table, new)
      BY <1>6, <3>1, <3>2, RoutesTyped
    <3>3. CASE ops[t].op = "rename" /\ table' = Put(table, name, new)
      <4> HIDE DEF name
      <4> QED
        BY <1>6, <3>1, <3>3, RoutesTyped
    <3>4. CASE ops[t].op = "delete" /\ table' = Deleted(table, name)
      <4> HIDE DEF name
      <4>1. DOMAIN Deleted(table, name) \subseteq Clean /\ Deleted(table, name) \in [DOMAIN Deleted(table, name) -> {{}}]
        BY <1>6, AccountIs DEF Deleted, Restrict
      <4> QED
        BY <3>4, <4>1, AccountIs
    <3> QED
      BY <1>8, <3>2, <3>3, <3>4
  <2> HIDE DEF y, name, new
  <2> QED
    BY <1>2, <1>3, <1>4, <1>5, <1>8, <1>10, <2>1, GoesShaped
<1>9. CASE ops' = [ops EXCEPT ![t].pc = "served"] /\ UNCHANGED table
  <2> DEFINE x == [ops[t] EXCEPT !.pc = "served", !.ok = FALSE]
  <2>1. x \in OpState /\ Shape(t, x) /\ x.op = ops[t].op
    BY <1>1, <1>2, FieldsKept
  <2>6. x.pc = "served"
    BY <1>2 DEF OpState
  <2>2. ~ ops[t].ok
    BY <1>1, <1>2 DEF Shape
  <2>3. ops[t].ok = FALSE
    BY <1>2, <2>2 DEF OpState
  <2>4. x = [ops[t] EXCEPT !.pc = "served"]
    BY <1>2, <2>3 DEF OpState
  <2>5. ops' = [ops EXCEPT ![t] = x]
    BY <1>9, <2>4
  <2> HIDE DEF x
  <2> QED
    BY <1>2, <1>3, <1>5, <1>6, <1>9, <2>1, <2>5, <2>6, GoesShaped
<1> QED
  BY <1>7, <1>8, <1>9 DEF Serve, Goto

(* A finger comes down on a row that is not swiped.                         *)
LEMMA DownFingers ==
  ASSUME Shaped, NEW i \in DOMAIN rows, Down(i)
  PROVE  /\ FingersTyped' /\ Touched'
         /\ Swiped' = Swiped \cup {[pos |-> i, row |-> rows[i]]}
<1> DEFINE w == [by |-> 0, pos |-> i, row |-> rows[i], phase |-> "down"]
<1>1. rows[i] \in Rows /\ i \in Nat \ {0} /\ 0 \in Listeners
  BY SizesAssumption, FS_CardinalityType DEF Shaped, WellTyped, ScreenTyped, Listeners
<1>2. w \in Gesture /\ w.by = 0 /\ w.pos = i /\ w.row = rows[i] /\ w.phase = "down"
  BY <1>1 DEF Gesture, Rows
<1>3. swipes' = swipes \cup {w} /\ UNCHANGED <<refs, batch>> /\ \A s \in swipes : s.row # rows[i]
  BY DEF Down, OnRow
<1> HIDE DEF w
<1>4. \A u \in Listeners : Moving(u)' = Moving(u)
  BY <1>2, <1>3 DEF Moving
<1>5. FingersTyped'
  BY <1>2, <1>3, <1>4 DEF Shaped, WellTyped, FingersTyped
<1>6. Touched'
  BY <1>2, <1>3, FS_AddElement DEF Shaped, Touched
<1>7. Swiped' = Swiped \cup {[pos |-> i, row |-> rows[i]]}
  <2>1. ASSUME NEW k \in Swiped' PROVE k \in Swiped \cup {[pos |-> i, row |-> rows[i]]}
    <3>1. PICK s \in swipes' : k = [pos |-> s.pos, row |-> s.row]
      BY DEF Swiped
    <3> QED
      BY <1>2, <1>3, <3>1 DEF Swiped
  <2>2. ASSUME NEW k \in Swiped \cup {[pos |-> i, row |-> rows[i]]} PROVE k \in Swiped'
    <3>1. \E s \in swipes' : k = [pos |-> s.pos, row |-> s.row]
      BY <1>2, <1>3 DEF Swiped
    <3> QED
      BY <3>1 DEF Swiped
  <2> QED
    BY <2>1, <2>2
<1> QED
  BY <1>5, <1>6, <1>7

(* Fingers on a screen that is loaded and there.                            *)
LEMMA TouchShaped ==
  ASSUME Shaped, alive, loaded, UNCHANGED <<table, alive>>, UNCHANGED screen, UNCHANGED <<ops, cause>>,
         FingersTyped', Touched'
  PROVE  Shaped'
<1>1. ScreenTyped' /\ ops' \in [Threads -> OpState] /\ Running'
  BY DEF Shaped, WellTyped, ScreenTyped, Running, screen
<1>2. Opened'
  BY DEF Shaped, Opened, screen
<1> QED
  BY <1>1, <1>2 DEF Shaped, WellTyped

LEMMA DownShaped == ASSUME Shaped, NEW i \in DOMAIN rows, Down(i) PROVE Shaped'
  BY DownFingers, TouchShaped DEF Down, CanBegin, CanTouch, OnRow

(* The row goes away, or the touch comes to nothing.                        *)
LEMMA UpFingers ==
  ASSUME Shaped, NEW s \in swipes, Up(s)
  PROVE  FingersTyped' /\ Touched' /\ Swiped' \subseteq Swiped
<1>1. FingersTyped /\ Touched /\ s.phase = "down" /\ s \in Gesture /\ UNCHANGED batch
  BY DEF Shaped, WellTyped, Up, FingersTyped
<1>2. CASE Advanced(s, "moving") /\ refs' = [refs EXCEPT ![s.by] = @ + 1]
  <2> DEFINE w == [s EXCEPT !.phase = "moving"]
  <2>1. /\ swipes' \subseteq Gesture /\ Touched' /\ Swiped' = Swiped
        /\ \A u \in Listeners :
             Moving(u)' = IF s.by = u THEN (Moving(u) \ {s}) \cup {w} ELSE Moving(u) \ {s}
    BY <1>1, <1>2, Goes
  <2>2. s.by \in Listeners /\ \A u \in Listeners : s \notin Moving(u)
    BY <1>1 DEF Gesture, Moving
  <2>3. \A u \in Listeners : IsFiniteSet(Moving(u))
    BY <1>1, FS_Subset DEF Moving, Touched
  <2>4. w \notin Moving(s.by)
    <3>1. w.row = s.row /\ w.phase = "moving"
      BY <1>1 DEF Gesture
    <3> QED
      BY <1>1, <3>1 DEF Moving, Touched
  <2> HIDE DEF w
  <2>5. refs' \in [Listeners -> Nat]
    BY <1>1, <1>2, <2>2 DEF FingersTyped
  <2>6. ASSUME NEW u \in Listeners PROVE refs'[u] = Cardinality(Moving(u)')
    <3>1. CASE u = s.by
      <4>1. Moving(u)' = Moving(u) \cup {w}
        BY <2>1, <2>2, <3>1
      <4>2. Cardinality(Moving(u) \cup {w}) = Cardinality(Moving(u)) + 1
        BY <2>3, <2>4, <3>1, FS_AddElement
      <4> QED
        BY <1>1, <1>2, <3>1, <4>1, <4>2 DEF FingersTyped
    <3>2. CASE u # s.by
      <4>1. Moving(u)' = Moving(u)
        BY <2>1, <2>2, <3>2
      <4> QED
        BY <1>1, <1>2, <3>2, <4>1 DEF FingersTyped
    <3> QED
      BY <3>1, <3>2
  <2> QED
    BY <1>1, <2>1, <2>5, <2>6 DEF FingersTyped
<1>3. CASE swipes' = swipes \ {s} /\ UNCHANGED refs
  <2>1. \A u \in Listeners : Moving(u)' = Moving(u)
    BY <1>1, <1>3 DEF Moving
  <2>2. IsFiniteSet(swipes')
    BY <1>1, <1>3, FS_RemoveElement DEF Touched
  <2>3. Swiped' \subseteq Swiped
    BY <1>3 DEF Swiped
  <2> QED
    BY <1>1, <1>3, <2>1, <2>2, <2>3 DEF FingersTyped, Touched
<1> QED
  BY <1>2, <1>3 DEF Up

LEMMA UpShaped == ASSUME Shaped, NEW s \in swipes, Up(s) PROVE Shaped'
<1>1. alive /\ loaded
  BY DEF Shaped, Opened, Up, CanTouch
<1> QED
  BY <1>1, UpFingers, TouchShaped DEF Up

(* A batch is the rows that have moved away, each once.                     *)
LEMMA BatchIs ==
  ASSUME NEW K \in SUBSET Kept, IsFiniteSet(K), NEW q \in Descending(K)
  PROVE  /\ q \in Seq(Kept) /\ ToSet(q) = K
         /\ \A i, j \in DOMAIN q : (q[i] = q[j] => i = j) /\ (i < j => q[i].pos >= q[j].pos)
<1>1. Cardinality(K) \in Nat
  BY FS_CardinalityType
<1>2. /\ q \in [1 .. Cardinality(K) -> K] /\ \A k \in K : \E i \in 1 .. Cardinality(K) : q[i] = k
      /\ \A i, j \in DOMAIN q : q[i] = q[j] => i = j
      /\ \A i, j \in DOMAIN q : i < j => q[i].pos >= q[j].pos
  BY DEF Descending, Bijection, Injection, Surjection, IsInjective
<1>3. q \in Seq(Kept)
  BY <1>1, <1>2
<1>4. ToSet(q) = K
  BY <1>2 DEF ToSet
<1> QED
  BY <1>2, <1>3, <1>4

(* A row has moved away.  What goes into a batch was swiped.                *)
LEMMA SettleFingers ==
  ASSUME Shaped, NEW s \in swipes, Settle(s)
  PROVE  /\ FingersTyped' /\ Touched' /\ Swiped' \subseteq Swiped
         /\ \/ UNCHANGED batch
            \/ \E K \in SUBSET Swiped : K \subseteq Kept /\ IsFiniteSet(K) /\ batch' \in Descending(K)
<1>1. /\ FingersTyped /\ Touched /\ s.phase = "moving" /\ s \in Gesture /\ s.by \in Listeners
      /\ refs' = [refs EXCEPT ![s.by] = @ - 1]
  BY DEF Shaped, WellTyped, Settle, FingersTyped, Gesture
<1>2. \A u \in Listeners : IsFiniteSet(Moving(u)) /\ refs[u] = Cardinality(Moving(u)) /\ refs[u] \in Nat
  BY <1>1, FS_Subset, FS_CardinalityType DEF Moving, Touched, FingersTyped
<1>3. s \in Moving(s.by) /\ \A u \in Listeners : u # s.by => s \notin Moving(u)
  BY <1>1 DEF Moving
<1>4. /\ Cardinality(Moving(s.by) \ {s}) = refs[s.by] - 1
      /\ IsFiniteSet(Moving(s.by) \ {s}) /\ refs[s.by] - 1 \in Nat
  <2> DEFINE M == Moving(s.by)
  <2>1. IsFiniteSet(M) /\ Cardinality(M) = refs[s.by] /\ s \in M
    BY <1>1, <1>2, <1>3
  <2> HIDE DEF M
  <2>2. IsFiniteSet(M \ {s}) /\ Cardinality(M \ {s}) = Cardinality(M) - 1
    BY <2>1, FS_RemoveElement
  <2>3. Cardinality(M \ {s}) \in Nat
    BY <2>2, FS_CardinalityType
  <2> QED
    BY <2>1, <2>2, <2>3 DEF M
<1>5. refs' \in [Listeners -> Nat]
  BY <1>1, <1>4 DEF FingersTyped
<1>6. CASE refs[s.by] = 1
  <2> DEFINE mine == {u \in swipes : u.by = s.by}
             pending == {[pos |-> u.pos, row |-> u.row] : u \in {v \in mine : v.phase # "down"}}
  <2>1. batch' \in Descending(pending) /\ swipes' = swipes \ mine
    BY <1>6 DEF Settle
  <2>2. pending \subseteq Swiped
    BY DEF Swiped
  <2>3. pending \subseteq Kept
    BY <1>1 DEF FingersTyped, Gesture, Kept
  <2>4. IsFiniteSet(pending)
    <3> DEFINE D == {v \in mine : v.phase # "down"}
               g == [u \in D |-> [pos |-> u.pos, row |-> u.row]]
    <3>1. IsFiniteSet(D)
      BY <1>1, FS_Subset DEF Touched
    <3>2. g \in Surjection(D, pending)
      BY DEF Surjection
    <3> HIDE DEF g, D, pending
    <3> QED
      BY <3>1, <3>2, FS_Surjection
  <2>5. Moving(s.by) \ {s} = {}
    BY <1>4, <1>6, FS_EmptySet
  <2>6. ASSUME NEW u \in Listeners PROVE refs'[u] = Cardinality(Moving(u)')
    <3>1. CASE u = s.by
      <4>1. Moving(u)' = {}
        BY <2>1, <3>1 DEF Moving
      <4> QED
        BY <1>1, <1>6, <3>1, <4>1, FS_EmptySet DEF FingersTyped
    <3>2. CASE u # s.by
      <4>1. Moving(u)' = Moving(u)
        BY <2>1, <3>2 DEF Moving
      <4> QED
        BY <1>1, <1>2, <3>2, <4>1 DEF FingersTyped
    <3> QED
      BY <3>1, <3>2
  <2>7. batch' \in Seq(Kept)
    <3> HIDE DEF pending
    <3> QED
      BY <2>1, <2>3, <2>4, BatchIs
  <2>8. IsFiniteSet(swipes') /\ swipes' \subseteq swipes
    BY <1>1, <2>1, FS_Subset DEF Touched
  <2>9. Swiped' \subseteq Swiped
    BY <2>8 DEF Swiped
  <2>10. FingersTyped' /\ Touched'
    BY <1>1, <1>5, <2>6, <2>7, <2>8 DEF FingersTyped, Touched
  <2> HIDE DEF pending, mine
  <2> QED
    BY <2>1, <2>2, <2>3, <2>4, <2>9, <2>10
<1>7. CASE refs[s.by] # 1
  <2>1. Advanced(s, "pending") /\ UNCHANGED batch
    BY <1>7 DEF Settle
  <2>2. /\ swipes' \subseteq Gesture /\ Touched' /\ Swiped' = Swiped
        /\ \A u \in Listeners : Moving(u)' = Moving(u) \ {s}
    BY <1>1, <2>1, Goes
  <2>3. ASSUME NEW u \in Listeners PROVE refs'[u] = Cardinality(Moving(u)')
    <3>1. CASE u = s.by
      BY <1>1, <1>4, <2>2, <3>1 DEF FingersTyped
    <3>2. CASE u # s.by
      <4>1. Moving(u)' = Moving(u)
        BY <1>3, <2>2, <3>2
      <4> QED
        BY <1>1, <1>2, <3>2, <4>1 DEF FingersTyped
    <3> QED
      BY <3>1, <3>2
  <2> QED
    BY <1>1, <1>5, <2>1, <2>2, <2>3 DEF FingersTyped
<1> QED
  BY <1>6, <1>7

LEMMA SettleShaped == ASSUME Shaped, NEW s \in swipes, Settle(s) PROVE Shaped'
<1>1. alive /\ loaded
  BY DEF Shaped, Opened, Settle, CanTouch
<1> QED
  BY <1>1, SettleFingers, TouchShaped DEF Settle

LEMMA DismissShaped == ASSUME Shaped, Dismiss PROVE Shaped'
<1> DEFINE i == Head(batch).pos
           x == [Op("delete") EXCEPT !.row = rows[i]]
<1>1. loaded /\ alive /\ ops[Ui].pc = "free" /\ batch # <<>>
  BY DEF Dismiss, Shaped, Opened
<1>2. ScreenTyped' /\ UNCHANGED <<rows, loaded>>
  <2>1. cause' \subseteq cause \cup {"twice", "raced"}
    BY DEF Dismiss, Chosen
  <2>2. cause' \subseteq {"early", "twice", "lost", "shifted", "raced"}
    BY <2>1 DEF Shaped, WellTyped, ScreenTyped
  <2>3. alive' \in BOOLEAN /\ UNCHANGED <<table, rows, label, shown, armed, loaded>>
    BY DEF Shaped, WellTyped, ScreenTyped, Dismiss, Dies, screen
  <2> QED
    BY <2>2, <2>3 DEF Shaped, WellTyped, ScreenTyped
<1>3. CASE /\ i \in DOMAIN rows /\ ops' = [ops EXCEPT ![Ui] = x]
           /\ batch' = Tail(batch) /\ UNCHANGED <<alive, refs, swipes>>
  <2>1. rows[i] \in Rows
    BY <1>3 DEF Shaped, WellTyped, ScreenTyped
  <2>2. x \in OpState /\ Shape(Ui, x) /\ ops \in [Threads -> OpState]
    BY <2>1, OpsTyped DEF Shaped, WellTyped
  <2>3. Ui \in Threads /\ Loader \in Threads
    BY DEF Threads
  <2> HIDE DEF x, i
  <2>4. ops' \in [Threads -> OpState] /\ \A t \in Threads : ops'[t] = IF t = Ui THEN x ELSE ops[t]
    BY <1>3, <2>2, <2>3
  <2>5. Running'
    BY <2>2, <2>4 DEF Shaped, Running
  <2>6. Opened'
    BY <1>1, <1>2, <1>3, <2>3, <2>4, ThreadsAssumption DEF Shaped, Opened
  <2>7. batch' \in Seq(Kept)
    BY <1>1, <1>3, HeadTailProperties DEF Shaped, WellTyped, FingersTyped
  <2>8. FingersTyped' /\ Touched'
    BY <1>3, <2>7 DEF Shaped, WellTyped, FingersTyped, Touched, Moving
  <2> QED
    BY <1>2, <2>4, <2>5, <2>6, <2>8 DEF Shaped, WellTyped
<1>4. CASE Dies
  BY <1>2, <1>4, DiesShaped
<1> QED
  BY <1>3, <1>4 DEF Dismiss

LEMMA RemovedTyped ==
  ASSUME Shaped, NEW o, NEW kept, Removed(o, kept)
  PROVE  /\ rows' = RemoveFirst(rows, o) /\ rows' \in Seq(Rows)
         /\ cause' \subseteq {"early", "twice", "lost", "shifted", "raced"}
         /\ cause \subseteq cause'
         /\ Vacant \notin ToSet(rows) => Vacant \notin ToSet(rows')
<1>1. rows \in Seq(Rows) /\ cause \subseteq {"early", "twice", "lost", "shifted", "raced"}
  BY DEF Shaped, WellTyped, ScreenTyped
<1>2. rows' = RemoveFirst(rows, o) /\ (cause' = cause \/ cause' = cause \cup {"shifted"})
  BY DEF Removed
<1>3. rows' \in Seq(Rows) /\ ToSet(rows') \subseteq ToSet(rows)
  BY <1>1, <1>2, RemovedFrom
<1> QED
  BY <1>1, <1>2, <1>3

LEMMA ReturnDeleteShaped == ASSUME Shaped, NEW t \in Threads, ReturnDelete(t) PROVE Shaped'
<1> DEFINE o == ops[t].row
<1>1. ops[t].pc = "served" /\ ops[t].ok /\ ops[t].op = "delete" /\ Goto(t, "removed")
  BY DEF ReturnDelete, Success
<1>2. rows' \in Seq(Rows) /\ cause' \subseteq {"early", "twice", "lost", "shifted", "raced"}
  BY RemovedTyped DEF ReturnDelete
<1>3. label' = label \/ label' = [label EXCEPT ![o] = None]
  BY DEF ReturnDelete
<1>4. label' \in [Rows -> Names \cup {None}]
  BY <1>3 DEF Shaped, WellTyped, ScreenTyped
<1>5. ScreenTyped'
  BY <1>2, <1>4 DEF Shaped, WellTyped, ScreenTyped, ReturnDelete
<1>6. loaded /\ UNCHANGED <<alive, loaded>> /\ UNCHANGED fingers
  BY <1>1, AtWork DEF ReturnDelete
<1> QED
  BY <1>1, <1>5, <1>6, GotoShaped

LEMMA CountShaped == ASSUME Shaped, NEW t \in Threads, Count(t) PROVE Shaped'
<1>1. ops[t].pc = "removed" /\ ops[t].op = "delete" /\ (Ends(t) \/ Goto(t, "empty"))
  BY DEF Count
<1>2. ops[t].ok
  BY <1>1 DEF Shaped, Running, Shape
<1>3. ScreenTyped'
  BY DEF Shaped, WellTyped, ScreenTyped, Count
<1>4. loaded /\ UNCHANGED <<alive, loaded>> /\ UNCHANGED fingers
  BY <1>1, AtWork DEF Count
<1> QED
  BY <1>1, <1>2, <1>3, <1>4, EndsShaped, GotoShaped

LEMMA AddVacantShaped == ASSUME Shaped, NEW t \in Threads, AddVacant(t) PROVE Shaped'
<1>1. ops[t].pc = "empty" /\ Goto(t, "filled")
  BY DEF AddVacant
<1>2. ops[t].ok /\ ops[t].op = "delete"
  BY <1>1 DEF Shaped, Running, Shape
<1>3. rows' \in Seq(Rows)
  BY AppendProperties DEF AddVacant, Shaped, WellTyped, ScreenTyped, Rows
<1>4. ScreenTyped'
  BY <1>3 DEF Shaped, WellTyped, ScreenTyped, AddVacant, Raced
<1>5. loaded /\ UNCHANGED <<alive, loaded>> /\ UNCHANGED fingers
  BY <1>1, <1>2, AtWork DEF AddVacant
<1> QED
  BY <1>1, <1>2, <1>4, <1>5, GotoShaped

(* A listener is taken away or set: the rows stay.                          *)
LEMMA TakeTyped ==
  ASSUME Shaped, NEW k \in {"click", "touch"}, Take(k) \/ Set(k), shown' \in BOOLEAN,
         UNCHANGED <<table, alive, rows, label, loaded>>
  PROVE  ScreenTyped'
  BY DEF Shaped, WellTyped, ScreenTyped, Take, Set, Raced

LEMMA TakeClicksShaped == ASSUME Shaped, NEW t \in Threads, TakeClicks(t) PROVE Shaped'
<1>1. ops[t].pc = "filled" /\ ops[t].op = "delete" /\ Goto(t, "clicks")
  BY DEF TakeClicks
<1>2. ops[t].ok
  BY <1>1 DEF Shaped, Running, Shape
<1>3. ScreenTyped'
  BY TakeTyped DEF TakeClicks, Shaped, WellTyped, ScreenTyped
<1>4. loaded /\ UNCHANGED <<alive, loaded>> /\ UNCHANGED fingers
  BY <1>1, AtWork DEF TakeClicks
<1> QED
  BY <1>1, <1>2, <1>3, <1>4, GotoShaped

LEMMA TakeTouchesShaped == ASSUME Shaped, NEW t \in Threads, TakeTouches(t) PROVE Shaped'
<1>1. ops[t].pc = "clicks" /\ ops[t].op = "delete" /\ Ends(t)
  BY DEF TakeTouches
<1>2. ScreenTyped'
  BY TakeTyped DEF TakeTouches
<1>3. loaded /\ UNCHANGED <<alive, loaded>> /\ UNCHANGED fingers
  BY <1>1, AtWork DEF TakeTouches
<1> QED
  BY <1>1, <1>2, <1>3, EndsShaped

LEMMA ReturnAddShaped == ASSUME Shaped, NEW t \in Threads, ReturnAdd(t) PROVE Shaped'
<1>1. ops[t].pc = "served" /\ ops[t].ok /\ ops[t].op = "add" /\ Goto(t, "removed")
  BY DEF ReturnAdd, Success
<1>2. /\ rows' \in Seq(Rows) /\ cause' \subseteq {"early", "twice", "lost", "shifted", "raced"}
      /\ Vacant \notin ToSet(rows) => Vacant \notin ToSet(rows')
  BY RemovedTyped DEF ReturnAdd
<1>3. ScreenTyped'
  BY <1>2 DEF Shaped, WellTyped, ScreenTyped, ReturnAdd
<1>4. ~ loaded => Vacant \notin ToSet(rows')
  BY <1>1, <1>2, AtWork
<1>5. UNCHANGED <<alive, loaded>> /\ UNCHANGED fingers
  BY DEF ReturnAdd
<1> QED
  BY <1>1, <1>3, <1>4, <1>5, GotoShaped

\* The object of a new row is none that anybody refers to.
LEMMA UnusedIs ==
  ASSUME NEW o \in Unused
  PROVE  /\ o \in Objects /\ o \in Rows /\ o # Vacant /\ o # None /\ o \notin ToSet(rows)
         /\ \A t \in Threads : ops[t].row # o
         /\ \A s \in swipes : s.row # o
         /\ \A i \in DOMAIN batch : batch[i].row # o
  BY OthersAssumption DEF Unused, Referred, Rows

LEMMA AddRowShaped == ASSUME Shaped, NEW t \in Threads, AddRow(t) PROVE Shaped'
<1>1. ops[t].pc = "removed" /\ ops[t].op = "add" /\ Goto(t, "filled")
  BY DEF AddRow
<1>2. ops[t].ok /\ ops[t].name \in Names
  BY <1>1 DEF Shaped, Running, Shape
<1>3. PICK o \in Unused : rows' = Append(rows, o) /\ label' = [label EXCEPT ![o] = ops[t].name]
  BY DEF AddRow
<1>4. /\ rows' \in Seq(Rows) /\ ToSet(rows') = ToSet(rows) \cup {o} /\ o # Vacant
      /\ o \in Rows
  BY <1>3, UnusedIs, Appended DEF Shaped, WellTyped, ScreenTyped
<1>5. label' \in [Rows -> Names \cup {None}]
  BY <1>2, <1>3, <1>4 DEF Shaped, WellTyped, ScreenTyped
<1>6. ScreenTyped'
  BY <1>4, <1>5 DEF Shaped, WellTyped, ScreenTyped, AddRow
<1>7. ~ loaded => Vacant \notin ToSet(rows')
  BY <1>1, <1>4, AtWork
<1>8. UNCHANGED <<alive, loaded>> /\ UNCHANGED fingers
  BY DEF AddRow
<1> QED
  BY <1>1, <1>2, <1>6, <1>7, <1>8, GotoShaped

LEMMA SetClicksShaped == ASSUME Shaped, NEW t \in Threads, SetClicks(t) PROVE Shaped'
<1>1. ops[t].pc = "filled" /\ ops[t].op \in {"add", "load"} /\ Goto(t, "clicks")
  BY DEF SetClicks
<1>2. ops[t].ok /\ (~ loaded => Vacant \notin ToSet(rows'))
  BY <1>1, AtWork DEF Shape, SetClicks
<1>3. ScreenTyped'
  BY TakeTyped DEF SetClicks, Shaped, WellTyped, ScreenTyped
<1>4. UNCHANGED <<alive, loaded>> /\ UNCHANGED fingers
  BY DEF SetClicks
<1> QED
  BY <1>1, <1>2, <1>3, <1>4, GotoShaped

LEMMA SetTouchesShaped == ASSUME Shaped, NEW t \in Threads, SetTouches(t) PROVE Shaped'
<1>1. ops[t].pc = "clicks" /\ Ends(t) /\ UNCHANGED <<alive, rows, loaded>>
  BY DEF SetTouches
<1>2. ScreenTyped'
  BY TakeTyped DEF SetTouches, Shaped, WellTyped, ScreenTyped
<1>3. FingersTyped' /\ Touched'
  BY NewListenerTyped DEF Shaped, WellTyped, SetTouches
<1>4. ~ loaded => UNCHANGED <<swipes, batch>> /\ Vacant \notin ToSet(rows')
  <2>1. ASSUME ~ loaded PROVE swipes' = {} /\ swipes = {}
    BY <2>1 DEF Shaped, Opened, SetTouches, NewListener
  <2>2. ~ loaded => Vacant \notin ToSet(rows')
    BY <1>1, AtWork
  <2> QED
    BY <2>1, <2>2 DEF SetTouches
<1>5. Free \in OpState /\ Shape(t, Free) /\ ops[t] # Free /\ ops' = [ops EXCEPT ![t] = Free]
  BY <1>1, OpsTyped, AtWork DEF Ends
<1>6. ops' \in [Threads -> OpState] /\ Running' /\ Opened'
  BY <1>1, <1>4, <1>5, ThreadGoes
<1> QED
  BY <1>2, <1>3, <1>6 DEF Shaped, WellTyped

LEMMA ReturnRenameShaped == ASSUME Shaped, NEW t \in Threads, ReturnRename(t) PROVE Shaped'
<1> DEFINE i == ops[t].pos
<1>1. ops[t].pc = "served" /\ ops[t].ok /\ ops[t].op = "rename"
  BY DEF ReturnRename, Success
<1>2. ops[t].name \in Names /\ loaded
  BY <1>1, AtWork DEF Shape
<1>3. UNCHANGED <<table, rows, armed, loaded, cause>>
  BY DEF ReturnRename
<1>4. CASE /\ i \in DOMAIN rows /\ label' = [label EXCEPT ![rows[i]] = ops[t].name]
           /\ shown' = TRUE /\ Ends(t) /\ UNCHANGED <<alive, refs, swipes, batch>>
  <2>1. label' \in [Rows -> Names \cup {None}]
    BY <1>2, <1>4 DEF Shaped, WellTyped, ScreenTyped
  <2>2. ScreenTyped'
    BY <1>3, <1>4, <2>1 DEF Shaped, WellTyped, ScreenTyped
  <2> QED
    BY <1>1, <1>2, <1>3, <1>4, <2>2, EndsShaped DEF fingers
<1>5. CASE Dies /\ UNCHANGED <<label, shown>>
  <2>1. ScreenTyped'
    BY <1>3, <1>5 DEF Shaped, WellTyped, ScreenTyped, Dies
  <2> QED
    BY <1>3, <1>5, <2>1, DiesShaped
<1> QED
  BY <1>4, <1>5 DEF ReturnRename

(* What getLists fills the rows with: as many new objects as there are names, *)
(* each with a name of its own.                                             *)
LEMMA Filled ==
  ASSUME Shaped, NEW N \in SUBSET Names,
         NEW new \in Injection(1 .. Cardinality(N), Unused), NEW name \in Bijection(Range(new), N),
         rows' = rows \o new,
         label' = [o \in DOMAIN label |-> IF o \in Range(new) THEN name[o] ELSE label[o]]
  PROVE  /\ new \in Seq(Unused) /\ Len(new) = Cardinality(N) /\ IsInjective(new)
         /\ ToSet(new) = Range(new) /\ Range(new) \subseteq Unused
         /\ rows' \in Seq(Rows) /\ ToSet(rows') = ToSet(rows) \cup ToSet(new)
         /\ label' \in [Rows -> Names \cup {None}]
         /\ \A o \in ToSet(new) : o \in Rows /\ label'[o] = name[o] /\ name[o] \in N
         /\ \A o, p \in ToSet(new) : name[o] = name[p] => o = p
         /\ \A n \in N : \E o \in ToSet(new) : name[o] = n
<1>1. Cardinality(N) \in Nat /\ IsFiniteSet(N)
  BY SizesAssumption, FS_Subset, FS_CardinalityType
<1>2. new \in [1 .. Cardinality(N) -> Unused] /\ IsInjective(new)
  BY DEF Injection
<1>3. new \in Seq(Unused) /\ Len(new) = Cardinality(N)
  BY <1>1, <1>2
<1>4. ToSet(new) = Range(new) /\ Range(new) \subseteq Unused /\ Unused \subseteq Rows
  BY <1>2 DEF ToSet, Range, Unused, Rows
<1>5. /\ name \in [ToSet(new) -> N] /\ \A o, p \in ToSet(new) : name[o] = name[p] => o = p
      /\ \A n \in N : \E o \in ToSet(new) : name[o] = n
  BY <1>4 DEF Bijection, Injection, Surjection, IsInjective
<1>6. label \in [Rows -> Names \cup {None}] /\ rows \in Seq(Rows)
  BY DEF Shaped, WellTyped, ScreenTyped
<1>7. label' \in [Rows -> Names \cup {None}]
  BY <1>4, <1>5, <1>6
<1>8. \A o \in ToSet(new) : o \in Rows /\ label'[o] = name[o] /\ name[o] \in N
  BY <1>4, <1>5, <1>6
<1>9. new \in Seq(Rows)
  BY <1>3, <1>4, SeqMonotonic
<1>10. /\ rows' \in Seq(Rows) /\ Len(rows') = Len(rows) + Len(new)
       /\ \A i \in 1 .. Len(rows) + Len(new) :
            rows'[i] = IF i <= Len(rows) THEN rows[i] ELSE new[i - Len(rows)]
  BY <1>6, <1>9, ConcatProperties
<1>11. /\ DOMAIN rows' = 1 .. Len(rows') /\ DOMAIN rows = 1 .. Len(rows) /\ DOMAIN new = 1 .. Len(new)
       /\ Len(rows) \in Nat /\ Len(new) \in Nat
  BY <1>6, <1>9, <1>10
<1>12. ToSet(rows') = ToSet(rows) \cup ToSet(new)
  <2>1. ASSUME NEW x \in ToSet(rows') PROVE x \in ToSet(rows) \cup ToSet(new)
    <3>1. PICK i \in DOMAIN rows' : rows'[i] = x
      BY <1>10, SeqElements
    <3>2. CASE i <= Len(rows)
      <4>1. i \in DOMAIN rows /\ rows[i] = x
        BY <1>10, <1>11, <3>1, <3>2
      <4> QED
        BY <4>1 DEF ToSet
    <3>3. CASE ~ (i <= Len(rows))
      <4>1. i - Len(rows) \in DOMAIN new /\ new[i - Len(rows)] = x
        BY <1>10, <1>11, <3>1, <3>3
      <4> QED
        BY <4>1 DEF ToSet
    <3> QED
      BY <3>2, <3>3
  <2>2. ASSUME NEW x \in ToSet(rows) PROVE x \in ToSet(rows')
    <3>1. PICK i \in DOMAIN rows : rows[i] = x
      BY <1>6, SeqElements
    <3>2. i \in DOMAIN rows' /\ rows'[i] = x
      BY <1>10, <1>11, <3>1
    <3> QED
      BY <3>2 DEF ToSet
  <2>3. ASSUME NEW x \in ToSet(new) PROVE x \in ToSet(rows')
    <3>1. PICK i \in DOMAIN new : new[i] = x
      BY <1>9, SeqElements
    <3>2. Len(rows) + i \in DOMAIN rows' /\ rows'[Len(rows) + i] = x
      BY <1>10, <1>11, <3>1
    <3> QED
      BY <3>2 DEF ToSet
  <2> QED
    BY <2>1, <2>2, <2>3
<1> QED
  BY <1>2, <1>3, <1>4, <1>5, <1>7, <1>8, <1>10, <1>12

LEMMA ReturnLoadShaped == ASSUME Shaped, ReturnLoad PROVE Shaped'
<1> DEFINE N == ops[Loader].names
           x == [ops[Loader] EXCEPT !.pc = "filled"]
<1>1. /\ ops[Loader].pc = "served" /\ ops[Loader].op = "load" /\ ops[Loader].ok
      /\ Loader \in Threads /\ Ui \in Threads /\ Workers \subseteq Threads /\ loaded'
      /\ UNCHANGED <<table, alive, shown, armed, cause>> /\ UNCHANGED fingers
  BY DEF ReturnLoad, Success, Threads
<1>2. /\ N \in SUBSET Names /\ alive /\ ops[Loader] \in OpState /\ ops[Loader] # Free
      /\ Shape(Loader, ops[Loader])
  BY <1>1, AtWork DEF OpState
<1>3. rows' \in Seq(Rows) /\ label' \in [Rows -> Names \cup {None}]
  <2>1. CASE \E new \in Injection(1 .. Cardinality(N), Unused) : \E name \in Bijection(Range(new), N) :
               /\ rows' = rows \o new
               /\ label' = [o \in DOMAIN label |-> IF o \in Range(new) THEN name[o] ELSE label[o]]
    <3> HIDE DEF N
    <3> QED
      BY <1>2, <2>1, Filled
  <2>2. CASE rows' = Append(rows, Vacant) /\ UNCHANGED label
    BY <2>2, AppendProperties DEF Shaped, WellTyped, ScreenTyped, Rows
  <2> QED
    BY <2>1, <2>2 DEF ReturnLoad
<1>4. ScreenTyped'
  BY <1>1, <1>3 DEF Shaped, WellTyped, ScreenTyped
<1>5. x \in OpState /\ Shape(Loader, x) /\ x.pc = "filled"
  BY <1>1, <1>2, ChangingKept DEF OpState
<1>6. PICK y \in {x, Free} : ops' = [ops EXCEPT ![Loader] = y]
  BY DEF ReturnLoad, Goto, Ends
<1> HIDE DEF x
<1>7. y \in OpState /\ Shape(Loader, y) /\ (y = Free \/ y.pc \in Changing)
  <2>1. CASE y = x
    BY <1>5, <2>1
  <2>2. CASE y = Free
    BY <1>1, <2>2, OpsTyped
  <2> QED
    BY <1>6, <2>1, <2>2
<1>8. ops' \in [Threads -> OpState] /\ \A u \in Threads : ops'[u] = IF u = Loader THEN y ELSE ops[u]
  BY <1>1, <1>6, <1>7 DEF Shaped, WellTyped
<1>9. Running'
  BY <1>7, <1>8 DEF Shaped, Running
<1>10. Opened'
  BY <1>1, <1>2, <1>7, <1>8 DEF Opened
<1> QED
  BY <1>1, <1>4, <1>8, <1>9, <1>10, FingersRest DEF Shaped, WellTyped

LEMMA NextShaped == ASSUME Shaped, [Next]_vars PROVE Shaped'
<1>1. CASE UNCHANGED vars
  <2>1. UNCHANGED <<refs, swipes, batch>>
    BY <1>1 DEF vars, fingers
  <2>2. FingersTyped' /\ Touched'
    BY <2>1 DEF FingersTyped, Touched, Moving, Shaped, WellTyped
  <2>3. ScreenTyped' /\ ops' \in [Threads -> OpState]
    BY <1>1 DEF vars, screen, Shaped, WellTyped, ScreenTyped
  <2>4. Running' /\ Opened'
    BY <1>1, <2>1 DEF vars, screen, Shaped, Running, Opened
  <2> QED
    BY <2>2, <2>3, <2>4 DEF Shaped, WellTyped
<1>2. CASE ByUser
  BY <1>2, NamesAssumption, ReopenShaped, ConfirmAddShaped, LongClickShaped, ConfirmShaped,
     CancelShaped, DownShaped DEF ByUser
<1>3. CASE Touching
  BY <1>3, UpShaped, SettleShaped DEF Touching
<1>4. ASSUME NEW t \in Threads, Exchange(t) PROVE Shaped'
  BY <1>4, ServeShaped, LoseShaped, ReturnFailureShaped, ReturnRenameShaped,
     ReturnDeleteShaped, CountShaped, AddVacantShaped, TakeClicksShaped, TakeTouchesShaped,
     ReturnAddShaped, AddRowShaped, SetClicksShaped, SetTouchesShaped DEF Exchange, Return
<1> QED
  BY <1>1, <1>2, <1>3, <1>4, ReturnLoadShaped, DismissShaped DEF Next

(* The types, and: each listener counts the rows that move for it, whatever  *)
(* listeners the threads put before it while they move                      *)
(* (SwipeDismissListViewTouchListener.mDismissAnimationRefCount).           *)
THEOREM TypeCorrect == Spec => []TypeOK
<1>1. Init => Shaped
  BY InitShaped
<1>2. Shaped /\ [Next]_vars => Shaped'
  BY NextShaped
<1>3. Shaped => TypeOK
  BY TypedIs DEF Shaped
<1> QED
  BY <1>1, <1>2, <1>3, PTL DEF Spec

----------------------------------------------------------------------------
(* The positions.                                                           *)

\* Nothing came between that moves rows under a position.
Apart == cause \cap {"shifted", "raced"} = {}

\* Whoever keeps a position, and what the position means.
Holders == Swiped \cup Renames \cup ToSet(batch)
Means(k) == k.pos \in DOMAIN rows /\ rows[k.pos] = k.row

\* The positions of a batch go down; and the row the user interface deletes is
\* below those it deletes after it, so that its removal does not move them.
Downwards == \A i, j \in DOMAIN batch : i < j => batch[i].pos > batch[j].pos
Below ==
  ops[Ui].pc \notin Changing =>
    \A i \in DOMAIN rows : rows[i] = ops[Ui].row => \A j \in DOMAIN batch : batch[j].pos < i

\* What makes PositionsHold inductive: no row is shown twice, and the order above.
Placed ==
  Apart => /\ alive /\ IsInjective(rows) /\ Downwards /\ Below
           /\ \A k \in Holders : Means(k)

(* What a thread does that goes on or ends: it keeps the position and the    *)
(* row it has.                                                              *)
LEMMA ThreadKeeps ==
  ASSUME Shaped, NEW t \in Threads, NEW x, ops' = [ops EXCEPT ![t] = x],
         \/ x = Free
         \/ /\ x.op = ops[t].op /\ x.pos = ops[t].pos /\ x.row = ops[t].row
            /\ x.pc \in Changing \/ ops[t].pc \notin Changing
  PROVE  /\ Renames' \subseteq Renames
         /\ \/ ops'[Ui].row = None
            \/ ops'[Ui].row = ops[Ui].row /\ (ops'[Ui].pc \notin Changing => ops[Ui].pc \notin Changing)
<1>1. ops \in [Threads -> OpState] /\ Ui \in Threads /\ Workers \subseteq Threads
  BY DEF Shaped, WellTyped, Threads
<1>2. \A u \in Threads : ops'[u] = IF u = t THEN x ELSE ops[u]
  BY <1>1
<1>3. Free.op = "none" /\ Free.row = None
  BY DEF Free
<1>4. ASSUME NEW k \in Renames' PROVE k \in Renames
  <2>1. PICK u \in Workers : ops'[u].op = "rename" /\ k = [pos |-> ops'[u].pos, row |-> ops'[u].row]
    BY DEF Renames
  <2>2. ops[u].op = "rename" /\ k = [pos |-> ops[u].pos, row |-> ops[u].row]
    BY <1>1, <1>2, <1>3, <2>1
  <2> QED
    BY <2>2 DEF Renames
<1>5. \/ ops'[Ui].row = None
      \/ ops'[Ui].row = ops[Ui].row /\ (ops'[Ui].pc \notin Changing => ops[Ui].pc \notin Changing)
  BY <1>1, <1>2, <1>3
<1> QED
  BY <1>4, <1>5

(* The rows stay, and so does what is asked of Ui.                          *)
LEMMA RowsStay ==
  ASSUME Shaped, Placed, Apart' => Apart, UNCHANGED <<alive, rows, batch>>,
         \A k \in Swiped' \cup Renames' : k \in Swiped \cup Renames \/ Means(k),
         \/ ops'[Ui].row = None
         \/ ops'[Ui].row = ops[Ui].row /\ (ops'[Ui].pc \notin Changing => ops[Ui].pc \notin Changing)
  PROVE  Placed'
<1> SUFFICES ASSUME Apart' PROVE Placed'
  BY DEF Placed
<1>1. alive /\ IsInjective(rows) /\ Downwards /\ Below /\ \A k \in Holders : Means(k)
  BY DEF Placed
<1>2. \A i \in DOMAIN rows : rows[i] # None
  BY OthersAssumption DEF Shaped, WellTyped, ScreenTyped, Rows
<1>3. Below'
  BY <1>1, <1>2 DEF Below
<1>4. ASSUME NEW k \in Holders' PROVE Means(k)'
  <2>1. k \in Swiped' \cup Renames' \/ k \in ToSet(batch)
    BY DEF Holders, ToSet
  <2>2. k \in Holders \/ Means(k)
    BY <2>1 DEF Holders
  <2> QED
    BY <1>1, <2>2 DEF Means
<1> QED
  BY <1>1, <1>3, <1>4 DEF Placed, Downwards, IsInjective

(* A thread goes on, and nothing else that keeps a position does.           *)
LEMMA GoesPlaced ==
  ASSUME Shaped, Placed, NEW t \in Threads, NEW x, ops' = [ops EXCEPT ![t] = x],
         \/ x = Free
         \/ /\ x.op = ops[t].op /\ x.pos = ops[t].pos /\ x.row = ops[t].row
            /\ x.pc \in Changing \/ ops[t].pc \notin Changing,
         Apart' => Apart, UNCHANGED <<alive, rows>>, UNCHANGED fingers
  PROVE  Placed'
<1>1. UNCHANGED batch /\ Swiped' = Swiped
  BY DEF fingers, Swiped
<1> QED
  BY <1>1, ThreadKeeps, RowsStay

(* Nobody keeps a position.                                                 *)
LEMMA NobodyPlaced ==
  ASSUME Apart => alive /\ IsInjective(rows) /\ Holders = {}
  PROVE  Placed
<1> SUFFICES ASSUME Apart PROVE alive /\ IsInjective(rows) /\ Downwards /\ Below /\ Holders = {}
  BY DEF Placed
<1>1. alive /\ IsInjective(rows) /\ ToSet(batch) = {} /\ Holders = {}
  BY DEF Holders
<1>2. DOMAIN batch = {}
  BY <1>1 DEF ToSet
<1> QED
  BY <1>1, <1>2 DEF Downwards, Below

LEMMA InitPlaced == ASSUME Init PROVE Placed
<1>1. \A w \in Workers : ops[w] = Free
  BY ThreadsAssumption DEF Init, Threads
<1>2. Renames = {} /\ Swiped = {} /\ ToSet(batch) = {}
  BY <1>1 DEF Renames, Swiped, ToSet, Init, Free
<1>3. alive /\ IsInjective(rows)
  BY DEF Init, IsInjective
<1> QED
  BY <1>2, <1>3, NobodyPlaced DEF Holders

LEMMA ReopenPlaced == ASSUME Reopen PROVE Placed'
<1>1. \A w \in Workers : ops'[w] = Free
  BY ThreadsAssumption DEF Reopen, Threads
<1>2. Renames' = {} /\ Swiped' = {} /\ (ToSet(batch))' = {}
  BY <1>1 DEF Renames, Swiped, ToSet, Reopen, Free
<1>3. alive' /\ IsInjective(rows)' /\ Holders' = {} /\ DOMAIN rows' = {} /\ DOMAIN batch' = {}
  BY <1>2 DEF Reopen, IsInjective, Holders
<1>4. Downwards' /\ Below'
  BY <1>3 DEF Downwards, Below
<1> QED
  BY <1>3, <1>4 DEF Placed

(* The application ends only where a position meant no row.                 *)
LEMMA DiesPlaced == ASSUME Placed, NEW k \in Holders, ~ Means(k), UNCHANGED cause PROVE Placed'
  BY DEF Placed, Apart

LEMMA ConfirmAddPlaced ==
  ASSUME Shaped, Placed, NEW w \in Workers, NEW n \in Names, ConfirmAdd(w, n)
  PROVE  Placed'
<1> DEFINE x == [Op("add") EXCEPT !.name = n]
<1>1. /\ ops' = [ops EXCEPT ![w] = x] /\ UNCHANGED <<alive, rows, batch, swipes>>
      /\ (cause' = cause \/ cause' = cause \cup {"early"})
  BY DEF ConfirmAdd, fingers
<1>2. x.op = "add" /\ ops \in [Threads -> OpState] /\ w \in Threads /\ Ui # w /\ Workers \subseteq Threads
  BY ThreadsAssumption DEF Op, Free, Shaped, WellTyped, Threads
<1> HIDE DEF x
<1>3. \A u \in Workers : ops'[u] = IF u = w THEN x ELSE ops[u]
  BY <1>1, <1>2
<1>4. Renames' \subseteq Renames
  BY <1>2, <1>3 DEF Renames
<1>5. ops'[Ui] = ops[Ui] /\ Swiped' = Swiped /\ (Apart' => Apart)
  BY <1>1, <1>2 DEF Swiped, Apart
<1> QED
  BY <1>1, <1>4, <1>5, RowsStay

LEMMA ChosenApart == ASSUME NEW o, Chosen(o), Apart' PROVE Apart
<1>1. cause \subseteq cause'
  BY DEF Chosen
<1> QED
  BY <1>1 DEF Apart

LEMMA LongClickPlaced ==
  ASSUME Shaped, Placed, NEW w \in Workers, NEW i \in DOMAIN rows, NEW n \in Names,
         NEW op \in {Op("delete"), Rename(i, n)}, LongClick(w, i, op)
  PROVE  Placed'
<1> DEFINE x == [op EXCEPT !.row = rows[i], !.pc = "dialog"]
<1>1. /\ ops' = [ops EXCEPT ![w] = x] /\ UNCHANGED <<alive, rows, batch, swipes>>
      /\ (Apart' => Apart)
  BY ChosenApart DEF LongClick, fingers, screen
<1>2. x.op = "rename" => x.pos = i /\ x.row = rows[i]
  <2>1. CASE op = Op("delete")
    BY <2>1 DEF Op, Free
  <2>2. CASE op = Rename(i, n)
    BY <2>2 DEF Op, Free, Rename
  <2> QED
    BY <2>1, <2>2
<1>3. ops \in [Threads -> OpState] /\ w \in Threads /\ Ui # w /\ Workers \subseteq Threads
  BY ThreadsAssumption DEF Shaped, WellTyped, Threads
<1> HIDE DEF x
<1>4. \A u \in Workers : ops'[u] = IF u = w THEN x ELSE ops[u]
  BY <1>1, <1>3
<1>5. ASSUME NEW k \in Renames' PROVE k \in Renames \/ Means(k)
  <2>1. PICK u \in Workers : ops'[u].op = "rename" /\ k = [pos |-> ops'[u].pos, row |-> ops'[u].row]
    BY DEF Renames
  <2>2. CASE u = w
    BY <1>2, <1>4, <2>1, <2>2 DEF Means
  <2>3. CASE u # w
    BY <1>4, <2>1, <2>3 DEF Renames
  <2> QED
    BY <2>2, <2>3
<1>6. ops'[Ui] = ops[Ui] /\ Swiped' = Swiped
  BY <1>1, <1>3 DEF Swiped
<1> QED
  BY <1>1, <1>5, <1>6, RowsStay

LEMMA ConfirmPlaced == ASSUME Shaped, Placed, NEW w \in Workers, Confirm(w) PROVE Placed'
<1> DEFINE x == [ops[w] EXCEPT !.pc = "sent"]
<1>1. /\ w \in Threads /\ ops[w].pc = "dialog" /\ ops' = [ops EXCEPT ![w] = x]
      /\ UNCHANGED <<alive, rows>> /\ UNCHANGED fingers /\ UNCHANGED cause
  BY DEF Threads, Confirm, Goto
<1>2. x.op = ops[w].op /\ x.pos = ops[w].pos /\ x.row = ops[w].row
  BY DEF Shaped, WellTyped, OpState, Threads
<1> HIDE DEF x
<1> QED
  BY <1>1, <1>2, GoesPlaced DEF Apart

(* A thread that ends, or goes on to what is left to do.                    *)
LEMMA EndsPlaced ==
  ASSUME Shaped, Placed, NEW t \in Threads, Ends(t), UNCHANGED <<alive, rows>>, Apart' => Apart,
         UNCHANGED fingers
  PROVE  Placed'
  BY GoesPlaced DEF Ends

LEMMA GotoPlaced ==
  ASSUME Shaped, Placed, NEW t \in Threads, NEW pc \in Changing, Goto(t, pc),
         UNCHANGED <<alive, rows>>, Apart' => Apart, UNCHANGED fingers
  PROVE  Placed'
<1> DEFINE x == [ops[t] EXCEPT !.pc = pc]
<1>1. /\ x.op = ops[t].op /\ x.pos = ops[t].pos /\ x.row = ops[t].row /\ x.pc = pc
      /\ ops' = [ops EXCEPT ![t] = x]
  BY DEF Shaped, WellTyped, OpState, Goto
<1> HIDE DEF x
<1> QED
  BY <1>1, GoesPlaced

LEMMA LosePlaced == ASSUME Shaped, Placed, NEW t \in Threads, Lose(t) PROVE Placed'
<1> DEFINE x == [ops[t] EXCEPT !.pc = "served", !.ok = FALSE]
<1>1. /\ ops[t].pc \in {"sent", "served"} /\ UNCHANGED <<alive, rows>> /\ UNCHANGED fingers
      /\ (cause' = cause \/ cause' = cause \cup {"lost"})
  BY DEF Lose, screen
<1>2. ops' = [ops EXCEPT ![t] = x]
  BY DEF Lose, Shaped, WellTyped
<1>3. x.op = ops[t].op /\ x.pos = ops[t].pos /\ x.row = ops[t].row
  BY DEF Shaped, WellTyped, OpState
<1>4. Apart' => Apart
  BY <1>1 DEF Apart
<1> HIDE DEF x
<1> QED
  BY <1>1, <1>2, <1>3, <1>4, GoesPlaced

LEMMA ServePlaced == ASSUME Shaped, Placed, NEW t \in Threads, Serve(t) PROVE Placed'
<1>1. ops[t].pc = "sent" /\ UNCHANGED <<alive, rows, cause>> /\ UNCHANGED fingers
  BY DEF Serve, screen
<1>2. ops[t] \in OpState /\ (Apart' => Apart)
  BY <1>1 DEF Shaped, WellTyped, Apart
<1>3. CASE ops' = [ops EXCEPT ![t] = [ops[t] EXCEPT !.pc = "served", !.ok = TRUE,
                                                    !.names = DOMAIN table]]
  <2> DEFINE x == [ops[t] EXCEPT !.pc = "served", !.ok = TRUE, !.names = DOMAIN table]
  <2>1. ops' = [ops EXCEPT ![t] = x]
    BY <1>3
  <2>2. x.op = ops[t].op /\ x.pos = ops[t].pos /\ x.row = ops[t].row
    BY <1>2 DEF OpState
  <2> HIDE DEF x
  <2> QED
    BY <1>1, <1>2, <2>1, <2>2, GoesPlaced
<1>4. CASE ops' = [ops EXCEPT ![t] = [ops[t] EXCEPT !.pc = "served", !.ok = TRUE]]
  <2> DEFINE x == [ops[t] EXCEPT !.pc = "served", !.ok = TRUE]
  <2>1. ops' = [ops EXCEPT ![t] = x]
    BY <1>4
  <2>2. x.op = ops[t].op /\ x.pos = ops[t].pos /\ x.row = ops[t].row
    BY <1>2 DEF OpState
  <2> HIDE DEF x
  <2> QED
    BY <1>1, <1>2, <2>1, <2>2, GoesPlaced
<1>5. CASE ops' = [ops EXCEPT ![t].pc = "served"]
  <2> DEFINE x == [ops[t] EXCEPT !.pc = "served"]
  <2>1. ops' = [ops EXCEPT ![t] = x]
    BY <1>5
  <2>2. x.op = ops[t].op /\ x.pos = ops[t].pos /\ x.row = ops[t].row
    BY <1>2 DEF OpState
  <2> HIDE DEF x
  <2> QED
    BY <1>1, <1>2, <2>1, <2>2, GoesPlaced
<1> QED
  BY <1>3, <1>4, <1>5 DEF Serve, Goto

LEMMA DownPlaced == ASSUME Shaped, Placed, NEW i \in DOMAIN rows, Down(i) PROVE Placed'
<1>1. Swiped' = Swiped \cup {[pos |-> i, row |-> rows[i]]}
  BY DownFingers
<1>2. UNCHANGED <<alive, rows, batch, ops, cause>>
  BY DEF Down, screen
<1>3. ASSUME NEW k \in Swiped' \cup Renames' PROVE k \in Swiped \cup Renames \/ Means(k)
  BY <1>1, <1>2, <1>3 DEF Renames, Means
<1> QED
  BY <1>2, <1>3, RowsStay DEF Apart

LEMMA UpPlaced == ASSUME Shaped, Placed, NEW s \in swipes, Up(s) PROVE Placed'
<1>1. Swiped' \subseteq Swiped
  BY UpFingers
<1>2. UNCHANGED <<alive, rows, batch, ops, cause>>
  BY DEF Up, screen
<1>3. Renames' = Renames
  BY <1>2 DEF Renames
<1> QED
  BY <1>1, <1>2, <1>3, RowsStay DEF Apart

(* A batch is made of what was swiped; two of its positions that were equal   *)
(* would mean one row, which is not swiped twice.                           *)
LEMMA SettlePlaced == ASSUME Shaped, Placed, NEW s \in swipes, Settle(s) PROVE Placed'
<1>1. /\ Swiped' \subseteq Swiped
      /\ UNCHANGED batch \/ \E K \in SUBSET Swiped : K \subseteq Kept /\ IsFiniteSet(K) /\ batch' \in Descending(K)
  BY SettleFingers
<1>2. UNCHANGED <<alive, rows, ops, cause>> /\ ops[Ui].pc = "free"
  BY DEF Settle, screen, CanTouch, Busy
<1>3. Renames' = Renames
  BY <1>2 DEF Renames
<1>4. CASE UNCHANGED batch
  BY <1>1, <1>2, <1>3, <1>4, RowsStay DEF Apart
<1>5. ASSUME NEW K \in SUBSET Swiped, K \subseteq Kept, IsFiniteSet(K), batch' \in Descending(K)
      PROVE  Placed'
  <2> SUFFICES ASSUME Apart' PROVE Placed'
    BY DEF Placed
  <2>1. alive /\ IsInjective(rows) /\ \A k \in Holders : Means(k)
    BY <1>2 DEF Placed, Apart
  <2>2. /\ batch' \in Seq(Kept) /\ ToSet(batch') = K
        /\ \A i, j \in DOMAIN batch' : (batch'[i] = batch'[j] => i = j)
                                       /\ (i < j => batch'[i].pos >= batch'[j].pos)
    BY <1>5, BatchIs
  <2>3. Downwards'
    <3> SUFFICES ASSUME NEW i \in DOMAIN batch', NEW j \in DOMAIN batch', i < j
                 PROVE  batch'[i].pos > batch'[j].pos
      BY DEF Downwards
    <3>1. batch'[i] \in K /\ batch'[j] \in K
      BY <2>2, SeqElements
    <3>2. /\ batch'[i] \in Kept /\ batch'[j] \in Kept
          /\ Means(batch'[i]) /\ Means(batch'[j])
      BY <1>5, <2>1, <3>1 DEF Holders
    <3>3. i \in Nat /\ j \in Nat /\ batch'[i].pos >= batch'[j].pos /\ batch'[i] # batch'[j]
      BY <2>2
    <3>4. batch'[i].pos # batch'[j].pos
      BY <3>2, <3>3 DEF Means, Kept
    <3>5. batch'[i].pos \in Nat /\ batch'[j].pos \in Nat
      BY <3>2 DEF Kept
    <3> QED
      BY <3>3, <3>4, <3>5
  <2>4. Below'
    <3>1. ops[Ui] = Free /\ Free.row = None
      BY <1>2 DEF Shaped, Running, Shape, Threads, Free
    <3>2. \A i \in DOMAIN rows : rows[i] # None
      BY OthersAssumption DEF Shaped, WellTyped, ScreenTyped, Rows
    <3> QED
      BY <1>2, <3>1, <3>2 DEF Below
  <2>5. ASSUME NEW k \in Holders' PROVE Means(k)'
    <3>1. (ToSet(batch))' = K
      BY <2>2 DEF ToSet
    <3>2. k \in Holders
      BY <1>1, <1>3, <3>1 DEF Holders
    <3> QED
      BY <1>2, <2>1, <3>2 DEF Means
  <2>6. alive' /\ IsInjective(rows)'
    BY <1>2, <2>1 DEF IsInjective
  <2> QED
    BY <2>3, <2>4, <2>5, <2>6 DEF Placed
<1> QED
  BY <1>1, <1>4, <1>5

(* The next position of a batch: those after it are lower, and the row at it  *)
(* is shown once.                                                           *)
LEMMA DismissPlaced == ASSUME Shaped, Placed, Dismiss PROVE Placed'
<1> DEFINE i == Head(batch).pos
           x == [Op("delete") EXCEPT !.row = rows[i]]
<1>1. batch \in Seq(Kept) /\ batch # <<>> /\ ops[Ui].pc = "free" /\ UNCHANGED rows
  BY DEF Dismiss, Shaped, WellTyped, FingersTyped, screen
<1>2. /\ Head(batch) = batch[1] /\ 1 \in DOMAIN batch /\ Len(batch) \in Nat
      /\ DOMAIN batch = 1 .. Len(batch) /\ DOMAIN Tail(batch) = 1 .. Len(batch) - 1
      /\ \A j \in DOMAIN Tail(batch) : Tail(batch)[j] = batch[j + 1]
  BY <1>1, HeadTailProperties, EmptySeq
<1>3. Head(batch) \in Holders
  BY <1>2 DEF Holders, ToSet
<1>4. CASE /\ i \in DOMAIN rows /\ ops' = [ops EXCEPT ![Ui] = x]
           /\ batch' = Tail(batch) /\ Chosen(rows[i]) /\ UNCHANGED <<alive, refs, swipes>>
  <2> SUFFICES ASSUME Apart' PROVE Placed'
    BY DEF Placed
  <2>1. alive /\ IsInjective(rows) /\ Downwards /\ \A k \in Holders : Means(k)
    BY <1>4, ChosenApart DEF Placed
  <2>2. ops \in [Threads -> OpState] /\ Ui \in Threads /\ Workers \subseteq Threads
    BY DEF Shaped, WellTyped, Threads
  <2>3. x.row = rows[i]
    BY DEF Op, Free
  <2> HIDE DEF x
  <2>4. ops'[Ui] = x /\ \A w \in Workers : ops'[w] = ops[w]
    BY <1>4, <2>2, ThreadsAssumption
  <2>5. Renames' = Renames /\ Swiped' = Swiped
    BY <1>4, <2>4 DEF Renames, Swiped
  <2>6. ASSUME NEW k \in ToSet(batch') PROVE k \in ToSet(batch)
    BY <1>2, <1>4 DEF ToSet
  <2>7. Downwards'
    <3> SUFFICES ASSUME NEW a \in DOMAIN batch', NEW b \in DOMAIN batch', a < b
                 PROVE  batch'[a].pos > batch'[b].pos
      BY DEF Downwards
    <3>1. a + 1 \in DOMAIN batch /\ b + 1 \in DOMAIN batch /\ a + 1 < b + 1
      BY <1>2, <1>4
    <3> QED
      BY <1>2, <1>4, <2>1, <3>1 DEF Downwards
  <2>8. Below'
    <3> SUFFICES ASSUME NEW a \in DOMAIN rows, rows[a] = rows[i], NEW b \in DOMAIN batch'
                 PROVE  batch'[b].pos < a
      BY <1>1, <2>3, <2>4 DEF Below
    <3>1. a = i
      BY <1>4, <2>1 DEF IsInjective
    <3>2. b + 1 \in DOMAIN batch /\ 1 < b + 1 /\ batch'[b] = batch[b + 1]
      BY <1>2, <1>4
    <3>3. batch[1].pos > batch[b + 1].pos
      BY <1>2, <2>1, <3>2 DEF Downwards
    <3>4. \A j \in DOMAIN batch : batch[j] \in Kept
      BY <1>1
    <3>5. batch[1].pos \in Nat /\ batch[b + 1].pos \in Nat
      BY <1>2, <3>2, <3>4 DEF Kept
    <3> QED
      BY <1>2, <3>1, <3>2, <3>3, <3>5
  <2>9. ASSUME NEW k \in Holders' PROVE Means(k)'
    <3>1. (ToSet(batch))' = ToSet(batch')
      BY DEF ToSet
    <3>2. k \in Holders
      BY <2>5, <2>6, <3>1 DEF Holders
    <3> QED
      BY <1>1, <2>1, <3>2 DEF Means
  <2>10. alive' /\ IsInjective(rows)'
    BY <1>1, <1>4, <2>1 DEF IsInjective
  <2> QED
    BY <2>7, <2>8, <2>9, <2>10 DEF Placed
<1>5. CASE i \notin DOMAIN rows /\ UNCHANGED cause
  <2>1. ~ Means(Head(batch))
    BY <1>5 DEF Means
  <2> QED
    BY <1>3, <1>5, <2>1, DiesPlaced
<1> QED
  BY <1>4, <1>5 DEF Dismiss

(* A row is removed below every position that is kept, those apart that the   *)
(* user interface still deletes: nobody's position means another row.       *)
LEMMA RemovedPlaced ==
  ASSUME Shaped, Placed, NEW o, NEW kept, Removed(o, kept), Apart',
         Swiped \cup Renames \subseteq kept,
         \A i \in DOMAIN rows : rows[i] = o =>
           \A j \in DOMAIN batch : batch[j] \in kept \/ batch[j].pos < i
  PROVE  /\ Apart /\ alive /\ IsInjective(rows')
         /\ \A k \in Holders : k.pos \in DOMAIN rows' /\ rows'[k.pos] = k.row
         /\ \A a \in DOMAIN rows' :
              \/ a \in DOMAIN rows /\ rows'[a] = rows[a]
              \/ \A j \in DOMAIN batch : batch[j].pos < a
<1>1. /\ rows' = RemoveFirst(rows, o) /\ rows \in Seq(Rows)
      /\ cause' = IF \E i \in DOMAIN rows : rows[i] = o /\ \E k \in kept : k.pos >= i
                  THEN cause \cup {"shifted"} ELSE cause
  BY DEF Removed, Shaped, WellTyped, ScreenTyped
<1>2. Apart /\ \A i \in DOMAIN rows : rows[i] = o => \A k \in kept : ~ (k.pos >= i)
  <2>1. "shifted" \notin cause'
    BY DEF Apart
  <2> QED
    BY <1>1, <2>1 DEF Apart
<1>3. alive /\ IsInjective(rows) /\ \A k \in Holders : Means(k)
  BY <1>2 DEF Placed
<1>4. /\ IsInjective(rows')
      /\ \A p \in DOMAIN rows : (\A i \in DOMAIN rows : rows[i] = o => p < i) =>
           p \in DOMAIN rows' /\ rows'[p] = rows[p]
      /\ \A a \in DOMAIN rows' :
           (a \in DOMAIN rows /\ rows'[a] = rows[a]) \/ \E i \in DOMAIN rows : rows[i] = o /\ i <= a
  BY <1>1, <1>3, RemovedOnce
<1>5. \A k \in Holders : k \in kept \/ \E j \in DOMAIN batch : k = batch[j]
  BY DEF Holders, ToSet
<1>6. DOMAIN rows \subseteq Nat /\ rows' \in Seq(Rows) /\ DOMAIN rows' \subseteq Nat
  BY <1>1, RemovedFrom
<1>7. ASSUME NEW k \in Holders, NEW i \in DOMAIN rows, rows[i] = o PROVE k.pos < i
  <2>1. k.pos \in DOMAIN rows
    BY <1>3 DEF Means
  <2> QED
    BY <1>2, <1>5, <1>6, <1>7, <2>1
<1>8. \A k \in Holders : k.pos \in DOMAIN rows' /\ rows'[k.pos] = k.row
  BY <1>3, <1>4, <1>7 DEF Means
<1>9. ASSUME NEW a \in DOMAIN rows', NEW i \in DOMAIN rows, rows[i] = o, i <= a, NEW j \in DOMAIN batch
      PROVE  batch[j].pos < a
  <2>1. batch[j] \in Holders
    BY DEF Holders, ToSet
  <2>2. batch[j].pos < i /\ batch[j].pos \in DOMAIN rows
    BY <1>3, <1>7, <1>9, <2>1 DEF Means
  <2> QED
    BY <1>6, <1>9, <2>2
<1> QED
  BY <1>2, <1>3, <1>4, <1>8, <1>9

(* A thread has removed a row, and goes on or ends.                         *)
LEMMA RemovalPlaced ==
  ASSUME Shaped, Placed, NEW t \in Threads, NEW o, NEW kept, Removed(o, kept),
         Swiped \cup Renames \subseteq kept,
         ToSet(batch) \subseteq kept \/ (t = Ui /\ o = ops[Ui].row),
         ops[t].pc = "served", Goto(t, "removed"), UNCHANGED alive, UNCHANGED fingers
  PROVE  Placed'
<1> SUFFICES ASSUME Apart' PROVE Placed'
  BY DEF Placed
<1>1. ops \in [Threads -> OpState] /\ Ui \in Threads
  BY DEF Shaped, WellTyped, Threads
<1>2. ops' = [ops EXCEPT ![t] = [ops[t] EXCEPT !.pc = "removed"]]
  BY DEF Goto
<1>3. /\ Renames' \subseteq Renames
      /\ \/ ops'[Ui].row = None
         \/ ops'[Ui].row = ops[Ui].row /\ (ops'[Ui].pc \notin Changing => ops[Ui].pc \notin Changing)
  <2> DEFINE x == [ops[t] EXCEPT !.pc = "removed"]
  <2>1. x.op = ops[t].op /\ x.pos = ops[t].pos /\ x.row = ops[t].row
    BY <1>1 DEF OpState
  <2>2. ops' = [ops EXCEPT ![t] = x]
    BY <1>2
  <2> HIDE DEF x
  <2> QED
    BY <2>1, <2>2, ThreadKeeps
<1>4. UNCHANGED <<batch, swipes>> /\ Swiped' = Swiped
  BY DEF fingers, Swiped
<1>5. Apart => Below
  BY DEF Placed
<1>6. Apart
  BY DEF Apart, Removed
<1>7. ASSUME NEW i \in DOMAIN rows, rows[i] = o, NEW j \in DOMAIN batch
      PROVE  batch[j] \in kept \/ batch[j].pos < i
  <2>1. CASE ToSet(batch) \subseteq kept
    BY <2>1 DEF ToSet
  <2>2. CASE t = Ui /\ o = ops[Ui].row
    BY <1>5, <1>6, <1>7, <2>2 DEF Below
  <2> QED
    BY <2>1, <2>2
<1>8. /\ alive /\ IsInjective(rows')
      /\ \A k \in Holders : k.pos \in DOMAIN rows' /\ rows'[k.pos] = k.row
      /\ \A a \in DOMAIN rows' :
           \/ a \in DOMAIN rows /\ rows'[a] = rows[a]
           \/ \A j \in DOMAIN batch : batch[j].pos < a
  BY <1>7, RemovedPlaced
<1>9. Below'
  <2> SUFFICES ASSUME ops'[Ui].pc \notin Changing, NEW a \in DOMAIN rows', rows'[a] = ops'[Ui].row,
                      NEW j \in DOMAIN batch
               PROVE  batch[j].pos < a
    BY <1>4 DEF Below
  <2>1. rows'[a] # None
    <3>1. rows' \in Seq(Rows)
      BY RemovedTyped
    <3> QED
      BY <3>1, OthersAssumption DEF Rows
  <2>2. ops'[Ui].row = ops[Ui].row /\ ops[Ui].pc \notin Changing
    BY <1>3, <2>1
  <2> QED
    BY <1>5, <1>6, <1>8, <2>2 DEF Below
<1>10. ASSUME NEW k \in Holders' PROVE Means(k)'
  <2>1. (ToSet(batch))' = ToSet(batch)
    BY <1>4 DEF ToSet
  <2>2. k \in Holders
    BY <1>3, <1>4, <2>1 DEF Holders
  <2> QED
    BY <1>8, <2>2 DEF Means
<1>11. alive' /\ IsInjective(rows)' /\ Downwards'
  <2>1. Downwards
    BY <1>6 DEF Placed
  <2> QED
    BY <1>4, <1>8, <2>1 DEF Downwards, IsInjective
<1> QED
  BY <1>9, <1>10, <1>11 DEF Placed

LEMMA ReturnDeletePlaced ==
  ASSUME Shaped, Placed, NEW t \in Threads, ReturnDelete(t)
  PROVE  Placed'
<1> DEFINE kept == Swiped \cup Renames \cup (IF t = Ui THEN {} ELSE ToSet(batch))
<1>1. Removed(ops[t].row, kept)
  BY DEF ReturnDelete
<1>2. /\ ops[t].pc = "served" /\ Goto(t, "removed")
      /\ UNCHANGED alive /\ UNCHANGED fingers
  BY DEF ReturnDelete, Success
<1>3. /\ Swiped \cup Renames \subseteq kept
      /\ ToSet(batch) \subseteq kept \/ (t = Ui /\ ops[t].row = ops[Ui].row)
  OBVIOUS
<1> HIDE DEF kept
<1> QED
  BY <1>1, <1>2, <1>3, RemovalPlaced

LEMMA ReturnAddPlaced == ASSUME Shaped, Placed, NEW t \in Threads, ReturnAdd(t) PROVE Placed'
<1>1. Removed(Vacant, Holders) /\ Goto(t, "removed") /\ ops[t].pc = "served" /\ UNCHANGED alive /\ UNCHANGED fingers
  BY DEF ReturnAdd, Success, Holders
<1>2. Swiped \cup Renames \subseteq Holders /\ ToSet(batch) \subseteq Holders
  BY DEF Holders
<1> QED
  BY <1>1, <1>2, RemovalPlaced

(* The row that says there is no list comes to a screen that is still empty, *)
(* where nobody can keep a position, or the history says so.                *)
LEMMA AddVacantPlaced ==
  ASSUME Shaped, Placed, NEW t \in Threads, AddVacant(t)
  PROVE  Placed'
<1> SUFFICES ASSUME Apart' PROVE Placed'
  BY DEF Placed
<1>1. /\ rows' = Append(rows, Vacant) /\ Goto(t, "filled")
      /\ UNCHANGED alive /\ UNCHANGED fingers
  BY DEF AddVacant
<1>2. rows = <<>> /\ Apart
  BY DEF Apart, AddVacant, Raced
<1>3. alive /\ Holders = {}
  <2>1. \A k \in Holders : Means(k)
    BY <1>2 DEF Placed
  <2> QED
    BY <1>2, <2>1 DEF Placed, Means
<1>4. Renames' \subseteq Renames
  <2> DEFINE x == [ops[t] EXCEPT !.pc = "filled"]
  <2>1. /\ x.op = ops[t].op /\ x.pos = ops[t].pos /\ x.row = ops[t].row /\ x.pc = "filled"
        /\ ops' = [ops EXCEPT ![t] = x]
    BY <1>1 DEF Shaped, WellTyped, OpState, Goto
  <2> HIDE DEF x
  <2> QED
    BY <2>1, ThreadKeeps
<1>5. Swiped' = Swiped /\ (ToSet(batch))' = ToSet(batch)
  BY <1>1 DEF fingers, Swiped, ToSet
<1>6. Holders' = {} /\ DOMAIN batch' = {}
  BY <1>3, <1>4, <1>5 DEF Holders, ToSet
<1>7. IsInjective(rows)'
  <2>1. <<>> \in Seq(Rows) /\ ToSet(<<>>) = {} /\ IsInjective(<<>>) /\ Vacant \in Rows
    BY DEF ToSet, IsInjective, Rows
  <2>2. IsInjective(Append(<<>>, Vacant))
    BY <2>1, Appended
  <2> QED
    BY <1>1, <1>2, <2>2 DEF IsInjective
<1>8. Downwards' /\ Below'
  BY <1>6 DEF Downwards, Below
<1> QED
  BY <1>1, <1>3, <1>6, <1>7, <1>8 DEF Placed

LEMMA AddRowPlaced == ASSUME Shaped, Placed, NEW t \in Threads, AddRow(t) PROVE Placed'
<1> SUFFICES ASSUME Apart' PROVE Placed'
  BY DEF Placed
<1>1. PICK o \in Unused : rows' = Append(rows, o)
  BY DEF AddRow
<1>2. Goto(t, "filled") /\ UNCHANGED <<alive, cause>> /\ UNCHANGED fingers
  BY DEF AddRow
<1>3. alive /\ IsInjective(rows) /\ Downwards /\ Below /\ \A k \in Holders : Means(k)
  BY <1>2 DEF Placed, Apart
<1>4. Swiped' = Swiped /\ UNCHANGED batch
  BY <1>2 DEF fingers, Swiped
<1>5. /\ Renames' \subseteq Renames
      /\ \/ ops'[Ui].row = None
         \/ ops'[Ui].row = ops[Ui].row /\ (ops'[Ui].pc \notin Changing => ops[Ui].pc \notin Changing)
  <2> DEFINE x == [ops[t] EXCEPT !.pc = "filled"]
  <2>1. /\ x.op = ops[t].op /\ x.pos = ops[t].pos /\ x.row = ops[t].row /\ x.pc = "filled"
        /\ ops' = [ops EXCEPT ![t] = x]
    BY <1>2 DEF Shaped, WellTyped, OpState, Goto
  <2> HIDE DEF x
  <2> QED
    BY <2>1, ThreadKeeps
<1>6. o # None /\ o \notin ToSet(rows) /\ o \in Rows /\ ops[Ui].row # o
  BY UnusedIs DEF Threads
<1>7. /\ IsInjective(rows')
      /\ \A i \in DOMAIN rows : i \in DOMAIN rows' /\ rows'[i] = rows[i]
      /\ \A i \in DOMAIN rows' :
           (i \in DOMAIN rows /\ rows'[i] = rows[i]) \/ (i = Len(rows) + 1 /\ rows'[i] = o)
  BY <1>1, <1>3, <1>6, Appended DEF Shaped, WellTyped, ScreenTyped
<1>8. Below'
  <2> SUFFICES ASSUME ops'[Ui].pc \notin Changing, NEW a \in DOMAIN rows', rows'[a] = ops'[Ui].row,
                      NEW j \in DOMAIN batch
               PROVE  batch[j].pos < a
    BY <1>4 DEF Below
  <2>1. rows'[a] # None
    BY <1>6, <1>7, OthersAssumption DEF Shaped, WellTyped, ScreenTyped, Rows
  <2>2. a \in DOMAIN rows /\ rows'[a] = rows[a]
    BY <1>5, <1>6, <1>7, <2>1
  <2> QED
    BY <1>3, <1>5, <2>1, <2>2 DEF Below
<1>9. ASSUME NEW k \in Holders' PROVE Means(k)'
  <2>1. (ToSet(batch))' = ToSet(batch)
    BY <1>4 DEF ToSet
  <2>2. k \in Holders
    BY <1>4, <1>5, <2>1 DEF Holders
  <2> QED
    BY <1>3, <1>7, <2>2 DEF Means
<1>10. alive' /\ Downwards' /\ IsInjective(rows)'
  BY <1>2, <1>3, <1>4, <1>7 DEF Downwards, IsInjective
<1> QED
  BY <1>8, <1>9, <1>10 DEF Placed

(* The rows stay; a new listener keeps some of the rows that are swiped.     *)
LEMMA ListenersPlaced ==
  ASSUME Shaped, Placed, NEW t \in Threads,
         TakeClicks(t) \/ TakeTouches(t) \/ SetClicks(t) \/ SetTouches(t)
  PROVE  Placed'
<1>1. UNCHANGED <<alive, rows>>
  BY DEF TakeClicks, TakeTouches, SetClicks, SetTouches
<1>2. Apart' => Apart
  BY DEF TakeClicks, TakeTouches, SetClicks, SetTouches, Take, Set, Raced, Apart
<1>3. CASE TakeClicks(t) \/ SetClicks(t)
  BY <1>1, <1>2, <1>3, GotoPlaced DEF TakeClicks, SetClicks
<1>4. CASE TakeTouches(t)
  BY <1>1, <1>2, <1>4, EndsPlaced DEF TakeTouches
<1>5. CASE SetTouches(t)
  <2>1. NewListener /\ ops' = [ops EXCEPT ![t] = Free] /\ UNCHANGED batch
    BY <1>5 DEF SetTouches, Ends
  <2>2. Swiped' \subseteq Swiped
    BY <2>1, NewListenerTyped DEF Shaped, WellTyped
  <2>3. /\ Renames' \subseteq Renames
        /\ \/ ops'[Ui].row = None
           \/ ops'[Ui].row = ops[Ui].row /\ (ops'[Ui].pc \notin Changing => ops[Ui].pc \notin Changing)
    BY <2>1, ThreadKeeps
  <2> QED
    BY <1>1, <1>2, <2>1, <2>2, <2>3, RowsStay
<1> QED
  BY <1>3, <1>4, <1>5

LEMMA ReturnRenamePlaced ==
  ASSUME Shaped, Placed, NEW t \in Threads, ReturnRename(t)
  PROVE  Placed'
<1>1. ops[t].op = "rename" /\ UNCHANGED <<rows, cause>>
  BY DEF ReturnRename, Success
<1>2. CASE Ends(t) /\ UNCHANGED <<alive, refs, swipes, batch>>
  BY <1>1, <1>2, EndsPlaced DEF fingers, Apart
<1>3. CASE ops[t].pos \notin DOMAIN rows
  <2> DEFINE k == [pos |-> ops[t].pos, row |-> ops[t].row]
  <2>1. t \in Workers
    <3>1. t # Ui /\ t # Loader
      BY <1>1 DEF Shaped, Running, Shape
    <3> QED
      BY <3>1 DEF Threads
  <2>2. k \in Holders /\ ~ Means(k)
    BY <1>1, <1>3, <2>1 DEF Holders, Renames, Means
  <2> HIDE DEF k
  <2> QED
    BY <1>1, <2>2, DiesPlaced
<1> QED
  BY <1>2, <1>3 DEF ReturnRename

(* Before getLists has filled the rows nobody keeps a position.              *)
LEMMA ReturnLoadPlaced == ASSUME Shaped, Placed, ReturnLoad PROVE Placed'
<1> DEFINE N == ops[Loader].names
<1> SUFFICES ASSUME Apart' PROVE Placed'
  BY DEF Placed
<1>1. /\ ops[Loader].pc = "served" /\ ops[Loader].op = "load" /\ Loader \in Threads
      /\ UNCHANGED <<alive, cause>> /\ UNCHANGED fingers
  BY DEF ReturnLoad, Success, Threads
<1>2. N \in SUBSET Names /\ ~ loaded /\ ops[Loader] \in OpState
  BY <1>1, AtWork DEF OpState
<1>3. alive /\ IsInjective(rows) /\ rows \in Seq(Rows)
  BY <1>1 DEF Placed, Apart, Shaped, WellTyped, ScreenTyped
<1>4. /\ swipes = {} /\ batch = <<>> /\ Vacant \notin ToSet(rows)
      /\ \A w \in Workers : ops[w].op # "rename"
  BY <1>2 DEF Shaped, Opened
<1>5. Swiped' = {} /\ (ToSet(batch))' = {} /\ DOMAIN batch' = {}
  BY <1>1, <1>4 DEF fingers, Swiped, ToSet
<1>6. Renames' = {}
  <2> DEFINE x == [ops[Loader] EXCEPT !.pc = "filled"]
  <2>1. ops' = [ops EXCEPT ![Loader] = Free] \/ ops' = [ops EXCEPT ![Loader] = x]
    BY DEF ReturnLoad, Goto, Ends
  <2>2. Renames = {}
    BY <1>4 DEF Renames
  <2>3. /\ x.op = ops[Loader].op /\ x.pos = ops[Loader].pos /\ x.row = ops[Loader].row
        /\ x.pc \in Changing
    BY <1>2 DEF OpState
  <2> HIDE DEF x
  <2> QED
    BY <1>1, <2>1, <2>2, <2>3, ThreadKeeps
<1>7. Holders' = {}
  BY <1>5, <1>6 DEF Holders
<1>8. IsInjective(rows')
  <2>1. CASE \E new \in Injection(1 .. Cardinality(N), Unused) : \E name \in Bijection(Range(new), N) :
                /\ rows' = rows \o new
                /\ label' = [o \in DOMAIN label |-> IF o \in Range(new) THEN name[o] ELSE label[o]]
    <3> HIDE DEF N
    <3>1. PICK new \in Injection(1 .. Cardinality(N), Unused) : \E name \in Bijection(Range(new), N) :
                /\ rows' = rows \o new
                /\ label' = [o \in DOMAIN label |-> IF o \in Range(new) THEN name[o] ELSE label[o]]
      BY <2>1
    <3>2. PICK name \in Bijection(Range(new), N) :
                /\ rows' = rows \o new
                /\ label' = [o \in DOMAIN label |-> IF o \in Range(new) THEN name[o] ELSE label[o]]
      BY <3>1
    <3>3. new \in Seq(Unused) /\ IsInjective(new) /\ ToSet(new) \subseteq Unused
      BY <1>2, <3>2, Filled
    <3>4. ASSUME NEW i \in DOMAIN rows, NEW j \in DOMAIN new PROVE rows[i] # new[j]
      <4>1. new[j] \in Unused /\ rows[i] \in ToSet(rows)
        BY <1>3, <3>3, SeqElements
      <4> QED
        BY <4>1, UnusedIs
    <3>5. /\ DOMAIN rows' = 1 .. Len(rows) + Len(new) /\ Len(rows) \in Nat /\ Len(new) \in Nat
          /\ \A i \in 1 .. Len(rows) + Len(new) :
               rows'[i] = IF i <= Len(rows) THEN rows[i] ELSE new[i - Len(rows)]
      <4>1. Unused \subseteq Rows
        BY DEF Unused, Rows
      <4>2. new \in Seq(Rows)
        BY <3>3, <4>1, SeqMonotonic
      <4> QED
        BY <1>3, <3>2, <4>2, ConcatProperties
    <3>6. /\ DOMAIN rows = 1 .. Len(rows) /\ DOMAIN new = 1 .. Len(new)
          /\ \A i, j \in 1 .. Len(rows) : rows[i] = rows[j] => i = j
          /\ \A i, j \in 1 .. Len(new) : new[i] = new[j] => i = j
      <4>1. DOMAIN rows = 1 .. Len(rows) /\ DOMAIN new = 1 .. Len(new)
        BY <1>3, <3>3
      <4> QED
        BY <1>3, <3>3, <4>1 DEF IsInjective
    <3> SUFFICES ASSUME NEW a \in DOMAIN rows', NEW b \in DOMAIN rows', rows'[a] = rows'[b] PROVE a = b
      BY DEF IsInjective
    <3>7. CASE a <= Len(rows) /\ b <= Len(rows)
      BY <3>5, <3>6, <3>7
    <3>8. CASE a <= Len(rows) /\ ~ (b <= Len(rows))
      <4>1. a \in DOMAIN rows /\ b - Len(rows) \in DOMAIN new /\ rows[a] = new[b - Len(rows)]
        BY <3>5, <3>6, <3>8
      <4> QED
        BY <3>4, <4>1
    <3>9. CASE ~ (a <= Len(rows)) /\ b <= Len(rows)
      <4>1. b \in DOMAIN rows /\ a - Len(rows) \in DOMAIN new /\ rows[b] = new[a - Len(rows)]
        BY <3>5, <3>6, <3>9
      <4> QED
        BY <3>4, <4>1
    <3>10. CASE ~ (a <= Len(rows)) /\ ~ (b <= Len(rows))
      <4>1. /\ a - Len(rows) \in 1 .. Len(new) /\ b - Len(rows) \in 1 .. Len(new)
            /\ new[a - Len(rows)] = new[b - Len(rows)]
        BY <3>5, <3>10
      <4>2. a - Len(rows) = b - Len(rows)
        BY <3>6, <4>1
      <4> QED
        BY <3>5, <4>2
    <3> QED
      BY <3>7, <3>8, <3>9, <3>10
  <2>2. CASE rows' = Append(rows, Vacant)
    BY <1>3, <1>4, <2>2, Appended DEF Rows
  <2> QED
    BY <2>1, <2>2 DEF ReturnLoad
<1>9. Downwards' /\ Below'
  BY <1>5 DEF Downwards, Below
<1> QED
  BY <1>1, <1>3, <1>7, <1>8, <1>9 DEF Placed, IsInjective

LEMMA NextPlaced == ASSUME Shaped, Placed, [Next]_vars PROVE Placed'
<1>1. CASE UNCHANGED vars
  <2>1. UNCHANGED <<alive, rows, batch, ops, swipes, cause>>
    BY <1>1 DEF vars, screen, fingers
  <2>2. Swiped' = Swiped /\ Renames' = Renames
    BY <2>1 DEF Swiped, Renames
  <2> QED
    BY <2>1, <2>2, RowsStay DEF Apart
<1>2. CASE ByUser
  <2>1. ASSUME NEW w \in Workers, Cancel(w) PROVE Placed'
    BY <2>1, EndsPlaced DEF Cancel, Threads, screen, Apart
  <2> QED
    BY <1>2, <2>1, NamesAssumption, ReopenPlaced, ConfirmAddPlaced, LongClickPlaced, ConfirmPlaced, DownPlaced
       DEF ByUser
<1>3. CASE Touching
  BY <1>3, UpPlaced, SettlePlaced DEF Touching
<1>4. ASSUME NEW t \in Threads, Exchange(t) PROVE Placed'
  <2>1. ASSUME ReturnFailure(t) PROVE Placed'
    BY <2>1, EndsPlaced DEF ReturnFailure, screen, Apart
  <2>2. ASSUME Count(t) PROVE Placed'
    BY <2>2, EndsPlaced, GotoPlaced DEF Count, Apart
  <2> QED
    BY <1>4, <2>1, <2>2, ServePlaced, LosePlaced, ReturnDeletePlaced, AddVacantPlaced,
       ReturnAddPlaced, AddRowPlaced, ListenersPlaced, ReturnRenamePlaced DEF Exchange, Return
<1> QED
  BY <1>1, <1>2, <1>3, <1>4, ReturnLoadPlaced, DismissPlaced DEF Next

(* From the touch or the long click to the answer, a position means the row   *)
(* it was kept for, unless another thread removed a row above or two threads *)
(* raced for the row that says there is no list: remove in onDismiss and     *)
(* setNom in editListName hit the row the user chose.                       *)
THEOREM PositionsAreHeld == Spec => []PositionsHold
<1>1. Init => Shaped /\ Placed
  BY InitShaped, InitPlaced
<1>2. Shaped /\ Placed /\ [Next]_vars => Shaped' /\ Placed'
  BY NextShaped, NextPlaced
<1>3. Placed => PositionsHold
  BY DEF Placed, PositionsHold, Apart, Holders, Means
<1> QED
  BY <1>1, <1>2, <1>3, PTL DEF Spec

----------------------------------------------------------------------------
(* The screen and the account.                                              *)

\* Who tells the screen a name the account has: a row whose change is not under way
\* at the server or behind it, and a thread that brings what the server has made.
Shown == ToSet(rows)
Settled(o) == o \in Objects /\ o \in Shown /\ \A t \in Threads : ops[t].ok => ops[t].row # o
Bringing(t) ==
  ops[t].ok /\ ops[t].op \in {"add", "rename"} /\ ops[t].pc \notin {"filled", "clicks"}

\* Each name of the account is told once, and nothing else is.
Known ==
  /\ \A o \in Objects : Settled(o) => Sent(label[o]) \in DOMAIN table
  /\ \A t \in Threads : Bringing(t) => Sent(ops[t].name) \in DOMAIN table
  /\ loaded => \A n \in DOMAIN table :
       \/ \E o \in Objects : Settled(o) /\ Sent(label[o]) = n
       \/ \E t \in Threads : Bringing(t) /\ Sent(ops[t].name) = n
  /\ \A o, p \in Objects : Settled(o) /\ Settled(p) /\ Sent(label[o]) = Sent(label[p]) => o = p
  /\ \A t, u \in Threads : Bringing(t) /\ Bringing(u) /\ Sent(ops[t].name) = Sent(ops[u].name) => t = u
  /\ \A o \in Objects, t \in Threads : Settled(o) /\ Bringing(t) => Sent(label[o]) # Sent(ops[t].name)

\* One thread at a time changes a row, and the row is there until its answer.
OneEach ==
  /\ \A t, u \in Threads : ops[t].row = ops[u].row /\ ops[t].row # None => t = u
  /\ \A t \in Threads : ops[t].row # Vacant
  /\ \A t \in Threads : ops[t].row # None => (ops[t].row \in Shown <=> ops[t].pc \notin Changing)

\* When there are rows, and which; and who has still to set or to take a listener
\* that the rows want, or do not.
Filling ==
  /\ ~ loaded => /\ rows = <<>> /\ armed = {} /\ \A w \in Workers : ops[w] = Free
                 /\ ops[Loader].ok => ops[Loader].names = DOMAIN table
  /\ loaded /\ rows = <<>> => \E t \in Threads : ops[t].pc \in {"removed", "empty"}
  /\ Vacant \in Shown => rows = <<Vacant>> /\ \A k \in armed : Taking(k)
  /\ Shown \cap Objects # {} => \A k \in {"click", "touch"} : k \in armed \/ Setting(k)
  /\ \A t \in Threads : ops[t].op = "add" /\ ops[t].pc = "removed" => Vacant \notin Shown
  /\ label[Vacant] = None

\* What makes ScreenTrue inductive, as long as nothing came between.
Agree == OneEach /\ Filling /\ Known
Exact == cause = {} => Agree

(* What is under way with the listeners does not change with a thread that   *)
(* does not change the rows.                                                *)
LEMMA ListenersStay ==
  ASSUME NEW t \in Threads, \A u \in Threads : u # t => ops'[u] = ops[u],
         ops[t].pc \notin Changing, ops'[t].pc \notin Changing
  PROVE  \A k \in {"click", "touch"} : (Setting(k)' <=> Setting(k)) /\ (Taking(k)' <=> Taking(k))
<1> SUFFICES ASSUME NEW k \in {"click", "touch"}
             PROVE  (Setting(k)' <=> Setting(k)) /\ (Taking(k)' <=> Taking(k))
  OBVIOUS
<1>1. Before(k) \subseteq {"filled", "clicks"} /\ Workers \subseteq Threads
  BY DEF Before, Threads
<1>2. \A u \in Threads : ops[u].pc \in Changing => ops'[u] = ops[u]
  OBVIOUS
<1>3. \A u \in Threads : ops'[u].pc \in Changing => ops'[u] = ops[u]
  OBVIOUS
<1> QED
  BY <1>1, <1>2, <1>3 DEF Setting, Taking

(* Nobody tells another name than before.                                   *)
LEMMA KnownStays ==
  ASSUME Known, DOMAIN table' = DOMAIN table, loaded' => loaded,
         \A o \in Objects : (Settled(o)' <=> Settled(o)) /\ (Settled(o) => label'[o] = label[o]),
         \A t \in Threads : (Bringing(t)' <=> Bringing(t)) /\ (Bringing(t) => ops'[t].name = ops[t].name)
  PROVE  Known'
<1>1. \A o \in Objects : Settled(o)' => Sent(label'[o]) \in DOMAIN table'
  BY DEF Known
<1>2. \A t \in Threads : Bringing(t)' => Sent(ops'[t].name) \in DOMAIN table'
  BY DEF Known
<1>3. ASSUME loaded', NEW n \in DOMAIN table'
      PROVE  \/ \E o \in Objects : Settled(o)' /\ Sent(label'[o]) = n
             \/ \E t \in Threads : Bringing(t)' /\ Sent(ops'[t].name) = n
  BY <1>3 DEF Known
<1>4. \A o, p \in Objects : Settled(o)' /\ Settled(p)' /\ Sent(label'[o]) = Sent(label'[p]) => o = p
  BY DEF Known
<1>5. \A t, u \in Threads : Bringing(t)' /\ Bringing(u)' /\ Sent(ops'[t].name) = Sent(ops'[u].name) => t = u
  BY DEF Known
<1>6. \A o \in Objects, t \in Threads : Settled(o)' /\ Bringing(t)' => Sent(label'[o]) # Sent(ops'[t].name)
  BY DEF Known
<1> QED
  BY <1>1, <1>2, <1>3, <1>4, <1>5, <1>6 DEF Known

(* A thread the server has made nothing for begins, goes on or ends: what it  *)
(* may have taken is a row that is there and that no other thread has.      *)
LEMMA QuietAgree ==
  ASSUME Shaped, Agree, NEW t \in Threads, NEW x, ops' = [ops EXCEPT ![t] = x], Shape(t, x),
         UNCHANGED <<table, rows, label, armed, loaded>>,
         ~ ops[t].ok \/ (t = Loader /\ ops[t].pc = "served"),
         ~ x.ok \/ (t = Loader /\ x.pc = "served" /\ x.names = DOMAIN table),
         ~ loaded => t = Loader,
         \/ x.row = None
         \/ /\ x.row \in ToSet(rows) /\ x.row # Vacant
            /\ x.row = ops[t].row \/ \A u \in Threads : ops[u].row # x.row
  PROVE  Agree'
<1>1. ops \in [Threads -> OpState] /\ Loader \in Threads /\ Workers \subseteq Threads
  BY DEF Shaped, WellTyped, Threads
<1>2. \A u \in Threads : ops'[u] = IF u = t THEN x ELSE ops[u]
  BY <1>1
<1>3. Shape(t, ops[t]) /\ ops[t].pc \notin Changing /\ x.pc \notin Changing
  BY DEF Shaped, Running, Shape
<1>4. /\ t = Loader => /\ x.row = None /\ ops[t].row = None
                       /\ x.op \notin {"add", "rename"} /\ ops[t].op \notin {"add", "rename"}
  BY <1>3 DEF Shape
<1>5. Shown' = Shown
  BY DEF Shown, ToSet
<1>6. \A o \in Objects : o # None
  BY OthersAssumption
<1>7. ASSUME NEW o \in Objects PROVE Settled(o)' <=> Settled(o)
  BY <1>2, <1>4, <1>5, <1>6 DEF Settled
<1>8. ASSUME NEW u \in Threads
      PROVE  (Bringing(u)' <=> Bringing(u)) /\ (Bringing(u) => ops'[u].name = ops[u].name)
  BY <1>2, <1>4 DEF Bringing
<1>9. Known'
  BY <1>7, <1>8, KnownStays DEF Agree
<1>10. OneEach'
  <2>1. ASSUME NEW u \in Threads, NEW v \in Threads, ops'[u].row = ops'[v].row, ops'[u].row # None
        PROVE  u = v
    <3>1. CASE u = t /\ v # t
      BY <1>2, <2>1, <3>1 DEF Agree, OneEach
    <3>2. CASE u # t /\ v = t
      BY <1>2, <2>1, <3>2 DEF Agree, OneEach
    <3>3. CASE u # t /\ v # t
      BY <1>2, <2>1, <3>3 DEF Agree, OneEach
    <3> QED
      BY <3>1, <3>2, <3>3
  <2>2. ASSUME NEW u \in Threads
        PROVE  /\ ops'[u].row # Vacant
               /\ ops'[u].row # None => (ops'[u].row \in Shown' <=> ops'[u].pc \notin Changing)
    <3>1. CASE u = t
      BY <1>2, <1>3, <1>5, <3>1, OthersAssumption DEF Shown
    <3>2. CASE u # t
      BY <1>2, <1>5, <3>2 DEF Agree, OneEach
    <3> QED
      BY <3>1, <3>2
  <2> QED
    BY <2>1, <2>2 DEF OneEach
<1>11. Filling'
  <2>1. ASSUME ~ loaded
        PROVE  /\ rows' = <<>> /\ armed' = {} /\ \A w \in Workers : ops'[w] = Free
               /\ ops'[Loader].ok => ops'[Loader].names = DOMAIN table'
    BY <1>1, <1>2, <2>1, ThreadsAssumption DEF Agree, Filling
  <2>2. ASSUME loaded, rows = <<>> PROVE \E u \in Threads : ops'[u].pc \in {"removed", "empty"}
    <3>1. PICK u \in Threads : ops[u].pc \in {"removed", "empty"}
      BY <2>2 DEF Agree, Filling
    <3>2. ops'[u].pc \in {"removed", "empty"}
      BY <1>2, <1>3, <3>1
    <3> QED
      BY <3>2
  <2>3. ASSUME NEW u \in Threads, ops'[u].op = "add", ops'[u].pc = "removed" PROVE Vacant \notin Shown'
    BY <1>2, <1>3, <1>5, <2>3 DEF Agree, Filling
  <2>4. \A k \in {"click", "touch"} : (Setting(k)' <=> Setting(k)) /\ (Taking(k)' <=> Taking(k))
    BY <1>2, <1>3, ListenersStay
  <2>5. armed \subseteq {"click", "touch"}
    BY DEF Shaped, WellTyped, ScreenTyped
  <2>6. /\ Vacant \in Shown' => rows' = <<Vacant>> /\ \A k \in armed' : Taking(k)'
        /\ Shown' \cap Objects # {} => \A k \in {"click", "touch"} : k \in armed' \/ Setting(k)'
        /\ label'[Vacant] = None
    BY <1>5, <2>4, <2>5 DEF Agree, Filling
  <2> QED
    BY <2>1, <2>2, <2>3, <2>6 DEF Filling
<1> QED
  BY <1>9, <1>10, <1>11 DEF Agree

(* Nothing of what the screen and the threads know changes.                 *)
LEMMA TouchAgree ==
  ASSUME Shaped, Agree, UNCHANGED <<table, rows, label, armed, loaded, ops>>
  PROVE  Agree'
<1>1. Shown' = Shown
  BY DEF Shown, ToSet
<1>2. \A o \in Objects : (Settled(o)' <=> Settled(o)) /\ (Settled(o) => label'[o] = label[o])
  BY <1>1 DEF Settled
<1>3. \A t \in Threads : (Bringing(t)' <=> Bringing(t)) /\ (Bringing(t) => ops'[t].name = ops[t].name)
  BY DEF Bringing
<1>4. Known'
  BY <1>2, <1>3, KnownStays DEF Agree
<1>5. \A k : (Setting(k)' <=> Setting(k)) /\ (Taking(k)' <=> Taking(k))
  BY DEF Setting, Taking
<1>6. OneEach' /\ Filling'
  BY <1>1, <1>5 DEF Agree, OneEach, Filling
<1> QED
  BY <1>4, <1>6 DEF Agree

(* A screen that has just been opened.                                      *)
LEMMA InitExact == ASSUME Init PROVE Agree
<1>1. /\ rows = <<>> /\ swipes = {} /\ batch = <<>> /\ armed = {} /\ ~ loaded
      /\ \A t \in Threads : ops[t] = IF t = Loader THEN Op("load") ELSE Free
  BY DEF Init
<1>2. \A t \in Threads : ops[t].row = None /\ ~ ops[t].ok /\ ops[t].op # "add"
  <2>1. /\ Op("load").row = None /\ ~ Op("load").ok /\ Op("load").op # "add"
        /\ Free.row = None /\ ~ Free.ok /\ Free.op # "add"
    BY DEF Op, Free
  <2> QED
    BY <1>1, <2>1
<1>3. Loader \in Threads /\ \A w \in Workers : ops[w] = Free
  BY <1>1, ThreadsAssumption DEF Threads
<1>4. Shown = {} /\ (\A o : ~ Settled(o)) /\ \A t \in Threads : ~ Bringing(t)
  BY <1>1, <1>2 DEF Shown, ToSet, Settled, Bringing
<1>5. OneEach
  BY <1>2, OthersAssumption DEF OneEach
<1>6. Filling
  <2>1. label[Vacant] = None
    BY DEF Init
  <2> QED
    BY <2>1, <1>1, <1>2, <1>3, <1>4 DEF Filling
<1>7. Known
  BY <1>1, <1>4 DEF Known
<1> QED
  BY <1>5, <1>6, <1>7 DEF Agree

LEMMA ReopenExact == ASSUME Reopen PROVE Agree'
<1>1. /\ rows' = <<>> /\ swipes' = {} /\ batch' = <<>> /\ armed' = {} /\ ~ loaded'
      /\ \A t \in Threads : ops'[t] = IF t = Loader THEN Op("load") ELSE Free
  BY DEF Reopen
<1>2. \A t \in Threads : ops'[t].row = None /\ ~ ops'[t].ok /\ ops'[t].op # "add"
  <2>1. /\ Op("load").row = None /\ ~ Op("load").ok /\ Op("load").op # "add"
        /\ Free.row = None /\ ~ Free.ok /\ Free.op # "add"
    BY DEF Op, Free
  <2> QED
    BY <1>1, <2>1
<1>3. Loader \in Threads /\ \A w \in Workers : ops'[w] = Free
  BY <1>1, ThreadsAssumption DEF Threads
<1>4. Shown' = {} /\ (\A o : ~ Settled(o)') /\ \A t \in Threads : ~ Bringing(t)'
  BY <1>1, <1>2 DEF Shown, ToSet, Settled, Bringing
<1>5. OneEach'
  BY <1>2, OthersAssumption DEF OneEach
<1>6. Filling'
  <2>1. label'[Vacant] = None
    BY DEF Reopen
  <2> QED
    BY <2>1, <1>1, <1>2, <1>3, <1>4 DEF Filling
<1>7. Known'
  BY <1>1, <1>4 DEF Known
<1> QED
  BY <1>5, <1>6, <1>7 DEF Agree

LEMMA ConfirmAddExact ==
  ASSUME Shaped, Exact, NEW w \in Workers, NEW n \in Names, ConfirmAdd(w, n)
  PROVE  Exact'
<1> SUFFICES ASSUME cause' = {} PROVE Agree'
  BY DEF Exact
<1> DEFINE x == [Op("add") EXCEPT !.name = n]
<1>1. Agree /\ loaded /\ UNCHANGED fingers /\ w \in Threads
  BY DEF ConfirmAdd, Exact, Threads
<1>2. x \in OpState /\ Shape(w, x) /\ x.row = None /\ ~ x.ok
  BY OpsTyped
<1>3. ops' = [ops EXCEPT ![w] = x] /\ ops[w].pc = "free" /\ UNCHANGED <<table, rows, label, armed, loaded>>
  BY DEF ConfirmAdd
<1>4. ~ ops[w].ok
  BY <1>1, <1>3 DEF Shaped, Running, Shape
<1> HIDE DEF x
<1> QED
  BY <1>1, <1>2, <1>3, <1>4, QuietAgree

\* A row is taken that no other thread has.
LEMMA ChosenOnce ==
  ASSUME NEW o, Chosen(o), cause' = {}
  PROVE  cause = {} /\ o # Vacant /\ \A t \in Threads : ops[t].row # o
  BY DEF Chosen

LEMMA LongClickExact ==
  ASSUME Shaped, Exact, NEW w \in Workers, NEW i \in DOMAIN rows, NEW n \in Names,
         NEW op \in {Op("delete"), Rename(i, n)}, LongClick(w, i, op)
  PROVE  Exact'
<1> SUFFICES ASSUME cause' = {} PROVE Agree'
  BY DEF Exact
<1> DEFINE x == [op EXCEPT !.row = rows[i], !.pc = "dialog"]
<1>1. /\ Agree /\ loaded /\ UNCHANGED fingers /\ w \in Threads
      /\ rows[i] # Vacant /\ \A t \in Threads : ops[t].row # rows[i]
  BY ChosenOnce DEF LongClick, Exact, OnRow, Threads
<1>2. rows[i] \in Rows /\ i \in Nat \ {0} /\ rows[i] \in ToSet(rows)
  BY SeqElements DEF Shaped, WellTyped, ScreenTyped
<1>3. Shape(w, x) /\ x.row = rows[i] /\ ~ x.ok
  <2>1. CASE op = Op("delete")
    <3>1. Shape(w, x)
      BY <1>2, <2>1, OpsTyped
    <3>2. x.row = rows[i] /\ ~ x.ok
      BY <2>1 DEF Op, Free
    <3> QED
      BY <3>1, <3>2
  <2>2. CASE op = Rename(i, n)
    <3>1. Shape(w, x)
      BY <1>2, <2>2, OpsTyped
    <3>2. x.row = rows[i] /\ ~ x.ok
      BY <2>2 DEF Rename, Op, Free
    <3> QED
      BY <3>1, <3>2
  <2> QED
    BY <2>1, <2>2
<1>4. ops' = [ops EXCEPT ![w] = x] /\ ops[w].pc = "free" /\ UNCHANGED <<table, rows, label, armed, loaded>>
  BY DEF LongClick, screen
<1>5. ~ ops[w].ok
  BY <1>1, <1>4 DEF Shaped, Running, Shape
<1> HIDE DEF x
<1> QED
  BY <1>1, <1>2, <1>3, <1>4, <1>5, QuietAgree

LEMMA ConfirmExact == ASSUME Shaped, Exact, NEW w \in Workers, Confirm(w) PROVE Exact'
<1> SUFFICES ASSUME cause' = {} PROVE Agree'
  BY DEF Exact
<1> DEFINE x == [ops[w] EXCEPT !.pc = "sent"]
<1>1. /\ Agree /\ UNCHANGED fingers /\ w \in Threads /\ ops[w].pc = "dialog"
      /\ ops' = [ops EXCEPT ![w] = x] /\ UNCHANGED <<table, rows, label, armed, loaded>>
  BY DEF Confirm, Goto, Exact, Threads
<1>2. ops[w] \in OpState /\ Shape(w, ops[w]) /\ ops[w] # Free
  BY <1>1, AtWork
<1>3. Shape(w, x) /\ x.row = ops[w].row /\ x.ok = ops[w].ok
  BY <1>1, <1>2, FieldsKept DEF OpState
<1>4. ~ ops[w].ok /\ loaded /\ ops[w].row \in ToSet(rows) /\ ops[w].row # Vacant
  <2>1. ops[w].op \in {"delete", "rename"} /\ ops[w].row # None /\ ~ ops[w].ok
    BY <1>1, <1>2 DEF Shape
  <2> QED
    BY <1>1, <2>1, AtWork DEF Agree, OneEach, Shown
<1> HIDE DEF x
<1> QED
  BY <1>1, <1>3, <1>4, QuietAgree

(* A thread ends for which the server has made nothing.                     *)
LEMMA EndsExact ==
  ASSUME Shaped, Exact, NEW t \in Threads, Ends(t), ~ ops[t].ok, ops[t].pc # "free",
         UNCHANGED <<table, rows, label, armed, loaded, cause>>, UNCHANGED fingers
  PROVE  Exact'
<1> SUFFICES ASSUME cause' = {} PROVE Agree'
  BY DEF Exact
<1>1. Agree /\ ops' = [ops EXCEPT ![t] = Free]
  BY DEF Exact, Ends
<1>2. Free \in OpState /\ Shape(t, Free) /\ Free.row = None /\ ~ Free.ok
  BY OpsTyped DEF Free
<1>3. ~ loaded => t = Loader
  <2>1. ops[t] # Free
    BY AtWork
  <2> QED
    BY <1>1, <2>1 DEF Agree, Filling, Shaped, Opened, Threads
<1> QED
  BY <1>1, <1>2, <1>3, QuietAgree

LEMMA LoseExact == ASSUME Shaped, Exact, NEW t \in Threads, Lose(t) PROVE Exact'
<1> SUFFICES ASSUME cause' = {} PROVE Agree'
  BY DEF Exact
<1> DEFINE x == [ops[t] EXCEPT !.pc = "served", !.ok = FALSE]
<1>7. ops[t].pc = "sent" => ~ ops[t].ok
  BY DEF Shaped, Running, Shape
<1>1. /\ ops[t].pc \in {"sent", "served"} /\ UNCHANGED <<table, rows, label, armed, loaded>>
      /\ UNCHANGED fingers /\ cause = {} /\ (~ ops[t].ok \/ (t = Loader /\ ops[t].pc = "served"))
  BY <1>7 DEF Lose, screen
<1>2. Agree /\ ops[t] \in OpState /\ Shape(t, ops[t]) /\ ops[t] # Free
  BY <1>1, AtWork DEF Exact
<1>3. ops' = [ops EXCEPT ![t] = x]
  BY DEF Lose, Shaped, WellTyped
<1>4. Shape(t, x) /\ x.row = ops[t].row /\ ~ x.ok
  BY <1>1, <1>2, FieldsKept DEF OpState
<1>5. ops[t].row = None \/ (ops[t].row \in ToSet(rows) /\ ops[t].row # Vacant)
  BY <1>1, <1>2 DEF Agree, OneEach, Shown
<1>6. ~ loaded => t = Loader
  BY <1>2 DEF Agree, Filling, Shaped, Opened, Threads
<1> HIDE DEF x
<1> QED
  BY <1>1, <1>2, <1>3, <1>4, <1>5, <1>6, QuietAgree

(* The server has made what a thread asked for: its row is not settled any   *)
(* more, and the thread brings the name.                                    *)
LEMMA MadeTold ==
  ASSUME Shaped, Agree, NEW t \in Threads, ops[t].pc = "sent", ops[t].op \in {"add", "delete", "rename"},
         ops' = [ops EXCEPT ![t] = [ops[t] EXCEPT !.pc = "served", !.ok = TRUE]],
         UNCHANGED rows
  PROVE  /\ \A u \in Threads : u # t => ops'[u] = ops[u]
         /\ ops'[t].row = ops[t].row /\ ops'[t].name = ops[t].name /\ ops'[t].op = ops[t].op
         /\ ops'[t].pc = "served" /\ ops'[t].ok /\ ~ ops[t].ok /\ loaded /\ Shown' = Shown
         /\ \A o \in Objects : Settled(o)' <=> Settled(o) /\ o # ops[t].row
         /\ \A u \in Threads : Bringing(u)' <=> Bringing(u) \/ (u = t /\ ops[t].op # "delete")
         /\ \A u \in Threads : ops'[u].name = ops[u].name
         /\ ops[t].op \in {"delete", "rename"} =>
              ops[t].row \in Objects /\ ops[t].row # None /\ Settled(ops[t].row)
         /\ ops[t].op = "add" => ops[t].row = None
<1>1. ops \in [Threads -> OpState] /\ ops[t] \in OpState /\ Shape(t, ops[t])
  BY DEF Shaped, WellTyped, Running
<1>2. \A u \in Threads : u # t => ops'[u] = ops[u]
  BY <1>1
<1>3. /\ ops'[t].row = ops[t].row /\ ops'[t].name = ops[t].name /\ ops'[t].op = ops[t].op
      /\ ops'[t].pc = "served" /\ ops'[t].ok
  BY <1>1 DEF OpState
<1>4. ~ ops[t].ok
  BY <1>1 DEF Shape
<1>5. loaded
  <2>1. ops[t] # Free /\ t # Loader
    BY <1>1 DEF Free, Shape
  <2> QED
    BY <2>1 DEF Agree, Filling, Shaped, Opened, Threads
<1>6. Shown' = Shown
  BY DEF Shown, ToSet
<1>7. ASSUME NEW o \in Objects PROVE Settled(o)' <=> Settled(o) /\ o # ops[t].row
  BY <1>2, <1>3, <1>4, <1>6 DEF Settled
<1>8. ASSUME NEW u \in Threads PROVE Bringing(u)' <=> Bringing(u) \/ (u = t /\ ops[t].op # "delete")
  BY <1>2, <1>3, <1>4 DEF Bringing
<1>9. ASSUME ops[t].op \in {"delete", "rename"}
      PROVE  ops[t].row \in Objects /\ ops[t].row # None /\ Settled(ops[t].row)
  <2>1. ops[t].row # None
    BY <1>1, <1>9 DEF Shape
  <2>2. ops[t].row \in Shown /\ ops[t].row # Vacant
    BY <2>1 DEF Agree, OneEach
  <2>3. ops[t].row \in Objects
    BY <1>1, <2>1, <2>2 DEF OpState
  <2>4. ASSUME NEW u \in Threads, ops[u].ok PROVE ops[u].row # ops[t].row
    BY <1>4, <2>1, <2>4 DEF Agree, OneEach
  <2> QED
    BY <2>1, <2>2, <2>3, <2>4 DEF Settled
<1>10. ops[t].op = "add" => ops[t].row = None
  BY <1>1 DEF Shape
<1>11. \A u \in Threads : ops'[u].name = ops[u].name
  BY <1>2, <1>3
<1> QED
  BY <1>2, <1>3, <1>4, <1>5, <1>6, <1>7, <1>8, <1>9, <1>10, <1>11

(* And the screen can still be told all the names, each once.               *)
LEMMA MadeKnown ==
  ASSUME Shaped, Agree, NEW t \in Threads, ops[t].pc = "sent", ops[t].op \in {"add", "delete", "rename"},
         ops' = [ops EXCEPT ![t] = [ops[t] EXCEPT !.pc = "served", !.ok = TRUE]],
         UNCHANGED <<rows, label, loaded>>,
         ops[t].op = "add" => Sent(ops[t].name) \notin DOMAIN table
                              /\ DOMAIN table' = DOMAIN table \cup {Sent(ops[t].name)},
         ops[t].op = "delete" => DOMAIN table' = DOMAIN table \ {Sent(label[ops[t].row])},
         ops[t].op = "rename" => Sent(ops[t].name) \notin DOMAIN table \ {Sent(label[ops[t].row])}
            /\ DOMAIN table' = (DOMAIN table \ {Sent(label[ops[t].row])}) \cup {Sent(ops[t].name)}
  PROVE  Known'
<1> DEFINE D == DOMAIN table
           D1 == DOMAIN table'
           r == ops[t].row
           n == Sent(ops[t].name)
<1>1. /\ \A o \in Objects : Settled(o)' <=> Settled(o) /\ o # r
      /\ \A u \in Threads : Bringing(u)' <=> Bringing(u) \/ (u = t /\ ops[t].op # "delete")
      /\ \A u \in Threads : ops'[u].name = ops[u].name
      /\ ops[t].op \in {"delete", "rename"} => r \in Objects /\ Settled(r)
      /\ ops[t].op = "add" => r = None
      /\ ~ Bringing(t)
  BY MadeTold DEF Bringing
<1>2. /\ \A o \in Objects : Settled(o) => Sent(label[o]) \in D
      /\ \A u \in Threads : Bringing(u) => Sent(ops[u].name) \in D
      /\ loaded => \A m \in D :
           \/ \E o \in Objects : Settled(o) /\ Sent(label[o]) = m
           \/ \E u \in Threads : Bringing(u) /\ Sent(ops[u].name) = m
      /\ \A o, p \in Objects : Settled(o) /\ Settled(p) /\ Sent(label[o]) = Sent(label[p]) => o = p
      /\ \A v, u \in Threads : Bringing(v) /\ Bringing(u) /\ Sent(ops[v].name) = Sent(ops[u].name) => v = u
      /\ \A o \in Objects, u \in Threads : Settled(o) /\ Bringing(u) => Sent(label[o]) # Sent(ops[u].name)
  BY DEF Agree, Known
<1>3. \A o \in Objects : o # None
  BY OthersAssumption
<1>4. CASE ops[t].op = "add"
  <2>1. n \notin D /\ D1 = D \cup {n}
    BY <1>4
  <2> HIDE DEF D, D1, r, n
  <2>2. \A o \in Objects : Settled(o)' <=> Settled(o)
    BY <1>1, <1>3, <1>4
  <2>3. \A u \in Threads : Bringing(u)' <=> Bringing(u) \/ u = t
    BY <1>1, <1>4
  <2>4. /\ \A o \in Objects : Settled(o)' => Sent(label'[o]) \in D1
        /\ \A u \in Threads : Bringing(u)' => Sent(ops'[u].name) \in D1
    BY <1>1, <1>2, <2>1, <2>2, <2>3 DEF n
  <2>5. ASSUME loaded, NEW m \in D1
        PROVE  \/ \E o \in Objects : Settled(o)' /\ Sent(label'[o]) = m
               \/ \E u \in Threads : Bringing(u)' /\ Sent(ops'[u].name) = m
    BY <1>1, <1>2, <2>1, <2>2, <2>3, <2>5 DEF n
  <2>6. \A o, p \in Objects : Settled(o)' /\ Settled(p)' /\ Sent(label'[o]) = Sent(label'[p]) => o = p
    BY <1>2, <2>2
  <2>7. \A v, u \in Threads : Bringing(v)' /\ Bringing(u)' /\ Sent(ops'[v].name) = Sent(ops'[u].name) => v = u
    BY <1>1, <1>2, <2>1, <2>3 DEF n
  <2>8. \A o \in Objects, u \in Threads : Settled(o)' /\ Bringing(u)' => Sent(label'[o]) # Sent(ops'[u].name)
    BY <1>1, <1>2, <2>1, <2>2, <2>3 DEF n
  <2> QED
    BY <2>4, <2>5, <2>6, <2>7, <2>8 DEF Known, D1
<1>5. CASE ops[t].op = "delete"
  <2>1. D1 = D \ {Sent(label[r])} /\ r \in Objects /\ Settled(r)
    BY <1>1, <1>5
  <2>2. \A u \in Threads : Bringing(u)' <=> Bringing(u)
    BY <1>1, <1>5
  <2> HIDE DEF D, D1, r, n
  <2>4. /\ \A o \in Objects : Settled(o)' => Sent(label'[o]) \in D1
        /\ \A u \in Threads : Bringing(u)' => Sent(ops'[u].name) \in D1
    BY <1>1, <1>2, <2>1, <2>2
  <2>5. ASSUME loaded, NEW m \in D1
        PROVE  \/ \E o \in Objects : Settled(o)' /\ Sent(label'[o]) = m
               \/ \E u \in Threads : Bringing(u)' /\ Sent(ops'[u].name) = m
    BY <1>1, <1>2, <2>1, <2>2, <2>5
  <2>6. \A o, p \in Objects : Settled(o)' /\ Settled(p)' /\ Sent(label'[o]) = Sent(label'[p]) => o = p
    BY <1>1, <1>2
  <2>7. \A v, u \in Threads : Bringing(v)' /\ Bringing(u)' /\ Sent(ops'[v].name) = Sent(ops'[u].name) => v = u
    BY <1>1, <1>2, <2>2
  <2>8. \A o \in Objects, u \in Threads : Settled(o)' /\ Bringing(u)' => Sent(label'[o]) # Sent(ops'[u].name)
    BY <1>1, <1>2, <2>2
  <2> QED
    BY <2>4, <2>5, <2>6, <2>7, <2>8 DEF Known, D1
<1>6. CASE ops[t].op = "rename"
  <2>1. n \notin D \ {Sent(label[r])} /\ D1 = (D \ {Sent(label[r])}) \cup {n} /\ r \in Objects /\ Settled(r)
    BY <1>1, <1>6
  <2>2. \A u \in Threads : Bringing(u)' <=> Bringing(u) \/ u = t
    BY <1>1, <1>6
  <2> HIDE DEF D, D1, r, n
  <2>3. /\ \A o \in Objects : Settled(o)' => Sent(label'[o]) \in D \ {Sent(label[r])}
        /\ \A u \in Threads : Bringing(u) => Sent(ops[u].name) \in D \ {Sent(label[r])}
    BY <1>1, <1>2, <2>1
  <2>4. /\ \A o \in Objects : Settled(o)' => Sent(label'[o]) \in D1
        /\ \A u \in Threads : Bringing(u)' => Sent(ops'[u].name) \in D1
    BY <1>1, <2>1, <2>2, <2>3 DEF n
  <2>5. ASSUME loaded, NEW m \in D1
        PROVE  \/ \E o \in Objects : Settled(o)' /\ Sent(label'[o]) = m
               \/ \E u \in Threads : Bringing(u)' /\ Sent(ops'[u].name) = m
    BY <1>1, <1>2, <2>1, <2>2, <2>5 DEF n
  <2>6. \A o, p \in Objects : Settled(o)' /\ Settled(p)' /\ Sent(label'[o]) = Sent(label'[p]) => o = p
    BY <1>1, <1>2
  <2>7. \A v, u \in Threads : Bringing(v)' /\ Bringing(u)' /\ Sent(ops'[v].name) = Sent(ops'[u].name) => v = u
    BY <1>1, <1>2, <2>1, <2>2, <2>3 DEF n
  <2>8. \A o \in Objects, u \in Threads : Settled(o)' /\ Bringing(u)' => Sent(label'[o]) # Sent(ops'[u].name)
    BY <1>1, <1>2, <2>1, <2>2, <2>3 DEF n
  <2> QED
    BY <2>4, <2>5, <2>6, <2>7, <2>8 DEF Known, D1
<1> QED
  BY <1>4, <1>5, <1>6

LEMMA MadeExact ==
  ASSUME Shaped, Agree, NEW t \in Threads, ops[t].pc = "sent", ops[t].op \in {"add", "delete", "rename"},
         ops' = [ops EXCEPT ![t] = [ops[t] EXCEPT !.pc = "served", !.ok = TRUE]],
         UNCHANGED <<rows, label, armed, loaded>>, UNCHANGED fingers, Known'
  PROVE  Agree'
<1>1. /\ \A u \in Threads : u # t => ops'[u] = ops[u]
      /\ ops'[t].row = ops[t].row /\ ops'[t].pc = "served" /\ loaded /\ Shown' = Shown
  BY MadeTold
<1>2. \A u \in Threads : ops'[u].row = ops[u].row
  BY <1>1
<1>3. OneEach'
  <2>1. \A u \in Threads : ops'[u].row # None => (ops'[u].row \in Shown' <=> ops'[u].pc \notin Changing)
    BY <1>1 DEF Agree, OneEach
  <2> QED
    BY <1>2, <2>1 DEF Agree, OneEach
<1>4. Filling'
  <2>1. \A u \in Threads : ops'[u].pc \in Changing => u # t /\ ops'[u] = ops[u]
    BY <1>1
  <2>2. \A u \in Threads : ops[u].pc \in Changing => u # t /\ ops'[u] = ops[u]
    BY <1>1
  <2>3. loaded' /\ rows' = <<>> => \E u \in Threads : ops'[u].pc \in {"removed", "empty"}
    BY <2>2 DEF Agree, Filling
  <2>4. \A u \in Threads : ops'[u].op = "add" /\ ops'[u].pc = "removed" => Vacant \notin Shown'
    BY <1>1, <2>1 DEF Agree, Filling
  <2>5. \A k \in {"click", "touch"} : (Setting(k)' <=> Setting(k)) /\ (Taking(k)' <=> Taking(k))
    BY <1>1, ListenersStay
  <2>6. armed \subseteq {"click", "touch"}
    BY DEF Shaped, WellTyped, ScreenTyped
  <2>7. /\ Vacant \in Shown' => rows' = <<Vacant>> /\ \A k \in armed' : Taking(k)'
        /\ Shown' \cap Objects # {} => \A k \in {"click", "touch"} : k \in armed' \/ Setting(k)'
        /\ label'[Vacant] = None
    BY <1>1, <2>5, <2>6 DEF Agree, Filling
  <2> QED
    BY <1>1, <2>3, <2>4, <2>7 DEF Filling
<1> QED
  BY <1>3, <1>4 DEF Agree

LEMMA ServeExact == ASSUME Shaped, Exact, NEW t \in Threads, Serve(t) PROVE Exact'
<1> SUFFICES ASSUME cause' = {} PROVE Agree'
  BY DEF Exact
<1> DEFINE name == IF ops[t].row = None THEN None ELSE Sent(label[ops[t].row])
           new == Sent(ops[t].name)
           y == [ops[t] EXCEPT !.pc = "served", !.ok = TRUE]
<1>1. ops[t].pc = "sent" /\ UNCHANGED <<rows, label, armed, loaded, cause>> /\ UNCHANGED fingers
  BY DEF Serve, screen
<1>2. Agree /\ ops[t] \in OpState /\ Shape(t, ops[t]) /\ ops[t] # Free
  BY <1>1, AtWork DEF Exact
<1>3. ~ ops[t].ok /\ (~ loaded => t = Loader)
  <2>1. ~ ops[t].ok
    BY <1>1, <1>2 DEF Shape
  <2>2. ~ loaded => t = Loader
    BY <1>2 DEF Agree, Filling, Shaped, Opened, Threads
  <2> QED
    BY <2>1, <2>2
<1>4. ops[t].row = None \/ (ops[t].row \in ToSet(rows) /\ ops[t].row # Vacant)
  BY <1>1, <1>2 DEF Agree, OneEach, Shown
<1>5. CASE /\ ops[t].op = "load"
           /\ ops' = [ops EXCEPT ![t] = [ops[t] EXCEPT !.pc = "served", !.ok = TRUE,
                                                       !.names = DOMAIN table]]
           /\ UNCHANGED table
  <2> DEFINE x == [ops[t] EXCEPT !.pc = "served", !.ok = TRUE, !.names = DOMAIN table]
  <2>1. /\ x.op = ops[t].op /\ x.pc = "served" /\ x.row = ops[t].row /\ x.names = DOMAIN table
        /\ x.name = ops[t].name /\ x.pos = ops[t].pos
    BY <1>2 DEF OpState
  <2>2. ops' = [ops EXCEPT ![t] = x] /\ t = Loader
    BY <1>2, <1>5 DEF Shape
  <2> HIDE DEF x
  <2>3. Shape(t, x)
    BY <1>1, <1>2, <1>5, <2>1 DEF Shape, Free
  <2> QED
    BY <1>1, <1>2, <1>3, <1>4, <1>5, <2>1, <2>2, <2>3, QuietAgree
<1>6. CASE /\ \/ ops[t].op = "add" /\ ~ PostRefused(table, new) /\ table' = Posted(table, new)
              \/ ops[t].op = "delete" /\ table' = Deleted(table, name)
              \/ ops[t].op = "rename" /\ ~ PutRefused(table, name, new)
                                 /\ table' = Put(table, name, new)
           /\ ops' = [ops EXCEPT ![t] = y]
  <2>2. ops[t].op \in {"delete", "rename"} =>
          ops[t].row \in Objects /\ name = Sent(label[ops[t].row]) /\ name \in DOMAIN table
    BY <1>1, <1>2, <1>6, MadeTold DEF Agree, Known
  <2>3. /\ ops[t].op = "add" => new \notin DOMAIN table
                                /\ DOMAIN table' = DOMAIN table \cup {new}
    <3>1. \A n : DOMAIN Posted(table, n) = DOMAIN table \cup {n}
      BY DEF Posted
    <3> HIDE DEF name, new
    <3> QED
      BY <1>6, <3>1 DEF PostRefused
  <2>4. ops[t].op = "delete" => DOMAIN table' = DOMAIN table \ {Sent(label[ops[t].row])}
    <3>1. \A n : DOMAIN Deleted(table, n) = DOMAIN table \ {n}
      BY DEF Deleted, Restrict
    <3> HIDE DEF name
    <3> QED
      BY <1>6, <2>2, <3>1
  <2>5. ops[t].op = "rename" => new \notin DOMAIN table \ {Sent(label[ops[t].row])}
            /\ DOMAIN table' = (DOMAIN table \ {Sent(label[ops[t].row])}) \cup {new}
    <3> HIDE DEF name, new
    <3> SUFFICES ASSUME ops[t].op = "rename"
                 PROVE  /\ new \notin DOMAIN table \ {name}
                        /\ DOMAIN table' = (DOMAIN table \ {name}) \cup {new}
      BY <2>2
    <3>1. name \in DOMAIN table
      BY <2>2
    <3>2. ~ PutRefused(table, name, new) /\ table' = Put(table, name, new)
      BY <1>6
    <3>3. table' = [l \in (DOMAIN table \ {name}) \cup {new} |->
                      IF l = new THEN table[name] ELSE table[l]]
      BY <3>1, <3>2 DEF Put
    <3>4. DOMAIN table' = (DOMAIN table \ {name}) \cup {new}
      BY <3>3
    <3> QED
      BY <3>1, <3>2, <3>4 DEF PutRefused
  <2>6. ops[t].op \in {"add", "delete", "rename"}
    BY <1>6
  <2>7. ops' = [ops EXCEPT ![t] = [ops[t] EXCEPT !.pc = "served", !.ok = TRUE]]
    BY <1>6
  <2>8. Known'
    BY <1>1, <1>2, <2>3, <2>4, <2>5, <2>6, <2>7, MadeKnown
  <2> QED
    BY <1>1, <1>2, <2>6, <2>7, <2>8, MadeExact
<1>7. CASE ops' = [ops EXCEPT ![t].pc = "served"] /\ UNCHANGED table
  <2> DEFINE x == [ops[t] EXCEPT !.pc = "served", !.ok = FALSE]
  <2>1. Shape(t, x) /\ x.row = ops[t].row /\ ~ x.ok
    BY <1>1, <1>2, FieldsKept DEF OpState
  <2>2. ops[t].ok = FALSE
    BY <1>2, <1>3 DEF OpState
  <2>3. x = [ops[t] EXCEPT !.pc = "served"]
    BY <1>2, <2>2 DEF OpState
  <2>4. ops' = [ops EXCEPT ![t] = x]
    BY <1>7, <2>3
  <2> HIDE DEF x
  <2> QED
    BY <1>1, <1>2, <1>3, <1>4, <1>7, <2>1, <2>4, QuietAgree
<1> QED
  BY <1>5, <1>6, <1>7 DEF Serve, Goto

LEMMA TouchedExact ==
  ASSUME Shaped, Exact, UNCHANGED <<table, ops, cause>>, UNCHANGED screen
  PROVE  Exact'
  BY TouchAgree DEF Exact, screen

(* The next position of a batch means the row that was swiped.              *)
LEMMA DismissExact == ASSUME Shaped, Placed, Exact, Dismiss PROVE Exact'
<1> SUFFICES ASSUME cause' = {} PROVE Agree'
  BY DEF Exact
<1> DEFINE i == Head(batch).pos
           x == [Op("delete") EXCEPT !.row = rows[i]]
<1>1. /\ batch \in Seq(Kept) /\ batch # <<>> /\ ops[Ui].pc = "free"
      /\ UNCHANGED <<table, rows, label, armed, loaded>> /\ Ui \in Threads
  BY DEF Dismiss, Shaped, WellTyped, FingersTyped, screen, Threads
<1>2. cause = {} /\ Agree
  BY DEF Dismiss, Chosen, Exact
<1>3. /\ Head(batch) = batch[1] /\ 1 \in DOMAIN batch /\ Len(batch) \in Nat
      /\ DOMAIN batch = 1 .. Len(batch) /\ DOMAIN Tail(batch) = 1 .. Len(batch) - 1
      /\ \A j \in DOMAIN Tail(batch) : Tail(batch)[j] = batch[j + 1]
  BY <1>1, HeadTailProperties, EmptySeq
<1>4. i \in DOMAIN rows
  <2>1. Head(batch) \in Holders
    BY <1>3 DEF Holders, ToSet
  <2>2. Means(Head(batch))
    BY <1>2, <2>1 DEF Placed, Apart
  <2> QED
    BY <2>2 DEF Means
<1>5. /\ ops' = [ops EXCEPT ![Ui] = x] /\ batch' = Tail(batch)
      /\ Chosen(rows[i])
  BY <1>4 DEF Dismiss
<1>6. /\ rows[i] \in Rows /\ rows[i] \in ToSet(rows) /\ rows[i] # Vacant
      /\ \A u \in Threads : ops[u].row # rows[i]
  BY <1>4, <1>5, ChosenOnce, SeqElements DEF Shaped, WellTyped, ScreenTyped
<1>7. Shape(Ui, x) /\ x.row = rows[i] /\ ~ x.ok
  BY <1>6, OpsTyped
<1>8. ~ ops[Ui].ok /\ loaded
  BY <1>1 DEF Shaped, Running, Shape, Opened
<1> HIDE DEF x, i
<1> QED
  BY <1>1, <1>2, <1>4, <1>5, <1>6, <1>7, <1>8, QuietAgree

(* A row tells what a thread has brought.                                   *)
LEMMA BroughtKnown ==
  ASSUME Known, NEW t \in Threads, Bringing(t), NEW o \in Objects, ~ Settled(o),
         \A p \in Objects : Settled(p)' <=> Settled(p) \/ p = o,
         \A p \in Objects : Settled(p) => label'[p] = label[p],
         label'[o] = ops[t].name,
         \A u \in Threads : Bringing(u)' <=> Bringing(u) /\ u # t,
         \A u \in Threads : Bringing(u) /\ u # t => ops'[u].name = ops[u].name,
         DOMAIN table' = DOMAIN table, loaded' => loaded
  PROVE  Known'
<1>1. \A p \in Objects : Settled(p)' => Sent(label'[p]) \in DOMAIN table'
  BY DEF Known
<1>2. \A u \in Threads : Bringing(u)' => Sent(ops'[u].name) \in DOMAIN table'
  BY DEF Known
<1>3. ASSUME loaded', NEW n \in DOMAIN table'
      PROVE  \/ \E p \in Objects : Settled(p)' /\ Sent(label'[p]) = n
             \/ \E u \in Threads : Bringing(u)' /\ Sent(ops'[u].name) = n
  <2>1. CASE n = Sent(ops[t].name)
    BY <2>1
  <2>2. CASE n # Sent(ops[t].name)
    BY <1>3, <2>2 DEF Known
  <2> QED
    BY <2>1, <2>2
<1>4. \A p, q \in Objects : Settled(p)' /\ Settled(q)' /\ Sent(label'[p]) = Sent(label'[q]) => p = q
  BY DEF Known
<1>5. \A v, u \in Threads : Bringing(v)' /\ Bringing(u)' /\ Sent(ops'[v].name) = Sent(ops'[u].name) => v = u
  BY DEF Known
<1>6. \A p \in Objects, u \in Threads : Settled(p)' /\ Bringing(u)' => Sent(label'[p]) # Sent(ops'[u].name)
  BY DEF Known
<1> QED
  BY <1>1, <1>2, <1>3, <1>4, <1>5, <1>6 DEF Known

(* What is known of a thread whose answer is a success.                     *)
LEMMA Succeeds ==
  ASSUME Shaped, Agree, NEW t \in Threads, ops[t].ok
  PROVE  /\ ops \in [Threads -> OpState] /\ ops[t] \in OpState /\ Shape(t, ops[t]) /\ ops[t] # Free
         /\ ops[t].op # "load" => loaded /\ t # Loader
         /\ ops[t].op = "add" => ops[t].row = None
         /\ (ops[t].op \in {"delete", "rename"} /\ ops[t].pc \notin Changing) =>
              /\ ops[t].row \in Objects /\ ops[t].row # None /\ ops[t].row \in Shown
              /\ \A u \in Threads : u # t => ops[u].row # ops[t].row
<1>1. ops \in [Threads -> OpState] /\ ops[t] \in OpState /\ Shape(t, ops[t])
  BY DEF Shaped, WellTyped, Running
<1>2. ops[t] # Free /\ (ops[t].op = "add" => ops[t].row = None)
  BY <1>1 DEF Free, Shape
<1>3. ASSUME ops[t].op # "load" PROVE loaded /\ t # Loader
  <2>1. t # Loader
    BY <1>1, <1>2, <1>3 DEF Shape
  <2> QED
    BY <1>2, <2>1 DEF Agree, Filling, Shaped, Opened, Threads
<1>4. ASSUME ops[t].op \in {"delete", "rename"}, ops[t].pc \notin Changing
      PROVE  /\ ops[t].row \in Objects /\ ops[t].row # None /\ ops[t].row \in Shown
             /\ \A u \in Threads : u # t => ops[u].row # ops[t].row
  <2>1. ops[t].row # None
    BY <1>1, <1>4 DEF Shape
  <2>2. ops[t].row \in Shown /\ ops[t].row # Vacant
    BY <1>4, <2>1 DEF Agree, OneEach
  <2>3. ops[t].row \in Objects
    BY <1>1, <2>1, <2>2 DEF OpState
  <2>4. \A u \in Threads : u # t => ops[u].row # ops[t].row
    BY <2>1 DEF Agree, OneEach
  <2> QED
    BY <2>1, <2>2, <2>3, <2>4
<1> QED
  BY <1>1, <1>2, <1>3, <1>4

(* A thread ends or goes on: the others do not.                             *)
LEMMA StepIs ==
  ASSUME Shaped, NEW t \in Threads
  PROVE  /\ Ends(t) => ops'[t] = Free /\ \A u \in Threads : u # t => ops'[u] = ops[u]
         /\ \A pc : Goto(t, pc) =>
              /\ ops'[t].pc = pc /\ ops'[t].op = ops[t].op /\ ops'[t].row = ops[t].row
              /\ ops'[t].ok = ops[t].ok /\ ops'[t].name = ops[t].name
              /\ \A u \in Threads : u # t => ops'[u] = ops[u]
<1>1. ops \in [Threads -> OpState] /\ ops[t] \in OpState
  BY DEF Shaped, WellTyped
<1>2. ASSUME NEW pc, Goto(t, pc)
      PROVE  /\ ops'[t].pc = pc /\ ops'[t].op = ops[t].op /\ ops'[t].row = ops[t].row
             /\ ops'[t].ok = ops[t].ok /\ ops'[t].name = ops[t].name
             /\ \A u \in Threads : u # t => ops'[u] = ops[u]
  BY <1>1, <1>2 DEF Goto, OpState
<1> QED
  BY <1>1, <1>2 DEF Ends

(* A thread that tells nothing goes on changing, or ends: no object comes to  *)
(* the rows or goes from them.                                              *)
LEMMA ChangesOn ==
  ASSUME Shaped, Agree, NEW t \in Threads, ops[t].pc \in Changing, ~ Bringing(t),
         \A u \in Threads : u # t => ops'[u] = ops[u],
         \/ ops'[t] = Free
         \/ ops'[t].pc \in Changing /\ ops'[t].row = ops[t].row /\ ~ Bringing(t)',
         UNCHANGED <<table, label, loaded>>, Shown' \cap Objects = Shown \cap Objects
  PROVE  OneEach' /\ Known'
<1>1. Free.row = None /\ Free.pc = "free" /\ ~ Free.ok
  BY DEF Free
<1>2. ops[t].row # None => ops[t].row \notin Shown
  BY DEF Agree, OneEach
<1>3. ASSUME NEW o \in Objects PROVE Settled(o)' <=> Settled(o)
  <2>1. o \in Shown' <=> o \in Shown
    OBVIOUS
  <2>2. o # None
    BY OthersAssumption
  <2>3. CASE o \in Shown
    <3>1. ops[t].row # o /\ ops'[t].row # o
      BY <1>1, <1>2, <2>2, <2>3
    <3> QED
      BY <2>1, <3>1 DEF Settled
  <2>4. CASE o \notin Shown
    BY <2>1, <2>4 DEF Settled
  <2> QED
    BY <2>3, <2>4
<1>4. ASSUME NEW u \in Threads
      PROVE  (Bringing(u)' <=> Bringing(u)) /\ (Bringing(u) => ops'[u].name = ops[u].name)
  BY <1>1, <1>4 DEF Bringing
<1>5. Known'
  BY <1>3, <1>4, KnownStays DEF Agree
<1>6. ASSUME NEW u \in Threads PROVE ops'[u].row \in {ops[u].row, None}
  BY <1>1
<1>7. \A u, v \in Threads : ops'[u].row = ops'[v].row /\ ops'[u].row # None => u = v
  BY <1>6 DEF Agree, OneEach
<1>8. \A u \in Threads : ops'[u].row # Vacant
  BY <1>6, OthersAssumption DEF Agree, OneEach
<1>9. ASSUME NEW u \in Threads, ops'[u].row # None
      PROVE  ops'[u].row \in Shown' <=> ops'[u].pc \notin Changing
  <2>1. ops'[u].row = ops[u].row /\ ops[u].row # None /\ (ops'[u].pc \in Changing <=> ops[u].pc \in Changing)
    BY <1>1, <1>9
  <2>2. ops[u].row \in Objects
    BY <2>1 DEF Agree, OneEach, Shaped, WellTyped, OpState
  <2> QED
    BY <2>1, <2>2 DEF Agree, OneEach
<1> QED
  BY <1>5, <1>7, <1>8, <1>9 DEF OneEach

LEMMA ReturnDeleteExact ==
  ASSUME Shaped, Placed, Exact, NEW t \in Threads, ReturnDelete(t)
  PROVE  Exact'
<1> SUFFICES ASSUME cause' = {} PROVE Agree'
  BY DEF Exact
<1> DEFINE o == ops[t].row
<1>1. /\ ops[t].pc = "served" /\ ops[t].ok /\ ops[t].op = "delete" /\ Goto(t, "removed")
      /\ UNCHANGED <<table, armed, loaded>>
      /\ rows' = RemoveFirst(rows, o) /\ cause = {}
      /\ label' = label \/ label' = [label EXCEPT ![o] = None]
  BY DEF ReturnDelete, Success, Removed
<1>2. /\ Agree /\ IsInjective(rows) /\ rows \in Seq(Rows) /\ label \in [Rows -> Names \cup {None}]
      /\ armed \subseteq {"click", "touch"}
  BY <1>1 DEF Exact, Placed, Apart, Shaped, WellTyped, ScreenTyped
<1>3. /\ loaded /\ o \in Objects /\ o # None /\ o \in Shown /\ o # Vacant
      /\ \A u \in Threads : u # t => ops[u].row # o
  BY <1>1, <1>2, Succeeds, OthersAssumption
<1>4. Shown' = Shown \ {o}
  BY <1>1, <1>2, RemovedOnce DEF Shown
<1>5. /\ \A u \in Threads : u # t => ops'[u] = ops[u]
      /\ ops'[t].pc = "removed" /\ ops'[t].row = o /\ ops'[t].op = "delete"
  BY <1>1, StepIs
<1> HIDE DEF o
<1>6. Known'
  <2>1. ASSUME NEW p \in Objects
        PROVE  (Settled(p)' <=> Settled(p)) /\ (Settled(p) => label'[p] = label[p])
    <3>1. CASE p = o
      BY <1>1, <1>4, <3>1 DEF Settled, o
    <3>2. CASE p # o
      <4>1. label'[p] = label[p]
        BY <1>1, <1>2, <3>2 DEF Rows
      <4>2. \A u \in Threads : (ops'[u].ok => ops'[u].row # p) <=> (ops[u].ok => ops[u].row # p)
        BY <1>5, <3>2 DEF o
      <4> QED
        BY <1>4, <3>2, <4>1, <4>2 DEF Settled
    <3> QED
      BY <3>1, <3>2
  <2>2. \A u \in Threads : (Bringing(u)' <=> Bringing(u)) /\ (Bringing(u) => ops'[u].name = ops[u].name)
    BY <1>1, <1>5 DEF Bringing
  <2> QED
    BY <1>1, <1>2, <2>1, <2>2, KnownStays DEF Agree
<1>7. OneEach'
  <2>1. \A u \in Threads : ops'[u].row = ops[u].row
    BY <1>5 DEF o
  <2>2. ASSUME NEW u \in Threads, ops'[u].row # None
        PROVE  ops'[u].row \in Shown' <=> ops'[u].pc \notin Changing
    BY <1>2, <1>3, <1>4, <1>5, <2>1, <2>2 DEF Agree, OneEach
  <2> QED
    BY <1>2, <2>1, <2>2 DEF Agree, OneEach
<1>8. Filling'
  <2>1. Vacant \notin Shown
    <3>1. ToSet(<<Vacant>>) = {Vacant}
      BY DEF ToSet
    <3>2. Vacant \in Shown => Shown = {Vacant}
      BY <1>2, <3>1 DEF Agree, Filling, Shown
    <3> QED
      BY <1>3, <3>2
  <2>2. \A k : Setting(k) => Setting(k)'
    BY <1>1, <1>5 DEF Setting, Threads
  <2>3. Shown' \cap Objects # {} => \A k \in {"click", "touch"} : k \in armed' \/ Setting(k)'
    BY <1>1, <1>2, <1>4, <2>2 DEF Agree, Filling
  <2>4. label'[Vacant] = None
    BY <1>1, <1>2, <1>3 DEF Agree, Filling, Rows
  <2> QED
    BY <1>1, <1>3, <1>4, <1>5, <2>1, <2>3, <2>4 DEF Filling
<1> QED
  BY <1>6, <1>7, <1>8 DEF Agree

(* A thread that has removed the last row adds the one that says there is     *)
(* none, and another ends.                                                  *)
LEMMA CountExact == ASSUME Shaped, Exact, NEW t \in Threads, Count(t) PROVE Exact'
<1> SUFFICES ASSUME cause' = {} PROVE Agree'
  BY DEF Exact
<1>1. /\ ops[t].pc = "removed" /\ ops[t].op = "delete" /\ cause = {}
      /\ UNCHANGED <<table, rows, label, armed, loaded>>
      /\ rows = <<>> => Goto(t, "empty")
      /\ rows # <<>> => Ends(t)
  BY DEF Count
<1>2. Agree /\ loaded /\ armed \subseteq {"click", "touch"}
  BY <1>1, AtWork DEF Exact, Shaped, WellTyped, ScreenTyped
<1>3. /\ \A u \in Threads : u # t => ops'[u] = ops[u]
      /\ rows = <<>> => ops'[t].pc = "empty" /\ ops'[t].row = ops[t].row /\ ops'[t].op = "delete"
      /\ rows # <<>> => ops'[t] = Free
  BY <1>1, StepIs
<1>4. Shown' = Shown
  BY <1>1 DEF Shown, ToSet
<1>5. Free.op = "none" /\ Free.pc = "free"
  BY DEF Free
<1>6. OneEach' /\ Known'
  BY <1>1, <1>2, <1>3, <1>4, ChangesOn DEF Bringing
<1>7. Filling'
  <2>1. ASSUME NEW k \in {"click", "touch"} PROVE (Setting(k) => Setting(k)') /\ (Taking(k) => Taking(k)')
    BY <1>1, <1>3 DEF Setting, Taking, Before, Threads
  <2>2. \A u \in Threads : ops'[u].op = "add" /\ ops'[u].pc = "removed" => Vacant \notin Shown'
    BY <1>2, <1>3, <1>4, <1>5 DEF Agree, Filling
  <2>3. /\ Vacant \in Shown' => rows' = <<Vacant>> /\ \A k \in armed' : Taking(k)'
        /\ Shown' \cap Objects # {} => \A k \in {"click", "touch"} : k \in armed' \/ Setting(k)'
        /\ label'[Vacant] = None
    BY <1>1, <1>2, <1>4, <2>1 DEF Agree, Filling
  <2> QED
    BY <1>1, <1>2, <1>3, <2>2, <2>3 DEF Filling
<1> QED
  BY <1>6, <1>7 DEF Agree

LEMMA AddVacantExact == ASSUME Shaped, Exact, NEW t \in Threads, AddVacant(t) PROVE Exact'
<1> SUFFICES ASSUME cause' = {} PROVE Agree'
  BY DEF Exact
<1>1. /\ ops[t].pc = "empty" /\ Goto(t, "filled") /\ rows' = Append(rows, Vacant)
      /\ UNCHANGED <<table, label, armed, loaded>>
  BY DEF AddVacant
<1>2. /\ rows = <<>> /\ cause = {}
      /\ \A u \in Workers : ~ (ops[u].op = "add" /\ ops[u].pc = "removed")
  BY DEF AddVacant, Raced
<1>3. ops[t].op = "delete"
  BY <1>1 DEF Shaped, Running, Shape
<1>4. Agree /\ loaded /\ armed \subseteq {"click", "touch"}
  BY <1>1, <1>2, <1>3, AtWork DEF Exact, Shaped, WellTyped, ScreenTyped
<1>5. /\ \A u \in Threads : u # t => ops'[u] = ops[u]
      /\ ops'[t].pc = "filled" /\ ops'[t].row = ops[t].row /\ ops'[t].op = "delete"
  BY <1>1, <1>3, StepIs
<1>6. rows' = <<Vacant>> /\ Shown = {} /\ Shown' = {Vacant}
  <2>1. rows' = <<Vacant>>
    BY <1>1, <1>2
  <2>2. ToSet(<<Vacant>>) = {Vacant} /\ ToSet(<<>>) = {}
    BY DEF ToSet
  <2> QED
    BY <1>2, <2>1, <2>2 DEF Shown
<1>7. OneEach' /\ Known'
  BY <1>1, <1>3, <1>4, <1>5, <1>6, ChangesOn, OthersAssumption DEF Bringing
<1>8. Filling'
  <2>1. ASSUME NEW u \in Threads, ops'[u].op = "add", ops'[u].pc = "removed" PROVE FALSE
    <3>1. ops[u].op = "add" /\ ops[u].pc = "removed"
      BY <1>5, <2>1
    <3>2. Shape(u, ops[u])
      BY DEF Shaped, Running
    <3> QED
      BY <1>2, <3>1, <3>2 DEF Shape, Threads
  <2>2. \A k \in armed' : Taking(k)'
    BY <1>1, <1>4, <1>5 DEF Taking, Before
  <2>3. label'[Vacant] = None /\ Shown' \cap Objects = {}
    BY <1>1, <1>4, <1>6, OthersAssumption DEF Agree, Filling
  <2> QED
    BY <1>1, <1>4, <1>6, <2>1, <2>2, <2>3 DEF Filling
<1> QED
  BY <1>7, <1>8 DEF Agree

(* A listener is taken away, for the row that says there is no list; another  *)
(* thread that has added a row since has still to set it.                   *)
LEMMA TakeExact ==
  ASSUME Shaped, Exact, NEW t \in Threads, ops[t].op = "delete", NEW k \in {"click", "touch"}, Take(k),
         UNCHANGED <<table, rows, label, loaded>>,
         \/ k = "click" /\ ops[t].pc = "filled" /\ Goto(t, "clicks")
         \/ k = "touch" /\ ops[t].pc = "clicks" /\ Ends(t)
  PROVE  Exact'
<1> SUFFICES ASSUME cause' = {} PROVE Agree'
  BY DEF Exact
<1>1. /\ armed' = armed \ {k} /\ cause = {}
      /\ Vacant \in Shown \/ rows = <<>> \/ Setting(k)
  BY DEF Take, Raced, Shown
<1>2. Agree /\ loaded /\ armed \subseteq {"click", "touch"}
  BY <1>1, AtWork DEF Exact, Shaped, WellTyped, ScreenTyped
<1>3. /\ \A u \in Threads : u # t => ops'[u] = ops[u]
      /\ k = "click" => ops'[t].pc = "clicks" /\ ops'[t].row = ops[t].row /\ ops'[t].op = "delete"
      /\ k = "touch" => ops'[t] = Free
  BY StepIs
<1>4. Shown' = Shown /\ ToSet(<<Vacant>>) = {Vacant} /\ ToSet(<<>>) = {}
  BY DEF Shown, ToSet
<1>5. Free.op = "none" /\ Free.pc = "free"
  BY DEF Free
<1>6. OneEach' /\ Known'
  BY <1>2, <1>3, <1>4, ChangesOn DEF Bringing
<1>7. Filling'
  <2>1. ASSUME NEW l \in {"click", "touch"} PROVE Setting(l) => Setting(l)'
    BY <1>3 DEF Setting, Threads
  <2>2. ASSUME NEW l \in armed', Taking(l) PROVE Taking(l)'
    <3>1. l # k /\ l \in {"click", "touch"}
      BY <1>1, <1>2
    <3>2. PICK u \in Threads : ops[u].op = "delete" /\ ops[u].pc \in Before(l)
      BY <2>2 DEF Taking
    <3>3. CASE u = t
      BY <1>3, <3>1, <3>2, <3>3 DEF Taking, Before
    <3>4. CASE u # t
      BY <1>3, <3>2, <3>4 DEF Taking
    <3> QED
      BY <3>3, <3>4
  <2>3. Vacant \in Shown' => rows' = <<Vacant>> /\ \A l \in armed' : Taking(l)'
    BY <1>1, <1>2, <1>4, <2>2 DEF Agree, Filling
  <2>4. ASSUME Shown' \cap Objects # {}, NEW l \in {"click", "touch"} PROVE l \in armed' \/ Setting(l)'
    <3>1. Vacant \notin Shown /\ rows # <<>>
      BY <1>2, <1>4, <2>4, OthersAssumption DEF Agree, Filling, Shown
    <3> QED
      BY <1>1, <1>2, <1>4, <2>1, <2>4, <3>1 DEF Agree, Filling
  <2>5. rows' = <<>> => \E u \in Threads : ops'[u].pc \in {"removed", "empty"}
    BY <1>2, <1>3 DEF Agree, Filling
  <2>6. \A u \in Threads : ops'[u].op = "add" /\ ops'[u].pc = "removed" => Vacant \notin Shown'
    BY <1>2, <1>3, <1>4, <1>5 DEF Agree, Filling
  <2> QED
    BY <1>2, <2>3, <2>4, <2>5, <2>6 DEF Agree, Filling
<1> QED
  BY <1>6, <1>7 DEF Agree

(* The row that says there is no list goes before a new one comes.           *)
LEMMA ReturnAddExact ==
  ASSUME Shaped, Placed, Exact, NEW t \in Threads, ReturnAdd(t)
  PROVE  Exact'
<1> SUFFICES ASSUME cause' = {} PROVE Agree'
  BY DEF Exact
<1>1. /\ ops[t].pc = "served" /\ ops[t].ok /\ ops[t].op = "add" /\ Goto(t, "removed")
      /\ UNCHANGED <<table, label, armed, loaded>>
      /\ rows' = RemoveFirst(rows, Vacant) /\ cause = {}
  BY DEF ReturnAdd, Success, Removed
<1>2. Agree /\ IsInjective(rows) /\ rows \in Seq(Rows) /\ armed \subseteq {"click", "touch"}
  BY <1>1 DEF Exact, Placed, Apart, Shaped, WellTyped, ScreenTyped
<1>3. ops[t] \in OpState /\ loaded /\ ops[t].row = None
  BY <1>1, <1>2, Succeeds
<1>4. Shown' = Shown \ {Vacant}
  BY <1>1, <1>2, RemovedOnce DEF Shown
<1>5. /\ \A u \in Threads : u # t => ops'[u] = ops[u]
      /\ ops'[t].pc = "removed" /\ ops'[t].row = None /\ ops'[t].op = "add" /\ ops'[t].ok
      /\ ops'[t].name = ops[t].name
  BY <1>1, <1>3, StepIs
<1>6. Known'
  <2>1. \A p \in Objects : (Settled(p)' <=> Settled(p)) /\ (Settled(p) => label'[p] = label[p])
    BY <1>1, <1>3, <1>4, <1>5, OthersAssumption DEF Settled
  <2>2. \A u \in Threads : (Bringing(u)' <=> Bringing(u)) /\ (Bringing(u) => ops'[u].name = ops[u].name)
    BY <1>1, <1>5 DEF Bringing
  <2> QED
    BY <1>1, <1>2, <2>1, <2>2, KnownStays DEF Agree
<1>7. OneEach'
  <2>1. \A u \in Threads : ops'[u].row = ops[u].row
    BY <1>3, <1>5
  <2>2. ASSUME NEW u \in Threads, ops'[u].row # None
        PROVE  ops'[u].row \in Shown' <=> ops'[u].pc \notin Changing
    BY <1>2, <1>3, <1>4, <1>5, <2>1, <2>2 DEF Agree, OneEach
  <2> QED
    BY <1>2, <2>1, <2>2 DEF Agree, OneEach
<1>8. Filling'
  <2>1. \A k : Setting(k) => Setting(k)'
    BY <1>1, <1>5 DEF Setting, Threads
  <2>2. Shown' \cap Objects # {} => \A k \in {"click", "touch"} : k \in armed' \/ Setting(k)'
    BY <1>1, <1>2, <1>4, <2>1 DEF Agree, Filling
  <2> QED
    BY <1>1, <1>2, <1>3, <1>4, <1>5, <2>2 DEF Agree, Filling
<1> QED
  BY <1>6, <1>7, <1>8 DEF Agree

(* The new row tells what the thread has brought.                           *)
LEMMA AddRowExact ==
  ASSUME Shaped, Exact, NEW t \in Threads, AddRow(t)
  PROVE  Exact'
<1> SUFFICES ASSUME cause' = {} PROVE Agree'
  BY DEF Exact
<1>1. /\ ops[t].pc = "removed" /\ ops[t].op = "add" /\ Goto(t, "filled")
      /\ UNCHANGED <<table, armed, loaded, cause>>
  BY DEF AddRow
<1>2. PICK o \in Unused : rows' = Append(rows, o) /\ label' = [label EXCEPT ![o] = ops[t].name]
  BY DEF AddRow
<1>3. Agree /\ ops[t].ok /\ label \in [Rows -> Names \cup {None}]
  BY <1>1 DEF Exact, Shaped, Running, Shape, WellTyped, ScreenTyped
<1>4. loaded /\ ops[t].row = None
  BY <1>1, <1>3, Succeeds
<1>5. /\ o \in Objects /\ o \in Rows /\ o # Vacant /\ o # None /\ o \notin Shown
      /\ \A u \in Threads : ops[u].row # o
  BY UnusedIs DEF Shown
<1>6. Shown' = Shown \cup {o} /\ rows' # <<>>
  <2>1. rows' \in Seq(Rows) /\ ToSet(rows') = ToSet(rows) \cup {o}
    BY <1>2, <1>5, Appended DEF Shaped, WellTyped, ScreenTyped
  <2>2. rows' # <<>>
    BY <2>1, SeqElements
  <2> QED
    BY <2>1, <2>2 DEF Shown
<1>7. /\ \A u \in Threads : u # t => ops'[u] = ops[u]
      /\ ops'[t].pc = "filled" /\ ops'[t].row = None /\ ops'[t].op = "add"
  BY <1>1, <1>4, StepIs
<1>8. Known'
  <2>1. Bringing(t) /\ ~ Settled(o)
    BY <1>1, <1>3, <1>5 DEF Bringing, Settled
  <2>2. ASSUME NEW p \in Objects PROVE Settled(p)' <=> Settled(p) \/ p = o
    <3>1. p # None
      BY OthersAssumption
    <3>2. \A u \in Threads : (ops'[u].ok => ops'[u].row # p) <=> (ops[u].ok => ops[u].row # p)
      BY <1>4, <1>7, <3>1
    <3> QED
      BY <1>5, <1>6, <3>2 DEF Settled
  <2>3. /\ \A p \in Objects : Settled(p) => label'[p] = label[p]
        /\ label'[o] = ops[t].name
    BY <1>2, <1>3, <1>5, <2>1 DEF Rows
  <2>4. /\ \A u \in Threads : Bringing(u)' <=> Bringing(u) /\ u # t
        /\ \A u \in Threads : Bringing(u) /\ u # t => ops'[u].name = ops[u].name
    BY <1>7 DEF Bringing
  <2> QED
    BY <1>1, <1>3, <1>5, <2>1, <2>2, <2>3, <2>4, BroughtKnown DEF Agree
<1>9. OneEach'
  <2>1. \A u \in Threads : ops'[u].row = ops[u].row
    BY <1>4, <1>7
  <2>2. ASSUME NEW u \in Threads, ops'[u].row # None
        PROVE  ops'[u].row \in Shown' <=> ops'[u].pc \notin Changing
    BY <1>3, <1>4, <1>5, <1>6, <1>7, <2>1, <2>2 DEF Agree, OneEach
  <2> QED
    BY <1>3, <2>1, <2>2 DEF Agree, OneEach
<1>10. Filling'
  <2>1. Vacant \notin Shown'
    BY <1>1, <1>3, <1>5, <1>6 DEF Agree, Filling
  <2>2. t \in Workers
    BY <1>1 DEF Shaped, Running, Shape, Threads
  <2>3. \A k \in {"click", "touch"} : Setting(k)'
    BY <1>7, <2>2 DEF Setting, Before
  <2>4. label'[Vacant] = None
    BY <1>2, <1>3, <1>5 DEF Agree, Filling, Rows
  <2> QED
    BY <1>1, <1>4, <1>6, <2>1, <2>3, <2>4 DEF Filling
<1> QED
  BY <1>8, <1>9, <1>10 DEF Agree

(* A listener is set for the new row; when the row that says there is no list *)
(* has come in its place, the thread that added it has still to take it.    *)
LEMMA SetExact ==
  ASSUME Shaped, Exact, NEW t \in Threads, ops[t].op \in {"add", "load"},
         NEW k \in {"click", "touch"}, Set(k),
         UNCHANGED <<table, rows, label, loaded>>,
         \/ k = "click" /\ ops[t].pc = "filled" /\ Goto(t, "clicks")
         \/ k = "touch" /\ ops[t].pc = "clicks" /\ Ends(t)
  PROVE  Exact'
<1> SUFFICES ASSUME cause' = {} PROVE Agree'
  BY DEF Exact
<1>1. /\ armed' = armed \cup {k} /\ cause = {}
      /\ Shown # {Vacant} \/ Taking(k)
  BY DEF Set, Raced, Shown
<1>2. Agree /\ armed \subseteq {"click", "touch"} /\ ops[t].ok
  BY <1>1 DEF Exact, Shaped, WellTyped, ScreenTyped, Running, Shape
<1>3. loaded /\ ops[t].row = None
  BY <1>2, Succeeds, AtWork DEF Shape
<1>4. /\ \A u \in Threads : u # t => ops'[u] = ops[u]
      /\ k = "click" => ops'[t].pc = "clicks" /\ ops'[t].row = ops[t].row /\ ops'[t].op = ops[t].op
      /\ k = "touch" => ops'[t] = Free
  BY StepIs
<1>5. Shown' = Shown /\ ToSet(<<Vacant>>) = {Vacant}
  BY DEF Shown, ToSet
<1>6. Free.op = "none" /\ Free.pc = "free"
  BY DEF Free
<1>7. OneEach' /\ Known'
  BY <1>2, <1>3, <1>4, <1>5, ChangesOn DEF Bringing
<1>8. Filling'
  <2>1. ASSUME NEW l \in {"click", "touch"} PROVE Taking(l) => Taking(l)'
    BY <1>4 DEF Taking
  <2>2. ASSUME NEW l \in {"click", "touch"}, l # k, Setting(l) PROVE Setting(l)'
    <3>1. PICK u \in Threads : ops[u].op \in {"add", "load"} /\ ops[u].pc \in Before(l) \cup {"removed"}
      BY <2>2 DEF Setting
    <3>2. CASE u = t
      BY <1>4, <2>2, <3>1, <3>2 DEF Setting, Before
    <3>3. CASE u # t
      BY <1>4, <3>1, <3>3 DEF Setting, Threads
    <3> QED
      BY <3>2, <3>3
  <2>3. Vacant \in Shown' => rows' = <<Vacant>> /\ \A l \in armed' : Taking(l)'
    BY <1>1, <1>2, <1>5, <2>1 DEF Agree, Filling, Shown
  <2>4. Shown' \cap Objects # {} => \A l \in {"click", "touch"} : l \in armed' \/ Setting(l)'
    BY <1>1, <1>2, <1>5, <2>2 DEF Agree, Filling
  <2>5. rows' = <<>> => \E u \in Threads : ops'[u].pc \in {"removed", "empty"}
    BY <1>2, <1>3, <1>4 DEF Agree, Filling
  <2>6. \A u \in Threads : ops'[u].op = "add" /\ ops'[u].pc = "removed" => Vacant \notin Shown'
    BY <1>2, <1>4, <1>5, <1>6 DEF Agree, Filling
  <2> QED
    BY <1>2, <1>3, <2>3, <2>4, <2>5, <2>6 DEF Agree, Filling
<1> QED
  BY <1>7, <1>8 DEF Agree

(* The row at the position is the row that was chosen.                      *)
LEMMA ReturnRenameExact ==
  ASSUME Shaped, Placed, Exact, NEW t \in Threads, ReturnRename(t)
  PROVE  Exact'
<1> SUFFICES ASSUME cause' = {} PROVE Agree'
  BY DEF Exact
<1> DEFINE i == ops[t].pos
           o == ops[t].row
<1>1. /\ ops[t].pc = "served" /\ ops[t].ok /\ ops[t].op = "rename"
      /\ UNCHANGED <<table, rows, armed, loaded, cause>> /\ cause = {}
  BY DEF ReturnRename, Success
<1>2. Agree
  BY <1>1 DEF Exact
<1>3. /\ ops \in [Threads -> OpState] /\ loaded /\ t # Loader
      /\ o \in Objects /\ o # None /\ o \in Shown /\ \A u \in Threads : u # t => ops[u].row # o
  BY <1>1, <1>2, Succeeds
<1>4. i \in DOMAIN rows /\ rows[i] = o
  <2>1. t \in Workers
    BY <1>1, <1>3 DEF Shaped, Running, Shape, Threads
  <2>2. [pos |-> i, row |-> o] \in Holders
    BY <1>1, <2>1 DEF Holders, Renames
  <2>3. Means([pos |-> i, row |-> o])
    BY <1>1, <2>2 DEF Placed, Apart
  <2> QED
    BY <2>3 DEF Means
<1>5. /\ label' = [label EXCEPT ![o] = ops[t].name] /\ ops' = [ops EXCEPT ![t] = Free]
      /\ UNCHANGED <<refs, swipes, batch>>
  BY <1>4 DEF ReturnRename, Ends
<1>6. \A u \in Threads : ops'[u] = IF u = t THEN Free ELSE ops[u]
  BY <1>3, <1>5
<1>7. Free.op = "none" /\ Free.row = None /\ Free.pc = "free" /\ ~ Free.ok
  BY DEF Free
<1>8. Shown' = Shown
  BY <1>1 DEF Shown, ToSet
<1> HIDE DEF i, o
<1>9. Known'
  <2>1. Bringing(t) /\ ~ Settled(o)
    BY <1>1, <1>3 DEF Bringing, Settled, o
  <2>2. ASSUME NEW p \in Objects PROVE Settled(p)' <=> Settled(p) \/ p = o
    <3>1. p # None
      BY OthersAssumption
    <3>2. CASE p = o
      BY <1>3, <1>6, <1>7, <1>8, <3>1, <3>2 DEF Settled
    <3>3. CASE p # o
      BY <1>6, <1>7, <1>8, <3>1, <3>3 DEF Settled, o
    <3> QED
      BY <3>2, <3>3
  <2>3. /\ \A p \in Objects : Settled(p) => label'[p] = label[p]
        /\ label'[o] = ops[t].name
    <3>1. label \in [Rows -> Names \cup {None}] /\ Objects \subseteq Rows
      BY DEF Shaped, WellTyped, ScreenTyped, Rows
    <3> QED
      BY <1>3, <1>5, <2>1, <3>1
  <2>4. /\ \A u \in Threads : Bringing(u)' <=> Bringing(u) /\ u # t
        /\ \A u \in Threads : Bringing(u) /\ u # t => ops'[u].name = ops[u].name
    BY <1>6, <1>7 DEF Bringing
  <2> QED
    BY <1>1, <1>2, <1>3, <2>1, <2>2, <2>3, <2>4, BroughtKnown DEF Agree
<1>10. OneEach'
  <2>1. ASSUME NEW u \in Threads, ops'[u].row # None
        PROVE  /\ u # t /\ ops'[u] = ops[u]
               /\ ops'[u].row \in Shown' <=> ops'[u].pc \notin Changing
    BY <1>2, <1>6, <1>7, <1>8, <2>1 DEF Agree, OneEach
  <2> QED
    BY <1>2, <1>6, <1>7, <2>1, OthersAssumption DEF Agree, OneEach
<1>11. Filling'
  <2>1. loaded /\ rows = <<>> => \E u \in Threads : ops'[u].pc \in {"removed", "empty"}
    BY <1>1, <1>2, <1>6 DEF Agree, Filling
  <2>2. \A u \in Threads : ops'[u].op = "add" /\ ops'[u].pc = "removed" => Vacant \notin Shown'
    BY <1>2, <1>6, <1>7, <1>8 DEF Agree, Filling
  <2>3. \A k \in {"click", "touch"} : (Setting(k)' <=> Setting(k)) /\ (Taking(k)' <=> Taking(k))
    BY <1>1, <1>6, <1>7, ListenersStay
  <2>4. armed \subseteq {"click", "touch"} /\ label \in [Rows -> Names \cup {None}]
    BY DEF Shaped, WellTyped, ScreenTyped
  <2>5. label'[Vacant] = None
    BY <1>2, <1>3, <1>5, <2>4, OthersAssumption DEF Agree, Filling, Rows
  <2>6. /\ Vacant \in Shown' => rows' = <<Vacant>> /\ \A k \in armed' : Taking(k)'
        /\ Shown' \cap Objects # {} => \A k \in {"click", "touch"} : k \in armed' \/ Setting(k)'
    BY <1>1, <1>2, <1>8, <2>3, <2>4 DEF Agree, Filling
  <2> QED
    BY <1>1, <1>3, <2>1, <2>2, <2>5, <2>6 DEF Filling
<1> QED
  BY <1>9, <1>10, <1>11 DEF Agree

(* The rows getLists makes are those of the account: nothing has changed it   *)
(* since it was read.                                                       *)
LEMMA ReturnLoadExact == ASSUME Shaped, Exact, ReturnLoad PROVE Exact'
<1> SUFFICES ASSUME cause' = {} PROVE Agree'
  BY DEF Exact
<1> DEFINE N == ops[Loader].names
<1>1. /\ ops[Loader].pc = "served" /\ ops[Loader].op = "load" /\ ops[Loader].ok /\ Loader \in Threads
      /\ UNCHANGED <<table, armed, cause>> /\ UNCHANGED fingers /\ loaded'
  BY DEF ReturnLoad, Success, Threads
<1>2. N \in SUBSET Names /\ ~ loaded /\ ops[Loader].row = None
  BY <1>1, AtWork DEF OpState, Shape
<1>3. /\ Agree /\ rows = <<>> /\ armed = {} /\ N = DOMAIN table /\ rows \in Seq(Rows)
      /\ label \in [Rows -> Names \cup {None}] /\ N \subseteq Clean
  BY <1>1, <1>2, AccountIs DEF Exact, Agree, Filling, Shaped, WellTyped, ScreenTyped
<1>4. /\ Goto(Loader, "filled") \/ Ends(Loader)
      /\ \A u \in Threads : u # Loader => ops'[u] = Free
  <2>1. \A u \in Threads : u # Loader => ops[u] = Free
    BY <1>2, <1>3 DEF Agree, Filling, Shaped, Opened, Threads
  <2>2. Goto(Loader, "filled") \/ Ends(Loader)
    BY DEF ReturnLoad
  <2> QED
    BY <1>1, <2>1, <2>2, StepIs
<1>5. Free.op = "none" /\ Free.row = None /\ Free.pc = "free" /\ ~ Free.ok
  BY DEF Free
<1>8. /\ \A u \in Threads : ops'[u].row = None /\ ops'[u].op \in {"none", "load"}
      /\ Goto(Loader, "filled") => ops'[Loader].op = "load" /\ ops'[Loader].pc = "filled"
  BY <1>1, <1>2, <1>4, <1>5, StepIs
<1>6. /\ \A u \in Threads : ~ Bringing(u)'
      /\ \A p : Settled(p)' <=> p \in Objects /\ p \in Shown'
  BY <1>8, OthersAssumption DEF Bringing, Settled
<1>7. OneEach'
  BY <1>8, OthersAssumption DEF OneEach
<1>9. \A u \in Threads : ~ (ops'[u].op = "add" /\ ops'[u].pc = "removed")
  BY <1>8
<1>10. CASE /\ N # {} /\ Goto(Loader, "filled")
            /\ \E new \in Injection(1 .. Cardinality(N), Unused) : \E name \in Bijection(Range(new), N) :
                 /\ rows' = rows \o new
                 /\ label' = [o \in DOMAIN label |-> IF o \in Range(new) THEN name[o] ELSE label[o]]
  <2> HIDE DEF N
  <2>1. PICK new \in Injection(1 .. Cardinality(N), Unused) : \E name \in Bijection(Range(new), N) :
                /\ rows' = rows \o new
                /\ label' = [o \in DOMAIN label |-> IF o \in Range(new) THEN name[o] ELSE label[o]]
    BY <1>10
  <2>2. PICK name \in Bijection(Range(new), N) :
                /\ rows' = rows \o new
                /\ label' = [o \in DOMAIN label |-> IF o \in Range(new) THEN name[o] ELSE label[o]]
    BY <2>1
  <2>3. /\ ToSet(new) = Range(new) /\ Range(new) \subseteq Unused
        /\ rows' \in Seq(Rows) /\ ToSet(rows') = ToSet(rows) \cup ToSet(new)
        /\ \A o \in ToSet(new) : o \in Rows /\ label'[o] = name[o] /\ name[o] \in N
        /\ \A o, p \in ToSet(new) : name[o] = name[p] => o = p
        /\ \A n \in N : \E o \in ToSet(new) : name[o] = n
    <3>1. N \in SUBSET Names
      BY <1>2
    <3> QED
      BY ONLY Shaped, <2>1, <2>2, <3>1, Filled
  <2>4. ToSet(rows) = {} /\ Shown' = ToSet(new)
    <3>1. ToSet(<<>>) = {}
      BY DEF ToSet
    <3>2. ToSet(rows) = {}
      BY <1>3, <3>1
    <3> QED
      BY <2>3, <3>2 DEF Shown
  <2>5. Shown' \subseteq Objects /\ Shown' # {}
    BY <1>10, <2>3, <2>4 DEF Unused
  <2>6. rows' # <<>>
    <3>1. ToSet(<<>>) = {}
      BY DEF ToSet
    <3> QED
      BY <2>3, <2>4, <2>5, <3>1
  <2>7. \A p \in Objects : Settled(p)' <=> p \in ToSet(new)
    BY <1>6, <2>4
  <2>8. Known'
    <3>1. \A o \in ToSet(new) : Sent(label'[o]) = name[o]
      BY <1>3, <2>3, SentIs
    <3> QED
      BY <1>1, <1>3, <1>6, <2>3, <2>4, <2>5, <2>7, <3>1 DEF Known
  <2>9. Filling'
    <3>1. label'[Vacant] = None
      <4>1. Vacant \notin Range(new) /\ Vacant \in Rows
        BY <2>4, <2>3, <2>5, OthersAssumption DEF Rows
      <4> QED
        BY <1>3, <2>2, <4>1 DEF Agree, Filling
    <3>2. \A k \in {"click", "touch"} : Setting(k)'
      BY <1>1, <1>8, <1>10 DEF Setting, Before
    <3> QED
      BY <1>1, <1>3, <1>9, <2>5, <2>6, <3>1, <3>2, OthersAssumption DEF Filling
  <2> QED
    BY <1>7, <2>8, <2>9 DEF Agree
<1>11. CASE N = {} /\ rows' = Append(rows, Vacant) /\ UNCHANGED label
  <2>1. rows' = <<Vacant>> /\ Shown' = {Vacant}
    <3>1. ToSet(<<Vacant>>) = {Vacant}
      BY DEF ToSet
    <3> QED
      BY <1>3, <1>11, <3>1 DEF Shown
  <2>2. \A p : ~ Settled(p)'
    BY <1>6, <2>1, OthersAssumption
  <2> DEFINE D == DOMAIN table
  <2>3. Known'
    <3>1. D = {} /\ DOMAIN table' = D
      BY <1>1, <1>3, <1>11
    <3>2. \A o \in Objects : Settled(o)' => Sent(label'[o]) \in DOMAIN table'
      BY <2>2
    <3> HIDE DEF D
    <3> QED
      BY <1>6, <2>2, <3>1 DEF Known
  <2>4. Filling'
    <3>1. armed' = {} /\ label'[Vacant] = None /\ Shown' \cap Objects = {} /\ rows' # <<>>
      BY <1>1, <1>3, <1>11, <2>1, OthersAssumption DEF Agree, Filling
    <3> QED
      BY <1>1, <1>9, <2>1, <3>1 DEF Filling
  <2> QED
    BY <1>7, <2>3, <2>4 DEF Agree
<1> QED
  BY <1>10, <1>11 DEF ReturnLoad

LEMMA NextExact == ASSUME Shaped, Placed, Exact, [Next]_vars PROVE Exact'
<1>1. CASE UNCHANGED vars
  <2>1. UNCHANGED <<table, rows, label, armed, loaded, ops, cause>>
    BY <1>1 DEF vars, screen
  <2> QED
    BY <2>1, TouchAgree DEF Exact
<1>2. CASE ByUser
  <2>1. ASSUME NEW w \in Workers, Cancel(w) PROVE Exact'
    <3>1. /\ w \in Threads /\ ops[w].pc = "dialog" /\ Ends(w) /\ UNCHANGED fingers
          /\ UNCHANGED <<table, rows, label, armed, loaded, cause>>
      BY <2>1 DEF Cancel, Threads, screen
    <3>2. ~ ops[w].ok
      BY <3>1 DEF Shaped, Running, Shape
    <3> QED
      BY <3>1, <3>2, EndsExact
  <2>2. ASSUME Reopen PROVE Exact'
    BY <2>2, ReopenExact DEF Exact
  <2> QED
    BY <1>2, <2>1, <2>2, NamesAssumption, ConfirmAddExact, LongClickExact, ConfirmExact, TouchedExact DEF ByUser, Down
<1>3. CASE Touching
  BY <1>3, TouchedExact DEF Touching, Up, Settle
<1>4. ASSUME NEW t \in Threads, Exchange(t) PROVE Exact'
  <2>1. ASSUME ReturnFailure(t) PROVE Exact'
    BY <2>1, EndsExact DEF ReturnFailure, screen
  <2>2. ASSUME TakeClicks(t) \/ TakeTouches(t) PROVE Exact'
    BY <2>2, TakeExact DEF TakeClicks, TakeTouches
  <2>3. ASSUME SetClicks(t) \/ SetTouches(t) PROVE Exact'
    BY <2>3, SetExact DEF SetClicks, SetTouches
  <2> QED
    BY <1>4, <2>1, <2>2, <2>3, ServeExact, LoseExact, ReturnDeleteExact, CountExact, AddVacantExact,
       ReturnAddExact, AddRowExact, ReturnRenameExact DEF Exchange, Return
<1> QED
  BY <1>1, <1>2, <1>3, <1>4, ReturnLoadExact, DismissExact DEF Next

(* When no thread brings or changes anything, the rows are the account's.    *)
LEMMA AgreeTrue == ASSUME Shaped, Placed, Exact PROVE ScreenTrue
<1> DEFINE D == DOMAIN table
<1> SUFFICES ASSUME alive, loaded, cause = {}, ~ Busy, swipes = {},
                    \A t \in Workers \cup {Loader} : ops[t].pc = "free"
             PROVE  IF D = {} THEN rows = <<Vacant>> /\ armed = {} /\ label[Vacant] = None
                    ELSE /\ armed = {"click", "touch"} /\ Len(rows) = Cardinality(D)
                         /\ {Sent(label[o]) : o \in ToSet(rows)} = D
  BY DEF ScreenTrue
<1>1. Agree /\ IsInjective(rows) /\ rows \in Seq(Rows) /\ armed \subseteq {"click", "touch"}
  BY DEF Exact, Placed, Apart, Shaped, WellTyped, ScreenTyped
<1>2. \A t \in Threads : ops[t].pc = "free" /\ ~ ops[t].ok
  <2>1. \A t \in Threads : ops[t].pc = "free"
    BY DEF Shaped, Opened, Busy, Threads, Free
  <2> QED
    BY <2>1 DEF Shaped, Running, Shape
<1>3. /\ \A o \in Objects : Settled(o) <=> o \in Shown
      /\ \A t \in Threads : ~ Bringing(t)
  BY <1>2 DEF Settled, Bringing
<1>4. rows # <<>> /\ Shown \subseteq Rows
  BY <1>1, <1>2, SeqElements DEF Agree, Filling, Shown
<1>5. /\ \A o \in Objects : o \in Shown => Sent(label[o]) \in D
      /\ \A n \in D : \E o \in Objects : o \in Shown /\ Sent(label[o]) = n
      /\ \A o, p \in Objects : o \in Shown /\ p \in Shown /\ Sent(label[o]) = Sent(label[p]) => o = p
  BY <1>1, <1>3 DEF Agree, Known
<1>6. /\ Vacant \in Shown => rows = <<Vacant>> /\ armed = {}
      /\ Shown \cap Objects # {} => armed = {"click", "touch"}
      /\ label[Vacant] = None
  <2>1. \A k \in {"click", "touch"} : ~ Setting(k) /\ ~ Taking(k)
    BY <1>2 DEF Setting, Taking, Before, Threads
  <2> QED
    BY <1>1, <2>1 DEF Agree, Filling
<1> HIDE DEF D
<1>7. CASE D = {}
  <2>1. \A o \in Objects : o \notin Shown
    BY <1>5, <1>7
  <2>2. Shown # {}
    BY <1>1, <1>4, SeqElements DEF Shown
  <2> QED
    BY <1>4, <1>6, <1>7, <2>1, <2>2 DEF Rows
<1>8. CASE D # {}
  <2>1. armed = {"click", "touch"} /\ Shown \subseteq Objects
    BY <1>4, <1>5, <1>6, <1>8 DEF Rows
  <2>2. {Sent(label[o]) : o \in ToSet(rows)} = D
    <3>1. \A o \in ToSet(rows) : o \in Objects /\ Sent(label[o]) \in D
      BY <1>5, <2>1 DEF Shown
    <3>2. \A n \in D : \E o \in ToSet(rows) : Sent(label[o]) = n
      BY <1>5 DEF Shown
    <3> QED
      BY <3>1, <3>2
  <2> DEFINE f == [i \in 1 .. Len(rows) |-> Sent(label[rows[i]])]
  <2>3. Len(rows) \in Nat /\ DOMAIN rows = 1 .. Len(rows) /\ \A i \in DOMAIN rows : rows[i] \in Shown
    BY <1>1, SeqElements DEF Shown
  <2>4. \A n \in D : \E i \in DOMAIN rows : Sent(label[rows[i]]) = n
    <3>1. \A o \in Shown : \E i \in DOMAIN rows : rows[i] = o
      BY <1>1, SeqElements DEF Shown
    <3> QED
      BY <1>5, <3>1
  <2>5. \A i, j \in DOMAIN rows : Sent(label[rows[i]]) = Sent(label[rows[j]]) => i = j
    <3>1. ASSUME NEW i \in DOMAIN rows, NEW j \in DOMAIN rows, Sent(label[rows[i]]) = Sent(label[rows[j]])
          PROVE  i = j
      <4>1. rows[i] = rows[j]
        BY <1>5, <2>1, <2>3, <3>1
      <4> QED
        BY <1>1, <4>1 DEF IsInjective
    <3> QED
      BY <3>1
  <2>6. f \in Bijection(1 .. Len(rows), D)
    <3>1. f \in [1 .. Len(rows) -> D]
      BY <1>5, <2>1, <2>3
    <3> QED
      BY <2>3, <2>4, <2>5, <3>1 DEF Bijection, Injection, Surjection, IsInjective
  <2> HIDE DEF f
  <2>7. IsFiniteSet(1 .. Len(rows)) /\ Cardinality(1 .. Len(rows)) = Len(rows)
    <3> DEFINE l == Len(rows)
    <3>1. l \in Nat
      BY <2>3
    <3> HIDE DEF l
    <3>2. IsFiniteSet(1 .. l) /\ Cardinality(1 .. l) = IF 1 > l THEN 0 ELSE l - 1 + 1
      BY <3>1, FS_Interval
    <3>3. IsFiniteSet(1 .. l) /\ Cardinality(1 .. l) = l
      BY <3>1, <3>2
    <3> QED
      BY <3>3 DEF l
  <2>8. Cardinality(D) = Cardinality(1 .. Len(rows))
    BY <2>6, <2>7, FS_Bijection DEF ExistsBijection
  <2> QED
    BY <1>8, <2>1, <2>2, <2>7, <2>8
<1> QED
  BY <1>7, <1>8

(* Once nothing is under way the screen shows each list of the account in one *)
(* row, or the row that says there is none, and has the listeners it should  *)
(* have, unless one of the five causes came between, the race of two threads *)
(* that change rows and listeners call by call among them                    *)
(* (ListActivity.getLists, addNewList, deleteList, editListName against the  *)
(* routes of handlers/list.js).                                             *)
THEOREM ScreenIsTrue == Spec => []ScreenTrue
<1>1. Init => Shaped /\ Placed /\ Exact
  BY InitShaped, InitPlaced, InitExact DEF Exact
<1>2. Shaped /\ Placed /\ Exact /\ [Next]_vars => Shaped' /\ Placed' /\ Exact'
  BY NextShaped, NextPlaced, NextExact
<1>3. Shaped /\ Placed /\ Exact => ScreenTrue
  BY AgreeTrue
<1> QED
  BY <1>1, <1>2, <1>3, PTL DEF Spec
============================================================================
