------------------------ MODULE ConnectionPoolProofs ------------------------
(* What holds of the pool for any statements and any number of clients.     *)
EXTENDS ConnectionPool, SequenceTheorems, FiniteSetTheorems, TLAPS

-----------------------------------------------------------------------------
(* Sequences without repetition.                                            *)

LEMMA SeqOfInjection ==
  ASSUME NEW S, NEW n \in Nat, NEW f \in Injection(1 .. n, S)
  PROVE  /\ f \in Seq(S)
         /\ Len(f) = n
         /\ IsInjective(f)
         /\ n = 0 => f = <<>>
<1>1. f \in [1 .. n -> S] /\ IsInjective(f)
  BY DEF Injection
<1>2. f \in Seq(S)
  BY <1>1, SeqDef
<1>3. Len(f) = n
  BY <1>1, <1>2, LenProperties
<1>4. n = 0 => f = <<>>
  BY <1>2, <1>3, EmptySeq
<1> QED
  BY <1>1, <1>2, <1>3, <1>4

LEMMA ToSetOfSeq ==
  ASSUME NEW S, NEW s \in Seq(S)
  PROVE  /\ ToSet(s) \subseteq S
         /\ ToSet(s) = {s[i] : i \in 1 .. Len(s)}
         /\ IsInjective(s) <=> \A i, j \in 1 .. Len(s) : s[i] = s[j] => i = j
BY LenProperties, ElementOfSeq DEF ToSet, IsInjective

LEMMA InjectiveAppend ==
  ASSUME NEW S, NEW s \in Seq(S), IsInjective(s), NEW e \in S
  PROVE  /\ ToSet(Append(s, e)) = ToSet(s) \cup {e}
         /\ e \notin ToSet(s) => IsInjective(Append(s, e))
<1> DEFINE t == Append(s, e)
           n == Len(s)
<1>1. /\ t \in Seq(S) /\ Len(t) = n + 1 /\ t[n + 1] = e
      /\ \A i \in 1 .. n : t[i] = s[i]
  BY AppendProperties
<1>2. n \in Nat
  BY LenProperties
<1>3. ToSet(t) = {t[i] : i \in 1 .. n + 1}
  BY <1>1, ToSetOfSeq
<1>4. ToSet(s) = {s[i] : i \in 1 .. n}
  BY ToSetOfSeq
<1>5. \A i \in 1 .. n + 1 : i \in 1 .. n \/ i = n + 1
  BY <1>2
<1>6. \A i \in 1 .. n : i \in 1 .. n + 1
  BY <1>2
<1>7. n + 1 \in 1 .. n + 1
  BY <1>2
<1> HIDE DEF t, n
<1>8. ToSet(t) = ToSet(s) \cup {e}
  BY <1>1, <1>3, <1>4, <1>5, <1>6, <1>7
<1>9. ASSUME e \notin ToSet(s) PROVE IsInjective(t)
  <2> SUFFICES ASSUME NEW i \in 1 .. n + 1, NEW j \in 1 .. n + 1, t[i] = t[j] PROVE i = j
    BY <1>1, ToSetOfSeq
  <2>1. \A x, y \in 1 .. n : s[x] = s[y] => x = y
    BY ToSetOfSeq DEF n
  <2>2. \A x \in 1 .. n : s[x] # e
    BY <1>4, <1>9
  <2> QED
    BY <1>1, <1>5, <2>1, <2>2
<1> QED
  BY <1>8, <1>9 DEF t

LEMMA InjectiveTail ==
  ASSUME NEW S, NEW s \in Seq(S), IsInjective(s), s # <<>>
  PROVE  /\ Head(s) \in S /\ Head(s) \in ToSet(s)
         /\ Tail(s) \in Seq(S) /\ Len(Tail(s)) = Len(s) - 1
         /\ IsInjective(Tail(s))
         /\ ToSet(Tail(s)) = ToSet(s) \ {Head(s)}
<1> DEFINE t == Tail(s)
           n == Len(t)
<1>1. /\ Head(s) \in S /\ t \in Seq(S) /\ n = Len(s) - 1
      /\ \A i \in 1 .. n : t[i] = s[i + 1]
  BY HeadTailProperties
<1>2. Len(s) \in Nat \ {0} /\ n \in Nat /\ Len(s) = n + 1
  BY <1>1, EmptySeq, LenProperties
<1>3. Head(s) = s[1]
  OBVIOUS
<1>4. ToSet(s) = {s[i] : i \in 1 .. n + 1} /\ \A i, j \in 1 .. n + 1 : s[i] = s[j] => i = j
  BY <1>2, ToSetOfSeq
<1>5. ToSet(t) = {t[i] : i \in 1 .. n}
  BY <1>1, ToSetOfSeq
<1> HIDE DEF t, n
<1>6. \A i \in 1 .. n + 1 : i = 1 \/ (i - 1 \in 1 .. n /\ (i - 1) + 1 = i)
  BY <1>2
<1>7. \A i \in 1 .. n : i + 1 \in 1 .. n + 1 /\ i + 1 # 1
  BY <1>2
<1>8. 1 \in 1 .. n + 1
  BY <1>2
<1>9. ToSet(t) \subseteq ToSet(s) \ {Head(s)}
  BY <1>1, <1>3, <1>4, <1>5, <1>7, <1>8
<1>10. ToSet(s) \ {Head(s)} \subseteq ToSet(t)
  <2> SUFFICES ASSUME NEW i \in 1 .. n + 1, s[i] # s[1] PROVE s[i] \in ToSet(t)
    BY <1>3, <1>4
  <2>1. i - 1 \in 1 .. n /\ (i - 1) + 1 = i
    BY <1>6
  <2>2. t[i - 1] = s[i]
    BY <1>1, <2>1
  <2> QED
    BY <1>5, <2>1, <2>2
<1>11. IsInjective(t)
  <2> SUFFICES ASSUME NEW i \in 1 .. n, NEW j \in 1 .. n, t[i] = t[j] PROVE i = j
    BY <1>1, ToSetOfSeq DEF n
  <2>1. s[i + 1] = s[j + 1] /\ i + 1 \in 1 .. n + 1 /\ j + 1 \in 1 .. n + 1
    BY <1>1, <1>7
  <2>2. i + 1 = j + 1
    BY <1>4, <2>1
  <2> QED
    BY <2>2
<1>12. Head(s) \in ToSet(s)
  BY <1>3, <1>4, <1>8
<1> QED
  BY <1>1, <1>9, <1>10, <1>11, <1>12 DEF t, n

LEMMA InjectiveConcat ==
  ASSUME NEW S, NEW s \in Seq(S), NEW t \in Seq(S), IsInjective(s), IsInjective(t),
         ToSet(s) \cap ToSet(t) = {}
  PROVE  /\ s \o t \in Seq(S) /\ Len(s \o t) = Len(s) + Len(t)
         /\ IsInjective(s \o t)
         /\ ToSet(s \o t) \subseteq ToSet(s) \cup ToSet(t)
<1> DEFINE m == Len(s)
           n == Len(t)
           u == s \o t
<1>1. /\ u \in Seq(S) /\ Len(u) = m + n
      /\ \A i \in 1 .. m + n : u[i] = IF i <= m THEN s[i] ELSE t[i - m]
  BY ConcatProperties
<1>2. m \in Nat /\ n \in Nat
  BY LenProperties
<1>3. /\ ToSet(s) = {s[i] : i \in 1 .. m}
      /\ \A i, j \in 1 .. m : s[i] = s[j] => i = j
      /\ ToSet(t) = {t[i] : i \in 1 .. n}
      /\ \A i, j \in 1 .. n : t[i] = t[j] => i = j
      /\ ToSet(u) = {u[i] : i \in 1 .. m + n}
  <2>1. /\ ToSet(s) = {s[i] : i \in 1 .. m}
        /\ \A i, j \in 1 .. m : s[i] = s[j] => i = j
    BY ToSetOfSeq
  <2>2. /\ ToSet(t) = {t[i] : i \in 1 .. n}
        /\ \A i, j \in 1 .. n : t[i] = t[j] => i = j
    BY ToSetOfSeq
  <2> HIDE DEF u
  <2>3. u \in Seq(S) /\ Len(u) = m + n
    BY <1>1
  <2> HIDE DEF m, n
  <2>4. ToSet(u) = {u[i] : i \in 1 .. Len(u)}
    BY ONLY <2>3, ToSetOfSeq
  <2>5. ToSet(u) = {u[i] : i \in 1 .. m + n}
    BY ONLY <2>3, <2>4
  <2> QED
    BY <2>1, <2>2, <2>5
<1> HIDE DEF m, n, u
<1>4. \A i \in 1 .. m + n :
        \/ i <= m /\ i \in 1 .. m /\ u[i] = s[i] /\ u[i] \in ToSet(s)
        \/ ~ (i <= m) /\ i - m \in 1 .. n /\ u[i] = t[i - m] /\ u[i] \in ToSet(t)
  <2> SUFFICES ASSUME NEW i \in 1 .. m + n
               PROVE  \/ i <= m /\ i \in 1 .. m /\ u[i] = s[i] /\ u[i] \in ToSet(s)
                      \/ ~ (i <= m) /\ i - m \in 1 .. n /\ u[i] = t[i - m] /\ u[i] \in ToSet(t)
    OBVIOUS
  <2>1. CASE i <= m
    <3>1. i \in 1 .. m
      BY <1>2, <2>1
    <3> QED
      BY <1>1, <1>3, <2>1, <3>1
  <2>2. CASE ~ (i <= m)
    <3>1. i - m \in 1 .. n
      BY <1>2, <2>2
    <3> QED
      BY <1>1, <1>3, <2>2, <3>1
  <2> QED
    BY <2>1, <2>2
<1>5. IsInjective(u)
  <2> SUFFICES ASSUME NEW i \in 1 .. m + n, NEW j \in 1 .. m + n, u[i] = u[j] PROVE i = j
    BY <1>1, ToSetOfSeq
  <2>1. CASE i <= m
    BY <1>3, <1>4, <2>1
  <2>2. CASE ~ (i <= m)
    <3>1. i - m = j - m
      BY <1>3, <1>4, <2>2
    <3> QED
      BY <1>2, <3>1
  <2> QED
    BY <2>1, <2>2
<1>6. ToSet(u) \subseteq ToSet(s) \cup ToSet(t)
  BY <1>3, <1>4
<1> QED
  BY <1>1, <1>5, <1>6 DEF m, n, u

LEMMA InjectiveSuffix ==
  ASSUME NEW S, NEW s \in Seq(S), IsInjective(s), NEW k \in 0 .. Len(s)
  PROVE  LET t == SubSeq(s, k + 1, Len(s)) IN
         /\ t \in Seq(S) /\ Len(t) = Len(s) - k
         /\ IsInjective(t)
         /\ ToSet(t) \subseteq ToSet(s)
<1> DEFINE n == Len(s)
           t == SubSeq(s, k + 1, n)
<1>1. n \in Nat
  BY LenProperties
<1>2. \A i \in k + 1 .. n : s[i] \in S
  BY <1>1, ElementOfSeq
<1>3. /\ t \in Seq(S)
      /\ Len(t) = IF k + 1 <= n THEN n - (k + 1) + 1 ELSE 0
      /\ \A i \in 1 .. n - (k + 1) + 1 : t[i] = s[(k + 1) + i - 1]
  BY <1>1, <1>2, SubSeqProperties
<1>4. Len(t) = n - k /\ \A i \in 1 .. n - k : t[i] = s[k + i] /\ k + i \in 1 .. n
  <2>1. n - (k + 1) + 1 = n - k /\ \A i \in 1 .. n - k : (k + 1) + i - 1 = k + i /\ k + i \in 1 .. n
    BY <1>1
  <2>2. Len(t) = n - k
    BY <1>1, <1>3
  <2> HIDE DEF t
  <2> QED
    BY <1>3, <2>1, <2>2
<1> HIDE DEF t
<1>5. ToSet(s) = {s[i] : i \in 1 .. n} /\ \A i, j \in 1 .. n : s[i] = s[j] => i = j
  BY ToSetOfSeq
<1>6. ToSet(t) = {t[i] : i \in 1 .. n - k}
  BY <1>3, <1>4, ToSetOfSeq
<1>7. IsInjective(t)
  <2> SUFFICES ASSUME NEW i \in 1 .. n - k, NEW j \in 1 .. n - k, t[i] = t[j] PROVE i = j
    BY <1>3, <1>4, ToSetOfSeq
  <2>1. k + i = k + j
    BY <1>4, <1>5
  <2> QED
    BY <1>1, <2>1
<1>8. ToSet(t) \subseteq ToSet(s)
  BY <1>4, <1>5, <1>6
<1> QED
  BY <1>3, <1>4, <1>7, <1>8 DEF t

-----------------------------------------------------------------------------
(* The inductive invariant.                                                 *)

\* W waits, A was asked for, and the clients U have the others, one each.
Serves(A, W, U, f) ==
  /\ ToSet(W) \subseteq A /\ IsInjective(W)
  /\ \A c \in U : f[c].work \in A \ ToSet(W)
  /\ \A c, d \in U : f[c].work = f[d].work => c = d
  /\ \A q \in A : q \in ToSet(W) \/ \E c \in U : f[c].work = q

Served == Serves(asked, waiting, inUse, client)

\* Every client of the pool is in one place and counted.
Placed ==
  /\ IsInjective(avail) /\ ToSet(avail) \cap inUse = {}
  /\ count = Len(avail) + Cardinality(inUse)

\* A process that does not run has nothing.
Resting ==
  ~ alive =>
    /\ asked = {} /\ waiting = <<>> /\ avail = <<>> /\ inUse = {}
    /\ count = 0 /\ expired = 0 /\ scheduled = FALSE

Enough == alive => PoolMin <= count

IInv == TypeOK /\ Served /\ Placed /\ Resting /\ Enough /\ NobodyWaitsBesideIdle

LEMMA IInvImplies == IInv => Accounted
BY DEF IInv, Accounted, Served, Serves, Placed, Enough, TypeOK

-----------------------------------------------------------------------------
(* Clients.                                                                 *)

LEMMA ConnectingType == Connecting \in Client
BY DEF Connecting, Client

LEMMA GivenType ==
  ASSUME NEW y \in Client, NEW q \in Queries
  PROVE  Given(y, q) \in Client /\ Given(y, q).work = q
BY NoneAssumption DEF Given, Client

LEMMA PulsedType ==
  ASSUME NEW y \in Client
  PROVE  LET z == [Pulsed(y) EXCEPT !.link = "up"] IN z \in Client /\ z.work = y.work
BY DEF Pulsed, Client

LEMMA FiniteUse == IInv => /\ IsFiniteSet(inUse) /\ Cardinality(inUse) \in Nat
                           /\ inUse = {} <=> Cardinality(inUse) = 0
BY ClientsAssumption, FS_Subset, FS_CardinalityType, FS_EmptySet DEF IInv, TypeOK

\* Somebody who asks is given a client.
LEMMA ServesAsked ==
  ASSUME NEW A, NEW U, NEW f, NEW g, NEW c, NEW q,
         Serves(A, <<>>, U, f), q \notin A, c \notin U,
         \A d \in U : g[d] = f[d], g[c].work = q
  PROVE  Serves(A \cup {q}, <<>>, U \cup {c}, g)
BY DEF Serves

\* Somebody who asks waits.
LEMMA ServesWaiting ==
  ASSUME NEW A, NEW W \in Seq(Queries), NEW U, NEW f, NEW q \in Queries,
         Serves(A, W, U, f), q \notin A
  PROVE  Serves(A \cup {q}, Append(W, q), U, f)
<1>1. ToSet(Append(W, q)) = ToSet(W) \cup {q} /\ IsInjective(Append(W, q))
  BY InjectiveAppend DEF Serves
<1> QED
  BY <1>1 DEF Serves

\* A client is not used any more.
LEMMA ServesFreed ==
  ASSUME NEW A, NEW W, NEW U, NEW f, NEW g, NEW c \in U,
         Serves(A, W, U, f), \A d \in U \ {c} : g[d] = f[d]
  PROVE  Serves(A \ {f[c].work}, W, U \ {c}, g)
BY DEF Serves

\* A client goes to the one who waits first.
LEMMA ServesNext ==
  ASSUME NEW A, NEW W \in Seq(Queries), W # <<>>, NEW U, NEW f, NEW g, NEW c \in U,
         Serves(A, W, U, f), \A d \in U \ {c} : g[d] = f[d], g[c].work = Head(W)
  PROVE  Serves(A \ {f[c].work}, Tail(W), U, g)
<1>1. /\ Head(W) \in ToSet(W) /\ IsInjective(Tail(W))
      /\ ToSet(Tail(W)) = ToSet(W) \ {Head(W)}
  BY InjectiveTail DEF Serves
<1>2. \A d \in U : g[d].work = IF d = c THEN Head(W) ELSE f[d].work
  OBVIOUS
<1>3. \A d \in U : g[d].work \in (A \ {f[c].work}) \ ToSet(Tail(W))
  BY <1>1, <1>2 DEF Serves
<1>4. \A d, e \in U : g[d].work = g[e].work => d = e
  BY <1>1, <1>2 DEF Serves
<1>5. \A q \in A \ {f[c].work} : q \in ToSet(Tail(W)) \/ \E d \in U : g[d].work = q
  BY <1>1, <1>2 DEF Serves
<1> QED
  BY <1>1, <1>3, <1>4, <1>5 DEF Serves

-----------------------------------------------------------------------------
(* The steps.                                                               *)

LEMMA EmptyToSet == ToSet(<<>>) = {} /\ IsInjective(<<>>)
<1>1. <<>> \in Seq({}) /\ Len(<<>>) = 0 /\ DOMAIN <<>> = 1 .. 0
  BY EmptySeq, LenProperties
<1> QED
  BY <1>1 DEF ToSet, IsInjective

LEMMA FirstAlone ==
  ASSUME NEW S, NEW e \in S
  PROVE  Head(Append(<<>>, e)) = e /\ Tail(Append(<<>>, e)) = <<>>
BY EmptySeq, HeadTailAppend

\* The clients the constructor creates.
LEMMA Created ==
  ASSUME NEW a \in Injection(1 .. PoolMin, Clients)
  PROVE  a \in Seq(Clients) /\ Len(a) = PoolMin /\ IsInjective(a)
BY BoundsAssumption, SeqOfInjection

LEMMA InitIInv == Init => IInv
<1> SUFFICES ASSUME Init PROVE IInv
  OBVIOUS
<1> USE DEF Init
<1>1. avail \in Seq(Clients) /\ Len(avail) = PoolMin /\ IsInjective(avail)
  BY Created
<1>2. TypeOK
  BY <1>1, BoundsAssumption, ConnectingType, EmptySeq DEF TypeOK
<1>3. Served
  BY EmptyToSet DEF Served, Serves
<1>4. Placed
  BY <1>1, FS_EmptySet, BoundsAssumption DEF Placed
<1> QED
  BY <1>2, <1>3, <1>4, BoundsAssumption DEF IInv, Resting, Enough, NobodyWaitsBesideIdle

LEMMA AskStep ==
  ASSUME IInv, NEW q \in Queries, Ask(q)
  PROVE  IInv'
<1>1. /\ alive /\ q \notin asked /\ asked' = asked \cup {q}
      /\ alive' = alive /\ scheduled' = scheduled
  BY DEF Ask
<1>2. TypeOK /\ Served /\ Placed /\ Enough /\ NobodyWaitsBesideIdle
  BY DEF IInv
<1>3. IsFiniteSet(inUse) /\ Cardinality(inUse) \in Nat
  BY FiniteUse
<1>4. Resting'
  BY <1>1 DEF Resting
<1>5. count \in Nat /\ PoolMax \in Nat /\ Len(avail) \in Nat
  BY <1>2, BoundsAssumption, LenProperties DEF TypeOK
<1>6. CASE avail # <<>>
  <2> DEFINE c == Head(avail)
  <2>1. waiting = <<>>
    BY <1>2, <1>6 DEF NobodyWaitsBesideIdle
  <2>2. Head(Append(waiting, q)) = q /\ Tail(Append(waiting, q)) = <<>>
    BY <2>1, FirstAlone
  <2>3. /\ waiting' = <<>> /\ avail' = Tail(avail) /\ inUse' = inUse \cup {c}
        /\ expired' = IF expired > 0 THEN expired - 1 ELSE 0
        /\ client' = [client EXCEPT ![c] = Given(@, q)]
        /\ count' = count
    BY <1>6, <2>2 DEF Ask, FirstLeaves
  <2>4. /\ c \in Clients /\ c \in ToSet(avail)
        /\ Tail(avail) \in Seq(Clients) /\ Len(Tail(avail)) = Len(avail) - 1
        /\ IsInjective(Tail(avail)) /\ ToSet(Tail(avail)) = ToSet(avail) \ {c}
    BY <1>2, <1>6, InjectiveTail DEF TypeOK, Placed
  <2>5. c \notin inUse
    BY <1>2, <2>4 DEF Placed
  <2> HIDE DEF c
  <2>6. /\ client' \in [Clients -> Client] /\ client'[c].work = q
        /\ \A d \in Clients \ {c} : client'[d] = client[d]
    <3>1. Given(client[c], q) \in Client /\ Given(client[c], q).work = q
      BY <1>2, <2>4, GivenType DEF TypeOK
    <3> QED
      BY <1>2, <2>3, <2>4, <3>1 DEF TypeOK
  <2>7. expired' \in 0 .. Len(avail')
    BY <1>2, <1>5, <2>3, <2>4 DEF TypeOK
  <2>8. TypeOK'
    BY <1>1, <1>2, <2>3, <2>4, <2>6, <2>7, EmptySeq DEF TypeOK
  <2>9. Served'
    <3>1. Serves(asked, <<>>, inUse, client)
      BY <1>2, <2>1 DEF Served
    <3>2. \A d \in inUse : client'[d] = client[d]
      BY <1>2, <2>5, <2>6 DEF TypeOK
    <3>3. Serves(asked \cup {q}, <<>>, inUse \cup {c}, client')
      BY <1>1, <2>5, <2>6, <3>1, <3>2, ServesAsked
    <3> QED
      BY <1>1, <2>3, <3>3 DEF Served
  <2>10. Placed'
    <3>1. Cardinality(inUse') = Cardinality(inUse) + 1
      BY <1>3, <2>3, <2>5, FS_AddElement
    <3>2. ToSet(avail') \cap inUse' = {} /\ IsInjective(avail')
      BY <1>2, <2>3, <2>4 DEF Placed
    <3>3. count' = Len(avail') + Cardinality(inUse')
      BY <1>2, <1>3, <1>5, <2>3, <2>4, <3>1 DEF Placed
    <3> QED
      BY <3>2, <3>3 DEF Placed
  <2> QED
    BY <1>1, <1>2, <1>4, <2>3, <2>8, <2>9, <2>10 DEF IInv, Enough, NobodyWaitsBesideIdle
<1>7. CASE avail = <<>> /\ count < PoolMax
  <2>1. waiting = <<>>
    BY <1>2, <1>5, <1>7 DEF NobodyWaitsBesideIdle
  <2>2. Head(Append(waiting, q)) = q /\ Tail(Append(waiting, q)) = <<>>
    BY <2>1, FirstAlone
  <2>3. /\ waiting' = <<>> /\ avail' = avail
        /\ expired' = expired /\ count' = count + 1
    BY <1>5, <1>7, <2>2 DEF Ask
  <2>10. PICK c \in Clients \ Pooled :
           /\ inUse' = inUse \cup {c}
           /\ client' = [client EXCEPT ![c] = Given(Connecting, Head(Append(waiting, q)))]
    BY <1>5, <1>7 DEF Ask
  <2>4. c \in Clients /\ c \notin inUse /\ c \notin ToSet(avail)
    BY <2>10 DEF Pooled
  <2>5. /\ client' \in [Clients -> Client] /\ client'[c].work = q
        /\ \A d \in Clients \ {c} : client'[d] = client[d]
    <3>1. Given(Connecting, q) \in Client /\ Given(Connecting, q).work = q
      BY ConnectingType, GivenType
    <3> QED
      BY <1>2, <2>2, <2>4, <2>10, <3>1 DEF TypeOK
  <2>6. TypeOK'
    BY <1>1, <1>2, <1>5, <1>7, <2>3, <2>10, <2>4, <2>5, EmptySeq DEF TypeOK
  <2>7. Served'
    <3>1. Serves(asked, <<>>, inUse, client)
      BY <1>2, <2>1 DEF Served
    <3>2. \A d \in inUse : client'[d] = client[d]
      BY <1>2, <2>4, <2>5 DEF TypeOK
    <3>3. Serves(asked \cup {q}, <<>>, inUse \cup {c}, client')
      BY <1>1, <2>4, <2>5, <3>1, <3>2, ServesAsked
    <3> QED
      BY <1>1, <2>3, <2>10, <3>3 DEF Served
  <2>8. Placed'
    <3>1. Cardinality(inUse') = Cardinality(inUse) + 1
      BY <1>3, <2>3, <2>10, <2>4, FS_AddElement
    <3>2. ToSet(avail') \cap inUse' = {} /\ IsInjective(avail')
      BY <1>2, <2>3, <2>10, <2>4 DEF Placed
    <3>3. count' = Len(avail') + Cardinality(inUse')
      BY <1>2, <1>3, <1>5, <2>3, <2>10, <3>1 DEF Placed
    <3> QED
      BY <3>2, <3>3 DEF Placed
  <2>9. Enough' /\ NobodyWaitsBesideIdle'
    BY <1>1, <1>2, <1>5, <2>3, <2>10, BoundsAssumption DEF Enough, NobodyWaitsBesideIdle
  <2> QED
    BY <1>4, <2>6, <2>7, <2>8, <2>9 DEF IInv
<1>8. CASE avail = <<>> /\ ~ (count < PoolMax)
  <2>1. /\ waiting' = Append(waiting, q)
        /\ UNCHANGED <<avail, inUse, count, expired, client>>
    BY <1>5, <1>8 DEF Ask
  <2>2. count = PoolMax
    BY <1>2, <1>5, <1>8 DEF TypeOK
  <2>3. waiting \in Seq(Queries) /\ Append(waiting, q) \in Seq(Queries)
    BY <1>2, AppendProperties DEF TypeOK
  <2>4. TypeOK'
    BY <1>1, <1>2, <2>1, <2>3 DEF TypeOK
  <2>5. Served'
    <3>1. Serves(asked \cup {q}, Append(waiting, q), inUse, client)
      BY <1>1, <1>2, <2>3, ServesWaiting DEF Served
    <3> QED
      BY <1>1, <2>1, <3>1 DEF Served
  <2>6. Placed' /\ Enough' /\ NobodyWaitsBesideIdle'
    BY <1>1, <1>2, <1>8, <2>1, <2>2 DEF Placed, Enough, NobodyWaitsBesideIdle
  <2> QED
    BY <1>4, <2>4, <2>5, <2>6 DEF IInv
<1> QED
  BY <1>6, <1>7, <1>8

LEMMA FinishStep ==
  ASSUME IInv, NEW c \in inUse, NEW after \in Client, Finish(c, after)
  PROVE  IInv'
<1> DEFINE q == client[c].work
           free == [client EXCEPT ![c] = after]
<1>1. /\ asked' = asked \ {q} /\ scheduled' = TRUE
      /\ alive' = alive /\ count' = count
  BY DEF Finish
<1>2. TypeOK /\ Served /\ Placed /\ Enough /\ NobodyWaitsBesideIdle /\ Resting
  BY DEF IInv
<1>3. IsFiniteSet(inUse) /\ Cardinality(inUse) \in Nat /\ Len(avail) \in Nat /\ c \in Clients
  BY <1>2, FiniteUse, LenProperties DEF TypeOK
<1>4. Resting'
  BY <1>1, <1>2 DEF Resting
<1>5. Enough'
  BY <1>1, <1>2 DEF Enough
<1>6. free \in [Clients -> Client] /\ \A d \in inUse \ {c} : free[d] = client[d]
  BY <1>2, <1>3 DEF TypeOK
<1>7. CASE waiting = <<>>
  <2>1. /\ avail' = Append(avail, c) /\ inUse' = inUse \ {c} /\ client' = free
        /\ waiting' = waiting /\ expired' = expired
    BY <1>7 DEF Finish
  <2>2. c \notin ToSet(avail)
    BY <1>2 DEF Placed
  <2>3. /\ avail' \in Seq(Clients) /\ Len(avail') = Len(avail) + 1
        /\ ToSet(avail') = ToSet(avail) \cup {c} /\ IsInjective(avail')
    BY <1>2, <1>3, <2>1, <2>2, InjectiveAppend, AppendProperties DEF TypeOK, Placed
  <2> HIDE DEF q, free
  <2>4. expired' \in 0 .. Len(avail')
    BY <1>2, <1>3, <2>1, <2>3 DEF TypeOK
  <2>5. TypeOK'
    BY <1>1, <1>2, <1>6, <2>1, <2>3, <2>4 DEF TypeOK
  <2>6. Served'
    BY <1>1, <1>2, <1>6, <2>1, ServesFreed DEF Served, q
  <2>7. Placed'
    <3>1. Cardinality(inUse') = Cardinality(inUse) - 1
      BY <1>3, <2>1, FS_RemoveElement
    <3>2. ToSet(avail') \cap inUse' = {}
      BY <1>2, <2>1, <2>3 DEF Placed
    <3>3. count' = Len(avail') + Cardinality(inUse')
      BY <1>1, <1>2, <1>3, <2>3, <3>1 DEF Placed
    <3> QED
      BY <2>3, <3>2, <3>3 DEF Placed
  <2> QED
    BY <1>4, <1>5, <1>7, <2>1, <2>5, <2>6, <2>7 DEF IInv, NobodyWaitsBesideIdle
<1>8. CASE waiting # <<>>
  <2>1. avail = <<>> /\ count = PoolMax
    BY <1>2, <1>8 DEF NobodyWaitsBesideIdle
  <2>2. Head(Append(avail, c)) = c /\ Tail(Append(avail, c)) = <<>>
    BY <1>3, <2>1, FirstAlone
  <2>3. /\ avail' = <<>> /\ inUse' = (inUse \ {c}) \cup {c} /\ waiting' = Tail(waiting)
        /\ client' = [free EXCEPT ![c] = Given(@, Head(waiting))]
        /\ expired' = IF expired > 0 THEN expired - 1 ELSE 0
    BY <1>8, <2>2 DEF Finish, FirstLeaves
  <2>4. inUse' = inUse
    BY <2>3
  <2>5. Head(waiting) \in Queries /\ Tail(waiting) \in Seq(Queries)
    BY <1>2, <1>8, InjectiveTail DEF TypeOK, Served, Serves
  <2>6. free[c] = after
    BY <1>2, <1>3 DEF TypeOK
  <2>7. Given(after, Head(waiting)) \in Client /\ Given(after, Head(waiting)).work = Head(waiting)
    BY <2>5, GivenType
  <2> HIDE DEF q, free
  <2>8. /\ client' \in [Clients -> Client] /\ client'[c].work = Head(waiting)
        /\ \A d \in inUse \ {c} : client'[d] = client[d]
    BY <1>2, <1>3, <1>6, <2>3, <2>6, <2>7 DEF TypeOK
  <2>9. expired' = 0 /\ Len(avail') = 0
    BY <1>2, <2>1, <2>3, EmptySeq DEF TypeOK
  <2>10. TypeOK'
    BY <1>1, <1>2, <2>3, <2>4, <2>5, <2>8, <2>9, EmptySeq DEF TypeOK
  <2>11. Served'
    <3>1. Serves(asked \ {q}, Tail(waiting), inUse, client')
      BY <1>2, <1>8, <2>8, ServesNext DEF Served, TypeOK, q
    <3> QED
      BY <1>1, <2>3, <2>4, <3>1 DEF Served
  <2>12. Placed' /\ NobodyWaitsBesideIdle'
    BY <1>1, <1>2, <2>1, <2>3, <2>4 DEF Placed, NobodyWaitsBesideIdle
  <2> QED
    BY <1>4, <1>5, <2>10, <2>11, <2>12 DEF IInv
<1> QED
  BY <1>7, <1>8

LEMMA ExpireStep ==
  ASSUME IInv, Expire
  PROVE  IInv'
<1>1. /\ expired' = expired + 1 /\ expired < Len(avail)
      /\ UNCHANGED <<alive, asked, waiting, avail, inUse, count, scheduled, client>>
  BY DEF Expire
<1>2. expired \in 0 .. Len(avail) /\ Len(avail) \in Nat
  BY LenProperties DEF IInv, TypeOK
<1>3. expired' \in 0 .. Len(avail')
  BY <1>1, <1>2
<1>4. alive
  BY <1>1, EmptySeq DEF IInv, Resting
<1> QED
  BY <1>1, <1>3, <1>4
     DEF IInv, TypeOK, Served, Placed, Resting, Enough, NobodyWaitsBesideIdle

LEMMA RemoveIdleStep ==
  ASSUME IInv, RemoveIdle
  PROVE  IInv'
<1>1. TypeOK /\ Served /\ Placed /\ Enough /\ NobodyWaitsBesideIdle
  BY DEF IInv
<1>2. alive
  BY DEF IInv, Resting, RemoveIdle
<1>3. /\ Len(avail) \in Nat /\ expired \in 0 .. Len(avail) /\ Cardinality(inUse) \in Nat
      /\ count \in Nat /\ count <= PoolMax /\ PoolMin <= count
      /\ PoolMin \in Nat /\ PoolMax \in Nat /\ PoolMin < PoolMax
  BY <1>1, <1>2, FiniteUse, LenProperties, BoundsAssumption DEF TypeOK, Enough
<1>4. /\ Missing \in Nat
      /\ count - expired + Missing \in PoolMin .. PoolMax
      /\ expired = 0 => Missing = 0
      /\ count - expired >= 0
  <2>1. count = Len(avail) + Cardinality(inUse)
    BY <1>1 DEF Placed
  <2>2. count - expired \in Nat
    BY <1>3, <2>1
  <2> DEFINE k == count - expired
  <2>3. k \in Nat /\ k <= PoolMax /\ (expired = 0 => k = count)
    BY <1>3, <2>2
  <2>4. Missing = IF k < PoolMin THEN PoolMin - k ELSE 0
    BY DEF Missing
  <2> HIDE DEF k
  <2>5. Missing \in Nat /\ k + Missing \in PoolMin .. PoolMax /\ (expired = 0 => Missing = 0)
    BY <1>3, <2>3, <2>4
  <2> QED
    BY <2>2, <2>5 DEF k
<1>5. /\ Unexpired \in Seq(Clients) /\ Len(Unexpired) = Len(avail) - expired
      /\ IsInjective(Unexpired) /\ ToSet(Unexpired) \subseteq ToSet(avail)
  BY <1>1, <1>3, InjectiveSuffix DEF Unexpired, Placed, TypeOK
<1> DEFINE C == Clients \ (inUse \cup ToSet(Unexpired))
<1>6. PICK new \in Injection(1 .. Missing, C) :
        /\ avail' = Unexpired \o new
        /\ client' = [c \in Clients |-> IF c \in ToSet(new) THEN Connecting ELSE client[c]]
  BY DEF RemoveIdle
<1>7. /\ expired' = 0 /\ count' = count - expired + Missing
      /\ scheduled' = (avail' # <<>>)
      /\ UNCHANGED <<alive, asked, waiting, inUse>>
  BY DEF RemoveIdle
<1>8. /\ new \in Seq(C) /\ Len(new) = Missing /\ IsInjective(new) /\ ToSet(new) \subseteq C
      /\ Missing = 0 => new = <<>>
  <2>1. /\ new \in Seq(C) /\ Len(new) = Missing /\ IsInjective(new)
        /\ Missing = 0 => new = <<>>
    BY <1>4, SeqOfInjection
  <2> QED
    BY <2>1, ToSetOfSeq
<1>9. new \in Seq(Clients)
  <2>1. C \subseteq Clients
    OBVIOUS
  <2> HIDE DEF C
  <2> QED
    BY <1>8, <2>1, SeqMonotonic
<1>10. ToSet(Unexpired) \cap ToSet(new) = {} /\ inUse \cap ToSet(new) = {}
  BY <1>8
<1>11. /\ avail' \in Seq(Clients) /\ Len(avail') = Len(avail) - expired + Missing
       /\ IsInjective(avail') /\ ToSet(avail') \subseteq ToSet(avail) \cup ToSet(new)
  <2>1. /\ avail' \in Seq(Clients) /\ Len(avail') = Len(Unexpired) + Len(new)
        /\ IsInjective(avail') /\ ToSet(avail') \subseteq ToSet(Unexpired) \cup ToSet(new)
    BY <1>5, <1>6, <1>8, <1>9, <1>10, InjectiveConcat
  <2> QED
    BY <1>5, <1>8, <2>1
<1> HIDE DEF C
<1>12. TypeOK'
  <2>1. client' \in [Clients -> Client]
    BY <1>1, <1>6, ConnectingType DEF TypeOK
  <2>2. expired' \in 0 .. Len(avail')
    BY <1>3, <1>4, <1>7, <1>11
  <2>3. count' \in 0 .. PoolMax
    BY <1>3, <1>4, <1>7
  <2> QED
    BY <1>1, <1>7, <1>11, <2>1, <2>2, <2>3 DEF TypeOK
<1>13. Served'
  <2>1. \A c \in inUse : client'[c] = client[c]
    BY <1>1, <1>6, <1>10 DEF TypeOK
  <2> QED
    BY <1>1, <1>7, <2>1 DEF Served, Serves
<1>14. Placed'
  <2>1. ToSet(avail') \cap inUse' = {}
    BY <1>1, <1>7, <1>10, <1>11 DEF Placed
  <2> DEFINE u == Cardinality(inUse)
             a == Len(avail)
  <2>2. inUse' = inUse /\ u \in Nat /\ a \in Nat /\ expired \in Nat
        /\ Missing \in Nat /\ count = a + u
    BY <1>1, <1>3, <1>4, <1>7 DEF Placed
  <2>3. Len(avail') = a - expired + Missing
    BY <1>11
  <2>4. count' = count - expired + Missing
    BY <1>7
  <2> HIDE DEF u, a
  <2>5. count' = Len(avail') + u
    BY <2>2, <2>3, <2>4
  <2>6. count' = Len(avail') + Cardinality(inUse')
    BY <2>2, <2>5 DEF u
  <2> QED
    BY <1>11, <2>1, <2>6 DEF Placed
<1>15. Resting' /\ Enough'
  BY <1>2, <1>3, <1>4, <1>7 DEF Resting, Enough
<1>16. NobodyWaitsBesideIdle'
  <2> SUFFICES ASSUME waiting # <<>> PROVE avail' = <<>> /\ count' = PoolMax
    BY <1>7 DEF NobodyWaitsBesideIdle
  <2>1. avail = <<>> /\ count = PoolMax
    BY <1>1 DEF NobodyWaitsBesideIdle
  <2>2. expired = 0 /\ Missing = 0
    BY <1>3, <1>4, <2>1, EmptySeq
  <2>3. Len(avail') = 0
    BY <1>11, <2>1, <2>2, EmptySeq
  <2> QED
    BY <1>3, <1>7, <1>11, <2>1, <2>2, <2>3, EmptySeq
<1> QED
  BY <1>12, <1>13, <1>14, <1>15, <1>16 DEF IInv

\* Events of a connection change the client and not its statement.
LEMMA ClientStep ==
  ASSUME IInv, NEW c \in Clients, NEW y \in Client, y.work = client[c].work,
         client' = [client EXCEPT ![c] = y], Quiet
  PROVE  IInv'
<1>1. TypeOK /\ Served /\ Placed /\ Resting /\ Enough /\ NobodyWaitsBesideIdle
  BY DEF IInv
<1>2. UNCHANGED <<alive, asked, waiting, avail, inUse, count, expired, scheduled>>
  BY DEF Quiet
<1>3. TypeOK'
  BY <1>1, <1>2 DEF TypeOK
<1>4. \A d \in Clients : client'[d].work = client[d].work
  BY <1>1 DEF TypeOK
<1>5. Served'
  BY <1>1, <1>2, <1>4 DEF Served, Serves, TypeOK
<1> QED
  BY <1>1, <1>2, <1>3, <1>5 DEF IInv, Placed, Resting, Enough, NobodyWaitsBesideIdle

LEMMA ReadyStep ==
  ASSUME IInv, NEW c \in Clients, Ready(c)
  PROVE  IInv'
<1>1. client[c] \in Client
  BY DEF IInv, TypeOK
<1>2. client' = [client EXCEPT ![c] = [Pulsed(client[c]) EXCEPT !.link = "up"]] /\ Quiet
  BY DEF Ready
<1> QED
  BY <1>1, <1>2, PulsedType, ClientStep

LEMMA CloseStep ==
  ASSUME IInv, NEW c \in Clients, Close(c)
  PROVE  IInv'
<1> DEFINE y == [client[c] EXCEPT !.link = "down"]
<1>1. client[c] \in Client /\ client \in [Clients -> Client]
  BY DEF IInv, TypeOK
<1>2. y \in Client /\ y.work = client[c].work
  BY <1>1 DEF Client
<1>3. client' = [client EXCEPT ![c] = y] /\ Quiet
  BY DEF Close
<1> QED
  BY <1>2, <1>3, ClientStep

LEMMA AnswerStep ==
  ASSUME IInv, NEW c \in Clients, Answer(c) \/ Fail(c)
  PROVE  IInv'
<1>1. c \in inUse
  BY DEF Answer, Fail
<1>2. PICK link \in {"up", "down"}, ready \in BOOLEAN :
        Finish(c, [link |-> link, ready |-> ready, work |-> None, sent |-> FALSE])
  BY DEF Answer, Fail
<1>3. [link |-> link, ready |-> ready, work |-> None, sent |-> FALSE] \in Client
  BY DEF Client
<1> QED
  BY <1>1, <1>2, <1>3, FinishStep

LEMMA CrashStep ==
  ASSUME IInv, Crash
  PROVE  IInv'
<1> USE DEF Crash
<1>1. Len(avail') = 0 /\ Cardinality(inUse') = 0
  BY EmptySeq, FS_EmptySet
<1>2. TypeOK'
  <2>1. client' \in [Clients -> Client]
    BY ConnectingType
  <2>2. count' \in 0 .. PoolMax /\ expired' \in 0 .. Len(avail')
    BY <1>1, BoundsAssumption
  <2>3. waiting' \in Seq(Queries) /\ avail' \in Seq(Clients)
    BY EmptySeq
  <2> QED
    BY <2>1, <2>2, <2>3 DEF TypeOK
<1>3. Served'
  BY EmptyToSet DEF Served, Serves
<1>4. Placed'
  BY <1>1, EmptyToSet DEF Placed
<1> QED
  BY <1>2, <1>3, <1>4 DEF IInv, Resting, Enough, NobodyWaitsBesideIdle

LEMMA StartStep ==
  ASSUME IInv, Start
  PROVE  IInv'
<1>1. /\ asked' = {} /\ waiting' = <<>> /\ inUse' = {} /\ expired' = 0 /\ alive' = TRUE
      /\ client' = client /\ count' = PoolMin /\ scheduled' = (PoolMin > 0)
      /\ avail' \in Injection(1 .. PoolMin, Clients)
  BY DEF IInv, Resting, Start
<1>2. avail' \in Seq(Clients) /\ Len(avail') = PoolMin /\ IsInjective(avail')
  BY <1>1, Created
<1>3. TypeOK'
  BY <1>1, <1>2, BoundsAssumption, EmptySeq DEF IInv, TypeOK
<1>4. Served'
  BY <1>1, EmptyToSet DEF Served, Serves
<1>5. Placed'
  BY <1>1, <1>2, FS_EmptySet, BoundsAssumption DEF Placed
<1> QED
  BY <1>1, <1>3, <1>4, <1>5, BoundsAssumption DEF IInv, Resting, Enough, NobodyWaitsBesideIdle

\* The invariant is inductive.
LEMMA NextIInv == IInv /\ [Next]_vars => IInv'
<1> SUFFICES ASSUME IInv, [Next]_vars PROVE IInv'
  OBVIOUS
<1>1. CASE UNCHANGED vars
  BY <1>1 DEF vars, IInv, TypeOK, Served, Serves, Placed, Resting, Enough, NobodyWaitsBesideIdle
<1>2. CASE Next
  BY <1>2, AskStep, ExpireStep, RemoveIdleStep, ReadyStep, AnswerStep, CloseStep, CrashStep,
     StartStep DEF Next
<1> QED
  BY <1>1, <1>2

-----------------------------------------------------------------------------
(* The theorems.                                                            *)

\* All of the invariant holds at all times.
THEOREM Strengthened == Spec => []IInv
BY InitIInv, NextIInv, PTL DEF Spec

\* The pool and its clients are of their types: generic-pool never counts more
\* clients than its maximum, whatever breaks.
THEOREM TypeCorrect == Spec => []TypeOK
<1>1. IInv => TypeOK
  BY DEF IInv
<1> QED
  BY <1>1, Strengthened, PTL

\* A handler waits for a client only while every client there may be is used by
\* another (_dispense after each acquire and each release).
THEOREM NobodyIsForgotten == Spec => []NobodyWaitsBesideIdle
<1>1. IInv => NobodyWaitsBesideIdle
  BY DEF IInv
<1> QED
  BY <1>1, Strengthened, PTL

\* _count is the number of clients, none is in two places, and every statement
\* that has not been called back waits or has a client of its own.
THEOREM ClientsAccounted == Spec => []Accounted
BY IInvImplies, Strengthened, PTL

=============================================================================
