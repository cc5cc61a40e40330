-------------------------- MODULE SessionsProofs --------------------------
(***************************************************************************)
(* For every set of clients, keys, addresses and requests: Sessions         *)
(* implements SessionBook, a confirmed logout is final, and a cookie names  *)
(* a session of an address that has an account.                             *)
(***************************************************************************)
EXTENDS Sessions, TLAPS, FiniteSetTheorems

\* A request that has told, or will tell, its client "success".
Succeeds(r) == req[r].pc \in {"reply", "ok"} /\ req[r].success

\* What a request may rely on, by the step it is at.
Own(r) ==
  /\ req[r].pc # "free" => req[r].client \in Clients
  /\ req[r].pc \in {"lookup", "match", "insert"} =>
       /\ req[r].route \in Entering /\ req[r].cookie = "keep"
       /\ req[r].email \in Emails /\ req[r].password \in Passwords
  /\ req[r].pc = "set" =>
       /\ req[r].route \in Entering /\ req[r].cookie = "keep"
       /\ req[r].email \in Emails /\ users[req[r].email] # None
       /\ req[r].key \in drawn /\ opened[req[r].key] = None
  /\ req[r].pc \in {"expire", "stat"} => req[r].route \in Entering
  /\ \/ req[r].pc \in {"expire", "stat"}
     \/ req[r].cookie = "set"
     \/ Succeeds(r) /\ req[r].route \in Entering
     => /\ req[r].key \in Keys /\ req[r].email \in Emails
        /\ opened[req[r].key] = req[r].email
  /\ req[r].pc \in {"get", "del", "update"} =>
       req[r].key \in Keys /\ req[r].route \in Inside /\ req[r].cookie = "keep"
  /\ req[r].pc \in {"get", "update"} /\ req[r].route = "account" =>
       req[r].password \in Passwords
  /\ req[r].pc = "del" => req[r].route = "logout" /\ opened[req[r].key] # None
  /\ req[r].pc = "update" => req[r].route = "account"
  /\ Acting(r) => req[r].email \in Emails
  /\ Succeeds(r) /\ req[r].route = "logout" =>
       req[r].key \in Keys /\ opened[req[r].key] # None /\ sess[req[r].key] = None
  /\ Succeeds(r) /\ req[r].route = "facebook" /\ req[r].client \in Browsers
       /\ sess[req[r].key] # None => req[r].key \in ttl
  /\ req[r].pc = "stat" => req[r].route = "login"
  /\ req[r].pc = "ok" => req[r].success

\* No two requests are about to SET the same key.
SetOnce ==
  \A q, r \in Requests : q # r /\ req[q].pc = "set" /\ req[r].pc = "set"
                         => req[q].key # req[r].key

\* A session is its owner's, and its key was drawn.
KeysKnown ==
  \A k \in Keys : /\ sess[k] # None => sess[k] = opened[k]
                  /\ opened[k] # None => k \in drawn

IInv == /\ TypeOK
        /\ \A r \in Requests : Own(r)
        /\ SetOnce /\ KeysKnown /\ CookieNamesSession /\ SessionHasAccount

\* No account and no opened key is forgotten; a session that was opened stays, with
\* its time to live, or ends.
WorldKept ==
  /\ \A e \in Emails : users[e] # None => users'[e] # None
  /\ \A k \in Keys : opened[k] # None =>
       /\ opened'[k] = opened[k]
       /\ sess'[k] = None \/ (sess'[k] = sess[k] /\ (k \in ttl => k \in ttl'))
  /\ drawn \subseteq drawn'

----------------------------------------------------------------------------
(* The parts of the strengthening hold of the initial state.               *)
LEMMA InitIInv == Init => IInv
<1> SUFFICES ASSUME Init PROVE IInv
  OBVIOUS
<1>1. TypeOK
  BY DEF Init, TypeOK, Free, RequestState, Done, Steps, Inside, Entering
<1>2. \A r \in Requests : req[r] = Free
  BY DEF Init
<1>3. \A r \in Requests : Own(r)
  BY <1>2 DEF Own, Free, Succeeds, Acting
<1>4. SetOnce
  BY <1>2 DEF SetOnce, Free
<1>5. KeysKnown /\ CookieNamesSession /\ SessionHasAccount
  BY DEF Init, KeysKnown, CookieNamesSession, SessionHasAccount
<1> QED
  BY <1>1, <1>3, <1>4, <1>5 DEF IInv

(* What the control operators do to the requests.                          *)
LEMMA GotoFrame ==
  ASSUME TypeOK, NEW r \in Requests, NEW s \in Done \cup Steps, Goto(r, s)
  PROVE  /\ req' \in [Requests -> RequestState]
         /\ req'[r].pc = s /\ req'[r].route = req[r].route /\ req'[r].client = req[r].client
         /\ req'[r].email = req[r].email /\ req'[r].password = req[r].password
         /\ req'[r].key = req[r].key /\ req'[r].cookie = req[r].cookie
         /\ req'[r].success = req[r].success
         /\ \A q \in Requests : q # r => req'[q] = req[q]
<1> DEFINE v == [req[r] EXCEPT !.pc = s]
<1>1. req \in [Requests -> RequestState] /\ req[r] \in RequestState
  BY DEF TypeOK
<1>2. v \in RequestState
  BY <1>1 DEF RequestState, Steps
<1>3. /\ v.pc = s /\ v.route = req[r].route /\ v.client = req[r].client
      /\ v.email = req[r].email /\ v.password = req[r].password
      /\ v.key = req[r].key /\ v.cookie = req[r].cookie /\ v.success = req[r].success
  BY <1>1 DEF RequestState
<1>4. req' = [req EXCEPT ![r] = v]
  BY DEF Goto
<1> HIDE DEF v
<1>5. req' \in [Requests -> RequestState] /\ req'[r] = v
  BY <1>1, <1>2, <1>4
<1>6. \A q \in Requests : q # r => req'[q] = req[q]
  BY <1>1, <1>4
<1> QED
  BY <1>3, <1>4, <1>5, <1>6

LEMMA ReplyFrame ==
  ASSUME TypeOK, NEW r \in Requests, NEW b \in BOOLEAN, Reply(r, b)
  PROVE  /\ req' \in [Requests -> RequestState]
         /\ req'[r].pc = "reply" /\ req'[r].route = req[r].route
         /\ req'[r].client = req[r].client /\ req'[r].email = req[r].email
         /\ req'[r].key = req[r].key /\ req'[r].cookie = req[r].cookie
         /\ req'[r].success = b
         /\ \A q \in Requests : q # r => req'[q] = req[q]
<1> DEFINE v == [req[r] EXCEPT !.pc = "reply", !.success = b, !.password = None]
<1>1. req \in [Requests -> RequestState] /\ req[r] \in RequestState
  BY DEF TypeOK
<1>2. v \in RequestState
  BY <1>1 DEF RequestState, Steps
<1>3. /\ v.pc = "reply" /\ v.route = req[r].route /\ v.client = req[r].client
      /\ v.email = req[r].email /\ v.key = req[r].key /\ v.cookie = req[r].cookie
      /\ v.success = b
  BY <1>1 DEF RequestState
<1>4. req' = [req EXCEPT ![r] = v]
  BY DEF Reply
<1> HIDE DEF v
<1>5. req' \in [Requests -> RequestState] /\ req'[r] = v
  BY <1>1, <1>2, <1>4
<1>6. \A q \in Requests : q # r => req'[q] = req[q]
  BY <1>1, <1>4
<1> QED
  BY <1>3, <1>4, <1>5, <1>6

LEMMA AdmittedFrame ==
  ASSUME TypeOK, NEW r \in Requests, NEW k \in Keys, Admitted(r, k)
  PROVE  /\ req' \in [Requests -> RequestState]
         /\ req'[r].pc = "set" /\ req'[r].route = req[r].route
         /\ req'[r].client = req[r].client /\ req'[r].email = req[r].email
         /\ req'[r].key = k /\ req'[r].cookie = req[r].cookie
         /\ k \notin drawn /\ drawn' = drawn \cup {k}
         /\ \A q \in Requests : q # r => req'[q] = req[q]
<1> DEFINE v == [req[r] EXCEPT !.pc = "set", !.key = k, !.password = None]
<1>1. req \in [Requests -> RequestState] /\ req[r] \in RequestState
  BY DEF TypeOK
<1>2. v \in RequestState
  BY <1>1 DEF RequestState, Steps
<1>3. /\ v.pc = "set" /\ v.route = req[r].route /\ v.client = req[r].client
      /\ v.email = req[r].email /\ v.key = k /\ v.cookie = req[r].cookie
  BY <1>1 DEF RequestState
<1>4. req' = [req EXCEPT ![r] = v] /\ k \notin drawn /\ drawn' = drawn \cup {k}
  BY DEF Admitted
<1> HIDE DEF v
<1>5. req' \in [Requests -> RequestState] /\ req'[r] = v
  BY <1>1, <1>2, <1>4
<1>6. \A q \in Requests : q # r => req'[q] = req[q]
  BY <1>1, <1>4
<1> QED
  BY <1>3, <1>4, <1>5, <1>6

LEMMA RequestFrame ==
  ASSUME TypeOK, NEW r \in Requests, NEW route \in Entering \cup Inside, NEW c \in Clients,
         NEW e \in Emails \cup {None}, NEW p \in Passwords \cup {None},
         NEW k \in Keys \cup {None},
         req' = [req EXCEPT ![r] = Request(route, c, e, p, k)]
  PROVE  /\ req' \in [Requests -> RequestState]
         /\ req'[r].route = route /\ req'[r].client = c /\ req'[r].email = e
         /\ req'[r].password = p /\ req'[r].key = k /\ req'[r].cookie = "keep"
         /\ req'[r].pc = IF route = "login" THEN "match"
                         ELSE IF route = "facebook" THEN "lookup" ELSE "get"
         /\ \A q \in Requests : q # r => req'[q] = req[q]
<1> DEFINE pc == IF route = "login" THEN "match"
                 ELSE IF route = "facebook" THEN "lookup" ELSE "get"
<1>1. Request(route, c, e, p, k) =
        [route |-> route, client |-> c, email |-> e, password |-> p, key |-> k,
         cookie |-> "keep", success |-> FALSE, pc |-> pc]
  BY DEF Request, Entering, Inside
<1>2. pc \in Steps
  BY DEF Steps
<1>3. Request(route, c, e, p, k) \in RequestState
  BY <1>1, <1>2 DEF RequestState
<1> QED
  BY <1>1, <1>3 DEF TypeOK

----------------------------------------------------------------------------
(* A request that does not move keeps what it relies on.                   *)
LEMMA OwnKept ==
  ASSUME TypeOK, WorldKept, NEW q \in Requests, Own(q), req'[q] = req[q],
         req[q].pc = "set" => opened'[req[q].key] = opened[req[q].key]
  PROVE  Own(q)'
<1>1. Succeeds(q)' = Succeeds(q) /\ Acting(q)' = Acting(q)
  BY DEF Succeeds, Acting
<1>2. req[q].pc = "set" =>
        /\ users'[req[q].email] # None
        /\ req[q].key \in drawn' /\ opened'[req[q].key] = None
  BY DEF Own, WorldKept
<1>3. \/ req[q].pc \in {"expire", "stat"}
      \/ req[q].cookie = "set"
      \/ Succeeds(q) /\ req[q].route \in Entering
      => opened'[req[q].key] = req[q].email
  BY NoneAssumption DEF Own, WorldKept
<1>4. req[q].pc = "del" => opened'[req[q].key] # None
  BY DEF Own, WorldKept
<1>5. Succeeds(q) /\ req[q].route = "logout" =>
        opened'[req[q].key] # None /\ sess'[req[q].key] = None
  BY DEF Own, WorldKept
<1>6. Succeeds(q) /\ req[q].route = "facebook" /\ req[q].client \in Browsers
        /\ sess'[req[q].key] # None => req[q].key \in ttl'
  BY NoneAssumption DEF Own, WorldKept, Entering
<1> QED
  BY <1>1, <1>2, <1>3, <1>4, <1>5, <1>6 DEF Own

(* A step of request r alone that opens no session keeps the invariant if r *)
(* keeps what it relies on.                                                *)
LEMMA OneStep ==
  ASSUME IInv, TypeOK', WorldKept, NEW r \in Requests, Own(r)',
         \A q \in Requests : q # r => req'[q] = req[q],
         UNCHANGED opened,
         \A k \in Keys : sess'[k] \in {sess[k], None},
         CookieNamesSession',
         req'[r].pc = "set" => req'[r].key \notin drawn
  PROVE  IInv'
<1>1. \A q \in Requests : Own(q)'
  BY OwnKept DEF IInv
<1>2. SetOnce'
  BY DEF IInv, SetOnce, Own
<1>3. KeysKnown'
  BY DEF IInv, KeysKnown, WorldKept
<1>4. SessionHasAccount'
  BY DEF IInv, SessionHasAccount, WorldKept, TypeOK
<1> QED
  BY <1>1, <1>2, <1>3, <1>4 DEF IInv

----------------------------------------------------------------------------
(* Each step keeps the strengthened invariant.                             *)
LEMMA StartStep ==
  ASSUME IInv, NEW r \in Requests, NEW c \in Clients, Start(r, c) PROVE IInv'
<1>1. UNCHANGED <<users, sess, ttl, connections, jar, drawn, opened>>
  BY DEF Start, Login, LoginFacebook, Enter, redis
<1>2. wishes' \in SUBSET Wish({"registration", "recovery", "facebook", "account"})
  BY DEF Start, Login, LoginFacebook, Enter, Wish, IInv, TypeOK
<1>3. PICK route \in Entering \cup Inside, e \in Emails \cup {None},
           p \in Passwords \cup {None}, k \in Keys \cup {None} :
        /\ req' = [req EXCEPT ![r] = Request(route, c, e, p, k)]
        /\ route \in Entering => e \in Emails /\ p \in Passwords
        /\ route \in Inside => k \in Keys
        /\ route = "account" => p \in Passwords
  <2>1. CASE \E e \in Emails, p \in Passwords : Login(r, c, e, p) \/ LoginFacebook(r, c, e, p)
    BY <2>1 DEF Login, LoginFacebook, Entering, Inside
  <2>2. ASSUME NEW route \in Inside, NEW p \in Passwords \cup {None}, Enter(r, c, route, p)
        PROVE  /\ req' = [req EXCEPT ![r] = Request(route, c, None, p, jar[c])]
               /\ jar[c] \in Keys /\ route \notin Entering
               /\ route = "account" => p \in Passwords
    BY <2>2 DEF Enter, Entering, Inside, IInv, TypeOK
  <2> QED
    BY <2>1, <2>2 DEF Start
<1>4. /\ req' \in [Requests -> RequestState]
      /\ req'[r].route = route /\ req'[r].client = c /\ req'[r].email = e
      /\ req'[r].password = p /\ req'[r].key = k /\ req'[r].cookie = "keep"
      /\ req'[r].pc = IF route = "login" THEN "match"
                      ELSE IF route = "facebook" THEN "lookup" ELSE "get"
      /\ \A q \in Requests : q # r => req'[q] = req[q]
  BY <1>3, RequestFrame DEF IInv
<1>5. TypeOK' /\ WorldKept /\ CookieNamesSession'
  BY <1>1, <1>2, <1>4 DEF IInv, TypeOK, WorldKept, CookieNamesSession
<1>6. Own(r)'
  BY <1>3, <1>4 DEF Own, Succeeds, Acting, Entering, Inside
<1> QED
  BY <1>1, <1>4, <1>5, <1>6, OneStep

\* A request that fails, or is told so, relies on nothing new.
LEMMA RefusedStep ==
  ASSUME IInv, NEW r \in Requests, Reply(r, FALSE), UNCHANGED <<ttl, connections, jar, drawn>>,
         req[r].pc \in {"lookup", "match", "insert", "stat", "get"},
         UNCHANGED <<sess, opened, wishes>>,
         users' \in [Emails -> Passwords \cup {None}],
         \A e \in Emails : users[e] # None => users'[e] # None
  PROVE  IInv'
<1>1. /\ req' \in [Requests -> RequestState]
      /\ req'[r].pc = "reply" /\ req'[r].success = FALSE
      /\ req'[r].client = req[r].client /\ req'[r].email = req[r].email
      /\ req'[r].key = req[r].key /\ req'[r].cookie = req[r].cookie
      /\ \A q \in Requests : q # r => req'[q] = req[q]
  BY ReplyFrame DEF IInv
<1>2. TypeOK' /\ WorldKept /\ CookieNamesSession'
  BY <1>1 DEF IInv, TypeOK, WorldKept, CookieNamesSession
<1>3. Own(r)'
  BY <1>1 DEF IInv, Own, Succeeds, Acting
<1> QED
  BY <1>1, <1>2, <1>3, OneStep

LEMMA LookupStep == ASSUME IInv, NEW r \in Requests, Lookup(r) PROVE IInv'
<1>1. UNCHANGED <<users, sess, ttl, connections, jar, drawn, opened, wishes>>
  BY DEF Lookup, redis
<1>2. req[r].pc = "lookup"
  BY DEF Lookup, At
<1>3. CASE Reply(r, FALSE)
  BY <1>1, <1>2, <1>3, RefusedStep DEF IInv, TypeOK
<1>4. CASE ~Reply(r, FALSE)
  <2>1. PICK s \in {"match", "insert"} : Goto(r, s)
    BY <1>4 DEF Lookup
  <2>2. s \in Done \cup Steps
    BY DEF Steps
  <2>3. /\ req' \in [Requests -> RequestState]
        /\ req'[r].pc = s /\ req'[r].route = req[r].route /\ req'[r].client = req[r].client
        /\ req'[r].email = req[r].email /\ req'[r].password = req[r].password
        /\ req'[r].cookie = req[r].cookie
        /\ \A q \in Requests : q # r => req'[q] = req[q]
    BY <2>1, <2>2, GotoFrame DEF IInv
  <2>4. TypeOK' /\ WorldKept /\ CookieNamesSession'
    BY <1>1, <2>3 DEF IInv, TypeOK, WorldKept, CookieNamesSession
  <2>5. Own(r)'
    BY <1>2, <2>3 DEF IInv, Own, Succeeds, Acting
  <2> QED
    BY <1>1, <2>3, <2>4, <2>5, OneStep
<1> QED
  BY <1>3, <1>4

LEMMA AdmittedStep ==
  ASSUME IInv, NEW r \in Requests, NEW k \in Keys, Admitted(r, k),
         req[r].pc \in {"match", "insert"},
         UNCHANGED <<sess, ttl, connections, jar, opened, wishes>>,
         users' \in [Emails -> Passwords \cup {None}],
         \A e \in Emails : users[e] # None => users'[e] # None,
         users'[req[r].email] # None
  PROVE  IInv'
<1>1. /\ req' \in [Requests -> RequestState]
      /\ req'[r].pc = "set" /\ req'[r].route = req[r].route
      /\ req'[r].client = req[r].client /\ req'[r].email = req[r].email
      /\ req'[r].key = k /\ req'[r].cookie = req[r].cookie
      /\ k \notin drawn /\ drawn' = drawn \cup {k}
      /\ \A q \in Requests : q # r => req'[q] = req[q]
  BY AdmittedFrame DEF IInv
<1>2. TypeOK' /\ WorldKept /\ CookieNamesSession'
  BY <1>1 DEF IInv, TypeOK, WorldKept, CookieNamesSession
<1>3. opened[k] = None
  BY <1>1 DEF IInv, KeysKnown
<1>4. Own(r)'
  BY <1>1, <1>3 DEF IInv, Own, Succeeds, Acting
<1> QED
  BY <1>1, <1>2, <1>4, OneStep

LEMMA MatchStep == ASSUME IInv, NEW r \in Requests, Match(r) PROVE IInv'
<1>1. UNCHANGED <<users, sess, ttl, connections, jar, opened, wishes>>
  BY DEF Match, redis
<1>2. req[r].pc = "match" /\ req[r].password \in Passwords
  BY DEF Match, At, IInv, Own
<1>3. CASE Reply(r, FALSE) /\ UNCHANGED drawn
  BY <1>1, <1>2, <1>3, RefusedStep DEF IInv, TypeOK
<1>4. CASE ~(Reply(r, FALSE) /\ UNCHANGED drawn)
  <2>1. users[req[r].email] = req[r].password /\ \E k \in Keys : Admitted(r, k)
    BY <1>4 DEF Match
  <2>2. users'[req[r].email] # None
    BY <1>1, <1>2, <2>1, NoneAssumption
  <2> QED
    BY <1>1, <1>2, <2>1, <2>2, AdmittedStep DEF IInv, TypeOK
<1> QED
  BY <1>3, <1>4

LEMMA InsertUserStep == ASSUME IInv, NEW r \in Requests, InsertUser(r) PROVE IInv'
<1> DEFINE e == req[r].email
           free == users[e] = None
<1>1. PICK out \in Outcomes :
        /\ users' = IF Applied(out) /\ free THEN [users EXCEPT ![e] = req[r].password]
                    ELSE users
        /\ IF out = "ok" /\ free THEN \E k \in Keys : Admitted(r, k)
           ELSE Reply(r, FALSE) /\ UNCHANGED drawn
  BY DEF InsertUser
<1>2. UNCHANGED <<sess, ttl, connections, jar, opened, wishes>>
  BY DEF InsertUser, redis
<1>3. req[r].pc = "insert" /\ e \in Emails /\ req[r].password \in Passwords
  BY DEF InsertUser, At, IInv, Own
<1>4. /\ users' \in [Emails -> Passwords \cup {None}]
      /\ \A f \in Emails : users[f] # None => users'[f] # None
      /\ out = "ok" => users'[e] # None
  BY <1>1, <1>3, NoneAssumption DEF IInv, TypeOK, Applied
<1>5. CASE out = "ok" /\ free
  BY <1>1, <1>2, <1>3, <1>4, <1>5, AdmittedStep
<1>6. CASE ~(out = "ok" /\ free)
  BY <1>1, <1>2, <1>3, <1>4, <1>6, RefusedStep
<1> QED
  BY <1>5, <1>6

LEMMA SetExpireStep == ASSUME IInv, NEW r \in Requests, SetExpire(r) PROVE IInv'
<1>1. PICK out \in Outcomes :
        /\ ttl' = IF Applied(out) /\ sess[req[r].key] # None THEN ttl \cup {req[r].key} ELSE ttl
        /\ IF req[r].route = "login" THEN Goto(r, "stat") ELSE Reply(r, out = "ok")
  BY DEF SetExpire
<1>2. UNCHANGED <<users, sess, connections, jar, drawn, opened, wishes>>
  BY DEF SetExpire
<1>3. /\ req[r].pc = "expire" /\ req[r].route \in Entering
      /\ req[r].key \in Keys /\ req[r].email \in Emails
      /\ opened[req[r].key] = req[r].email
  BY DEF SetExpire, At, IInv, Own
<1>4. /\ req' \in [Requests -> RequestState]
      /\ req'[r].route = req[r].route /\ req'[r].client = req[r].client
      /\ req'[r].email = req[r].email /\ req'[r].key = req[r].key
      /\ req'[r].cookie = req[r].cookie
      /\ \/ req[r].route = "login" /\ req'[r].pc = "stat"
         \/ /\ req[r].route = "facebook" /\ req'[r].pc = "reply"
            /\ req'[r].success = (out = "ok")
      /\ \A q \in Requests : q # r => req'[q] = req[q]
  <2>1. CASE req[r].route = "login"
    <3>1. "stat" \in Done \cup Steps
      BY DEF Steps
    <3> QED
      BY <1>1, <2>1, <3>1, GotoFrame DEF IInv
  <2>2. CASE req[r].route = "facebook"
    <3>1. (out = "ok") \in BOOLEAN
      OBVIOUS
    <3> QED
      BY <1>1, <2>2, <3>1, ReplyFrame DEF IInv
  <2> QED
    BY <1>3, <2>1, <2>2 DEF Entering
<1>5. TypeOK' /\ WorldKept /\ CookieNamesSession'
  BY <1>1, <1>2, <1>3, <1>4 DEF IInv, TypeOK, WorldKept, CookieNamesSession
<1>6. out = "ok" /\ sess[req[r].key] # None => req[r].key \in ttl'
  BY <1>1 DEF Applied
<1>7. Own(r)'
  BY <1>2, <1>3, <1>4, <1>6 DEF IInv, Own, Succeeds, Acting, Entering
<1> QED
  BY <1>2, <1>4, <1>5, <1>7, OneStep

LEMMA IncrConnectionStep == ASSUME IInv, NEW r \in Requests, IncrConnection(r) PROVE IInv'
<1>1. PICK out \in Outcomes :
        /\ connections' = IF Applied(out) THEN connections + 1 ELSE connections
        /\ Reply(r, out = "ok")
  BY DEF IncrConnection
<1>2. UNCHANGED <<users, sess, ttl, jar, drawn, opened, wishes>>
  BY DEF IncrConnection
<1>3. req[r].pc = "stat" /\ req[r].route = "login"
  BY DEF IncrConnection, At, IInv, Own
<1>4. /\ req' \in [Requests -> RequestState]
      /\ req'[r].pc = "reply" /\ req'[r].route = req[r].route
      /\ req'[r].client = req[r].client /\ req'[r].email = req[r].email
      /\ req'[r].key = req[r].key /\ req'[r].cookie = req[r].cookie
      /\ \A q \in Requests : q # r => req'[q] = req[q]
  BY <1>1, ReplyFrame DEF IInv
<1>5. TypeOK' /\ WorldKept /\ CookieNamesSession'
  BY <1>1, <1>2, <1>4 DEF IInv, TypeOK, WorldKept, CookieNamesSession
<1>6. Own(r)'
  BY <1>2, <1>3, <1>4 DEF IInv, Own, Succeeds, Acting
<1> QED
  BY <1>2, <1>4, <1>5, <1>6, OneStep

LEMMA SetFrame ==
  ASSUME IInv, NEW r \in Requests, Set(r)
  PROVE  /\ UNCHANGED <<users, ttl, connections, jar, drawn, wishes>>
         /\ req[r].pc = "set" /\ req[r].route \in Entering /\ req[r].client \in Clients
         /\ req[r].cookie = "keep" /\ req[r].key \in drawn /\ req[r].key \in Keys
         /\ req[r].email \in Emails /\ opened[req[r].key] = None
         /\ req' \in [Requests -> RequestState]
         /\ req'[r].route = req[r].route /\ req'[r].client = req[r].client
         /\ req'[r].email = req[r].email /\ req'[r].key = req[r].key
         /\ \A q \in Requests : q # r => req'[q] = req[q]
         /\ \/ /\ sess' = [sess EXCEPT ![req[r].key] = req[r].email]
               /\ opened' = [opened EXCEPT ![req[r].key] = req[r].email]
            \/ UNCHANGED <<sess, opened>>
         /\ \/ /\ req'[r].pc = "reply" /\ ~req'[r].success /\ req'[r].cookie = "keep"
            \/ /\ opened' = [opened EXCEPT ![req[r].key] = req[r].email]
               /\ \/ req'[r].pc = "expire"
                  \/ req'[r].pc = "stat" /\ req[r].route = "login"
                  \/ req'[r].pc = "reply" /\ req[r].client \notin Browsers
<1> DEFINE k == req[r].key
           next == IF req[r].client \in Browsers THEN "expire"
                   ELSE IF req[r].route = "login" THEN "stat" ELSE "reply"
<1>1. PICK out \in Outcomes :
        /\ IF Applied(out)
           THEN /\ sess' = [sess EXCEPT ![k] = req[r].email]
                /\ opened' = [opened EXCEPT ![k] = req[r].email]
           ELSE UNCHANGED <<sess, opened>>
        /\ IF out = "ok"
           THEN req' = [req EXCEPT ![r] = [@ EXCEPT !.pc = next, !.cookie = "set",
                                                    !.success = (next = "reply")]]
           ELSE Reply(r, FALSE)
  BY DEF Set
<1>2. UNCHANGED <<users, ttl, connections, jar, drawn, wishes>>
  BY DEF Set
<1>3. /\ req[r].pc = "set" /\ req[r].route \in Entering /\ req[r].client \in Clients
      /\ req[r].cookie = "keep" /\ k \in drawn /\ k \in Keys
      /\ req[r].email \in Emails /\ opened[k] = None
  BY DEF Set, At, IInv, Own, TypeOK
<1> DEFINE b == next = "reply"
<1>4. CASE out = "ok"
  <2>1. req' = [req EXCEPT ![r] = [@ EXCEPT !.pc = next, !.cookie = "set", !.success = b]]
    BY <1>1, <1>4
  <2>2. next \in {"expire", "stat", "reply"} /\ next \in Steps /\ b \in BOOLEAN
    BY DEF Steps
  <2> HIDE DEF next, b
  <2>3. /\ req' \in [Requests -> RequestState]
        /\ req'[r].pc = next /\ req'[r].route = req[r].route /\ req'[r].client = req[r].client
        /\ req'[r].email = req[r].email /\ req'[r].key = req[r].key
        /\ \A q \in Requests : q # r => req'[q] = req[q]
    BY <2>1, <2>2 DEF IInv, TypeOK, RequestState
  <2>4. /\ sess' = [sess EXCEPT ![k] = req[r].email]
        /\ opened' = [opened EXCEPT ![k] = req[r].email]
    BY <1>1, <1>4 DEF Applied
  <2>5. /\ next = "stat" => req[r].route = "login"
        /\ next = "reply" => req[r].client \notin Browsers
    BY DEF next
  <2> QED
    BY <1>2, <1>3, <2>2, <2>3, <2>4, <2>5
<1>5. CASE out # "ok"
  <2>1. Reply(r, FALSE)
    BY <1>1, <1>5
  <2>2. /\ req' \in [Requests -> RequestState]
        /\ req'[r].pc = "reply" /\ req'[r].route = req[r].route
        /\ req'[r].client = req[r].client /\ req'[r].email = req[r].email
        /\ req'[r].key = req[r].key /\ req'[r].cookie = req[r].cookie
        /\ req'[r].success = FALSE
        /\ \A q \in Requests : q # r => req'[q] = req[q]
    BY <2>1, ReplyFrame DEF IInv
  <2> QED
    BY <1>1, <1>2, <1>3, <2>2
<1> QED
  BY <1>4, <1>5

LEMMA SetStep == ASSUME IInv, NEW r \in Requests, Set(r) PROVE IInv'
<1> DEFINE k == req[r].key
<1>1. TypeOK'
  BY SetFrame DEF IInv, TypeOK
<1>2. \A j \in Keys : /\ j # k => opened'[j] = opened[j] /\ sess'[j] = sess[j]
                      /\ opened[j] # None => j # k
  BY SetFrame DEF IInv, TypeOK
<1>3. /\ \/ sess'[k] = req[r].email /\ opened'[k] = req[r].email
         \/ sess'[k] = sess[k] /\ opened'[k] = opened[k]
      /\ \/ req'[r].pc = "reply" /\ ~req'[r].success /\ req'[r].cookie = "keep"
         \/ /\ opened'[k] = req[r].email
            /\ \/ req'[r].pc = "expire"
               \/ req'[r].pc = "stat" /\ req[r].route = "login"
               \/ req'[r].pc = "reply" /\ req[r].client \notin Browsers
  BY SetFrame DEF IInv, TypeOK
<1>4. WorldKept
  BY <1>2, SetFrame DEF WorldKept
<1>5. Own(r)'
  BY <1>3, SetFrame DEF Own, Succeeds, Acting, Entering
<1>6. ASSUME NEW q \in Requests, q # r PROVE Own(q)'
  <2>1. req[q].pc = "set" => req[q].key # k /\ req[q].key \in Keys
    BY <1>6, SetFrame DEF IInv, SetOnce, Own, TypeOK
  <2> QED
    BY <1>2, <1>4, <1>6, <2>1, OwnKept, SetFrame DEF IInv
<1>7. SetOnce'
  BY <1>3, SetFrame DEF IInv, SetOnce
<1>8. KeysKnown'
  BY <1>2, <1>3, SetFrame DEF IInv, KeysKnown
<1>9. CookieNamesSession'
  BY <1>2, SetFrame DEF IInv, CookieNamesSession, TypeOK
<1>10. SessionHasAccount'
  <2>1. users[req[r].email] # None
    BY SetFrame DEF IInv, Own
  <2> QED
    BY <1>2, <1>3, <2>1, SetFrame DEF IInv, SessionHasAccount
<1> QED
  BY <1>1, <1>5, <1>6, <1>7, <1>8, <1>9, <1>10 DEF IInv

LEMMA AuthenticateFrame ==
  ASSUME IInv, NEW r \in Requests, Authenticate(r), ~(Reply(r, FALSE) /\ UNCHANGED wishes)
  PROVE  /\ req[r].pc = "get" /\ req[r].key \in Keys /\ req[r].route \in Inside
         /\ req[r].cookie = "keep" /\ req[r].client \in Clients
         /\ sess[req[r].key] \in Emails /\ opened[req[r].key] = sess[req[r].key]
         /\ req' \in [Requests -> RequestState]
         /\ req'[r].route = req[r].route /\ req'[r].client = req[r].client
         /\ req'[r].email = sess[req[r].key] /\ req'[r].key = req[r].key
         /\ req'[r].cookie = "keep" /\ req'[r].pc = Serving(req[r].route)
         /\ req'[r].success = (req[r].route = "page")
         /\ req'[r].password = req[r].password
         /\ \A q \in Requests : q # r => req'[q] = req[q]
<1> DEFINE e == sess[req[r].key]
           s == Serving(req[r].route)
           b == req[r].route = "page"
<1>1. /\ req[r].pc = "get" /\ req[r].key \in Keys /\ req[r].route \in Inside
      /\ req[r].cookie = "keep" /\ req[r].client \in Clients
  BY DEF Authenticate, At, IInv, Own
<1>2. /\ e # None
      /\ req' = [req EXCEPT ![r] = [@ EXCEPT !.email = e, !.pc = s, !.success = b]]
  BY DEF Authenticate
<1>3. e \in Emails /\ opened[req[r].key] = e
  BY <1>1, <1>2 DEF IInv, TypeOK, KeysKnown
<1>4. s \in Steps /\ b \in BOOLEAN
  BY DEF Serving, Steps
<1> DEFINE v == [req[r] EXCEPT !.email = e, !.pc = s, !.success = b]
<1> HIDE DEF e, s, b
<1>5a. req[r] \in RequestState
  BY DEF IInv, TypeOK
<1>5b. /\ v \in RequestState
      /\ v.route = req[r].route /\ v.client = req[r].client
      /\ v.email = e /\ v.key = req[r].key
      /\ v.cookie = req[r].cookie /\ v.pc = s
      /\ v.success = b /\ v.password = req[r].password
  BY <1>5a, <1>3, <1>4 DEF RequestState
<1>5c. req' = [req EXCEPT ![r] = v]
  BY <1>2
<1> HIDE DEF v
<1>5. /\ req' \in [Requests -> RequestState]
      /\ req'[r].route = req[r].route /\ req'[r].client = req[r].client
      /\ req'[r].email = e /\ req'[r].key = req[r].key
      /\ req'[r].cookie = req[r].cookie /\ req'[r].pc = s
      /\ req'[r].success = b /\ req'[r].password = req[r].password
      /\ \A q \in Requests : q # r => req'[q] = req[q]
  BY <1>5b, <1>5c DEF IInv, TypeOK
<1> QED
  BY <1>1, <1>3, <1>5 DEF e, s, b

LEMMA AuthenticateStep == ASSUME IInv, NEW r \in Requests, Authenticate(r) PROVE IInv'
<1>1. UNCHANGED <<users, sess, ttl, connections, jar, drawn, opened>>
  BY DEF Authenticate, redis
<1>2. CASE Reply(r, FALSE) /\ UNCHANGED wishes
  <2>1. req[r].pc = "get"
    BY DEF Authenticate, At
  <2> QED
    BY <1>1, <1>2, <2>1, RefusedStep DEF IInv, TypeOK
<1>3. CASE ~(Reply(r, FALSE) /\ UNCHANGED wishes)
  <2>1. wishes' \in SUBSET Wish({"registration", "recovery", "facebook", "account"})
    <3> DEFINE w == [kind |-> "account", email |-> sess[req[r].key], password |-> req[r].password]
    <3>1. wishes' = IF req[r].route = "account" THEN wishes \cup {w} ELSE wishes
      BY <1>3 DEF Authenticate
    <3>2. req[r].pc = "get" /\ req[r].route = "account" => req[r].password \in Passwords
      BY DEF IInv, Own
    <3>3. req[r].route = "account" => w \in Wish({"registration", "recovery", "facebook", "account"})
      BY <1>3, <3>2, AuthenticateFrame DEF Wish
    <3> QED
      BY <3>1, <3>3 DEF IInv, TypeOK
  <2>2. TypeOK' /\ WorldKept /\ CookieNamesSession'
    BY <1>1, <1>3, <2>1, AuthenticateFrame DEF IInv, TypeOK, WorldKept, CookieNamesSession
  <2>3. opened[req[r].key] # None
    BY <1>3, AuthenticateFrame, NoneAssumption
  <2>4. Own(r)'
    <3>1. /\ req'[r].client \in Clients /\ req'[r].email \in Emails /\ req'[r].key \in Keys
          /\ req'[r].cookie = "keep" /\ req'[r].password = req[r].password
          /\ opened'[req'[r].key] # None
          /\ \/ req'[r].route = "logout" /\ req'[r].pc = "del"
             \/ req'[r].route = "account" /\ req'[r].pc = "update"
             \/ req'[r].route = "page" /\ req'[r].pc = "reply"
      BY <1>1, <1>3, <2>3, AuthenticateFrame DEF Serving, Inside
    <3>2. req[r].pc = "get" /\ req[r].route = "account" => req[r].password \in Passwords
      BY DEF IInv, Own
    <3>3. req'[r].route = "account" => req'[r].password \in Passwords
      BY <1>3, <3>1, <3>2, AuthenticateFrame
    <3> QED
      BY <3>1, <3>3 DEF Own, Succeeds, Acting, Inside, Entering
  <2> QED
    BY <1>1, <1>3, <2>2, <2>4, AuthenticateFrame, OneStep DEF Serving
<1> QED
  BY <1>2, <1>3

LEMMA DelSessionFrame ==
  ASSUME IInv, NEW r \in Requests, DelSession(r)
  PROVE  /\ UNCHANGED <<users, connections, jar, drawn, opened, wishes>>
         /\ req[r].pc = "del" /\ req[r].key \in Keys /\ req[r].route = "logout"
         /\ opened[req[r].key] # None /\ req[r].client \in Clients
         /\ req' \in [Requests -> RequestState]
         /\ req'[r].pc = "reply" /\ req'[r].route = "logout"
         /\ req'[r].client = req[r].client /\ req'[r].key = req[r].key
         /\ req'[r].cookie # "set"
         /\ \A q \in Requests : q # r => req'[q] = req[q]
         /\ \/ sess' = [sess EXCEPT ![req[r].key] = None] /\ ttl' = ttl \ {req[r].key}
            \/ UNCHANGED <<sess, ttl>> /\ ~req'[r].success
<1> DEFINE k == req[r].key
<1>1. PICK out \in Outcomes :
        /\ IF Applied(out) THEN sess' = [sess EXCEPT ![k] = None] /\ ttl' = ttl \ {k}
           ELSE UNCHANGED <<sess, ttl>>
        /\ req' = [req EXCEPT ![r] =
                     [@ EXCEPT !.pc = "reply", !.success = (out = "ok"),
                               !.cookie = IF out = "ok" /\ req[r].client \in Browsers
                                          THEN "clear" ELSE "keep"]]
  BY DEF DelSession
<1>2. UNCHANGED <<users, connections, jar, drawn, opened, wishes>>
  BY DEF DelSession
<1>3. /\ req[r].pc = "del" /\ k \in Keys /\ req[r].route = "logout"
      /\ opened[k] # None /\ req[r].client \in Clients
  BY DEF DelSession, At, IInv, Own
<1> DEFINE b == out = "ok"
           ck == IF out = "ok" /\ req[r].client \in Browsers THEN "clear" ELSE "keep"
<1>4. req' = [req EXCEPT ![r] = [@ EXCEPT !.pc = "reply", !.success = b, !.cookie = ck]]
  BY <1>1
<1>5. b \in BOOLEAN /\ ck \in {"clear", "keep"} /\ "reply" \in Steps
  BY DEF Steps
<1>6. ~b => UNCHANGED <<sess, ttl>> \/ (sess' = [sess EXCEPT ![k] = None] /\ ttl' = ttl \ {k})
  BY <1>1
<1>7. b => sess' = [sess EXCEPT ![k] = None] /\ ttl' = ttl \ {k}
  BY <1>1 DEF Applied
<1> HIDE DEF b, ck
<1>8. /\ req' \in [Requests -> RequestState]
      /\ req'[r].pc = "reply" /\ req'[r].route = req[r].route
      /\ req'[r].client = req[r].client /\ req'[r].key = req[r].key
      /\ req'[r].cookie = ck /\ req'[r].success = b
      /\ \A q \in Requests : q # r => req'[q] = req[q]
  BY <1>4, <1>5 DEF IInv, TypeOK, RequestState
<1> QED
  BY <1>2, <1>3, <1>5, <1>6, <1>7, <1>8

LEMMA DelSessionStep == ASSUME IInv, NEW r \in Requests, DelSession(r) PROVE IInv'
<1> DEFINE k == req[r].key
<1>1. /\ sess' \in [Keys -> Emails \cup {None}] /\ ttl' \in SUBSET Keys
      /\ \A j \in Keys : \/ sess'[j] = None
                         \/ sess'[j] = sess[j] /\ (j \in ttl => j \in ttl')
      /\ req'[r].success => sess'[k] = None
  BY DelSessionFrame DEF IInv, TypeOK
<1>2. TypeOK' /\ WorldKept /\ CookieNamesSession'
  BY <1>1, DelSessionFrame DEF IInv, TypeOK, WorldKept, CookieNamesSession
<1>3. Own(r)'
  BY <1>1, DelSessionFrame DEF Own, Succeeds, Acting, Entering
<1> QED
  BY <1>1, <1>2, <1>3, DelSessionFrame, OneStep

LEMMA UpdatePasswordStep == ASSUME IInv, NEW r \in Requests, UpdatePassword(r) PROVE IInv'
<1> DEFINE e == req[r].email
<1>1. PICK out \in Outcomes :
        /\ users' = IF Applied(out) /\ users[e] # None
                    THEN [users EXCEPT ![e] = req[r].password] ELSE users
        /\ Reply(r, out = "ok")
  BY DEF UpdatePassword
<1>2. UNCHANGED <<sess, ttl, connections, jar, drawn, opened, wishes>>
  BY DEF UpdatePassword, redis
<1>3. /\ req[r].pc = "update" /\ e \in Emails /\ req[r].password \in Passwords
      /\ req[r].route = "account" /\ req[r].cookie = "keep" /\ req[r].client \in Clients
  BY DEF UpdatePassword, At, IInv, Own, Acting
<1>4. /\ req' \in [Requests -> RequestState]
      /\ req'[r].pc = "reply" /\ req'[r].route = "account"
      /\ req'[r].client = req[r].client /\ req'[r].cookie = "keep"
      /\ \A q \in Requests : q # r => req'[q] = req[q]
  <2>1. (out = "ok") \in BOOLEAN
    OBVIOUS
  <2> QED
    BY <1>1, <1>3, <2>1, ReplyFrame DEF IInv
<1>5. /\ users' \in [Emails -> Passwords \cup {None}]
      /\ \A f \in Emails : users[f] # None => users'[f] # None
  BY <1>1, <1>3, NoneAssumption DEF IInv, TypeOK
<1>6. TypeOK' /\ WorldKept /\ CookieNamesSession'
  BY <1>2, <1>4, <1>5 DEF IInv, TypeOK, WorldKept, CookieNamesSession
<1>7. Own(r)'
  BY <1>3, <1>4 DEF Own, Succeeds, Acting, Entering
<1> QED
  BY <1>2, <1>4, <1>6, <1>7, OneStep

LEMMA FreeState == Free \in RequestState
BY DEF Free, RequestState, Done, Inside

LEMMA DeliverFrame ==
  ASSUME IInv, NEW r \in Requests, Deliver(r)
  PROVE  /\ UNCHANGED <<users, sess, ttl, connections, drawn, opened, wishes>>
         /\ req[r].pc = "reply" /\ req[r].client \in Clients
         /\ jar' \in [Clients -> Keys \cup {None}]
         /\ \A c \in Clients : \/ jar'[c] \in {jar[c], None}
                               \/ jar'[c] = req[r].key /\ req[r].cookie = "set"
         /\ req' \in [Requests -> RequestState]
         /\ \/ req'[r] = Free
            \/ /\ req[r].success /\ req'[r].pc = "ok" /\ req'[r].success
               /\ req'[r].route = req[r].route /\ req'[r].client = req[r].client
               /\ req'[r].email = req[r].email /\ req'[r].key = req[r].key
               /\ req'[r].cookie = req[r].cookie
         /\ \A q \in Requests : q # r => req'[q] = req[q]
<1>1. /\ UNCHANGED <<users, sess, ttl, connections, drawn, opened, wishes>>
      /\ req[r].pc = "reply"
  BY DEF Deliver, At, redis
<1>2. /\ req[r].client \in Clients /\ req[r].cookie \in {"set", "clear", "keep"}
      /\ req[r].cookie = "set" => req[r].key \in Keys
  BY <1>1 DEF IInv, Own, TypeOK, RequestState
<1>3. /\ jar' \in [Clients -> Keys \cup {None}]
      /\ \A c \in Clients : \/ jar'[c] \in {jar[c], None}
                            \/ jar'[c] = req[r].key /\ req[r].cookie = "set"
  <2> DEFINE c == req[r].client
  <2>1. CASE req[r].cookie = "set"
    <3>1. jar' = [jar EXCEPT ![c] = req[r].key]
      BY <2>1 DEF Deliver
    <3> QED
      BY <1>2, <2>1, <3>1 DEF IInv, TypeOK
  <2>2. CASE req[r].cookie = "clear"
    <3>1. jar' = [jar EXCEPT ![c] = None]
      BY <2>2 DEF Deliver
    <3> QED
      BY <3>1 DEF IInv, TypeOK
  <2>3. CASE req[r].cookie = "keep"
    <3>1. jar' = [jar EXCEPT ![c] = jar[c]]
      BY <2>3 DEF Deliver
    <3> QED
      BY <3>1 DEF IInv, TypeOK
  <2> QED
    BY <1>2, <2>1, <2>2, <2>3
<1>4. CASE req[r].success
  <2>1. req' = [req EXCEPT ![r] = [@ EXCEPT !.pc = "ok"]]
    BY <1>4 DEF Deliver
  <2>2. "ok" \in Done \cup Steps
    BY DEF Done
  <2>3. Goto(r, "ok")
    BY <2>1 DEF Goto
  <2> QED
    BY <1>1, <1>2, <1>3, <1>4, <2>2, <2>3, GotoFrame DEF IInv
<1>5. CASE ~req[r].success
  <2>1. req' = [req EXCEPT ![r] = Free]
    BY <1>5 DEF Deliver
  <2> QED
    BY <1>1, <1>2, <1>3, <2>1, FreeState DEF IInv, TypeOK
<1> QED
  BY <1>4, <1>5

LEMMA DeliverStep == ASSUME IInv, NEW r \in Requests, Deliver(r) PROVE IInv'
<1>1. TypeOK' /\ WorldKept
  BY DeliverFrame DEF IInv, TypeOK, WorldKept
<1>2. CookieNamesSession'
  <2>1. req[r].cookie = "set" => opened[req[r].key] # None
    BY NoneAssumption DEF IInv, Own
  <2> QED
    BY <2>1, DeliverFrame DEF IInv, CookieNamesSession
<1>3. Own(r)'
  <2>1. CASE req'[r] = Free
    BY <2>1 DEF Own, Free, Succeeds, Acting
  <2>2. CASE req'[r] # Free
    <3>1. Succeeds(r)
      BY <2>2, DeliverFrame DEF Succeeds
    <3> QED
      BY <2>2, <3>1, DeliverFrame DEF IInv, Own, Succeeds, Acting
  <2> QED
    BY <2>1, <2>2
<1>4. req'[r].pc # "set"
  BY DeliverFrame DEF Free
<1> QED
  BY <1>1, <1>2, <1>3, <1>4, DeliverFrame, OneStep DEF IInv, TypeOK

LEMMA LoseReplyStep == ASSUME IInv, NEW r \in Requests, LoseReply(r) PROVE IInv'
<1>1. /\ UNCHANGED <<users, sess, ttl, connections, jar, drawn, opened, wishes>>
      /\ req' \in [Requests -> RequestState] /\ req'[r] = Free
      /\ \A q \in Requests : q # r => req'[q] = req[q]
  BY FreeState DEF LoseReply, redis, IInv, TypeOK
<1>2. TypeOK' /\ WorldKept /\ CookieNamesSession'
  BY <1>1 DEF IInv, TypeOK, WorldKept, CookieNamesSession
<1>3. Own(r)' /\ req'[r].pc # "set"
  BY <1>1 DEF Own, Free, Succeeds, Acting
<1> QED
  BY <1>1, <1>2, <1>3, OneStep DEF IInv, TypeOK

LEMMA WorldStep ==
  ASSUME IInv,
         \/ \E k \in Keys : Expire(k)
         \/ \E w \in Mailed : AskMail(w) \/ WriteMailed(w)
         \/ Restart \/ UNCHANGED vars
  PROVE  IInv'
<1>1. /\ req' \in [Requests -> RequestState]
      /\ \A q \in Requests : req'[q] = req[q] \/ req'[q] = Free
  <2>1. CASE Restart
    <3>1. req' = [q \in Requests |-> IF req[q].pc \in Done THEN req[q] ELSE Free]
      BY <2>1 DEF Restart
    <3> QED
      BY <3>1, FreeState DEF IInv, TypeOK
  <2>2. CASE UNCHANGED req
    BY <2>2 DEF IInv, TypeOK
  <2> QED
    BY <2>1, <2>2 DEF Expire, AskMail, WriteMailed, vars
<1>2. UNCHANGED <<connections, jar, drawn, opened>>
  BY DEF Expire, AskMail, WriteMailed, Restart, vars, redis
<1>3. /\ sess' \in [Keys -> Emails \cup {None}] /\ ttl' \in SUBSET Keys
      /\ \A j \in Keys : \/ sess'[j] = None
                         \/ sess'[j] = sess[j] /\ (j \in ttl => j \in ttl')
  <2>1. CASE UNCHANGED <<sess, ttl>>
    BY <2>1 DEF IInv, TypeOK
  <2>2. CASE \E k \in Keys : Expire(k)
    BY <2>2 DEF Expire, IInv, TypeOK
  <2> QED
    BY <2>1, <2>2 DEF AskMail, WriteMailed, Restart, vars, redis
<1>4. /\ users' \in [Emails -> Passwords \cup {None}]
      /\ \A e \in Emails : users[e] # None => users'[e] # None
  <2>1. CASE UNCHANGED users
    BY <2>1 DEF IInv, TypeOK
  <2>2. CASE \E w \in Mailed : WriteMailed(w)
    BY <2>2, NoneAssumption DEF WriteMailed, Mailed, Wish, IInv, TypeOK
  <2> QED
    BY <2>1, <2>2 DEF Expire, AskMail, Restart, vars
<1>5. wishes' \in SUBSET Wish({"registration", "recovery", "facebook", "account"})
  BY DEF Expire, AskMail, WriteMailed, Restart, vars, Mailed, Wish, IInv, TypeOK
<1>6. TypeOK' /\ WorldKept /\ CookieNamesSession'
  BY <1>1, <1>2, <1>3, <1>4, <1>5 DEF IInv, TypeOK, WorldKept, CookieNamesSession
<1>7. ASSUME NEW q \in Requests PROVE Own(q)'
  <2>1. CASE req'[q] = req[q]
    BY <1>2, <1>6, <2>1, OwnKept DEF IInv
  <2>2. CASE req'[q] = Free
    BY <2>2 DEF Own, Free, Succeeds, Acting
  <2> QED
    BY <1>1, <2>1, <2>2
<1>8. SetOnce'
  BY <1>1 DEF IInv, SetOnce, Free
<1>9. KeysKnown' /\ SessionHasAccount'
  BY <1>2, <1>3, <1>4 DEF IInv, KeysKnown, SessionHasAccount, TypeOK
<1> QED
  BY <1>6, <1>7, <1>8, <1>9 DEF IInv

----------------------------------------------------------------------------
(* The strengthened invariant holds in every reachable state.              *)
THEOREM Strengthened == Spec => []IInv
<1>1. IInv /\ [Next]_vars => IInv'
  <2> SUFFICES ASSUME IInv, [Next]_vars PROVE IInv'
    OBVIOUS
  <2>1. CASE \E r \in Requests : \/ \E c \in Clients : Start(r, c)
                                 \/ Step(r) \/ Deliver(r) \/ LoseReply(r)
    BY <2>1, StartStep, LookupStep, MatchStep, InsertUserStep, SetStep, SetExpireStep,
       IncrConnectionStep, AuthenticateStep, DelSessionStep, UpdatePasswordStep,
       DeliverStep, LoseReplyStep DEF Step
  <2>2. CASE \/ \E k \in Keys : Expire(k)
             \/ \E w \in Mailed : AskMail(w) \/ WriteMailed(w)
             \/ Restart \/ UNCHANGED vars
    BY <2>2, WorldStep
  <2> QED
    BY <2>1, <2>2 DEF Next
<1> QED
  BY <1>1, InitIInv, PTL DEF Spec

(* Type correctness of the whole module.                                   *)
THEOREM TypeCorrect == Spec => []TypeOK
BY Strengthened, PTL DEF IInv

(* A confirmed logout is final, whatever else is in flight.                *)
THEOREM LogoutIsFinal == Spec => []LoggedOut
<1>1. IInv => LoggedOut
  <2> SUFFICES ASSUME IInv, NEW r \in Requests, req[r].pc = "ok", req[r].route = "logout"
               PROVE  sess[req[r].key] = None
    BY DEF LoggedOut
  <2> QED
    BY DEF IInv, Own, Succeeds
<1> QED
  BY <1>1, Strengthened, PTL

(* A cookie names a session that was opened.                               *)
THEOREM CookiesNameSessions == Spec => []CookieNamesSession
BY Strengthened, PTL DEF IInv

(* A session that was opened was opened for an address with an account.    *)
THEOREM SessionsHaveAccounts == Spec => []SessionHasAccount
BY Strengthened, PTL DEF IInv

(* A login confirmed by either route has opened its session.               *)
THEOREM LoginsAreHonest == Spec => []HonestLogin
<1>1. IInv => HonestLogin
  BY DEF IInv, Own, Succeeds, HonestLogin
<1> QED
  BY <1>1, Strengthened, PTL

(* A session confirmed to a browser by /loginFacebook has a time to live.   *)
THEOREM FacebookSessionsExpire == Spec => []FacebookSessionExpires
<1>1. IInv => FacebookSessionExpires
  BY DEF IInv, Own, Succeeds, FacebookSessionExpires, Confirmed
<1> QED
  BY <1>1, Strengthened, PTL

----------------------------------------------------------------------------
(* Sessions implements SessionBook: a key is live while Redis holds it and  *)
(* dead after, and a request is admitted while it acts.                     *)

Phase    == [k \in Keys |-> IF sess[k] # None THEN "live"
                            ELSE IF opened[k] # None THEN "dead" ELSE "fresh"]
Acts == [r \in Requests |-> IF Acting(r) THEN req[r].email ELSE None]
LedgerVars == <<Phase, opened, Acts>>

LEMMA LedgerInit == Init => Ledger!Init
BY DEF Init, Ledger!Init, Acting, Free

\* Some requests stop acting; the others and the sessions are as before.
LEMMA LedgerRelease ==
  ASSUME UNCHANGED <<sess, opened>>,
         \A r \in Requests : Acts'[r] = Acts[r] \/ Acts'[r] = None
  PROVE  Ledger!Next
<1>0. PICK S \in SUBSET Requests : S = {r \in Requests : Acts'[r] = None}
  OBVIOUS
<1>1. Acts' = [r \in Requests |-> IF r \in S THEN None ELSE Acts[r]]
  <2>1. DOMAIN Acts' = Requests /\ Acts' = [r \in Requests |-> Acts'[r]]
    BY DEF Acts
  <2> HIDE DEF Acts
  <2> QED
    BY <1>0, <2>1
<1>2. Ledger!Release(S)
  BY <1>1 DEF Ledger!Release, Acts, Phase
<1> QED
  BY <1>2 DEF Ledger!Next

\* A step of one request that does not act afterwards, and leaves the sessions alone.
LEMMA LedgerQuiet ==
  ASSUME UNCHANGED <<sess, opened>>, NEW r \in Requests,
         \A q \in Requests : q # r => req'[q] = req[q], ~Acting(r)'
  PROVE  Ledger!Next
<1>1. \A q \in Requests : Acts'[q] = Acts[q] \/ Acts'[q] = None
  BY DEF Acts, Acting
<1> QED
  BY <1>1, LedgerRelease

LEMMA LedgerSet ==
  ASSUME IInv, NEW r \in Requests, Set(r)
  PROVE  [Ledger!Next]_LedgerVars
<1>0. PICK k \in Keys, e \in Emails : k = req[r].key /\ e = req[r].email
  BY SetFrame
<1>1. ~Acting(r) /\ ~Acting(r)'
  BY SetFrame DEF Acting, Entering
<1>2. Acts' = Acts
  BY <1>1, SetFrame DEF Acts, Acting
<1>3. CASE UNCHANGED <<sess, opened>>
  BY <1>2, <1>3 DEF LedgerVars, Phase
<1>4. CASE /\ sess' = [sess EXCEPT ![k] = e]
           /\ opened' = [opened EXCEPT ![k] = e]
  <2>1. e # None /\ opened[k] = None /\ sess[k] = None
    BY <1>0, SetFrame, NoneAssumption DEF IInv, KeysKnown
  <2>2. Phase[k] = "fresh" /\ Phase' = [Phase EXCEPT ![k] = "live"]
    BY <1>4, <2>1 DEF Phase, IInv, TypeOK
  <2>3. Ledger!Begin(k, e)
    BY <1>2, <1>4, <2>1, <2>2 DEF Ledger!Begin, Phase, Acts
  <2> QED
    BY <2>1, <2>3 DEF Ledger!Next
<1> QED
  BY <1>0, <1>3, <1>4, SetFrame

LEMMA LedgerAuthenticate ==
  ASSUME IInv, NEW r \in Requests, Authenticate(r)
  PROVE  [Ledger!Next]_LedgerVars
<1>0. PICK k \in Keys : k = req[r].key
  BY DEF Authenticate, At, IInv, Own
<1>1. UNCHANGED <<sess, opened>> /\ req[r].pc = "get" /\ ~Acting(r)
  BY DEF Authenticate, redis, At, Acting
<1>2. CASE Reply(r, FALSE)
  <2>1. ~Acting(r)' /\ \A q \in Requests : q # r => req'[q] = req[q]
    BY <1>2, ReplyFrame DEF IInv, Acting
  <2> QED
    BY <1>1, <2>1, LedgerQuiet
<1>3. CASE ~Reply(r, FALSE)
  <2>1. /\ sess[k] # None /\ opened[k] = sess[k]
        /\ req'[r].email = sess[k] /\ Acting(r)'
        /\ \A q \in Requests : q # r => req'[q] = req[q]
    <3>1. Acting(r)'
      BY <1>3, AuthenticateFrame DEF Acting, Serving, Inside
    <3> QED
      BY <1>0, <1>3, <3>1, AuthenticateFrame, NoneAssumption
  <2>2. Phase[k] = "live" /\ Acts[r] = None
    BY <1>1, <2>1 DEF Phase, Acts
  <2>3. Acts' = [Acts EXCEPT ![r] = opened[k]]
    BY <2>1 DEF Acts, Acting
  <2>4. Ledger!Admit(r, k)
    BY <1>1, <2>2, <2>3 DEF Ledger!Admit, Phase, Acts
  <2> QED
    BY <2>1, <2>4 DEF Ledger!Next
<1> QED
  BY <1>2, <1>3

LEMMA LedgerDelSession ==
  ASSUME IInv, NEW r \in Requests, DelSession(r)
  PROVE  [Ledger!Next]_LedgerVars
<1>0. PICK k \in Keys : k = req[r].key
  BY DelSessionFrame
<1>1. ~Acting(r)' /\ \A q \in Requests : q # r => req'[q] = req[q]
  BY DelSessionFrame DEF Acting
<1>2. CASE UNCHANGED sess
  BY <1>1, <1>2, DelSessionFrame, LedgerQuiet
<1>3. CASE ~UNCHANGED sess
  <2>1. sess' = [sess EXCEPT ![k] = None] /\ opened' = opened /\ opened[k] # None
    BY <1>0, <1>3, DelSessionFrame
  <2>2. sess[k] # None
    BY <1>3, <2>1 DEF IInv, TypeOK
  <2>3. Phase[k] = "live" /\ Phase' = [Phase EXCEPT ![k] = "dead"]
    BY <2>1, <2>2 DEF Phase, IInv, TypeOK
  <2>4. Acts' = [Acts EXCEPT ![r] = None]
    BY <1>1 DEF Acts, Acting
  <2>5. Ledger!End(k)
    BY <2>1, <2>3, <2>4 DEF Ledger!End, Phase, Acts
  <2> QED
    BY <2>1, <2>5 DEF Ledger!Next
<1> QED
  BY <1>2, <1>3

LEMMA LedgerExpire ==
  ASSUME IInv, NEW k \in Keys, Expire(k)
  PROVE  [Ledger!Next]_LedgerVars
<1>1. sess' = [sess EXCEPT ![k] = None] /\ UNCHANGED <<opened, req>>
  BY DEF Expire
<1>2. Acts' = Acts
  BY <1>1 DEF Acts, Acting
<1>3. CASE sess[k] = None
  BY <1>1, <1>2, <1>3 DEF LedgerVars, Phase, IInv, TypeOK
<1>4. CASE sess[k] # None
  <2>1. opened[k] # None
    BY <1>4 DEF IInv, KeysKnown
  <2>2. Phase[k] = "live" /\ Phase' = [Phase EXCEPT ![k] = "dead"]
    BY <1>1, <1>4, <2>1 DEF Phase, IInv, TypeOK
  <2>3. Ledger!End(k)
    BY <1>1, <1>2, <2>2 DEF Ledger!End, Phase, Acts
  <2> QED
    BY <2>3 DEF Ledger!Next
<1> QED
  BY <1>3, <1>4

LEMMA LedgerOther ==
  ASSUME IInv, NEW r \in Requests,
         \/ \E c \in Clients : Start(r, c)
         \/ Lookup(r) \/ Match(r) \/ InsertUser(r) \/ SetExpire(r) \/ IncrConnection(r)
         \/ UpdatePassword(r) \/ Deliver(r) \/ LoseReply(r)
  PROVE  Ledger!Next
<1>1. UNCHANGED <<sess, opened>>
  BY DEF Start, Login, LoginFacebook, Enter, Lookup, Match, InsertUser, SetExpire,
     IncrConnection, UpdatePassword, Deliver, LoseReply, redis
<1>2. CASE \E c \in Clients : Start(r, c)
  <2>1. PICK c \in Clients : Start(r, c)
    BY <1>2
  <2>2. PICK route \in Entering \cup Inside, e \in Emails \cup {None},
             p \in Passwords \cup {None}, k \in Keys \cup {None} :
          req' = [req EXCEPT ![r] = Request(route, c, e, p, k)]
    BY <2>1 DEF Start, Login, LoginFacebook, Enter, Entering, Inside, IInv, TypeOK
  <2>3. ~Acting(r)' /\ \A q \in Requests : q # r => req'[q] = req[q]
    BY <2>2, RequestFrame DEF IInv, Acting
  <2> QED
    BY <1>1, <2>3, LedgerQuiet
<1>3. CASE \E s \in {"match", "insert", "stat"} : Goto(r, s)
  <2>1. PICK s \in {"match", "insert", "stat"} : Goto(r, s)
    BY <1>3
  <2>2. s \in Done \cup Steps
    BY DEF Steps
  <2>3. ~Acting(r)' /\ \A q \in Requests : q # r => req'[q] = req[q]
    BY <2>1, <2>2, GotoFrame DEF IInv, Acting
  <2> QED
    BY <1>1, <2>3, LedgerQuiet
<1>4. CASE \E k \in Keys : Admitted(r, k)
  <2>1. ~Acting(r)' /\ \A q \in Requests : q # r => req'[q] = req[q]
    BY <1>4, AdmittedFrame DEF IInv, Acting
  <2> QED
    BY <1>1, <2>1, LedgerQuiet
<1>5. CASE \E b \in BOOLEAN : Reply(r, b) /\ (~b \/ req[r].route # "page")
  <2>1. ~Acting(r)' /\ \A q \in Requests : q # r => req'[q] = req[q]
    BY <1>5, ReplyFrame DEF IInv, Acting
  <2> QED
    BY <1>1, <2>1, LedgerQuiet
<1>6. CASE Deliver(r)
  <2>1. ~Acting(r)' /\ \A q \in Requests : q # r => req'[q] = req[q]
    BY <1>6, DeliverFrame DEF Acting, Free
  <2> QED
    BY <1>1, <2>1, LedgerQuiet
<1>7. CASE LoseReply(r)
  <2>1. ~Acting(r)' /\ \A q \in Requests : q # r => req'[q] = req[q]
    BY <1>7 DEF LoseReply, Acting, Free, IInv, TypeOK
  <2> QED
    BY <1>1, <2>1, LedgerQuiet
<1>8. /\ Lookup(r) => Reply(r, FALSE) \/ \E s \in {"match", "insert", "stat"} : Goto(r, s)
      /\ Match(r) \/ InsertUser(r) => Reply(r, FALSE) \/ \E k \in Keys : Admitted(r, k)
  BY DEF Lookup, Match, InsertUser
<1>9. SetExpire(r) =>
        \/ \E s \in {"match", "insert", "stat"} : Goto(r, s)
        \/ \E b \in BOOLEAN : Reply(r, b) /\ req[r].route # "page"
  <2>1. req[r].pc = "expire" => req[r].route # "page"
    BY DEF IInv, Own, Entering
  <2> QED
    BY <2>1 DEF SetExpire, At
<1>10. IncrConnection(r) \/ UpdatePassword(r) =>
         \E b \in BOOLEAN : Reply(r, b) /\ req[r].route # "page"
  <2>1. req[r].pc \in {"stat", "update"} => req[r].route # "page"
    BY DEF IInv, Own, Entering
  <2> QED
    BY <2>1 DEF IncrConnection, UpdatePassword, At
<1> QED
  BY <1>2, <1>3, <1>4, <1>5, <1>6, <1>7, <1>8, <1>9, <1>10

(* Sessions implements SessionBook: no session that has ended comes back,   *)
(* and a request acts as the owner of the session it was admitted in.       *)
THEOREM Refinement == Spec => ImplementsSessionBook
<1>1. IInv /\ [Next]_vars => [Ledger!Next]_LedgerVars
  <2> SUFFICES ASSUME IInv, [Next]_vars PROVE [Ledger!Next]_LedgerVars
    OBVIOUS
  <2>1. CASE \E r \in Requests : Set(r) \/ Authenticate(r) \/ DelSession(r)
    BY <2>1, LedgerSet, LedgerAuthenticate, LedgerDelSession
  <2>2. CASE \E r \in Requests :
               \/ \E c \in Clients : Start(r, c)
               \/ Lookup(r) \/ Match(r) \/ InsertUser(r) \/ SetExpire(r) \/ IncrConnection(r)
               \/ UpdatePassword(r) \/ Deliver(r) \/ LoseReply(r)
    BY <2>2, LedgerOther
  <2>3. CASE \E k \in Keys : Expire(k)
    BY <2>3, LedgerExpire
  <2>4. CASE \E w \in Mailed : AskMail(w) \/ WriteMailed(w)
    <3>1. UNCHANGED <<sess, opened, req>>
      BY <2>4 DEF AskMail, WriteMailed, redis
    <3> QED
      BY <3>1 DEF LedgerVars, Phase, Acts, Acting
  <2>5. CASE Restart
    <3>1. UNCHANGED <<sess, opened>>
      BY <2>5 DEF Restart, redis
    <3>2. \A r \in Requests : req'[r] = req[r] \/ req'[r] = Free
      BY <2>5 DEF Restart
    <3>3. \A r \in Requests : Acts'[r] = Acts[r] \/ Acts'[r] = None
      BY <3>2 DEF Acts, Acting, Free
    <3> QED
      BY <3>1, <3>3, LedgerRelease
  <2>6. CASE UNCHANGED vars
    BY <2>6 DEF vars, redis, LedgerVars, Phase, Acts, Acting
  <2> QED
    BY <2>1, <2>2, <2>3, <2>4, <2>5, <2>6 DEF Next, Step
<1> QED
  BY <1>1, LedgerInit, Strengthened, PTL
     DEF Spec, Ledger!Spec, ImplementsSessionBook, LedgerVars, Phase, Acts

----------------------------------------------------------------------------
(* stats:connection against the sessions that were opened.                 *)

\* The requests that have opened a session and have not counted it yet.
Counting == {r \in Requests : req[r].pc \in {"expire", "stat"}}
OpenedKeys == {k \in Keys : opened[k] # None}

\* A session that was opened was counted at most once, or is about to be.
CountedHeld == connections + Cardinality(Counting) <= Cardinality(OpenedKeys)

(* Both sets are finite, before and after a step.                          *)
LEMMA CountingFinite ==
  /\ IsFiniteSet(Counting) /\ Cardinality(Counting) \in Nat
  /\ IsFiniteSet(OpenedKeys) /\ Cardinality(OpenedKeys) \in Nat
  /\ IsFiniteSet(Counting') /\ Cardinality(Counting') \in Nat
  /\ IsFiniteSet(OpenedKeys') /\ Cardinality(OpenedKeys') \in Nat
<1>1. /\ Counting \subseteq Requests /\ OpenedKeys \subseteq Keys
      /\ Counting' \subseteq Requests /\ OpenedKeys' \subseteq Keys
  BY DEF Counting, OpenedKeys
<1> QED
  BY <1>1, FinitenessAssumption, FS_Subset, FS_CardinalityType

(* A step by which nobody starts counting and no key is forgotten.         *)
LEMMA NobodyCounts ==
  ASSUME IInv, CountedHeld, UNCHANGED connections,
         Counting' \subseteq Counting, OpenedKeys \subseteq OpenedKeys'
  PROVE  CountedHeld'
<1>1. /\ Cardinality(Counting') <= Cardinality(Counting)
      /\ Cardinality(OpenedKeys) <= Cardinality(OpenedKeys')
  BY CountingFinite, FS_Subset
<1>2. connections \in Nat
  BY DEF IInv, TypeOK
<1> QED
  BY <1>1, <1>2, CountingFinite DEF CountedHeld

(* SET opens a key that was not open, and lets at most one request count.  *)
LEMMA SetCounted ==
  ASSUME IInv, CountedHeld, NEW r \in Requests, Set(r) PROVE CountedHeld'
<1> DEFINE k == req[r].key
<1>1. PICK out \in Outcomes :
        /\ IF Applied(out)
           THEN /\ sess' = [sess EXCEPT ![k] = req[r].email]
                /\ opened' = [opened EXCEPT ![k] = req[r].email]
           ELSE UNCHANGED <<sess, opened>>
        /\ \/ out = "ok" /\ \E next \in {"expire", "stat", "reply"} :
                req' = [req EXCEPT ![r] = [@ EXCEPT !.pc = next, !.cookie = "set",
                                                    !.success = (next = "reply")]]
           \/ out # "ok" /\ Reply(r, FALSE)
  BY DEF Set
<1>2. /\ req[r].pc = "set" /\ UNCHANGED connections /\ connections \in Nat
      /\ k \in Keys /\ opened[k] = None /\ req[r].email \in Emails
  BY DEF Set, At, IInv, Own, TypeOK
<1>3. req[r].email # None
  BY <1>2, NoneAssumption
<1>4. /\ \A q \in Requests : q # r => req'[q] = req[q]
      /\ out # "ok" => req'[r].pc = "reply"
  <2>1. CASE out = "ok"
    BY <1>1, <2>1 DEF IInv, TypeOK
  <2>2. CASE out # "ok"
    BY <1>1, <2>2, ReplyFrame DEF IInv
  <2> QED
    BY <2>1, <2>2
<1>5. \/ OpenedKeys' = OpenedKeys /\ out # "ok"
      \/ OpenedKeys' = OpenedKeys \cup {k} /\ k \notin OpenedKeys
  <2>1. CASE Applied(out)
    <3>1. opened'[k] # None /\ \A l \in Keys : l # k => opened'[l] = opened[l]
      BY <1>1, <1>2, <1>3, <2>1 DEF IInv, TypeOK
    <3> QED
      BY <1>2, <3>1 DEF OpenedKeys
  <2>2. CASE ~Applied(out)
    BY <1>1, <2>2 DEF OpenedKeys, Applied
  <2> QED
    BY <2>1, <2>2
<1>6. Counting' \subseteq Counting \cup {r} /\ r \notin Counting
      /\ (out # "ok" => Counting' \subseteq Counting)
  BY <1>2, <1>4 DEF Counting
<1>7. CASE out # "ok"
  <2>1. OpenedKeys \subseteq OpenedKeys'
    BY <1>5
  <2> QED
    BY <1>2, <1>6, <1>7, <2>1, NobodyCounts
<1>8. CASE out = "ok"
  <2>1. Cardinality(OpenedKeys') = Cardinality(OpenedKeys) + 1
    BY <1>5, <1>8, CountingFinite, FS_AddElement
  <2>2. /\ Cardinality(Counting \cup {r}) = Cardinality(Counting) + 1
        /\ IsFiniteSet(Counting \cup {r})
    BY <1>6, CountingFinite, FS_AddElement
  <2>3. Cardinality(Counting') <= Cardinality(Counting) + 1
    BY <1>6, <2>2, FS_Subset
  <2> QED
    BY <1>2, <2>1, <2>3, CountingFinite DEF CountedHeld
<1> QED
  BY <1>7, <1>8

(* INCR counts once, whatever is answered: the request replies next.       *)
LEMMA IncrCounted ==
  ASSUME IInv, CountedHeld, NEW r \in Requests, IncrConnection(r) PROVE CountedHeld'
<1>1. PICK out \in Outcomes :
        /\ connections' = IF Applied(out) THEN connections + 1 ELSE connections
        /\ Reply(r, out = "ok")
  BY DEF IncrConnection
<1>2. req[r].pc = "stat" /\ UNCHANGED opened
  BY DEF IncrConnection, At
<1>3. /\ req'[r].pc = "reply"
      /\ \A q \in Requests : q # r => req'[q] = req[q]
  BY <1>1, ReplyFrame DEF IInv
<1>4. Counting' = Counting \ {r} /\ r \in Counting
  BY <1>2, <1>3 DEF Counting
<1>5. Cardinality(Counting') = Cardinality(Counting) - 1
  BY <1>4, CountingFinite, FS_RemoveElement
<1>6. OpenedKeys' = OpenedKeys
  BY <1>2 DEF OpenedKeys
<1>7. connections \in Nat /\ connections' \in {connections, connections + 1}
  BY <1>1 DEF IInv, TypeOK
<1> QED
  BY <1>5, <1>6, <1>7, CountingFinite DEF CountedHeld

(* No other step counts, lets a request count, or forgets a key.           *)
LEMMA OtherCounted ==
  ASSUME IInv, CountedHeld, [Next]_vars,
         ~\E r \in Requests : Set(r) \/ IncrConnection(r)
  PROVE  CountedHeld'
<1> DEFINE counts(q) == req[q].pc \in {"expire", "stat"}
<1>1. UNCHANGED <<connections, opened>>
  BY DEF Next, Start, Login, LoginFacebook, Enter, Step, Lookup, Match, InsertUser, SetExpire,
     Authenticate, DelSession, UpdatePassword, Deliver, LoseReply, Expire, AskMail, WriteMailed,
     Restart, vars, redis
<1>2. ASSUME NEW q \in Requests, req'[q].pc \in {"expire", "stat"} PROVE counts(q)
  <2>0. req \in [Requests -> RequestState]
    BY DEF IInv, TypeOK
  <2>1. ASSUME NEW r \in Requests, NEW b \in BOOLEAN, Reply(r, b) PROVE counts(q)
    BY <1>2, <2>1, ReplyFrame DEF IInv
  <2>2. ASSUME NEW r \in Requests, NEW v, v.pc \notin {"expire", "stat"},
               req' = [req EXCEPT ![r] = v]
        PROVE  counts(q)
    BY <1>2, <2>0, <2>2
  <2>3. ASSUME NEW r \in Requests, NEW c \in Clients, Start(r, c) PROVE counts(q)
    <3>1. \E v : v.pc \notin {"expire", "stat"} /\ req' = [req EXCEPT ![r] = v]
      BY <2>3 DEF Start, Login, LoginFacebook, Enter, Request
    <3> QED
      BY <2>2, <3>1
  <2>4. ASSUME NEW r \in Requests, NEW k \in Keys, Admitted(r, k) PROVE counts(q)
    BY <1>2, <2>4, AdmittedFrame DEF IInv
  <2>5. ASSUME NEW r \in Requests, Lookup(r) PROVE counts(q)
    <3>1. Reply(r, FALSE) \/ Goto(r, "match") \/ Goto(r, "insert")
      BY <2>5 DEF Lookup
    <3> QED
      BY <1>2, <2>0, <2>1, <3>1 DEF Goto, RequestState
  <2>6. ASSUME NEW r \in Requests, Match(r) \/ InsertUser(r) PROVE counts(q)
    BY <2>1, <2>4, <2>6 DEF Match, InsertUser
  <2>7. ASSUME NEW r \in Requests, SetExpire(r) PROVE counts(q)
    <3>1. req[r].pc = "expire"
      BY <2>7 DEF SetExpire, At
    <3>2. \A p \in Requests : p # r => req'[p] = req[p]
      BY <2>0, <2>7 DEF SetExpire, Goto, Reply
    <3> QED
      BY <1>2, <3>1, <3>2
  <2>8. ASSUME NEW r \in Requests, Authenticate(r) PROVE counts(q)
    <3>1. CASE Reply(r, FALSE)
      BY <2>1, <3>1
    <3>2. CASE ~Reply(r, FALSE)
      <4> DEFINE v == [req[r] EXCEPT !.email = sess[req[r].key],
                                     !.pc = Serving(req[r].route),
                                     !.success = (req[r].route = "page")]
      <4>1. req' = [req EXCEPT ![r] = v]
        BY <2>8, <3>2 DEF Authenticate
      <4>2. Serving(req[r].route) \in {"del", "update", "reply"}
        BY DEF Serving
      <4>3. v.pc = Serving(req[r].route)
        BY <2>0 DEF RequestState
      <4> HIDE DEF v
      <4> QED
        BY <2>2, <4>1, <4>2, <4>3
    <3> QED
      BY <3>1, <3>2
  <2>9. ASSUME NEW r \in Requests, DelSession(r) PROVE counts(q)
    <3>1. req'[r].pc = "reply" /\ \A p \in Requests : p # r => req'[p] = req[p]
      BY <2>0, <2>9 DEF DelSession, RequestState
    <3> QED
      BY <1>2, <3>1
  <2>10. ASSUME NEW r \in Requests, UpdatePassword(r) PROVE counts(q)
    BY <2>1, <2>10 DEF UpdatePassword
  <2>11. ASSUME NEW r \in Requests, Deliver(r) \/ LoseReply(r) PROVE counts(q)
    <3>1. req'[r].pc \in {"ok", "free"} /\ \A p \in Requests : p # r => req'[p] = req[p]
      BY <2>0, <2>11 DEF Deliver, LoseReply, RequestState, Free
    <3> QED
      BY <1>2, <3>1
  <2>12. CASE Restart
    BY <1>2, <2>12 DEF Restart, Free
  <2>13. CASE UNCHANGED req
    BY <1>2, <2>13
  <2> QED
    BY <2>3, <2>5, <2>6, <2>7, <2>8, <2>9, <2>10, <2>11, <2>12, <2>13
       DEF Next, Step, Expire, AskMail, WriteMailed, vars
<1>3. Counting' \subseteq Counting /\ OpenedKeys \subseteq OpenedKeys'
  BY <1>1, <1>2 DEF Counting, OpenedKeys
<1> QED
  BY <1>1, <1>3, NobodyCounts

(* stats:connection counts no more logins than sessions were opened, for    *)
(* any number of clients, keys and requests.                                *)
THEOREM LoginsCounted == Spec => []ConnectionsBacked
<1>1. Init => CountedHeld
  <2> SUFFICES ASSUME Init PROVE CountedHeld
    OBVIOUS
  <2>1. Counting = {} /\ connections = 0
    BY DEF Init, Counting, Free
  <2> QED
    BY <2>1, CountingFinite, FS_EmptySet DEF CountedHeld
<1>2. IInv /\ CountedHeld /\ [Next]_vars => CountedHeld'
  BY SetCounted, IncrCounted, OtherCounted
<1>3. IInv /\ CountedHeld => ConnectionsBacked
  <2>1. IInv => connections \in Nat
    BY DEF IInv, TypeOK
  <2> QED
    BY <2>1, CountingFinite DEF CountedHeld, ConnectionsBacked, OpenedKeys
<1> QED
  BY <1>1, <1>2, <1>3, Strengthened, PTL DEF Spec

----------------------------------------------------------------------------
(* Sessions implements AccountBook: a Facebook login that opens an account, *)
(* and a request that changes a password, carry what was asked for.        *)

AskedFor(kind, r) ==
  [kind |-> kind, email |-> req[r].email, password |-> req[r].password] \in wishes

Wanting == {"lookup", "match", "insert", "update"}

\* What request r is about to do to users is a wish.
Wished(r) ==
  /\ req[r].pc \in {"lookup", "insert"} => req[r].route = "facebook"
  /\ req[r].pc \in {"lookup", "match", "insert"} /\ req[r].route = "facebook"
       => AskedFor("facebook", r)
  /\ req[r].pc = "update" => AskedFor("account", r)

AsWished == \A r \in Requests : Wished(r)

(* Wishes are not forgotten, so that only a request that newly wants        *)
(* something has to be looked at.                                           *)
LEMMA WishedKept ==
  ASSUME AsWished, wishes \subseteq wishes',
         \A q \in Requests : \/ req'[q] = req[q] \/ req'[q].pc \notin Wanting
                             \/ Wished(q)'
  PROVE  AsWished'
BY DEF AsWished, Wished, AskedFor, Wanting

LEMMA StartWished ==
  ASSUME IInv, AsWished, NEW r \in Requests, NEW c \in Clients, Start(r, c) PROVE AsWished'
<1>0. req \in [Requests -> RequestState]
  BY DEF IInv, TypeOK
<1>1. ASSUME NEW e \in Emails, NEW p \in Passwords, Login(r, c, e, p) PROVE AsWished'
  <2>1. req' = [req EXCEPT ![r] = Request("login", c, e, p, None)] /\ UNCHANGED wishes
    BY <1>1 DEF Login
  <2> DEFINE v == Request("login", c, e, p, None)
  <2>2. v.pc = "match" /\ v.route = "login"
    BY DEF Request
  <2> HIDE DEF v
  <2>3. req'[r] = v /\ \A q \in Requests : q # r => req'[q] = req[q]
    BY <1>0, <2>1 DEF v
  <2> QED
    BY <2>1, <2>2, <2>3, WishedKept DEF Wished
<1>2. ASSUME NEW e \in Emails, NEW p \in Passwords, LoginFacebook(r, c, e, p) PROVE AsWished'
  <2> DEFINE v == Request("facebook", c, e, p, None)
  <2>1. /\ req' = [req EXCEPT ![r] = v]
        /\ wishes' = wishes \cup {[kind |-> "facebook", email |-> e, password |-> p]}
    BY <1>2 DEF LoginFacebook
  <2>2. v.pc = "lookup" /\ v.route = "facebook" /\ v.email = e /\ v.password = p
    BY DEF Request
  <2> HIDE DEF v
  <2>3. req'[r] = v /\ \A q \in Requests : q # r => req'[q] = req[q]
    BY <1>0, <2>1
  <2>4. Wished(r)'
    BY <2>1, <2>2, <2>3 DEF Wished, AskedFor
  <2> QED
    BY <2>1, <2>3, <2>4, WishedKept
<1>3. ASSUME NEW route \in Inside, NEW p \in Passwords \cup {None}, Enter(r, c, route, p)
      PROVE  AsWished'
  <2> DEFINE v == Request(route, c, None, p, jar[c])
  <2>1. req' = [req EXCEPT ![r] = v] /\ UNCHANGED wishes
    BY <1>3 DEF Enter
  <2>2. v.pc = "get"
    BY DEF Request, Inside
  <2> HIDE DEF v
  <2>3. req'[r] = v /\ \A q \in Requests : q # r => req'[q] = req[q]
    BY <1>0, <2>1
  <2> QED
    BY <2>1, <2>2, <2>3, WishedKept DEF Wanting
<1> QED
  BY <1>1, <1>2, <1>3 DEF Start

LEMMA LookupWished ==
  ASSUME IInv, AsWished, NEW r \in Requests, Lookup(r) PROVE AsWished'
<1>1. req[r].pc = "lookup" /\ UNCHANGED wishes
  BY DEF Lookup, At
<1>2. CASE Reply(r, FALSE)
  BY <1>1, <1>2, ReplyFrame, WishedKept DEF IInv, Wanting
<1>3. ASSUME NEW s \in {"match", "insert"}, Goto(r, s) PROVE AsWished'
  <2>1. s \in Done \cup Steps
    BY DEF Steps
  <2>2. /\ req'[r].pc = s /\ req'[r].route = req[r].route
        /\ req'[r].email = req[r].email /\ req'[r].password = req[r].password
        /\ \A q \in Requests : q # r => req'[q] = req[q]
    BY <1>3, <2>1, GotoFrame DEF IInv
  <2>3. Wished(r)'
    BY <1>1, <2>2 DEF AsWished, Wished, AskedFor
  <2> QED
    BY <1>1, <2>2, <2>3, WishedKept
<1> QED
  BY <1>2, <1>3 DEF Lookup

LEMMA AuthenticateWished ==
  ASSUME IInv, AsWished, NEW r \in Requests, Authenticate(r) PROVE AsWished'
<1>1. wishes \subseteq wishes'
  BY DEF Authenticate
<1>2. CASE Reply(r, FALSE)
  BY <1>1, <1>2, ReplyFrame, WishedKept DEF IInv, Wanting
<1>3. CASE ~Reply(r, FALSE)
  <2> DEFINE e == sess[req[r].key]
             v == [req[r] EXCEPT !.email = e, !.pc = Serving(req[r].route),
                                 !.success = (req[r].route = "page")]
  <2>1. /\ req' = [req EXCEPT ![r] = v]
        /\ req[r].route = "account" =>
             wishes' = wishes \cup {[kind |-> "account", email |-> e,
                                     password |-> req[r].password]}
    BY <1>3 DEF Authenticate
  <2>2. req \in [Requests -> RequestState]
    BY DEF IInv, TypeOK
  <2>3. v.pc = Serving(req[r].route) /\ v.email = e /\ v.password = req[r].password
    BY <2>2 DEF RequestState
  <2> HIDE DEF v
  <2>4. req'[r] = v /\ \A q \in Requests : q # r => req'[q] = req[q]
    BY <2>1, <2>2
  <2>5. CASE req[r].route = "account"
    <3>1. v.pc = "update"
      BY <2>3, <2>5 DEF Serving
    <3>2. Wished(r)'
      BY <2>1, <2>3, <2>4, <2>5, <3>1 DEF Wished, AskedFor
    <3> QED
      BY <1>1, <2>4, <3>2, WishedKept
  <2>6. CASE req[r].route # "account"
    <3>1. v.pc \notin Wanting
      BY <2>3, <2>6 DEF Serving, Wanting
    <3> QED
      BY <1>1, <2>4, <3>1, WishedKept
  <2> QED
    BY <2>5, <2>6
<1> QED
  BY <1>2, <1>3

\* The other steps: no request wants anything that it did not want before.
LEMMA OtherWished ==
  ASSUME IInv, AsWished,
         \/ \E r \in Requests : \/ Match(r) \/ InsertUser(r) \/ Set(r) \/ SetExpire(r)
                                \/ IncrConnection(r) \/ DelSession(r) \/ UpdatePassword(r)
                                \/ Deliver(r) \/ LoseReply(r)
         \/ \E k \in Keys : Expire(k)
         \/ \E w \in Mailed : AskMail(w) \/ WriteMailed(w)
         \/ Restart \/ UNCHANGED vars
  PROVE  AsWished'
<1>0. req \in [Requests -> RequestState]
  BY DEF IInv, TypeOK
<1>1. wishes \subseteq wishes'
  BY DEF Match, InsertUser, Set, SetExpire, IncrConnection, DelSession, UpdatePassword,
     Deliver, LoseReply, Expire, AskMail, WriteMailed, Restart, vars
<1>2. ASSUME NEW r \in Requests, NEW b \in BOOLEAN, Reply(r, b) PROVE AsWished'
  BY <1>1, <1>2, ReplyFrame, WishedKept DEF IInv, Wanting
<1>3. ASSUME NEW r \in Requests, NEW k \in Keys, Admitted(r, k) PROVE AsWished'
  BY <1>1, <1>3, AdmittedFrame, WishedKept DEF IInv, Wanting
<1>4. ASSUME NEW r \in Requests, NEW v, v.pc \notin Wanting, req' = [req EXCEPT ![r] = v]
      PROVE  AsWished'
  BY <1>0, <1>1, <1>4, WishedKept
<1>5. ASSUME NEW r \in Requests, Match(r) \/ InsertUser(r) \/ IncrConnection(r) \/ UpdatePassword(r)
      PROVE  AsWished'
  BY <1>2, <1>3, <1>5 DEF Match, InsertUser, IncrConnection, UpdatePassword
<1>6. ASSUME NEW r \in Requests, Set(r) PROVE AsWished'
  <2>1. CASE \E b \in BOOLEAN : Reply(r, b)
    BY <1>2, <2>1
  <2>2. CASE ~\E b \in BOOLEAN : Reply(r, b)
    <3>1. PICK next \in {"expire", "stat", "reply"} :
            req' = [req EXCEPT ![r] = [@ EXCEPT !.pc = next, !.cookie = "set",
                                                !.success = (next = "reply")]]
      BY <1>6, <2>2 DEF Set
    <3> DEFINE v == [req[r] EXCEPT !.pc = next, !.cookie = "set", !.success = (next = "reply")]
    <3>2. v.pc \notin Wanting
      BY <1>0 DEF RequestState, Wanting
    <3>3. req' = [req EXCEPT ![r] = v]
      BY <3>1
    <3> HIDE DEF v
    <3> QED
      BY <1>4, <3>2, <3>3
  <2> QED
    BY <2>1, <2>2
<1>7. ASSUME NEW r \in Requests, SetExpire(r) PROVE AsWished'
  <2>1. CASE \E b \in BOOLEAN : Reply(r, b)
    BY <1>2, <2>1
  <2>2. CASE Goto(r, "stat")
    <3>1. "stat" \in Done \cup Steps /\ "stat" \notin Wanting
      BY DEF Steps, Wanting
    <3> QED
      BY <1>1, <2>2, <3>1, GotoFrame, WishedKept DEF IInv
  <2> QED
    BY <1>7, <2>1, <2>2 DEF SetExpire
<1>8. ASSUME NEW r \in Requests, DelSession(r) \/ Deliver(r) \/ LoseReply(r) PROVE AsWished'
  <2>1. \A q \in Requests : q # r => req'[q] = req[q]
    BY <1>0, <1>8 DEF DelSession, Deliver, LoseReply
  <2>2. CASE DelSession(r)
    <3>1. req'[r].pc = "reply"
      BY <1>0, <2>2 DEF DelSession, RequestState
    <3> QED
      BY <1>1, <2>1, <3>1, WishedKept DEF Wanting
  <2>3. CASE Deliver(r) \/ LoseReply(r)
    <3>1. req'[r].pc \in {"ok", "free"}
      BY <1>0, <2>3 DEF Deliver, LoseReply, RequestState, Free
    <3> QED
      BY <1>1, <2>1, <3>1, WishedKept DEF Wanting
  <2> QED
    BY <1>8, <2>2, <2>3
<1>9. CASE Restart
  <2>1. \A q \in Requests : req'[q] = req[q] \/ req'[q].pc = "free"
    BY <1>9 DEF Restart, Free
  <2> QED
    BY <1>1, <2>1, WishedKept DEF Wanting
<1>10. CASE UNCHANGED req
  BY <1>1, <1>10, WishedKept
<1> QED
  BY <1>5, <1>6, <1>7, <1>8, <1>9, <1>10 DEF Expire, AskMail, WriteMailed, vars

(* INSERT opens an account that was asked for, UPDATE changes one as asked  *)
(* for; a wish that is submitted is only noted.                            *)
LEMMA BookStep ==
  ASSUME IInv, AsWished, [Next]_vars PROVE [Book!Next]_<<users, wishes>>
<1>1. ASSUME NEW r \in Requests, InsertUser(r) PROVE [Book!Next]_<<users, wishes>>
  <2> DEFINE w == [kind |-> "facebook", email |-> req[r].email, password |-> req[r].password]
  <2>1. /\ req[r].email \in Emails /\ req[r].password \in Passwords
        /\ w \in wishes /\ UNCHANGED wishes
    BY <1>1 DEF InsertUser, At, IInv, Own, AsWished, Wished, AskedFor
  <2>2. CASE UNCHANGED users
    BY <2>1, <2>2
  <2>3. CASE ~UNCHANGED users
    <3>1. /\ users[req[r].email] = None
          /\ users' = [users EXCEPT ![req[r].email] = req[r].password]
      BY <1>1, <2>3 DEF InsertUser
    <3>2. Book!Open(w)
      BY <2>1, <3>1 DEF Book!Open, Book!Opening
    <3>3. w \in Book!Wish
      BY <2>1 DEF Book!Wish, Book!Opening
    <3> QED
      BY <3>2, <3>3 DEF Book!Next
  <2> QED
    BY <2>2, <2>3
<1>2. ASSUME NEW r \in Requests, UpdatePassword(r) PROVE [Book!Next]_<<users, wishes>>
  <2> DEFINE w == [kind |-> "account", email |-> req[r].email, password |-> req[r].password]
  <2>1. w \in wishes /\ UNCHANGED wishes
    BY <1>2 DEF UpdatePassword, At, AsWished, Wished, AskedFor
  <2>2. w \in Wish({"registration", "recovery", "facebook", "account"})
    BY <2>1 DEF IInv, TypeOK
  <2>3. w \in Book!Wish
    BY <2>2 DEF Wish, Book!Wish, Book!Opening, Book!Changing
  <2>4. CASE UNCHANGED users
    BY <2>1, <2>4
  <2>5. CASE ~UNCHANGED users
    <3>1. /\ users[req[r].email] # None
          /\ users' = [users EXCEPT ![req[r].email] = req[r].password]
      BY <1>2, <2>5 DEF UpdatePassword
    <3>2. Book!Change(w)
      BY <2>1, <3>1 DEF Book!Change, Book!Changing
    <3> QED
      BY <2>3, <3>2 DEF Book!Next
  <2> QED
    BY <2>4, <2>5
<1>3. ASSUME NEW w \in Mailed, WriteMailed(w) PROVE [Book!Next]_<<users, wishes>>
  <2>1. w \in Book!Wish /\ w.kind \in {"registration", "recovery"}
    BY DEF Mailed, Wish, Book!Wish, Book!Opening, Book!Changing
  <2>2. CASE w.kind = "registration"
    BY <1>3, <2>1, <2>2 DEF WriteMailed, Book!Next, Book!Open, Book!Opening
  <2>3. CASE w.kind = "recovery"
    BY <1>3, <2>1, <2>3 DEF WriteMailed, Book!Next, Book!Change, Book!Changing
  <2> QED
    BY <2>1, <2>2, <2>3
<1>4. ASSUME NEW w \in Mailed, AskMail(w) PROVE [Book!Next]_<<users, wishes>>
  <2>1. w \in Book!Wish
    BY DEF Mailed, Wish, Book!Wish, Book!Opening, Book!Changing
  <2> QED
    BY <1>4, <2>1 DEF AskMail, Book!Next, Book!Ask
<1>5. ASSUME NEW r \in Requests, NEW c \in Clients, Start(r, c)
      PROVE  [Book!Next]_<<users, wishes>>
  <2>1. \A e \in Emails, p \in Passwords :
          [kind |-> "facebook", email |-> e, password |-> p] \in Book!Wish
    BY DEF Book!Wish, Book!Opening
  <2> QED
    BY <1>5, <2>1 DEF Start, Login, LoginFacebook, Enter, Book!Next, Book!Ask
<1>6. ASSUME NEW r \in Requests, Authenticate(r) PROVE [Book!Next]_<<users, wishes>>
  <2>1. UNCHANGED users
    BY <1>6 DEF Authenticate
  <2>2. CASE UNCHANGED wishes
    BY <2>1, <2>2
  <2>3. CASE ~UNCHANGED wishes
    <3> DEFINE w == [kind |-> "account", email |-> sess[req[r].key],
                     password |-> req[r].password]
    <3>1. /\ req[r].pc = "get" /\ req[r].route = "account"
          /\ sess[req[r].key] # None /\ wishes' = wishes \cup {w}
      BY <1>6, <2>3 DEF Authenticate, At
    <3>2. req[r].key \in Keys /\ req[r].password \in Passwords
      BY <3>1 DEF IInv, Own
    <3>3. sess[req[r].key] \in Emails
      BY <3>1, <3>2 DEF IInv, TypeOK
    <3>4. w \in Book!Wish
      BY <3>2, <3>3 DEF Book!Wish, Book!Changing
    <3>5. Book!Ask(w)
      BY <2>1, <3>1 DEF Book!Ask
    <3> QED
      BY <3>4, <3>5 DEF Book!Next
  <2> QED
    BY <2>2, <2>3
<1>7. ASSUME \/ \E r \in Requests : \/ Lookup(r) \/ Match(r) \/ Set(r) \/ SetExpire(r)
                                    \/ IncrConnection(r) \/ DelSession(r)
                                    \/ Deliver(r) \/ LoseReply(r)
             \/ \E k \in Keys : Expire(k)
             \/ Restart \/ UNCHANGED vars
      PROVE  UNCHANGED <<users, wishes>>
  BY <1>7 DEF Lookup, Match, Set, SetExpire, IncrConnection, DelSession, Deliver, LoseReply,
     Expire, Restart, vars
<1> QED
  BY <1>1, <1>2, <1>3, <1>4, <1>5, <1>6, <1>7 DEF Next, Step

(* Facebook logins, password changes and mailed links do to users only what *)
(* AccountBook allows, for any number of addresses, clients and requests.   *)
THEOREM AccountsRefinement == Spec => ImplementsAccountBook
<1>1. Init => AsWished /\ Book!Init
  BY DEF Init, AsWished, Wished, Free, Book!Init
<1>2. IInv /\ AsWished /\ [Next]_vars => AsWished'
  <2> SUFFICES ASSUME IInv, AsWished, [Next]_vars PROVE AsWished'
    OBVIOUS
  <2>1. CASE \E r \in Requests : Lookup(r) \/ Authenticate(r) \/ \E c \in Clients : Start(r, c)
    BY <2>1, StartWished, LookupWished, AuthenticateWished
  <2>2. CASE ~\E r \in Requests : Lookup(r) \/ Authenticate(r) \/ \E c \in Clients : Start(r, c)
    BY <2>2, OtherWished DEF Next, Step
  <2> QED
    BY <2>1, <2>2
<1>3. IInv /\ AsWished /\ [Next]_vars => [Book!Next]_<<users, wishes>>
  BY BookStep
<1> QED
  BY <1>1, <1>2, <1>3, Strengthened, PTL DEF Spec, Book!Spec, ImplementsAccountBook

============================================================================
