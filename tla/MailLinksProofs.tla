-------------------------- MODULE MailLinksProofs --------------------------
(***************************************************************************)
(* For every set of addresses, passwords, codes and requests: MailLinks     *)
(* implements AccountBook, a mailed link's hash has a time to live, and a   *)
(* confirmation is honest.                                                  *)
(***************************************************************************)
EXTENDS MailLinks, TLAPS, FiniteSetTheorems

\* A request that is filing the hash of the code it drew, up to the mail.
Filing  == {"hmset", "expire", "mail", "mailed"}
\* A request that holds the fields it took from a hash.
Holding == {"del", "write", "nominatim", "favorite", "stat", "ok"}
\* A request that knows its account to be open.
Opened  == {"nominatim", "favorite", "stat", "ok"}

\* The code and the fields a request carries are those of one submission.
Carried ==
  \A r \in Requests :
    /\ req[r].pc = "select" => req[r].ent \in Entry
    /\ req[r].pc = "hgetall" => req[r].tok \in mailbox
    /\ req[r].pc \in Filing \cup Holding =>
         /\ req[r].tok \in Tokens
         /\ req[r].ent \in Entry
         /\ issued[req[r].tok] = req[r].ent

\* No two requests file the same code.
FiledOnce ==
  \A q, r \in Requests :
    q # r /\ req[q].pc \in Filing /\ req[r].pc \in Filing => req[q].tok # req[r].tok

\* A code is mailed after its hash has got a time to live, if it has a hash.
MailComesLast ==
  /\ \A t \in mailbox : issued[t] # None
  /\ \A r \in Requests :
       /\ req[r].pc \in {"hmset", "expire"} => req[r].tok \notin mailbox
       /\ req[r].pc = "mail" /\ pending[req[r].tok] # None => req[r].tok \in expires

\* Recovery is promised only to an address that has an account.
RecoveryHasAccount ==
  \A t \in Tokens :
    issued[t] # None /\ issued[t].kind = "recovery" => users[issued[t].email] # None

OpenedHasAccount ==
  \A r \in Requests : req[r].pc \in Opened => users[req[r].ent.email] # None

IInv == /\ TypeOK /\ HashAsSubmitted /\ MailedLinkExpires /\ HonestAnswer
        /\ Carried /\ FiledOnce /\ MailComesLast
        /\ RecoveryHasAccount /\ OpenedHasAccount

\* The process ends: every request keeps its fields, and is done.
Interrupted ==
  /\ up' \in BOOLEAN
  /\ req' \in [Requests -> RequestState]
  /\ \A q \in Requests : /\ req'[q].tok = req[q].tok
                         /\ req'[q].ent = req[q].ent
                         /\ \/ req'[q].pc = req[q].pc
                            \/ req'[q].pc \in {"cut", "threw"}

\* Request q keeps its fields, and stays, ends without a claim, or goes on
\* with the hash it holds, knowing its account if it says so.
MovesOn(q) ==
  /\ req'[q].tok = req[q].tok
  /\ req'[q].ent = req[q].ent
  /\ \/ req'[q].pc = req[q].pc
     \/ req'[q].pc \in {"err", "cut", "threw"}
     \/ /\ req[q].pc \in Holding /\ req'[q].pc \in Holding
        /\ req'[q].pc \in Opened => users'[req[q].ent.email] # None

----------------------------------------------------------------------------
(* The parts of the strengthening hold of the initial state.               *)
LEMMA InitIInv == Init => IInv
BY NoneAssumption DEF Init, IInv, TypeOK, HashAsSubmitted, MailedLinkExpires,
   HonestAnswer, Carried, FiledOnce, MailComesLast, RecoveryHasAccount,
   OpenedHasAccount, Free, RequestState, Done, Steps, Filing, Holding, Opened

(* What the control operators do to the requests.                          *)
LEMMA GotoFrame ==
  ASSUME TypeOK, NEW r \in Requests, NEW s \in Done \cup Steps, Goto(r, s)
  PROVE  /\ up' = up
         /\ req' \in [Requests -> RequestState]
         /\ req'[r].pc = s
         /\ req'[r].tok = req[r].tok
         /\ req'[r].ent = req[r].ent
         /\ \A q \in Requests : q # r => req'[q] = req[q]
BY DEF TypeOK, Goto, RequestState

LEMMA ThrowFrame ==
  ASSUME TypeOK, NEW r \in Requests, Throw(r) PROVE Interrupted
<1>1. /\ req \in [Requests -> RequestState]
      /\ {"threw", "cut"} \subseteq Done \cup Steps
      /\ up' = FALSE
  BY DEF TypeOK, Throw, Done
<1>2. DOMAIN req' = Requests /\ req' = [q \in Requests |-> req'[q]]
  BY DEF Throw
<1>3. ASSUME NEW q \in Requests
      PROVE  /\ req'[q] \in RequestState
             /\ req'[q].tok = req[q].tok
             /\ req'[q].ent = req[q].ent
             /\ req'[q].pc = req[q].pc \/ req'[q].pc \in {"cut", "threw"}
  <2>1. \/ req'[q] = [req[q] EXCEPT !.pc = "threw"]
        \/ req'[q] = req[q]
        \/ req'[q] = [req[q] EXCEPT !.pc = "cut"]
    BY Zenon DEF Throw
  <2>2. req[q] \in RequestState
    BY <1>1
  <2> QED
    BY <1>1, <2>1, <2>2 DEF RequestState
<1> QED
  BY <1>1, <1>2, <1>3 DEF Interrupted

LEMMA StopFrame == ASSUME TypeOK, Stop PROVE Interrupted
<1>1. /\ req \in [Requests -> RequestState]
      /\ "cut" \in Done \cup Steps
      /\ up' = FALSE
  BY DEF TypeOK, Stop, Done
<1>2. DOMAIN req' = Requests /\ req' = [q \in Requests |-> req'[q]]
  BY DEF Stop
<1>3. ASSUME NEW q \in Requests
      PROVE  /\ req'[q] \in RequestState
             /\ req'[q].tok = req[q].tok
             /\ req'[q].ent = req[q].ent
             /\ req'[q].pc = req[q].pc \/ req'[q].pc \in {"cut", "threw"}
  <2>1. \/ req'[q] = req[q]
        \/ req'[q] = [req[q] EXCEPT !.pc = "cut"]
    BY DEF Stop
  <2>2. req[q] \in RequestState
    BY <1>1
  <2> QED
    BY <1>1, <2>1, <2>2 DEF RequestState
<1> QED
  BY <1>1, <1>2, <1>3 DEF Interrupted

----------------------------------------------------------------------------
(* Steps after which no hash and no mail is new keep the invariant, if the  *)
(* requests move on and no account is closed.                              *)
LEMMA MovingOn ==
  ASSUME IInv, TypeOK', \A q \in Requests : MovesOn(q),
         UNCHANGED <<mailbox, issued>>,
         \A e \in Emails : users[e] # None => users'[e] # None,
         \A t \in Tokens : \/ pending'[t] = None
                           \/ pending'[t] = pending[t] /\ (t \in expires => t \in expires')
  PROVE  IInv'
<1>1. HashAsSubmitted'
  BY DEF IInv, HashAsSubmitted
<1>2. MailedLinkExpires'
  BY DEF IInv, TypeOK, MailedLinkExpires
<1>3. Carried'
  BY DEF IInv, Carried, MovesOn, Filing, Holding
<1>4. FiledOnce'
  BY DEF IInv, FiledOnce, MovesOn, Filing, Holding
<1>5. MailComesLast'
  BY DEF IInv, MailComesLast, MovesOn, Holding, Carried, Filing
<1>6. RecoveryHasAccount'
  BY DEF IInv, TypeOK, RecoveryHasAccount, Entry
<1>7. OpenedHasAccount'
  <2> SUFFICES ASSUME NEW q \in Requests, req'[q].pc \in Opened
               PROVE  users'[req'[q].ent.email] # None
    BY DEF OpenedHasAccount
  <2>1. CASE req'[q].pc = req[q].pc
    BY <2>1 DEF IInv, OpenedHasAccount, Opened, Holding, Carried, MovesOn, Entry
  <2> QED
    BY <2>1 DEF MovesOn, Opened
<1>8. HonestAnswer'
  BY <1>7 DEF IInv, HonestAnswer, OpenedHasAccount, Opened, MovesOn, Holding
<1> QED
  BY <1>1, <1>2, <1>3, <1>4, <1>5, <1>6, <1>7, <1>8 DEF IInv

(* Each step keeps the strengthened invariant.                             *)
LEMMA HmsetStep == ASSUME IInv, NEW r \in Requests, Hmset(r) PROVE IInv'
<1>1. PICK out \in Outcomes :
        /\ pending' = IF Applied(out)
                      THEN [pending EXCEPT ![req[r].tok] = req[r].ent] ELSE pending
        /\ Goto(r, IF out = "ok" THEN "expire" ELSE "err")
  BY DEF Hmset
<1> DEFINE s == IF out = "ok" THEN "expire" ELSE "err"
<1>2. s \in Done \cup Steps
  BY DEF Done, Steps
<1>3. UNCHANGED <<expires, mailbox, users, favorite, registered, issued, direct>>
  BY DEF Hmset
<1>4. /\ up' = up
      /\ req' \in [Requests -> RequestState]
      /\ req'[r].pc = s
      /\ req'[r].tok = req[r].tok
      /\ req'[r].ent = req[r].ent
      /\ \A q \in Requests : q # r => req'[q] = req[q]
  BY <1>1, <1>2, GotoFrame DEF IInv
<1>5. /\ req[r].pc = "hmset"
      /\ req[r].tok \in Tokens
      /\ req[r].tok \notin mailbox
      /\ req[r].ent \in Entry
      /\ issued[req[r].tok] = req[r].ent
  BY DEF Hmset, At, IInv, Carried, Filing, MailComesLast
<1>6. TypeOK'
  BY <1>1, <1>3, <1>4, <1>5 DEF IInv, TypeOK
<1>7. HashAsSubmitted'
  BY <1>1, <1>3, <1>5 DEF IInv, TypeOK, HashAsSubmitted
<1>8. MailedLinkExpires'
  BY <1>1, <1>3, <1>5 DEF IInv, TypeOK, MailedLinkExpires
<1>9. HonestAnswer' /\ OpenedHasAccount' /\ RecoveryHasAccount'
  BY <1>3, <1>4 DEF IInv, HonestAnswer, OpenedHasAccount, RecoveryHasAccount, Opened
<1>10. Carried'
  BY <1>3, <1>4, <1>5 DEF IInv, Carried, Filing, Holding
<1>11. FiledOnce'
  BY <1>4, <1>5 DEF IInv, FiledOnce, Filing
<1>12. MailComesLast'
  BY <1>1, <1>3, <1>4, <1>5 DEF IInv, TypeOK, MailComesLast, FiledOnce, Filing
<1> QED
  BY <1>6, <1>7, <1>8, <1>9, <1>10, <1>11, <1>12 DEF IInv

LEMMA PostStep ==
  ASSUME IInv, NEW r \in Requests, NEW form \in Entry, Post(r, form) PROVE IInv'
<1>1. /\ UNCHANGED <<up, pending, expires, mailbox, users, favorite, registered, issued, direct>>
      /\ req' \in [Requests -> RequestState]
      /\ req'[r].pc = "select" /\ req'[r].ent = form
      /\ \A q \in Requests : q # r => req'[q] = req[q]
  BY DEF Post, stores, IInv, TypeOK, RequestState, Done, Steps
<1>2. TypeOK' /\ HashAsSubmitted' /\ MailedLinkExpires' /\ RecoveryHasAccount'
  BY <1>1 DEF IInv, TypeOK, HashAsSubmitted, MailedLinkExpires, RecoveryHasAccount
<1>3. HonestAnswer' /\ OpenedHasAccount'
  BY <1>1 DEF IInv, HonestAnswer, OpenedHasAccount, Opened
<1>4. Carried'
  BY <1>1 DEF IInv, Carried, Filing, Holding
<1>5. FiledOnce' /\ MailComesLast'
  BY <1>1 DEF IInv, FiledOnce, MailComesLast, Filing
<1> QED
  BY <1>2, <1>3, <1>4, <1>5 DEF IInv

LEMMA FollowStep ==
  ASSUME IInv, NEW r \in Requests, NEW t \in Tokens, Follow(r, t) PROVE IInv'
<1>1. /\ UNCHANGED <<up, pending, expires, mailbox, users, favorite, registered, issued, direct>>
      /\ req' \in [Requests -> RequestState]
      /\ req'[r].pc = "hgetall" /\ req'[r].tok = t
      /\ t \in mailbox
      /\ \A q \in Requests : q # r => req'[q] = req[q]
  BY DEF Follow, stores, IInv, TypeOK, RequestState, Done, Steps
<1>2. TypeOK' /\ HashAsSubmitted' /\ MailedLinkExpires' /\ RecoveryHasAccount'
  BY <1>1 DEF IInv, TypeOK, HashAsSubmitted, MailedLinkExpires, RecoveryHasAccount
<1>3. HonestAnswer' /\ OpenedHasAccount'
  BY <1>1 DEF IInv, HonestAnswer, OpenedHasAccount, Opened
<1>4. Carried'
  BY <1>1 DEF IInv, Carried, Filing, Holding
<1>5. FiledOnce' /\ MailComesLast'
  BY <1>1 DEF IInv, FiledOnce, MailComesLast, Filing
<1> QED
  BY <1>2, <1>3, <1>4, <1>5 DEF IInv

(* A request that is refused only moves on.                                *)
LEMMA RefusedStep ==
  ASSUME IInv, NEW r \in Requests, Goto(r, "err") \/ Throw(r),
         UNCHANGED <<favorite, registered, mailbox, issued, direct>>,
         users' \in [Emails -> Passwords \cup {None}],
         pending' \in [Tokens -> Entry \cup {None}],
         expires' \in SUBSET Tokens,
         \A e \in Emails : users[e] # None => users'[e] # None,
         \A t \in Tokens : \/ pending'[t] = None
                           \/ pending'[t] = pending[t] /\ (t \in expires => t \in expires')
  PROVE  IInv'
<1>1. /\ up' \in BOOLEAN
      /\ req' \in [Requests -> RequestState]
      /\ \A q \in Requests : MovesOn(q)
  <2>1. CASE Goto(r, "err")
    BY <2>1, GotoFrame DEF IInv, TypeOK, MovesOn, Done
  <2>2. CASE Throw(r)
    BY <2>2, ThrowFrame DEF IInv, Interrupted, MovesOn
  <2> QED
    BY <2>1, <2>2
<1>2. TypeOK'
  BY <1>1 DEF IInv, TypeOK
<1> QED
  BY <1>1, <1>2, MovingOn

LEMMA SelectStep == ASSUME IInv, NEW r \in Requests, Select(r) PROVE IInv'
<1>1. UNCHANGED <<pending, expires, mailbox, users, favorite, registered, direct>>
  BY DEF Select, stores
<1>2. CASE Goto(r, "err") /\ UNCHANGED issued
  BY <1>1, <1>2, RefusedStep DEF IInv, TypeOK
<1>3. CASE ~(Goto(r, "err") /\ UNCHANGED issued)
  <2>1. PICK t \in Tokens :
          /\ Acceptable(req[r].ent)
          /\ issued[t] = None
          /\ issued' = [issued EXCEPT ![t] = req[r].ent]
          /\ req' = [req EXCEPT ![r].pc = "hmset", ![r].tok = t]
          /\ UNCHANGED up
    BY <1>3 DEF Select
  <2>2. req[r].pc = "select" /\ req[r].ent \in Entry
    BY DEF Select, At, IInv, Carried
  <2>3. /\ req' \in [Requests -> RequestState]
        /\ req'[r].pc = "hmset" /\ req'[r].tok = t /\ req'[r].ent = req[r].ent
        /\ \A q \in Requests : q # r => req'[q] = req[q]
    BY <2>1 DEF IInv, TypeOK, RequestState, Done, Steps
  <2>4. /\ issued' \in [Tokens -> Entry \cup {None}]
        /\ issued'[t] = req[r].ent
        /\ \A u \in Tokens : u # t => issued'[u] = issued[u]
    BY <2>1, <2>2 DEF IInv, TypeOK
  <2>5. /\ t \notin mailbox /\ pending[t] = None
        /\ \A q \in Requests : req[q].pc \in Filing \cup Holding => req[q].tok # t
    BY <2>1, NoneAssumption DEF IInv, MailComesLast, HashAsSubmitted, Carried
  <2>6. TypeOK'
    BY <1>1, <2>1, <2>3, <2>4 DEF IInv, TypeOK
  <2>7. HashAsSubmitted' /\ MailedLinkExpires'
    BY <1>1, <2>4, <2>5 DEF IInv, TypeOK, HashAsSubmitted, MailedLinkExpires
  <2>8. HonestAnswer' /\ OpenedHasAccount'
    BY <1>1, <2>3 DEF IInv, HonestAnswer, OpenedHasAccount, Opened
  <2>9. Carried'
    BY <1>1, <2>2, <2>3, <2>4, <2>5 DEF IInv, Carried, Filing, Holding
  <2>10. FiledOnce'
    BY <2>3, <2>5 DEF IInv, FiledOnce
  <2>11. MailComesLast'
    BY <1>1, <2>2, <2>3, <2>4, <2>5, NoneAssumption DEF IInv, TypeOK, MailComesLast
  <2>12. RecoveryHasAccount'
    BY <1>1, <2>1, <2>4 DEF IInv, RecoveryHasAccount, Acceptable
  <2> QED
    BY <2>6, <2>7, <2>8, <2>9, <2>10, <2>11, <2>12 DEF IInv
<1> QED
  BY <1>2, <1>3

LEMMA SetExpireStep == ASSUME IInv, NEW r \in Requests, SetExpire(r) PROVE IInv'
<1>1. PICK out \in Outcomes :
        /\ expires' = IF Applied(out) /\ pending[req[r].tok] # None
                      THEN expires \cup {req[r].tok} ELSE expires
        /\ Goto(r, IF out = "ok" THEN "mail" ELSE "err")
  BY DEF SetExpire
<1> DEFINE s == IF out = "ok" THEN "mail" ELSE "err"
<1>2. s \in Done \cup Steps
  BY DEF Done, Steps
<1>3. UNCHANGED <<pending, mailbox, users, favorite, registered, issued, direct>>
  BY DEF SetExpire
<1>4. /\ up' = up
      /\ req' \in [Requests -> RequestState]
      /\ req'[r].pc = s
      /\ req'[r].tok = req[r].tok
      /\ req'[r].ent = req[r].ent
      /\ \A q \in Requests : q # r => req'[q] = req[q]
  BY <1>1, <1>2, GotoFrame DEF IInv
<1>5. /\ req[r].pc = "expire"
      /\ req[r].tok \in Tokens
      /\ req[r].ent \in Entry
      /\ issued[req[r].tok] = req[r].ent
  BY DEF SetExpire, At, IInv, Carried, Filing
<1>6. TypeOK' /\ HashAsSubmitted' /\ MailedLinkExpires'
  BY <1>1, <1>3, <1>4, <1>5 DEF IInv, TypeOK, HashAsSubmitted, MailedLinkExpires
<1>7. HonestAnswer' /\ OpenedHasAccount' /\ RecoveryHasAccount'
  BY <1>3, <1>4 DEF IInv, HonestAnswer, OpenedHasAccount, RecoveryHasAccount, Opened
<1>8. Carried'
  BY <1>3, <1>4, <1>5 DEF IInv, Carried, Filing, Holding
<1>9. FiledOnce'
  BY <1>4, <1>5 DEF IInv, FiledOnce, Filing
<1>10. MailComesLast'
  BY <1>1, <1>3, <1>4, <1>5 DEF IInv, MailComesLast, Applied
<1> QED
  BY <1>6, <1>7, <1>8, <1>9, <1>10 DEF IInv

LEMMA SendMailStep == ASSUME IInv, NEW r \in Requests, SendMail(r) PROVE IInv'
<1>1. PICK out \in Outcomes :
        /\ mailbox' = IF Applied(out) THEN mailbox \cup {req[r].tok} ELSE mailbox
        /\ Goto(r, IF out = "ok" THEN "mailed" ELSE "err")
  BY DEF SendMail
<1> DEFINE s == IF out = "ok" THEN "mailed" ELSE "err"
<1>2. s \in Done \cup Steps
  BY DEF Done
<1>3. UNCHANGED <<pending, expires, users, favorite, registered, issued, direct>>
  BY DEF SendMail
<1>4. /\ up' = up
      /\ req' \in [Requests -> RequestState]
      /\ req'[r].pc = s
      /\ req'[r].tok = req[r].tok
      /\ req'[r].ent = req[r].ent
      /\ \A q \in Requests : q # r => req'[q] = req[q]
  BY <1>1, <1>2, GotoFrame DEF IInv
<1>5. /\ req[r].pc = "mail"
      /\ req[r].tok \in Tokens
      /\ req[r].ent \in Entry
      /\ issued[req[r].tok] = req[r].ent
  BY DEF SendMail, At, IInv, Carried, Filing
<1>6. TypeOK' /\ HashAsSubmitted'
  BY <1>1, <1>3, <1>4, <1>5 DEF IInv, TypeOK, HashAsSubmitted
<1>7. MailedLinkExpires'
  BY <1>1, <1>3, <1>5 DEF IInv, MailedLinkExpires, MailComesLast
<1>8. HonestAnswer' /\ OpenedHasAccount' /\ RecoveryHasAccount'
  BY <1>1, <1>3, <1>4 DEF IInv, HonestAnswer, OpenedHasAccount, RecoveryHasAccount,
     Opened, Applied
<1>9. Carried'
  BY <1>1, <1>3, <1>4, <1>5 DEF IInv, Carried, Filing, Holding
<1>10. FiledOnce'
  BY <1>4, <1>5 DEF IInv, FiledOnce, Filing
<1>11. MailComesLast'
  BY <1>1, <1>3, <1>4, <1>5, NoneAssumption DEF IInv, MailComesLast, FiledOnce, Filing
<1> QED
  BY <1>6, <1>7, <1>8, <1>9, <1>10, <1>11 DEF IInv

LEMMA HgetallStep == ASSUME IInv, NEW r \in Requests, Hgetall(r) PROVE IInv'
<1>1. UNCHANGED <<pending, expires, mailbox, users, favorite, registered, issued, direct>>
  BY DEF Hgetall, stores
<1>2. CASE Goto(r, "err") \/ Throw(r)
  BY <1>1, <1>2, RefusedStep DEF IInv, TypeOK
<1>3. CASE ~(Goto(r, "err") \/ Throw(r))
  <2> DEFINE t == req[r].tok
  <2>1. /\ pending[t] # None
        /\ req' = [req EXCEPT ![r].pc = "del", ![r].ent = pending[t]]
        /\ UNCHANGED up
    BY <1>3 DEF Hgetall
  <2>2. req[r].pc = "hgetall" /\ t \in mailbox /\ t \in Tokens
    BY DEF Hgetall, At, IInv, Carried, TypeOK
  <2>3. pending[t] \in Entry /\ pending[t] = issued[t]
    BY <2>1, <2>2 DEF IInv, TypeOK, HashAsSubmitted
  <2>4. /\ req' \in [Requests -> RequestState]
        /\ req'[r].pc = "del" /\ req'[r].tok = t /\ req'[r].ent = pending[t]
        /\ \A q \in Requests : q # r => req'[q] = req[q]
    BY <2>1, <2>3 DEF IInv, TypeOK, RequestState, Done, Steps
  <2>5. TypeOK' /\ HashAsSubmitted' /\ MailedLinkExpires' /\ RecoveryHasAccount'
    BY <1>1, <2>1, <2>4 DEF IInv, TypeOK, HashAsSubmitted, MailedLinkExpires,
       RecoveryHasAccount
  <2>6. HonestAnswer' /\ OpenedHasAccount'
    BY <1>1, <2>4 DEF IInv, HonestAnswer, OpenedHasAccount, Opened
  <2>7. Carried'
    BY <1>1, <2>2, <2>3, <2>4 DEF IInv, Carried, Filing, Holding
  <2>8. FiledOnce' /\ MailComesLast'
    BY <1>1, <2>4 DEF IInv, FiledOnce, MailComesLast, Filing
  <2> QED
    BY <2>5, <2>6, <2>7, <2>8 DEF IInv
<1> QED
  BY <1>2, <1>3

(* A request that holds a hash goes on with it.                            *)
LEMMA HoldingStep ==
  ASSUME IInv, NEW r \in Requests, NEW s \in Holding, Goto(r, s),
         req[r].pc \in Holding,
         s \in Opened => users'[req[r].ent.email] # None,
         UNCHANGED <<mailbox, issued, direct>>,
         users' \in [Emails -> Passwords \cup {None}],
         pending' \in [Tokens -> Entry \cup {None}],
         expires' \in SUBSET Tokens,
         favorite' \in SUBSET Emails, registered' \in Nat,
         \A e \in Emails : users[e] # None => users'[e] # None,
         \A t \in Tokens : \/ pending'[t] = None
                           \/ pending'[t] = pending[t] /\ (t \in expires => t \in expires')
  PROVE  IInv'
<1>1. s \in Done \cup Steps
  BY DEF Holding, Done, Steps
<1>2. /\ up' = up
      /\ req' \in [Requests -> RequestState]
      /\ \A q \in Requests : MovesOn(q)
  BY <1>1, GotoFrame DEF IInv, MovesOn
<1>3. TypeOK'
  BY <1>2 DEF IInv, TypeOK
<1> QED
  BY <1>2, <1>3, MovingOn

LEMMA DelStep == ASSUME IInv, NEW r \in Requests, Del(r) PROVE IInv'
<1>1. PICK out \in Outcomes :
        /\ IF Applied(out)
           THEN /\ pending' = [pending EXCEPT ![req[r].tok] = None]
                /\ expires' = expires \ {req[r].tok}
           ELSE UNCHANGED <<pending, expires>>
        /\ IF out = "ok" THEN Goto(r, "write") ELSE Refuse(r)
  BY DEF Del
<1>2. UNCHANGED <<mailbox, users, favorite, registered, issued, direct>>
  BY DEF Del
<1>3. req[r].pc = "del" /\ req[r].tok \in Tokens
  BY DEF Del, At, IInv, Carried, Holding
<1>4. /\ pending' \in [Tokens -> Entry \cup {None}]
      /\ expires' \in SUBSET Tokens
      /\ \A t \in Tokens : \/ pending'[t] = None
                           \/ pending'[t] = pending[t] /\ (t \in expires => t \in expires')
  BY <1>1, <1>3 DEF IInv, TypeOK
<1>5. CASE out = "ok"
  <2>1. Goto(r, "write") /\ "write" \in Holding /\ "write" \notin Opened /\ "del" \in Holding
    BY <1>1, <1>5 DEF Holding, Opened
  <2> QED
    BY <1>2, <1>3, <1>4, <2>1, HoldingStep DEF IInv, TypeOK
<1>6. CASE out # "ok"
  <2>1. Goto(r, "err") \/ Throw(r)
    BY <1>1, <1>6 DEF Refuse
  <2> QED
    BY <1>2, <1>4, <2>1, RefusedStep DEF IInv, TypeOK
<1> QED
  BY <1>5, <1>6

LEMMA InsertStep == ASSUME IInv, NEW r \in Requests, Insert(r) PROVE IInv'
<1> DEFINE e == req[r].ent.email
<1>1. PICK out \in Outcomes :
        /\ IF Applied(out) /\ users[e] = None
           THEN users' = [users EXCEPT ![e] = req[r].ent.password]
           ELSE UNCHANGED users
        /\ Goto(r, IF out # "ok" \/ users[e] # None THEN "err"
                   ELSE IF e \in WithAddress THEN "nominatim" ELSE "stat")
  BY DEF Insert
<1>2. UNCHANGED <<pending, expires, mailbox, favorite, registered, issued, direct>>
  BY DEF Insert
<1>3. /\ req[r].pc = "write" /\ "write" \in Holding
      /\ req[r].ent \in Entry
      /\ e \in Emails /\ req[r].ent.password \in Passwords
  BY DEF Insert, At, IInv, Carried, Holding, Entry
<1>4. /\ users' \in [Emails -> Passwords \cup {None}]
      /\ \A f \in Emails : users[f] # None => users'[f] # None
  BY <1>1, <1>3, NoneAssumption DEF IInv, TypeOK
<1>5. CASE out # "ok" \/ users[e] # None
  BY <1>1, <1>2, <1>4, <1>5, RefusedStep DEF IInv, TypeOK
<1>6. CASE ~(out # "ok" \/ users[e] # None)
  <2>1. users'[e] # None
    BY <1>1, <1>3, <1>6, NoneAssumption DEF IInv, TypeOK, Applied
  <2>2. PICK s \in {"nominatim", "stat"} : Goto(r, s)
    BY <1>1, <1>6
  <2>3. s \in Holding
    BY DEF Holding
  <2> QED
    BY <1>2, <1>3, <1>4, <2>1, <2>2, <2>3, HoldingStep DEF IInv, TypeOK
<1> QED
  BY <1>5, <1>6

LEMMA UpdateStep == ASSUME IInv, NEW r \in Requests, Update(r) PROVE IInv'
<1> DEFINE e == req[r].ent.email
<1>1. PICK out \in Outcomes :
        /\ IF Applied(out) /\ users[e] # None
           THEN users' = [users EXCEPT ![e] = req[r].ent.password]
           ELSE UNCHANGED users
        /\ IF out = "ok" THEN Goto(r, "ok") ELSE Refuse(r)
  BY DEF Update
<1>2. UNCHANGED <<pending, expires, mailbox, favorite, registered, issued, direct>>
  BY DEF Update
<1>3. /\ req[r].pc = "write" /\ "write" \in Holding
      /\ req[r].tok \in Tokens /\ req[r].ent \in Entry
      /\ issued[req[r].tok] = req[r].ent
      /\ e \in Emails /\ req[r].ent.password \in Passwords
  BY DEF Update, At, IInv, Carried, Holding, Entry
<1>4. /\ users' \in [Emails -> Passwords \cup {None}]
      /\ \A f \in Emails : users[f] # None => users'[f] # None
  BY <1>1, <1>3, NoneAssumption DEF IInv, TypeOK
<1>5. CASE out = "ok"
  <2>1. users[e] # None
    BY <1>3, NoneAssumption DEF Update, IInv, RecoveryHasAccount
  <2>2. Goto(r, "ok") /\ "ok" \in Holding
    BY <1>1, <1>5 DEF Holding
  <2> QED
    BY <1>2, <1>3, <1>4, <2>1, <2>2, HoldingStep DEF IInv, TypeOK
<1>6. CASE out # "ok"
  <2>1. Goto(r, "err") \/ Throw(r)
    BY <1>1, <1>6 DEF Refuse
  <2> QED
    BY <1>2, <1>4, <2>1, RefusedStep DEF IInv, TypeOK
<1> QED
  BY <1>5, <1>6

(* The steps after the INSERT: the account is there already.               *)
LEMMA AfterInsertStep ==
  ASSUME IInv, NEW r \in Requests,
         Nominatim(r) \/ InsertFavorite(r) \/ IncrRegistration(r)
  PROVE  IInv'
<1>1. UNCHANGED <<pending, expires, mailbox, users, issued, direct>>
  BY DEF Nominatim, InsertFavorite, IncrRegistration, stores
<1>2. /\ req[r].pc \in {"nominatim", "favorite", "stat"}
      /\ req[r].pc \in Holding
      /\ req[r].ent \in Entry
      /\ users[req[r].ent.email] # None
  BY DEF Nominatim, InsertFavorite, IncrRegistration, At, IInv, Carried, Holding,
     OpenedHasAccount, Opened
<1>3. favorite' \in SUBSET Emails /\ registered' \in Nat
  BY <1>2 DEF Nominatim, InsertFavorite, IncrRegistration, IInv, TypeOK, Entry, stores
<1>4. PICK s \in {"favorite", "stat", "ok", "err"} : Goto(r, s)
  BY DEF Nominatim, InsertFavorite, IncrRegistration
<1>5. s \in Done \cup Steps
  BY DEF Done, Steps
<1>6. /\ up' = up
      /\ req' \in [Requests -> RequestState]
      /\ \A q \in Requests : MovesOn(q)
  BY <1>1, <1>2, <1>4, <1>5, GotoFrame DEF IInv, MovesOn, Holding
<1>7. TypeOK'
  BY <1>1, <1>3, <1>6 DEF IInv, TypeOK
<1> QED
  BY <1>1, <1>6, <1>7, MovingOn

LEMMA WorldStep ==
  ASSUME IInv,
         \/ \E t \in Tokens : Expire(t)
         \/ \E w \in Direct : AskDirect(w) \/ WriteDirect(w)
         \/ Stop \/ Start \/ UNCHANGED vars
  PROVE  IInv'
<1>1. CASE \E t \in Tokens : Expire(t)
  <2>1. TypeOK' /\ UNCHANGED <<mailbox, issued, users, req>>
    BY <1>1 DEF Expire, IInv, TypeOK
  <2>2. \A t \in Tokens : \/ pending'[t] = None
                          \/ pending'[t] = pending[t] /\ (t \in expires => t \in expires')
    BY <1>1 DEF Expire, IInv, TypeOK
  <2> QED
    BY <2>1, <2>2, MovingOn DEF MovesOn
<1>2. CASE \E w \in Direct : AskDirect(w) \/ WriteDirect(w)
  <2>1. TypeOK' /\ UNCHANGED <<pending, expires, mailbox, issued, req>>
    BY <1>2 DEF AskDirect, WriteDirect, IInv, TypeOK, Direct, stores
  <2>2. \A e \in Emails : users[e] # None => users'[e] # None
    BY <1>2, NoneAssumption DEF AskDirect, WriteDirect, IInv, TypeOK, Direct, stores
  <2> QED
    BY <2>1, <2>2, MovingOn DEF MovesOn
<1>3. CASE Stop
  <2>1. Interrupted /\ UNCHANGED <<stores, issued, direct>>
    BY <1>3, StopFrame DEF Stop, IInv
  <2>2. TypeOK' /\ UNCHANGED <<pending, expires, mailbox, users, issued>>
    BY <2>1 DEF IInv, TypeOK, Interrupted, stores
  <2>3. \A q \in Requests : MovesOn(q)
    BY <2>1 DEF Interrupted, MovesOn
  <2> QED
    BY <2>2, <2>3, MovingOn
<1>4. CASE Start \/ UNCHANGED vars
  <2>1. TypeOK' /\ UNCHANGED <<pending, expires, mailbox, users, issued, req>>
    BY <1>4 DEF Start, vars, stores, IInv, TypeOK
  <2> QED
    BY <2>1, MovingOn DEF MovesOn
<1> QED
  BY <1>1, <1>2, <1>3, <1>4

----------------------------------------------------------------------------
(* The strengthened invariant holds in every reachable state.              *)
THEOREM Strengthened == Spec => []IInv
<1>1. IInv /\ [Next]_vars => IInv'
  <2> SUFFICES ASSUME IInv, [Next]_vars PROVE IInv'
    OBVIOUS
  <2>1. CASE \E r \in Requests : \/ \E form \in Entry : Post(r, form)
                                 \/ \E t \in Tokens : Follow(r, t)
    BY <2>1, PostStep, FollowStep
  <2>2. CASE \E r \in Requests : Step(r) \/ Nominatim(r)
    BY <2>2, SelectStep, HmsetStep, SetExpireStep, SendMailStep, HgetallStep, DelStep,
       InsertStep, UpdateStep, AfterInsertStep DEF Step
  <2>3. CASE \/ \E t \in Tokens : Expire(t)
             \/ \E w \in Direct : AskDirect(w) \/ WriteDirect(w)
             \/ Stop \/ Start \/ UNCHANGED vars
    BY <2>3, WorldStep
  <2> QED
    BY <2>1, <2>2, <2>3 DEF Next
<1> QED
  BY <1>1, InitIInv, PTL DEF Spec

(* Type correctness of the whole module.                                   *)
THEOREM TypeCorrect == Spec => []TypeOK
BY Strengthened, PTL DEF IInv

(* A hash whose link is mailed always has a time to live, for any number of *)
(* requests and codes (requete.js:184-200 with registration.js:87-90).      *)
THEOREM LinksExpire == Spec => []MailedLinkExpires
BY Strengthened, PTL DEF IInv

(* A confirmation is honest, whatever runs beside the request.             *)
THEOREM AnswersAreHonest == Spec => []HonestAnswer
BY Strengthened, PTL DEF IInv

----------------------------------------------------------------------------
(* MailLinks implements AccountBook: the wishes are the fields for which a  *)
(* code was drawn and what other routes were asked.                        *)

LEMMA BookInit == Init => Book!Init
<1> SUFFICES ASSUME Init PROVE Book!Init
  OBVIOUS
<1>1. Submitted = {} /\ direct = {}
  BY DEF Init, Submitted
<1> QED
  BY <1>1 DEF Init, Book!Init

\* Fields that are carried are among the wishes.
LEMMA CarriedIsWish ==
  ASSUME IInv, NEW r \in Requests, req[r].pc = "write"
  PROVE  req[r].ent \in Submitted /\ req[r].ent \in Book!Wish /\ req[r].ent \in Entry
<1>1. req[r].tok \in Tokens /\ req[r].ent \in Entry /\ issued[req[r].tok] = req[r].ent
  BY DEF IInv, Carried, Holding
<1>2. req[r].ent # None
  BY <1>1, NoneAssumption
<1> QED
  BY <1>1, <1>2 DEF Submitted, Entry, Kinds, Book!Wish, Book!Opening, Book!Changing

\* A step that draws no code and leaves users and direct alone is a stutter.
LEMMA BookStutter ==
  ASSUME UNCHANGED <<users, issued, direct>>
  PROVE  UNCHANGED <<users, Submitted \cup direct>>
BY DEF Submitted

LEMMA BookSelect ==
  ASSUME IInv, NEW r \in Requests, Select(r)
  PROVE  [Book!Next]_<<users, Submitted \cup direct>>
<1>1. CASE UNCHANGED issued
  BY <1>1, BookStutter DEF Select, stores
<1>2. CASE ~UNCHANGED issued
  <2>1. PICK t \in Tokens :
          issued[t] = None /\ issued' = [issued EXCEPT ![t] = req[r].ent]
    BY <1>2 DEF Select
  <2>2. req[r].ent \in Entry /\ req[r].ent # None
    BY NoneAssumption DEF Select, At, IInv, Carried
  <2>3. UNCHANGED <<users, direct>>
    BY DEF Select, stores
  <2>4. Submitted' = Submitted \cup {req[r].ent}
    BY <2>1, <2>2 DEF IInv, TypeOK, Submitted
  <2>5. Book!Ask(req[r].ent)
    BY <2>3, <2>4 DEF Book!Ask
  <2>6. req[r].ent \in Book!Wish
    BY <2>2 DEF Entry, Kinds, Book!Wish, Book!Opening, Book!Changing
  <2> QED
    BY <2>5, <2>6 DEF Book!Next
<1> QED
  BY <1>1, <1>2

LEMMA BookInsert ==
  ASSUME IInv, NEW r \in Requests, Insert(r)
  PROVE  [Book!Next]_<<users, Submitted \cup direct>>
<1> DEFINE w == req[r].ent
<1>1. req[r].pc = "write" /\ w.kind = "registration" /\ UNCHANGED <<issued, direct>>
  BY DEF Insert, At
<1>2. w \in Submitted /\ w \in Book!Wish
  BY <1>1, CarriedIsWish
<1>3. UNCHANGED (Submitted \cup direct)
  BY <1>1 DEF Submitted
<1>4. CASE UNCHANGED users
  BY <1>3, <1>4
<1>5. CASE ~UNCHANGED users
  <2>1. users[w.email] = None /\ users' = [users EXCEPT ![w.email] = w.password]
    BY <1>5 DEF Insert
  <2>2. Book!Open(w)
    BY <1>1, <1>2, <1>3, <2>1 DEF Book!Open, Book!Opening
  <2> QED
    BY <1>2, <2>2 DEF Book!Next
<1> QED
  BY <1>4, <1>5

LEMMA BookUpdate ==
  ASSUME IInv, NEW r \in Requests, Update(r)
  PROVE  [Book!Next]_<<users, Submitted \cup direct>>
<1> DEFINE w == req[r].ent
<1>1. req[r].pc = "write" /\ w.kind = "recovery" /\ UNCHANGED <<issued, direct>>
  BY DEF Update, At
<1>2. w \in Submitted /\ w \in Book!Wish
  BY <1>1, CarriedIsWish
<1>3. UNCHANGED (Submitted \cup direct)
  BY <1>1 DEF Submitted
<1>4. CASE UNCHANGED users
  BY <1>3, <1>4
<1>5. CASE ~UNCHANGED users
  <2>1. users[w.email] # None /\ users' = [users EXCEPT ![w.email] = w.password]
    BY <1>5 DEF Update
  <2>2. Book!Change(w)
    BY <1>1, <1>2, <1>3, <2>1 DEF Book!Change, Book!Changing
  <2> QED
    BY <1>2, <2>2 DEF Book!Next
<1> QED
  BY <1>4, <1>5

LEMMA BookDirect ==
  ASSUME IInv, NEW w \in Direct, AskDirect(w) \/ WriteDirect(w)
  PROVE  [Book!Next]_<<users, Submitted \cup direct>>
<1>1. w \in Book!Wish
  BY DEF Direct, Book!Wish, Book!Opening, Book!Changing
<1>2. CASE AskDirect(w)
  <2>1. Book!Ask(w)
    BY <1>2 DEF AskDirect, stores, Book!Ask, Submitted
  <2> QED
    BY <1>1, <2>1 DEF Book!Next
<1>3. CASE WriteDirect(w)
  <2>1. UNCHANGED (Submitted \cup direct)
    BY <1>3 DEF WriteDirect, Submitted
  <2>2. CASE w.kind = "facebook"
    BY <1>1, <1>3, <2>1, <2>2 DEF WriteDirect, Book!Next, Book!Open, Book!Opening
  <2>3. CASE w.kind = "account"
    BY <1>1, <1>3, <2>1, <2>3 DEF WriteDirect, Book!Next, Book!Change, Book!Changing
  <2> QED
    BY <2>2, <2>3 DEF Direct
<1> QED
  BY <1>2, <1>3

(* The table of accounts does only what AccountBook allows: a row appears   *)
(* once, by a wish to open it, and changes by a wish to change it.          *)
THEOREM Refinement == Spec => ImplementsAccountBook
<1>1. IInv /\ [Next]_vars => [Book!Next]_<<users, Submitted \cup direct>>
  <2> SUFFICES ASSUME IInv, [Next]_vars
               PROVE  [Book!Next]_<<users, Submitted \cup direct>>
    OBVIOUS
  <2>1. CASE \E r \in Requests : Select(r) \/ Insert(r) \/ Update(r)
    BY <2>1, BookSelect, BookInsert, BookUpdate
  <2>2. CASE \E w \in Direct : AskDirect(w) \/ WriteDirect(w)
    BY <2>2, BookDirect
  <2>3. CASE UNCHANGED <<users, issued, direct>>
    BY <2>3, BookStutter
  <2>4. ASSUME NEW r \in Requests,
               \/ \E form \in Entry : Post(r, form)
               \/ \E t \in Tokens : Follow(r, t)
               \/ Hmset(r) \/ SetExpire(r) \/ SendMail(r) \/ Hgetall(r) \/ Del(r)
               \/ Nominatim(r) \/ InsertFavorite(r) \/ IncrRegistration(r)
        PROVE  UNCHANGED <<users, issued, direct>>
    BY <2>4 DEF Post, Follow, Hmset, SetExpire, SendMail, Hgetall, Del, Nominatim,
       InsertFavorite, IncrRegistration, stores
  <2>5. ASSUME \/ \E t \in Tokens : Expire(t)
               \/ Stop \/ Start \/ UNCHANGED vars
        PROVE  UNCHANGED <<users, issued, direct>>
    BY <2>5 DEF Expire, Stop, Start, vars, stores
  <2> QED
    BY <2>1, <2>2, <2>3, <2>4, <2>5 DEF Next, Step
<1> QED
  BY <1>1, BookInit, Strengthened, PTL DEF Spec, Book!Spec, ImplementsAccountBook

----------------------------------------------------------------------------
(* stats:registration against the accounts.                                *)

\* The requests that have opened an account and have not counted it yet.
Counting == {r \in Requests : req[r].pc \in {"nominatim", "favorite", "stat"}}
Accounts == {e \in Emails : users[e] # None}

\* An account that was opened was counted at most once, or is about to be.
CountedHeld == registered + Cardinality(Counting) <= Cardinality(Accounts)

(* Both sets are finite, and so is whatever is in them.                    *)
LEMMA CountingFinite ==
  /\ IsFiniteSet(Counting) /\ Cardinality(Counting) \in Nat
  /\ IsFiniteSet(Accounts) /\ Cardinality(Accounts) \in Nat
  /\ IsFiniteSet(Counting') /\ Cardinality(Counting') \in Nat
  /\ IsFiniteSet(Accounts') /\ Cardinality(Accounts') \in Nat
<1>1. /\ Counting \subseteq Requests /\ Accounts \subseteq Emails
      /\ Counting' \subseteq Requests /\ Accounts' \subseteq Emails
  BY DEF Counting, Accounts
<1> QED
  BY <1>1, FinitenessAssumption, FS_Subset, FS_CardinalityType

(* A step by which nobody starts counting and no account is closed.        *)
LEMMA NobodyCounts ==
  ASSUME IInv, CountedHeld, UNCHANGED registered,
         Counting' \subseteq Counting, Accounts \subseteq Accounts'
  PROVE  CountedHeld'
<1>1. /\ Cardinality(Counting') <= Cardinality(Counting)
      /\ Cardinality(Accounts) <= Cardinality(Accounts')
  BY CountingFinite, FS_Subset
<1>2. registered \in Nat
  BY DEF IInv, TypeOK
<1> QED
  BY <1>1, <1>2, CountingFinite DEF CountedHeld

(* INSERT opens one account and lets one request count it; a refusal of the *)
(* primary key, or an error, lets none.                                     *)
LEMMA InsertCounted ==
  ASSUME IInv, CountedHeld, NEW r \in Requests, Insert(r) PROVE CountedHeld'
<1> DEFINE e == req[r].ent.email
<1>1. PICK out \in Outcomes :
        /\ IF Applied(out) /\ users[e] = None
           THEN users' = [users EXCEPT ![e] = req[r].ent.password]
           ELSE UNCHANGED users
        /\ Goto(r, IF out # "ok" \/ users[e] # None THEN "err"
                   ELSE IF e \in WithAddress THEN "nominatim" ELSE "stat")
  BY DEF Insert
<1> DEFINE s == IF out # "ok" \/ users[e] # None THEN "err"
                ELSE IF e \in WithAddress THEN "nominatim" ELSE "stat"
<1>2. /\ req[r].pc = "write" /\ UNCHANGED registered
      /\ e \in Emails /\ req[r].ent.password \in Passwords
  BY DEF Insert, At, IInv, Carried, Holding, Entry
<1>3. s \in Done \cup Steps
  BY DEF Done, Steps
<1>4. req'[r].pc = s /\ \A q \in Requests : q # r => req'[q] = req[q]
  BY <1>1, <1>3, GotoFrame DEF IInv
<1>5. req[r].ent.password # None
  BY <1>2, NoneAssumption
<1>6. users \in [Emails -> Passwords \cup {None}]
  BY DEF IInv, TypeOK
<1>7. CASE s = "err"
  <2>1. Counting' \subseteq Counting
    BY <1>4, <1>7 DEF Counting
  <2>2. \A d \in Emails : users[d] # None => users'[d] # None
    BY <1>1, <1>5, <1>6
  <2>3. Accounts \subseteq Accounts'
    BY <2>2 DEF Accounts
  <2> QED
    BY <1>2, <2>1, <2>3, NobodyCounts
<1>8. CASE s # "err"
  <2>1. out = "ok" /\ users[e] = None /\ s \in {"nominatim", "stat"}
    BY <1>8
  <2>2. users' = [users EXCEPT ![e] = req[r].ent.password]
    BY <1>1, <2>1 DEF Applied
  <2>3. Counting' = Counting \cup {r} /\ r \notin Counting
    BY <1>2, <1>4, <2>1 DEF Counting
  <2>4. users'[e] # None /\ \A d \in Emails : d # e => users'[d] = users[d]
    BY <1>2, <1>5, <1>6, <2>2
  <2>5. Accounts' = Accounts \cup {e} /\ e \notin Accounts
    BY <1>2, <2>1, <2>4 DEF Accounts
  <2>6. /\ Cardinality(Counting') = Cardinality(Counting) + 1
        /\ Cardinality(Accounts') = Cardinality(Accounts) + 1
    BY <2>3, <2>5, CountingFinite, FS_AddElement
  <2>7. registered \in Nat /\ registered' = registered
    BY <1>2 DEF IInv, TypeOK
  <2> QED
    BY <2>6, <2>7, CountingFinite DEF CountedHeld
<1> QED
  BY <1>7, <1>8

(* INCR counts once, whatever is answered: the request is done.            *)
LEMMA IncrCounted ==
  ASSUME IInv, CountedHeld, NEW r \in Requests, IncrRegistration(r) PROVE CountedHeld'
<1>1. PICK out \in Outcomes :
        /\ registered' = IF Applied(out) THEN registered + 1 ELSE registered
        /\ Goto(r, IF out = "ok" THEN "ok" ELSE "err")
  BY DEF IncrRegistration
<1>2. req[r].pc = "stat" /\ UNCHANGED users
  BY DEF IncrRegistration, At
<1>3. (IF out = "ok" THEN "ok" ELSE "err") \in Done \cup Steps
  BY DEF Done
<1>4. /\ req'[r].pc \in {"ok", "err"}
      /\ \A q \in Requests : q # r => req'[q] = req[q]
  BY <1>1, <1>3, GotoFrame DEF IInv
<1>5. Counting' = Counting \ {r} /\ r \in Counting
  BY <1>2, <1>4 DEF Counting
<1>6. Cardinality(Counting') = Cardinality(Counting) - 1
  BY <1>5, CountingFinite, FS_RemoveElement
<1>7. Accounts' = Accounts
  BY <1>2 DEF Accounts
<1>8. registered \in Nat /\ registered' \in {registered, registered + 1}
  BY <1>1 DEF IInv, TypeOK
<1> QED
  BY <1>6, <1>7, <1>8, CountingFinite DEF CountedHeld

(* No other step counts, lets a request count, or closes an account.       *)
LEMMA OtherCounted ==
  ASSUME IInv, CountedHeld, [Next]_vars,
         ~\E r \in Requests : Insert(r) \/ IncrRegistration(r)
  PROVE  CountedHeld'
<1>1. UNCHANGED registered
  BY DEF Next, Step, Select, Hmset, SetExpire, SendMail, Hgetall, Del, Update, Nominatim,
     InsertFavorite, Post, Follow, Expire, AskDirect, WriteDirect, Stop, Start, vars, stores
<1>2. \A e \in Emails : users[e] # None => users'[e] # None
  <2>1. users \in [Emails -> Passwords \cup {None}]
    BY DEF IInv, TypeOK
  <2>2. ASSUME NEW r \in Requests, Update(r)
        PROVE  \A e \in Emails : users[e] # None => users'[e] # None
    <3>1. req[r].ent.password \in Passwords
      BY <2>2 DEF Update, At, IInv, Carried, Holding, Entry
    <3>2. UNCHANGED users \/ users' = [users EXCEPT ![req[r].ent.email] = req[r].ent.password]
      BY <2>2 DEF Update
    <3> QED
      BY <2>1, <3>1, <3>2, NoneAssumption
  <2>3. ASSUME NEW w \in Direct, WriteDirect(w)
        PROVE  \A e \in Emails : users[e] # None => users'[e] # None
    BY <2>1, <2>3, NoneAssumption DEF WriteDirect, Direct
  <2> QED
    BY <2>2, <2>3 DEF Next, Step, Select, Hmset, SetExpire, SendMail, Hgetall, Del, Nominatim,
       InsertFavorite, Post, Follow, Expire, AskDirect, Stop, Start, vars, stores
<1>3. ASSUME NEW q \in Requests, req'[q].pc \in {"nominatim", "favorite", "stat"}
      PROVE  req[q].pc \in {"nominatim", "favorite", "stat"}
  <2>1. ASSUME NEW r \in Requests, NEW s \in {"expire", "mail", "mailed", "err", "ok", "write"},
               Goto(r, s)
        PROVE  req[q].pc \in {"nominatim", "favorite", "stat"}
    <3>1. s \in Done \cup Steps
      BY DEF Done, Steps
    <3> QED
      BY <1>3, <2>1, <3>1, GotoFrame DEF IInv
  <2>2. ASSUME NEW r \in Requests, Throw(r)
        PROVE  req[q].pc \in {"nominatim", "favorite", "stat"}
    BY <1>3, <2>2, ThrowFrame DEF IInv, Interrupted
  <2>3. ASSUME NEW r \in Requests, Select(r) \/ Hgetall(r)
        PROVE  req[q].pc \in {"nominatim", "favorite", "stat"}
    <3>1. \/ Goto(r, "err") \/ Throw(r)
          \/ \E t \in Tokens : req' = [req EXCEPT ![r].pc = "hmset", ![r].tok = t]
          \/ req' = [req EXCEPT ![r].pc = "del", ![r].ent = pending[req[r].tok]]
      BY <2>3 DEF Select, Hgetall
    <3> QED
      BY <1>3, <2>1, <2>2, <3>1 DEF IInv, TypeOK, RequestState
  <2>4. ASSUME NEW r \in Requests, Hmset(r) \/ SetExpire(r) \/ SendMail(r)
        PROVE  req[q].pc \in {"nominatim", "favorite", "stat"}
    BY <2>1, <2>4 DEF Hmset, SetExpire, SendMail
  <2>5. ASSUME NEW r \in Requests, Del(r) \/ Update(r)
        PROVE  req[q].pc \in {"nominatim", "favorite", "stat"}
    BY <2>1, <2>2, <2>5 DEF Del, Update, Refuse
  <2>6. ASSUME NEW r \in Requests, Nominatim(r) \/ InsertFavorite(r)
        PROVE  req[q].pc \in {"nominatim", "favorite", "stat"}
    <3>1. req[r].pc \in {"nominatim", "favorite"}
      BY <2>6 DEF Nominatim, InsertFavorite, At
    <3>2. req' = [req EXCEPT ![r].pc = req'[r].pc]
      BY <2>6 DEF Nominatim, InsertFavorite, Goto, IInv, TypeOK, RequestState
    <3> QED
      BY <1>3, <3>1, <3>2 DEF IInv, TypeOK
  <2>7. ASSUME NEW r \in Requests, \/ \E form \in Entry : Post(r, form)
                                   \/ \E t \in Tokens : Follow(r, t)
        PROVE  req[q].pc \in {"nominatim", "favorite", "stat"}
    BY <1>3, <2>7 DEF Post, Follow, IInv, TypeOK
  <2>8. CASE Stop
    BY <1>3, <2>8, StopFrame DEF IInv, Interrupted
  <2>9. CASE UNCHANGED req
    BY <1>3, <2>9
  <2> QED
    BY <2>3, <2>4, <2>5, <2>6, <2>7, <2>8, <2>9
       DEF Next, Step, Expire, AskDirect, WriteDirect, Start, vars, stores
<1>4. Counting' \subseteq Counting /\ Accounts \subseteq Accounts'
  BY <1>2, <1>3 DEF Counting, Accounts
<1> QED
  BY <1>1, <1>4, NobodyCounts

(* stats:registration counts no more registrations than there are accounts, *)
(* whatever is retried, refused or cut off (login.js:111-120).              *)
THEOREM RegistrationsCounted == Spec => []CountedOnce
<1>1. Init => CountedHeld
  <2> SUFFICES ASSUME Init PROVE CountedHeld
    OBVIOUS
  <2>1. Counting = {} /\ registered = 0
    BY DEF Init, Counting, Free
  <2> QED
    BY <2>1, CountingFinite, FS_EmptySet DEF CountedHeld
<1>2. IInv /\ CountedHeld /\ [Next]_vars => CountedHeld'
  BY InsertCounted, IncrCounted, OtherCounted
<1>3. IInv /\ CountedHeld => CountedOnce
  <2>1. IInv => registered \in Nat
    BY DEF IInv, TypeOK
  <2> QED
    BY <2>1, CountingFinite DEF CountedHeld, CountedOnce, Accounts
<1> QED
  BY <1>1, <1>2, <1>3, Strengthened, PTL DEF Spec

============================================================================
