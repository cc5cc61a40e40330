----------------------------- MODULE MailLinks -----------------------------
(***************************************************************************)
(* Accounts opened, and passwords recovered, through a mailed link.        *)
(*                                                                         *)
(* POST /registration and POST /recovery look the address up in PostgreSQL,*)
(* keep the submitted fields in Redis under "email:" + a random code       *)
(* (HMSET, then EXPIRE) and mail the code.  GET /login/:id and             *)
(* GET /recovery/:id read that hash back (HGETALL), delete it (DEL) and    *)
(* only then write the table users.  Each of these calls is asynchronous:  *)
(* every action below is what happens between two callbacks, and the steps *)
(* of different requests interleave in every order.                        *)
(*                                                                         *)
(* A call to a store ends in one of three ways: "ok", "fail" (an error and *)
(* nothing done) or "lost" (done, but the connection broke and the caller  *)
(* is told of an error).  An exception thrown in a callback ends the Node  *)
(* process and with it every request in flight; what is in Redis and in    *)
(* PostgreSQL stays.                                                       *)
(***************************************************************************)
EXTENDS Naturals, FiniteSets

CONSTANTS
  Emails,       \* addresses, the primary key of users
  Passwords,    \* hashed passwords
  Tokens,       \* values of crypto.randomBytes, never drawn twice
  Requests,     \* requests that may be in flight together
  WithAddress,  \* addresses whose registration form gives road, postcode and town
  MaxDirect,    \* bound: wishes submitted by other routes than mail
  None          \* no row, no hash, no token

Kinds == {"registration", "recovery"}

\* The fields of a pending hash.  A recovery hash has only password and email;
\* the kind stands for which fields it has, and for the route its mail names.
Entry == [kind : Kinds, email : Emails, password : Passwords]

\* What other routes ask for: POST /loginFacebook opens an account and
\* POST /account changes the password of the one in session.
Direct == [kind : {"facebook", "account"}, email : Emails, password : Passwords]

ASSUME NoneAssumption == /\ None \notin Passwords
                         /\ None \notin Tokens
                         /\ None \notin Entry
ASSUME FinitenessAssumption == IsFiniteSet(Emails) /\ IsFiniteSet(Requests)
ASSUME BoundAssumption == MaxDirect \in Nat /\ WithAddress \subseteq Emails

VARIABLES
  up,         \* the Node process runs
  pending,    \* Redis: the hash at "email:" + token, or None
  expires,    \* Redis: the tokens whose hash has a time to live
  mailbox,    \* the tokens that arrived by mail
  users,      \* PostgreSQL: the password of each address, or None
  favorite,   \* PostgreSQL: the addresses with a favorite_address of their registration
  registered, \* Redis: the counter stats:registration
  req,        \* the requests: where each is, its token and its fields
  issued,     \* history: the fields each token was drawn for
  direct      \* history: what other routes were asked

stores == <<pending, expires, mailbox, users, favorite, registered>>
vars == <<up, stores, req, issued, direct>>

\* A request is done when it is free, answered ("mailed" to a form, "ok" to a
\* link, or "err"), cut off by the end of the process, or is the one that threw.
Done  == {"free", "mailed", "ok", "err", "cut", "threw"}
Steps == {"select", "hmset", "expire", "mail", "hgetall", "del", "write",
          "nominatim", "favorite", "stat"}

RequestState == [pc : Done \cup Steps, tok : Tokens \cup {None}, ent : Entry \cup {None}]

Free == [pc |-> "free", tok |-> None, ent |-> None]

Outcomes == {"ok", "fail", "lost"}
Applied(out) == out # "fail"

TypeOK ==
  /\ up \in BOOLEAN
  /\ pending \in [Tokens -> Entry \cup {None}]
  /\ expires \in SUBSET Tokens
  /\ mailbox \in SUBSET Tokens
  /\ users \in [Emails -> Passwords \cup {None}]
  /\ favorite \in SUBSET Emails
  /\ registered \in Nat
  /\ req \in [Requests -> RequestState]
  /\ issued \in [Tokens -> Entry \cup {None}]
  /\ direct \in SUBSET Direct

Init ==
  /\ up = TRUE
  /\ pending = [t \in Tokens |-> None]
  /\ expires = {} /\ mailbox = {}
  /\ users = [e \in Emails |-> None]
  /\ favorite = {} /\ registered = 0
  /\ req = [r \in Requests |-> Free]
  /\ issued = [t \in Tokens |-> None]
  /\ direct = {}

----------------------------------------------------------------------------
(* Steps of a request.                                                     *)

At(r, step) == up /\ req[r].pc = step

Goto(r, step) == /\ req' = [req EXCEPT ![r].pc = step]
                 /\ UNCHANGED up

\* The callback of r throws: the process ends, and with it the other requests.
Throw(r) ==
  /\ req' = [q \in Requests |-> IF q = r THEN [req[q] EXCEPT !.pc = "threw"]
                                ELSE IF req[q].pc \in Done THEN req[q]
                                ELSE [req[q] EXCEPT !.pc = "cut"]]
  /\ up' = FALSE

\* How the handler of kind k reports an error.  Those of the mailed links differ:
\* getRecovery calls res.errorGes, which is no function.
Refuse(r) == IF req[r].ent # None /\ req[r].ent.kind = "recovery"
             THEN Throw(r) ELSE Goto(r, "err")

----------------------------------------------------------------------------
(* POST /registration and POST /recovery.                                  *)

\* The form has passed the validation; the first asynchronous call is issued.
Post(r, form) ==
  /\ up /\ req[r].pc \in Done
  /\ req' = [req EXCEPT ![r] = [pc |-> "select", tok |-> None, ent |-> form]]
  /\ UNCHANGED <<up, stores, issued, direct>>

\* A registration wants the address free, a recovery wants it taken.
Acceptable(form) == (form.kind = "recovery") <=> (users[form.email] # None)

\* The reply to the SELECT; on success the random code is drawn.
Select(r) ==
  /\ At(r, "select")
  /\ \/ /\ Goto(r, "err")                     \* an error, or not acceptable
        /\ UNCHANGED issued
     \/ /\ Acceptable(req[r].ent)
        /\ \E t \in Tokens :
             /\ issued[t] = None
             /\ issued' = [issued EXCEPT ![t] = req[r].ent]
             /\ req' = [req EXCEPT ![r].pc = "hmset", ![r].tok = t]
        /\ UNCHANGED up
  /\ UNCHANGED <<stores, direct>>

Hmset(r) ==
  /\ At(r, "hmset")
  /\ \E out \in Outcomes :
       /\ pending' = IF Applied(out)
                     THEN [pending EXCEPT ![req[r].tok] = req[r].ent] ELSE pending
       /\ Goto(r, IF out = "ok" THEN "expire" ELSE "err")
  /\ UNCHANGED <<expires, mailbox, users, favorite, registered, issued, direct>>

\* Mutant: an error of EXPIRE is not looked at.
SetExpireUnchecked(r) ==
  /\ At(r, "expire")
  /\ \E out \in Outcomes :
       /\ expires' = IF Applied(out) THEN expires \cup {req[r].tok} ELSE expires
       /\ Goto(r, "mail")
  /\ UNCHANGED <<pending, mailbox, users, favorite, registered, issued, direct>>

SetExpire(r) ==
  /\ At(r, "expire")
  /\ \E out \in Outcomes :
       /\ expires' = IF Applied(out) /\ pending[req[r].tok] # None
                     THEN expires \cup {req[r].tok} ELSE expires
       /\ Goto(r, IF out = "ok" THEN "mail" ELSE "err")
  /\ UNCHANGED <<pending, mailbox, users, favorite, registered, issued, direct>>

\* Mutant: the answer does not wait for what the SMTP server says.
SendMailUnchecked(r) ==
  /\ At(r, "mail")
  /\ \E out \in Outcomes :
       /\ mailbox' = IF Applied(out) THEN mailbox \cup {req[r].tok} ELSE mailbox
       /\ Goto(r, "mailed")
  /\ UNCHANGED <<pending, expires, users, favorite, registered, issued, direct>>

SendMail(r) ==
  /\ At(r, "mail")
  /\ \E out \in Outcomes :
       /\ mailbox' = IF Applied(out) THEN mailbox \cup {req[r].tok} ELSE mailbox
       /\ Goto(r, IF out = "ok" THEN "mailed" ELSE "err")
  /\ UNCHANGED <<pending, expires, users, favorite, registered, issued, direct>>

----------------------------------------------------------------------------
(* GET /login/:id and GET /recovery/:id: the addressee follows the link, as  *)
(* often as he likes.                                                       *)

Follow(r, t) ==
  /\ up /\ req[r].pc \in Done
  /\ t \in mailbox
  /\ req' = [req EXCEPT ![r] = [pc |-> "hgetall", tok |-> t, ent |-> None]]
  /\ UNCHANGED <<up, stores, issued, direct>>

\* Mutant: a missing hash is passed on as an object without fields.
HgetallEmpty(r) ==
  /\ At(r, "hgetall")
  /\ req' = [req EXCEPT ![r].pc = "del",
                        ![r].ent = IF pending[req[r].tok] # None THEN pending[req[r].tok]
                                   ELSE [kind |-> issued[req[r].tok].kind,
                                         email |-> None, password |-> None]]
  /\ UNCHANGED <<up, stores, issued, direct>>

\* HGETALL.  A missing hash is no error: queryLoginId calls back with neither
\* error nor fields.  getLoginId then reads r.email of undefined; getRecovery
\* refuses, which throws as well.
Hgetall(r) ==
  /\ At(r, "hgetall")
  /\ LET t == req[r].tok IN
     \/ IF issued[t].kind = "recovery" THEN Throw(r) ELSE Goto(r, "err")
     \/ pending[t] = None /\ Throw(r)
     \/ /\ pending[t] # None
        /\ req' = [req EXCEPT ![r].pc = "del", ![r].ent = pending[t]]
        /\ UNCHANGED up
  /\ UNCHANGED <<stores, issued, direct>>

\* Mutant: an error of DEL is never called back.
DelSilent(r) ==
  /\ At(r, "del")
  /\ \E out \in Outcomes :
       /\ IF Applied(out)
          THEN /\ pending' = [pending EXCEPT ![req[r].tok] = None]
               /\ expires' = expires \ {req[r].tok}
          ELSE UNCHANGED <<pending, expires>>
       /\ Goto(r, IF out = "ok" THEN "write" ELSE "silent")
  /\ UNCHANGED <<mailbox, users, favorite, registered, issued, direct>>

\* DEL.  How many keys it deleted is ignored.
Del(r) ==
  /\ At(r, "del")
  /\ \E out \in Outcomes :
       /\ IF Applied(out)
          THEN /\ pending' = [pending EXCEPT ![req[r].tok] = None]
               /\ expires' = expires \ {req[r].tok}
          ELSE UNCHANGED <<pending, expires>>
       /\ IF out = "ok" THEN Goto(r, "write") ELSE Refuse(r)
  /\ UNCHANGED <<mailbox, users, favorite, registered, issued, direct>>

\* Mutants: the row of an existing account is replaced; its refusal is overlooked.
InsertOrReplace(r) ==
  /\ At(r, "write") /\ req[r].ent.kind = "registration"
  /\ users' = [users EXCEPT ![req[r].ent.email] = req[r].ent.password]
  /\ Goto(r, "stat")
  /\ UNCHANGED <<pending, expires, mailbox, favorite, registered, issued, direct>>

InsertUnchecked(r) ==
  /\ At(r, "write") /\ req[r].ent.kind = "registration"
  /\ LET e == req[r].ent.email IN
       users' = [users EXCEPT ![e] = IF @ = None THEN req[r].ent.password ELSE @]
  /\ Goto(r, "stat")
  /\ UNCHANGED <<pending, expires, mailbox, favorite, registered, issued, direct>>

\* INSERT INTO users: the primary key refuses a second row for an address.
Insert(r) ==
  /\ At(r, "write")
  /\ req[r].ent.kind = "registration"
  /\ LET e == req[r].ent.email IN
     \E out \in Outcomes :
       /\ IF Applied(out) /\ users[e] = None
          THEN users' = [users EXCEPT ![e] = req[r].ent.password]
          ELSE UNCHANGED users
       /\ Goto(r, IF out # "ok" \/ users[e] # None THEN "err"
                  ELSE IF e \in WithAddress THEN "nominatim" ELSE "stat")
  /\ UNCHANGED <<pending, expires, mailbox, favorite, registered, issued, direct>>

\* UPDATE users: no row is not an error.
Update(r) ==
  /\ At(r, "write")
  /\ req[r].ent.kind = "recovery"
  /\ LET e == req[r].ent.email IN
     \E out \in Outcomes :
       /\ IF Applied(out) /\ users[e] # None
          THEN users' = [users EXCEPT ![e] = req[r].ent.password]
          ELSE UNCHANGED users
       /\ IF out = "ok" THEN Goto(r, "ok") ELSE Refuse(r)
  /\ UNCHANGED <<pending, expires, mailbox, favorite, registered, issued, direct>>

\* The answer of Nominatim to the HTTP request: a place, or an error.
Nominatim(r) ==
  /\ At(r, "nominatim")
  /\ Goto(r, "favorite") \/ Goto(r, "err")
  /\ UNCHANGED <<stores, issued, direct>>

InsertFavorite(r) ==
  /\ At(r, "favorite")
  /\ \E out \in Outcomes :
       /\ favorite' = IF Applied(out) THEN favorite \cup {req[r].ent.email} ELSE favorite
       /\ Goto(r, IF out = "ok" THEN "stat" ELSE "err")
  /\ UNCHANGED <<pending, expires, mailbox, users, registered, issued, direct>>

IncrRegistration(r) ==
  /\ At(r, "stat")
  /\ \E out \in Outcomes :
       /\ registered' = IF Applied(out) THEN registered + 1 ELSE registered
       /\ Goto(r, IF out = "ok" THEN "ok" ELSE "err")
  /\ UNCHANGED <<pending, expires, mailbox, users, favorite, issued, direct>>

----------------------------------------------------------------------------
(* The rest of the world.                                                  *)

\* Redis drops a hash whose time to live (three days) is over.
Expire(t) ==
  /\ t \in expires
  /\ pending' = [pending EXCEPT ![t] = None]
  /\ expires' = expires \ {t}
  /\ UNCHANGED <<up, mailbox, users, favorite, registered, req, issued, direct>>

\* The statements with which the other routes write users: the INSERT of
\* POST /loginFacebook and the UPDATE of POST /account.
AskDirect(w) ==
  /\ up /\ Cardinality(direct) < MaxDirect
  /\ direct' = direct \cup {w}
  /\ UNCHANGED <<up, stores, req, issued>>

WriteDirect(w) ==
  /\ up /\ w \in direct
  /\ (w.kind = "facebook") <=> (users[w.email] = None)
  /\ users' = [users EXCEPT ![w.email] = w.password]
  /\ UNCHANGED <<up, pending, expires, mailbox, favorite, registered, req, issued, direct>>

\* The process is stopped for another reason, and started again.
Stop ==
  /\ up
  /\ up' = FALSE
  /\ req' = [q \in Requests |-> IF req[q].pc \in Done THEN req[q]
                                ELSE [req[q] EXCEPT !.pc = "cut"]]
  /\ UNCHANGED <<stores, issued, direct>>

Start ==
  /\ ~up
  /\ up' = TRUE
  /\ UNCHANGED <<stores, req, issued, direct>>

----------------------------------------------------------------------------
Step(r) ==
  \/ Select(r) \/ Hmset(r) \/ SetExpire(r) \/ SendMail(r)
  \/ Hgetall(r) \/ Del(r) \/ Insert(r) \/ Update(r)
  \/ InsertFavorite(r) \/ IncrRegistration(r)

Next ==
  \/ \E r \in Requests : \/ \E form \in Entry : Post(r, form)
                         \/ \E t \in Tokens : Follow(r, t)
                         \/ Step(r) \/ Nominatim(r)
  \/ \E t \in Tokens : Expire(t)
  \/ \E w \in Direct : AskDirect(w) \/ WriteDirect(w)
  \/ Stop \/ Start

Spec == Init /\ [][Next]_vars

\* PostgreSQL, Redis and the SMTP server answer or break the connection, so the
\* next callback of a request comes; Redis does drop what is due.  Nothing makes
\* Nominatim answer: its HTTP request has no timeout.
Fairness == /\ \A r \in Requests : WF_vars(Step(r))
            /\ \A t \in Tokens : WF_vars(Expire(t))

FairSpec == Spec /\ Fairness

----------------------------------------------------------------------------
(* Properties.                                                             *)

Submitted == {issued[t] : t \in {u \in Tokens : issued[u] # None}}

Book == INSTANCE AccountBook WITH wishes <- Submitted \cup direct

(* The table users only ever does what AccountBook allows: however the     *)
(* requests interleave, break off or repeat, a row appears at most once per *)
(* address and a password is one its owner submitted for that purpose       *)
(* (registration.js:72-97, login.js:80-109, recovery.js:122-133).            *)
ImplementsAccountBook == Book!Spec

(* What a link leads to is what was submitted when its code was drawn.     *)
HashAsSubmitted == \A t \in Tokens : pending[t] # None => pending[t] = issued[t]

(* A hash whose link has been mailed has a time to live: the mail is sent  *)
(* only in the callback of EXPIRE (requete.js:184-200).                    *)
MailedLinkExpires == \A t \in mailbox : pending[t] # None => t \in expires

(* A confirmation is honest: after "mailed" the mail is there, and after    *)
(* "ok" the address has an account, also when the link was followed twice,  *)
(* after another registration of the same address, or for a recovery whose  *)
(* UPDATE would not notice a missing row (recovery.js:126-128).             *)
HonestAnswer ==
  \A r \in Requests : /\ req[r].pc = "mailed" => req[r].tok \in mailbox
                      /\ req[r].pc = "ok" => users[req[r].ent.email] # None

(* No registration is counted twice in stats:registration, and none that    *)
(* opened no account (login.js:111-120).                                    *)
CountedOnce == registered <= Cardinality({e \in Emails : users[e] # None})

(* The hash behind a mailed link does not stay in Redis for ever, whether   *)
(* the link is followed or not.                                             *)
MailedLinkEnds == \A t \in Tokens : t \in mailbox ~> pending[t] = None

(* Every request is answered or cut off, unless it waits for Nominatim.     *)
RequestEnds ==
  \A r \in Requests : req[r].pc \in Steps ~> req[r].pc \in Done \cup {"nominatim"}

----------------------------------------------------------------------------
(* Properties the documentation states and the code does not have.         *)

(* "sortie: Page HTML : login" (login.js:61-64, recovery.js:101-104): who    *)
(* follows a link gets a page, no callback throws instead.                  *)
LinkAnswered == \A r \in Requests : req[r].pc # "threw"

============================================================================
