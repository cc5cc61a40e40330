----------------------------- MODULE Sessions -----------------------------
(***************************************************************************)
(* Sessions: the hash table "web:" and "app:" + a random code in Redis, the *)
(* signed cookie that holds the code, and the requests that use them.       *)
(*                                                                         *)
(* POST /login and POST /loginFacebook check the table users, SET a fresh   *)
(* key, EXPIRE it when the client is a browser and put the key in a cookie. *)
(* Every other route first GETs the key of its cookie (ensureAuthenticated) *)
(* and then acts as the address it found; GET /logout DELetes the key and   *)
(* POST /account changes the password.  Each call to a store is a step of   *)
(* its own, and requests of one client may be in flight together, so that   *)
(* replies arrive in any order, or never.                                   *)
(*                                                                         *)
(* Redis answers "ok", "fail" (nothing done) or "lost" (done, and the       *)
(* caller is told of an error); so does PostgreSQL.                         *)
(***************************************************************************)
EXTENDS Naturals, FiniteSets

CONSTANTS
  Emails, Passwords,
  Keys,       \* values of crypto.randomBytes, never drawn twice
  Browsers,   \* clients whose key is "web:..."
  Apps,       \* clients with user-agent scanoid/1.0, whose key is "app:..."
  Requests,   \* requests that may be in flight together
  MaxWishes,  \* bound: nothing more is asked about accounts after so many wishes
  None        \* no account, no session, no cookie

Clients == Browsers \cup Apps

Wish(kinds) == [kind : kinds, email : Emails, password : Passwords]
Mailed == Wish({"registration", "recovery"})

ASSUME NoneAssumption == None \notin Emails \cup Passwords \cup Keys
ASSUME ClientsAssumption == Browsers \cap Apps = {}
ASSUME FinitenessAssumption == IsFiniteSet(Keys) /\ IsFiniteSet(Requests)
ASSUME WishesAssumption == MaxWishes \in Nat

VARIABLES
  users,        \* PostgreSQL: the password of each address, or None
  sess,         \* Redis: the address at a key, or None
  ttl,          \* Redis: the keys with a time to live
  connections,  \* Redis: the counter stats:connection
  jar,          \* the cookie of each client, or None
  req,          \* the requests
  drawn,        \* history: the keys drawn by crypto.randomBytes
  opened,       \* history: the address a key was SET to, or None
  wishes        \* history: what was asked about accounts

redis == <<sess, ttl, connections>>
vars == <<users, redis, jar, req, drawn, opened, wishes>>

Entering == {"login", "facebook"}
Inside   == {"logout", "account", "page"}

\* A request is forgotten ("free") when it has failed or was cut off.
Done  == {"free", "ok"}
Steps == {"lookup", "match", "insert", "set", "expire", "stat",
          "get", "del", "update", "reply"}

\* email and password are those of the form, the password until it has been used;
\* email is the session's once that is known; cookie is the Set-Cookie header of
\* the reply, success says which reply it is.
RequestState ==
  [pc : Done \cup Steps, route : Entering \cup Inside, client : Clients \cup {None},
   email : Emails \cup {None}, password : Passwords \cup {None}, key : Keys \cup {None},
   cookie : {"keep", "set", "clear"}, success : BOOLEAN]

Free == [pc |-> "free", route |-> "page", client |-> None, email |-> None,
         password |-> None, key |-> None, cookie |-> "keep", success |-> FALSE]

Outcomes == {"ok", "fail", "lost"}
Applied(out) == out # "fail"

TypeOK ==
  /\ users \in [Emails -> Passwords \cup {None}]
  /\ sess \in [Keys -> Emails \cup {None}]
  /\ ttl \in SUBSET Keys
  /\ connections \in Nat
  /\ jar \in [Clients -> Keys \cup {None}]
  /\ req \in [Requests -> RequestState]
  /\ drawn \in SUBSET Keys
  /\ opened \in [Keys -> Emails \cup {None}]
  /\ wishes \in SUBSET Wish({"registration", "recovery", "facebook", "account"})

Init ==
  /\ users = [e \in Emails |-> None]
  /\ sess = [k \in Keys |-> None] /\ ttl = {} /\ connections = 0
  /\ jar = [c \in Clients |-> None]
  /\ req = [r \in Requests |-> Free]
  /\ drawn = {} /\ opened = [k \in Keys |-> None] /\ wishes = {}

----------------------------------------------------------------------------
(* Steps of a request.                                                     *)

At(r, step) == req[r].pc = step
Goto(r, step) == req' = [req EXCEPT ![r].pc = step]
Reply(r, success) == 
  req' = [req EXCEPT ![r] = [@ EXCEPT !.pc = "reply", !.success = success, !.password = None]]

Request(route, c, e, p, k) ==
  [route |-> route, client |-> c, email |-> e, password |-> p, key |-> k,
   cookie |-> "keep", success |-> FALSE,
   pc |-> CASE route = "login" -> "match" [] route = "facebook" -> "lookup" [] OTHER -> "get"]

\* The credentials are good: a fresh key is drawn and SET is called.
Admitted(r, k) ==
  /\ k \notin drawn
  /\ drawn' = drawn \cup {k}
  /\ req' = [req EXCEPT ![r] = [@ EXCEPT !.pc = "set", !.key = k, !.password = None]]

MayAsk == Cardinality(wishes) < MaxWishes

----------------------------------------------------------------------------
(* POST /login and POST /loginFacebook.                                    *)

Login(r, c, e, p) ==
  /\ req[r].pc \in Done
  /\ req' = [req EXCEPT ![r] = Request("login", c, e, p, None)]
  /\ UNCHANGED <<users, redis, jar, drawn, opened, wishes>>

LoginFacebook(r, c, e, p) ==
  /\ req[r].pc \in Done
  /\ MayAsk
  /\ req' = [req EXCEPT ![r] = Request("facebook", c, e, p, None)]
  /\ wishes' = wishes \cup {[kind |-> "facebook", email |-> e, password |-> p]}
  /\ UNCHANGED <<users, redis, jar, drawn, opened>>

\* Mutant: the session of a new Facebook user is opened without waiting for INSERT.
LookupOpens(r) ==
  /\ At(r, "lookup")
  /\ \/ users[req[r].email] # None /\ Goto(r, "match") /\ UNCHANGED drawn
     \/ users[req[r].email] = None /\ \E k \in Keys : Admitted(r, k)
  /\ UNCHANGED <<users, redis, jar, opened, wishes>>

\* Facebook, first SELECT: is there an account with the address?
Lookup(r) ==
  /\ At(r, "lookup")
  /\ \/ Reply(r, FALSE)
     \/ Goto(r, IF users[req[r].email] # None THEN "match" ELSE "insert")
  /\ UNCHANGED <<users, redis, jar, drawn, opened, wishes>>

\* Mutant: the code is too short, and may be drawn again.
MatchRedraws(r) ==
  /\ At(r, "match")
  /\ users[req[r].email] = req[r].password
  /\ \E k \in Keys : /\ drawn' = drawn \cup {k}
                     /\ req' = [req EXCEPT ![r].pc = "set", ![r].key = k]
  /\ UNCHANGED <<users, redis, jar, opened, wishes>>

\* SELECT of address and password.
Match(r) ==
  /\ At(r, "match")
  /\ \/ Reply(r, FALSE) /\ UNCHANGED drawn
     \/ /\ users[req[r].email] = req[r].password
        /\ \E k \in Keys : Admitted(r, k)
  /\ UNCHANGED <<users, redis, jar, opened, wishes>>

\* Mutant: an address in use is given the password of the Facebook user.
InsertOrReplace(r) ==
  /\ At(r, "insert")
  /\ users' = [users EXCEPT ![req[r].email] = req[r].password]
  /\ \E k \in Keys : Admitted(r, k)
  /\ UNCHANGED <<redis, jar, opened, wishes>>

InsertUser(r) ==
  /\ At(r, "insert")
  /\ LET e == req[r].email
         free == users[e] = None
     IN \E out \in Outcomes :
          /\ users' = IF Applied(out) /\ free THEN [users EXCEPT ![e] = req[r].password]
                      ELSE users
          /\ IF out = "ok" /\ free THEN \E k \in Keys : Admitted(r, k)
             ELSE Reply(r, FALSE) /\ UNCHANGED drawn
  /\ UNCHANGED <<redis, jar, opened, wishes>>

\* Mutants: the cookie is put in the headers before SET is called; the error of
\* SET is not looked at.
SetCookieFirst(r) ==
  /\ At(r, "set")
  /\ LET k == req[r].key IN
     \/ /\ sess' = [sess EXCEPT ![k] = req[r].email]
        /\ opened' = [opened EXCEPT ![k] = req[r].email]
        /\ req' = [req EXCEPT ![r].pc = "expire", ![r].cookie = "set"]
     \/ /\ req' = [req EXCEPT ![r].pc = "reply", ![r].cookie = "set"]
        /\ UNCHANGED <<sess, opened>>
  /\ UNCHANGED <<users, ttl, connections, jar, drawn, wishes>>

SetUnchecked(r) ==
  /\ At(r, "set")
  /\ \/ /\ sess' = [sess EXCEPT ![req[r].key] = req[r].email]
        /\ opened' = [opened EXCEPT ![req[r].key] = req[r].email]
     \/ UNCHANGED <<sess, opened>>
  /\ Goto(r, "stat")
  /\ UNCHANGED <<users, ttl, connections, jar, drawn, wishes>>

\* After SET the cookie is in the headers of whatever reply follows.
Set(r) ==
  /\ At(r, "set")
  /\ LET k == req[r].key
         next == IF req[r].client \in Browsers THEN "expire"
                 ELSE IF req[r].route = "login" THEN "stat" ELSE "reply"
     IN \E out \in Outcomes :
          /\ IF Applied(out)
             THEN /\ sess' = [sess EXCEPT ![k] = req[r].email]
                  /\ opened' = [opened EXCEPT ![k] = req[r].email]
             ELSE UNCHANGED <<sess, opened>>
          /\ IF out = "ok"
             THEN req' = [req EXCEPT ![r] = [@ EXCEPT !.pc = next, !.cookie = "set",
                                                      !.success = (next = "reply")]]
             ELSE Reply(r, FALSE)
  /\ UNCHANGED <<users, ttl, connections, jar, drawn, wishes>>

\* Mutant: postLoginFacebook answers in any case, too.
SetExpireUnchecked(r) ==
  /\ At(r, "expire")
  /\ \E out \in Outcomes :
       /\ ttl' = IF Applied(out) /\ sess[req[r].key] # None THEN ttl \cup {req[r].key} ELSE ttl
       /\ IF req[r].route = "login" THEN Goto(r, "stat") ELSE Reply(r, TRUE)
  /\ UNCHANGED <<users, sess, connections, jar, drawn, opened, wishes>>

\* postLogin tests the error of SET again where it should test that of EXPIRE, so
\* that it goes on in any case; postLoginFacebook tests the right one.
SetExpire(r) ==
  /\ At(r, "expire")
  /\ \E out \in Outcomes :
       /\ ttl' = IF Applied(out) /\ sess[req[r].key] # None THEN ttl \cup {req[r].key} ELSE ttl
       /\ IF req[r].route = "login" THEN Goto(r, "stat") ELSE Reply(r, out = "ok")
  /\ UNCHANGED <<users, sess, connections, jar, drawn, opened, wishes>>

IncrConnection(r) ==
  /\ At(r, "stat")
  /\ \E out \in Outcomes :
       /\ connections' = IF Applied(out) THEN connections + 1 ELSE connections
       /\ Reply(r, out = "ok")
  /\ UNCHANGED <<users, sess, ttl, jar, drawn, opened, wishes>>

----------------------------------------------------------------------------
(* Requests with a cookie.                                                 *)

Enter(r, c, route, p) ==
  /\ req[r].pc \in Done
  /\ jar[c] # None
  /\ (p # None) <=> (route = "account")
  /\ route = "account" => MayAsk
  /\ req' = [req EXCEPT ![r] = Request(route, c, None, p, jar[c])]
  /\ UNCHANGED <<users, redis, jar, drawn, opened, wishes>>

\* The step that follows ensureAuthenticated; a page needs no more.
Serving(route) == IF route = "logout" THEN "del"
                  ELSE IF route = "account" THEN "update" ELSE "reply"

\* Mutant: nil, the answer of GET for a key that is not there, is taken for an address.
AuthenticateNil(r) ==
  /\ At(r, "get")
  /\ LET e == sess[req[r].key] IN
     /\ req' = [req EXCEPT ![r] = [@ EXCEPT !.email = e, !.pc = Serving(req[r].route)]]
     /\ wishes' = IF req[r].route = "account"
                  THEN wishes \cup {[kind |-> "account", email |-> e,
                                     password |-> req[r].password]}
                  ELSE wishes
  /\ UNCHANGED <<users, redis, jar, drawn, opened>>

\* ensureAuthenticated: GET the key of the cookie.
Authenticate(r) ==
  /\ At(r, "get")
  /\ LET e == sess[req[r].key] IN
     \/ Reply(r, FALSE) /\ UNCHANGED wishes
     \/ /\ e # None
        /\ req' = [req EXCEPT ![r] = [@ EXCEPT !.email = e, !.pc = Serving(req[r].route),
                                               !.success = (req[r].route = "page")]]
        /\ wishes' = IF req[r].route = "account"
                     THEN wishes \cup {[kind |-> "account", email |-> e,
                                        password |-> req[r].password]}
                     ELSE wishes
  /\ UNCHANGED <<users, redis, jar, drawn, opened>>

\* Mutant: an error of DEL is not looked at.
DelSessionUnchecked(r) ==
  /\ At(r, "del")
  /\ \E out \in Outcomes :
       /\ IF Applied(out) THEN sess' = [sess EXCEPT ![req[r].key] = None] /\ ttl' = ttl \ {req[r].key}
          ELSE UNCHANGED <<sess, ttl>>
       /\ Reply(r, TRUE)
  /\ UNCHANGED <<users, connections, jar, drawn, opened, wishes>>

\* GET /logout.  Only a browser is told to forget the cookie.
DelSession(r) ==
  /\ At(r, "del")
  /\ LET k == req[r].key IN
     \E out \in Outcomes :
       /\ IF Applied(out) THEN sess' = [sess EXCEPT ![k] = None] /\ ttl' = ttl \ {k}
          ELSE UNCHANGED <<sess, ttl>>
       /\ req' = [req EXCEPT ![r] =
                    [@ EXCEPT !.pc = "reply", !.success = (out = "ok"),
                              !.cookie = IF out = "ok" /\ req[r].client \in Browsers
                                         THEN "clear" ELSE "keep"]]
  /\ UNCHANGED <<users, connections, jar, drawn, opened, wishes>>

\* POST /account with field password.
UpdatePassword(r) ==
  /\ At(r, "update")
  /\ LET e == req[r].email IN
     \E out \in Outcomes :
       /\ users' = IF Applied(out) /\ users[e] # None
                   THEN [users EXCEPT ![e] = req[r].password] ELSE users
       /\ Reply(r, out = "ok")
  /\ UNCHANGED <<redis, jar, drawn, opened, wishes>>

----------------------------------------------------------------------------
(* The rest of the world.                                                  *)

\* The reply reaches the client, or the connection breaks.
Deliver(r) ==
  /\ At(r, "reply")
  /\ jar' = [jar EXCEPT ![req[r].client] = CASE req[r].cookie = "set" -> req[r].key
                                            [] req[r].cookie = "clear" -> None
                                            [] req[r].cookie = "keep" -> @]
  /\ req' = [req EXCEPT ![r] = IF @.success THEN [@ EXCEPT !.pc = "ok"] ELSE Free]
  /\ UNCHANGED <<users, redis, drawn, opened, wishes>>

LoseReply(r) ==
  /\ At(r, "reply")
  /\ req' = [req EXCEPT ![r] = Free]
  /\ UNCHANGED <<users, redis, jar, drawn, opened, wishes>>

\* Redis drops a key whose time to live is over.
Expire(k) ==
  /\ k \in ttl
  /\ sess' = [sess EXCEPT ![k] = None]
  /\ ttl' = ttl \ {k}
  /\ UNCHANGED <<users, connections, jar, req, drawn, opened, wishes>>

\* The statements with which mailed links write users.
AskMail(w) ==
  /\ MayAsk
  /\ wishes' = wishes \cup {w}
  /\ UNCHANGED <<users, redis, jar, req, drawn, opened>>

WriteMailed(w) ==
  /\ w \in wishes
  /\ (w.kind = "registration") <=> (users[w.email] = None)
  /\ users' = [users EXCEPT ![w.email] = w.password]
  /\ UNCHANGED <<redis, jar, req, drawn, opened, wishes>>

\* The Node process ends and is started again; the stores and the cookies stay.
Restart ==
  /\ req' = [r \in Requests |-> IF req[r].pc \in Done THEN req[r] ELSE Free]
  /\ UNCHANGED <<users, redis, jar, drawn, opened, wishes>>

----------------------------------------------------------------------------
Step(r) ==
  \/ Lookup(r) \/ Match(r) \/ InsertUser(r) \/ Set(r) \/ SetExpire(r) \/ IncrConnection(r)
  \/ Authenticate(r) \/ DelSession(r) \/ UpdatePassword(r)

Start(r, c) ==
  \/ \E e \in Emails, p \in Passwords : Login(r, c, e, p) \/ LoginFacebook(r, c, e, p)
  \/ \E route \in Inside, p \in Passwords \cup {None} : Enter(r, c, route, p)

Next ==
  \/ \E r \in Requests : \/ \E c \in Clients : Start(r, c)
                         \/ Step(r) \/ Deliver(r) \/ LoseReply(r)
  \/ \E k \in Keys : Expire(k)
  \/ \E w \in Mailed : AskMail(w) \/ WriteMailed(w)
  \/ Restart

Spec == Init /\ [][Next]_vars

----------------------------------------------------------------------------
(* Properties.                                                             *)

Acting(r) == \/ req[r].pc \in {"del", "update"}
             \/ req[r].pc = "reply" /\ req[r].route = "page" /\ req[r].success

Ledger == INSTANCE SessionBook WITH
  phase <- [k \in Keys |-> IF sess[k] # None THEN "live"
                           ELSE IF opened[k] # None THEN "dead" ELSE "fresh"],
  owner <- opened,
  admitted <- [r \in Requests |-> IF Acting(r) THEN req[r].email ELSE None]

(* A key is opened once for one address, a session that has ended never     *)
(* comes back, whichever of logout, EXPIRE and late replies comes last, and *)
(* a request acts as the owner of the session it was admitted in            *)
(* (app.js:96-116, login.js:183-199).                                       *)
ImplementsSessionBook == Ledger!Spec

Book == INSTANCE AccountBook

(* Two Facebook users with one address, a registration that wins the race   *)
(* and sessions that change the password: users only does what AccountBook  *)
(* allows (login.js:286-311, account.js:97-104).                             *)
ImplementsAccountBook == Book!Spec

(* No key was ever opened for an address without an account, though the     *)
(* session and the account are in different stores (login.js:299-309).      *)
SessionHasAccount == \A k \in Keys : opened[k] # None => users[opened[k]] # None

(* A cookie names a session that was opened, also when the reply that       *)
(* carries it reports an error (login.js:185, 271).                         *)
CookieNamesSession == \A c \in Clients : jar[c] # None => opened[jar[c]] # None

(* A confirmed login has opened the session its cookie names.              *)
HonestLogin ==
  \A r \in Requests : req[r].pc = "ok" /\ req[r].route \in Entering
                      => opened[req[r].key] = req[r].email

(* After a confirmed logout the session is gone for good (logout.js:20-26). *)
LoggedOut ==
  \A r \in Requests : req[r].pc = "ok" /\ req[r].route = "logout"
                      => sess[req[r].key] = None

\* A browser was told that it is in session through the route.
Confirmed(r, route) ==
  req[r].pc = "ok" /\ req[r].route = route /\ req[r].client \in Browsers

(* A session confirmed to a browser by /loginFacebook has a time to live    *)
(* (login.js:275-279).                                                      *)
FacebookSessionExpires ==
  \A r \in Requests : Confirmed(r, "facebook") /\ sess[req[r].key] # None
                      => req[r].key \in ttl

(* stats:connection counts no login that opened no session.                *)
ConnectionsBacked == connections <= Cardinality({k \in Keys : opened[k] # None})

----------------------------------------------------------------------------
(* A property the documentation states and the code does not have.         *)

(* "un objet contenant l'email est envoye a Redis avec une date             *)
(* d'expiration" (login.js:132-134): what FacebookSessionExpires says, of    *)
(* the sessions that /login confirms to a browser.                          *)
WebSessionExpires ==
  \A r \in Requests : Confirmed(r, "login") /\ sess[req[r].key] # None
                      => req[r].key \in ttl

============================================================================
