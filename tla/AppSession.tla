----------------------------- MODULE AppSession -----------------------------
(***************************************************************************)
(* The session of the Android application: the start screen (Accueil), the  *)
(* login screen (ConnectionActivity), the menu of the other screens, and    *)
(* the preferences they share: the identity used last and, for each         *)
(* identity, the cookie of its session.  Requests run on worker threads,    *)
(* which read the fields of the login screen when they need them and go on  *)
(* when it is gone.  Sessions has the server's side; here a login opens a   *)
(* session or does not, and its answer comes, reports an error or is lost.  *)
(***************************************************************************)
CONSTANTS
  Emails,   \* addresses with an account
  Keys,     \* what crypto.randomBytes may draw
  Threads,  \* worker threads that may run together; one that has ended is used again
  None

ASSUME NoneAssumption == None \notin Emails \cup Keys

VARIABLES
  owner,    \* Redis: the address at an application's key, which has no time to live
  id,       \* preference "id" of the file "identifiant"
  cookie,   \* preference "name" of the file "name_<address>"
  access,   \* whose "Acces a ScanOID" the button of the start screen is, or None
  connect,  \* a login screen lies over the start screen
  inside,   \* the identity of the screen on top of both, or None
  form,     \* field identifiant of the login screen, or None
  thread,   \* the worker threads
  cause     \* history: what may have parted the application from the server

vars == <<owner, id, cookie, access, connect, inside, form, thread, cause>>

LoginPCs == {"begin", "read", "sent", "answered", "failed", "saved", "named"}
CheckPCs == {"check", "asked"}

\* left: the screen that began the thread is gone, and field is what it had in
\* form.  email is sent to the server, name is whose preference is read and
\* written, value what was read there or came with the answer.
Worker == [pc : {"free"} \cup LoginPCs \cup CheckPCs, left : BOOLEAN,
           field : Emails \cup {None}, email : Emails \cup {None},
           name : Emails \cup {None}, value : Keys \cup {None}]

Free == [pc |-> "free", left |-> FALSE, field |-> None, email |-> None,
         name |-> None, value |-> None]

Causes == {"twice", "again", "retyped", "error", "lost", "check", "cut"}

TypeOK ==
  /\ owner \in [Keys -> Emails \cup {None}]
  /\ id \in Emails \cup {None}
  /\ cookie \in [Emails -> Keys \cup {None}]
  /\ access \in Emails \cup {None}
  /\ connect \in BOOLEAN
  /\ inside \in Emails \cup {None}
  /\ form \in Emails \cup {None}
  /\ thread \in [Threads -> Worker]
  /\ cause \subseteq Causes

Init ==
  /\ owner = [k \in Keys |-> None]
  /\ id = None /\ cookie = [e \in Emails |-> None]
  /\ access = None /\ connect = FALSE /\ inside = None /\ form = None
  /\ thread = [t \in Threads |-> Free]
  /\ cause = {}

-----------------------------------------------------------------------------
(* The screens.                                                             *)

\* determineAccess: the button as the preferences have it.
Access == IF id # None /\ cookie[id] # None THEN id ELSE None

Busy(t) == thread[t].pc # "free"
Logging(t) == thread[t].pc \in LoginPCs
Checking(t) == thread[t].pc \in CheckPCs
AtStart == ~ connect /\ inside = None

\* The screens of the threads of T are gone.
Left(T) == [t \in Threads |-> IF t \in T /\ ~ thread[t].left
                              THEN [thread[t] EXCEPT !.left = TRUE, !.field = form]
                              ELSE thread[t]]

\* The buttons are hidden while the start screen checks the session.
Buttons == AtStart /\ \A t \in Threads : Checking(t) => thread[t].left

OpenConnection ==
  /\ Buttons /\ access = None
  /\ connect' = TRUE /\ form' = None
  /\ UNCHANGED <<owner, id, cookie, access, inside, thread, cause>>

\* Mutant: the start screen has no onResume.
CloseOnly ==
  /\ inside # None \/ connect
  /\ inside' = None
  /\ IF inside # None
     THEN UNCHANGED <<connect, form, thread>>
     ELSE connect' = FALSE /\ form' = None /\ thread' = Left({t \in Threads : Logging(t)})
  /\ UNCHANGED <<owner, id, cookie, access, cause>>

\* The screen on top is closed.  onResume of the start screen is determineAccess.
Close ==
  /\ inside # None \/ connect
  /\ inside' = None
  /\ IF inside # None
     THEN UNCHANGED <<connect, form, thread>>
     ELSE connect' = FALSE /\ form' = None /\ thread' = Left({t \in Threads : Logging(t)})
  /\ access' = IF connect' THEN access ELSE Access
  /\ UNCHANGED <<owner, id, cookie, cause>>

\* A new start screen in the same process.  The fifth entry of the menu,
\* "Deconnexion", is case 4, which starts Accueil as any other screen; it is case
\* 5, which no entry has, that asks for a logout.  Or the start screen was closed.
StartAgain ==
  /\ inside # None \/ ~ connect
  /\ inside' = None /\ connect' = FALSE /\ form' = None
  /\ thread' = Left({t \in Threads : Busy(t)})
  /\ access' = Access
  /\ UNCHANGED <<owner, id, cookie, cause>>

\* The process ends, and the user starts the application again.
Restart ==
  /\ inside' = None /\ connect' = FALSE /\ form' = None
  /\ thread' = [t \in Threads |-> Free]
  /\ access' = Access
  /\ cause' = IF \E t \in Threads : Busy(t) THEN cause \cup {"cut"} ELSE cause
  /\ UNCHANGED <<owner, id, cookie>>

-----------------------------------------------------------------------------
(* Login.                                                                   *)

Field(t) == IF thread[t].left THEN thread[t].field ELSE form

Begin(t, pc, name) ==
  /\ ~ Busy(t)
  /\ thread' = [thread EXCEPT ![t] = [Free EXCEPT !.pc = pc, !.name = name]]

Beside == {c \in {"twice"} : \E t \in Threads : Busy(t)}

\* A click on the button fills the field and begins a thread; the button stays.  The
\* address may have a session by now: the screen was opened before it had one.
Click(t, e) ==
  /\ connect /\ inside = None
  /\ form' = e
  /\ Begin(t, "begin", None)
  /\ cause' = cause \cup Beside \cup {c \in {"again"} : cookie[e] # None}
  /\ UNCHANGED <<owner, id, cookie, access, connect, inside>>

\* The thread reads identifiant for the form it sends ...
Read(t) ==
  /\ thread[t].pc = "begin"
  /\ thread' = [thread EXCEPT ![t].pc = "read", ![t].email = Field(t)]
  /\ UNCHANGED <<owner, id, cookie, access, connect, inside, form, cause>>

Retyped(e, name) == IF e = name THEN {} ELSE {"retyped"}

\* ... and, when it has read mdp, once more for the preference.
Build(t) ==
  /\ thread[t].pc = "read"
  /\ thread' = [thread EXCEPT ![t].pc = "sent", ![t].name = Field(t),
                              ![t].value = cookie[Field(t)]]
  /\ cause' = cause \cup Retyped(Field(t), thread[t].email)
  /\ UNCHANGED <<owner, id, cookie, access, connect, inside, form>>

\* The server opens a session.  Its answer comes; or tells of an error after SET,
\* with the new cookie, or of a lost reply to SET, without it; or is lost.
Serve(t) ==
  /\ thread[t].pc = "sent"
  /\ \E k \in Keys :
       /\ owner[k] = None
       /\ owner' = [owner EXCEPT ![k] = thread[t].email]
       /\ \/ /\ thread' = [thread EXCEPT ![t].pc = "answered", ![t].value = k]
             /\ UNCHANGED cause
          \/ /\ \/ thread' = [thread EXCEPT ![t].pc = "failed", ![t].value = k]
                \/ thread' = [thread EXCEPT ![t].pc = "failed"]
             /\ cause' = cause \cup {"error"}
          \/ /\ thread' = [thread EXCEPT ![t] = Free]
             /\ cause' = cause \cup {"lost"}
  /\ UNCHANGED <<id, cookie, access, connect, inside, form>>

\* No session: the server refuses the password, or there is no answer.
Refuse(t) ==
  /\ thread[t].pc = "sent"
  /\ \/ thread' = [thread EXCEPT ![t].pc = "failed"]
     \/ thread' = [thread EXCEPT ![t] = Free]
  /\ UNCHANGED <<owner, id, cookie, access, connect, inside, form, cause>>

\* Mutant: the preference is that of the field as it is now.
SaveNow(t) ==
  /\ thread[t].pc \in {"answered", "failed"}
  /\ cookie' = [cookie EXCEPT ![Field(t)] = thread[t].value]
  /\ thread' = [thread EXCEPT ![t] = IF @.pc = "answered" THEN [@ EXCEPT !.pc = "saved"] ELSE Free]
  /\ UNCHANGED <<owner, id, access, connect, inside, form, cause>>

\* Any answer has the cookie saved: the one it brought, or the one that was sent.
Save(t) ==
  /\ thread[t].pc \in {"answered", "failed"}
  /\ cookie' = [cookie EXCEPT ![thread[t].name] = thread[t].value]
  /\ thread' = [thread EXCEPT ![t] = IF @.pc = "answered" THEN [@ EXCEPT !.pc = "saved"] ELSE Free]
  /\ UNCHANGED <<owner, id, access, connect, inside, form, cause>>

\* The identity that is saved is what the field holds now ...
SaveIdentity(t) ==
  /\ thread[t].pc = "saved"
  /\ id' = Field(t)
  /\ thread' = [thread EXCEPT ![t].pc = "named"]
  /\ cause' = cause \cup Retyped(Field(t), thread[t].name)
  /\ UNCHANGED <<owner, cookie, access, connect, inside, form>>

\* ... and so is the one given to the screen that starts.  The login screen of the
\* thread ends, if it is still there.
Enter(t) ==
  /\ thread[t].pc = "named"
  /\ inside' = Field(t)
  /\ cause' = cause \cup Retyped(Field(t), thread[t].name)
  /\ IF thread[t].left
     THEN /\ thread' = [thread EXCEPT ![t] = Free]
          /\ UNCHANGED <<connect, form>>
     ELSE /\ thread' = [Left({s \in Threads : Logging(s)}) EXCEPT ![t] = Free]
          /\ connect' = FALSE /\ form' = None
  /\ UNCHANGED <<owner, id, cookie, access>>

-----------------------------------------------------------------------------
(* The check of the session: GET /connected.                                *)

Check(t) ==
  /\ Buttons /\ access # None
  /\ Begin(t, "check", access)
  /\ cause' = cause \cup Beside
  /\ UNCHANGED <<owner, id, cookie, access, connect, inside, form>>

Ask(t) ==
  /\ thread[t].pc = "check"
  /\ thread' = [thread EXCEPT ![t].pc = "asked", ![t].value = cookie[thread[t].name]]
  /\ UNCHANGED <<owner, id, cookie, access, connect, inside, form, cause>>

\* The key is there: the screen of the identity starts.
Admit(t) ==
  /\ thread[t].pc = "asked" /\ thread[t].value # None
  /\ inside' = thread[t].name
  /\ thread' = [thread EXCEPT ![t] = Free]
  /\ UNCHANGED <<owner, id, cookie, access, connect, form, cause>>

\* Any other outcome, a broken connection included, forgets the cookie there is
\* now.  id is removed by the editor of the cookie's file, so that it stays.
Forget(t) ==
  /\ thread[t].pc = "asked"
  /\ cookie' = [cookie EXCEPT ![thread[t].name] = None]
  /\ access' = IF thread[t].left THEN access ELSE None
  /\ cause' = cause \cup {c \in {"check"} : cookie[thread[t].name] # None}
  /\ thread' = [thread EXCEPT ![t] = Free]
  /\ UNCHANGED <<owner, id, connect, inside, form>>

-----------------------------------------------------------------------------
ThreadStep(t) == \/ Read(t) \/ Build(t) \/ Serve(t) \/ Refuse(t)
                 \/ Save(t) \/ SaveIdentity(t) \/ Enter(t)
                 \/ Ask(t) \/ Admit(t) \/ Forget(t)

Next ==
  \/ OpenConnection \/ Close \/ StartAgain \/ Restart
  \/ \E t \in Threads : Check(t) \/ ThreadStep(t) \/ \E e \in Emails : Click(t, e)

Spec == Init /\ [][Next]_vars

-----------------------------------------------------------------------------
(* Properties.                                                              *)

(* However logins overlap, fail and outlive their screens, the cookie kept   *)
(* for an address is a session of that address, and the identity is one that *)
(* has logged in, unless the field changed between two of the times a thread *)
(* reads it (ConnectionActivity.java:93, 137, RequeteHTTP.java:123, 186).   *)
CookieOwn ==
  "retyped" \notin cause =>
    /\ \A e \in Emails : cookie[e] # None => owner[cookie[e]] = e
    /\ id # None => \E k \in Keys : owner[k] = id

(* With nothing under way every session of the server is the one kept for    *)
(* its address, and if one is kept the button of the start screen leads to   *)
(* one, unless two threads were under way at a time, a login was begun for   *)
(* an address with a session, an answer was lost or told of an error after   *)
(* SET, a check failed, or the process ended under a thread                  *)
(* (RequeteHTTP.java:185-189, Accueil.java:138, 202-208).                   *)
PhoneTrue ==
  cause = {} /\ (\A t \in Threads : ~ Busy(t)) =>
    /\ \A k \in Keys : owner[k] # None => cookie[owner[k]] = k
    /\ (\E e \in Emails : cookie[e] # None) => Access # None
    /\ AtStart => access = Access

=============================================================================
