-------------------------- MODULE AppSessionProofs --------------------------
(***************************************************************************)
(* For every set of addresses, keys and worker threads: the application     *)
(* keeps for an address only a session of that address, whatever overlaps,  *)
(* fails or outlives its screen, as long as no field changes under a thread; *)
(* and it keeps what the server has when nothing came between.              *)
(***************************************************************************)
EXTENDS AppSession, TLAPS

\* What a worker has read is there.
Held(w) ==
  /\ w.pc \in {"read", "sent"} => w.email \in Emails
  /\ w.pc \in {"sent", "answered", "failed", "saved", "named"} \cup CheckPCs => w.name \in Emails
  /\ w.pc = "answered" => w.value # None

\* So is what it will read, in the login screen or in what was left of it.
Carried ==
  \A t \in Threads :
    /\ Held(thread[t])
    /\ Logging(t) => Field(t) \in Emails /\ (thread[t].left \/ connect)

\* What thread t will do for an address it does for the address it logged in.
Straight(t) ==
  LET w == thread[t] IN
  /\ w.pc \in {"sent", "answered", "failed"} =>
       (w.value # None => owner[w.value] = w.name)
  /\ w.pc = "sent" => w.name = w.email
  /\ w.pc = "saved" => \E k \in Keys : owner[k] = w.name

Owned ==
  "retyped" \notin cause => (\A t \in Threads : Straight(t)) /\ CookieOwn

IInv == TypeOK /\ Carried

ScreenStep == OpenConnection \/ Close \/ StartAgain \/ Restart

----------------------------------------------------------------------------
(* Types.                                                                  *)

(* The worker that is free, and one that has left its screen, are workers.  *)
LEMMA FreeWorker == Free \in Worker
BY DEF Free, Worker

(* What is left of the threads of T when their screens are gone.            *)
LEMMA LeftFrame ==
  ASSUME TypeOK, NEW T
  PROVE  /\ Left(T) \in [Threads -> Worker]
         /\ \A t \in Threads :
              \/ Left(T)[t] = thread[t] /\ (t \notin T \/ thread[t].left)
              \/ /\ t \in T /\ ~ thread[t].left
                 /\ Left(T)[t] = [thread[t] EXCEPT !.left = TRUE, !.field = form]
<1>1. \A t \in Threads : thread[t] \in Worker
  BY DEF TypeOK
<1>2. \A t \in Threads : [thread[t] EXCEPT !.left = TRUE, !.field = form] \in Worker
  BY <1>1 DEF Worker, TypeOK
<1> QED
  BY <1>1, <1>2 DEF Left

(* The button names an address or nobody.                                  *)
LEMMA AccessType == ASSUME TypeOK PROVE Access \in Emails \cup {None}
BY DEF Access, TypeOK

LEMMA ScreenType == ASSUME IInv, ScreenStep PROVE TypeOK'
<1>1. CASE OpenConnection
  BY <1>1 DEF IInv, TypeOK, OpenConnection
<1>2. CASE Close
  <2>1. thread' \in [Threads -> Worker]
    <3>1. thread' = thread \/ thread' = Left({t \in Threads : Logging(t)})
      BY <1>2 DEF Close
    <3>2. Left({t \in Threads : Logging(t)}) \in [Threads -> Worker]
      BY LeftFrame DEF IInv
    <3> QED
      BY <3>1, <3>2 DEF IInv, TypeOK
  <2>2. access' \in Emails \cup {None}
    <3>1. Access \in Emails \cup {None} /\ access \in Emails \cup {None}
      BY AccessType DEF IInv, TypeOK
    <3>2. access' = access \/ access' = Access
      BY <1>2 DEF Close
    <3> QED
      BY <3>1, <3>2
  <2> QED
    BY <1>2, <2>1, <2>2 DEF IInv, TypeOK, Close
<1>3. CASE StartAgain
  <2>1. thread' \in [Threads -> Worker]
    BY <1>3, LeftFrame DEF StartAgain, IInv
  <2> QED
    BY <1>3, <2>1, AccessType DEF IInv, TypeOK, StartAgain
<1>4. CASE Restart
  <2>1. thread' \in [Threads -> Worker]
    BY <1>4, FreeWorker DEF Restart
  <2>2. cause' \subseteq Causes
    <3>1. cause' = cause \/ cause' = cause \cup {"cut"}
      BY <1>4 DEF Restart
    <3> QED
      BY <3>1 DEF IInv, TypeOK, Causes
  <2> QED
    BY <1>4, <2>1, <2>2, AccessType DEF IInv, TypeOK, Restart
<1> QED
  BY <1>1, <1>2, <1>3, <1>4 DEF ScreenStep

(* A thread that begins.                                                   *)
LEMMA BeginFrame ==
  ASSUME TypeOK, NEW t \in Threads, NEW pc \in {"begin", "check"},
         NEW name \in Emails \cup {None}, Begin(t, pc, name)
  PROVE  /\ thread' \in [Threads -> Worker]
         /\ thread[t].pc = "free"
         /\ thread'[t] = [Free EXCEPT !.pc = pc, !.name = name]
         /\ thread'[t].pc = pc /\ ~ thread'[t].left /\ thread'[t].name = name
         /\ \A s \in Threads : s # t => thread'[s] = thread[s]
<1>1. [Free EXCEPT !.pc = pc, !.name = name] \in Worker
  BY DEF Free, Worker, LoginPCs, CheckPCs
<1> QED
  BY <1>1 DEF Begin, Busy, TypeOK, Free

LEMMA ClickType ==
  ASSUME IInv, NEW t \in Threads, NEW e \in Emails, Click(t, e) PROVE TypeOK'
<1>1. thread' \in [Threads -> Worker]
  BY BeginFrame DEF Click, IInv
<1>2. cause' \subseteq Causes
  BY DEF Click, Beside, Causes, IInv, TypeOK
<1> QED
  BY <1>1, <1>2 DEF Click, IInv, TypeOK

LEMMA CheckType == ASSUME IInv, NEW t \in Threads, Check(t) PROVE TypeOK'
<1>1. thread' \in [Threads -> Worker]
  BY BeginFrame DEF Check, IInv, TypeOK
<1>2. cause' \subseteq Causes
  BY DEF Check, Beside, Causes, IInv, TypeOK
<1> QED
  BY <1>1, <1>2 DEF Check, IInv, TypeOK

(* The field a thread reads is an address or nothing.                       *)
LEMMA FieldType ==
  ASSUME TypeOK, NEW t \in Threads PROVE Field(t) \in Emails \cup {None}
BY DEF TypeOK, Field, Worker

LEMMA RetypedType == ASSUME NEW e, NEW n PROVE Retyped(e, n) \subseteq Causes
BY DEF Retyped, Causes

\* Worker v may take the place of worker w.
Follows(v, w) ==
  /\ v \in Worker /\ Held(v)
  /\ w.pc \in LoginPCs \cup CheckPCs
  /\ v.pc \in LoginPCs => w.pc \in LoginPCs /\ v.left = w.left /\ v.field = w.field

\* A step replaces the worker of thread t by one that may take its place.
Replaced(t) == \E v : thread' = [thread EXCEPT ![t] = v] /\ Follows(v, thread[t])

(* The fields of a worker, for a thread of a reachable state.               *)
LEMMA WorkerFields ==
  ASSUME IInv, NEW t \in Threads
  PROVE  /\ thread[t] \in Worker /\ Held(thread[t])
         /\ Field(t) \in Emails \cup {None}
         /\ thread[t].pc \in LoginPCs => Field(t) \in Emails
         /\ \A e \in Emails : cookie[e] \in Keys \cup {None}
BY FieldType DEF IInv, Carried, Logging, TypeOK

(* A thread that has ended leaves a free one.                               *)
LEMMA FreeFollows ==
  ASSUME NEW w, w.pc \in LoginPCs \cup CheckPCs PROVE Follows(Free, w)
BY FreeWorker DEF Follows, Held, Free, LoginPCs, CheckPCs

LEMMA ReadReplaces ==
  ASSUME IInv, NEW t \in Threads, Read(t)
  PROVE  Replaced(t)
<1> DEFINE w == thread[t]
           v == [w EXCEPT !.pc = "read", !.email = Field(t)]
<1>1. w \in Worker /\ Held(w)
  BY WorkerFields
<1>2. Follows(v, w)
  BY <1>1, WorkerFields DEF Follows, Held, Worker, Read, LoginPCs, CheckPCs
<1>3. thread' = [thread EXCEPT ![t] = v]
  BY DEF Read, IInv, TypeOK
<1> QED
  BY <1>2, <1>3 DEF Replaced

LEMMA BuildReplaces ==
  ASSUME IInv, NEW t \in Threads, Build(t)
  PROVE  Replaced(t)
<1> DEFINE w == thread[t]
           v == [w EXCEPT !.pc = "sent", !.name = Field(t), !.value = cookie[Field(t)]]
<1>1. w \in Worker /\ Held(w)
  BY WorkerFields
<1>2. Follows(v, w)
  BY <1>1, WorkerFields DEF Follows, Held, Worker, Build, LoginPCs, CheckPCs
<1>3. thread' = [thread EXCEPT ![t] = v]
  BY DEF Build, IInv, TypeOK
<1> QED
  BY <1>2, <1>3 DEF Replaced

LEMMA AskReplaces ==
  ASSUME IInv, NEW t \in Threads, Ask(t)
  PROVE  Replaced(t)
<1> DEFINE w == thread[t]
           v == [w EXCEPT !.pc = "asked", !.value = cookie[w.name]]
<1>1. w \in Worker /\ Held(w)
  BY WorkerFields
<1>2. Follows(v, w)
  BY <1>1, WorkerFields DEF Follows, Held, Worker, Ask, LoginPCs, CheckPCs
<1>3. thread' = [thread EXCEPT ![t] = v]
  BY DEF Ask, IInv, TypeOK
<1> QED
  BY <1>2, <1>3 DEF Replaced

LEMMA SaveIdentityReplaces ==
  ASSUME IInv, NEW t \in Threads, SaveIdentity(t)
  PROVE  Replaced(t)
<1> DEFINE w == thread[t]
           v == [w EXCEPT !.pc = "named"]
<1>1. w \in Worker /\ Held(w)
  BY WorkerFields
<1>2. Follows(v, w)
  BY <1>1, WorkerFields DEF Follows, Held, Worker, SaveIdentity, LoginPCs, CheckPCs
<1>3. thread' = [thread EXCEPT ![t] = v]
  BY DEF SaveIdentity, IInv, TypeOK
<1> QED
  BY <1>2, <1>3 DEF Replaced

LEMMA ServeReplaces ==
  ASSUME IInv, NEW t \in Threads, Serve(t)
  PROVE  Replaced(t)
<1> DEFINE w == thread[t]
<1>1. w \in Worker /\ Held(w) /\ w.pc = "sent"
  BY WorkerFields DEF Serve
<1>2. PICK k \in Keys :
        \/ thread' = [thread EXCEPT ![t].pc = "answered", ![t].value = k]
        \/ thread' = [thread EXCEPT ![t].pc = "failed", ![t].value = k]
        \/ thread' = [thread EXCEPT ![t].pc = "failed"]
        \/ thread' = [thread EXCEPT ![t] = Free]
  BY DEF Serve
<1>3. ASSUME NEW v, thread' = [thread EXCEPT ![t] = v],
             v \in { [w EXCEPT !.pc = "answered", !.value = k],
                     [w EXCEPT !.pc = "failed", !.value = k], [w EXCEPT !.pc = "failed"] }
      PROVE  Follows(v, w)
  <2>1. k # None
    BY NoneAssumption
  <2> QED
    BY <1>1, <1>3, <2>1 DEF Follows, Held, Worker, LoginPCs, CheckPCs
<1>4. CASE thread' = [thread EXCEPT ![t] = Free]
  BY <1>1, <1>4, FreeFollows DEF LoginPCs, Replaced
<1>5. CASE thread' = [thread EXCEPT ![t].pc = "answered", ![t].value = k]
  <2>1. thread' = [thread EXCEPT ![t] = [w EXCEPT !.pc = "answered", !.value = k]]
    BY <1>5 DEF IInv, TypeOK
  <2> QED
    BY <1>3, <2>1 DEF Replaced
<1>6. CASE thread' = [thread EXCEPT ![t].pc = "failed", ![t].value = k]
  <2>1. thread' = [thread EXCEPT ![t] = [w EXCEPT !.pc = "failed", !.value = k]]
    BY <1>6 DEF IInv, TypeOK
  <2> QED
    BY <1>3, <2>1 DEF Replaced
<1>7. CASE thread' = [thread EXCEPT ![t].pc = "failed"]
  <2>1. thread' = [thread EXCEPT ![t] = [w EXCEPT !.pc = "failed"]]
    BY <1>7 DEF IInv, TypeOK
  <2> QED
    BY <1>3, <2>1 DEF Replaced
<1> QED
  BY <1>2, <1>4, <1>5, <1>6, <1>7

LEMMA RefuseReplaces ==
  ASSUME IInv, NEW t \in Threads, Refuse(t)
  PROVE  Replaced(t)
<1> DEFINE w == thread[t]
<1>1. w \in Worker /\ Held(w) /\ w.pc = "sent"
  BY WorkerFields DEF Refuse
<1>2. Follows([w EXCEPT !.pc = "failed"], w)
  BY <1>1 DEF Follows, Held, Worker, LoginPCs, CheckPCs
<1>3. Follows(Free, w)
  BY <1>1, FreeFollows DEF LoginPCs
<1>4. \/ thread' = [thread EXCEPT ![t] = [w EXCEPT !.pc = "failed"]]
      \/ thread' = [thread EXCEPT ![t] = Free]
  BY DEF Refuse, IInv, TypeOK
<1> QED
  BY <1>2, <1>3, <1>4 DEF Replaced

LEMMA SaveReplaces ==
  ASSUME IInv, NEW t \in Threads, Save(t)
  PROVE  Replaced(t)
<1> DEFINE w == thread[t]
<1>1. w \in Worker /\ Held(w) /\ w.pc \in {"answered", "failed"}
  BY WorkerFields DEF Save
<1>2. Follows([w EXCEPT !.pc = "saved"], w)
  BY <1>1 DEF Follows, Held, Worker, LoginPCs, CheckPCs
<1>3. Follows(Free, w)
  BY <1>1, FreeFollows DEF LoginPCs
<1>4. \/ thread' = [thread EXCEPT ![t] = [w EXCEPT !.pc = "saved"]]
      \/ thread' = [thread EXCEPT ![t] = Free]
  BY DEF Save, IInv, TypeOK
<1> QED
  BY <1>2, <1>3, <1>4 DEF Replaced

(* Every step of a thread but the last of a login replaces one worker.      *)
LEMMA WorkerReplaces ==
  ASSUME IInv, NEW t \in Threads, ThreadStep(t), ~ Enter(t)
  PROVE  /\ UNCHANGED <<connect, form>>
         /\ Replaced(t)
<1>1. UNCHANGED <<connect, form>>
  BY DEF ThreadStep, Read, Build, Serve, Refuse, Save, SaveIdentity, Ask, Admit, Forget
<1>2. ASSUME Admit(t) \/ Forget(t) PROVE Replaced(t)
  <2>1. thread' = [thread EXCEPT ![t] = Free] /\ thread[t].pc \in LoginPCs \cup CheckPCs
    BY <1>2 DEF Admit, Forget, CheckPCs
  <2>2. Follows(Free, thread[t])
    BY <2>1, FreeFollows
  <2> QED
    BY <2>1, <2>2 DEF Replaced
<1>3. ASSUME ~(Admit(t) \/ Forget(t)) PROVE Replaced(t)
  BY <1>3, ReadReplaces, BuildReplaces, ServeReplaces, RefuseReplaces, SaveReplaces,
     SaveIdentityReplaces, AskReplaces DEF ThreadStep
<1> QED
  BY <1>1, <1>2, <1>3

(* A step that replaces one worker keeps what the workers carry.            *)
LEMMA ReplaceCarried ==
  ASSUME IInv, NEW t \in Threads, NEW v, thread' = [thread EXCEPT ![t] = v],
         Follows(v, thread[t]), UNCHANGED <<connect, form>>
  PROVE  thread' \in [Threads -> Worker] /\ Carried'
<1>1. /\ thread'[t] = v /\ v \in Worker
      /\ \A s \in Threads : s # t => thread'[s] = thread[s]
      /\ thread' \in [Threads -> Worker]
  BY DEF IInv, TypeOK, Follows
<1>2. ASSUME NEW s \in Threads
      PROVE  Held(thread'[s])
             /\ (Logging(s)' => Field(s)' \in Emails /\ (thread'[s].left \/ connect'))
  <2>1. CASE s = t
    <3>1. Held(thread'[s])
      BY <1>1, <2>1 DEF Follows
    <3>2. Logging(s)' => Logging(s) /\ Field(s)' = Field(s) /\ thread'[s].left = thread[s].left
      BY <1>1, <2>1 DEF Follows, Logging, Field
    <3> QED
      BY <3>1, <3>2 DEF IInv, Carried
  <2>2. CASE s # t
    <3>1. thread'[s] = thread[s] /\ Field(s)' = Field(s) /\ Logging(s)' = Logging(s)
      BY <1>1, <2>2 DEF Field, Logging
    <3> QED
      BY <3>1 DEF IInv, Carried
  <2> QED
    BY <2>1, <2>2
<1>3. Carried'
  BY <1>2 DEF Carried, Held
<1> QED
  BY <1>1, <1>3

(* A thread that goes on, or ends, keeps types and what is carried.         *)
LEMMA WorkerType ==
  ASSUME IInv, NEW t \in Threads, ThreadStep(t), ~ Enter(t) PROVE IInv'
<1>1. thread' \in [Threads -> Worker] /\ Carried'
  BY WorkerReplaces, ReplaceCarried DEF Replaced
<1>2. /\ Held(thread[t]) /\ thread[t] \in Worker
      /\ thread[t].pc \in LoginPCs => Field(t) \in Emails
  BY WorkerFields
<1>3. UNCHANGED <<connect, form>>
  BY WorkerReplaces
<1>4. owner' \in [Keys -> Emails \cup {None}]
  <2>1. CASE Serve(t)
    <3>1. PICK k \in Keys : owner' = [owner EXCEPT ![k] = thread[t].email]
      BY <2>1 DEF Serve
    <3> QED
      BY <1>2, <3>1 DEF IInv, TypeOK, Worker
  <2>2. CASE UNCHANGED owner
    BY <2>2 DEF IInv, TypeOK
  <2> QED
    BY <2>1, <2>2 DEF ThreadStep, Read, Build, Refuse, Save, SaveIdentity, Ask, Admit, Forget
<1>5. cookie' \in [Emails -> Keys \cup {None}]
  <2>1. CASE Save(t) \/ Forget(t)
    BY <1>2, <2>1 DEF Save, Forget, IInv, TypeOK, Worker
  <2>2. CASE UNCHANGED cookie
    BY <2>2 DEF IInv, TypeOK
  <2> QED
    BY <2>1, <2>2 DEF ThreadStep, Read, Build, Serve, Refuse, SaveIdentity, Ask, Admit
<1>6. /\ id' \in Emails \cup {None}
      /\ access' \in Emails \cup {None}
      /\ inside' \in Emails \cup {None}
  <2>1. /\ id' = id \/ id' = Field(t)
        /\ access' = access \/ access' = None
        /\ inside' = inside \/ inside' = thread[t].name
    BY DEF ThreadStep, Read, Build, Serve, Refuse, Save, SaveIdentity, Ask, Admit, Forget
  <2>2. Field(t) \in Emails \cup {None} /\ thread[t].name \in Emails \cup {None}
    BY <1>2, WorkerFields DEF Worker
  <2> QED
    BY <2>1, <2>2 DEF IInv, TypeOK
<1>7. cause' \subseteq Causes
  <2>1. \/ cause' = cause
        \/ cause' = cause \cup Retyped(Field(t), thread[t].email)
        \/ cause' = cause \cup Retyped(Field(t), thread[t].name)
        \/ cause' = cause \cup {"error"} \/ cause' = cause \cup {"lost"}
        \/ cause' = cause \cup {c \in {"check"} : cookie[thread[t].name] # None}
    BY DEF ThreadStep, Read, Build, Serve, Refuse, Save, SaveIdentity, Ask, Admit, Forget
  <2> QED
    BY <2>1, RetypedType DEF IInv, TypeOK, Causes
<1> QED
  BY <1>1, <1>3, <1>4, <1>5, <1>6, <1>7 DEF IInv, TypeOK

(* The last step of a login, which may end the login screen.                *)
LEMMA EnterType == ASSUME IInv, NEW t \in Threads, Enter(t) PROVE IInv'
<1> DEFINE L == Left({s \in Threads : Logging(s)})
<1>1. /\ L \in [Threads -> Worker]
      /\ \A s \in Threads :
           \/ L[s] = thread[s] /\ (~ Logging(s) \/ thread[s].left)
           \/ L[s] = [thread[s] EXCEPT !.left = TRUE, !.field = form]
              /\ Logging(s) /\ ~ thread[s].left
  BY LeftFrame DEF IInv
<1> HIDE DEF L
<1>2. Free \in Worker /\ Held(Free) /\ Free.pc \notin LoginPCs
  BY FreeWorker DEF Held, Free, LoginPCs, CheckPCs
<1>3. /\ thread' \in [Threads -> Worker] /\ thread'[t] = Free
      /\ \A s \in Threads : s # t => thread'[s] = IF thread[t].left THEN thread[s] ELSE L[s]
      /\ IF thread[t].left THEN connect' = connect /\ form' = form
         ELSE connect' = FALSE /\ form' = None
  BY <1>1, <1>2 DEF Enter, L, IInv, TypeOK
<1>4. ASSUME NEW s \in Threads
      PROVE  Held(thread'[s])
             /\ (Logging(s)' => Field(s)' \in Emails /\ (thread'[s].left \/ connect'))
  <2>1. CASE s = t
    BY <1>2, <1>3, <2>1 DEF Logging
  <2>2. CASE s # t /\ thread'[s] = thread[s] /\ (thread[t].left \/ ~ Logging(s) \/ thread[s].left)
    <3>1. Held(thread[s]) /\ (Logging(s) => Field(s) \in Emails /\ (thread[s].left \/ connect))
      BY DEF IInv, Carried
    <3> QED
      BY <1>3, <2>2, <3>1 DEF Logging, Field
  <2>3. CASE /\ s # t /\ Logging(s) /\ ~ thread[s].left
             /\ thread'[s] = [thread[s] EXCEPT !.left = TRUE, !.field = form]
    <3>1. Held(thread[s]) /\ form \in Emails /\ thread[s] \in Worker
      BY <2>3 DEF IInv, TypeOK, Carried, Field
    <3>2. /\ thread'[s].left /\ thread'[s].field = form
          /\ thread'[s].pc = thread[s].pc /\ thread'[s].email = thread[s].email
          /\ thread'[s].name = thread[s].name /\ thread'[s].value = thread[s].value
      BY <2>3, <3>1 DEF Worker
    <3> QED
      BY <3>1, <3>2 DEF Held, Field
  <2> QED
    BY <1>1, <1>3, <2>1, <2>2, <2>3
<1>5. Carried'
  BY <1>4 DEF Carried, Held
<1>6. inside' \in Emails \cup {None} /\ cause' \subseteq Causes
  BY FieldType, RetypedType DEF Enter, IInv, TypeOK
<1>7. connect' \in BOOLEAN /\ form' \in Emails \cup {None}
  BY <1>3 DEF IInv, TypeOK
<1> QED
  BY <1>3, <1>5, <1>6, <1>7 DEF Enter, IInv, TypeOK

(* A thread that begins carries what it has.                                *)
LEMMA BeginCarried ==
  ASSUME IInv, NEW t \in Threads, NEW pc \in {"begin", "check"},
         NEW name \in Emails \cup {None}, Begin(t, pc, name),
         UNCHANGED connect,
         pc = "begin" => connect /\ form' \in Emails,
         pc = "check" => name \in Emails /\ UNCHANGED form
  PROVE  Carried'
<1>1. /\ thread'[t] = [Free EXCEPT !.pc = pc, !.name = name]
      /\ thread'[t].pc = pc /\ ~ thread'[t].left /\ thread'[t].name = name
      /\ \A s \in Threads : s # t => thread'[s] = thread[s]
  BY DEF Begin, Free, IInv, TypeOK
<1>2. ASSUME NEW s \in Threads
      PROVE  Held(thread'[s])
             /\ (Logging(s)' => Field(s)' \in Emails /\ (thread'[s].left \/ connect'))
  <2>1. CASE s = t
    <3>1. Held(thread'[s])
      BY <1>1, <2>1 DEF Held, CheckPCs
    <3>2. Logging(s)' => pc = "begin"
      BY <1>1, <2>1 DEF Logging, LoginPCs
    <3> QED
      BY <1>1, <2>1, <3>1, <3>2 DEF Field
  <2>2. CASE s # t
    <3>1. Held(thread[s]) /\ (Logging(s) => Field(s) \in Emails /\ (thread[s].left \/ connect))
      BY DEF IInv, Carried
    <3> QED
      BY <1>1, <2>2, <3>1 DEF Field, Logging
  <2> QED
    BY <2>1, <2>2
<1> QED
  BY <1>2 DEF Carried, Held

LEMMA ClickKeeps ==
  ASSUME IInv, NEW t \in Threads, NEW e \in Emails, Click(t, e) PROVE IInv'
<1>1. Begin(t, "begin", None) /\ UNCHANGED connect /\ connect /\ form' = e
  BY DEF Click
<1>2. Carried'
  BY <1>1, BeginCarried
<1> QED
  BY <1>2, ClickType DEF IInv

LEMMA CheckKeeps == ASSUME IInv, NEW t \in Threads, Check(t) PROVE IInv'
<1>1. Begin(t, "check", access) /\ UNCHANGED <<connect, form>> /\ access \in Emails
  BY DEF Check, IInv, TypeOK
<1>2. Carried'
  BY <1>1, BeginCarried
<1> QED
  BY <1>2, CheckType DEF IInv

(* Screens come and go, and their threads keep what they carry.             *)
LEMMA LeftCarried ==
  ASSUME IInv, NEW T, thread' = Left(T),
         \A t \in Threads : Logging(t) => t \in T
  PROVE  Carried'
<1>1. \A t \in Threads :
        \/ Left(T)[t] = thread[t] /\ (t \notin T \/ thread[t].left)
        \/ /\ t \in T /\ ~ thread[t].left
           /\ Left(T)[t] = [thread[t] EXCEPT !.left = TRUE, !.field = form]
  BY LeftFrame DEF IInv
<1>2. ASSUME NEW s \in Threads
      PROVE  Held(thread'[s])
             /\ (Logging(s)' => Field(s)' \in Emails /\ (thread'[s].left \/ connect'))
  <2>1. Held(thread[s]) /\ (Logging(s) => Field(s) \in Emails) /\ thread[s] \in Worker
    BY DEF IInv, TypeOK, Carried
  <2>2. CASE thread'[s] = thread[s] /\ (s \notin T \/ thread[s].left)
    BY <2>1, <2>2 DEF Logging, Field
  <2>3. CASE ~ thread[s].left /\ thread'[s] = [thread[s] EXCEPT !.left = TRUE, !.field = form]
    <3>1. /\ thread'[s].left /\ thread'[s].field = form
          /\ thread'[s].pc = thread[s].pc /\ thread'[s].email = thread[s].email
          /\ thread'[s].name = thread[s].name /\ thread'[s].value = thread[s].value
      BY <2>1, <2>3 DEF Worker
    <3>2. Field(s)' = Field(s)
      BY <2>3, <3>1 DEF Field
    <3> QED
      BY <2>1, <3>1, <3>2 DEF Held, Logging
  <2> QED
    BY <1>1, <2>2, <2>3
<1> QED
  BY <1>2 DEF Carried, Held

LEMMA ScreenKeeps == ASSUME IInv, ScreenStep PROVE IInv'
<1>1. ASSUME thread' = thread, connect' = connect \/ connect',
             form' = form \/ (\A t \in Threads : ~ (Logging(t) /\ ~ thread[t].left))
      PROVE  Carried'
  <2>1. ASSUME NEW s \in Threads
        PROVE  Held(thread'[s])
               /\ (Logging(s)' => Field(s)' \in Emails /\ (thread'[s].left \/ connect'))
    <3>1. Held(thread[s]) /\ (Logging(s) => Field(s) \in Emails /\ (thread[s].left \/ connect))
      BY DEF IInv, Carried
    <3> QED
      BY <1>1, <3>1 DEF Logging, Field
  <2> QED
    BY <2>1 DEF Carried, Held
<1>2. CASE OpenConnection
  <2>1. \A t \in Threads : ~ (Logging(t) /\ ~ thread[t].left)
    BY <1>2 DEF OpenConnection, Buttons, AtStart, IInv, Carried
  <2>2. Carried'
    BY <1>1, <1>2, <2>1 DEF OpenConnection
  <2> QED
    BY <2>2, ScreenType DEF IInv
<1>3. CASE Close
  <2>1. CASE inside # None
    <3>1. Carried'
      BY <1>1, <1>3, <2>1 DEF Close
    <3> QED
      BY <3>1, ScreenType DEF IInv
  <2>2. CASE inside = None
    <3>1. thread' = Left({t \in Threads : Logging(t)})
      BY <1>3, <2>2 DEF Close
    <3>2. Carried'
      BY <3>1, LeftCarried
    <3> QED
      BY <3>2, ScreenType DEF IInv
  <2> QED
    BY <2>1, <2>2
<1>4. CASE StartAgain
  <2>1. thread' = Left({t \in Threads : Busy(t)})
    BY <1>4 DEF StartAgain
  <2>2. \A t \in Threads : Logging(t) => t \in {s \in Threads : Busy(s)}
    BY DEF Logging, LoginPCs, Busy
  <2>3. Carried'
    BY <2>1, <2>2, LeftCarried
  <2> QED
    BY <2>3, ScreenType DEF IInv
<1>5. CASE Restart
  <2>1. \A t \in Threads : thread'[t] = Free
    BY <1>5 DEF Restart
  <2>2. Carried'
    BY <2>1 DEF Carried, Held, Logging, Free, LoginPCs, CheckPCs
  <2> QED
    BY <2>2, ScreenType DEF IInv
<1> QED
  BY <1>2, <1>3, <1>4, <1>5 DEF ScreenStep

LEMMA StrengthenedInit == Init => IInv
<1> SUFFICES ASSUME Init PROVE IInv
  OBVIOUS
<1>1. \A t \in Threads : thread[t] = Free
  BY DEF Init
<1>2. TypeOK
  BY FreeWorker DEF Init, TypeOK, Causes
<1>3. Carried
  BY <1>1 DEF Carried, Held, Logging, Free, LoginPCs, CheckPCs
<1> QED
  BY <1>2, <1>3 DEF IInv

LEMMA StrengthenedStep == IInv /\ [Next]_vars => IInv'
<1> SUFFICES ASSUME IInv, [Next]_vars PROVE IInv'
  OBVIOUS
<1>1. CASE ScreenStep
  BY <1>1, ScreenKeeps
<1>2. ASSUME NEW t \in Threads, Check(t) PROVE IInv'
  BY <1>2, CheckKeeps
<1>3. ASSUME NEW t \in Threads, ThreadStep(t) PROVE IInv'
  BY <1>3, WorkerType, EnterType
<1>4. ASSUME NEW t \in Threads, NEW e \in Emails, Click(t, e) PROVE IInv'
  BY <1>4, ClickKeeps
<1>5. CASE UNCHANGED vars
  BY <1>5 DEF vars, IInv, TypeOK, Carried, Held, Logging, Field
<1> QED
  BY <1>1, <1>2, <1>3, <1>4, <1>5 DEF Next, ScreenStep

(* What a thread will use is there, also when its login screen is gone.     *)
THEOREM Strengthened == Spec => []IInv
BY StrengthenedInit, StrengthenedStep, PTL DEF Spec

(* The application's state has its types.                                   *)
THEOREM TypeCorrect == Spec => []TypeOK
<1>1. IInv => TypeOK
  BY DEF IInv
<1> QED
  BY <1>1, Strengthened, PTL

----------------------------------------------------------------------------
(* Cookies and their owners.                                               *)

\* Redis keeps what it has at a key.
OwnerKept == \A k \in Keys : owner[k] # None => owner'[k] = owner[k]

(* A thread whose step comes to nothing stays straight.                     *)
LEMMA StraightStays ==
  ASSUME IInv, NEW s \in Threads, Straight(s), OwnerKept,
         \/ /\ thread'[s].pc = thread[s].pc /\ thread'[s].email = thread[s].email
            /\ thread'[s].name = thread[s].name /\ thread'[s].value = thread[s].value
         \/ thread'[s].pc \notin {"sent", "answered", "failed", "saved"}
  PROVE  Straight(s)'
<1>1. CASE thread'[s].pc \notin {"sent", "answered", "failed", "saved"}
  BY <1>1 DEF Straight
<1>2. CASE /\ thread[s].pc \in {"sent", "answered", "failed", "saved"}
           /\ thread'[s].pc = thread[s].pc /\ thread'[s].email = thread[s].email
           /\ thread'[s].name = thread[s].name /\ thread'[s].value = thread[s].value
  <2>1. thread[s].name \in Emails /\ thread[s].name # None
    BY <1>2, WorkerFields, NoneAssumption DEF Held
  <2>2. thread[s].value \in Keys \cup {None}
    BY WorkerFields DEF Worker
  <2> QED
    BY <1>2, <2>1, <2>2 DEF Straight, OwnerKept
<1> QED
  BY <1>1, <1>2

(* A cookie that stays, or is forgotten, has its owner; so has the identity. *)
LEMMA CookieStays ==
  ASSUME IInv, CookieOwn, "retyped" \notin cause, OwnerKept, UNCHANGED id,
         \A e \in Emails : cookie'[e] = cookie[e] \/ cookie'[e] = None
  PROVE  CookieOwn'
<1>1. id # None => id \in Emails /\ \E k \in Keys : owner[k] = id
  BY DEF IInv, TypeOK, CookieOwn
<1>2. ASSUME NEW e \in Emails, cookie'[e] # None PROVE owner'[cookie'[e]] = e
  <2>1. cookie'[e] = cookie[e] \/ cookie'[e] = None
    OBVIOUS
  <2>2. cookie'[e] = cookie[e] /\ cookie[e] # None
    BY <1>2, <2>1
  <2>3. cookie[e] \in Keys
    BY <2>2 DEF IInv, TypeOK
  <2>4. owner[cookie[e]] = e /\ e # None
    BY <2>2, NoneAssumption DEF CookieOwn
  <2> QED
    BY <2>2, <2>3, <2>4 DEF OwnerKept
<1>3. id' # None => \E k \in Keys : owner'[k] = id'
  BY <1>1, NoneAssumption DEF OwnerKept
<1> QED
  BY <1>2, <1>3 DEF CookieOwn

(* Every step but a login that is served leaves Redis alone, and that one    *)
(* takes a free key.                                                        *)
LEMMA OwnerStep == ASSUME IInv, [Next]_vars PROVE OwnerKept
<1>1. CASE \E t \in Threads : Serve(t)
  <2>0. PICK t \in Threads : Serve(t)
    BY <1>1
  <2>1. PICK k \in Keys :
          owner[k] = None /\ owner' = [owner EXCEPT ![k] = thread[t].email]
    BY <2>0 DEF Serve
  <2> QED
    BY <2>1 DEF OwnerKept, IInv, TypeOK
<1>2. CASE UNCHANGED owner
  BY <1>2 DEF OwnerKept
<1> QED
  BY <1>1, <1>2 DEF Next, OpenConnection, Close, StartAgain, Restart, Check, Click, ThreadStep,
     Read, Build, Refuse, Save, SaveIdentity, Enter, Ask, Admit, Forget, vars

(* The steps that neither log in nor write a preference keep Owned.         *)
LEMMA QuietOwned ==
  ASSUME IInv, Owned, OwnerKept, cause \subseteq cause', UNCHANGED id,
         \A e \in Emails : cookie'[e] = cookie[e] \/ cookie'[e] = None,
         \A s \in Threads :
           \/ /\ thread'[s].pc = thread[s].pc /\ thread'[s].email = thread[s].email
              /\ thread'[s].name = thread[s].name /\ thread'[s].value = thread[s].value
           \/ thread'[s].pc \notin {"sent", "answered", "failed", "saved"}
  PROVE  Owned'
<1> SUFFICES ASSUME "retyped" \notin cause
             PROVE  (\A s \in Threads : Straight(s)') /\ CookieOwn'
  BY DEF Owned
<1>1. (\A s \in Threads : Straight(s)) /\ CookieOwn
  BY DEF Owned
<1>2. CookieOwn'
  BY <1>1, CookieStays
<1>3. \A s \in Threads : Straight(s)'
  BY <1>1, StraightStays
<1> QED
  BY <1>2, <1>3

LEMMA ScreenOwned == ASSUME IInv, Owned, OwnerKept, ScreenStep PROVE Owned'
<1>1. UNCHANGED <<id, cookie>> /\ cause \subseteq cause'
  BY DEF ScreenStep, OpenConnection, Close, StartAgain, Restart
<1>2. ASSUME NEW T, NEW s \in Threads, thread' = Left(T)
      PROVE  /\ thread'[s].pc = thread[s].pc /\ thread'[s].email = thread[s].email
             /\ thread'[s].name = thread[s].name /\ thread'[s].value = thread[s].value
  <2>1. thread[s] \in Worker
    BY DEF IInv, TypeOK
  <2>2. thread'[s] = thread[s] \/ thread'[s] = [thread[s] EXCEPT !.left = TRUE, !.field = form]
    BY <1>2 DEF Left
  <2> QED
    BY <2>1, <2>2 DEF Worker
<1>3. ASSUME NEW s \in Threads
      PROVE  \/ /\ thread'[s].pc = thread[s].pc /\ thread'[s].email = thread[s].email
                /\ thread'[s].name = thread[s].name /\ thread'[s].value = thread[s].value
             \/ thread'[s].pc \notin {"sent", "answered", "failed", "saved"}
  <2>1. CASE \E T : thread' = Left(T)
    BY <1>2, <2>1
  <2>2. CASE thread' = thread
    BY <2>2
  <2>3. CASE Restart
    BY <2>3 DEF Restart, Free
  <2> QED
    BY <2>1, <2>2, <2>3 DEF ScreenStep, OpenConnection, Close, StartAgain
<1> QED
  BY <1>1, <1>3, QuietOwned

(* The steps of a thread that write nothing.                                *)
LEMMA IdleOwned ==
  ASSUME IInv, Owned, OwnerKept, NEW t \in Threads,
         \/ Check(t) \/ Ask(t) \/ Admit(t) \/ Forget(t) \/ Read(t)
         \/ \E e \in Emails : Click(t, e)
  PROVE  Owned'
<1>0. PICK a \in Emails \cup {None} :
        Check(t) \/ Ask(t) \/ Admit(t) \/ Forget(t) \/ Read(t) \/ Click(t, a)
  OBVIOUS
<1>1. UNCHANGED id /\ cause \subseteq cause'
  BY <1>0 DEF Check, Click, Ask, Admit, Forget, Read
<1>2. \A e \in Emails : cookie'[e] = cookie[e] \/ cookie'[e] = None
  BY <1>0 DEF Check, Click, Ask, Admit, Forget, Read, IInv, TypeOK
<1>3. \A s \in Threads : s # t => thread'[s] = thread[s]
  <2>1. CASE Check(t) \/ Click(t, a)
    BY <2>1 DEF Check, Click, Begin, IInv, TypeOK
  <2>2. CASE Ask(t) \/ Read(t)
    BY <2>2 DEF Ask, Read, IInv, TypeOK
  <2>3. CASE Admit(t) \/ Forget(t)
    BY <2>3 DEF Admit, Forget, IInv, TypeOK
  <2> QED
    BY <1>0, <2>1, <2>2, <2>3
<1>4. thread'[t].pc \notin {"sent", "answered", "failed", "saved"}
  <2>1. thread \in [Threads -> Worker]
    BY DEF IInv, TypeOK
  <2>2. CASE Check(t) \/ Click(t, a)
    BY <2>1, <2>2 DEF Check, Click, Begin, Free
  <2>3. CASE Ask(t) \/ Read(t)
    BY <2>1, <2>3 DEF Ask, Read, Worker
  <2>4. CASE Admit(t) \/ Forget(t)
    BY <2>1, <2>4 DEF Admit, Forget, Free
  <2> QED
    BY <1>0, <2>2, <2>3, <2>4
<1>5. \A s \in Threads :
        \/ /\ thread'[s].pc = thread[s].pc /\ thread'[s].email = thread[s].email
           /\ thread'[s].name = thread[s].name /\ thread'[s].value = thread[s].value
        \/ thread'[s].pc \notin {"sent", "answered", "failed", "saved"}
  BY <1>3, <1>4
<1> QED
  BY <1>1, <1>2, <1>5, QuietOwned

(* The other threads, when one thread that logs in takes a step.            *)
LEMMA OthersStraight ==
  ASSUME IInv, Owned, "retyped" \notin cause, OwnerKept, NEW t \in Threads,
         \A s \in Threads : s # t => thread'[s] = thread[s],
         Straight(t)'
  PROVE  \A s \in Threads : Straight(s)'
<1> SUFFICES ASSUME NEW s \in Threads, s # t PROVE Straight(s)'
  OBVIOUS
<1>1. Straight(s)
  BY DEF Owned
<1>2. thread'[s] = thread[s]
  OBVIOUS
<1> QED
  BY <1>1, <1>2, StraightStays

LEMMA BuildOwned ==
  ASSUME IInv, Owned, OwnerKept, NEW t \in Threads, Build(t) PROVE Owned'
<1> SUFFICES ASSUME "retyped" \notin cause' PROVE (\A s \in Threads : Straight(s)') /\ CookieOwn'
  BY DEF Owned
<1> DEFINE w == thread[t]
<1>1. /\ "retyped" \notin cause /\ Field(t) = w.email
      /\ UNCHANGED <<owner, id, cookie>>
  BY DEF Build, Retyped
<1>2. /\ CookieOwn /\ Field(t) \in Emails /\ w \in Worker
  BY <1>1, WorkerFields DEF Owned, Build, LoginPCs
<1>3. /\ thread'[t].pc = "sent" /\ thread'[t].email = w.email
      /\ thread'[t].name = Field(t) /\ thread'[t].value = cookie[Field(t)]
      /\ \A s \in Threads : s # t => thread'[s] = thread[s]
  BY <1>2 DEF Build, IInv, TypeOK, Worker
<1>4. cookie[Field(t)] # None => owner[cookie[Field(t)]] = Field(t)
  BY <1>1, <1>2 DEF CookieOwn
<1>5. Straight(t)'
  BY <1>1, <1>3, <1>4 DEF Straight
<1>6. CookieOwn'
  BY <1>1, <1>2, CookieStays
<1> QED
  BY <1>1, <1>3, <1>5, <1>6, OthersStraight

LEMMA ServeOwned ==
  ASSUME IInv, Owned, OwnerKept, NEW t \in Threads, Serve(t) \/ Refuse(t) PROVE Owned'
<1> SUFFICES ASSUME "retyped" \notin cause' PROVE (\A s \in Threads : Straight(s)') /\ CookieOwn'
  BY DEF Owned
<1> DEFINE w == thread[t]
<1>1. /\ "retyped" \notin cause /\ UNCHANGED <<id, cookie>> /\ w.pc = "sent"
      /\ \A s \in Threads : s # t => thread'[s] = thread[s]
  <2>1. w.pc = "sent" /\ UNCHANGED <<id, cookie>> /\ cause \subseteq cause'
    BY DEF Serve, Refuse
  <2>2. ThreadStep(t) /\ ~ Enter(t)
    BY <2>1 DEF ThreadStep, Enter
  <2>3. PICK v : thread' = [thread EXCEPT ![t] = v]
    BY <2>2, WorkerReplaces DEF Replaced
  <2> QED
    BY <2>1, <2>3
<1>2. CookieOwn /\ Straight(t) /\ w \in Worker /\ w.name \in Emails
  BY <1>1, WorkerFields DEF Owned, Held
<1>3. w.name = w.email /\ (w.value # None => owner[w.value] = w.name)
  BY <1>1, <1>2 DEF Straight
<1>4. CookieOwn'
  BY <1>1, <1>2, CookieStays
<1>5. CASE \/ thread' = [thread EXCEPT ![t].pc = "failed"]
           \/ thread' = [thread EXCEPT ![t] = Free]
  <2>1. \/ /\ thread'[t].pc = "failed"
           /\ thread'[t].name = w.name /\ thread'[t].value = w.value
        \/ thread'[t].pc = "free"
    BY <1>2, <1>5 DEF IInv, TypeOK, Worker, Free
  <2>2. w.value # None => owner'[w.value] = w.name
    BY <1>2, <1>3, NoneAssumption DEF OwnerKept, Worker
  <2>3. Straight(t)'
    BY <2>1, <2>2 DEF Straight
  <2> QED
    BY <1>1, <1>4, <2>3, OthersStraight
<1>6. ASSUME NEW k \in Keys, owner' = [owner EXCEPT ![k] = w.email],
             \/ thread' = [thread EXCEPT ![t].pc = "answered", ![t].value = k]
             \/ thread' = [thread EXCEPT ![t].pc = "failed", ![t].value = k]
      PROVE  (\A s \in Threads : Straight(s)') /\ CookieOwn'
  <2>1. /\ thread'[t].pc \in {"answered", "failed"}
        /\ thread'[t].name = w.name /\ thread'[t].value = k
    BY <1>2, <1>6 DEF IInv, TypeOK, Worker
  <2>2. owner'[k] = w.name
    BY <1>3, <1>6 DEF IInv, TypeOK
  <2>3. Straight(t)'
    BY <2>1, <2>2 DEF Straight
  <2> QED
    BY <1>1, <1>4, <2>3, OthersStraight
<1> QED
  BY <1>5, <1>6 DEF Serve, Refuse

LEMMA SaveOwned ==
  ASSUME IInv, Owned, OwnerKept, NEW t \in Threads, Save(t) PROVE Owned'
<1> SUFFICES ASSUME "retyped" \notin cause PROVE (\A s \in Threads : Straight(s)') /\ CookieOwn'
  BY DEF Owned, Save
<1> DEFINE w == thread[t]
<1>1. /\ UNCHANGED <<owner, id>> /\ w.pc \in {"answered", "failed"}
      /\ cookie' = [cookie EXCEPT ![w.name] = w.value]
      /\ \A s \in Threads : s # t => thread'[s] = thread[s]
  BY DEF Save
<1>2. /\ CookieOwn /\ Straight(t) /\ w \in Worker /\ Held(w)
      /\ w.name \in Emails
  BY <1>1, WorkerFields DEF Owned, Held
<1>3. w.value # None => w.value \in Keys /\ owner[w.value] = w.name
  BY <1>1, <1>2 DEF Straight, Worker
<1>4. \/ /\ w.pc = "answered" /\ thread'[t].pc = "saved" /\ thread'[t].name = w.name
      \/ thread'[t].pc = "free"
  BY <1>1, <1>2 DEF Save, IInv, TypeOK, Worker, Free
<1>5. Straight(t)'
  <2>1. w.pc = "answered" => w.value # None
    BY <1>2 DEF Held
  <2> QED
    BY <1>1, <1>3, <1>4, <2>1 DEF Straight
<1>6. CookieOwn'
  <2>1. ASSUME NEW e \in Emails, cookie'[e] # None PROVE owner'[cookie'[e]] = e
    <3>1. CASE e = w.name
      <4>1. cookie'[e] = w.value
        BY <1>1, <1>2, <3>1 DEF IInv, TypeOK
      <4> QED
        BY <1>1, <1>3, <2>1, <3>1, <4>1
    <3>2. CASE e # w.name
      <4>1. cookie'[e] = cookie[e]
        BY <1>1, <3>2 DEF IInv, TypeOK
      <4> QED
        BY <1>1, <1>2, <2>1, <4>1 DEF CookieOwn
    <3> QED
      BY <3>1, <3>2
  <2>2. id' # None => \E k \in Keys : owner'[k] = id'
    BY <1>1, <1>2 DEF CookieOwn
  <2> QED
    BY <2>1, <2>2 DEF CookieOwn
<1> QED
  BY <1>1, <1>5, <1>6, OthersStraight

LEMMA SaveIdentityOwned ==
  ASSUME IInv, Owned, OwnerKept, NEW t \in Threads, SaveIdentity(t) PROVE Owned'
<1> SUFFICES ASSUME "retyped" \notin cause' PROVE (\A s \in Threads : Straight(s)') /\ CookieOwn'
  BY DEF Owned
<1> DEFINE w == thread[t]
<1>1. /\ "retyped" \notin cause /\ Field(t) = w.name /\ id' = Field(t)
      /\ UNCHANGED <<owner, cookie>> /\ w.pc = "saved"
      /\ \A s \in Threads : s # t => thread'[s] = thread[s]
  BY DEF SaveIdentity, Retyped
<1>2. CookieOwn /\ Straight(t) /\ w \in Worker
  BY <1>1, WorkerFields DEF Owned
<1>3. thread'[t].pc = "named"
  BY <1>2 DEF SaveIdentity, IInv, TypeOK, Worker
<1>4. Straight(t)'
  BY <1>3 DEF Straight
<1>5. \E k \in Keys : owner[k] = w.name
  BY <1>1, <1>2 DEF Straight
<1>6. CookieOwn'
  BY <1>1, <1>2, <1>5 DEF CookieOwn
<1> QED
  BY <1>1, <1>4, <1>6, OthersStraight

LEMMA EnterOwned ==
  ASSUME IInv, Owned, OwnerKept, NEW t \in Threads, Enter(t) PROVE Owned'
<1>1. UNCHANGED <<id, cookie>> /\ cause \subseteq cause'
  BY DEF Enter
<1>2. ASSUME NEW s \in Threads
      PROVE  \/ /\ thread'[s].pc = thread[s].pc /\ thread'[s].email = thread[s].email
                /\ thread'[s].name = thread[s].name /\ thread'[s].value = thread[s].value
             \/ thread'[s].pc \notin {"sent", "answered", "failed", "saved"}
  <2>1. thread[s] \in Worker /\ thread \in [Threads -> Worker]
    BY DEF IInv, TypeOK
  <2>2. CASE s = t
    <3>1. thread'[t] = Free
      BY <2>1 DEF Enter, Left
    <3> QED
      BY <2>2, <3>1 DEF Free
  <2>3. CASE s # t
    <3>1. \/ thread'[s] = thread[s]
          \/ thread'[s] = Left({q \in Threads : Logging(q)})[s]
      <4>1. CASE thread[t].left
        BY <2>1, <2>3, <4>1 DEF Enter
      <4>2. CASE ~ thread[t].left
        BY <2>3, <4>2 DEF Enter, Left
      <4> QED
        BY <4>1, <4>2
    <3>2. \/ thread'[s] = thread[s]
          \/ thread'[s] = [thread[s] EXCEPT !.left = TRUE, !.field = form]
      BY <3>1 DEF Left
    <3> QED
      BY <2>1, <3>2 DEF Worker
  <2> QED
    BY <2>2, <2>3
<1> QED
  BY <1>1, <1>2, QuietOwned

LEMMA OwnedStep == IInv /\ Owned /\ [Next]_vars => Owned'
<1> SUFFICES ASSUME IInv, Owned, [Next]_vars PROVE Owned'
  OBVIOUS
<1>1. OwnerKept
  BY OwnerStep
<1>2. CASE ScreenStep
  BY <1>1, <1>2, ScreenOwned
<1>3. ASSUME NEW t \in Threads,
             Check(t) \/ ThreadStep(t) \/ \E e \in Emails : Click(t, e)
      PROVE  Owned'
  BY <1>1, <1>3, IdleOwned, BuildOwned, ServeOwned, SaveOwned, SaveIdentityOwned, EnterOwned
     DEF ThreadStep
<1>4. CASE UNCHANGED vars
  BY <1>4 DEF vars, Owned, CookieOwn, Straight
<1> QED
  BY <1>2, <1>3, <1>4 DEF Next, ScreenStep

(* The cookie kept for an address is a session of that address, and the      *)
(* identity one that has logged in, for any number of logins under way, as   *)
(* long as no thread reads two addresses in the field of its screen.        *)
THEOREM CookiesAreOwn == Spec => []CookieOwn
<1>1. Init => Owned
  BY DEF Init, Owned, Straight, CookieOwn, Free
<1>2. IInv /\ Owned => CookieOwn
  BY DEF Owned, CookieOwn
<1> QED
  BY <1>1, <1>2, OwnedStep, Strengthened, PTL DEF Spec

----------------------------------------------------------------------------
(* The application and the server agree.                                   *)

\* What a thread that works alone knows of the address it is about.
Tidy(t) ==
  LET w == thread[t] IN
  /\ w.pc \in {"begin", "read"} => cookie[Field(t)] = None
  /\ w.pc \in {"sent", "answered", "failed"} => cookie[w.name] = None
  /\ w.pc \in {"sent", "failed"} => w.value = None
  /\ w.pc \in {"saved"} \cup CheckPCs => cookie[w.name] # None

\* Thread t works alone, and only what it is about to do is missing.
Agrees(t) ==
  /\ \A s \in Threads : s # t => thread[s].pc = "free"
  /\ Tidy(t)
  /\ \A k \in Keys : owner[k] # None =>
       cookie[owner[k]] = k \/ (thread[t].pc = "answered" /\ thread[t].value = k)
  /\ (\E e \in Emails : cookie[e] # None) => Access # None \/ thread[t].pc = "saved"
  /\ AtStart => access = Access \/ thread[t].pc \in {"saved", "named"}

Agreed == PhoneTrue /\ (cause = {} => \A t \in Threads : Busy(t) => Agrees(t))

(* When one thread is left to look at, it is enough to look at that one.    *)
LEMMA OneAgrees == ASSUME NEW t \in Threads, Agrees(t)' PROVE Agreed'
<1>1. \A s \in Threads : Busy(s)' => s = t
  BY DEF Agrees, Busy
<1>2. ASSUME \A s \in Threads : ~ Busy(s)'
      PROVE  /\ \A k \in Keys : owner'[k] # None => cookie'[owner'[k]] = k
             /\ (\E e \in Emails : cookie'[e] # None) => Access' # None
             /\ AtStart' => access' = Access'
  <2>1. thread'[t].pc = "free"
    BY <1>2 DEF Busy
  <2> QED
    BY <2>1 DEF Agrees
<1> QED
  BY <1>1, <1>2 DEF Agreed, PhoneTrue

(* A step that only changes screens, as the threads see it.                 *)
LEMMA ScreenFrame ==
  ASSUME IInv, ScreenStep, cause' = {}
  PROVE  /\ cause = {} /\ UNCHANGED <<owner, id, cookie>>
         /\ AtStart' => access' = Access
         /\ \A s \in Threads :
              /\ thread'[s].pc = thread[s].pc
              /\ Busy(s) => thread'[s].name = thread[s].name /\ thread'[s].value = thread[s].value
              /\ Logging(s) => Field(s)' = Field(s)
<1>1. cause = {} /\ UNCHANGED <<owner, id, cookie>>
  BY DEF ScreenStep, OpenConnection, Close, StartAgain, Restart
<1>2. AtStart' => access' = Access
  BY DEF ScreenStep, OpenConnection, Close, StartAgain, Restart, AtStart
<1>3. ASSUME NEW s \in Threads
      PROVE  /\ thread'[s].pc = thread[s].pc
             /\ Busy(s) => thread'[s].name = thread[s].name /\ thread'[s].value = thread[s].value
             /\ Logging(s) => Field(s)' = Field(s)
  <2>1. thread[s] \in Worker /\ (Logging(s) => thread[s].left \/ connect)
    BY DEF IInv, TypeOK, Carried
  <2>2. ASSUME NEW T, Logging(s) => s \in T, thread' = Left(T)
        PROVE  /\ thread'[s].pc = thread[s].pc
               /\ thread'[s].name = thread[s].name /\ thread'[s].value = thread[s].value
               /\ Logging(s) => Field(s)' = Field(s)
    <3>1. \/ thread'[s] = thread[s] /\ (s \notin T \/ thread[s].left)
          \/ ~ thread[s].left /\ thread'[s] = [thread[s] EXCEPT !.left = TRUE, !.field = form]
      BY <2>2, LeftFrame DEF IInv
    <3> QED
      BY <2>1, <2>2, <3>1 DEF Worker, Field
  <2>3. CASE OpenConnection
    BY <2>1, <2>3 DEF OpenConnection, Buttons, AtStart, Field
  <2>4. CASE Close
    <3>1. CASE inside # None
      BY <2>4, <3>1 DEF Close, Field
    <3>2. CASE inside = None
      BY <2>2, <2>4, <3>2 DEF Close
    <3> QED
      BY <3>1, <3>2
  <2>5. CASE StartAgain
    BY <2>2, <2>5 DEF StartAgain, Logging, LoginPCs, Busy
  <2>6. CASE Restart
    <3>1. ~ Busy(s) /\ thread'[s] = Free
      BY <2>6 DEF Restart
    <3> QED
      BY <3>1 DEF Busy, Free, Logging, LoginPCs
  <2> QED
    BY <2>3, <2>4, <2>5, <2>6 DEF ScreenStep
<1> QED
  BY <1>1, <1>2, <1>3

LEMMA ScreenAgreed == ASSUME IInv, Agreed, ScreenStep PROVE Agreed'
<1> SUFFICES ASSUME cause' = {} PROVE Agreed'
  BY DEF Agreed, PhoneTrue
<1>1. /\ cause = {} /\ UNCHANGED <<owner, id, cookie>>
      /\ AtStart' => access' = Access
      /\ \A s \in Threads :
           /\ thread'[s].pc = thread[s].pc
           /\ Busy(s) => thread'[s].name = thread[s].name /\ thread'[s].value = thread[s].value
           /\ Logging(s) => Field(s)' = Field(s)
  BY ScreenFrame
<1>2. Access' = Access
  BY <1>1 DEF Access
<1>3. ASSUME NEW t \in Threads, Busy(t) PROVE Agreed'
  <2>1. Agrees(t)
    BY <1>1, <1>3 DEF Agreed
  <2>2. Tidy(t)'
    <3>1. Tidy(t)
      BY <2>1 DEF Agrees
    <3>2. /\ thread'[t].pc = thread[t].pc
          /\ thread'[t].name = thread[t].name /\ thread'[t].value = thread[t].value
          /\ thread[t].pc \in {"begin", "read"} => Field(t)' = Field(t)
      BY <1>1, <1>3 DEF Logging, LoginPCs
    <3> QED
      BY <1>1, <3>1, <3>2 DEF Tidy
  <2>3. Agrees(t)'
    BY <1>1, <1>2, <1>3, <2>1, <2>2 DEF Agrees
  <2> QED
    BY <2>3, OneAgrees
<1>4. ASSUME \A t \in Threads : ~ Busy(t) PROVE Agreed'
  <2>1. /\ \A k \in Keys : owner[k] # None => cookie[owner[k]] = k
        /\ (\E e \in Emails : cookie[e] # None) => Access # None
    BY <1>1, <1>4 DEF Agreed, PhoneTrue
  <2>2. \A t \in Threads : ~ Busy(t)'
    BY <1>1, <1>4 DEF Busy
  <2> QED
    BY <1>1, <1>2, <2>1, <2>2 DEF Agreed, PhoneTrue
<1> QED
  BY <1>3, <1>4

(* A thread that begins when no other is under way.                         *)
LEMMA BeginAgrees ==
  ASSUME IInv, Agreed, cause' = {}, NEW t \in Threads,
         Check(t) \/ \E e \in Emails : Click(t, e)
  PROVE  Agrees(t)'
<1>1. /\ cause = {} /\ \A s \in Threads : ~ Busy(s)
      /\ UNCHANGED <<owner, id, cookie, access, connect, inside>>
  BY DEF Check, Click, Beside
<1>2. /\ \A k \in Keys : owner[k] # None => cookie[owner[k]] = k
      /\ (\E e \in Emails : cookie[e] # None) => Access # None
      /\ AtStart => access = Access
  BY <1>1 DEF Agreed, PhoneTrue
<1>3. Access' = Access /\ AtStart' = AtStart
  BY <1>1 DEF Access, AtStart
<1>4. CASE Check(t)
  <2>1. Begin(t, "check", access) /\ access \in Emails /\ AtStart
    BY <1>4 DEF Check, Buttons, IInv, TypeOK
  <2>2. /\ thread'[t].pc = "check" /\ thread'[t].name = access
        /\ \A s \in Threads : s # t => thread'[s].pc = "free"
    <3>1. /\ thread'[t].pc = "check" /\ thread'[t].name = access
          /\ \A s \in Threads : s # t => thread'[s] = thread[s]
      BY <2>1, BeginFrame DEF IInv
    <3> QED
      BY <1>1, <3>1 DEF Busy
  <2>3. cookie[access] # None
    BY <1>2, <2>1, NoneAssumption DEF Access
  <2>4. Tidy(t)'
    BY <1>1, <2>2, <2>3 DEF Tidy
  <2> QED
    BY <1>1, <1>2, <1>3, <2>2, <2>4 DEF Agrees
<1>5. ASSUME NEW e \in Emails, Click(t, e) PROVE Agrees(t)'
  <2>1. Begin(t, "begin", None) /\ form' = e /\ connect /\ cookie[e] = None
    BY <1>5 DEF Click
  <2>2. /\ thread'[t].pc = "begin" /\ ~ thread'[t].left
        /\ \A s \in Threads : s # t => thread'[s].pc = "free"
    <3>1. /\ thread'[t].pc = "begin" /\ ~ thread'[t].left
          /\ \A s \in Threads : s # t => thread'[s] = thread[s]
      BY <2>1, BeginFrame DEF IInv
    <3> QED
      BY <1>1, <3>1 DEF Busy
  <2>3. Tidy(t)'
    BY <1>1, <2>1, <2>2 DEF Tidy, Field, CheckPCs
  <2>4. ~ AtStart
    BY <2>1 DEF AtStart
  <2> QED
    BY <1>1, <1>2, <1>3, <2>2, <2>3, <2>4 DEF Agrees
<1> QED
  BY <1>4, <1>5

(* What is known of the one thread that takes a step.                       *)
LEMMA WorksAlone ==
  ASSUME IInv, Agreed, cause' = {}, NEW t \in Threads, ThreadStep(t)
  PROVE  /\ cause = {} /\ Busy(t) /\ Agrees(t)
         /\ \A s \in Threads : s # t => thread'[s].pc = "free"
<1>1. cause = {} /\ Busy(t)
  BY DEF ThreadStep, Read, Build, Serve, Refuse, Save, SaveIdentity, Enter, Ask, Admit, Forget,
     Busy
<1>2. Agrees(t)
  BY <1>1 DEF Agreed
<1>3. ASSUME NEW s \in Threads, s # t PROVE thread'[s].pc = "free"
  <2>1. thread[s].pc = "free"
    BY <1>2, <1>3 DEF Agrees
  <2>2. CASE Enter(t)
    <3>1. Left({q \in Threads : Logging(q)})[s] = thread[s]
      BY <2>1 DEF Left, Logging, LoginPCs
    <3>2. thread \in [Threads -> Worker] /\ Left({q \in Threads : Logging(q)}) \in [Threads -> Worker]
      BY LeftFrame DEF IInv, TypeOK
    <3> QED
      BY <1>3, <2>1, <2>2, <3>1, <3>2 DEF Enter
  <2>3. CASE ~ Enter(t)
    <3>1. PICK v : thread' = [thread EXCEPT ![t] = v]
      BY <2>3, WorkerReplaces DEF Replaced
    <3> QED
      BY <1>3, <2>1, <3>1
  <2> QED
    BY <2>2, <2>3
<1> QED
  BY <1>1, <1>2, <1>3

(* Until it is sent a login only finds out whose preference it will write.  *)
LEMMA SendAgrees ==
  ASSUME IInv, Agreed, cause' = {}, NEW t \in Threads, Read(t) \/ Build(t) \/ Refuse(t)
  PROVE  Agrees(t)'
<1> DEFINE w == thread[t]
<1>1. Agrees(t) /\ \A s \in Threads : s # t => thread'[s].pc = "free"
  BY WorksAlone DEF ThreadStep
<1>2. /\ UNCHANGED <<owner, id, cookie, access, connect, inside, form>>
      /\ w \in Worker /\ thread \in [Threads -> Worker]
      /\ w.pc \in {"begin", "read", "sent"}
  BY DEF Read, Build, Refuse, IInv, TypeOK
<1>3. /\ Access' = Access /\ AtStart' = AtStart
      /\ thread'[t].pc \in {"read", "sent", "failed", "free"}
  BY <1>2 DEF Access, AtStart, Read, Build, Refuse, Worker, Free
<1>4. Tidy(t)'
  <2>1. Tidy(t)
    BY <1>1 DEF Agrees
  <2>2. CASE Read(t)
    <3>1. thread'[t].pc = "read" /\ thread'[t].left = w.left /\ thread'[t].field = w.field
      BY <1>2, <2>2 DEF Read, Worker
    <3> QED
      BY <1>2, <2>1, <2>2, <3>1 DEF Tidy, Field, Read, CheckPCs
  <2>3. CASE Build(t)
    <3>1. /\ thread'[t].pc = "sent" /\ thread'[t].name = Field(t)
          /\ thread'[t].value = cookie[Field(t)]
      BY <1>2, <2>3 DEF Build, Worker
    <3> QED
      BY <1>2, <2>1, <2>3, <3>1 DEF Tidy, Build, CheckPCs
  <2>4. CASE Refuse(t)
    <3>1. \/ /\ thread'[t].pc = "failed"
             /\ thread'[t].name = w.name /\ thread'[t].value = w.value
          \/ thread'[t].pc = "free"
      BY <1>2, <2>4 DEF Refuse, Worker, Free
    <3> QED
      BY <1>2, <2>1, <2>4, <3>1 DEF Tidy, Refuse, CheckPCs
  <2> QED
    BY <2>2, <2>3, <2>4
<1> QED
  BY <1>1, <1>2, <1>3, <1>4 DEF Agrees

(* A session that was opened is on its way to the preferences.              *)
LEMMA ServeAgrees ==
  ASSUME IInv, Owned, Agreed, cause' = {}, NEW t \in Threads, Serve(t)
  PROVE  Agrees(t)'
<1> DEFINE w == thread[t]
<1>1. /\ Agrees(t) /\ "retyped" \notin cause
      /\ \A s \in Threads : s # t => thread'[s].pc = "free"
  BY WorksAlone DEF ThreadStep
<1>2. PICK k \in Keys :
        /\ w.pc = "sent" /\ owner[k] = None
        /\ owner' = [owner EXCEPT ![k] = w.email]
        /\ thread' = [thread EXCEPT ![t].pc = "answered", ![t].value = k]
        /\ UNCHANGED <<id, cookie, access, connect, inside, form>>
  BY DEF Serve
<1>3. /\ w \in Worker /\ thread \in [Threads -> Worker] /\ owner \in [Keys -> Emails \cup {None}]
      /\ w.name = w.email /\ w.name \in Emails
  BY <1>1, <1>2, WorkerFields DEF Owned, Straight, Held, IInv, TypeOK
<1>4. thread'[t].pc = "answered" /\ thread'[t].value = k /\ thread'[t].name = w.name
  BY <1>2, <1>3 DEF Worker
<1>5. Access' = Access /\ AtStart' = AtStart
  BY <1>2 DEF Access, AtStart
<1>6. Tidy(t)'
  BY <1>1, <1>2, <1>4 DEF Agrees, Tidy, CheckPCs
<1>7. ASSUME NEW j \in Keys, owner'[j] # None
      PROVE  cookie'[owner'[j]] = j \/ (thread'[t].pc = "answered" /\ thread'[t].value = j)
  <2>1. CASE j = k
    BY <1>4, <2>1
  <2>2. CASE j # k
    <3>1. owner'[j] = owner[j]
      BY <1>2, <1>3, <2>2
    <3> QED
      BY <1>1, <1>2, <1>7, <3>1 DEF Agrees
  <2> QED
    BY <2>1, <2>2
<1>8. /\ (\E e \in Emails : cookie'[e] # None) => Access' # None
      /\ AtStart' => access' = Access'
  BY <1>1, <1>2, <1>5 DEF Agrees
<1> QED
  BY <1>1, <1>6, <1>7, <1>8 DEF Agrees

(* The session that comes is the first of its address.                      *)
LEMMA SaveAgrees ==
  ASSUME IInv, Owned, Agreed, cause' = {}, NEW t \in Threads, Save(t)
  PROVE  Agrees(t)'
<1> DEFINE w == thread[t]
<1>1. /\ Agrees(t) /\ "retyped" \notin cause
      /\ \A s \in Threads : s # t => thread'[s].pc = "free"
  BY WorksAlone DEF ThreadStep
<1>2. /\ w.pc \in {"answered", "failed"} /\ cookie' = [cookie EXCEPT ![w.name] = w.value]
      /\ UNCHANGED <<owner, id, access, connect, inside, form>>
  BY DEF Save
<1>3. /\ w \in Worker /\ thread \in [Threads -> Worker] /\ Held(w)
      /\ w.name \in Emails /\ w.name # None
      /\ cookie \in [Emails -> Keys \cup {None}] /\ owner \in [Keys -> Emails \cup {None}]
      /\ id \in Emails \cup {None}
  BY <1>2, WorkerFields, NoneAssumption DEF Held, IInv, TypeOK
<1>4. /\ cookie'[w.name] = w.value /\ cookie[w.name] = None
      /\ \A e \in Emails : e # w.name => cookie'[e] = cookie[e]
  BY <1>1, <1>2, <1>3 DEF Agrees, Tidy
<1>5. AtStart' = AtStart
  BY <1>2 DEF AtStart
<1>6. CASE w.pc = "answered"
  <2>1. thread'[t].pc = "saved" /\ thread'[t].name = w.name /\ w.value # None
    BY <1>3, <1>6 DEF Save, Held, Worker
  <2>2. Tidy(t)'
    BY <1>4, <2>1 DEF Tidy, CheckPCs
  <2>3. owner[w.value] = w.name /\ w.value \in Keys
    BY <1>1, <1>3, <1>6, <2>1 DEF Owned, Straight, Worker
  <2>4. ASSUME NEW k \in Keys, owner[k] # None PROVE cookie'[owner[k]] = k
    <3>1. owner[k] \in Emails
      BY <1>3, <2>4
    <3>2. cookie[owner[k]] = k \/ w.value = k
      BY <1>1, <2>4 DEF Agrees
    <3>3. k # None
      BY NoneAssumption
    <3> QED
      BY <1>4, <2>3, <3>1, <3>2, <3>3
  <2> QED
    BY <1>1, <1>2, <2>1, <2>2, <2>4 DEF Agrees
<1>7. CASE w.pc = "failed"
  <2>1. thread'[t].pc = "free" /\ w.value = None
    BY <1>1, <1>3, <1>7 DEF Save, Agrees, Tidy, Free
  <2>2. cookie' = cookie
    BY <1>2, <1>3, <1>4, <2>1
  <2>3. Tidy(t)'
    BY <2>1 DEF Tidy, CheckPCs
  <2>4. Access' = Access
    BY <1>2, <2>2 DEF Access
  <2> QED
    BY <1>1, <1>2, <1>5, <1>7, <2>1, <2>2, <2>3, <2>4 DEF Agrees
<1> QED
  BY <1>2, <1>6, <1>7

(* The identity that is saved is the one whose cookie was.                  *)
LEMMA SaveIdentityAgrees ==
  ASSUME IInv, Agreed, cause' = {}, NEW t \in Threads, SaveIdentity(t)
  PROVE  Agrees(t)'
<1> DEFINE w == thread[t]
<1>1. Agrees(t) /\ \A s \in Threads : s # t => thread'[s].pc = "free"
  BY WorksAlone DEF ThreadStep
<1>2. /\ w.pc = "saved" /\ id' = w.name /\ thread'[t].pc = "named"
      /\ UNCHANGED <<owner, cookie, access, connect, inside, form>>
  BY WorkerFields DEF SaveIdentity, Retyped, IInv, TypeOK, Worker
<1>3. w.name \in Emails /\ w.name # None /\ cookie[w.name] # None
  BY <1>1, <1>2, WorkerFields, NoneAssumption DEF Held, Agrees, Tidy
<1>4. Access' # None
  BY <1>2, <1>3 DEF Access
<1>5. Tidy(t)'
  BY <1>2 DEF Tidy, CheckPCs
<1> QED
  BY <1>1, <1>2, <1>4, <1>5 DEF Agrees

(* A login that ends, and a check that is made or succeeds, change nothing   *)
(* that is kept; a check that fails has a cookie to forget.                 *)
LEMMA QuietAgrees ==
  ASSUME IInv, Agreed, cause' = {}, NEW t \in Threads,
         Enter(t) \/ Ask(t) \/ Admit(t) \/ Forget(t)
  PROVE  Agrees(t)'
<1> DEFINE w == thread[t]
<1>1. Agrees(t) /\ \A s \in Threads : s # t => thread'[s].pc = "free"
  BY WorksAlone DEF ThreadStep
<1>2. w \in Worker /\ Held(w) /\ thread \in [Threads -> Worker] /\ w.pc \in {"named"} \cup CheckPCs
  BY WorkerFields DEF Enter, Ask, Admit, Forget, CheckPCs, IInv, TypeOK
<1>3. ~ Forget(t)
  BY <1>1 DEF Forget, Agrees, Tidy, CheckPCs
<1>4. UNCHANGED <<owner, id, cookie, access>>
  BY <1>3 DEF Enter, Ask, Admit
<1>5. Access' = Access
  BY <1>4 DEF Access
<1>6. /\ (\E e \in Emails : cookie[e] # None) => Access # None
      /\ \A k \in Keys : owner[k] # None => cookie[owner[k]] = k
  BY <1>1, <1>2 DEF Agrees, CheckPCs
<1>7. CASE Ask(t)
  <2>1. thread'[t].pc = "asked" /\ thread'[t].name = w.name /\ w.pc = "check"
    BY <1>2, <1>7 DEF Ask, Worker
  <2>2. Tidy(t)'
    BY <1>1, <1>4, <2>1 DEF Agrees, Tidy, CheckPCs
  <2>3. AtStart' = AtStart
    BY <1>7 DEF Ask, AtStart
  <2> QED
    BY <1>1, <1>4, <1>5, <1>6, <2>1, <2>2, <2>3 DEF Agrees
<1>8. CASE Enter(t) \/ Admit(t)
  <2>1. thread'[t] = Free
    <3>1. Left({s \in Threads : Logging(s)}) \in [Threads -> Worker]
      BY LeftFrame DEF IInv
    <3>2. \/ thread' = [thread EXCEPT ![t] = Free]
          \/ thread' = [Left({s \in Threads : Logging(s)}) EXCEPT ![t] = Free]
      BY <1>8 DEF Enter, Admit
    <3> QED
      BY <1>2, <3>1, <3>2
  <2>2. inside' \in Emails
    BY <1>2, <1>8, WorkerFields DEF Enter, Admit, Held, LoginPCs, CheckPCs
  <2>3. ~ AtStart'
    BY <2>2, NoneAssumption DEF AtStart
  <2>4. thread'[t].pc = "free"
    BY <2>1 DEF Free
  <2>5. Tidy(t)'
    BY <2>4 DEF Tidy, CheckPCs
  <2> QED
    BY <1>1, <1>4, <1>5, <1>6, <2>3, <2>4, <2>5 DEF Agrees
<1> QED
  BY <1>3, <1>7, <1>8

LEMMA AgreedStep == IInv /\ Owned /\ Agreed /\ [Next]_vars => Agreed'
<1> SUFFICES ASSUME IInv, Owned, Agreed, [Next]_vars PROVE Agreed'
  OBVIOUS
<1>1. CASE ScreenStep
  BY <1>1, ScreenAgreed
<1>2. ASSUME NEW t \in Threads,
             Check(t) \/ ThreadStep(t) \/ \E e \in Emails : Click(t, e)
      PROVE  Agreed'
  <2>1. CASE cause' # {}
    BY <2>1 DEF Agreed, PhoneTrue
  <2>2. CASE cause' = {}
    <3>1. Agrees(t)'
      BY <1>2, <2>2, BeginAgrees, SendAgrees, ServeAgrees, SaveAgrees, SaveIdentityAgrees,
         QuietAgrees DEF ThreadStep
    <3> QED
      BY <3>1, OneAgrees
  <2> QED
    BY <2>1, <2>2
<1>3. CASE UNCHANGED vars
  BY <1>3 DEF vars, Agreed, PhoneTrue, Agrees, Tidy, Busy, Field, Access, AtStart
<1> QED
  BY <1>1, <1>2, <1>3 DEF Next, ScreenStep

(* With nothing under way the server has no session but those the phone      *)
(* keeps, and the start screen leads to one if there is one, unless one of   *)
(* the six causes came between.                                             *)
THEOREM PhoneAgrees == Spec => []PhoneTrue
<1>1. Init => Owned /\ Agreed
  BY DEF Init, Owned, Straight, CookieOwn, Free, Agreed, PhoneTrue, Busy, Access
<1>2. Agreed => PhoneTrue
  BY DEF Agreed
<1> QED
  BY <1>1, <1>2, OwnedStep, AgreedStep, Strengthened, PTL DEF Spec

============================================================================
