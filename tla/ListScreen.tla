---------------------------- MODULE ListScreen ----------------------------
(* The screen of the shopping lists on a phone: ListActivity, the listener *)
(* that lets its rows be swiped away, and the routes of the server it      *)
(* calls.                                                                  *)
(*                                                                         *)
(* Rows are Liste objects, the same in the list view, in the threads and   *)
(* in the dialogs; their labels change.  A change chosen in a dialog is    *)
(* made by a thread of its own, which calls the server, waits, and then    *)
(* changes the rows and the listeners by itself; the rows that were swiped *)
(* away are deleted by the thread of the user interface, which is blocked  *)
(* meanwhile.  Nothing orders the threads.  While a dialog's change is     *)
(* under way the list view is gone, until an answer shows it again; the    *)
(* button that adds a list stays.                                          *)
EXTENDS ListTables, SequencesExt, FiniteSets, Naturals

CONSTANTS Names,    \* names of lists
          Typed,    \* those the user types
          Objects,  \* Liste objects that are referred to at a time
          Workers,  \* threads of dialogs that may run at a time
          Loader, Ui,  \* the thread of onCreate, the thread of the user interface
          MaxCauses,  \* bound on the causes after which the user still begins things
          MaxAtLoad,  \* bound on the changes beside which the user begins things before
                      \* getLists has set its listeners
          Stored,   \* what the server makes of a name: replaceBadCharacter and trim
          Vacant,   \* listeVide, the row shown when there is no list
          None

ASSUME SizesAssumption == IsFiniteSet(Objects) /\ IsFiniteSet(Names)
ASSUME NamesAssumption == Typed \subseteq Names
ASSUME StoredAssumption == /\ Stored \in [Names -> Names]
                           /\ \A n \in Names : Stored[Stored[n]] = Stored[n]
ASSUME OthersAssumption == /\ Vacant \notin Objects
                           /\ None \notin Names \cup Objects \cup {Vacant}
ASSUME ThreadsAssumption == Loader # Ui /\ Loader \notin Workers /\ Ui \notin Workers

VARIABLES table,    \* the lists on the server
          alive,    \* the screen is there
          rows,     \* listesDeCourses
          label,    \* the name of each object
          shown,    \* the list view is visible
          armed,    \* the listeners of the list view, of long clicks and of touches
          loaded,   \* getLists has filled the rows
          ops,      \* what each thread does
          refs,     \* mDismissAnimationRefCount of each listener that has one
          swipes,   \* mDownPosition, running animations and mPendingDismisses, each
                    \* by a listener, 0 for the one of now
          batch,    \* what is left of reverseSortedPositions
          cause     \* history: what came between since the screen was opened

screen == <<rows, label, shown, armed, loaded>>
fingers == <<refs, swipes, batch>>
vars == <<table, alive, screen, ops, fingers, cause>>

Threads == Workers \cup {Loader, Ui}
Free == [op |-> "none", pc |-> "free", row |-> None, pos |-> 0, name |-> None,
         ok |-> FALSE, names |-> {}]
Op(kind) == [Free EXCEPT !.op = kind, !.pc = "sent"]
Ends(t) == ops' = [ops EXCEPT ![t] = Free]
Goto(t, pc) == ops' = [ops EXCEPT ![t].pc = pc]

\* A thread that changes the rows and the listeners goes through these: the loader
\* through the last two, additions without the second, deletions without the rest
\* when rows are left.
Changing == {"removed", "empty", "filled", "clicks"}

\* The name of a list in the server, when a route is called with a name; the name of
\* the row Vacant, and of an object that is gone, is none of an account.
Sent(n) == IF n = None THEN None ELSE Stored[n]

\* A position somebody keeps, and the row it was kept for.
Kept == [pos : Nat \ {0}, row : Objects \cup {Vacant}]
Renames == {[pos |-> ops[t].pos, row |-> ops[t].row] :
              t \in {u \in Workers : ops[u].op = "rename"}}
Swiped == {[pos |-> s.pos, row |-> s.row] : s \in swipes}

Busy == batch # <<>> \/ ops[Ui].pc # "free"
CanTouch == alive /\ ~ Busy

\* What the user begins, with one finger and no dialog open.  Bounds: the screen is
\* one that few things came between; and before getLists has set its listeners, few
\* changes are under way.
Beside == {w \in Workers : ops[w].pc # "free"} \cup swipes
CanBegin ==
  /\ CanTouch /\ Cardinality(cause) <= MaxCauses
  /\ ops[Loader].pc \in Changing => Cardinality(Beside) <= MaxAtLoad
  /\ \A s \in swipes : s.phase # "down"
  /\ \A t \in Workers : ops[t].pc # "dialog"

\* A row that is there and does not move away.  The list view has no adapter, and
\* shows no row, before getLists has succeeded.
OnRow(i) ==
  /\ loaded /\ shown /\ i \in DOMAIN rows
  /\ \A s \in swipes : s.row # rows[i]

\* The objects that new Liste(name) may give.
Referred == ToSet(rows) \cup {ops[t].row : t \in Threads}
              \cup {s.row : s \in swipes} \cup {batch[i].row : i \in DOMAIN batch}
Unused == Objects \ Referred

\* A new listener takes the touches; those with rows that move keep them.  One
\* without is forgotten, and its number is free.
Listeners == 0 .. Cardinality(Objects) + 1
NewListener ==
  LET free == CHOOSE u \in Listeners : refs[u] = 0 /\ \A v \in 0 .. u - 1 : refs[v] > 0
  IN /\ swipes' = {[s EXCEPT !.by = IF @ < free THEN @ + 1 ELSE @] :
                     s \in {u \in swipes : u.phase # "down"}}
     /\ refs' = [u \in Listeners |-> IF u = 0 THEN 0
                                     ELSE IF u <= free THEN refs[u - 1] ELSE refs[u]]

\* The lists an account may have; their products do not matter here.
Accounts == UNION {[L -> {{}}] : L \in SUBSET {Stored[n] : n \in Names}}

Init ==
  /\ table \in Accounts
  /\ alive = TRUE /\ rows = <<>> /\ shown = TRUE /\ armed = {} /\ loaded = FALSE
  /\ label = [o \in Objects \cup {Vacant} |-> None]
  /\ refs = [u \in Listeners |-> 0] /\ swipes = {} /\ batch = <<>>
  /\ ops = [t \in Threads |-> IF t = Loader THEN Op("load") ELSE Free]
  /\ cause = {}

-----------------------------------------------------------------------------
(* What the user does.                                                      *)

\* The dialog of the add button.  Bound: no more rows than objects.
ConfirmAdd(w, n) ==
  /\ CanBegin /\ ops[w].pc = "free"
  /\ LET adding == {t \in Workers : ops[t].op = "add"} IN
       Cardinality(Unused) > Cardinality(adding) + (IF loaded THEN 0 ELSE Cardinality(Names))
  /\ ops' = [ops EXCEPT ![w] = [Op("add") EXCEPT !.name = n]]
  /\ shown' = FALSE
  /\ cause' = IF loaded THEN cause ELSE cause \cup {"early"}
  /\ UNCHANGED <<table, alive, rows, label, armed, loaded, fingers>>

\* A row is taken for a change while another change of it is under way; or it is the
\* row that says there is no list, whose listeners are not gone yet.
Chosen(o) ==
  cause' = cause \cup (IF \E t \in Threads : ops[t].row = o THEN {"twice"} ELSE {})
                 \cup (IF o = Vacant THEN {"raced"} ELSE {})

\* The menu of a row, and its dialogs.  They keep the object and its position.
LongClick(w, i, op) ==
  /\ CanBegin /\ OnRow(i) /\ "click" \in armed /\ ops[w].pc = "free"
  /\ ops' = [ops EXCEPT ![w] = [op EXCEPT !.row = rows[i], !.pc = "dialog"]]
  /\ Chosen(rows[i])
  /\ UNCHANGED <<table, alive, screen, fingers>>

Rename(i, n) == [Op("rename") EXCEPT !.pos = i, !.name = n]

Confirm(w) ==
  /\ CanTouch /\ ops[w].pc = "dialog"
  /\ Goto(w, "sent")
  /\ shown' = FALSE
  /\ UNCHANGED <<table, alive, rows, label, armed, loaded, fingers, cause>>

Cancel(w) ==
  /\ CanTouch /\ ops[w].pc = "dialog"
  /\ Ends(w)
  /\ UNCHANGED <<table, alive, screen, fingers, cause>>

\* ACTION_DOWN.
Down(i) ==
  /\ CanBegin /\ OnRow(i) /\ "touch" \in armed
  /\ swipes' = swipes \cup {[by |-> 0, pos |-> i, row |-> rows[i], phase |-> "down"]}
  /\ UNCHANGED <<table, alive, screen, ops, refs, batch, cause>>

Advanced(s, phase) == swipes' = (swipes \ {s}) \cup {[s EXCEPT !.phase = phase]}

\* Mutant: the animation that starts is not counted.
UpUncounted(s) ==
  /\ CanTouch /\ s \in swipes /\ s.phase = "down"
  /\ \/ /\ s.by = 0 /\ "touch" \in armed
        /\ Advanced(s, "moving")
     \/ swipes' = swipes \ {s}
  /\ UNCHANGED <<table, alive, screen, ops, refs, batch, cause>>

\* ACTION_UP: the row moves away, unless the finger has not moved far enough or
\* the listener it came down on is not the listener of touches any more.
Up(s) ==
  /\ CanTouch /\ s \in swipes /\ s.phase = "down"
  /\ \/ /\ s.by = 0 /\ "touch" \in armed
        /\ refs' = [refs EXCEPT ![s.by] = @ + 1]
        /\ Advanced(s, "moving")
     \/ swipes' = swipes \ {s} /\ UNCHANGED refs
  /\ UNCHANGED <<table, alive, screen, ops, batch, cause>>

\* Mutant: the positions are passed on in ascending order.
Ascending(K) ==
  {q \in Bijection(1 .. Cardinality(K), K) :
     \A i, j \in DOMAIN q : i < j => q[i].pos <= q[j].pos}

\* Collections.sort: the positions in descending order.
Descending(K) ==
  {q \in Bijection(1 .. Cardinality(K), K) :
     \A i, j \in DOMAIN q : i < j => q[i].pos >= q[j].pos}

\* performDismiss, when the row has moved away, and the end of its second
\* animation, when it has shrunk.  When no row of the listener moves any more,
\* onDismiss is called with the positions of all of them in descending order,
\* and the row under the finger is forgotten.
Settle(s) ==
  /\ CanTouch /\ s \in swipes /\ s.phase = "moving"
  /\ refs' = [refs EXCEPT ![s.by] = @ - 1]
  /\ IF refs[s.by] = 1
     THEN LET mine == {u \in swipes : u.by = s.by}
              pending == {[pos |-> u.pos, row |-> u.row] : u \in {v \in mine : v.phase # "down"}}
          IN /\ batch' \in Descending(pending)
             /\ swipes' = swipes \ mine
     ELSE Advanced(s, "pending") /\ UNCHANGED batch
  /\ UNCHANGED <<table, alive, screen, ops, cause>>

\* An exception nobody catches ends the application.
Dies ==
  /\ alive' = FALSE /\ ops' = [t \in Threads |-> Free]
  /\ refs' = [u \in Listeners |-> 0] /\ swipes' = {} /\ batch' = <<>>

\* Back and again, or onCreate after the end of the application; meanwhile the
\* account may have other lists, by other clients or by threads of the screen that
\* was left, whose answers change a screen that is not there.
Reopen ==
  /\ alive => ~ Busy
  /\ alive' = TRUE /\ rows' = <<>> /\ shown' = TRUE /\ armed' = {} /\ loaded' = FALSE
  /\ label' = [o \in Objects \cup {Vacant} |-> None]
  /\ refs' = [u \in Listeners |-> 0] /\ swipes' = {} /\ batch' = <<>>
  /\ ops' = [t \in Threads |-> IF t = Loader THEN Op("load") ELSE Free]
  /\ cause' = {}
  /\ table' \in Accounts

-----------------------------------------------------------------------------
(* The threads.                                                             *)

\* onDismiss, the next position: the row that is there now.
Dismiss ==
  /\ alive /\ batch # <<>> /\ ops[Ui].pc = "free"
  /\ LET i == Head(batch).pos IN
       \/ /\ i \in DOMAIN rows
          /\ ops' = [ops EXCEPT ![Ui] = [Op("delete") EXCEPT !.row = rows[i]]]
          /\ batch' = Tail(batch)
          /\ Chosen(rows[i])
          /\ UNCHANGED <<alive, refs, swipes>>
       \/ /\ i \notin DOMAIN rows
          /\ Dies
          /\ UNCHANGED cause
  /\ UNCHANGED <<table, screen>>

\* A request is made of the label the object has by then, and the server handles
\* it; the statement may fail.
Serve(t) ==
  /\ ops[t].pc = "sent"
  /\ LET x == ops[t]
         name == IF x.row = None THEN None ELSE Sent(label[x.row])
         new == Sent(x.name)
     IN \/ /\ x.op = "load"
           /\ ops' = [ops EXCEPT ![t] = [x EXCEPT !.pc = "served", !.ok = TRUE,
                                                  !.names = DOMAIN table]]
           /\ UNCHANGED table
        \/ /\ \/ x.op = "add" /\ ~ PostRefused(table, new) /\ table' = Posted(table, new)
              \/ x.op = "delete" /\ table' = Deleted(table, name)
              \/ x.op = "rename" /\ ~ PutRefused(table, name, new)
                                 /\ table' = Put(table, name, new)
           /\ ops' = [ops EXCEPT ![t] = [x EXCEPT !.pc = "served", !.ok = TRUE]]
        \/ Goto(t, "served") /\ UNCHANGED table
  /\ UNCHANGED <<alive, screen, fingers, cause>>

\* The request, or its answer, does not arrive; or the network was found missing
\* before the request was made, and the answer is not looked at.
Lose(t) ==
  /\ ops[t].pc = "sent" \/ (ops[t].pc = "served" /\ ops[t].ok)
  /\ ops' = [ops EXCEPT ![t].pc = "served", ![t].ok = FALSE]
  /\ cause' = IF ops[t].ok /\ t # Loader THEN cause \cup {"lost"} ELSE cause
  /\ UNCHANGED <<table, alive, screen, fingers>>

\* An answer that is not a success: the list view stays as it is.
ReturnFailure(t) ==
  /\ ops[t].pc = "served" /\ ~ ops[t].ok
  /\ Ends(t)
  /\ UNCHANGED <<table, alive, screen, fingers, cause>>

Success(t, op) == ops[t].pc = "served" /\ ops[t].ok /\ ops[t].op = op

\* getLists: rows for the names, in any order, whose listeners are still to be set; or
\* the row that says there is none.
ReturnLoad ==
  /\ Success(Loader, "load")
  /\ loaded' = TRUE
  /\ LET N == ops[Loader].names IN
       \/ /\ N # {}
          /\ \E new \in Injection(1 .. Cardinality(N), Unused) :
             \E name \in Bijection(Range(new), N) :
               /\ rows' = rows \o new
               /\ label' = [o \in DOMAIN label |-> IF o \in Range(new) THEN name[o] ELSE label[o]]
          /\ Goto(Loader, "filled")
       \/ /\ N = {}
          /\ rows' = Append(rows, Vacant)
          /\ Ends(Loader)
          /\ UNCHANGED label
  /\ UNCHANGED <<table, alive, shown, armed, fingers, cause>>

\* remove(o).  Positions kept for that row or one below mean other rows from now
\* on, those of the batch excepted that removes it.
Removed(o, kept) ==
  /\ rows' = RemoveFirst(rows, o)
  /\ cause' = IF \E i \in DOMAIN rows : rows[i] = o /\ \E k \in kept : k.pos >= i
              THEN cause \cup {"shifted"} ELSE cause

\* Nothing tells the threads that change the rows of each other.
Raced(race) == cause' = IF race THEN cause \cup {"raced"} ELSE cause

\* Who has still to set a listener of the list view, and to take it away.
Before(k) == IF k = "click" THEN {"filled"} ELSE {"filled", "clicks"}
Setting(k) ==
  \E u \in Threads : ops[u].op \in {"add", "load"} /\ ops[u].pc \in Before(k) \cup {"removed"}
Taking(k) == \E u \in Threads : ops[u].op = "delete" /\ ops[u].pc \in Before(k)

\* setOn...Listener, with a listener for the new row, or with null for the row that
\* says there is no list; by then the other may be there in its place.
Set(k) == armed' = armed \cup {k} /\ Raced(ToSet(rows) = {Vacant} /\ ~ Taking(k))
Take(k) ==
  armed' = armed \ {k} /\ Raced(Vacant \notin ToSet(rows) /\ rows # <<>> /\ ~ Setting(k))

\* deleteList: the object goes, its label with it unless somebody still refers to it.
ReturnDelete(t) ==
  /\ Success(t, "delete")
  /\ Removed(ops[t].row, Swiped \cup Renames \cup (IF t = Ui THEN {} ELSE ToSet(batch)))
  /\ Goto(t, "removed")
  /\ LET o == ops[t].row
         others == {ops[u].row : u \in Threads \ {t}} \cup {s.row : s \in swipes}
     IN label' = IF o \in others THEN label ELSE [label EXCEPT ![o] = None]
  /\ UNCHANGED <<table, alive, shown, armed, loaded, fingers>>

\* size()==0.
Count(t) ==
  /\ ops[t].pc = "removed" /\ ops[t].op = "delete"
  /\ IF rows = <<>> THEN Goto(t, "empty") /\ UNCHANGED shown
                    ELSE Ends(t) /\ shown' = TRUE
  /\ UNCHANGED <<table, alive, rows, label, armed, loaded, fingers, cause>>

\* add(listeVide), though the rows may have others by now; or will, besides.
AddVacant(t) ==
  /\ ops[t].pc = "empty"
  /\ rows' = Append(rows, Vacant)
  /\ Raced(rows # <<>> \/ \E u \in Workers : ops[u].op = "add" /\ ops[u].pc = "removed")
  /\ Goto(t, "filled")
  /\ UNCHANGED <<table, alive, label, shown, armed, loaded, fingers>>

TakeClicks(t) ==
  /\ ops[t].pc = "filled" /\ ops[t].op = "delete"
  /\ Take("click") /\ Goto(t, "clicks")
  /\ UNCHANGED <<table, alive, rows, label, shown, loaded, fingers>>

TakeTouches(t) ==
  /\ ops[t].pc = "clicks" /\ ops[t].op = "delete"
  /\ Take("touch") /\ Ends(t) /\ shown' = TRUE
  /\ UNCHANGED <<table, alive, rows, label, loaded, fingers>>

\* Mutant: the row that says there is no list stays.
ReturnAddKeeping(t) ==
  /\ Success(t, "add")
  /\ Goto(t, "removed")
  /\ UNCHANGED <<table, alive, rows, label, shown, armed, loaded, fingers, cause>>

\* addNewList: the row that says there is no list goes, if contains finds one; when
\* another thread removes it between the two calls, remove does nothing.
ReturnAdd(t) ==
  /\ Success(t, "add")
  /\ Removed(Vacant, Swiped \cup Renames \cup ToSet(batch))
  /\ Goto(t, "removed")
  /\ UNCHANGED <<table, alive, label, shown, armed, loaded, fingers>>

\* add(new Liste(newListName)).
AddRow(t) ==
  /\ ops[t].pc = "removed" /\ ops[t].op = "add"
  /\ \E o \in Unused : rows' = Append(rows, o) /\ label' = [label EXCEPT ![o] = ops[t].name]
  /\ Goto(t, "filled")
  /\ UNCHANGED <<table, alive, shown, armed, loaded, fingers, cause>>

SetClicks(t) ==
  /\ ops[t].pc = "filled" /\ ops[t].op \in {"add", "load"}
  /\ Set("click") /\ Goto(t, "clicks")
  /\ UNCHANGED <<table, alive, rows, label, shown, loaded, fingers>>

SetTouches(t) ==
  /\ ops[t].pc = "clicks" /\ ops[t].op \in {"add", "load"}
  /\ Set("touch") /\ NewListener /\ Ends(t) /\ shown' = (shown \/ ops[t].op = "add")
  /\ UNCHANGED <<table, alive, rows, label, loaded, batch>>

\* editListName: the row at the position, whichever it is by now.
ReturnRename(t) ==
  /\ Success(t, "rename")
  /\ LET i == ops[t].pos IN
       \/ /\ i \in DOMAIN rows
          /\ label' = [label EXCEPT ![rows[i]] = ops[t].name]
          /\ shown' = TRUE
          /\ Ends(t)
          /\ UNCHANGED <<alive, refs, swipes, batch>>
       \/ /\ i \notin DOMAIN rows
          /\ Dies
          /\ UNCHANGED <<label, shown>>
  /\ UNCHANGED <<table, rows, armed, loaded, cause>>

-----------------------------------------------------------------------------
ByUser ==
  \/ Reopen
  \/ \E w \in Workers, n \in Typed : ConfirmAdd(w, n)
  \/ \E w \in Workers, i \in DOMAIN rows, n \in Typed :
       LongClick(w, i, Op("delete")) \/ LongClick(w, i, Rename(i, n))
  \/ \E w \in Workers : Confirm(w) \/ Cancel(w)
  \/ \E i \in DOMAIN rows : Down(i)

Return(t) ==
  \/ ReturnFailure(t) \/ ReturnRename(t)
  \/ ReturnDelete(t) \/ Count(t) \/ AddVacant(t) \/ TakeClicks(t) \/ TakeTouches(t)
  \/ ReturnAdd(t) \/ AddRow(t) \/ SetClicks(t) \/ SetTouches(t)

Exchange(t) == Serve(t) \/ Lose(t) \/ Return(t)
Touching == \E s \in swipes : Up(s) \/ Settle(s)

Next == ByUser \/ ReturnLoad \/ Dismiss \/ Touching \/ \E t \in Threads : Exchange(t)

Spec == Init /\ [][Next]_vars

-----------------------------------------------------------------------------
(* What is checked.                                                         *)

\* Types; and each listener counts the rows that move for it, those that have
\* shrunk and wait for the others excepted (mDismissAnimationRefCount), whatever
\* listeners the threads put in between.
OpState ==
  [op : {"none", "load", "add", "delete", "rename"},
   pc : {"free", "dialog", "sent", "served"} \cup Changing,
   row : Objects \cup {Vacant, None}, pos : Nat, name : Names \cup {None},
   ok : BOOLEAN, names : SUBSET Names]
Gesture == [by : Listeners, pos : Nat \ {0}, row : Objects \cup {Vacant},
            phase : {"down", "moving", "pending"}]

TypeOK ==
  /\ table \in Accounts
  /\ alive \in BOOLEAN /\ shown \in BOOLEAN /\ loaded \in BOOLEAN
  /\ armed \subseteq {"click", "touch"}
  /\ rows \in Seq(Objects \cup {Vacant})
  /\ label \in [Objects \cup {Vacant} -> Names \cup {None}]
  /\ ops \in [Threads -> OpState]
  /\ refs \in [Listeners -> Nat]
  /\ swipes \subseteq Gesture
  /\ batch \in Seq(Kept)
  /\ cause \subseteq {"early", "twice", "lost", "shifted", "raced"}
  /\ \A u \in Listeners :
       refs[u] = Cardinality({s \in swipes : s.by = u /\ s.phase = "moving"})

\* When nothing is under way, the screen shows the lists of the server, each in one
\* row whose label the server makes the name of, and can be touched; or the row that
\* says there is none, and cannot be.
\* Unless one of these came between, each of which can make the screen wrong: an
\* answer was lost though the change was made; a list was added before getLists
\* had filled the rows; a row was changed twice at a time; a row was removed above
\* one that was being renamed or swiped away; or the rows changed between two calls
\* of a thread that found them empty, or that sets or takes listeners for rows it has
\* added, or the row that says there is no list was chosen before that.
ScreenTrue ==
  (/\ alive /\ loaded /\ cause = {}
   /\ ~ Busy /\ swipes = {}
   /\ \A t \in Workers \cup {Loader} : ops[t].pc = "free")
  => IF DOMAIN table = {} THEN rows = <<Vacant>> /\ armed = {} /\ label[Vacant] = None
     ELSE /\ armed = {"click", "touch"}
          /\ Len(rows) = Cardinality(DOMAIN table)
          /\ {Sent(label[o]) : o \in ToSet(rows)} = DOMAIN table

\* A position means the row it was kept for, from the touch or the long click to
\* the answer, in the gesture, its animations, the batch of onDismiss and the
\* dialog and the thread of editListName, as long as no other thread removes a row
\* above, and no two race for the row that says there is no list; and only then can
\* the application end by an index out of bounds.
PositionsHold ==
  cause \cap {"shifted", "raced"} = {} =>
    /\ alive
    /\ \A k \in Swiped \cup Renames \cup ToSet(batch) :
         k.pos \in DOMAIN rows /\ rows[k.pos] = k.row
============================================================================
