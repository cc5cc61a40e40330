--------------------------- MODULE ConnectionPool ---------------------------
(* The pool of PostgreSQL connections: initPostPool of requete.js, the pool *)
(* of generic-pool and the clients of pg it hands out.  A handler passes a  *)
(* statement to pg(query, callback); the pool gives it a client, alone, and *)
(* gets the client back when the callback of the statement is called.       *)
(*                                                                          *)
(* Callbacks run to their end, so that a step is everything one event does: *)
(* the release of a client includes the next statement it is given to.      *)
(* A connection may break while it is used, or idle, or before it is up.    *)
(* A stream error that no statement takes is an error event without a       *)
(* listener, which ends the process; a connection closed in order is only   *)
(* noticed by the statement that uses it.                                   *)
EXTENDS Naturals, SequencesExt, FiniteSets

CONSTANTS Queries,  \* statements that handlers ask for, each again and again
          Clients,  \* names for the clients there are at a time
          PoolMax, PoolMin,  \* factory.max and factory.min
          None

\* The constructor keeps min below max.
ASSUME BoundsAssumption == PoolMax \in Nat /\ PoolMin \in Nat /\ PoolMin < PoolMax
ASSUME ClientsAssumption == IsFiniteSet(Clients) /\ Cardinality(Clients) = PoolMax
ASSUME NoneAssumption == None \notin Queries

VARIABLES alive,      \* the process runs
          asked,      \* statements whose callback is still to be called
          waiting,    \* _waitingClients: statements without a client
          avail,      \* _availableObjects: idle clients, in the order of their release
          inUse,      \* _inUseObjects
          count,      \* _count
          expired,    \* how many of the idle clients, the first, have timed out
          scheduled,  \* _removeIdleScheduled
          client      \* the clients of pg

vars == <<alive, asked, waiting, avail, inUse, count, expired, scheduled, client>>

\* A client: its connection; readyForQuery; the statement in queryQueue or, when
\* it was sent, activeQuery.
Client == {x \in [link : {"connecting", "up", "down"}, ready : BOOLEAN,
                  work : Queries \cup {None}, sent : BOOLEAN] :
             /\ x.sent => x.work # None /\ ~ x.ready
             /\ x.ready => x.work = None}
Connecting == [link |-> "connecting", ready |-> FALSE, work |-> None, sent |-> FALSE]

\* client.query: _pulseQueryQueue sends it if the client is ready.
Given(x, q) == [x EXCEPT !.work = q, !.sent = x.ready, !.ready = FALSE]

\* ReadyForQuery: _pulseQueryQueue sends what is queued.
Pulsed(x) == [x EXCEPT !.ready = x.work = None, !.sent = x.work # None]

Pooled == ToSet(avail) \cup inUse

\* The constructor: _ensureMinimum creates clients, which are released at once.
Init ==
  /\ alive = TRUE
  /\ avail \in Injection(1 .. PoolMin, Clients)
  /\ count = PoolMin /\ scheduled = (PoolMin > 0)
  /\ asked = {} /\ waiting = <<>> /\ inUse = {} /\ expired = 0
  /\ client = [c \in Clients |-> Connecting]

-----------------------------------------------------------------------------
(* The pool.                                                                *)

\* The first of the idle clients is not idle any more.
FirstLeaves == expired' = IF expired > 0 THEN expired - 1 ELSE 0

\* acquire, then _dispense: an idle client if there is one, else a new one if
\* there may be one more.  The one who waits first is served.
Ask(q) ==
  /\ alive /\ q \notin asked
  /\ asked' = asked \cup {q}
  /\ LET queue == Append(waiting, q) IN
       \/ /\ avail # <<>>
          /\ waiting' = Tail(queue)
          /\ avail' = Tail(avail)
          /\ inUse' = inUse \cup {Head(avail)}
          /\ FirstLeaves
          /\ client' = [client EXCEPT ![Head(avail)] = Given(@, Head(queue))]
          /\ UNCHANGED count
       \/ /\ avail = <<>> /\ count < PoolMax
          /\ waiting' = Tail(queue)
          /\ count' = count + 1
          /\ \E c \in Clients \ Pooled :
               /\ inUse' = inUse \cup {c}
               /\ client' = [client EXCEPT ![c] = Given(Connecting, Head(queue))]
          /\ UNCHANGED <<avail, expired>>
       \/ /\ avail = <<>> /\ count >= PoolMax
          /\ waiting' = queue
          /\ UNCHANGED <<avail, inUse, count, expired, client>>
  /\ UNCHANGED <<alive, scheduled>>

\* Mutant: no _dispense after the release.
FinishQuietly(c, after) ==
  /\ asked' = asked \ {client[c].work}
  /\ avail' = Append(avail, c)
  /\ inUse' = inUse \ {c}
  /\ client' = [client EXCEPT ![c] = after]
  /\ scheduled' = TRUE
  /\ UNCHANGED <<alive, waiting, count, expired>>

\* Mutant: the client is released only when the connection is up.
FinishIfUp(c, after) ==
  /\ asked' = asked \ {client[c].work}
  /\ client' = [client EXCEPT ![c] = after]
  /\ IF after.link = "up" /\ waiting = <<>>
     THEN avail' = Append(avail, c) /\ inUse' = inUse \ {c}
     ELSE UNCHANGED <<avail, inUse>>
  /\ UNCHANGED <<alive, waiting, count, expired, scheduled>>

\* The callback of the statement of client c, which is then as "after" says:
\* release puts c at the end of the idle ones, and _dispense serves the one who
\* waits first.  Then the handler is called back.
Finish(c, after) ==
  /\ asked' = asked \ {client[c].work}
  /\ LET back == Append(avail, c)
         free == [client EXCEPT ![c] = after]
         d == Head(back)
     IN \/ /\ waiting = <<>>
           /\ avail' = back
           /\ inUse' = inUse \ {c}
           /\ client' = free
           /\ UNCHANGED <<waiting, expired>>
        \/ /\ waiting # <<>>
           /\ avail' = Tail(back)
           /\ inUse' = (inUse \ {c}) \cup {d}
           /\ client' = [free EXCEPT ![d] = Given(@, Head(waiting))]
           /\ waiting' = Tail(waiting)
           /\ FirstLeaves
  /\ scheduled' = TRUE
  /\ UNCHANGED <<alive, count>>

\* Timeouts pass in the order of release, in which the clients are idle.
Expire ==
  /\ expired < Len(avail)
  /\ expired' = expired + 1
  /\ UNCHANGED <<alive, asked, waiting, avail, inUse, count, scheduled, client>>

\* The clients that are kept, and the clients created for the minimum.
Unexpired == SubSeq(avail, expired + 1, Len(avail))
Missing == IF count - expired < PoolMin THEN PoolMin - (count - expired) ELSE 0

\* Mutant: the timer is not set again.
RemoveIdleOnce ==
  /\ scheduled
  /\ scheduled' = FALSE
  /\ expired' = 0
  /\ \E new \in Injection(1 .. Missing, Clients \ (inUse \cup ToSet(Unexpired))) :
       /\ avail' = Unexpired \o new
       /\ client' = [c \in Clients |-> IF c \in ToSet(new) THEN Connecting ELSE client[c]]
  /\ count' = count - expired + Missing
  /\ UNCHANGED <<alive, asked, waiting, inUse>>

\* Mutant: destroy does not count.
RemoveIdleUncounted ==
  /\ scheduled
  /\ avail' = Unexpired
  /\ scheduled' = (avail' # <<>>)
  /\ expired' = 0
  /\ UNCHANGED <<alive, asked, waiting, inUse, count, client>>

\* The timer of the pool: every expired client is destroyed (refreshIdle), and
\* _ensureMinimum creates clients for those that are missing.  Nobody waits as
\* long as a client is idle, so they are all released.
RemoveIdle ==
  /\ scheduled
  /\ expired' = 0
  /\ \E new \in Injection(1 .. Missing, Clients \ (inUse \cup ToSet(Unexpired))) :
       /\ avail' = Unexpired \o new
       /\ client' = [c \in Clients |-> IF c \in ToSet(new) THEN Connecting ELSE client[c]]
  /\ count' = count - expired + Missing
  /\ scheduled' = (avail' # <<>>)
  /\ UNCHANGED <<alive, asked, waiting, inUse>>

-----------------------------------------------------------------------------
(* The clients.                                                             *)

Quiet == UNCHANGED <<alive, asked, waiting, avail, inUse, count, expired, scheduled>>
Idle(c) == client[c].link = "up" /\ ~ client[c].ready /\ ~ client[c].sent

\* Mutant: readyForQuery stays set when a statement is sent.
ReadyStill(c) ==
  /\ c \in Pooled
  /\ client[c].link = "connecting" \/ Idle(c)
  /\ client' = [client EXCEPT ![c] = [Pulsed(@) EXCEPT !.link = "up", !.ready = TRUE]]
  /\ Quiet

\* ReadyForQuery without a statement sent: the connection is up, or the server
\* is ready again after an error.
Ready(c) ==
  /\ c \in Pooled
  /\ client[c].link = "connecting" \/ Idle(c)
  /\ client' = [client EXCEPT ![c] = [Pulsed(@) EXCEPT !.link = "up"]]
  /\ Quiet

\* ReadyForQuery after a result.
Answer(c) ==
  /\ c \in inUse /\ client[c].link = "up" /\ client[c].sent
  /\ Finish(c, [link |-> "up", ready |-> TRUE, work |-> None, sent |-> FALSE])

\* An error message: the callback is called, ReadyForQuery is still to come.  Or
\* the connection broke, or was broken when the statement was sent.
Fail(c) ==
  /\ c \in inUse /\ client[c].sent
  /\ \E link \in IF client[c].link = "up" THEN {"up", "down"} ELSE {"down"} :
       Finish(c, [link |-> link, ready |-> FALSE, work |-> None, sent |-> FALSE])

\* The server closes a connection on which no statement is under way.  Nobody
\* looks at it: the client keeps its place, and what was queued stays queued.
Close(c) ==
  /\ c \in Pooled /\ client[c].link # "down" /\ ~ client[c].sent
  /\ client' = [client EXCEPT ![c].link = "down"]
  /\ Quiet

\* An error event of such a connection has no listener, and the process ends; it
\* may end for other reasons too.
Crash ==
  /\ alive /\ alive' = FALSE
  /\ asked' = {} /\ waiting' = <<>> /\ avail' = <<>> /\ inUse' = {} /\ expired' = 0
  /\ count' = 0 /\ scheduled' = FALSE
  /\ client' = [d \in Clients |-> Connecting]

\* The operator starts the server again.
Start ==
  /\ ~ alive /\ alive' = TRUE
  /\ avail' \in Injection(1 .. PoolMin, Clients)
  /\ count' = PoolMin /\ scheduled' = (PoolMin > 0)
  /\ UNCHANGED <<asked, waiting, inUse, expired, client>>

Next ==
  \/ \E q \in Queries : Ask(q)
  \/ Expire
  \/ RemoveIdle
  \/ \E c \in Clients : Ready(c) \/ Answer(c) \/ Fail(c) \/ Close(c)
  \/ Crash
  \/ Start

Spec == Init /\ [][Next]_vars

\* Time passes, timers fire, and the server answers or breaks the connection.
FairSpec ==
  /\ Spec
  /\ WF_vars(Expire) /\ WF_vars(RemoveIdle)
  /\ \A c \in Clients : WF_vars(Ready(c)) /\ WF_vars(Answer(c) \/ Fail(c))

-----------------------------------------------------------------------------
(* Properties.                                                              *)

\* Types; and no client is given a statement while another is under way on it.
TypeOK ==
  /\ alive \in BOOLEAN /\ scheduled \in BOOLEAN
  /\ asked \subseteq Queries
  /\ waiting \in Seq(Queries)
  /\ avail \in Seq(Clients)
  /\ inUse \subseteq Clients
  /\ count \in 0 .. PoolMax /\ expired \in 0 .. Len(avail)
  /\ client \in [Clients -> Client]

\* A statement waits only when every client there may be is in use: release and
\* acquire leave nobody behind.
NobodyWaitsBesideIdle == waiting # <<>> => avail = <<>> /\ count = PoolMax

\* The count is the number of clients, each is idle or in use and not twice, and
\* every statement asked for either waits, once, or has one client of its own.
Accounted ==
  alive =>
    /\ IsInjective(avail) /\ ToSet(avail) \cap inUse = {}
    /\ count = Len(avail) + Cardinality(inUse)
    /\ PoolMin <= count /\ count <= PoolMax
    /\ IsInjective(waiting)
    /\ \A c \in inUse : client[c].work \in asked \ ToSet(waiting)
    /\ \A c, d \in inUse : client[c].work = client[d].work => c = d
    /\ \A q \in asked : q \in ToSet(waiting) \/ \E c \in inUse : client[c].work = q

\* A statement queued on a connection that is gone: nothing will send it.
Stuck(c) == c \in inUse /\ client[c].link = "down" /\ ~ client[c].sent

\* Every statement is answered, unless the process ends, or the statement itself
\* or every client of the pool is stuck on a connection that is gone.
QueryEnds ==
  \A q \in Queries :
    q \in asked ~> \/ q \notin asked
                   \/ \E c \in Clients : Stuck(c) /\ client[c].work = q
                   \/ \A c \in Clients : Stuck(c)

\* A dead client does not stay idle for ever: it is used, and then fails its
\* statement, or the timer replaces it.
DeadReplaced ==
  \A c \in Clients :
    (c \in ToSet(avail) /\ client[c].link = "down") ~>
      ~ (c \in ToSet(avail) /\ client[c].link = "down")

=============================================================================
