--------------------------- MODULE MaintenanceLock ---------------------------
(***************************************************************************)
(* The instance maintenance lock (notes/maintenance-lock.ts) and the store *)
(* transactions it guards (notes/store-tx.ts): servers and writing CLIs    *)
(* hold the shared form of one Postgres advisory lock, an exporter the     *)
(* exclusive form, each on a reserved connection.  Postgres and the client *)
(* learn of a lost connection at different times, in either order.         *)
(***************************************************************************)
EXTENDS Integers, FiniteSets

CONSTANTS
  Servers,    \* processes that hold the shared form: the server, reindex, restore-backup, doctor --repair
  Exporters,  \* processes that hold the exclusive form: store-export-legacy, rows-from-files
  MaxStarts,  \* bound: starts of a process
  MaxDrops    \* bound: lost connections and failed attempts

ASSUME ProcessesAssumption == Servers \cap Exporters = {}
ASSUME LimitsAssumption == MaxStarts \in Nat /\ MaxDrops \in Nat

Procs == Servers \cup Exporters
\* Two are enough to see a second re-acquire loop.
Tasks == 1 .. 2

VARIABLES
  sessions,  \* Postgres: connections <<process, number>> that hold the process's form of the lock
  xact,      \* Postgres: processes whose store transaction holds the shared form
  proc,      \* each process: how far it runs, epoch, client, paused, lost
  tasks,     \* each process's calls of acquire: its start and its re-acquire loops
  held,      \* each process: connections it holds the lock on, as far as it knows
  closed,    \* each process: closed connections its onclose and its heartbeat may report, also late
  tx,        \* each process's store transaction
  disturbed, \* ghost: exporters during whose export a server's write was committed
  result,    \* each exporter's last result; ghost "blind" is an "ok" whose lock had gone unnoticed
  starts, drops

vars == <<sessions, xact, proc, tasks, held, closed, tx, disturbed, result, starts, drops>>
postgres == <<sessions, xact>>
store == <<tx, disturbed, result>>

\* `epoch` numbers connections; it goes on over restarts, so that a dead process's connection is told apart.
NotRunning(epoch) == [run |-> "down", epoch |-> epoch, client |-> 0, paused |-> FALSE, lost |-> FALSE]
NoTask == [at |-> "idle", conn |-> 0]
NoTasks == [t \in Tasks |-> NoTask]
Runs(p, phases) == proc[p].run \in phases

Init ==
  /\ sessions = {} /\ xact = {}
  /\ proc = [p \in Procs |-> NotRunning(0)] /\ tasks = [p \in Procs |-> NoTasks]
  /\ held = [p \in Procs |-> {}] /\ closed = [p \in Procs |-> {}]
  /\ tx = [p \in Procs |-> "none"] /\ disturbed = {} /\ result = [e \in Exporters |-> "none"]
  /\ starts = 0 /\ drops = 0

Drop == drops < MaxDrops /\ drops' = drops + 1
-----------------------------------------------------------------------------
(* Postgres *)

ExclusiveHeld == \E s \in sessions : s[1] \in Exporters
\* pg_try_advisory_lock[_shared]
Grantable(p) == IF p \in Servers THEN ~ExclusiveHeld ELSE sessions = {} /\ xact = {}

\* Postgres loses a connection; the process has not noticed.
SessionDies(p, c) ==
  /\ c \in held[p] /\ <<p, c>> \in sessions /\ Drop
  /\ sessions' = sessions \ {<<p, c>>}
  /\ UNCHANGED <<xact, proc, tasks, held, closed, store, starts>>

\* Postgres notices a connection that its process has lost, ended or died with.
Reap(p, c) ==
  /\ <<p, c>> \in sessions /\ c \notin held[p] /\ \A t \in Tasks : tasks[p][t] # [at |-> "granted", conn |-> c]
  /\ sessions' = sessions \ {<<p, c>>}
  /\ UNCHANGED <<xact, proc, tasks, held, closed, store, starts, drops>>
-----------------------------------------------------------------------------
(* A process *)

\* Mutant: the transaction's lock is taken for the session of a pooled connection.
LockedOn(p) == xact
\* The shared form of a store transaction ends with it.
Unlocked(p) == xact \ {p}

\* process.exit or a crash: the transaction is rolled back, the lock's connection is left to Postgres.
Exit(p) ==
  /\ proc' = [proc EXCEPT ![p] = NotRunning(proc[p].epoch)]
  /\ tasks' = [tasks EXCEPT ![p] = NoTasks]
  /\ held' = [held EXCEPT ![p] = {}] /\ closed' = [closed EXCEPT ![p] = {}]
  /\ tx' = [tx EXCEPT ![p] = "none"] /\ xact' = Unlocked(p)

Die(p) ==
  /\ ~Runs(p, {"down"}) /\ Exit(p)
  /\ UNCHANGED <<sessions, disturbed, result, starts, drops>>

Asking(p, t) ==
  /\ proc' = [proc EXCEPT ![p].epoch = @ + 1, ![p].run = IF @ = "down" THEN "starting" ELSE @]
  /\ tasks' = [tasks EXCEPT ![p][t] = [at |-> "asking", conn |-> proc[p].epoch + 1]]

\* holdInstanceLock, the first acquire
Start(p) ==
  /\ Runs(p, {"down"}) /\ starts < MaxStarts /\ starts' = starts + 1
  /\ Asking(p, 1)
  /\ disturbed' = disturbed \ {p}
  /\ result' = [e \in Exporters |-> IF e = p THEN "none" ELSE result[e]]
  /\ UNCHANGED <<postgres, held, closed, tx, drops>>

\* Postgres answers the attempt.
Answer(p, t) ==
  LET c == tasks[p][t].conn IN
  /\ tasks[p][t].at = "asking"
  /\ tasks' = [tasks EXCEPT ![p][t].at = IF Grantable(p) THEN "granted" ELSE "refused"]
  /\ sessions' = IF Grantable(p) THEN sessions \cup {<<p, c>>} ELSE sessions
  /\ UNCHANGED <<xact, proc, held, closed, store, starts, drops>>

\* Mutant: the loop does not ask again whether the lock was released meanwhile.
NeverLate(p) == FALSE
Late(p) == Runs(p, {"released"})

\* The answer "held" arrives: at the start, in the re-acquire loop, or in a loop that outlived release().
Acquired(p, t) ==
  LET c == tasks[p][t].conn IN
  /\ tasks[p][t].at = "granted"
  /\ tasks' = [tasks EXCEPT ![p][t] = NoTask]
  /\ IF Late(p)
     THEN sessions' = sessions \ {<<p, c>>} /\ UNCHANGED <<proc, held>>
     ELSE /\ proc' = [proc EXCEPT ![p].run = IF @ = "starting" THEN "up" ELSE @,
                              ![p].client = c, ![p].paused = FALSE]
          /\ held' = [held EXCEPT ![p] = @ \cup {c}]
          /\ UNCHANGED sessions
  /\ UNCHANGED <<xact, closed, store, starts, drops>>

\* The other form is held: a start exits 2, the re-acquire loop exits 1.
Refused(p, t) ==
  /\ tasks[p][t].at = "refused" /\ Exit(p)
  /\ UNCHANGED <<sessions, disturbed, result, starts, drops>>

\* Mutants: onclose reports attempts that never held the lock; the loop gives up at the first error.
ReportsAny(p, c) == TRUE
Reports(p, c) == c \in held[p]
Sleeping == [at |-> "sleeping", conn |-> 0]
LoopEnds == NoTask
Retry == Sleeping

\* The attempt's connection fails: the start throws, the loop sleeps again.
AttemptFails(p, t) ==
  LET c == tasks[p][t].conn IN
  /\ tasks[p][t].at \in {"asking", "granted"} /\ Drop
  /\ IF Runs(p, {"starting"}) THEN Exit(p)
     ELSE /\ tasks' = [tasks EXCEPT ![p][t] = Retry]
          /\ closed' = [closed EXCEPT ![p] = IF Reports(p, c) THEN @ \cup {c} ELSE @]
          /\ UNCHANGED <<proc, held, tx, xact>>
  /\ UNCHANGED <<sessions, disturbed, result, starts>>

\* reacquire: the loop's delay is over.
Wake(p, t) ==
  /\ tasks[p][t].at = "sleeping"
  /\ IF Runs(p, {"released"})
     THEN tasks' = [tasks EXCEPT ![p][t] = NoTask] /\ UNCHANGED proc
     ELSE Asking(p, t)
  /\ UNCHANGED <<postgres, held, closed, store, starts, drops>>

\* The process's end of the connection closes: first of all (at a cost), or after Postgres lost it.
Close(p, c) ==
  /\ c \in held[p]
  /\ IF <<p, c>> \in sessions THEN Drop ELSE UNCHANGED drops
  /\ held' = [held EXCEPT ![p] = @ \ {c}] /\ closed' = [closed EXCEPT ![p] = @ \cup {c}]
  /\ UNCHANGED <<postgres, proc, tasks, store, starts>>

\* Mutant: a second report of the same connection counts.
AnyReport(p, c) == TRUE
Current(p, c) == c = proc[p].epoch

\* dropped: by onclose or a failed heartbeat, so more than once.
Dropped(p, c) ==
  /\ c \in closed[p] /\ ~Runs(p, {"released"}) /\ Current(p, c)
  /\ proc' = [proc EXCEPT ![p].epoch = @ + 1, ![p].client = 0,
                          ![p].paused = p \in Servers, ![p].lost = p \in Exporters]
  /\ IF p \in Exporters THEN UNCHANGED tasks
     ELSE \E t \in Tasks : tasks[p][t] = NoTask /\ tasks' = [tasks EXCEPT ![p][t] = Sleeping]
  /\ UNCHANGED <<postgres, held, closed, store, starts, drops>>

\* release: no re-acquire after it.
Release(p) ==
  LET c == proc[p].client IN
  /\ proc' = [proc EXCEPT ![p].run = "released", ![p].epoch = @ + 1, ![p].client = 0, ![p].paused = FALSE]
  /\ sessions' = sessions \ {<<p, c>>} /\ held' = [held EXCEPT ![p] = @ \ {c}]

\* A writing CLI is done.
Finish(p) ==
  /\ p \in Servers /\ Runs(p, {"up"}) /\ tx[p] = "none" /\ Release(p)
  /\ UNCHANGED <<xact, tasks, closed, store, starts, drops>>

\* Mutant: the export does not ask whether its lock was lost.
NeverLost(e) == FALSE
LockLost(e) == proc[e].lost

\* Its session is gone, and no report of that has reached the process.
Unnoticed(e) == proc[e].client # 0 /\ <<e, proc[e].client>> \notin sessions

\* exportLegacyFiles: the report is written only if the loss of the lock was not noticed.
FinishExport(e) ==
  /\ Runs(e, {"up"}) /\ tx[e] = "none" /\ Release(e)
  /\ result' = [result EXCEPT ![e] = CASE LockLost(e) -> "failed"
                                        [] ~LockLost(e) /\ Unnoticed(e) -> "blind"
                                        [] OTHER -> "ok"]
  /\ UNCHANGED <<xact, tasks, closed, tx, disturbed, starts, drops>>
-----------------------------------------------------------------------------
(* Store transactions *)

\* storeTransaction: writesPaused() is asked before the transaction.
Begin(p) ==
  /\ Runs(p, {"up"}) /\ tx[p] = "none" /\ ~proc[p].paused
  /\ tx' = [tx EXCEPT ![p] = "begun"]
  /\ UNCHANGED <<postgres, proc, tasks, held, closed, disturbed, result, starts, drops>>

\* Mutant: the check of the transaction is left to writesPaused().
GuardPassed(p) == TRUE
\* pg_try_advisory_xact_lock_shared
InstanceOk(p) == ~ExclusiveHeld
OwnsExclusive(p) == p \in Exporters /\ ~proc[p].lost

Guard(p) ==
  /\ tx[p] = "begun"
  /\ IF OwnsExclusive(p) THEN tx' = [tx EXCEPT ![p] = "writing"] /\ UNCHANGED xact
     ELSE IF InstanceOk(p) THEN tx' = [tx EXCEPT ![p] = "writing"] /\ xact' = xact \cup {p}
     ELSE tx' = [tx EXCEPT ![p] = "none"] /\ UNCHANGED xact
  /\ UNCHANGED <<sessions, proc, tasks, held, closed, disturbed, result, starts, drops>>

Commit(p) ==
  /\ tx[p] = "writing"
  /\ tx' = [tx EXCEPT ![p] = "none"] /\ xact' = Unlocked(p)
  /\ disturbed' = IF p \in Servers THEN disturbed \cup {e \in Exporters : Runs(e, {"up"})} ELSE disturbed
  /\ UNCHANGED <<sessions, proc, tasks, held, closed, result, starts, drops>>

RollBack(p) ==
  /\ tx[p] # "none"
  /\ tx' = [tx EXCEPT ![p] = "none"] /\ xact' = Unlocked(p)
  /\ UNCHANGED <<sessions, proc, tasks, held, closed, disturbed, result, starts, drops>>
-----------------------------------------------------------------------------
Connections(p) == 1 .. proc[p].epoch

Step(p) ==
  \/ \E t \in Tasks : Answer(p, t) \/ Acquired(p, t) \/ Refused(p, t) \/ AttemptFails(p, t) \/ Wake(p, t)
  \/ \E c \in Connections(p) : SessionDies(p, c) \/ Reap(p, c) \/ Close(p, c) \/ Dropped(p, c)
  \/ Start(p) \/ Die(p) \/ Finish(p)
  \/ Begin(p) \/ Guard(p) \/ Commit(p) \/ RollBack(p)

Next == (\E p \in Procs : Step(p)) \/ \E e \in Exporters : FinishExport(e)

Spec == Init /\ [][Next]_vars

\* The loop's timer fires, Postgres answers or the attempt fails, and a dead connection is noticed on both ends
\* (the heartbeat, Postgres' keep-alive).
Fairness ==
  \A p \in Procs :
    /\ \A t \in Tasks : WF_vars(Wake(p, t)) /\ WF_vars(Answer(p, t)) /\ WF_vars(Acquired(p, t) \/ Refused(p, t))
    /\ WF_vars(\E c \in Connections(p) : Reap(p, c))

FairSpec == Spec /\ Fairness
-----------------------------------------------------------------------------
(* Properties *)

\* The types; the shared form of a store transaction is held only while it writes.
TypeOK ==
  /\ sessions \subseteq Procs \X Nat /\ xact \subseteq {p \in Procs : tx[p] = "writing"}
  /\ proc \in [Procs -> [run : {"down", "starting", "up", "released"}, epoch : Nat, client : Nat,
                         paused : BOOLEAN, lost : BOOLEAN]]
  /\ tasks \in [Procs -> [Tasks -> [at : {"idle", "sleeping", "asking", "granted", "refused"}, conn : Nat]]]
  /\ held \in [Procs -> SUBSET Nat] /\ closed \in [Procs -> SUBSET Nat]
  /\ tx \in [Procs -> {"none", "begun", "writing"}] /\ disturbed \subseteq Exporters
  /\ result \in [Exporters -> {"none", "ok", "failed", "blind"}]
  /\ starts \in Nat /\ drops \in Nat

\* An export that reports success had the instance for itself: no server committed a write from its start to its
\* end, though connections are lost and noticed late on either side, unless its own lock was gone at its end
\* without its process knowing (the check of `lost` can see no more).
ExportUndisturbed == \A e \in Exporters : result[e] = "ok" => e \notin disturbed

\* A process re-acquires in one loop and holds the lock on one connection: none is left behind by a second loop
\* to keep every exporter out.
OneLoop ==
  \A p \in Procs : /\ Cardinality({t \in Tasks : tasks[p][t] # NoTask}) <= 1
                   /\ held[p] \subseteq {proc[p].client}

\* A process that believes its lock is lost takes its writes up again, or ends: it does not stay paused.
PauseEnds == \A p \in Servers : proc[p].paused ~> ~proc[p].paused

\* After release() no connection of the process keeps the lock, also not one a running re-acquire loop was opening.
NoneAfterRelease ==
  \A p \in Procs : Runs(p, {"released"}) ~> (~Runs(p, {"released"}) \/ \A s \in sessions : s[1] # p)

\* Both: whatever is lost and re-acquired, a process ends up with the lock it believes it has, or with none.
Recovers == PauseEnds /\ NoneAfterRelease
=============================================================================
