------------------------ MODULE MaintenanceLockProofs ------------------------
(***************************************************************************)
(* For any number of servers and exporters, of starts and of lost          *)
(* connections: types, the exclusion Postgres gives, that an export        *)
(* reported as a success had the instance for itself, and that a process   *)
(* asks for the lock in one loop and holds it on one connection.           *)
(***************************************************************************)
EXTENDS MaintenanceLock, FiniteSetTheorems, TLAPS

\* An exporter's session is alone: no other session, and no store transaction under the shared form.
Exclusion == \A s \in sessions : s[1] \in Exporters => sessions = {s} /\ xact = {}

\* A server writes only under the shared form of its transaction.
WritersLocked == \A p \in Servers : tx[p] = "writing" => p \in xact

\* An exporter asks for the lock once, at its start.
ExporterAsksOnce ==
  \A e \in Exporters, t \in Tasks :
    tasks[e][t] # NoTask => t = 1 /\ Runs(e, {"starting"}) /\ tasks[e][t].at # "sleeping"

ConnectionsNumbered ==
  /\ \A p \in Procs, t \in Tasks : tasks[p][t].at \in {"asking", "granted"} => tasks[p][t].conn > 0
  /\ \A s \in sessions : s[2] > 0

\* What is known of an export from its start to its result.
ExportInv ==
  \A e \in Exporters :
    /\ Runs(e, {"starting"}) => e \notin disturbed
    /\ Runs(e, {"starting", "up"}) => result[e] = "none"
    /\ Runs(e, {"up"}) /\ ~proc[e].lost => proc[e].client > 0
    /\ Runs(e, {"up"}) /\ <<e, proc[e].client>> \in sessions => e \notin disturbed
    /\ result[e] = "ok" => e \notin disturbed

MInv == TypeOK /\ Exclusion /\ WritersLocked /\ ExporterAsksOnce /\ ConnectionsNumbered /\ ExportInv
-----------------------------------------------------------------------------
Phases == {"down", "starting", "up", "released"}
ProcRecord == [run : Phases, epoch : Nat, client : Nat, paused : BOOLEAN, lost : BOOLEAN]
TaskRecord == [at : {"idle", "sleeping", "asking", "granted", "refused"}, conn : Nat]

\* The two updates of a process's record that Asking and Dropped make.
LEMMA RecordAsks ==
  ASSUME NEW r \in ProcRecord, NEW run \in Phases
  PROVE  [r EXCEPT !.epoch = r.epoch + 1, !.run = run] \in ProcRecord
<1>1. r.epoch + 1 \in Nat
  BY DEF ProcRecord
<1>2. \A n \in Nat : [r EXCEPT !.epoch = n, !.run = run] \in ProcRecord
  BY DEF ProcRecord
<1> QED
  BY <1>1, <1>2

LEMMA RecordDrops ==
  ASSUME NEW r \in ProcRecord, NEW paused \in BOOLEAN, NEW lost \in BOOLEAN
  PROVE  [r EXCEPT !.epoch = r.epoch + 1, !.client = 0, !.paused = paused, !.lost = lost] \in ProcRecord
<1>1. r.epoch + 1 \in Nat
  BY DEF ProcRecord
<1>2. \A n \in Nat : [r EXCEPT !.epoch = n, !.client = 0, !.paused = paused, !.lost = lost] \in ProcRecord
  BY DEF ProcRecord
<1> QED
  BY <1>1, <1>2

LEMMA MInit == Init => MInv
<1> SUFFICES ASSUME Init PROVE MInv
  OBVIOUS
<1>1. NotRunning(0) \in ProcRecord /\ NoTasks \in [Tasks -> TaskRecord]
  BY DEF NotRunning, ProcRecord, Phases, NoTasks, NoTask, TaskRecord
<1>2. TypeOK
  BY <1>1 DEF Init, TypeOK, ProcRecord, Phases, TaskRecord
<1>3. \A p \in Procs : proc[p].run = "down" /\ \A t \in Tasks : tasks[p][t] = NoTask
  BY DEF Init, NotRunning, NoTasks
<1>4. Exclusion /\ WritersLocked /\ ExporterAsksOnce
  BY <1>3 DEF Init, Exclusion, WritersLocked, ExporterAsksOnce, Procs
<1>5. ConnectionsNumbered
  BY <1>3 DEF Init, ConnectionsNumbered, NoTask
<1>6. ExportInv
  BY <1>3 DEF Init, ExportInv, Runs, Procs
<1> QED
  BY <1>2, <1>4, <1>5, <1>6 DEF MInv

\* What a process that exits leaves behind.
LEMMA ExitTypes ==
  ASSUME TypeOK, NEW p \in Procs, Exit(p), UNCHANGED <<sessions, disturbed, result, starts>>, drops' \in Nat
  PROVE  TypeOK'
<1>1. NotRunning(proc[p].epoch) \in ProcRecord /\ NoTasks \in [Tasks -> TaskRecord]
  BY DEF TypeOK, NotRunning, ProcRecord, Phases, NoTasks, NoTask, TaskRecord
<1>2. /\ proc' \in [Procs -> ProcRecord] /\ tasks' \in [Procs -> [Tasks -> TaskRecord]]
      /\ held' \in [Procs -> SUBSET Nat] /\ closed' \in [Procs -> SUBSET Nat]
  BY <1>1 DEF Exit, TypeOK, ProcRecord, Phases, TaskRecord
<1>3. tx' \in [Procs -> {"none", "begun", "writing"}] /\ xact' \subseteq {q \in Procs : tx'[q] = "writing"}
  BY DEF Exit, TypeOK, Unlocked
<1> QED
  BY <1>2, <1>3 DEF TypeOK, ProcRecord, Phases, TaskRecord

LEMMA AskingTypes ==
  ASSUME TypeOK, NEW p \in Procs, NEW t \in Tasks, Asking(p, t)
  PROVE  proc' \in [Procs -> ProcRecord] /\ tasks' \in [Procs -> [Tasks -> TaskRecord]]
<1>1. [at |-> "asking", conn |-> proc[p].epoch + 1] \in TaskRecord
  BY DEF TypeOK, TaskRecord
<1>2. proc \in [Procs -> ProcRecord] /\ tasks \in [Procs -> [Tasks -> TaskRecord]]
  BY DEF TypeOK, ProcRecord, Phases, TaskRecord
<1>3. tasks' \in [Procs -> [Tasks -> TaskRecord]]
  BY <1>1, <1>2 DEF Asking
<1>4. proc' \in [Procs -> ProcRecord]
  <2> DEFINE record(run) == [proc[p] EXCEPT !.epoch = @ + 1, !.run = run]
  <2>1. proc[p] \in ProcRecord
    BY <1>2
  <2>2. \A run \in Phases : record(run) \in ProcRecord
    BY <2>1, RecordAsks
  <2>3. \E run \in Phases : proc' = [proc EXCEPT ![p] = record(run)]
    <3>1. proc[p].run \in Phases /\ "starting" \in Phases
      BY <2>1 DEF ProcRecord, Phases
    <3>2. CASE proc[p].run = "down"
      BY <1>2, <3>1, <3>2 DEF Asking
    <3>3. CASE proc[p].run # "down"
      BY <1>2, <3>1, <3>3 DEF Asking
    <3> QED
      BY <3>2, <3>3
  <2> QED
    BY <1>2, <2>2, <2>3
<1> QED
  BY <1>3, <1>4

LEMMA MTypes == TypeOK /\ [Next]_vars => TypeOK'
<1> SUFFICES ASSUME TypeOK, [Next]_vars PROVE TypeOK'
  OBVIOUS
<1>t. /\ proc \in [Procs -> ProcRecord] /\ tasks \in [Procs -> [Tasks -> TaskRecord]]
      /\ held \in [Procs -> SUBSET Nat] /\ closed \in [Procs -> SUBSET Nat]
      /\ drops \in Nat /\ (Drop => drops' \in Nat)
  BY DEF TypeOK, ProcRecord, Phases, TaskRecord, Drop
<1>r. NoTask \in TaskRecord /\ Sleeping \in TaskRecord
  BY DEF NoTask, Sleeping, TaskRecord
<1>1. CASE UNCHANGED vars
  BY <1>1 DEF vars, TypeOK
<1>2. ASSUME NEW p \in Procs, NEW c \in Connections(p), SessionDies(p, c) PROVE TypeOK'
  BY <1>t, <1>2 DEF SessionDies, TypeOK, store
<1>3. ASSUME NEW p \in Procs, NEW c \in Connections(p), Reap(p, c) PROVE TypeOK'
  BY <1>3 DEF Reap, TypeOK, store
<1>4. ASSUME NEW p \in Procs, NEW c \in Connections(p), Close(p, c) PROVE TypeOK'
  <2>1. c \in Nat
    BY <1>t, <1>4 DEF Close
  <2> QED
    BY <1>t, <1>4, <2>1 DEF Close, TypeOK, store, postgres
<1>5. ASSUME NEW p \in Procs, NEW c \in Connections(p), Dropped(p, c) PROVE TypeOK'
  <2>1. proc' \in [Procs -> ProcRecord]
    <3> DEFINE record(paused, lost) == [proc[p] EXCEPT !.epoch = @ + 1, !.client = 0, !.paused = paused, !.lost = lost]
    <3>1. proc[p] \in ProcRecord
      BY <1>t
    <3>2. \A paused, lost \in BOOLEAN : record(paused, lost) \in ProcRecord
      BY <3>1, RecordDrops
    <3>3. proc' = [proc EXCEPT ![p] = record(p \in Servers, p \in Exporters)]
      BY <1>t, <1>5 DEF Dropped
    <3>4. record(p \in Servers, p \in Exporters) \in ProcRecord
      <4>1. (p \in Servers) \in BOOLEAN /\ (p \in Exporters) \in BOOLEAN
        OBVIOUS
      <4> HIDE DEF record
      <4> QED
        BY <3>2, <4>1, Zenon
    <3> QED
      BY <1>t, <3>3, <3>4
  <2>2. tasks' \in [Procs -> [Tasks -> TaskRecord]]
    BY <1>t, <1>r, <1>5 DEF Dropped
  <2> QED
    BY <1>5, <2>1, <2>2 DEF Dropped, TypeOK, store, postgres, ProcRecord, Phases, TaskRecord
<1>6. ASSUME NEW p \in Procs, NEW t \in Tasks, Answer(p, t) PROVE TypeOK'
  <2>0. tasks[p][t] \in TaskRecord
    BY <1>t
  <2>1. tasks' \in [Procs -> [Tasks -> TaskRecord]] /\ tasks[p][t].conn \in Nat
    <3>1. /\ [tasks[p][t] EXCEPT !.at = "granted"] \in TaskRecord /\ [tasks[p][t] EXCEPT !.at = "refused"] \in TaskRecord
          /\ tasks[p][t].conn \in Nat
      BY <2>0 DEF TaskRecord
    <3>2. CASE Grantable(p)
      BY <1>t, <1>6, <3>1, <3>2 DEF Answer
    <3>3. CASE ~Grantable(p)
      BY <1>t, <1>6, <3>1, <3>3 DEF Answer
    <3> QED
      BY <3>2, <3>3
  <2>2. sessions' \subseteq Procs \X Nat
    BY <1>6, <2>1 DEF Answer, TypeOK
  <2> QED
    BY <1>6, <2>1, <2>2 DEF Answer, TypeOK, store, TaskRecord
<1>7. ASSUME NEW p \in Procs, NEW t \in Tasks, Acquired(p, t) PROVE TypeOK'
  <2>1. tasks' \in [Procs -> [Tasks -> TaskRecord]] /\ tasks[p][t].conn \in Nat
    BY <1>t, <1>r, <1>7 DEF Acquired, TaskRecord
  <2>2. proc' \in [Procs -> ProcRecord]
    BY <1>t, <1>7, <2>1 DEF Acquired, ProcRecord, Phases
  <2>3. held' \in [Procs -> SUBSET Nat]
    BY <1>t, <1>7, <2>1 DEF Acquired
  <2> QED
    BY <1>7, <2>1, <2>2, <2>3 DEF Acquired, TypeOK, store, ProcRecord, Phases, TaskRecord
<1>8. ASSUME NEW p \in Procs, NEW t \in Tasks, Refused(p, t) PROVE TypeOK'
  BY <1>t, <1>8, ExitTypes DEF Refused
<1>9. ASSUME NEW p \in Procs, NEW t \in Tasks, AttemptFails(p, t) PROVE TypeOK'
  <2>1. CASE Runs(p, {"starting"})
    BY <1>t, <1>9, <2>1, ExitTypes DEF AttemptFails
  <2>2. CASE ~Runs(p, {"starting"})
    <3>1. tasks[p][t].conn \in Nat
      BY <1>t DEF TaskRecord
    <3>2. tasks' \in [Procs -> [Tasks -> TaskRecord]]
      <4>1. tasks' = [tasks EXCEPT ![p][t] = Sleeping]
        BY <1>9, <2>2 DEF AttemptFails, Retry
      <4> QED
        BY <1>t, <1>r, <4>1
    <3>3. closed' \in [Procs -> SUBSET Nat]
      BY <1>t, <1>9, <2>2, <3>1 DEF AttemptFails
    <3> QED
      BY <1>t, <1>9, <2>2, <3>2, <3>3 DEF AttemptFails, TypeOK, TaskRecord
  <2> QED
    BY <2>1, <2>2
<1>10. ASSUME NEW p \in Procs, NEW t \in Tasks, Wake(p, t) PROVE TypeOK'
  <2>1. proc' \in [Procs -> ProcRecord] /\ tasks' \in [Procs -> [Tasks -> TaskRecord]]
    BY <1>t, <1>r, <1>10, AskingTypes DEF Wake
  <2> QED
    BY <1>10, <2>1 DEF Wake, TypeOK, store, postgres, ProcRecord, Phases, TaskRecord
<1>11. ASSUME NEW p \in Procs, Start(p) PROVE TypeOK'
  <2>1. proc' \in [Procs -> ProcRecord] /\ tasks' \in [Procs -> [Tasks -> TaskRecord]]
    BY <1>11, AskingTypes DEF Start, Tasks
  <2> QED
    BY <1>11, <2>1 DEF Start, TypeOK, postgres, ProcRecord, Phases, TaskRecord
<1>12. ASSUME NEW p \in Procs, Die(p) PROVE TypeOK'
  BY <1>t, <1>12, ExitTypes DEF Die
<1>13. ASSUME NEW p \in Procs, Release(p)
       PROVE  /\ proc' \in [Procs -> ProcRecord] /\ held' \in [Procs -> SUBSET Nat]
              /\ sessions' \subseteq Procs \X Nat
  <2>1. proc' \in [Procs -> ProcRecord]
    BY <1>t, <1>13 DEF Release, ProcRecord, Phases
  <2> QED
    BY <1>t, <1>13, <2>1 DEF Release, TypeOK
<1>14. ASSUME NEW p \in Procs, Finish(p) PROVE TypeOK'
  BY <1>13, <1>14 DEF Finish, TypeOK, store, ProcRecord, Phases
<1>15. ASSUME NEW e \in Exporters, FinishExport(e) PROVE TypeOK'
  <2>1. e \in Procs
    BY DEF Procs
  <2> QED
    BY <1>13, <1>15, <2>1 DEF FinishExport, TypeOK, ProcRecord, Phases
<1>16. ASSUME NEW p \in Procs, Begin(p) PROVE TypeOK'
  BY <1>16 DEF Begin, TypeOK, postgres
<1>17. ASSUME NEW p \in Procs, Guard(p) PROVE TypeOK'
  <2>1. PICK to \in {"none", "writing"} : tx' = [tx EXCEPT ![p] = to] /\ xact' \subseteq xact \cup {p} /\ (to = "none" => xact' = xact)
    BY <1>17 DEF Guard
  <2>2. tx[p] = "begun" /\ UNCHANGED <<sessions, proc, tasks, held, closed, disturbed, result, starts, drops>>
    BY <1>17 DEF Guard
  <2> QED
    BY <2>1, <2>2 DEF TypeOK
<1>18. ASSUME NEW p \in Procs, Commit(p) PROVE TypeOK'
  BY <1>18 DEF Commit, TypeOK, Unlocked
<1>19. ASSUME NEW p \in Procs, RollBack(p) PROVE TypeOK'
  BY <1>19 DEF RollBack, TypeOK, Unlocked
<1> QED
  BY <1>1, <1>2, <1>3, <1>4, <1>5, <1>6, <1>7, <1>8, <1>9, <1>10, <1>11, <1>12, <1>14, <1>15, <1>16, <1>17, <1>18,
     <1>19 DEF Next, Step
-----------------------------------------------------------------------------
\* What is enough of a step for each exporter: its process goes on as it was, ends, starts, holds the lock, or
\* notices that it is lost.
ExporterGoesOn(e) ==
  \/ proc'[e] = proc[e] /\ (<<e, proc[e].client>> \in sessions' => <<e, proc[e].client>> \in sessions \/ ~Runs(e, {"up"}))
  \/ proc'[e].run \in {"down", "released"}
  \/ proc'[e].run = "starting" /\ e \notin disturbed' /\ result'[e] = "none"
  \/ proc'[e].run = "up" /\ proc'[e].client > 0 /\ e \notin disturbed /\ result[e] = "none"
  \/ proc'[e].run = proc[e].run /\ proc'[e].lost /\ proc'[e].client = 0

ResultGoesOn(e) ==
  \/ result'[e] = result[e]
  \/ result'[e] = "none" /\ proc'[e].run = "starting"
  \/ proc'[e].run = "released" /\ (result'[e] = "ok" => e \notin disturbed)

LEMMA ExportStep ==
  ASSUME ExportInv, ConnectionsNumbered', \A e \in Exporters : ExporterGoesOn(e),
         disturbed' \subseteq disturbed,
         \A e \in Exporters : ResultGoesOn(e)
  PROVE  ExportInv'
<1> SUFFICES ASSUME NEW e \in Exporters
             PROVE  /\ Runs(e, {"starting"})' => e \notin disturbed'
                    /\ Runs(e, {"starting", "up"})' => result'[e] = "none"
                    /\ Runs(e, {"up"})' /\ ~proc'[e].lost => proc'[e].client > 0
                    /\ Runs(e, {"up"})' /\ <<e, proc'[e].client>> \in sessions' => e \notin disturbed'
                    /\ result'[e] = "ok" => e \notin disturbed'
  BY DEF ExportInv
<1>1. <<e, 0>> \notin sessions'
  BY DEF ConnectionsNumbered
<1> QED
  BY <1>1 DEF ExportInv, ExporterGoesOn, ResultGoesOn, Runs

\* The steps that give no session and no transaction's lock, and start no task of an exporter.
LEMMA ShrinkStep ==
  ASSUME MInv, TypeOK', sessions' \subseteq sessions, xact' \subseteq xact,
         \A p \in Servers : tx'[p] = "writing" => tx[p] = "writing" /\ (p \in xact => p \in xact')
  PROVE  Exclusion' /\ WritersLocked' /\ \A s \in sessions' : s[2] > 0
  BY DEF MInv, Exclusion, WritersLocked, ConnectionsNumbered

\* What a process that exits does to the rest of the invariant.
LEMMA ExitStep ==
  ASSUME MInv, TypeOK', NEW p \in Procs, Exit(p), UNCHANGED <<sessions, disturbed, result>>
  PROVE  MInv'
<1>1. /\ \A q \in Procs \ {p} : proc'[q] = proc[q] /\ tasks'[q] = tasks[q] /\ tx'[q] = tx[q]
      /\ proc'[p].run = "down" /\ tx'[p] = "none" /\ xact' = xact \ {p}
      /\ \A t \in Tasks : tasks'[p][t] = NoTask
  BY DEF Exit, MInv, TypeOK, NotRunning, NoTasks, Unlocked
<1>2. Exclusion' /\ WritersLocked' /\ \A s \in sessions' : s[2] > 0
  <2>1. \A q \in Servers : q \in Procs
    BY DEF Procs
  <2> QED
    BY <1>1, <2>1, ShrinkStep
<1>3. ExporterAsksOnce'
  BY <1>1 DEF MInv, ExporterAsksOnce, Runs, Procs
<1>4. ConnectionsNumbered'
  BY <1>1, <1>2 DEF MInv, ConnectionsNumbered, NoTask
<1>5. \A e \in Exporters : ExporterGoesOn(e)
  BY <1>1 DEF ExporterGoesOn, Procs
<1>6. ExportInv'
  <2>1. \A e \in Exporters : ResultGoesOn(e)
    BY DEF ResultGoesOn
  <2> QED
    BY <1>4, <1>5, <2>1, ExportStep DEF MInv
<1> QED
  BY <1>2, <1>3, <1>4, <1>6 DEF MInv

LEMMA MStep == MInv /\ [Next]_vars => MInv'
<1> SUFFICES ASSUME MInv, [Next]_vars PROVE MInv'
  OBVIOUS
<1>0. /\ TypeOK /\ Exclusion /\ WritersLocked /\ ExporterAsksOnce /\ ConnectionsNumbered /\ ExportInv /\ TypeOK'
      /\ \A e \in Exporters : e \in Procs /\ e \notin Servers
      /\ \A q \in Servers : q \in Procs
  BY MTypes, ProcessesAssumption DEF MInv, Procs
<1>t. tasks \in [Procs -> [Tasks -> TaskRecord]]
  BY <1>0 DEF TypeOK, TaskRecord
<1>1. CASE UNCHANGED vars
  BY <1>0, <1>1 DEF vars, MInv, Exclusion, WritersLocked, ExporterAsksOnce, ConnectionsNumbered, ExportInv, Runs
\* Steps in which at most sessions and connections are lost, or a transaction begins or is rolled back.
<1>2. ASSUME UNCHANGED <<proc, tasks, disturbed, result>>, sessions' \subseteq sessions, xact' \subseteq xact,
             \A q \in Servers : tx'[q] = "writing" => tx[q] = "writing" /\ (q \in xact => q \in xact')
      PROVE  MInv'
  <2>1. Exclusion' /\ WritersLocked' /\ \A s \in sessions' : s[2] > 0
    BY <1>0, <1>2, ShrinkStep
  <2>2. ConnectionsNumbered' /\ ExporterAsksOnce'
    BY <1>0, <1>2, <2>1 DEF ConnectionsNumbered, ExporterAsksOnce, Runs
  <2>3. \A e \in Exporters : ExporterGoesOn(e) /\ ResultGoesOn(e)
    BY <1>2 DEF ExporterGoesOn, ResultGoesOn
  <2> QED
    BY <1>0, <1>2, <2>1, <2>2, <2>3, ExportStep DEF MInv
<1>3. ASSUME NEW p \in Procs, NEW c \in Connections(p), SessionDies(p, c) \/ Reap(p, c) \/ Close(p, c) PROVE MInv'
  <2>1. UNCHANGED <<proc, tasks, disturbed, result, tx, xact>> /\ sessions' \subseteq sessions
    BY <1>3 DEF SessionDies, Reap, Close, store, postgres
  <2> QED
    BY <1>2, <2>1
<1>4. ASSUME NEW p \in Procs, Begin(p) \/ RollBack(p) PROVE MInv'
  <2>1. UNCHANGED <<proc, tasks, disturbed, result, sessions>> /\ xact' \in {xact, xact \ {p}}
    BY <1>4 DEF Begin, RollBack, Unlocked, postgres
  <2>2. tx' = [tx EXCEPT ![p] = tx'[p]] /\ tx'[p] # "writing"
    BY <1>0, <1>4 DEF Begin, RollBack, TypeOK
  <2>3. \A q \in Servers : tx'[q] = "writing" => tx[q] = "writing" /\ (q \in xact => q \in xact')
    BY <1>0, <2>1, <2>2 DEF TypeOK
  <2> QED
    BY <1>2, <2>1, <2>3
<1>5. ASSUME NEW p \in Procs, NEW c \in Connections(p), Dropped(p, c) PROVE MInv'
  <2>1. UNCHANGED <<sessions, xact, tx, disturbed, result>>
    BY <1>5 DEF Dropped, store, postgres
  <2>2. /\ \A q \in Procs \ {p} : proc'[q] = proc[q]
        /\ proc'[p].run = proc[p].run /\ proc'[p].client = 0 /\ (p \in Exporters => proc'[p].lost)
    BY <1>0, <1>5 DEF Dropped, TypeOK
  <2>3. \A q \in Procs, t \in Tasks : tasks'[q][t] = tasks[q][t] \/ (q \in Servers /\ tasks'[q][t] = Sleeping)
    <3>1. tasks' = tasks \/ (p \in Servers /\ \E t \in Tasks : tasks' = [tasks EXCEPT ![p][t] = Sleeping])
      <4>1. IF p \in Exporters THEN UNCHANGED tasks
            ELSE \E t \in Tasks : tasks[p][t] = NoTask /\ tasks' = [tasks EXCEPT ![p][t] = Sleeping]
        BY <1>5, Zenon DEF Dropped
      <4> QED
        BY <4>1 DEF Procs
    <3>2. ASSUME p \in Servers, NEW u \in Tasks, tasks' = [tasks EXCEPT ![p][u] = Sleeping]
          PROVE  \A q \in Procs, t \in Tasks : tasks'[q][t] = tasks[q][t] \/ (q \in Servers /\ tasks'[q][t] = Sleeping)
      BY <1>t, <3>2
    <3> QED
      BY <3>1, <3>2
  <2>4. Exclusion' /\ WritersLocked' /\ \A s \in sessions' : s[2] > 0
    BY <1>0, <2>1, ShrinkStep
  <2>5. ConnectionsNumbered'
    BY <1>0, <2>3, <2>4 DEF ConnectionsNumbered, Sleeping
  <2>6. ExporterAsksOnce'
    BY <1>0, <2>2, <2>3 DEF ExporterAsksOnce, Runs
  <2>7. \A e \in Exporters : ExporterGoesOn(e) /\ ResultGoesOn(e)
    BY <1>0, <2>1, <2>2 DEF ExporterGoesOn, ResultGoesOn
  <2> QED
    BY <1>0, <2>1, <2>4, <2>5, <2>6, <2>7, ExportStep DEF MInv
<1>6. ASSUME NEW p \in Procs, NEW t \in Tasks, Answer(p, t) PROVE MInv'
  <2> DEFINE c == tasks[p][t].conn
  <2>1. UNCHANGED <<xact, proc, tx, disturbed, result>> /\ tasks[p][t].at = "asking" /\ c > 0
    BY <1>0, <1>6 DEF Answer, store, ConnectionsNumbered
  <2>2. /\ \A q \in Procs, u \in Tasks : q # p \/ u # t => tasks'[q][u] = tasks[q][u]
        /\ tasks'[p][t].at \in {"granted", "refused"} /\ tasks'[p][t].conn = c
    BY <1>0, <1>6 DEF Answer, TypeOK
  <2>3. CASE Grantable(p)
    <3>1. sessions' = sessions \cup {<<p, c>>}
      BY <1>6, <2>3 DEF Answer
    <3>2. Exclusion'
      BY <1>0, <2>1, <2>3, <3>1 DEF Exclusion, Grantable, ExclusiveHeld, Procs
    <3>3. WritersLocked'
      BY <1>0, <2>1 DEF WritersLocked
    <3>4. ConnectionsNumbered'
      BY <1>0, <2>1, <2>2, <3>1 DEF ConnectionsNumbered
    <3>5. ExporterAsksOnce'
      BY <1>0, <2>1, <2>2 DEF ExporterAsksOnce, Runs, NoTask
    <3>6. \A e \in Exporters : ExporterGoesOn(e) /\ ResultGoesOn(e)
      <4>1. p \in Exporters => ~Runs(p, {"up"})
        BY <1>0, <2>1 DEF ExporterAsksOnce, Runs, NoTask
      <4> QED
        BY <2>1, <3>1, <4>1 DEF ExporterGoesOn, ResultGoesOn
    <3> QED
      BY <1>0, <2>1, <3>2, <3>3, <3>4, <3>5, <3>6, ExportStep DEF MInv
  <2>4. CASE ~Grantable(p)
    <3>1. sessions' = sessions
      BY <1>6, <2>4 DEF Answer
    <3>2. Exclusion' /\ WritersLocked' /\ \A s \in sessions' : s[2] > 0
      BY <1>0, <2>1, <3>1, ShrinkStep
    <3>3. ConnectionsNumbered'
      BY <1>0, <2>1, <2>2, <3>2 DEF ConnectionsNumbered
    <3>4. ExporterAsksOnce'
      BY <1>0, <2>1, <2>2 DEF ExporterAsksOnce, Runs, NoTask
    <3>5. \A e \in Exporters : ExporterGoesOn(e) /\ ResultGoesOn(e)
      BY <2>1, <3>1 DEF ExporterGoesOn, ResultGoesOn
    <3> QED
      BY <1>0, <2>1, <3>2, <3>3, <3>4, <3>5, ExportStep DEF MInv
  <2> QED
    BY <2>3, <2>4
<1>7. ASSUME NEW p \in Procs, NEW t \in Tasks, Acquired(p, t) PROVE MInv'
  <2> DEFINE c == tasks[p][t].conn
  <2>1. UNCHANGED <<xact, tx, disturbed, result>> /\ sessions' \subseteq sessions /\ tasks[p][t].at = "granted" /\ c > 0
    BY <1>0, <1>7 DEF Acquired, store, ConnectionsNumbered
  <2>2. /\ \A q \in Procs, u \in Tasks : q # p \/ u # t => tasks'[q][u] = tasks[q][u]
        /\ tasks'[p][t] = NoTask /\ \A q \in Procs \ {p} : proc'[q] = proc[q]
    BY <1>0, <1>7 DEF Acquired, TypeOK
  <2>3. p \in Exporters => t = 1 /\ Runs(p, {"starting"}) /\ \A u \in Tasks : tasks'[p][u] = NoTask
    BY <1>0, <2>1, <2>2 DEF ExporterAsksOnce, NoTask
  <2>4. p \in Exporters => proc'[p].run = "up" /\ proc'[p].client = c
    BY <1>0, <1>7, <2>3 DEF Acquired, Late, Runs, TypeOK
  <2>5. Exclusion' /\ WritersLocked' /\ \A s \in sessions' : s[2] > 0
    BY <1>0, <2>1, ShrinkStep
  <2>6. ConnectionsNumbered'
    BY <1>0, <2>2, <2>5 DEF ConnectionsNumbered, NoTask
  <2>7. ExporterAsksOnce'
    BY <1>0, <2>2, <2>3 DEF ExporterAsksOnce, Runs
  <2>8. \A e \in Exporters : ExporterGoesOn(e) /\ ResultGoesOn(e)
    <3>1. p \in Exporters => p \notin disturbed /\ result[p] = "none"
      BY <1>0, <2>3 DEF ExportInv, Runs
    <3> QED
      BY <1>0, <2>1, <2>2, <2>4, <3>1 DEF ExporterGoesOn, ResultGoesOn
  <2> QED
    BY <1>0, <2>1, <2>5, <2>6, <2>7, <2>8, ExportStep DEF MInv
<1>8. ASSUME NEW p \in Procs, Die(p) \/ \E t \in Tasks : Refused(p, t) PROVE MInv'
  <2>1. Exit(p) /\ UNCHANGED <<sessions, disturbed, result>>
    BY <1>8 DEF Die, Refused
  <2> QED
    BY <1>0, <2>1, ExitStep
<1>9. ASSUME NEW p \in Procs, NEW t \in Tasks, AttemptFails(p, t) PROVE MInv'
  <2>1. CASE Runs(p, {"starting"})
    <3>1. Exit(p) /\ UNCHANGED <<sessions, disturbed, result>>
      BY <1>9, <2>1 DEF AttemptFails
    <3> QED
      BY <1>0, <3>1, ExitStep
  <2>2. CASE ~Runs(p, {"starting"})
    <3>1. UNCHANGED <<proc, tx, xact, sessions, disturbed, result>> /\ tasks' = [tasks EXCEPT ![p][t] = Sleeping]
      BY <1>9, <2>2 DEF AttemptFails, Retry
    <3>2. p \notin Exporters
      BY <1>0, <1>9, <2>2 DEF AttemptFails, ExporterAsksOnce, NoTask
    <3>3. \A q \in Procs, u \in Tasks : tasks'[q][u] = tasks[q][u] \/ (q = p /\ tasks'[q][u] = Sleeping)
      BY <1>t, <3>1
    <3>4. Exclusion' /\ WritersLocked' /\ \A s \in sessions' : s[2] > 0
      BY <1>0, <3>1, ShrinkStep
    <3>5. ConnectionsNumbered'
      BY <1>0, <3>3, <3>4 DEF ConnectionsNumbered, Sleeping
    <3>6. ExporterAsksOnce'
      BY <1>0, <3>1, <3>2, <3>3 DEF ExporterAsksOnce, Runs
    <3>7. \A e \in Exporters : ExporterGoesOn(e) /\ ResultGoesOn(e)
      BY <3>1 DEF ExporterGoesOn, ResultGoesOn
    <3> QED
      BY <1>0, <3>1, <3>4, <3>5, <3>6, <3>7, ExportStep DEF MInv
  <2> QED
    BY <2>1, <2>2
<1>10. ASSUME NEW p \in Procs, NEW t \in Tasks, Asking(p, t)
       PROVE  /\ \A q \in Procs \ {p} : proc'[q] = proc[q]
              /\ \A q \in Procs, u \in Tasks : q # p \/ u # t => tasks'[q][u] = tasks[q][u]
              /\ tasks'[p][t].at = "asking" /\ tasks'[p][t].conn > 0
              /\ proc'[p].run = IF proc[p].run = "down" THEN "starting" ELSE proc[p].run
  <2>1. proc[p].epoch \in Nat
    BY <1>0 DEF TypeOK
  <2> QED
    BY <1>0, <1>10, <2>1 DEF Asking, TypeOK
<1>11. ASSUME NEW p \in Procs, NEW t \in Tasks, Wake(p, t) PROVE MInv'
  <2>1. UNCHANGED <<xact, tx, sessions, disturbed, result>> /\ tasks[p][t].at = "sleeping"
    BY <1>11 DEF Wake, store, postgres
  <2>2. p \notin Exporters
    BY <1>0, <2>1 DEF ExporterAsksOnce, NoTask
  <2>3. /\ \A q \in Procs \ {p} : proc'[q] = proc[q]
        /\ \A q \in Procs, u \in Tasks : q # p \/ u # t => tasks'[q][u] = tasks[q][u]
        /\ tasks'[p][t].at \in {"asking", "granted"} => tasks'[p][t].conn > 0
    <3>1. CASE Runs(p, {"released"})
      BY <1>0, <1>11, <3>1 DEF Wake, TypeOK, NoTask
    <3>2. CASE ~Runs(p, {"released"})
      BY <1>10, <1>11, <3>2 DEF Wake
    <3> QED
      BY <3>1, <3>2
  <2>4. Exclusion' /\ WritersLocked' /\ \A s \in sessions' : s[2] > 0
    BY <1>0, <2>1, ShrinkStep
  <2>5. ConnectionsNumbered'
    BY <1>0, <2>3, <2>4 DEF ConnectionsNumbered
  <2>6. ExporterAsksOnce'
    BY <1>0, <2>2, <2>3 DEF ExporterAsksOnce, Runs
  <2>7. \A e \in Exporters : ExporterGoesOn(e) /\ ResultGoesOn(e)
    BY <1>0, <2>1, <2>2, <2>3 DEF ExporterGoesOn, ResultGoesOn
  <2> QED
    BY <1>0, <2>1, <2>4, <2>5, <2>6, <2>7, ExportStep DEF MInv
<1>12. ASSUME NEW p \in Procs, Start(p) PROVE MInv'
  <2>1. /\ UNCHANGED <<xact, tx, sessions>> /\ disturbed' = disturbed \ {p} /\ Asking(p, 1) /\ 1 \in Tasks
        /\ proc[p].run = "down"
        /\ \A e \in Exporters : result'[e] = IF e = p THEN "none" ELSE result[e]
    BY <1>12 DEF Start, postgres, Tasks, Runs
  <2>2. /\ \A q \in Procs \ {p} : proc'[q] = proc[q]
        /\ \A q \in Procs, u \in Tasks : q # p \/ u # 1 => tasks'[q][u] = tasks[q][u]
        /\ tasks'[p][1].at = "asking" /\ tasks'[p][1].conn > 0
        /\ proc'[p].run = "starting"
    BY <1>10, <2>1
  <2>3. Exclusion' /\ WritersLocked' /\ \A s \in sessions' : s[2] > 0
    BY <1>0, <2>1, ShrinkStep
  <2>4. ConnectionsNumbered'
    BY <1>0, <2>2, <2>3 DEF ConnectionsNumbered
  <2>5. ExporterAsksOnce'
    BY <1>0, <2>1, <2>2 DEF ExporterAsksOnce, Runs
  <2>6. \A e \in Exporters : ExporterGoesOn(e) /\ ResultGoesOn(e)
    BY <1>0, <2>1, <2>2 DEF ExporterGoesOn, ResultGoesOn
  <2> QED
    BY <1>0, <2>1, <2>3, <2>4, <2>5, <2>6, ExportStep DEF MInv
\* The end of a CLI or of an export: release() after the last transaction.
<1>13. ASSUME NEW p \in Procs, Release(p), Runs(p, {"up"}), UNCHANGED <<xact, tasks, tx, disturbed>>,
              \A e \in Exporters : ResultGoesOn(e)
       PROVE  MInv'
  <2>1. /\ \A q \in Procs \ {p} : proc'[q] = proc[q]
        /\ proc'[p].run = "released" /\ sessions' \subseteq sessions
    BY <1>0, <1>13 DEF Release, TypeOK
  <2>2. Exclusion' /\ WritersLocked' /\ \A s \in sessions' : s[2] > 0
    BY <1>0, <1>13, <2>1, ShrinkStep
  <2>3. ConnectionsNumbered'
    BY <1>0, <1>13, <2>2 DEF ConnectionsNumbered
  <2>4. ExporterAsksOnce'
    BY <1>0, <1>13, <2>1 DEF ExporterAsksOnce, Runs
  <2>5. \A e \in Exporters : ExporterGoesOn(e)
    BY <1>0, <2>1 DEF ExporterGoesOn
  <2> QED
    BY <1>0, <1>13, <2>2, <2>3, <2>4, <2>5, ExportStep DEF MInv
<1>14. ASSUME NEW p \in Procs, Finish(p) PROVE MInv'
  <2>1. Release(p) /\ Runs(p, {"up"}) /\ UNCHANGED <<xact, tasks, tx, disturbed, result>>
    BY <1>14 DEF Finish, store
  <2>2. \A e \in Exporters : ResultGoesOn(e)
    BY <2>1 DEF ResultGoesOn
  <2> QED
    BY <1>13, <2>1, <2>2
<1>15. ASSUME NEW p \in Exporters, FinishExport(p) PROVE MInv'
  <2>1. Release(p) /\ Runs(p, {"up"}) /\ UNCHANGED <<xact, tasks, tx, disturbed>>
    BY <1>15 DEF FinishExport
  <2>2. result'[p] = "ok" => p \notin disturbed
    <3>1. SUFFICES ASSUME result'[p] = "ok" PROVE p \notin disturbed
      OBVIOUS
    <3>2. ~proc[p].lost /\ ~(~proc[p].lost /\ Unnoticed(p))
      BY <1>0, <1>15, <3>1 DEF FinishExport, LockLost, TypeOK
    <3>3. proc[p].client > 0
      BY <1>0, <2>1, <3>2 DEF ExportInv
    <3>4. <<p, proc[p].client>> \in sessions
      BY <3>2, <3>3 DEF Unnoticed
    <3> QED
      BY <1>0, <2>1, <3>4 DEF ExportInv
  <2>3. \A e \in Exporters \ {p} : result'[e] = result[e]
    BY <1>0, <1>15 DEF FinishExport, TypeOK
  <2>4. proc'[p].run = "released"
    BY <1>0, <2>1 DEF Release, TypeOK
  <2>5. \A e \in Exporters : ResultGoesOn(e)
    BY <2>2, <2>3, <2>4 DEF ResultGoesOn
  <2> QED
    BY <1>0, <1>13, <2>1, <2>5
<1>16. ASSUME NEW p \in Procs, Guard(p) PROVE MInv'
  <2>1. UNCHANGED <<proc, tasks, disturbed, result, sessions>> /\ tx[p] = "begun"
    BY <1>16 DEF Guard
  <2>2. \A q \in Procs \ {p} : tx'[q] = tx[q]
    BY <1>0, <1>16 DEF Guard, TypeOK
  <2>3. ConnectionsNumbered' /\ ExporterAsksOnce'
    BY <1>0, <2>1 DEF ConnectionsNumbered, ExporterAsksOnce, Runs
  <2>4. xact' = xact \/ (xact' = xact \cup {p} /\ ~ExclusiveHeld)
    <3>1. CASE OwnsExclusive(p)
      BY <1>16, <3>1 DEF Guard
    <3>2. CASE ~OwnsExclusive(p) /\ InstanceOk(p)
      BY <1>16, <3>2 DEF Guard, InstanceOk
    <3>3. CASE ~OwnsExclusive(p) /\ ~InstanceOk(p)
      BY <1>16, <3>3 DEF Guard
    <3> QED
      BY <3>1, <3>2, <3>3
  <2>5. p \in Servers /\ tx'[p] = "writing" => p \in xact'
    <3>1. p \in Servers => ~OwnsExclusive(p)
      BY <1>0 DEF OwnsExclusive
    <3>2. CASE ~OwnsExclusive(p) /\ InstanceOk(p)
      BY <1>16, <3>2 DEF Guard
    <3>3. CASE ~OwnsExclusive(p) /\ ~InstanceOk(p)
      BY <1>0, <1>16, <3>3 DEF Guard, TypeOK
    <3> QED
      BY <3>1, <3>2, <3>3
  <2>6. Exclusion'
    BY <1>0, <2>1, <2>4 DEF Exclusion, ExclusiveHeld
  <2>7. WritersLocked'
    BY <1>0, <2>2, <2>4, <2>5 DEF WritersLocked
  <2>8. \A e \in Exporters : ExporterGoesOn(e) /\ ResultGoesOn(e)
    BY <2>1 DEF ExporterGoesOn, ResultGoesOn
  <2> QED
    BY <1>0, <2>1, <2>3, <2>6, <2>7, <2>8, ExportStep DEF MInv
\* A server that commits holds the shared form, so no exporter's session exists.
<1>17. ASSUME NEW p \in Procs, Commit(p) PROVE MInv'
  <2>1. UNCHANGED <<proc, tasks, result, sessions>> /\ tx[p] = "writing" /\ xact' = xact \ {p}
    BY <1>17 DEF Commit, Unlocked
  <2>2. tx' = [tx EXCEPT ![p] = "none"]
    BY <1>17 DEF Commit
  <2>3. \A q \in Servers : tx'[q] = "writing" => tx[q] = "writing" /\ (q \in xact => q \in xact')
    BY <1>0, <2>1, <2>2 DEF TypeOK
  <2>4. CASE p \notin Servers
    <3>1. UNCHANGED disturbed
      BY <1>17, <2>4 DEF Commit
    <3> QED
      BY <1>2, <2>1, <2>3, <3>1
  <2>5. CASE p \in Servers
    <3>1. disturbed' = disturbed \cup {e \in Exporters : Runs(e, {"up"})}
      BY <1>17, <2>5 DEF Commit
    <3>2. p \in xact
      BY <1>0, <2>1, <2>5 DEF WritersLocked
    <3>3. \A s \in sessions : s[1] \notin Exporters
      BY <1>0, <3>2 DEF Exclusion
    <3>4. \A e \in Exporters : <<e, proc[e].client>> \notin sessions
      BY <3>3
    <3>5. ExportInv'
      BY <1>0, <2>1, <3>1, <3>4 DEF ExportInv, Runs
    <3>6. Exclusion' /\ WritersLocked' /\ \A s \in sessions' : s[2] > 0
      BY <1>0, <2>1, <2>3, ShrinkStep
    <3>7. ConnectionsNumbered' /\ ExporterAsksOnce'
      BY <1>0, <2>1 DEF ConnectionsNumbered, ExporterAsksOnce, Runs
    <3> QED
      BY <1>0, <3>5, <3>6, <3>7 DEF MInv
  <2> QED
    BY <2>4, <2>5
<1> QED
  BY <1>1, <1>3, <1>4, <1>5, <1>6, <1>7, <1>8, <1>9, <1>11, <1>12, <1>14, <1>15, <1>16, <1>17 DEF Next, Step

\* Every reachable state satisfies the invariant.
THEOREM LockInvariance == Spec => []MInv
  BY MInit, MStep, PTL DEF Spec

\* Types; the shared form of a store transaction is held only while it writes.
THEOREM LockTypes == Spec => []TypeOK
<1>1. MInv => TypeOK
  BY DEF MInv
<1> QED
  BY <1>1, LockInvariance, PTL

\* While Postgres has an exporter's session it has no other session and no store transaction under the lock.
THEOREM ExporterAlone == Spec => []Exclusion
<1>1. MInv => Exclusion
  BY DEF MInv
<1> QED
  BY <1>1, LockInvariance, PTL

\* An export reported as a success had the instance for itself, whichever connections were lost meanwhile.
THEOREM ExportHadInstance == Spec => []ExportUndisturbed
<1>1. MInv => ExportUndisturbed
  BY DEF MInv, ExportInv, ExportUndisturbed
<1> QED
  BY <1>1, LockInvariance, PTL
-----------------------------------------------------------------------------
\* A process's loop and its connection: it asks for the lock in one task while it holds none; what it holds is its newest
\* connection, and what it lost is reported before it asks again.
Busy(p, t) == tasks[p][t] # NoTask
LoopOK(p) ==
  /\ \A t, u \in Tasks : Busy(p, t) /\ Busy(p, u) => t = u
  /\ \A c \in held[p] : /\ c = proc[p].client /\ c = proc[p].epoch /\ c \notin closed[p] /\ Runs(p, {"up"})
                        /\ \A t \in Tasks : ~Busy(p, t)
  /\ \A c \in closed[p] : c <= proc[p].epoch
  /\ \A t \in Tasks : Busy(p, t) /\ ~Runs(p, {"released"}) => proc[p].epoch \notin closed[p]
  /\ \A t \in Tasks : tasks[p][t].at \in {"asking", "granted"} /\ ~Runs(p, {"released"}) => tasks[p][t].conn = proc[p].epoch
  /\ Runs(p, {"down"}) => held[p] = {} /\ closed[p] = {} /\ \A t \in Tasks : ~Busy(p, t)

LInv == TypeOK /\ \A p \in Procs : LoopOK(p)

\* A process of which nothing changed.
LEMMA LoopSame ==
  ASSUME NEW p, LoopOK(p), proc'[p] = proc[p], tasks'[p] = tasks[p], held'[p] = held[p], closed'[p] = closed[p]
  PROVE  LoopOK(p)'
BY DEF LoopOK, Busy, Runs

LEMMA LoopExit ==
  ASSUME LInv, NEW p \in Procs, Exit(p)
  PROVE  \A q \in Procs : LoopOK(q)'
<1>1. /\ proc'[p].run = "down" /\ held'[p] = {} /\ closed'[p] = {} /\ \A t \in Tasks : tasks'[p][t] = NoTask
      /\ \A q \in Procs \ {p} : proc'[q] = proc[q] /\ tasks'[q] = tasks[q] /\ held'[q] = held[q] /\ closed'[q] = closed[q]
  BY DEF Exit, LInv, TypeOK, NotRunning, NoTasks
<1>2. LoopOK(p)'
  BY <1>1 DEF LoopOK, Busy, Runs, NoTask
<1> QED
  BY <1>1, <1>2, LoopSame DEF LInv

\* Asking for the lock, on a new connection, with no other task and nothing held.
LEMMA LoopAsks ==
  ASSUME LInv, NEW p \in Procs, NEW t \in Tasks, Asking(p, t), held'[p] = held[p], closed'[p] = closed[p],
         held[p] = {}, \A u \in Tasks \ {t} : ~Busy(p, u)
  PROVE  LoopOK(p)' /\ \A q \in Procs \ {p} : proc'[q] = proc[q] /\ tasks'[q] = tasks[q]
<1>1. proc[p].epoch \in Nat /\ closed[p] \subseteq Nat /\ \A c \in closed[p] : c <= proc[p].epoch
  BY DEF LInv, TypeOK, LoopOK
<1>2. /\ proc'[p].epoch = proc[p].epoch + 1 /\ proc'[p].run # "down"
      /\ \A q \in Procs \ {p} : proc'[q] = proc[q] /\ tasks'[q] = tasks[q]
  BY DEF Asking, LInv, TypeOK
<1>3. /\ tasks'[p][t] = [at |-> "asking", conn |-> proc[p].epoch + 1]
      /\ \A u \in Tasks \ {t} : tasks'[p][u] = tasks[p][u]
  BY DEF Asking, LInv, TypeOK
<1>4. \A u \in Tasks \ {t} : tasks'[p][u] = NoTask
  BY <1>3 DEF Busy
<1>5. \A c \in closed'[p] : c <= proc'[p].epoch /\ c # proc'[p].epoch
  BY <1>1, <1>2
<1>6. tasks'[p][t].at = "asking" /\ tasks'[p][t].conn = proc'[p].epoch /\ \A u \in Tasks \ {t} : tasks'[p][u].at = "idle"
  BY <1>2, <1>3, <1>4 DEF NoTask
<1> QED
  BY <1>2, <1>4, <1>5, <1>6 DEF LoopOK, Busy, Runs

\* The end of a process's lock.
LEMMA LoopReleases ==
  ASSUME LInv, NEW p \in Procs, Runs(p, {"up"}), Release(p), tasks' = tasks, closed' = closed
  PROVE  \A q \in Procs : LoopOK(q)'
<1>1. /\ proc'[p].run = "released" /\ proc'[p].epoch = proc[p].epoch + 1 /\ held'[p] = held[p] \ {proc[p].client}
      /\ \A q \in Procs \ {p} : proc'[q] = proc[q] /\ held'[q] = held[q]
  BY DEF Release, LInv, TypeOK
<1>2. held'[p] = {} /\ proc[p].epoch \in Nat /\ closed[p] \subseteq Nat /\ LoopOK(p)
  BY <1>1 DEF LInv, LoopOK, TypeOK
<1>3. LoopOK(p)'
  BY <1>1, <1>2 DEF LoopOK, Busy, Runs
<1> QED
  BY <1>1, <1>3, LoopSame DEF LInv

LEMMA LoopStep ==
  ASSUME LInv, [Next]_vars
  PROVE  \A q \in Procs : LoopOK(q)'
<1>t. /\ \A p \in Procs : LoopOK(p) /\ proc[p].epoch \in Nat /\ closed[p] \subseteq Nat /\ held[p] \subseteq Nat
      /\ proc \in [Procs -> ProcRecord] /\ tasks \in [Procs -> [Tasks -> TaskRecord]]
      /\ held \in [Procs -> SUBSET Nat] /\ closed \in [Procs -> SUBSET Nat]
  BY DEF LInv, TypeOK, ProcRecord, Phases, TaskRecord
<1>1. CASE UNCHANGED <<proc, tasks, held, closed>>
  BY <1>t, <1>1, LoopSame
<1>2. ASSUME NEW p \in Procs, NEW t \in Tasks, Answer(p, t) PROVE \A q \in Procs : LoopOK(q)'
  <2>1. /\ UNCHANGED <<proc, held, closed>> /\ tasks[p][t].at = "asking"
        /\ tasks' = [tasks EXCEPT ![p][t].at = IF Grantable(p) THEN "granted" ELSE "refused"]
    BY <1>2 DEF Answer, store
  <2>2. /\ tasks'[p][t].at # "idle" /\ tasks'[p][t].conn = tasks[p][t].conn
        /\ \A u \in Tasks \ {t} : tasks'[p][u] = tasks[p][u]
        /\ \A q \in Procs \ {p} : tasks'[q] = tasks[q]
    BY <1>t, <2>1 DEF TaskRecord
  <2>3. \A u \in Tasks : tasks'[p][u] = NoTask <=> tasks[p][u] = NoTask
    BY <2>1, <2>2 DEF NoTask
  <2>4. \A u \in Tasks : Busy(p, u)' <=> Busy(p, u)
    BY <2>3 DEF Busy
  <2>5. \A u \in Tasks : tasks'[p][u].at \in {"asking", "granted"} /\ ~Runs(p, {"released"}) => tasks'[p][u].conn = proc[p].epoch
    BY <1>t, <2>1, <2>2 DEF LoopOK
  <2>6. LoopOK(p)
    BY <1>t
  <2>7. LoopOK(p)'
    BY <2>1, <2>4, <2>5, <2>6 DEF LoopOK, Runs
  <2> QED
    BY <1>t, <2>1, <2>2, <2>7, LoopSame
<1>3. ASSUME NEW p \in Procs, NEW t \in Tasks, Acquired(p, t) PROVE \A q \in Procs : LoopOK(q)'
  <2> DEFINE c == tasks[p][t].conn
  <2>1. /\ tasks[p][t].at = "granted" /\ tasks' = [tasks EXCEPT ![p][t] = NoTask] /\ closed' = closed
        /\ Busy(p, t) /\ LoopOK(p)
    BY <1>t, <1>3 DEF Acquired, Busy, NoTask
  <2>2. /\ tasks'[p][t] = NoTask /\ \A u \in Tasks \ {t} : tasks'[p][u] = tasks[p][u]
        /\ \A q \in Procs \ {p} : tasks'[q] = tasks[q]
    BY <1>t, <2>1
  <2>3. \A u \in Tasks : tasks'[p][u] = NoTask
    BY <2>1, <2>2 DEF LoopOK, Busy
  <2>4. held[p] = {} /\ ~Runs(p, {"down"})
    BY <2>1 DEF LoopOK
  <2>5. CASE Runs(p, {"released"})
    <3>1. UNCHANGED <<proc, held>>
      BY <1>3, <2>5 DEF Acquired, Late
    <3>2. LoopOK(p)'
      BY <2>1, <2>3, <2>4, <3>1 DEF LoopOK, Busy, Runs, NoTask
    <3> QED
      BY <1>t, <2>1, <2>2, <3>1, <3>2, LoopSame
  <2>6. CASE ~Runs(p, {"released"})
    <3>1. /\ proc' = [proc EXCEPT ![p].run = IF @ = "starting" THEN "up" ELSE @, ![p].client = c, ![p].paused = FALSE]
          /\ held' = [held EXCEPT ![p] = @ \cup {c}]
      BY <1>3, <2>6 DEF Acquired, Late
    <3>2. /\ proc'[p].run = "up" /\ proc'[p].client = c /\ proc'[p].epoch = proc[p].epoch /\ held'[p] = {c}
          /\ \A q \in Procs \ {p} : proc'[q] = proc[q] /\ held'[q] = held[q]
      <4>1. proc[p].run \in {"starting", "up"}
        BY <1>t, <2>4, <2>6 DEF ProcRecord, Phases, Runs
      <4> QED
        BY <1>t, <2>4, <3>1, <4>1 DEF ProcRecord
    <3>3. c = proc[p].epoch /\ proc[p].epoch \notin closed[p]
      BY <2>1, <2>6 DEF LoopOK
    <3>4. LoopOK(p)'
      BY <2>1, <2>3, <3>2, <3>3 DEF LoopOK, Busy, Runs, NoTask
    <3> QED
      BY <1>t, <2>1, <2>2, <3>2, <3>4, LoopSame
  <2> QED
    BY <2>5, <2>6
<1>4. ASSUME NEW p \in Procs, NEW t \in Tasks, Refused(p, t) PROVE \A q \in Procs : LoopOK(q)'
  BY <1>4, LoopExit DEF Refused
<1>5. ASSUME NEW p \in Procs, NEW t \in Tasks, AttemptFails(p, t) PROVE \A q \in Procs : LoopOK(q)'
  <2>1. CASE Runs(p, {"starting"})
    BY <1>5, <2>1, LoopExit DEF AttemptFails
  <2>2. CASE ~Runs(p, {"starting"})
    <3>1. /\ tasks[p][t].at \in {"asking", "granted"} /\ Busy(p, t) /\ LoopOK(p)
      BY <1>t, <1>5 DEF AttemptFails, Busy, NoTask
    <3>2. held[p] = {}
      BY <3>1 DEF LoopOK
    <3>3. /\ tasks' = [tasks EXCEPT ![p][t] = Sleeping] /\ UNCHANGED <<proc, held>>
          /\ closed' = [closed EXCEPT ![p] = closed[p]]
      BY <1>t, <1>5, <2>2, <3>2 DEF AttemptFails, Retry, Reports
    <3>4. closed' = closed
      BY <1>t, <3>3
    <3>5. /\ tasks'[p][t] = Sleeping /\ \A u \in Tasks \ {t} : tasks'[p][u] = tasks[p][u]
          /\ \A q \in Procs \ {p} : tasks'[q] = tasks[q]
      BY <1>t, <3>3
    <3>6. \A u \in Tasks \ {t} : tasks'[p][u] = NoTask
      BY <3>1, <3>5 DEF LoopOK, Busy
    <3>7. LoopOK(p)'
      BY <3>1, <3>2, <3>3, <3>4, <3>5, <3>6 DEF LoopOK, Busy, Runs, NoTask, Sleeping
    <3> QED
      BY <1>t, <3>3, <3>4, <3>5, <3>7, LoopSame
  <2> QED
    BY <2>1, <2>2
<1>6. ASSUME NEW p \in Procs, NEW t \in Tasks, Wake(p, t) PROVE \A q \in Procs : LoopOK(q)'
  <2>1. tasks[p][t].at = "sleeping" /\ Busy(p, t) /\ LoopOK(p) /\ UNCHANGED <<held, closed>>
    BY <1>t, <1>6 DEF Wake, Busy, NoTask
  <2>2. held[p] = {} /\ \A u \in Tasks \ {t} : ~Busy(p, u)
    BY <2>1 DEF LoopOK
  <2>3. CASE Runs(p, {"released"})
    <3>1. tasks' = [tasks EXCEPT ![p][t] = NoTask] /\ proc' = proc
      BY <1>6, <2>3 DEF Wake
    <3>2. (\A u \in Tasks : tasks'[p][u] = NoTask) /\ \A q \in Procs \ {p} : tasks'[q] = tasks[q]
      BY <1>t, <2>2, <3>1 DEF Busy
    <3>3. LoopOK(p)'
      BY <2>1, <2>2, <3>1, <3>2 DEF LoopOK, Busy, Runs, NoTask
    <3> QED
      BY <1>t, <2>1, <3>1, <3>2, <3>3, LoopSame
  <2>4. CASE ~Runs(p, {"released"})
    <3>1. Asking(p, t)
      BY <1>6, <2>4 DEF Wake
    <3>2. LoopOK(p)' /\ \A q \in Procs \ {p} : proc'[q] = proc[q] /\ tasks'[q] = tasks[q]
      BY <2>1, <2>2, <3>1, LoopAsks
    <3> QED
      BY <1>t, <2>1, <3>2, LoopSame
  <2> QED
    BY <2>3, <2>4
<1>7. ASSUME NEW p \in Procs, NEW c, Close(p, c) PROVE \A q \in Procs : LoopOK(q)'
  <2>1. /\ c \in held[p] /\ UNCHANGED <<proc, tasks>> /\ LoopOK(p)
        /\ held' = [held EXCEPT ![p] = @ \ {c}] /\ closed' = [closed EXCEPT ![p] = @ \cup {c}]
    BY <1>t, <1>7 DEF Close
  <2>2. /\ held'[p] = held[p] \ {c} /\ closed'[p] = closed[p] \cup {c}
        /\ \A q \in Procs \ {p} : held'[q] = held[q] /\ closed'[q] = closed[q]
    BY <1>t, <2>1
  <2>3. held'[p] = {} /\ c = proc[p].epoch /\ Runs(p, {"up"}) /\ \A u \in Tasks : ~Busy(p, u)
    BY <2>1, <2>2 DEF LoopOK
  <2>4. proc[p].epoch \in Nat
    BY <1>t
  <2>5. LoopOK(p)'
    BY <2>1, <2>2, <2>3, <2>4 DEF LoopOK, Busy, Runs
  <2> QED
    BY <1>t, <2>1, <2>2, <2>5, LoopSame
<1>8. ASSUME NEW p \in Procs, NEW c, Dropped(p, c) PROVE \A q \in Procs : LoopOK(q)'
  <2>1. /\ c \in closed[p] /\ ~Runs(p, {"released"}) /\ c = proc[p].epoch /\ LoopOK(p) /\ UNCHANGED <<held, closed>>
        /\ proc[p].epoch \in Nat /\ closed[p] \subseteq Nat
    BY <1>t, <1>8 DEF Dropped, Current
  <2>2. held[p] = {} /\ ~Runs(p, {"down"}) /\ \A u \in Tasks : ~Busy(p, u)
    BY <2>1 DEF LoopOK
  <2>3. /\ proc'[p].epoch = proc[p].epoch + 1 /\ proc'[p].run = proc[p].run
        /\ \A q \in Procs \ {p} : proc'[q] = proc[q]
    <3>1. proc' = [proc EXCEPT ![p].epoch = @ + 1, ![p].client = 0, ![p].paused = p \in Servers, ![p].lost = p \in Exporters]
      BY <1>8 DEF Dropped
    <3> QED
      BY <1>t, <3>1 DEF ProcRecord
  <2>4. \A d \in closed[p] : d <= proc'[p].epoch /\ d # proc'[p].epoch
    BY <2>1, <2>3 DEF LoopOK
  <2>5. (\A u \in Tasks : tasks'[p][u] = NoTask) \/ (\E t \in Tasks : tasks'[p][t] = Sleeping /\ \A u \in Tasks \ {t} : tasks'[p][u] = NoTask)
    <3>1. tasks' = tasks \/ \E t \in Tasks : tasks' = [tasks EXCEPT ![p][t] = Sleeping]
      BY <1>8 DEF Dropped
    <3> QED
      BY <1>t, <2>2, <3>1 DEF Busy
  <2>6. \A q \in Procs \ {p} : tasks'[q] = tasks[q]
    BY <1>t, <1>8 DEF Dropped
  <2>7. LoopOK(p)'
    BY <2>1, <2>2, <2>3, <2>4, <2>5 DEF LoopOK, Busy, Runs, NoTask, Sleeping
  <2> QED
    BY <1>t, <2>1, <2>3, <2>6, <2>7, LoopSame
<1>9. ASSUME NEW p \in Procs, Start(p) PROVE \A q \in Procs : LoopOK(q)'
  <2>1. Runs(p, {"down"}) /\ Asking(p, 1) /\ UNCHANGED <<held, closed>> /\ LoopOK(p) /\ 1 \in Tasks
    BY <1>t, <1>9 DEF Start, Tasks
  <2>2. held[p] = {} /\ \A u \in Tasks : ~Busy(p, u)
    BY <2>1 DEF LoopOK
  <2>3. LoopOK(p)' /\ \A q \in Procs \ {p} : proc'[q] = proc[q] /\ tasks'[q] = tasks[q]
    BY <2>1, <2>2, LoopAsks
  <2> QED
    BY <1>t, <2>1, <2>3, LoopSame
<1>10. ASSUME NEW p \in Procs, Die(p) PROVE \A q \in Procs : LoopOK(q)'
  BY <1>10, LoopExit DEF Die
<1>11. ASSUME NEW p \in Procs, Finish(p) PROVE \A q \in Procs : LoopOK(q)'
  BY <1>11, LoopReleases DEF Finish
<1>12. ASSUME NEW e \in Exporters, FinishExport(e) PROVE \A q \in Procs : LoopOK(q)'
  <2>1. e \in Procs /\ Runs(e, {"up"}) /\ Release(e) /\ tasks' = tasks /\ closed' = closed
    BY <1>12 DEF FinishExport, Procs
  <2> QED
    BY <2>1, LoopReleases
<1>13. ASSUME NEW p \in Procs, NEW c, SessionDies(p, c) \/ Reap(p, c) \/ Begin(p) \/ Guard(p) \/ Commit(p) \/ RollBack(p)
       PROVE  UNCHANGED <<proc, tasks, held, closed>>
  BY <1>13 DEF SessionDies, Reap, Begin, Guard, Commit, RollBack
<1>14. UNCHANGED vars => UNCHANGED <<proc, tasks, held, closed>>
  BY DEF vars
<1> QED
  BY <1>1, <1>2, <1>3, <1>4, <1>5, <1>6, <1>7, <1>8, <1>9, <1>10, <1>11, <1>12, <1>13, <1>14 DEF Next, Step

LEMMA LInit == Init => LInv
<1> SUFFICES ASSUME Init PROVE LInv
  OBVIOUS
<1>1. \A p \in Procs : /\ proc[p] = NotRunning(0) /\ held[p] = {} /\ closed[p] = {}
                       /\ \A t \in Tasks : tasks[p][t] = NoTask
  BY DEF Init, NoTasks
<1>2. \A p \in Procs : LoopOK(p)
  BY <1>1 DEF LoopOK, Busy, Runs, NotRunning, NoTask
<1> QED
  BY <1>2, MInit DEF LInv, MInv

\* A process re-acquires in one loop and holds the lock on one connection, whatever reports of lost connections come late.
THEOREM OneLoopOnly == Spec => []OneLoop
<1>1. LInv /\ [Next]_vars => LInv'
  BY MTypes, LoopStep DEF LInv
<1>2. LInv => OneLoop
  <2> SUFFICES ASSUME LInv, NEW p \in Procs
               PROVE  Cardinality({t \in Tasks : tasks[p][t] # NoTask}) <= 1 /\ held[p] \subseteq {proc[p].client}
    BY DEF OneLoop
  <2> DEFINE S == {t \in Tasks : tasks[p][t] # NoTask}
  <2>1. LoopOK(p)
    BY DEF LInv
  <2>2. S = {} \/ \E t \in Tasks : S = {t}
    BY <2>1 DEF LoopOK, Busy
  <2>3. Cardinality(S) <= 1
    <3> HIDE DEF S
    <3>1. CASE S = {}
      BY <3>1, FS_EmptySet
    <3>2. ASSUME NEW t \in Tasks, S = {t} PROVE Cardinality(S) <= 1
      BY <3>2, FS_Singleton
    <3> QED
      BY <2>2, <3>1, <3>2
  <2> QED
    BY <2>1, <2>3 DEF LoopOK
<1> QED
  BY <1>1, <1>2, LInit, PTL DEF Spec
=============================================================================
