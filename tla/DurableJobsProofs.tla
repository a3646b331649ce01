-------------------------- MODULE DurableJobsProofs --------------------------
(***************************************************************************)
(* For any number of jobs and processes, of outages, deaths and enqueues:  *)
(* types and the bound on claims, no job done without a run of its own, no *)
(* job failed before its last claim, and no job out of reach.              *)
(***************************************************************************)
EXTENDS DurableJobs, TLAPS

Holding(w) == At(w, {"work", "complete", "fail"})

\* A worker's claim is of a row that exists or of one that has been run again or pruned since; ids never repeat.
ClaimsInv ==
  /\ nextId > 0
  /\ \A k \in Keys : jobs[k].id < nextId
  /\ \A j, k \in Keys : Exists(j) /\ jobs[j].id = jobs[k].id => j = k
  /\ \A w \in Workers : worker[w].id < nextId
  /\ \A w \in Workers : Holding(w) =>
       /\ worker[w].id > 0
       /\ \A k \in Keys : jobs[k].id = worker[w].id => worker[w].attempts <= jobs[k].attempts

\* A run that has done its work did it for the row it holds.
WorkInv ==
  \A w \in Workers : At(w, {"complete"}) => \A k \in Keys : jobs[k].id = worker[w].id => k \in fresh

JInv == TypeOK /\ ClaimsInv /\ WorkInv /\ DoneIsFresh /\ FailedAfterLastClaim /\ NeverStranded
-----------------------------------------------------------------------------
\* A step that keeps the rows' ids and takes back no claim keeps the invariant, if no drainer gains a claim
\* and what is recorded as done, failed or pending is so.
LEMMA RecordStep ==
  ASSUME JInv, TypeOK', UNCHANGED nextId, fresh \subseteq fresh',
         \A k \in Keys : /\ jobs'[k].id = jobs[k].id /\ jobs'[k].attempts >= jobs[k].attempts
                         /\ Succeeded(k)' => Succeeded(k) \/ k \in fresh'
                         /\ jobs'[k].done /\ jobs'[k].error # "none" => jobs'[k].attempts >= MaxAttempts
                         /\ Pending(k)' /\ jobs'[k].attempts >= MaxAttempts => jobs'[k].lease # "none",
         \A w \in Workers :
           /\ worker'[w].id < nextId
           /\ Holding(w)' => Holding(w) /\ worker'[w].id = worker[w].id /\ worker'[w].attempts = worker[w].attempts
           /\ At(w, {"complete"})' =>
                At(w, {"complete"}) \/ \A k \in Keys : jobs[k].id = worker[w].id => k \in fresh'
  PROVE  JInv'
<1>0. \A k \in Keys : jobs[k].attempts \in Int /\ jobs'[k].attempts \in Int
  BY AttemptsAssumption DEF JInv, TypeOK, Rows
<1>1. ClaimsInv'
  <2>1. \A w \in Workers : worker[w].attempts \in Int
    BY AttemptsAssumption DEF JInv, TypeOK
  <2>2. ASSUME NEW w \in Workers, Holding(w)'
        PROVE  /\ worker'[w].id > 0
               /\ \A k \in Keys : jobs'[k].id = worker'[w].id => worker'[w].attempts <= jobs'[k].attempts
    BY <1>0, <2>1, <2>2 DEF JInv, ClaimsInv
  <2> QED
    BY <2>2 DEF JInv, ClaimsInv, Exists
<1>2. WorkInv'
  <2> SUFFICES ASSUME NEW w \in Workers, At(w, {"complete"})', NEW k \in Keys, jobs'[k].id = worker'[w].id
               PROVE  k \in fresh'
    BY DEF WorkInv
  <2>1. worker'[w].id = worker[w].id
    BY DEF At, Holding
  <2> QED
    BY <2>1 DEF JInv, WorkInv
<1>3. DoneIsFresh' /\ FailedAfterLastClaim' /\ NeverStranded'
  BY DEF JInv, DoneIsFresh, FailedAfterLastClaim, NeverStranded
<1> QED
  BY <1>1, <1>2, <1>3 DEF JInv

\* No row, no claim, nothing promised at first.
LEMMA JInit == Init => JInv
<1> SUFFICES ASSUME Init PROVE JInv
  OBVIOUS
<1>1. TypeOK
  BY AttemptsAssumption DEF Init, TypeOK, Rows, NoJob, Idle, Priorities
<1>2. ClaimsInv /\ WorkInv
  BY DEF Init, ClaimsInv, WorkInv, NoJob, Idle, Holding, At, Exists
<1>3. DoneIsFresh /\ FailedAfterLastClaim /\ NeverStranded
  BY DEF Init, NoJob, DoneIsFresh, FailedAfterLastClaim, NeverStranded, Succeeded, Pending, Exists
<1> QED
  BY <1>1, <1>2, <1>3 DEF JInv

\* Every step keeps the types; the claim's guard keeps the bound on claims.
LEMMA JTypes == ASSUME JInv, Next PROVE TypeOK'
<1>1. TypeOK
  BY DEF JInv
<1>2. NoJob \in Rows
  BY AttemptsAssumption DEF NoJob, Rows, Priorities
<1>3. ASSUME NEW k \in Keys, Prune(k) PROVE TypeOK'
  BY <1>1, <1>2, <1>3 DEF TypeOK, Prune
<1>4. ASSUME NEW k \in Keys, Expire(k) PROVE TypeOK'
  BY <1>1, <1>4 DEF TypeOK, Expire, Rows
<1>5. ASSUME NEW k \in Keys, NEW rerun \in Reruns, NEW p \in Priorities, Enqueue(k, rerun, p) PROVE TypeOK'
  <2>1. [NoJob EXCEPT !.id = nextId, !.priority = p] \in Rows
    <3>1. nextId \in Nat /\ 0 \in 0 .. MaxAttempts
      BY <1>1, AttemptsAssumption DEF TypeOK
    <3> QED
      BY <3>1 DEF NoJob, Rows
  <2> QED
    BY <1>1, <1>5, <2>1 DEF TypeOK, Enqueue, QueuedId
<1>6. ASSUME NEW w \in Workers, Kick(w) PROVE TypeOK'
  BY <1>1, <1>6 DEF TypeOK, Kick
<1>7. ASSUME NEW w \in Workers, Clean(w) PROVE TypeOK'
  <2>1. \A r \in Rows : [r EXCEPT !.done = TRUE, !.lease = "none", !.error = "expired"] \in Rows
    BY DEF Rows
  <2>2. jobs' \in [Keys -> Rows]
    BY <1>1, <1>7, <2>1 DEF TypeOK, Clean
  <2>3. worker' \in [Workers -> [at : {"idle", "clean", "claim", "work", "complete", "fail"},
                                 id : Nat, attempts : 0 .. MaxAttempts]]
    BY <1>1, <1>7 DEF TypeOK, Clean
  <2> QED
    BY <1>1, <1>7, <2>2, <2>3 DEF TypeOK, Clean
<1>i. \A at \in {"idle", "clean", "claim"} :
        [Idle EXCEPT !.at = at] \in [at : {"idle", "clean", "claim", "work", "complete", "fail"},
                                     id : Nat, attempts : 0 .. MaxAttempts]
  BY AttemptsAssumption DEF Idle
<1>r. \A row \in Rows, done \in BOOLEAN, lease \in {"none", "future"}, error \in {"none", "error"} :
        [row EXCEPT !.done = done, !.lease = lease, !.error = error] \in Rows
  BY DEF Rows
<1>8. ASSUME NEW w \in Workers, NothingToClaim(w) PROVE TypeOK'
  BY <1>1, <1>i, <1>8 DEF TypeOK, NothingToClaim, DrainEnds
<1>9. ASSUME NEW w \in Workers, NEW k \in Keys, Claim(w, k) PROVE TypeOK'
  <2>1. jobs[k] \in Rows /\ jobs[k].attempts + 1 \in 0 .. MaxAttempts /\ jobs[k].id \in Nat
    BY <1>1, <1>9, AttemptsAssumption DEF TypeOK, Claim, Claimable, Rows
  <2>2. jobs' \in [Keys -> Rows]
    BY <1>1, <1>9, <2>1 DEF TypeOK, Claim, Rows
  <2> QED
    BY <1>1, <1>9, <2>1, <2>2 DEF TypeOK, Claim
<1>10. ASSUME NEW w \in Workers, WorkDone(w) PROVE TypeOK'
  BY <1>1, <1>10 DEF TypeOK, WorkDone
<1>11. ASSUME NEW w \in Workers, WorkFails(w) PROVE TypeOK'
  BY <1>1, <1>11 DEF TypeOK, WorkFails
<1>12. ASSUME NEW w \in Workers, Complete(w) PROVE TypeOK'
  <2>1. jobs' \in [Keys -> Rows]
    BY <1>1, <1>r, <1>12 DEF TypeOK, Complete, Record
  <2> QED
    BY <1>1, <1>i, <1>12, <2>1 DEF TypeOK, Complete, Record
<1>13. ASSUME NEW w \in Workers, Fail(w) PROVE TypeOK'
  <2>1. Final(worker[w].attempts) \in BOOLEAN /\ Backoff(Final(worker[w].attempts)) \in {"none", "future"}
    BY DEF Final, Backoff
  <2>2. jobs' \in [Keys -> Rows]
    BY <1>1, <1>r, <1>13, <2>1 DEF TypeOK, Fail, Record
  <2> QED
    BY <1>1, <1>i, <1>13, <2>2 DEF TypeOK, Fail, Record
<1>14. ASSUME NEW w \in Workers, Outage(w) PROVE TypeOK'
  BY <1>1, <1>i, <1>14 DEF TypeOK, Outage, DrainEnds
<1>15. ASSUME NEW w \in Workers, Die(w) PROVE TypeOK'
  <2>1. Idle \in [at : {"idle", "clean", "claim", "work", "complete", "fail"}, id : Nat, attempts : 0 .. MaxAttempts]
    BY AttemptsAssumption DEF Idle
  <2> QED
    BY <1>1, <1>15, <2>1 DEF TypeOK, Die
<1> QED
  BY <1>3, <1>4, <1>5, <1>6, <1>7, <1>8, <1>9, <1>10, <1>11, <1>12, <1>13, <1>14, <1>15 DEF Next, Drain

\* The two steps that give a key another row: no worker holds its id, and it is not done.
LEMMA QueueStep ==
  ASSUME JInv, TypeOK', NEW k \in Keys, Prune(k) \/ \E rerun \in Reruns, p \in Priorities : Enqueue(k, rerun, p)
  PROVE  JInv'
<1>1. TypeOK /\ ClaimsInv /\ WorkInv /\ DoneIsFresh /\ FailedAfterLastClaim /\ NeverStranded
  BY DEF JInv
<1>2. /\ UNCHANGED worker /\ fresh' \in {fresh, fresh \ {k}}
      /\ jobs'[k].id \in {0, nextId} /\ jobs'[k].attempts = 0 /\ ~jobs'[k].done
      /\ \A j \in Keys \ {k} : jobs'[j] = jobs[j]
      /\ nextId' \in {nextId, nextId + 1} /\ jobs'[k].id < nextId'
  <2>1. nextId \in Nat /\ nextId > 0 /\ jobs \in [Keys -> Rows]
    BY <1>1 DEF TypeOK, ClaimsInv
  <2>2. CASE Prune(k)
    BY <2>1, <2>2 DEF Prune, NoJob
  <2>3. CASE \E rerun \in Reruns, p \in Priorities : Enqueue(k, rerun, p)
    <3>1. PICK p \in Priorities : jobs' = [jobs EXCEPT ![k] = [NoJob EXCEPT !.id = nextId, !.priority = p]]
      BY <2>3 DEF Enqueue, QueuedId
    <3>2. UNCHANGED worker /\ fresh' = fresh \ {k} /\ nextId' = nextId + 1
      BY <2>3 DEF Enqueue
    <3> QED
      BY <2>1, <3>1, <3>2 DEF NoJob
  <2> QED
    BY <2>2, <2>3
<1>3. \A w \in Workers : Holding(w) => jobs'[k].id # worker[w].id
  BY <1>1, <1>2 DEF ClaimsInv, TypeOK
<1>4. nextId \in Nat /\ \A j \in Keys : jobs[j].id \in Nat
  BY <1>1 DEF TypeOK, Rows
<1>5. \A j \in Keys : jobs'[j].id < nextId'
  BY <1>1, <1>2, <1>4 DEF ClaimsInv
<1>6. \A w \in Workers : worker'[w].id < nextId' /\ worker[w].id \in Nat
  BY <1>1, <1>2, <1>4 DEF ClaimsInv, TypeOK
<1>7. ClaimsInv'
  <2>1. \A i, j \in Keys : Exists(i)' /\ jobs'[i].id = jobs'[j].id => i = j
    BY <1>1, <1>2, <1>4 DEF ClaimsInv, Exists
  <2> QED
    BY <1>1, <1>2, <1>3, <1>4, <1>5, <1>6, <2>1 DEF ClaimsInv, Holding, At
<1>8. WorkInv'
  BY <1>1, <1>2, <1>3 DEF WorkInv, Holding, At
<1>9. DoneIsFresh' /\ FailedAfterLastClaim'
  BY <1>1, <1>2 DEF DoneIsFresh, FailedAfterLastClaim, Succeeded
<1>10. NeverStranded'
  BY <1>1, <1>2, AttemptsAssumption DEF NeverStranded, Pending, Exists
<1> QED
  BY <1>7, <1>8, <1>9, <1>10 DEF JInv

\* A claim: the worker's attempt is the row's, and its lease runs.
LEMMA ClaimStep ==
  ASSUME JInv, TypeOK', NEW w \in Workers, NEW k \in Keys, Claim(w, k)
  PROVE  JInv'
<1>1. /\ TypeOK /\ ClaimsInv /\ WorkInv /\ DoneIsFresh /\ FailedAfterLastClaim /\ NeverStranded
      /\ jobs \in [Keys -> Rows] /\ worker \in [Workers -> [at : {"idle", "clean", "claim", "work", "complete", "fail"},
                                                            id : Nat, attempts : 0 .. MaxAttempts]]
  BY DEF JInv, TypeOK
<1>2. /\ UNCHANGED <<nextId, fresh>> /\ Pending(k)
      /\ \A j \in Keys \ {k} : jobs'[j] = jobs[j]
      /\ jobs'[k].id = jobs[k].id /\ jobs'[k].attempts = jobs[k].attempts + 1 /\ jobs'[k].lease = "future"
      /\ jobs'[k].done = jobs[k].done
  BY <1>1 DEF Claim, Claimable, Rows
<1>3. /\ worker'[w] = [at |-> "work", id |-> jobs[k].id, attempts |-> jobs[k].attempts + 1]
      /\ \A v \in Workers \ {w} : worker'[v] = worker[v]
  BY <1>1 DEF Claim
<1>4. \A j \in Keys : jobs[j].id \in Nat /\ jobs[j].attempts \in Nat
  BY <1>1, AttemptsAssumption DEF Rows
<1>5. \A v \in Workers : worker[v].attempts \in Nat
  BY <1>1, AttemptsAssumption
<1>6. ClaimsInv'
  <2>1. jobs[k].id > 0
    BY <1>2, <1>4 DEF Pending, Exists
  <2>2. \A j \in Keys : jobs[j].id = jobs[k].id => jobs[k].attempts + 1 <= jobs'[j].attempts
    BY <1>1, <1>2, <1>4, <2>1 DEF ClaimsInv, Exists
  <2>3. \A i, j \in Keys : Exists(i)' /\ jobs'[i].id = jobs'[j].id => i = j
    BY <1>1, <1>2 DEF ClaimsInv, Exists
  <2>4. \A v \in Workers, j \in Keys : Holding(v) /\ jobs[j].id = worker[v].id => worker[v].attempts <= jobs'[j].attempts
    BY <1>1, <1>2, <1>4, <1>5 DEF ClaimsInv
  <2> QED
    BY <1>1, <1>2, <1>3, <1>4, <1>5, <2>1, <2>2, <2>3, <2>4 DEF ClaimsInv, Holding, At
<1>7. WorkInv'
  BY <1>1, <1>2, <1>3 DEF WorkInv, At
<1>8. DoneIsFresh' /\ FailedAfterLastClaim' /\ NeverStranded'
  BY <1>1, <1>2 DEF DoneIsFresh, FailedAfterLastClaim, NeverStranded, Succeeded, Pending, Exists
<1> QED
  BY <1>6, <1>7, <1>8 DEF JInv

\* Every step of an enqueue, a drain, the clock or a failure keeps the invariant.
LEMMA JStep == JInv /\ [Next]_vars => JInv'
<1> SUFFICES ASSUME JInv, [Next]_vars PROVE JInv'
  OBVIOUS
<1>1. /\ TypeOK /\ ClaimsInv /\ WorkInv /\ DoneIsFresh /\ FailedAfterLastClaim /\ NeverStranded
      /\ jobs \in [Keys -> Rows] /\ worker \in [Workers -> [at : {"idle", "clean", "claim", "work", "complete", "fail"},
                                                            id : Nat, attempts : 0 .. MaxAttempts]]
  BY DEF JInv, TypeOK
<1>2. /\ 0 < nextId /\ \A w \in Workers : worker[w].id < nextId
      /\ \A k \in Keys : jobs[k].attempts \in Int
  BY <1>1, AttemptsAssumption DEF ClaimsInv, Rows
<1>3. /\ \A k \in Keys : jobs[k].done /\ jobs[k].error # "none" => jobs[k].attempts >= MaxAttempts
      /\ \A k \in Keys : Pending(k) /\ jobs[k].attempts >= MaxAttempts => jobs[k].lease # "none"
  BY <1>1 DEF FailedAfterLastClaim, NeverStranded
<1>i. \A at \in {"idle", "clean", "claim"} : [Idle EXCEPT !.at = at].id = 0 /\ [Idle EXCEPT !.at = at].at = at
  BY DEF Idle
<1>4. CASE UNCHANGED vars
  BY <1>1, <1>4 DEF vars, JInv, TypeOK, ClaimsInv, WorkInv, DoneIsFresh, FailedAfterLastClaim, NeverStranded,
                    Holding, At, Succeeded, Pending, Exists
<1>5. ASSUME Next PROVE JInv'
  <2>0. TypeOK'
    BY <1>5, JTypes
  <2>1. ASSUME NEW k \in Keys, Prune(k) \/ \E rerun \in Reruns, p \in Priorities : Enqueue(k, rerun, p) PROVE JInv'
    BY <2>0, <2>1, QueueStep
  <2>2. ASSUME NEW w \in Workers, NEW k \in Keys, Claim(w, k) PROVE JInv'
    BY <2>0, <2>2, ClaimStep
  <2>3. ASSUME NEW k \in Keys, Expire(k) PROVE JInv'
    <3>1. UNCHANGED <<nextId, fresh, worker>>
      BY <2>3 DEF Expire
    <3>2. \A j \in Keys : /\ jobs'[j].id = jobs[j].id /\ jobs'[j].attempts = jobs[j].attempts
                          /\ jobs'[j].done = jobs[j].done /\ jobs'[j].error = jobs[j].error
                          /\ jobs'[j].lease \in {jobs[j].lease, "past"}
      BY <1>1, <2>3 DEF Expire, Rows
    <3> QED
      BY <1>2, <1>3, <2>0, <3>1, <3>2, RecordStep DEF Holding, At, Succeeded, Pending, Exists
  <2>4. ASSUME NEW w \in Workers,
               Kick(w) \/ NothingToClaim(w) \/ WorkFails(w) \/ Outage(w) \/ Die(w)
        PROVE  JInv'
    <3>1. UNCHANGED <<jobs, nextId, fresh>> /\ \A v \in Workers \ {w} : worker'[v] = worker[v]
      BY <1>1, <2>4 DEF Kick, NothingToClaim, WorkFails, Outage, Die, DrainEnds
    <3>2. /\ worker'[w].id \in {0, worker[w].id} /\ (~At(w, {"complete"})' \/ worker'[w] = worker[w])
          /\ Holding(w)' => /\ Holding(w) /\ worker'[w].id = worker[w].id
                            /\ worker'[w].attempts = worker[w].attempts
      BY <1>1, <1>i, <2>4 DEF Kick, NothingToClaim, WorkFails, Outage, Die, DrainEnds, Idle, At, Holding
    <3> QED
      BY <1>2, <1>3, <2>0, <3>1, <3>2, RecordStep DEF Holding, At, Succeeded, Pending, Exists
  <2>5. ASSUME NEW w \in Workers, Clean(w) PROVE JInv'
    <3>1. /\ UNCHANGED <<nextId, fresh>> /\ \A v \in Workers \ {w} : worker'[v] = worker[v]
          /\ worker'[w].at = "claim" /\ worker'[w].id = worker[w].id
      BY <1>1, <2>5 DEF Clean
    <3>2. \A k \in Keys : \/ jobs'[k] = jobs[k]
                          \/ /\ jobs'[k].id = jobs[k].id /\ jobs'[k].attempts = jobs[k].attempts
                             /\ jobs'[k].done /\ jobs'[k].error = "expired" /\ jobs[k].attempts >= MaxAttempts
      BY <1>1, <2>5 DEF Clean, Crashed, Rows
    <3> QED
      BY <1>2, <1>3, <2>0, <3>1, <3>2, RecordStep DEF Holding, At, Succeeded, Pending, Exists
  <2>6. ASSUME NEW w \in Workers, WorkDone(w) PROVE JInv'
    <3>1. /\ UNCHANGED <<jobs, nextId>> /\ \A v \in Workers \ {w} : worker'[v] = worker[v]
          /\ fresh' = fresh \cup {k \in Keys : jobs[k].id = worker[w].id}
          /\ worker[w].at = "work" /\ worker'[w].id = worker[w].id /\ worker'[w].attempts = worker[w].attempts
      BY <1>1, <2>6 DEF WorkDone, At
    <3> QED
      BY <1>2, <1>3, <2>0, <3>1, RecordStep DEF Holding, At, Succeeded, Pending, Exists
  <2>7. ASSUME NEW w \in Workers, Complete(w) PROVE JInv'
    <3>1. /\ UNCHANGED <<nextId, fresh>> /\ \A v \in Workers \ {w} : worker'[v] = worker[v]
          /\ worker'[w].at = "claim" /\ worker'[w].id = 0 /\ At(w, {"complete"})
      BY <1>1, <1>i, <2>7 DEF Complete, Record
    <3>2. \A k \in Keys : \/ jobs'[k] = jobs[k]
                          \/ /\ jobs'[k].id = jobs[k].id /\ jobs'[k].attempts = jobs[k].attempts
                             /\ jobs'[k].done /\ jobs'[k].error = "none" /\ jobs[k].id = worker[w].id
      BY <1>1, <2>7 DEF Complete, Record, Rows
    <3>3. \A k \in Keys : jobs[k].id = worker[w].id => k \in fresh
      BY <1>1, <3>1 DEF WorkInv
    <3> QED
      BY <1>2, <1>3, <2>0, <3>1, <3>2, <3>3, RecordStep DEF Holding, At, Succeeded, Pending, Exists
  <2>8. ASSUME NEW w \in Workers, Fail(w) PROVE JInv'
    <3> DEFINE final == Final(worker[w].attempts)
    <3>1. /\ UNCHANGED <<nextId, fresh>> /\ \A v \in Workers \ {w} : worker'[v] = worker[v]
          /\ worker'[w].at = "claim" /\ worker'[w].id = 0 /\ Holding(w)
      BY <1>1, <1>i, <2>8 DEF Fail, Record, Holding, At
    <3>2. \A k \in Keys : \/ jobs'[k] = jobs[k]
                          \/ /\ jobs'[k].id = jobs[k].id /\ jobs'[k].attempts = jobs[k].attempts
                             /\ jobs'[k].done = final /\ jobs'[k].error = "error"
                             /\ jobs'[k].lease = Backoff(final) /\ jobs[k].id = worker[w].id
      BY <1>1, <2>8 DEF Fail, Record, Rows
    <3>3. \A k \in Keys : jobs[k].id = worker[w].id /\ final => jobs[k].attempts >= MaxAttempts
      BY <1>1, <1>2, <3>1, AttemptsAssumption DEF ClaimsInv, Final
    <3>4. ~final => Backoff(final) = "future"
      BY DEF Backoff
    <3> HIDE DEF final
    <3> QED
      BY <1>2, <1>3, <2>0, <3>1, <3>2, <3>3, <3>4, RecordStep DEF Holding, At, Succeeded, Pending, Exists
  <2> QED
    BY <1>5, <2>1, <2>2, <2>3, <2>4, <2>5, <2>6, <2>7, <2>8 DEF Next, Drain
<1> QED
  BY <1>4, <1>5

\* Every reachable state satisfies the invariant.
THEOREM JobsInvariance == Spec => []JInv
  BY JInit, JStep, PTL DEF Spec

\* Types, and no job is claimed more than MAX_JOB_ATTEMPTS times.
THEOREM ClaimsBounded == Spec => []TypeOK
<1>1. JInv => TypeOK
  BY DEF JInv
<1> QED
  BY <1>1, JobsInvariance, PTL

\* A job stands as done only if a run claimed since its last enqueue did its work, however many processes
\* outlive their leases.
THEOREM DoneWasRun == Spec => []DoneIsFresh
<1>1. JInv => DoneIsFresh
  BY DEF JInv
<1> QED
  BY <1>1, JobsInvariance, PTL

\* A job is failed only after its last claim, and none is out of reach of both claims and the clean-up.
THEOREM FailedInOrder == Spec => []FailedInTurn
<1>1. JInv => FailedInTurn
  BY DEF JInv, FailedInTurn
<1> QED
  BY <1>1, JobsInvariance, PTL
=============================================================================
