----------------------------- MODULE DurableJobs -----------------------------
(***************************************************************************)
(* Durable background jobs of one kind (jobs/durable.ts): the `jobs` rows, *)
(* their leases, and one drainer per server process.  The work itself is   *)
(* done or fails; it may outlive its lease, and the process may die in it. *)
(***************************************************************************)
EXTENDS Integers, FiniteSets

CONSTANTS
  Keys,          \* idempotency keys: one item at one version
  Workers,       \* server processes sharing the database, each with a drainer of the kind
  MaxAttempts,   \* MAX_JOB_ATTEMPTS
  Cleans,        \* the drain calls failCrashedJobs before it claims (not the projector's)
  Reruns,        \* the rerun modes of the kind's callers
  MaxEnqueues,   \* bound: enqueue calls
  MaxOutages,    \* bound: statements of a drain that fail
  MaxDeaths      \* bound: deaths of a process

ASSUME AttemptsAssumption == MaxAttempts \in Nat \ {0}
ASSUME CallersAssumption ==
  Cleans \in BOOLEAN /\ Reruns \subseteq {"never", "succeeded", "errored", "finished"}
ASSUME LimitsAssumption == MaxEnqueues \in Nat /\ MaxOutages \in Nat /\ MaxDeaths \in Nat

VARIABLES
  jobs,      \* the row of each key, or NoJob
  nextId,    \* the sequence of `jobs.id`
  wanted,    \* the drainers kicked while they run
  worker,    \* each drainer: where it is, and the job it claimed
  fresh,     \* ghost: keys whose work was done by a run claimed since their last enqueue
  enqueues, outages, deaths

vars == <<jobs, nextId, wanted, worker, fresh, enqueues, outages, deaths>>

\* write, catch-up (JOB_PRIORITY)
Priorities == {0, 1}

NoJob == [id |-> 0, attempts |-> 0, lease |-> "none", done |-> FALSE, error |-> "none", priority |-> 0]
Exists(k) == jobs[k].id # 0
Pending(k) == Exists(k) /\ ~jobs[k].done
Succeeded(k) == jobs[k].done /\ jobs[k].error = "none"

Idle == [at |-> "idle", id |-> 0, attempts |-> 0]
At(w, phases) == worker[w].at \in phases

Init ==
  /\ jobs = [k \in Keys |-> NoJob] /\ nextId = 1
  /\ wanted = {} /\ worker = [w \in Workers |-> Idle] /\ fresh = {}
  /\ enqueues = 0 /\ outages = 0 /\ deaths = 0
-----------------------------------------------------------------------------
(* Enqueueing *)

\* onJobConflict: the finished jobs that an enqueue of the same key runs again.
RunsAgain(k, rerun) ==
  /\ jobs[k].done
  /\ CASE rerun = "never" -> FALSE
       [] rerun = "succeeded" -> jobs[k].error = "none"
       [] rerun = "errored" -> jobs[k].error = "error"
       [] rerun = "finished" -> TRUE

\* Mutant: a job run again keeps its id.
SameId(k) == IF Exists(k) THEN jobs[k].id ELSE nextId
QueuedId(k) == nextId

Enqueue(k, rerun, priority) ==
  /\ enqueues < MaxEnqueues /\ enqueues' = enqueues + 1
  /\ ~Exists(k) \/ RunsAgain(k, rerun)
  /\ jobs' = [jobs EXCEPT ![k] = [NoJob EXCEPT !.id = QueuedId(k), !.priority = priority]]
  /\ nextId' = nextId + 1
  /\ fresh' = fresh \ {k}
  /\ UNCHANGED <<wanted, worker, outages, deaths>>

\* pruneFinishedJobs at boot; failed jobs stay.
Prune(k) ==
  /\ Succeeded(k)
  /\ jobs' = [jobs EXCEPT ![k] = NoJob]
  /\ UNCHANGED <<nextId, wanted, worker, fresh, enqueues, outages, deaths>>

\* The clock passes a lease or a backoff.
Expire(k) ==
  /\ jobs[k].lease = "future"
  /\ jobs' = [jobs EXCEPT ![k].lease = "past"]
  /\ UNCHANGED <<nextId, wanted, worker, fresh, enqueues, outages, deaths>>
-----------------------------------------------------------------------------
(* Draining *)

\* kick, after an enqueue and from the poll: starts the loop, or makes the running one look again.
Kick(w) ==
  /\ IF At(w, {"idle"})
     THEN worker' = [worker EXCEPT ![w].at = "clean"] /\ UNCHANGED wanted
     ELSE w \notin wanted /\ wanted' = wanted \cup {w} /\ UNCHANGED worker
  /\ UNCHANGED <<jobs, nextId, fresh, enqueues, outages, deaths>>

\* drainOnce returned or threw; the loop checks `wanted` in the same step.
DrainEnds(w) ==
  /\ worker' = [worker EXCEPT ![w] = [Idle EXCEPT !.at = IF w \in wanted THEN "clean" ELSE "idle"]]
  /\ wanted' = wanted \ {w}

\* Mutant: the clean-up waits for one claim too many.
CrashedPastLast(k) == Pending(k) /\ jobs[k].attempts > MaxAttempts /\ jobs[k].lease = "past"
\* failCrashedJobs: out of claims, and the last lease ran out.
Crashed(k) == Pending(k) /\ jobs[k].attempts >= MaxAttempts /\ jobs[k].lease = "past"

Clean(w) ==
  /\ At(w, {"clean"})
  /\ jobs' = [k \in Keys |-> IF Cleans /\ Crashed(k)
                             THEN [jobs[k] EXCEPT !.done = TRUE, !.lease = "none", !.error = "expired"]
                             ELSE jobs[k]]
  /\ worker' = [worker EXCEPT ![w].at = "claim"]
  /\ UNCHANGED <<nextId, wanted, fresh, enqueues, outages, deaths>>

\* Mutants: claims do not ask whether the job is done; they allow one more than the maximum.
ClaimableOnceMore(k) == Pending(k) /\ jobs[k].lease # "future" /\ jobs[k].attempts <= MaxAttempts
FreeOfLease(k) == Exists(k) /\ jobs[k].lease # "future" /\ jobs[k].attempts < MaxAttempts
Claimable(k) == Pending(k) /\ jobs[k].lease # "future" /\ jobs[k].attempts < MaxAttempts
\* ORDER BY priority, id
Before(j, k) ==
  \/ jobs[j].priority < jobs[k].priority
  \/ jobs[j].priority = jobs[k].priority /\ jobs[j].id <= jobs[k].id

Claim(w, k) ==
  /\ At(w, {"claim"}) /\ Claimable(k)
  /\ \A j \in Keys : Claimable(j) => Before(k, j)
  /\ jobs' = [jobs EXCEPT ![k].lease = "future", ![k].attempts = @ + 1]
  /\ worker' = [worker EXCEPT ![w] = [at |-> "work", id |-> jobs[k].id, attempts |-> jobs[k].attempts + 1]]
  /\ UNCHANGED <<nextId, wanted, fresh, enqueues, outages, deaths>>

NothingToClaim(w) ==
  /\ At(w, {"claim"}) /\ \A k \in Keys : ~Claimable(k)
  /\ DrainEnds(w)
  /\ UNCHANGED <<jobs, nextId, fresh, enqueues, outages, deaths>>

\* The job's work, an await of any length: done, or an error thrown.
WorkDone(w) ==
  /\ At(w, {"work"})
  /\ fresh' = fresh \cup {k \in Keys : jobs[k].id = worker[w].id}
  /\ worker' = [worker EXCEPT ![w].at = "complete"]
  /\ UNCHANGED <<jobs, nextId, wanted, enqueues, outages, deaths>>

WorkFails(w) ==
  /\ At(w, {"work"})
  /\ worker' = [worker EXCEPT ![w].at = "fail"]
  /\ UNCHANGED <<jobs, nextId, wanted, fresh, enqueues, outages, deaths>>

\* UPDATE ... WHERE id: a row that was run again meanwhile has another id.
Record(w, done, lease, error) ==
  /\ jobs' = [k \in Keys |-> IF jobs[k].id = worker[w].id
                             THEN [jobs[k] EXCEPT !.done = done, !.lease = lease, !.error = error]
                             ELSE jobs[k]]
  /\ worker' = [worker EXCEPT ![w] = [Idle EXCEPT !.at = "claim"]]
  /\ UNCHANGED <<nextId, wanted, fresh, enqueues, outages, deaths>>

\* completeJob
Complete(w) ==
  /\ At(w, {"complete"})
  /\ Record(w, TRUE, "none", "none")

\* Mutants: a job gives up one claim early; a failure sets no backoff.
FinalEarly(attempts) == attempts >= MaxAttempts - 1
Final(attempts) == attempts >= MaxAttempts
NoBackoff(final) == "none"
Backoff(final) == IF final THEN "none" ELSE "future"

\* failJob: it counts by the claim it held, not by the row.
Fail(w) ==
  LET final == Final(worker[w].attempts) IN
  /\ At(w, {"fail"})
  /\ Record(w, final, Backoff(final), "error")
-----------------------------------------------------------------------------
(* Failures *)

\* A statement of the drain fails: after the work that counts as its error, elsewhere the drain ends.
Outage(w) ==
  /\ outages < MaxOutages /\ outages' = outages + 1
  /\ \/ /\ At(w, {"complete"})
        /\ worker' = [worker EXCEPT ![w].at = "fail"] /\ UNCHANGED wanted
     \/ At(w, {"clean", "claim", "fail"}) /\ DrainEnds(w)
  /\ UNCHANGED <<jobs, nextId, fresh, enqueues, deaths>>

\* The process dies and is started again; its claim stays until the lease runs out.
Die(w) ==
  /\ deaths < MaxDeaths /\ deaths' = deaths + 1
  /\ worker' = [worker EXCEPT ![w] = Idle] /\ wanted' = wanted \ {w}
  /\ UNCHANGED <<jobs, nextId, fresh, enqueues, outages>>
-----------------------------------------------------------------------------
Drain(w) ==
  \/ Clean(w) \/ NothingToClaim(w) \/ \E k \in Keys : Claim(w, k)
  \/ WorkDone(w) \/ WorkFails(w) \/ Complete(w) \/ Fail(w)

Next ==
  \/ \E k \in Keys : Prune(k) \/ Expire(k) \/ \E rerun \in Reruns, p \in Priorities : Enqueue(k, rerun, p)
  \/ \E w \in Workers : Kick(w) \/ Drain(w) \/ Outage(w) \/ Die(w)

Spec == Init /\ [][Next]_vars

\* The poll kicks every drainer again and again (startJobPolling), a drain goes on, the clock passes every lease.
Fairness ==
  /\ \A w \in Workers : WF_vars(Kick(w)) /\ WF_vars(Drain(w))
  /\ \A k \in Keys : WF_vars(Expire(k))

FairSpec == Spec /\ Fairness
-----------------------------------------------------------------------------
(* Properties *)

Rows == [id : Nat, attempts : 0 .. MaxAttempts, lease : {"none", "future", "past"}, done : BOOLEAN,
         error : {"none", "error", "expired"}, priority : Priorities]

\* The types of the rows and of the drainers; no job is claimed more than MAX_JOB_ATTEMPTS times.
TypeOK ==
  /\ jobs \in [Keys -> Rows] /\ nextId \in Nat
  /\ wanted \subseteq Workers /\ fresh \subseteq Keys
  /\ worker \in [Workers -> [at : {"idle", "clean", "claim", "work", "complete", "fail"},
                             id : Nat, attempts : 0 .. MaxAttempts]]
  /\ enqueues \in Nat /\ outages \in Nat /\ deaths \in Nat

\* "The same work twice is a no-op", but a job run again is run: a job stands as done only if a run claimed
\* since its last enqueue did its work, whatever a worker that outlived its lease records (completeJob by id).
DoneIsFresh == \A k \in Keys : Succeeded(k) => k \in fresh

\* A job is failed only after its last claim, also when a late failure of an earlier claim is recorded over a
\* later one (failJob counts by the claim, failCrashedJobs by the row).
FailedAfterLastClaim ==
  \A k \in Keys : jobs[k].done /\ jobs[k].error # "none" => jobs[k].attempts >= MaxAttempts

\* No pending job is out of claims without a lease to run out: failCrashedJobs would never see it
\* (`lease_until < now()`), and nobody may claim it.
NeverStranded == \A k \in Keys : Pending(k) /\ jobs[k].attempts >= MaxAttempts => jobs[k].lease # "none"

\* Nothing is given up before its last claim, and nothing out of claims is left where neither a claim nor
\* failCrashedJobs takes it.
FailedInTurn == FailedAfterLastClaim /\ NeverStranded

\* With one process on the database a job that succeeded stays so until it is enqueued again or pruned.
SucceededStays ==
  [][\A k \in Keys : Succeeded(k) /\ jobs'[k].id = jobs[k].id => jobs'[k].done /\ jobs'[k].error = "none"]_vars

\* Every pending job ends done or failed, also one whose runs keep killing the process (failCrashedJobs).
EveryJobEnds == \A k \in Keys : Pending(k) ~> jobs[k].done
=============================================================================
