----------------------------- MODULE Extraction -----------------------------
(***************************************************************************)
(* The extraction worker (repositories/extraction-queue.ts) of one process *)
(* over the files that syncs write (repositories/store.ts): jobs in turns  *)
(* of one repository, each computed outside a transaction and checked      *)
(* under the row's lock, and the import targets, resolved with a cached    *)
(* list of files and again when a sync created or deleted a path.          *)
(***************************************************************************)
EXTENDS Integers, Sequences, FiniteSets

CONSTANTS
  Files,       \* paths, each of one repository
  Repos,
  RepoOf,      \* [Files -> Repos]
  Imports,     \* [Files -> Seq(Files)]: the paths a file's import may name, the preferred one first
  Contents,    \* [Files -> SUBSET Nat]: the contents of each file, of which NoRow's 0 is none
  TurnFiles,   \* EXTRACTION_TURN_FILES
  MaxAttempts, \* MAX_JOB_ATTEMPTS
  MaxWrites,   \* bound: files written or deleted by syncs
  MaxFailures  \* bound: failed steps, and deaths of the process

ASSUME FilesAssumption ==
  /\ IsFiniteSet(Files) /\ IsFiniteSet(Repos) /\ RepoOf \in [Files -> Repos] /\ Contents \in [Files -> SUBSET (Nat \ {0})]
  /\ Imports \in [Files -> Seq(Files)] /\ \A f \in Files : \A i \in DOMAIN Imports[f] : RepoOf[Imports[f][i]] = RepoOf[f]
ASSUME LimitsAssumption == {TurnFiles, MaxAttempts} \subseteq Nat \ {0} /\ {MaxWrites, MaxFailures} \subseteq Nat

VARIABLES
  rows,     \* repository_files: the row's id and content, NoRow for a path without one
  derived,  \* the content a file's blocks and import row are of, and the id its import resolved to
  batch,    \* each repository's sync: where it is, the files to extract, the paths created or deleted
  requests, \* reresolutionRequests
  siblings, \* repoSiblingsCache
  queue,    \* pending jobs, the oldest first
  finished, \* jobs that are done, and how
  worker,   \* the drain
  served,   \* lastTurn: for each repository those that had a turn after its last one, or any turn when it had none
  waited,   \* ghost: claims of other repositories while a repository's pushed files waited
  missed,   \* ghost: files and paths whose sync stopped before it queued them, and files whose enqueue found
            \* their job under way with another content read
  nextId, writes, failures

extractionVars ==
  <<rows, derived, batch, requests, siblings, queue, finished, worker, served, waited, missed, nextId, writes, failures>>
store == <<rows, derived>>
jobs == <<queue, finished>>
memory == <<requests, siblings>>
turns == <<served, waited>>
counts == <<nextId, writes, failures>>

NoRow == [id |-> 0, content |-> 0]
Nothing == [of |-> 0, target |-> 0]
NoBatch == [at |-> "none", files |-> {}, paths |-> {}]
NoList == <<>>
NoJob == [key |-> <<>>, file |-> "", prio |-> 0, tries |-> 0, ready |-> TRUE]
Write == 0
CatchUp == 1
Resting == [at |-> "idle", repo |-> "", prio |-> Write, left |-> 0, job |-> NoJob, place |-> 0, read |-> NoRow, target |-> 0, paths |-> {}, moves |-> {}]

Of(r) == {f \in Files : RepoOf[f] = r}
Exists(id) == \E f \in Files : rows[f].id = id
ListOf(r) == [f \in Of(r) |-> rows[f].id]

ExtractionInit ==
  /\ rows = [f \in Files |-> NoRow] /\ derived = [f \in Files |-> Nothing]
  /\ batch = [r \in Repos |-> NoBatch] /\ requests = [r \in Repos |-> {}] /\ siblings = [r \in Repos |-> NoList]
  /\ queue = <<>> /\ finished = {} /\ worker = Resting
  /\ served = [r \in Repos |-> {}] /\ waited = [r \in Repos |-> 0] /\ missed = [files |-> {}, paths |-> {}, overtaken |-> {}]
  /\ nextId = 1 /\ writes = 0 /\ failures = 0

\* resolveImportPath: the first candidate that the list has; its id, or none.
Resolve(list, f) ==
  LET known == {i \in DOMAIN Imports[f] : list[Imports[f][i]] # 0}
  IN IF known = {} THEN 0 ELSE list[Imports[f][CHOOSE i \in known : \A j \in known : i <= j]]
Tries(f) == {Imports[f][i] : i \in DOMAIN Imports[f]}
-----------------------------------------------------------------------------
(* Jobs *)

Key(f) == <<rows[f].id, rows[f].content>>
Pending(key) == (worker.job.key = key) \/ \E i \in DOMAIN queue : queue[i].key = key
Ended(key, how) == [key |-> key, how |-> how] \in finished
JobExists(key) == Pending(key) \/ \E how \in {"done", "error", "expired"} : Ended(key, how)

\* enqueueExtractions: new keys, and finished ones that `rerun` runs again, go behind the queue.
\* Mutant: a job that succeeded is not run again for a content that came back.
NewOnly(fs, rerun) == {f \in fs : rows[f] # NoRow /\ ~JobExists(Key(f))}
New(fs, rerun) == {f \in fs : rows[f] # NoRow /\ ~Pending(Key(f)) /\ (JobExists(Key(f)) => Ended(Key(f), rerun))}
Enqueued(fs, rerun, prio) ==
  LET new == New(fs, rerun)
      order == CHOOSE s \in [1 .. Cardinality(new) -> new] : \A f \in new : \E i \in DOMAIN s : s[i] = f
  IN /\ queue' = queue \o [i \in DOMAIN order |->
                    [key |-> Key(order[i]), file |-> order[i], prio |-> prio, tries |-> 0, ready |-> TRUE]]
     /\ finished' = {j \in finished : \A f \in new : j.key # Key(f)}

Claimable(i) == queue[i].ready /\ queue[i].tries < MaxAttempts
Waiting(r, prio) == {i \in DOMAIN queue : Claimable(i) /\ RepoOf[queue[i].file] = r /\ queue[i].prio = prio}
Without(i) == SubSeq(queue, 1, i - 1) \o SubSeq(queue, i + 1, Len(queue))
\* The claimed job goes back to its place by age, with a lease or a backoff to run out.
Back == SubSeq(queue, 1, worker.place - 1) \o <<[worker.job EXCEPT !.ready = FALSE]>> \o SubSeq(queue, worker.place, Len(queue))
-----------------------------------------------------------------------------
(* A sync: file by file, each path once; then the request, then the jobs *)

Written(r, f, row, path) ==
  /\ batch[r].at # "requested" /\ f \notin batch[r].files \cup batch[r].paths /\ writes < MaxWrites /\ writes' = writes + 1
  /\ rows' = [rows EXCEPT ![f] = row]
  /\ batch' = [batch EXCEPT ![r].at = "open", ![r].files = IF row = NoRow THEN @ ELSE @ \cup {f},
                            ![r].paths = IF path THEN @ \cup {f} ELSE @]
  /\ UNCHANGED <<memory, jobs, worker, turns, missed, failures>>

WriteContent(f) ==
  \E c \in Contents[f] \ {rows[f].content} :
    LET id == IF rows[f] = NoRow THEN nextId ELSE rows[f].id
    IN /\ Written(RepoOf[f], f, [id |-> id, content |-> c], rows[f] = NoRow)
       /\ nextId' = IF rows[f] = NoRow THEN nextId + 1 ELSE nextId
       /\ UNCHANGED derived

\* The blocks and imports of a deleted file go with it; imports that resolved to it have no target.
DeleteFile(f) ==
  /\ rows[f] # NoRow /\ Written(RepoOf[f], f, NoRow, TRUE)
  /\ derived' = [g \in Files |-> IF g = f THEN Nothing
                                 ELSE IF derived[g].target = rows[f].id THEN [derived[g] EXCEPT !.target = 0] ELSE derived[g]]
  /\ UNCHANGED nextId

\* scheduleImportReresolution
RequestPaths(r) ==
  /\ batch[r].at = "open" /\ batch[r].paths # {} /\ batch' = [batch EXCEPT ![r].at = "requested"]
  /\ requests' = [requests EXCEPT ![r] = @ \cup batch[r].paths]
  /\ UNCHANGED <<store, siblings, jobs, worker, turns, missed, counts>>
\* The job of the file's content is under way and has read another: the enqueue leaves it as it is.
Overtaken(f) == worker.job.key = Key(f) /\ worker.at \in {"resolve", "commit", "complete"} /\ worker.read # rows[f]
EnqueueBatch(r) ==
  /\ batch[r].at = "requested" \/ (batch[r].at = "open" /\ batch[r].paths = {})
  /\ batch' = [batch EXCEPT ![r] = NoBatch]
  /\ Enqueued(batch[r].files, "done", Write)
  /\ missed' = [missed EXCEPT !.files = @ \ New(batch[r].files, "done"),
                              !.overtaken = @ \cup {f \in batch[r].files : Overtaken(f)}]
  /\ UNCHANGED <<store, memory, worker, turns, counts>>

Fail == failures < MaxFailures /\ failures' = failures + 1
\* What a sync that stops here leaves unsaid; the next one skips files whose content has not changed.
Unsaid(rs) ==
  [files |-> UNION {batch[r].files : r \in rs}, paths |-> UNION {batch[r].paths : r \in {q \in rs : batch[q].at = "open"}}]
SyncStops(r) ==
  /\ batch[r].at # "none" /\ Fail /\ batch' = [batch EXCEPT ![r] = NoBatch]
  /\ missed' = [missed EXCEPT !.files = @ \cup Unsaid({r}).files, !.paths = @ \cup Unsaid({r}).paths]
  /\ UNCHANGED <<store, memory, jobs, worker, turns, nextId, writes>>
-----------------------------------------------------------------------------
(* The worker between turns *)

On(step) == worker.at = step
To(step) == [worker EXCEPT !.at = step]

\* The jobs at `places` are left, in their order.
Remain(places) ==
  \E left \in [1 .. Cardinality(places) -> places] :
    /\ \A i, j \in DOMAIN left : i < j => left[i] < left[j]
    /\ \A place \in places : \E i \in DOMAIN left : left[i] = place
    /\ queue' = [i \in DOMAIN left |-> queue[left[i]]]

\* A kick or the poll; failCrashedJobs: all jobs whose last run ended with the process have failed.
Drain ==
  /\ On("idle") /\ worker' = To("between")
  /\ LET crashed == {i \in DOMAIN queue : queue[i].ready /\ queue[i].tries >= MaxAttempts}
     IN /\ IF crashed = {} THEN UNCHANGED queue ELSE Remain(DOMAIN queue \ crashed)
        /\ finished' = finished \cup {[key |-> queue[i].key, how |-> "expired"] : i \in crashed}
  /\ UNCHANGED <<store, batch, memory, turns, missed, counts>>

\* reresolveRequested takes a request, drops the repository's list and loads it again: the imports that tried one of
\* the paths and now resolve otherwise.
Moves(r, paths) ==
  {[file |-> f, target |-> Resolve(ListOf(r), f)] :
     f \in {g \in Of(r) : derived[g].of # 0 /\ Tries(g) \cap paths # {} /\ derived[g].target # Resolve(ListOf(r), g)}}
TakeRequest(r) ==
  /\ On("between") /\ requests[r] # {}
  /\ worker' = [worker EXCEPT !.at = "reresolve", !.repo = r, !.paths = requests[r], !.moves = Moves(r, requests[r])]
  /\ requests' = [requests EXCEPT ![r] = {}] /\ siblings' = [siblings EXCEPT ![r] = ListOf(r)]
  /\ UNCHANGED <<store, batch, jobs, turns, missed, counts>>

\* A target deleted meanwhile breaks the update; a source deleted meanwhile has no row.
\* Mutant: the reference is not checked.
AlwaysSound(target) == TRUE
Sound(target) == target = 0 \/ Exists(target)
Movable == \A m \in worker.moves : derived[m.file].of # 0 => Sound(m.target)
Moved(f) == CHOOSE m \in worker.moves : m.file = f
Reresolve ==
  /\ On("reresolve") /\ Movable
  /\ derived' = [f \in Files |-> IF derived[f].of # 0 /\ (\E m \in worker.moves : m.file = f)
                                 THEN [derived[f] EXCEPT !.target = Moved(f).target] ELSE derived[f]]
  /\ worker' = [worker EXCEPT !.at = "between", !.paths = {}, !.moves = {}]
  /\ UNCHANGED <<rows, batch, memory, jobs, turns, missed, counts>>

\* The end of a drain drops the lists.
Ends == worker' = Resting /\ siblings' = [r \in Repos |-> NoList]
\* The request is put back, the drain ends and the poll tries again.
\* Mutant: the request is not put back.
Lost == requests
Kept == [requests EXCEPT ![worker.repo] = @ \cup worker.paths]
ReresolveFails ==
  /\ On("reresolve") /\ requests' = Kept /\ Ends
  /\ Fail \/ (~Movable /\ UNCHANGED failures)
  /\ UNCHANGED <<store, batch, jobs, turns, missed, nextId, writes>>

NoRequests ==
  /\ On("between") /\ (\A r \in Repos : requests[r] = {}) /\ worker' = To("next")
  /\ UNCHANGED <<store, batch, memory, jobs, turns, missed, counts>>

\* The least recently served of the repositories with jobs of the lowest priority, then the one with the oldest job.
Oldest(r, prio) == CHOOSE i \in Waiting(r, prio) : \A j \in Waiting(r, prio) : i <= j
\* Mutant: the repository with the oldest job, whoever was served last.
OldestFirst(r, q, prio) == Oldest(r, prio) <= Oldest(q, prio)
Before(r, q, prio) == q \in served[r] \/ (r \notin served[q] /\ Oldest(r, prio) <= Oldest(q, prio))
Lowest == IF \E r \in Repos : Waiting(r, Write) # {} THEN Write ELSE CatchUp
Turn(r) ==
  /\ On("next") /\ Waiting(r, Lowest) # {}
  /\ \A q \in Repos : Waiting(q, Lowest) # {} => Before(r, q, Lowest)
  /\ worker' = [worker EXCEPT !.at = "claim", !.repo = r, !.prio = Lowest, !.left = TurnFiles]
  /\ served' = [q \in Repos |-> IF q = r THEN {} ELSE served[q] \cup {r}]
  /\ UNCHANGED <<store, batch, memory, jobs, waited, missed, counts>>
DrainEnds ==
  /\ On("next") /\ (\A r \in Repos : Waiting(r, Lowest) = {}) /\ Ends
  /\ UNCHANGED <<store, batch, requests, jobs, turns, missed, counts>>
-----------------------------------------------------------------------------
(* The worker in a turn *)

\* A catch-up turn ends when a push's job waits.
GoesOn ==
  /\ worker.left > 0 /\ Waiting(worker.repo, worker.prio) # {}
  /\ worker.left < TurnFiles /\ worker.prio # Write => \A r \in Repos : Waiting(r, Write) = {}
ClaimJob ==
  /\ On("claim") /\ GoesOn
  /\ LET i == Oldest(worker.repo, worker.prio)
     IN /\ worker' = [worker EXCEPT !.at = "read", !.left = @ - 1, !.place = i, !.job = [queue[i] EXCEPT !.tries = @ + 1]]
        /\ queue' = Without(i)
  /\ waited' = [r \in Repos |-> IF r = worker.repo \/ Waiting(r, Write) = {} THEN 0 ELSE waited[r] + 1]
  /\ UNCHANGED <<store, batch, memory, finished, served, missed, counts>>
TurnEnds ==
  /\ On("claim") /\ ~GoesOn /\ worker' = To("between")
  /\ UNCHANGED <<store, batch, memory, jobs, turns, missed, counts>>

\* processFile: the row as it is now, whatever content the job was queued for.
ReadFile ==
  /\ On("read")
  /\ LET row == rows[worker.job.file]
         next == IF Imports[worker.job.file] = <<>> THEN "commit" ELSE "resolve"
     IN worker' = IF row.id = worker.job.key[1] THEN [worker EXCEPT !.at = next, !.read = row] ELSE To("complete")
  /\ UNCHANGED <<store, batch, memory, jobs, turns, missed, counts>>

\* The cached list, or one loaded now, gives the target; parsing and embedding take their time.
ResolveImports ==
  /\ On("resolve")
  /\ LET r == RepoOf[worker.job.file]
         list == IF siblings[r] = NoList THEN ListOf(r) ELSE siblings[r]
     IN /\ siblings' = [siblings EXCEPT ![r] = list]
        /\ worker' = [worker EXCEPT !.at = "commit", !.target = Resolve(list, worker.job.file)]
  /\ UNCHANGED <<store, batch, requests, jobs, turns, missed, counts>>

\* Under the row's lock: a result for a content that was replaced is dropped.
Current == rows[worker.job.file] = worker.read
CommitFile ==
  /\ On("commit") /\ worker' = To("complete")
  /\ IF Current THEN /\ Sound(worker.target)
                     /\ derived' = [derived EXCEPT ![worker.job.file] = [of |-> worker.read.content, target |-> worker.target]]
                     /\ missed' = [missed EXCEPT !.files = @ \ {worker.job.file}, !.overtaken = @ \ {worker.job.file}]
                ELSE UNCHANGED <<derived, missed>>
  /\ UNCHANGED <<rows, batch, memory, jobs, turns, counts>>

JobOver == [worker EXCEPT !.at = "claim", !.job = NoJob, !.place = 0, !.read = NoRow, !.target = 0]
Complete ==
  /\ On("complete") /\ worker' = JobOver
  /\ finished' = finished \cup {[key |-> worker.job.key, how |-> "done"]}
  /\ UNCHANGED <<store, batch, memory, queue, turns, missed, counts>>

\* failJob: a backoff, or the end after the last attempt.
JobFails ==
  /\ worker.at \in {"read", "resolve", "commit", "complete"} /\ worker' = JobOver
  /\ \/ Fail
     \/ On("commit") /\ Current /\ ~Sound(worker.target) /\ UNCHANGED failures
  /\ IF worker.job.tries >= MaxAttempts
     THEN finished' = finished \cup {[key |-> worker.job.key, how |-> "error"]} /\ UNCHANGED queue
     ELSE queue' = Back /\ UNCHANGED finished
  /\ UNCHANGED <<store, batch, memory, turns, missed, nextId, writes>>

\* A backoff or a dead process's lease runs out.
LeaseOver ==
  /\ \E i \in DOMAIN queue : ~queue[i].ready /\ queue' = [queue EXCEPT ![i].ready = TRUE]
  /\ UNCHANGED <<store, batch, memory, finished, worker, turns, missed, counts>>
-----------------------------------------------------------------------------
(* The process ends, and the next one boots *)

\* scheduleMissingExtractions: files not derived from their content that have no job, and failed ones.
Missing == {f \in Files : rows[f] # NoRow /\ ((derived[f].of # rows[f].content /\ ~JobExists(Key(f))) \/ Ended(Key(f), "error"))}

Die ==
  /\ Fail /\ ~On("down") /\ worker' = [Resting EXCEPT !.at = "down"]
  /\ queue' = IF worker.job = NoJob THEN queue ELSE Back
  /\ batch' = [r \in Repos |-> NoBatch] /\ requests' = [r \in Repos |-> {}] /\ siblings' = [r \in Repos |-> NoList]
  /\ served' = [r \in Repos |-> {}]
  /\ missed' = [missed EXCEPT !.files = @ \cup Unsaid(Repos).files,
                              !.paths = @ \cup Unsaid(Repos).paths \cup worker.paths \cup UNION {requests[r] : r \in Repos}]
  /\ waited' = [r \in Repos |-> 0]
  /\ UNCHANGED <<store, finished, nextId, writes>>

\* The catch-up, and backfillUnresolvedImports for the imports that have no target.
Boot ==
  /\ On("down") /\ worker' = Resting
  /\ Enqueued(Missing, "error", CatchUp)
  /\ derived' = [f \in Files |-> IF derived[f].of # 0 /\ derived[f].target = 0
                                 THEN [derived[f] EXCEPT !.target = Resolve(ListOf(RepoOf[f]), f)] ELSE derived[f]]
  /\ missed' = [missed EXCEPT !.files = @ \ New(Missing, "error")]
  /\ UNCHANGED <<rows, batch, memory, turns, counts>>
-----------------------------------------------------------------------------
Work ==
  \/ Drain \/ (\E r \in Repos : TakeRequest(r) \/ Turn(r)) \/ Reresolve \/ ReresolveFails \/ NoRequests \/ DrainEnds
  \/ ClaimJob \/ TurnEnds \/ ReadFile \/ ResolveImports \/ CommitFile \/ Complete \/ JobFails

ExtractionNext ==
  \/ ~On("down") /\ (\E f \in Files : WriteContent(f) \/ DeleteFile(f))
  \/ ~On("down") /\ (\E r \in Repos : RequestPaths(r) \/ EnqueueBatch(r) \/ SyncStops(r))
  \/ Work \/ LeaseOver \/ Die \/ Boot

ExtractionSpec == ExtractionInit /\ [][ExtractionNext]_extractionVars
-----------------------------------------------------------------------------
(* Properties *)

AllContents == UNION {Contents[f] : f \in Files}
Keys == (1 .. nextId) \X AllContents
\* "A large repository's backlog therefore delays another repository's files by at most one turn".
OneTurnAtMost == \A r \in Repos : waited[r] <= TurnFiles * (Cardinality(Repos) - 1)

\* What is stored, the queue without a job twice, and no repository past its turn.
ExtractionTypeOK ==
  /\ rows \in [Files -> [id : 0 .. nextId, content : {0} \cup AllContents]]
  /\ derived \in [Files -> [of : {0} \cup AllContents, target : 0 .. nextId]]
  /\ \A f \in Files : derived[f].target # 0 => Exists(derived[f].target)
  /\ \A i, j \in DOMAIN queue : queue[i].key = queue[j].key => i = j
  /\ \A i \in DOMAIN queue : queue[i].tries <= MaxAttempts
  /\ finished \subseteq [key : Keys, how : {"done", "error", "expired"}]
  /\ OneTurnAtMost

GaveUp(f) == \E c \in Contents[f], how \in {"error", "expired"} : Ended(<<rows[f].id, c>>, how)
Quiet == worker.at = "idle" /\ queue = <<>> /\ (\A r \in Repos : batch[r] = NoBatch /\ requests[r] = {})

\* With nothing left to do, a file's rows are of its content; its job gave up, its sync stopped early, or its content
\* came back while the job of it was under way with another.
Derived(f) == rows[f] = NoRow \/ derived[f].of = rows[f].content \/ GaveUp(f) \/ f \in missed.files
DerivedIsCurrent == Quiet => \A f \in Files : Derived(f) \/ f \in missed.overtaken

\* "A result for content a push replaced meanwhile is dropped: that push enqueued the job of the new content"
\* (processFile): whenever pushes come, with nothing left to do a file's rows are of its content.
PushEnqueued == Quiet => \A f \in Files : Derived(f)

\* With nothing left to do, an import names the file it should of those there are, whatever list the worker had
\* cached when it resolved it, unless a request about one of its paths was lost with its process.
ImportsAreCurrent ==
  Quiet => \A f \in Files :
    derived[f].of # 0 /\ Tries(f) \cap missed.paths = {} => derived[f].target = Resolve(ListOf(RepoOf[f]), f)

\* Both: with nothing left to do, the derived rows of a file are of its content and lead where it says.
RowsAreCurrent == DerivedIsCurrent /\ ImportsAreCurrent
=============================================================================
