# Verification of the Elara note store

TLA+ models of the server in `src/server/src` and of the editor's document in `src/client/src`, model-checked with
TLC, and theorems about them checked with TLAPS.  Every module is translated from the source; `PROJECT.json` maps each
definition to its lines, lists every run, what each property's mutant changes, the hazards and the findings.

## 1. The system

Elara keeps shared vaults of Markdown notes in PostgreSQL.  People type in a web editor (Yjs over a Hocuspocus
relay), agents write through REST and MCP, and everything derived (files on disk, links, embeddings, code
extraction, graph edges) is produced afterwards by background workers.

| Part (source) | State it keeps | Operations | Interacts with |
| --- | --- | --- | --- |
| Note CRDT log (`sync/note-crdt.ts`) | `note_updates` rows, `note_crdt` (snapshot, `snapshot_through`, `folded_through`, `folded_seq`, `fold_error`), a cache of stored states per open document | append, materialise, compact, mark folded, list notes that need a fold | called by the store and the relay; shares the database |
| Note store (`notes/store.ts`, `store-tx.ts`) | `notes`, revisions, links, projection targets, durable jobs raised by a write | create, update, move, trash, restore, purge, fold, rebase, purge a revision, boot fold | key lock, maintenance lock, CRDT log, live documents, jobs |
| Relay (`sync/collab-server.ts`, `collab-append.ts`, `live-docs.ts`) | open documents, queued appends, refused stores, quarantine notices | load, before-sync append, after-message check, debounced store, unload | store, CRDT log; editors over WebSocket |
| Relay access (`sync/tickets.ts`, `permission-events.ts`, `agent-presence.ts`, `viewers.ts`) | one-use tickets, presence, kicks | issue, redeem, revoke | relay, permissions |
| Merging (`sync/three-way-merge.ts`, `text-diff.ts`, `crdt-write.ts`, `edit-ops.ts`) | none | pure text operators | store, MCP |
| Key lock and maintenance lock (`notes/key-lock.ts`, `maintenance-lock.ts`) | a FIFO per key; a shared or exclusive advisory lock of the database | acquire, drop, reacquire, release | every store transaction, operator commands |
| Durable jobs (`jobs/durable.ts`) | `jobs` rows: attempts, lease, done, error; one drainer per kind | enqueue (with rerun modes), claim, complete, fail, fail crashed, prune | embedding, extraction, edges, compaction, link catch-up, projector |
| Projector (`notes/projector.ts`, `atomic-write.ts`) | `note_projections`, `projected_files`, the vault's files | claim, write, conflict copy, remove, verify, sweep | store, jobs, disk |
| Search (`search/*`) | `blocks` with vectors, `embedder_id`, `chunk_version` | embed a note at its seq, refresh edges, query | jobs, store |
| Repositories (`repositories/*`) | repository files, symbols, imports, edges, mirrors | sync, extract, resolve, query | jobs, git |
| Revision compaction, staleness (`notes/revision-compaction.ts`, `staleness.ts`) | delta chains, stale flags | compact, expand | jobs, store |
| Authentication (`auth/*`) | sessions, lockout windows, MFA, e-mail tokens | log in, renew, revoke | routes |
| Vaults, teams, permissions (`vaults/*`) | memberships, grants | check, grant | every route |
| MCP server (`mcp/*`) | what each agent session has read | tools over the store | store, relay |
| Export, backup, restore (`export/*`) | archives | back up, restore | store, S3 |
| Lifecycle (`lifecycle.ts`) | a marker file | boot, shutdown | monitoring |
| Editor document (`src/client/src/hooks/useCollabDoc.ts`, `lib/collabStash.ts`) | a tab's Y.Doc and flags; copies of unsaved text in IndexedDB, one Web Lock each | type, back up, restore, merge or offer a copy, release it, start over after a rebase | relay; the other tabs of the browser |
| The rest of the web client, lab, benchmarks, CI scripts | - | - | the API |

What is hard here: the typed update is promised ("append before ack") without the note's lock, while folds,
writes, loads and compactions run one at a time under it and work on a copy of the log read earlier; a
transaction's input (a clone of the open document) is taken before its own reads; every process may die between
any two of these steps, and boot has only the rows to find what was promised; leases expire under workers that
are still running; several servers share the database.

What makes each part correct:

* **CRDT log and relay** - acked text is never lost; nothing the editors see is unstored; the fold boundary never
  passes a row the text lacks; no live row falls under the snapshot; a text the store refuses never reaches the
  row; text written behind the store survives, or leaves the row for a revision where somebody changed the same place;
  unfolded text is always visible to boot; acked typing reaches the row.
* **Note store** - a call takes effect at one moment or not at all; the links of other notes follow a renamed note;
  a path belongs to one live note.
* **Revisions** - each keeps its exact text whatever compaction, purges and imports do to the chain it is stored in.
* **Merging** - both sides of a merge are in the result or the merge is refused; typing is never lost to a rebase; an
  append that is sent again is not added twice.
* **Editor** - what the browser stored is on the relay or still stored, nothing reaches the relay twice, and "synced"
  is said only when the relay has everything.
* **Key lock / maintenance lock** - mutual exclusion per key, no deadlock on several keys; no write of a server
  while an operator command holds the lock exclusively, also across a lost connection.
* **Durable jobs** - no job is lost; at most `MAX_JOB_ATTEMPTS` claims per enqueue; every job ends done or failed;
  a finished result is not taken back.
* **Projector** - a file nobody projected is never overwritten or deleted; rows and files converge.
* **Repositories** - the recorded commit is what the files are; the change history answers for every version; derived
  rows are of the files' present contents; no repository starves another.
* **Search** - blocks are those of the note's current `seq`, or a job for it is pending or failed.
* **Authentication, tickets** - a ticket is redeemed once; an expired or revoked session is not revived.

## 2. Plan

Done, one section each below:

| Section | Modules | Subject |
| --- | --- | --- |
| 3 | `NoteCrdt`, `NoteCrdtProofs` | the log, the fold and the relay of one note |
| 4 | `DurableJobs`, `DurableJobsProofs` | the job rows, their workers and expiring leases |
| 5 | `MaintenanceLock`, `MaintenanceLockProofs` | the advisory lock against operator commands |
| 6 | `Projector`, `ProjectorProofs` | note rows to files |
| 7 | `NoteStore` refining `NoteDirectory`, `NoteStoreProofs` | calls on several notes under the key locks, renames and the links they rewrite |
| 8 | `RepositorySync`, `RepositoriesProofs` | the sync of a repository and its change history |
| 9 | `Extraction`, `RepositoriesProofs` | the rows derived from repository files, with the fair turns of repositories |
| 10 | `TextDiff`, `TextMerge` | the diff and the three-way merge, as functions checked over bounded inputs |
| 11 | `RevisionHistory`, `RevisionHistoryProofs` | revisions stored as deltas: compaction, purges, imports |
| 12 | `CollabTabs`, `CollabTabsProofs` | the editor's document and the browser's copies of it |

A module whose instance needs model values, concrete inputs or sets has an `MC` module of its name beside it.

Left, in this order:

1. An abstract specification of the collaborative text (promised edits that only grow, a row that catches up) refined
   by `NoteCrdt`; a composition of `NoteCrdt` with `CollabTabs`, which now takes the relay as one text.
2. The embedding queue with the semantic edges (the queue's loop is the one of `DurableJobs`), code edges, the
   projector's directory indexes.
3. Sessions, lockout windows and one-use tickets; what an MCP session has read; the lifecycle marker; the order of a
   backup and a restore.
4. Edit operators of agents and the merge of properties, as operators over bounded inputs.

## 3. `NoteCrdt`: one note's collaborative text

**Abstraction.** A text is the set of edits it shows; a Yjs update is a set of edits and applying it is union (Yjs
updates commute and are idempotent).  Deletion of text is not represented: an edit stands for whatever an update
changes.  Where a change behind the store and another edit meet at one place of the text, the constant `Overlaps` has
the pair: the rebase can keep only one of them.  A refused text is one that holds a `Bad` edit and no `Cure`; an update
that decodes but does not apply is `Broken`.  Row ids, boundaries (`snapshotThrough`, `foldedThrough`) and `seq` are
the integers of the code.

| Code | Model |
| --- | --- |
| `notes` + `note_crdt` rows | `db` (row text, seq, snapshot, boundaries, `base` = the text of the revision at `folded_seq`, fold error); ghosts `made`, the changes behind the store, and `unmerged`, those a rebase without a base dropped |
| `note_revisions`, by `seq` | `db.revised` |
| `rebaseLocked` (`notes/store.ts:476-499`) | `Gained` (what the three-way merge brings into the document), `Rebased` (the row kept as a revision first), `ComputeRebase`, the first half of `ComputeFold` |
| boot's `reconcileStore` | `Reconcile` |
| `note_updates`, its sequence | `log`, `nextId` |
| Hocuspocus document, `storedStates`, debounce | `loaded`, `live`, `cached`, `dirty`, `refusedStore`, `unloaded` |
| a message between its arrival and the ack | `msg[u]`: queued, drawn (id taken under the append gate), logged; `orphans` are queued appends whose document was unloaded |
| one store transaction under the key lock | `tx`, in phases `begun` (lock held, document cloned) -> `read` (log read once) -> `computed` (writes made) -> `committed` -> pushed, cached, acked |
| `foldPendingCollab` at boot | `up = FALSE`, `StartBoot`, `Boot` |

Each transaction is `Start*`, `ReadTail`, one `Compute*`, `Commit`, `Finish` (or `FinishLoad`), so appends, applies,
acks, unloads and crashes interleave with it at every point where the code awaits.  `Abort` is a lock timeout, a lost
connection or maintenance mode; `Crash` loses everything but the rows.  `ChangeOutside` is manual SQL or an older
release changing the row; it waits while a transaction has read the row, which the code locks (`FOR UPDATE`).

**The rebase.**  Its base is the revision at `folded_seq`.  Where the change behind the store and the document changed
one place, the document's text stays in the row; without a base the document's text stays everywhere.  Either way the
row as it was is kept as a revision first, which is where that text can be found.  So `RowKeepsText` lets a change
behind the store leave the row in these two cases only, and only if the row that showed it has its revision; nothing
else ever leaves it.  A base is missing when the revision at `folded_seq` was never written (`Init`) or was purged
while it was neither the row's own nor a base (`PurgeRevision`, one step here; the gap between its check and its lock
is in section 11).

The ghost `staleRead` turns true when a transaction takes a clone older than the cached state it was compared with:
finding 1 below.  Properties about kept text say what holds until then, so they check everything else at full strength
instead of stopping at the known defect; `SigkillLosesNothing`, which has no such premise, is the run that shows it.

### Runs

| Run | Instance | Question |
| --- | --- | --- |
| `note_outside` | 2 typed edits (1 bad), 1 curing write, 1 outside change that overlaps the other typed edit, base with and without a revision, no faults | Does any interleaving of typing, stores, writes, reads, loads and unloads lose acked or shown text, move the fold boundary past an unseen row, or let a refused text reach the row?  Does the rebase keep both sides where they do not overlap, and a revision of what it drops? |
| `note_live` | 2 typed edits (1 broken), a crash, an abort or a purge, `FairSpec` | Do rejection and compaction keep every promised row, and does acked typing reach the row? |
| `note_sigkill` | 2 typed edits, 1 crash | Violated: finding 1. |

By hand: `NoteCrdtPurge.cfg` (1 typed edit, 1 crash, 1 purge) is violated: finding 2.  A crash, an abort and a purge
all in one behaviour are in the theorem `AckedStaysStored` below.

Two typed edits are what every race here needs (one below a boundary, one above it), one write or outside change
makes a third party, and one crash at every point covers each crash state, as recovery keeps nothing but the rows.
Larger instances repeat the same relations between ids.  Typed edits that no constant distinguishes are symmetric.

**Fairness** (`note_live`).  The relay's own steps for a message and each step of a running transaction are weakly
fair: they are continuations of promises that nothing cancels.  `StartStore`, `StartKeep`, `StartUnload` are strongly
fair: they wait in the FIFO of the key lock (`notes/key-lock.ts`), so others may take the lock first, but not for ever.
Nobody is obliged to type, open or close a tab, or write.  `AckedReachesRow` names what the code does not promise: a
store that fails with the tab left open is not retried until the next edit, and the log still asks for it at boot
(`LeftForLater`); after a purge the row may have been forgotten (`Forgotten`, finding 2); a stale clone is finding 1.

### Findings

1.  `writeNote` clones the open document before its transaction, and compares the *current* cached stored state with
   the database inside it.  An update logged and applied in between advances that state, so the older clone is taken
   for the stored text with a last id past a row it lacks; the row is then compacted away, and a crash loses text
   whose author was told it is saved.  `docs/agents/backend-reference.md` promises otherwise.
2.  (`NoteCrdtPurge.cfg`) `purge_revision` compacts a tail that no fold has seen, although the comment at
   `notes/store.ts:2089` says why this must not be done: after a crash boot sees nothing to fold, and the row lacks
   acked text until the note is opened.

### Proofs (`NoteCrdtProofs`)

For every set of edits, every bound on crashes, aborts and purges, TLAPS checks:

* `Invariance`: `Spec => []IInv`, and from it `TypeCorrect` (`TypeOK`), `GateKeepsTail` (`LogPastSnapshot`),
  `AckedStaysStored` (`PromiseKept`, which is `AckedKept` and `LogPastSnapshot`) and `OpenStaysStored` (`OpenIsStored`).

None of these is inductive alone.  `IInv` adds
`IdsInv` (ids are drawn once and in order; an id drawn and not committed lies past the snapshot and past the last id
of any transaction that has read the log - this is what the append gate buys), `TxInv` (a transaction's boundary,
rejects and new rows relative to the log), `BrokenInv` (no text ever holds an update that does not apply, so a
rejected row was never part of a text) and `KeptInv` (what is acked, shown, cloned, logged or in a transaction's hands
is stored; a transaction that has read the log holds everything below its boundary).  `IInv` was first checked with TLC
as an invariant of the runs.  The proof has one lemma per group of actions: the steps that store nothing reduce to
`QuietStep`, those that only add to the stored text to `KeptMono`, and the four that rewrite rows or boundaries
(`LogStep`, `ReadStep`, `CommitStep`, `PurgeStep`) are proved field by field.  The assumptions are
`EditsAssumption` (the kinds of edits are disjoint) and `BoundsAssumption` of `NoteCrdt`; nothing assumes a finite set.

From a second invariant that rests on the first, `RowInvariance`: `Spec => []RowInv`, follow `RowStaysAccepted`
(`RowAccepted`), `FoldBoundaryHolds` (`FoldBoundary`) and the action property `RowNeverLoses` (`RowKeepsText`).
`RowInv` says what keeps `folded_through` honest: it lies under the next id and under an id that is drawn and not yet
committed; without a change behind the store the base is the row (`Based`), and the base, but for what `RowKeepsText`
lets go, is stored and is in the document of a transaction that has read the log (`Accounts`) - so is the row in the
document with what the rebase takes of the row's gain; and a computed transaction (`NextInv`) writes a row that keeps
the old one and shows every readable row through the boundary it sets, which is the old boundary or the last id it
read, while its own rows lie past both.  `RowKeptStep` covers every step that leaves the row alone, `RowComputed` every
computation (`FoldMore` says what a fold may return), `RowCommit` the commit and `RowOutside` a change behind the
store, where `EditsAssumption` says that such a change is no `Bad` text.

Only model-checked: the liveness property `AckedReachesRow`, out of the prover's reach.

### Not modelled

Trash, purge and move of the note while it is open; the size cap and growth guard (both are a `Refused` text); tickets
and permission kicks; wording of quarantine notices; the refusal of a client that lacks a rebase (`missedRebase`),
which is in `CollabTabs`; deletions behind the store, and two changes behind it at one place, which are one; the
adoption by `revisionAtSeq` of an older release's revision without `seq` (section 11 has it); several notes at once
(they share only the id sequence and the append gate).

## 4. `DurableJobs`: the job rows of one kind

**Abstraction.** A key is one idempotency key (an item at one version); `jobs[k]` is its row, `lease` is no lease, one
in the future or one that has passed, and the clock (`Expire`) moves the second to the third at any time, also under
running work.  The work of a job is done or throws; what it does is its owner's.

| Code | Model |
| --- | --- |
| `jobs` table, its sequence | `jobs`, `nextId` |
| `jobDrainer` (`wanted`, `running`) | `wanted`, `worker[w].at` (`idle` = not running) |
| `onJobConflict` and its `rerun` modes | `RunsAgain`, `Enqueue`; the modes of a kind's callers are the constant `Reruns` |
| `failCrashedJobs`, `claimJob`, `completeJob`, `failJob`, `pruneFinishedJobs` | `Clean`, `Claim` / `NothingToClaim`, `Complete`, `Fail`, `Prune` |
| `kick`, `startJobPolling` | `Kick` |
| a failing statement, a dead process | `Outage`, `Die` |

`Cleans` is FALSE for the projector's store jobs, whose drain has no `failCrashedJobs`.  The drain loop itself is that of
`search/embedding-queue.ts`; the other kinds' loops have the same statements in the same order.

### Runs

| Run | Instance | Question |
| --- | --- | --- |
| `jobs` | 1 key, 2 processes, 2 claims, every rerun mode, 3 enqueues, 1 outage, 2 deaths, `FairSpec` | Whatever a worker that outlived its lease records: are claims bounded, is a done job one whose work a run of this enqueue did, does a job fail only after its last claim, is none stranded, and does every job end? |

Two claims are the least with a first, a last and a "one too many"; two deaths let a job of two claims die in each; the
second enqueue races the running work and the third its late result.  Jobs of different keys meet only in the order of
claims: `DurableJobsTwo.cfg` (2 keys, 2 workers) and `DurableJobsLive.cfg` (2 keys, 1 worker, with `SucceededStays`) are
the same questions with an order, by hand.  `SucceededStays` is claimed for one process: with a second one a late
`failJob` reopens a job another worker completed, which section 9 of `docs/agents/backend-reference.md` names as a known
limitation.

**Fairness.**  The poll kicks every drainer again and again (`setInterval`), a running drain goes on, and the clock
passes every lease.  Nothing else is fair; deaths and outages are bounded.

### Finding

3.  (`DurableJobsProjector.cfg`, by hand, violated) The projector claims its store jobs without ever calling
   `failCrashedJobs` for them: a job whose runs kill the process as often as it may be claimed stays pending for ever,
   unclaimed and unreported, although `jobs/durable.ts:20-23` and the backend reference say it stops as failed.

### Proofs (`DurableJobsProofs`)

For every set of keys and processes and every `MaxAttempts`: `ClaimsBounded` (`TypeOK`), `DoneWasRun` (`DoneIsFresh`)
and `FailedInOrder` (`FailedInTurn`, which is `FailedAfterLastClaim` and `NeverStranded`), from `JobsInvariance`. 
`JInv` adds `ClaimsInv` (ids of rows and of claims are below the sequence, rows have different ids, and a worker
counts no more claims than the row it holds) and `WorkInv` (a worker about to record success did the work of the row
that has its id).  Without the first, a late failure of an old claim could look like the last one of a row run again. 
`SucceededStays` and the liveness property are model-checked only.

## 5. `MaintenanceLock`: servers, exporters and the store transactions between them

**Abstraction.** The lock is the set of Postgres sessions that hold it, each a process's numbered connection, plus the
processes whose store transaction holds the shared form (`xact`).  A process has its own view of its connections
(`held`), and either side may lose one first: `SessionDies` is Postgres losing it, `Close` the process losing it,
`Reap` Postgres noticing that a process is gone.  A closed connection may be reported any number of times, late, by
`onclose` or by a failed heartbeat (`closed`, `Dropped`).

| Code | Model |
| --- | --- |
| `released`, `epoch`, `client`, `paused`, the exporter's `lost` | `proc[p]` (`exclusiveOwner` is "exporter, up, not lost") |
| `acquire`, the first and each of `reacquire` | `Start` / `Wake` (asking), `Answer` (Postgres), `Acquired` / `Refused` / `AttemptFails` |
| a running `reacquire` loop | a slot of `tasks[p]`; two slots, so a second loop would be seen |
| `dropped`, `release` | `Dropped`, `Release` in `Finish` and `FinishExport` |
| `storeTransaction` | `Begin` (`writesPaused()`), `Guard` (the check inside the transaction), `Commit` / `RollBack` |
| `exportLegacyFiles` from the lock to the report | an exporter's phases `starting`, `up`, `released`, and `result` |

The ghost `disturbed` holds the exporters during whose export a server committed a write.  The report's check of `lost`
asks a flag of the process, so an export whose connection died less than a heartbeat before its end may report success
without its lock: the ghost result `blind` keeps this case apart, and `ExportUndisturbed` says nothing of it.  It is the
limit of a check made at the client; no text of the repository promises more.

### Runs

| Run | Instance | Question |
| --- | --- | --- |
| `lock` | 1 server, 1 exporter, 3 starts, 2 lost connections, `FairSpec` | Had an export that reports success the instance for itself?  Is there ever a second re-acquire loop?  Does every pause end, and does a released process leave no session (`Recovers`)? |

Three starts are both sides once and a restart; two lost connections let one be lost on each side, or one twice, or a
re-acquire fail after a loss.  Two servers differ from one only in who commits, and the theorem below holds for any
number.  Deadlock is not checked: with bounded starts every process may have ended, which is no fault.

**Fairness** (`lock`).  The loop's timer fires, Postgres answers an attempt, the awaiting code goes on with the
answer, and Postgres notices a session whose client is gone (TCP keep-alive).  No process is obliged to start, write,
finish or notice a lost connection.

### Proofs (`MaintenanceLockProofs`)

For any number of servers and exporters, starts and lost connections: `LockTypes` (`TypeOK`), `ExporterAlone`
(`Exclusion`) and `ExportHadInstance` (`ExportUndisturbed`), from `LockInvariance`.  `ExportUndisturbed` looks only at
results; `MInv` adds why it is so: an exporter's session is alone in Postgres (`Exclusion`), a server's transaction that
writes holds the shared form itself (`WritersLocked`), so it cannot commit while that session lives; an exporter asks for
the lock once and never again (`ExporterAsksOnce`), so a session that is there at the end was there all the time
(`ExportInv`).  The connection's number is positive (`ConnectionsNumbered`), so that `client = 0` is no session.

`OneLoopOnly` proves `OneLoop`, from `LoopOK`: what a process holds is its newest connection, with no loop running; and a
loop runs only once the end of the newest one has been reported, so every report that comes during it is of an older
connection and `dropped` starts nothing.  The liveness properties are model-checked only.

## 6. `Projector`: note rows to their files

**Abstraction.** A note is where it lives and two numbers, its `seq` and the `seq` of its last change of text; a
rendering is named by the note and that number.  A location is a path of a live note or a note's trash file.  `disk`
gives the bytes of a location: nothing, a rendering, a rendering somebody formatted by hand (it still parses to the same
content), a text of a person (`Foreign`), or what a power loss cut short.  The hash of `projected_files` is the bytes
themselves.  `rows` together with `applied` stands for `note_projections`, whose `target_seq` is the row's `seq`.

| Code | Model |
| --- | --- |
| `createNote`, `applyRowChange`, `moveNote`, `softDeleteNote`, `restoreNote`, `purgeNote`, each a transaction that raises the target | `Create`, `Write`, `Move`, `SoftDelete`, `Restore`, `Purge` |
| `claimProjections`, `drainOnce`, the batch taken one by one | `Claim`, `ReadNote`, `RoundEnds`; the rest of the batch is `worker[w].claims` |
| `projectFile` before the locks | `ReadNote` (where the note is, what else it owns) |
| each `releaseOwned` under its path's lock | `Check` (lock, live owner), `Remove` (copy, unlink), `Unrecord` (commit) |
| `projectFile` under the lock of the note's path | `Reread`, `WriteFile` (`writeOwned` to the rename), `Record` (`recordProjected`, `markApplied`, commit) |
| `removeFiles`, `runJob` | `ClaimRemoval`, the same `Check` / `Remove` / `Unrecord`, `RemovalDone` |
| `failProjection`, `failJob`, a path lock another process holds | `Fail`; the backoff is the lease that `LeaseEnds` ends |
| `withPathLock` | `LockFree`: held from `Check` and `Reread` to the end of the path's transaction |
| `bootStore` with `verifyAllProjections` | `Boot`, after `PowerLoss`, which may cut one file or lose one copy |
| `sweepOrphanFiles` | `Sweep`, atomic because it decides and renames under the path's lock |
| people and git | `EditFile`, `Reformat`, at any moment, also while the server is down |

The ghosts `made`, `lost` and `touched` say which texts people wrote, which of them were overwritten by people or taken by
a power loss (nothing is synced), and where somebody wrote since the projector last did.

### Runs

| Run | Instance | Question |
| --- | --- | --- |
| `projector` | 1 process, 2 notes, 2 paths, 1 edit, 3 changes of notes, 1 failure, 1 power loss, symmetric in notes and paths | Does a projection that counts as applied have its text in its file?  Is a person's text ever lost? |

Two notes and two paths are what a path that changes hands needs; three changes make a note leave a path and come back,
or be purged.  A lease may end at any moment, so also under running work.

By hand, `ProjectorPurged.cfg` (5 changes, no faults) is violated: a purge's removal skips a path where another note
lives and is then complete, and if that note leaves the path before it was projected there, the purged text stays on
disk, recorded as the purged note's own, so the orphan sweep passes it by as well.  `ProjectorTwo.cfg` (2 processes, 3
changes, no faults) is violated: a process that read a note at its new path releases the old one after the note has
come back to it and another process has projected it there.  One process repairs this by itself (its `Reread` finds
that the note moved, and the note stays pending), which is why `Mirror` is claimed for one.

### Proofs (`ProjectorProofs`)

For any number of notes, paths, processes, failures and power losses: `ProjectorTypes` (`TypeOK`, with one live note per
path and no projection ahead of its note) and `EditsAreKept` (`EditsKept`).  `TInv` adds to the types what the work in
flight is about: a process works on a note and a location, what it is about to write is a `seq` its note has had
(`WorkersOK`), and a recorded hash is one of a rendering (`FilesOK`).  So bytes that equal a recorded hash are no
person's text, which is all `EditsAreKept` needs when a file is replaced or removed without a copy; the one removal that
looks at no hash, a purged note's unrecorded trash file, needs `TrashUntouched`.  The assumption `NamesAssumption` says
that notes, texts and the names of the model are different things.

`OneProcessMirrors` proves `Mirror` for one process (with two it is false, see above).  `MInv` says what the work in
flight knows (`WorkKnows`): the paths it will release are not the home of the note whose applied number is the current
one; a path it found without a live owner is no settled note's home; and while it holds a path to write, the note is
still there if its number is still the one that was read.  Each of these lasts because a change raises the note's number,
so the note is pending until this same process records it.

### Not modelled

Directory indexes and vault purge (`vaultLive`); the rename refactor job is in `NoteStore`.  `writeOwned` and
`releaseOwned` read a file, compare, and then rename or unlink: an edit that lands between the two is lost and the
model has no such step, since `WriteFile` and `Remove` are atomic towards people.  Nobody writes in `.trash`, where a
removal job unlinks a file without a record uncopied (`notes/projector.ts:541`).  A removal job gives up after its
last attempt; `DurableJobs` has that part.

## 7. `NoteStore` and `NoteDirectory`: calls on several notes

`NoteDirectory` says what the store promises its callers: each call takes effect at one moment, on the vault as it is
then, or not at all; a refusal (`missing`, `exists`) was right at some moment of the call; `busy` may be answered when
nothing was written, and also by a rename that has been applied and then could not rewrite a referrer
(`NoteStoreBusy.cfg` below); and after a rename the links to the note are rewritten step by step.  `NoteStore` is how
it is done: keys, reads, one transaction with its own re-read, and a job for what a rename leaves to do.

| Code | Model |
| --- | --- |
| `withKeyLock`, `withKeyLocks` (`notes/key-lock.ts`) | `queue[s][p]`: the holder, then those that wait, per process and path; `SecondKey` asks for the next of the sorted keys |
| a call's first reads (path to note, `seq`) | `Seek`, `Read` |
| one `storeTransaction` with its re-read under `FOR UPDATE` | `Create`, `Edit`, `Move`, `SoftDelete`, `Restore`, `Purge`; a row that changed sends the caller back, `WriteRounds` times, then `busy` |
| `renameNote` after the move: referrers, each rewritten by its own write | `Find`, `Look`, `Edit` (op `relink`), `Settle`, up to `RelinkRounds` rounds |
| `store_rename_refactor` job: lease, resume by any process | `jobs`, `LeaseEnds`, `Resume`, `Complete` |
| a failed transaction, a dead process | `Busy`, `Crash`; a rename in a dead process is its job's |

A link is the path it names and, as a ghost, the note it means; `homes` are the paths a note has had.  The refinement
maps `rows` to the vault (`Vault`), the renames that rewrite links to `applied` (`Applied`), and an answer or a commit to
the moment a call takes effect.  The constants are any calls whose fields have their types; a rename goes to another path
(`CallsAssumption`), the notes at the start have one path each (`StartAssumption`), and a link that is known to mean a
note names its path then (`LinksAssumption`).

A link keeps its meaning only while somebody has to make it follow.  The code gives some up, and the model forgets there
what they meant: a link written while its note is being renamed and the referrers were looked for already (`Meaning`,
`Unsure`), a referrer that was in the trash at the move (`Move`) or when its turn came, one whose rounds are used up
(`Look`), one that would grow past the cap (`TooLarge`), and a link that a run wrote and did not come to settle, because
it failed, gave up or died: a job taken up again looks for the first old path only (`Unsettled`).  The ghost `own` of a
task says that the link it looks for is one of those it wrote itself.

### Runs

| Run | Instance | Question |
| --- | --- | --- |
| `store` | 2 live notes, one linked to the other, and 1 not yet created, 3 paths, 2 callers, 2 processes, 3 calls, 1 fault | Does the store implement `NoteDirectory` (`Linearizable`)?  Do sorted keys exclude a cycle of waits (`NoWaitCycle`)?  When all is done, do the links of other notes lead to the renamed note (`LinksFollow`)? |

Two callers and two keys each are the least that could wait in a cycle; three notes and paths let a rename meet a rename
of the referrer and a third note that takes the old path; the third call comes after one of them ended.  `LinksFollow`
says nothing once two processes write, because the key lock that orders a rename's settling is in one process
(`notes/key-lock.ts:9`, "in-process only").  Identities of notes, callers and processes are symmetric.

By hand, both violated:

* `NoteStoreBusy.cfg` (`BusyWroteNothing`): `renameNote` commits the move (`notes/store.ts:1098`) and a
  `StoreBusyError` of a referrer's write passes through to its caller (`:1127`), although `store-tx.ts` says of that
  error that nothing was committed and that the write may be retried.
* `NoteStoreRetarget.cfg` (`NotRetargeted`): a note created at the old path during the rewrite has a link that means it
  re-targeted to the moved note, which the comment at `notes/store.ts:1071` rules out "ever".  The window is a write of
  the referrer between the search and its rewrite.

### Proofs (`NoteStoreProofs`)

For any sets of notes, finite sets of paths, calls, callers and processes, any rounds and any number of failures:

* `TypeCorrect` (`TypeOK`): with the types, one live note at most has a path, and a key's queue names actors of its
  process once.
* `KeysNeverDeadlock` (`NoWaitCycle`).  The queues say it (`QueuesOK`): an actor is in the queue of a path only while the
  path is one of its keys, it is in the second key's only while it is first in the first's, and in a transaction it is
  first in all.  So of any set of waiters take the greatest path one of them waits for: whoever holds it has no greater
  key to wait for, and waits for nobody of the set (`NoCycle`).
* `StoreIsLinearizable` (`Linearizable`): `NoteStore` implements `NoteDirectory`.  Every step is of one of the kinds
  the module names (`StepKinds`): a refusal, an effect, a move, a rewritten link, a call, a death, or nothing a caller
  can see.  `LInv` adds to the types what ties a caller to its call (`AskedOK`), that a read under the key lock still
  stands in its transaction or the refusal has been right since (`StandsOK`), that every refusal that is right has been
  noticed (`CouldOK`), and that a rename's old and new paths are homes of its note (`HomesOK`).

* `LinksAlwaysFollow` (`LinksFollow`).  Its invariant, `Linked`, is about one process (`OneProcess`).  A link that does
  not name its note's path is `Covered`: a run looks for it because it wrote it (`Follows`), or an open job has its note
  among the referrers and no run of that job is past it (`Listed`, `Ahead`); jobs and runs agree on what they are of, and
  an id is used once (`NamesOK`).  A rename makes new links wrong in one step, so the invariant says beforehand that a
  rename between its search and its commit has in its list every live note with a link to move, but for links another
  run is about to settle (`FoundOK`); those are looked at again under the key of the path the rename leaves, which it
  holds until its commit (`KeyKeepsOut`).  This is the step that needs one process.  Every step but a rename carries what
  is pending from the state before it (`StepCarries`, one lemma for each action); a rename has lemmas of its own
  (`Renamed`).

The invariants `IInv`, `LInv` and `LinkedInv` were checked on the instance of `store` before they were proved.

### Not modelled

Renaming a note onto its own path, refusals of malformed paths and texts, several vaults (a path's key holds the vault),
notes created with links.  A resumed job looks for the path it was written with: a link that an interrupted round had
already taken to a path the note has since left is not followed further, and the ghost gives its meaning up (`Left`).

## 8. `RepositorySync`: the index of one repository

| Code | Model |
| --- | --- |
| `repositories` row (`sync_status`, `synced_commit`, `change_seq`, webhook time) | `repo` |
| `repository_files`, `repository_changes`, `repository_versions` | `files`, `changes`, `versions` |
| poll, webhook, manual sync (`repositories/scheduler.ts`, `routes.ts`) | `Poll`, `Webhook`, `Manual`, then each call's steps |
| the remote: its branches and which of them is HEAD | `remote`; `Push`, `SwitchDefault`, `Tip` |
| `syncGitRepository`: claim, ls-remote, unchanged, mirror lock, fetch and re-read of the row, writes file by file, deletes, version, row | `ReadRow`, `Claim`, `LsRemote`, `Unchanged`, `Answered` and `Queue`, `Fetch`, `WriteFile`, `DeleteFiles`, `Record`, `FinishSync` |
| its catch blocks | `SyncFails`, then `NoteError`, `NoteStatus` |
| `changedSince` (`changes.ts`) | `NetSince`, read by `ChangesAreKnown` |
| boot reconcile, death | `RestartSyncs`, `Reconciled` |

A commit is a member of `Commits` and its files `Tree[c]`; the files of three are in `MCRepositories`.
A sync fetches the branch that `ls-remote` named before the wait for the mirror lock (`git-sync.ts:89`, `:119`), whatever
HEAD is by then; where none was named, because `ls-remote` failed or the server did not say, it fetches HEAD (`Fetched`).
The ghost `repo.of` holds, for each branch, the push that was last recorded of it.
The ghost `torn` marks an index whose last sync stopped between its first file and its version.  `MaxVersions` bounds the
versions of the index.  `SyncTypeOK` holds the mirror's lock: the queue names each sync that waits or works once, and only
its first is past the wait.

| Run | Instance | Question |
| --- | --- | --- |
| `repositories` | 2 commits, 2 paths, 2 branches, 2 overlapping calls, 2 moves of the remote, 1 fault, `FairSpec` | Are the files those of the recorded commit (`IndexIsCommit`)?  Does the change history give, for each version, what changed since (`ChangesAreKnown`)?  Does a slow sync take the index back to an older commit of a branch (`NeverOlder`)?  Does polling reach the remote's HEAD at last, through pushes and a switch of the default branch (`CatchesUp`)? |

Two commits add, change and delete a file between them.  Two moves let the remote go and come back, or switch and be
pushed to, while two calls overlap; one fault is each step's failure or the process's death once.  No behaviour reaches
the bound of 8 versions.  With `Commits = {c1, c2, c3}`, where a file is also added and changed within one version, the
same file passes too, in the 4.4 minutes that 2.2 million states take; of the safety properties the theorems below say
it for any number of commits.  **Fairness**: a webhook's time ages, the poll comes round (strong fairness: a poll is
skipped while a sync is on), and a call's own steps go on.  `CatchesUp` names one exception, a row left `syncing` by a
call whose failure could not be recorded (`Abandoned`): polls skip it until the next boot.

`NeverOlder` is per branch, because across branches the code does not promise it.  `RepositoriesSwitched.cfg`
(`StaysCurrent`), by hand, is violated with one switch of the default branch: a sync named the old branch and waited,
another has since indexed the new HEAD, and the first takes the index to the old branch's commit; the row says `idle`, and
a later poll brings it to HEAD again, which `CatchesUp` shows.

By hand, `RepositoriesTorn.cfg` (`SyncedIsCommit`) is violated: a sync from A to B stops between two files, the remote
goes back to A, and the next sync finds nothing changed and leaves the row idle at A with files of B, although
`db/schema.ts:773` and `git-sync.ts:132` say the recorded commit is what the files are.

Read, not run: after a switch to a branch whose commit is already indexed, a sync ends at `ls-remote`
(`git-sync.ts:92`) and leaves `default_branch`, of which deep links are made, at the old name; `scheduler.ts:12-18`
promises that a repository in `error` is polled every tick, which one left `syncing` by a failure that could not be
recorded is not; `git-sync.ts:35` counts one failure per transition, which is not exact when two failures overlap;
pushes of agents and of local folders hold no mirror lock; the stand-down of a local folder's `startSync` does not stop
a pass in flight.

### Proofs (`RepositoriesProofs`, first half)

For any number of commits, paths, branches, syncs, moves, faults and versions:

* `SyncTypeCorrect` (`SyncTypeOK`, with the lock's discipline) and `IndexNeverOlder` (`NeverOlder`), from `HolderOK`:
  what a sync read of the row under the mirror's lock is still so while it writes, and what it fetched of its branch is
  no older than what is recorded of that branch.  It says nothing of one branch against another.
* `CommitIsIndexed` (`IndexIsCommit`): unless the index is torn, of the target's files a writing sync has in place all
  but those in `todo`, and before the record the files are the target's (`CleanOK`).
* `ChangesAnswer` (`ChangesAreKnown`): between any recorded version and the last the changes tell what became of a path
  (`HistoryOK`), and the changes of the version under way lead from the last version's files to those of now (`LeadsOK`).

The fairness of `FairSpec` and `CatchesUp` stay model-checked.

### Not modelled

Refusals of unsafe URLs, deletion of a repository, skip reports, the column `default_branch`, deleted branches (their
fetch fails, as `SyncFails` does), rows of older releases without skipped files, the dropping of old versions.

## 9. `Extraction`: derived rows of repository files

| Code | Model |
| --- | --- |
| `repository_files` with its row ids | `rows` |
| blocks and the import row of a file | `derived` (content and resolved target) |
| a sync: files written, paths requested, files enqueued | `WriteContent`, `DeleteFile`, `RequestPaths`, `EnqueueBatch`, `SyncStops` |
| `reresolutionRequests`, `repoSiblingsCache` | `requests`, `siblings`; lost with the process |
| the drain: requests first, then the lowest priority's repository whose turn is longest ago | `Drain`, `TakeRequest`, `Reresolve`, `Turn`, `Before` |
| `lastTurn`, a repository's time of its last turn | `served`: for each repository, which others had a turn since |
| `extractFile`: read, resolve, re-check of the row in the transaction, complete | `ReadFile`, `ResolveImports`, `CommitFile`, `Complete`, `JobFails` |
| boot's catch-up | `Boot` |

| Run | Instance | Question |
| --- | --- | --- |
| `extraction` | 3 files in 2 repositories, turns of 1, 2 attempts, 3 writes, 1 failure | With nothing left to do, is every file derived from its content, and does every import name the row it should (`RowsAreCurrent`)?  Does a repository wait for at most one turn of the others (`OneTurnAtMost`, in the type invariant)? |

Three files let an import lead to another that comes and goes; its list has a single candidate, so the choice between a
preferred path and the next is not run (the theorems below are for any list); two repositories are what fairness needs;
three writes delete a path and bring it back under a job.  The ghost `missed` holds files that are known to be left
behind until the next boot, and both are documented here rather than hidden:

* `ExtractionReverted.cfg` (`PushEnqueued`, by hand, violated): the job of content A is under way and has read B, the
  content goes back to A, the enqueue finds A's job pending and does nothing, and the job drops or keeps the result of B.
  `extraction-queue.ts:541` says of a result it drops that the push enqueued the job of the new content.
* A sync that fails after writing files never enqueues them; boot does.

### Proofs (`RepositoriesProofs`, second half)

For finitely many files and repositories, any preference lists of imports within a repository, any contents, any length
of turns, attempts, writes and failures: `ExtractionTypeCorrect` (`ExtractionTypeOK`, with the bound `OneTurnAtMost` on
waiting) and `RowsStayCurrent` (`RowsAreCurrent`).  Neither is inductive.  The invariant `EInv` adds, in parts that
each have one lemma over all steps:

* whose an id is (`RowsOK`, `Owned`): ids are given once, so a job, a cached list or a resolved target of an id that is
  gone can only have been of the paths it names; a job's key is of its file's contents (`Sane`), and the job under way
  is in the queue under no other entry (`QueueOK`, `JobOK`).
* turns (`TurnOK`): the files a repository has been passed by, plus those left to the turn under way, are at most a
  turn's length for each repository that had a turn after its own last one.  A turn is given past a waiting repository
  only to one that is not yet among these (`Before`), so `served` grows by one with each turn and never holds the
  repository itself.
* contents (`ContentOK`): a row is derived of its content, or its sync still holds it, or a job of its id is queued, or
  the job under way will read it or has read it as it is, or one of the named reasons holds.  Two more conjuncts are
  what makes it inductive: a row that changed after its job had read it is held or queued again, and one that changed
  back before the job is over is derived or queued.
* imports (`ImportsOK`): a target that is not the one due tries a path somebody asked about: in a sync's batch, in a
  request, with the worker, or lost with a process.  The same is said of the targets the worker carries to its update
  (`WillLead`) and to its commit (`Resolved`), and of each path of a cached list (`Cached`).

### Limits

Not modelled: parsing, references and edges between symbols, the blob cache.

## 10. `TextDiff` and `TextMerge`: the merge of an edit made elsewhere

Pure functions.  A text is a sequence of units: a newline, letters, halves of surrogate pairs.  `TextDiff` is
`sync/text-diff.ts`: Myers' middle snake with a limit and a deadline, the line pass, paired lines, the ends common to
two tokens.  `TextMerge` is `sync/three-way-merge.ts`: the hunks of both sides, their groups, the append rule, the merge
per character or the refusal.  The actions are its callers: `EditFromBase` (refuses), `RebaseRow` (keeps the live text
where both changed it) and `SendAgain` (the same edit after others typed).  The deadline is a number of search rounds,
so "it passes" is a case and not an accident of the clock.

| Run | Instance | Question |
| --- | --- | --- |
| `text_merge` | all one-range edits of bases of up to 4 units against each other, chosen notes of 4 lines, deadlines of 1 and 99 rounds | Do the edits turn the one text into the other and part no pair (`DiffExact`)?  Is each side's new text in the merge (`BothKept`)?  Does a rebase keep all typing (`TypingStays`)?  Is an append sent again added once (`SentAgainOnce`)? |

The limits of the code (samples, units, cells) are constants and small, so the small texts reach both sides of each.

By hand, `TextMergeTwice.cfg` (`NeverTwice`) is violated: an insertion just after a changed line is a group of its own
(`three-way-merge.ts:137`), so an append after a last line that the live text deleted or rewrote does not meet the append
rule, and is added again when sent again: base "a⏎", live "", edit "a⏎W" gives "W", then "WW".  The comment at
`three-way-merge.ts:65` promises once.  `SentAgainOnce` is the property without that case.

Observed while checking, all within what the code promises: after a passed deadline the coarse diff may bring back
deleted text or double a resent append; an insertion next to a changed line, not at the end, is doubled when resent;
a merge can join two lines.

Not modelled: the word-level alignment of long lines, a deadline that passes inside `alignedShifts`, the merge of
properties (`mergeFrontmatter`, per key), the reports of what conflicted, the application to the Yjs document.

## 11. `RevisionHistory`: the revisions of one note

A revision is stored whole or as a delta on an older one; a delta `<<from, to>>` gives `to` on `from` and nothing on
any other base, so a chain that was cut shows.  `saved` is the text as it was recorded, to compare with.  A batch is
the set it `found`, of which it examines the oldest not yet `done`.

| Code | Model |
| --- | --- |
| a write, a repeated write, the seeding of CRDT state, a change behind the store and its rebase | `Write`, `Repeat`, `Seed`, `ChangeOutside`, `Rebase` (with `revisionAtSeq`'s adoption, `AtSeq`) |
| a quarantined write, a proposal, a restore point | `Quarantine`, `Propose`, `PointTaken` / `PointKept` |
| `applyHistory` of a vault import (`export/vault-history.ts`) | `Import` |
| `purgeRevision`: its check, then the locked part with `expandDependents` | `PurgeFinds`, `Purge` |
| `compactRevisions` (`notes/revision-compaction.ts`): batches under the note's lock, the mark | `RunStarts`, `BatchStarts`, `Examine`, `BatchCommits`, `RunFails` |
| boot: job resumed, `store-reconcile.ts` adopts a revision for the row | `Reboot` |

| Run | Instance | Question |
| --- | --- | --- |
| `history` | 1 recent revision kept whole, batches of 2, compaction every 2nd seq, 4 revisions recorded, 1 outside change, 1 stop | Does every revision keep its exact text (`Lossless`)?  Do the row's own revision and the base of a pending merge stay (`StatesKept`)? |

Batches of two over four revisions put a batch boundary inside a chain; purges, writes and imports fall between a
batch's examination and its commit and between a purge's check and its lock.  The ghost `around` keeps the states in
which the row's `seq` has no revision by itself (changed behind the store, or imported), and those in which the
revision was only adopted for the row while a purge that had found it without `seq` waits for the lock, and takes it.

By hand, both violated:

* `RevisionHistoryOvertaken.cfg` (`PassedDecided`): `expandDependents` moves the mark back and its comment
  (`revision-compaction.ts:258`) says the note's next run examines the expanded revisions again; a run in flight commits
  `GREATEST(mark, last)` afterwards (`:243`) and they stay whole for good.  Space only, no text is lost.
* `RevisionHistoryLastCopy.cfg` (`NoteStaysRecorded`): an import replaces revisions by ones without `seq`, and until the
  next boot the newest of them, which is the note as it is, can be purged although `store.ts:1830` refuses that.

### Proofs (`RevisionHistoryProofs`)

For any texts, retention, size of batches and any number of revisions, outside changes and stops: `TypeCorrect`
(`HistoryTypeOK`), `EveryBodyKept` (`Lossless`) and `NoteAndBaseKept` (`StatesKept`).  The inductive invariant has three
parts.  Of the history (`Good`): a delta's base is older, whole, of a kind that never changes, and the delta leads from
that text to its own.  Of a batch (`FoundOK`, `PendingOK`): what it found is whole and no base of anything, it examines
the oldest first, and the base of what it will commit is not among what it will commit; this is where the order of
`candidates` matters.  Of the row (`SeqOK`, `PurgeOK`): the revision at the row's seq holds its text, and what a purge
found is not that one.

### Limits

`Import` gives each revision of an archive the action of an import; the archive's own action and source
(`vault-history.ts:315`, `:321`), by which a quarantined text or a proposal would stay whole, and an archive without
revisions are not modelled.

Read, not run: edits between `createNote` and `applyHistory` of an import lose their revisions; a proposal may name a
base that is compacted, and an adopted revision may be, although the module's header calls both always whole; a note
without CRDT state that is changed behind the store and then written leaves a `seq` without revision.

## 12. `CollabTabs`: a note in the tabs of one browser

A Yjs document is a set of items, each a text and how it came to be (typed, put back by a rebase, offered back by the
editor), some of them cut.  Two items with one text are a text doubled.

| Code (`useCollabDoc.ts`, `collabStash.ts`) | Model |
| --- | --- |
| a tab's Y.Doc and flags (`unsynced`, offered text, rebased, too large) | `tab[t]` |
| a copy: its Web Lock, records in IndexedDB, the write queue, what it waits for | `copies[c]`: `by`, `disk`, `unsaved` / `stored`, `end`, `awaits` |
| opening, `restoreCopies`, a copy that comes free later | `OpenNote`, `LookForCopies`, `ClaimLate` |
| handshake, acknowledgement, `settle`, merging a copy that shares history, offering one that does not | `Handshake`, `Ack`, `Settle`, `Merge`, the tab's offer |
| `note-rebased` and a missed rebase; `note-too-large` and rebuilding | `MissedRebase`, `StartOver`; `Refuse`, `Cut`, `Rebuilt` |
| a write of IndexedDB, its end, the release timer | `Write`, `End`, `ReleaseDue` |
| close, crash, dropped socket | `CloseNote`, `Crash`, `SocketDrops`, `StopForGood` |
| the relay: logs before it acknowledges, refuses a document from before a rebase | `RelayTakes`, `Logged`, `Rebase` |

The ghosts: `kept` (ever on disk), `given` (cut or discarded by a person), `stale` (brought back by a copy older than a
rebase).

| Run | Instance | Question |
| --- | --- | --- |
| `tabs` | 2 tabs, 1 edit that may be too large, 3 copies, at most 2 of: 2 closes, 1 drop, 1 rebase, 1 failed write | Is what the browser stored on the relay or still stored (`StoredIsKept`)?  Does nothing reach the relay twice (`NeverTwice`)?  Is "synced" said only when the relay has everything (`Honest`)? |

Two tabs are what a copy's hand-over needs, three copies let one wait for another while a third is written.  Two faults
are the least that combine (a crash after a rebase, a failed write before a close); three give 6.2 million states and two
edits without the size cap 3.8 million, both checked once without an error.

By hand: `CollabTabsMeet.cfg` passes: with providers that retry, a relay that answers and the promises and timers of
an open page going on, a copy that a tab found or waits for is sent or offered at last (`CopiesMeet`); nobody has to
type, close or discard.  A tab that has looked for copies before another left one does not claim that one until the
next visit, as `collabStash.ts` says.  Two are violated:

* `CollabTabsOnce.cfg` (`MergedOnce`): a copy from before a rebase that is merged after it doubles its text.  It is the
  known rest of `docs/reviews/1056-11632fa.md:71`; `NeverTwice` leaves `stale` texts out.
* `CollabTabsAsks.cfg` (`AsksFirst`): a restored copy without shared history is shown and typed into, its write fails,
  and after the handshake it is offered and `unsynced` turns false though its text is in the tab only; the comment at
  `useCollabDoc.ts:103-105` says otherwise.

### Proofs (`CollabTabsProofs`)

For any number of tabs, copies and edits, any subset of them too large, and any number of closes, drops, rebases and
failed writes: `TabsTypeCorrect` (`TabsTypeOK`), `StoredStaysKept` (`StoredIsKept`), `NothingTwice` (`NeverTwice`) and
`EditorIsHonest` (`Honest`).  All four follow from one invariant, `IInv`, in four parts.

* Copies (`Good`: `Loose`, `Own`, `Backed`).  A copy follows no document but its own tab's live one; what it has on disk
  is behind what its next write stores; if it has nothing queued and its last write did not fail, it is on disk as it
  is; and a copy that waits for another waits for one of the same tab, with a write queued, that has all of its text.
* What stays stored (`Cover`, `DoomedOK`).  A copy is doomed when it is released, or waits for one that is: whatever is
  written next, its records go.  `kept` is covered by the relay, what a person gave up, and the disks of copies that are
  not doomed; and so is all that a doomed copy holds, which is why its end takes nothing away.  `StoredIsKept` alone is
  not inductive: it does not say that a copy about to be deleted is not the only one.
* Documents (`Clean`, `All`).  For some set `M` of items - every text as offered, and what was typed into a copy
  that stands apart - every document of a tab and the relay's has none of `M`, and a copy on disk or in memory has
  none of them or nothing else.  So a copy that shares an item with the document is of the document's history, and
  an "offered" item never reaches the relay.  `M` grows when somebody types into a restored copy that stands apart,
  and the theorem holds for some `M` in each state.
* Tabs and rebases (`Flags`, `Truth`, `Once`).  What a tab says of itself goes together (a synced tab has merged all it
  found) and is true of the relay; where a text is both as typed and as a rebase put it back, in a document, on the
  relay or in one of each, it is one of `stale`; and a tab whose document has a large text that the relay has not
  has a live copy, so that one that is refused has somewhere to put what it cuts.

Each of the hook's functions has one lemma that says what it keeps (`KeepWorld`, `SetDocWorld`, `AwaitWorld`,
`MergeCopyWorld`, `MergeWorld`, `SettleWorld`, `DetachStep`, `EndsStep`), each action one that puts them together
(`HandshakeCore`, `StartOverCore`, `CutCore`, ...).  `Merge` folds any number of copies in their order: `MergeWorld`
goes through them, by the first place at which what it claims would fail.  A step of one tab leaves the other tabs'
copies alone (`Touches`), so what is known of them stays (`OthersFit`).

### Limits

Not modelled: browsers without Web Locks or IndexedDB, logout, the browser's offline flag, copies keyed by path of
older releases (treated the same), a write that fails before its transaction because IndexedDB does not open again
(`collabStash.ts:204-207`: on a copy that was claimed with records, what was pending then is not written until the copy
is next written whole, and `flushed` says so no longer after the next write; in the model the next write has
everything; none of it was on disk, so `StoredIsKept` is not about it), a keystroke between the hand-over and the next
render, wording, compaction of the records. Deadlock is not checked: a person need not act and the bounds end.

## 13. What is proved, what is checked, what is left out

Proved for every value of the constants that the assumptions allow: the theorems of sections 3 to 9, 11 and 12.
Model-checked only, on the instances above: section 10, since what the recursive operators of `TextDiff` compute for
every input is out of the prover's reach (it takes no recursive operator and no induction over data), and all liveness
(`AckedReachesRow`, `EveryJobEnds`, `Recovers`, `CatchesUp`, `CopiesMeet`), which with `ENABLED` is too.

An operator whose comment begins "Mutant:" is a plausible slip in the definition next to it.  `PROJECT.json` says which
property notices it; `CompactedBelow`, `NeverLate`, `Lost`, `AlwaysSound` and `AlwaysShares` are second slips, tried by
hand with the same result.

Run by hand, because they repeat a question on another instance or show one of the divergences above: `NoteCrdtPurge`,
`DurableJobsTwo`, `DurableJobsLive`, `DurableJobsProjector`, `ProjectorPurged`, `ProjectorTwo`, `NoteStoreBusy`,
`NoteStoreRetarget`, `RepositoriesTorn`, `RepositoriesSwitched`, `ExtractionReverted`, `TextMergeTwice`,
`RevisionHistoryOvertaken`, `RevisionHistoryLastCopy`, `CollabTabsMeet`, `CollabTabsOnce`, `CollabTabsAsks`.

The rest of the repository is left out for what it is: React pages, widgets and the graph canvas render what the API
returns; search, the code queries and the graph read tables and rank; parsers and formats turn one text into another;
routes validate and call the store; providers, mail and storage are calls to other systems; the lab, the benchmarks and
the report scripts are not part of the running system.  What does keep state and is not modelled yet is in the plan of
section 2.
