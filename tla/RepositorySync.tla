--------------------------- MODULE RepositorySync ---------------------------
(***************************************************************************)
(* Syncs of one git repository (repositories/git-sync.ts, scheduler.ts)    *)
(* into its index (repositories/store.ts), in one process: polls, webhook  *)
(* deliveries and manual syncs overlap, the mirror's lock orders the part  *)
(* that writes, and any step may fail or end with the process.  A commit   *)
(* is named by a member of Commits; Tree gives its files.                  *)
(***************************************************************************)
EXTENDS Integers, Sequences, FiniteSets

CONSTANTS
  Paths, Commits,
  Tree,            \* [Commits -> [Paths -> Nat]]: the content of each file, NoFile where the commit has none
  NoCommit,        \* not a commit: nothing synced yet
  Branches,        \* the remote's branches, one of them its default
  NoBranch,        \* not a branch: ls-remote failed, or named none
  Syncs,           \* calls of syncGitRepository that may be under way at once
  MaxMoves,        \* bound: pushes to the remote's branches and switches of its default
  MaxVersions,     \* bound: versions of the index; at it no sync gets past the fetch
  MaxSyncFaults    \* bound: failed steps, and deaths of the process

ASSUME TreesAssumption == Tree \in [Commits -> [Paths -> Nat]] /\ NoCommit \notin Commits
ASSUME BranchesAssumption == NoBranch \notin Branches
ASSUME BoundsAssumption == MaxMoves \in Nat /\ MaxVersions \in Nat /\ MaxSyncFaults \in Nat

VARIABLES
  repo,     \* the repositories row; ghost `of`: the push of each branch that was last recorded
  files,    \* repository_files: the content of each path
  changes,  \* repository_changes: the kind of each path's change, by version
  versions, \* repository_versions; ghost `was`: the files when the version was recorded
  sync,     \* each call of syncGitRepository
  mirror,   \* the mirror's lock: its holder, then those that wait (withMirrorLock)
  remote,   \* the remote's default branch, each branch's commit and how often it was pushed to
  torn,     \* ghost: a sync has stopped between its first file and its record of the version
  faults

syncVars == <<repo, files, changes, versions, sync, mirror, remote, torn, faults>>
index == <<files, changes, versions>>

NoFile == 0
None == "none"
\* branch: what ls-remote named, then the branch fetched; fetched: ghost, its push.
Idle == [at |-> "idle", base |-> NoCommit, branch |-> NoBranch, target |-> NoCommit, fetched |-> 0, todo |-> {}, seq |-> 0]
\* A call whose result nobody needs any more.
Over(s) == [sync EXCEPT ![s] = Idle]
At(s, step) == sync[s].at = step
Go(s, step) == [sync EXCEPT ![s].at = step]

SyncInit ==
  /\ repo = [status |-> "idle", error |-> FALSE, synced |-> FALSE, commit |-> NoCommit,
             of |-> [b \in Branches |-> 0], seq |-> 0, hook |-> None]
  /\ files = [p \in Paths |-> NoFile]
  /\ changes = [v \in 1 .. MaxVersions + 1 |-> [p \in Paths |-> None]] /\ versions = <<>>
  /\ sync = [s \in Syncs |-> Idle] /\ mirror = <<>>
  /\ remote \in [branch : Branches, tip : [Branches -> Commits], pushes : [Branches -> {0}], moves : {0}]
  /\ torn = FALSE /\ faults = 0
-----------------------------------------------------------------------------
(* What starts a sync *)

\* Mutant: a repository with a webhook is polled only after an error.
PollUnhooked == repo.hook = None \/ repo.status = "error"
\* Poll unless a webhook arrived lately and the sync it started did not fail.
ShouldPoll == repo.hook # "recent" \/ repo.status = "error"

Call(s) ==
  /\ At(s, "idle") /\ sync' = Go(s, "called")
  /\ UNCHANGED <<index, mirror, remote, torn, faults>>

\* A poll passes over a row that says a sync is running.
Polled == repo.status # "syncing" /\ ShouldPoll
Poll(s) == Polled /\ Call(s) /\ UNCHANGED repo

Webhook(s) == Call(s) /\ repo' = [repo EXCEPT !.hook = "recent"]

\* The manual sync of REST and MCP: claiming the row is the 409 check, which `force` passes.
Manual(s) ==
  \E force \in BOOLEAN : (force \/ repo.status # "syncing") /\ Call(s) /\ repo' = [repo EXCEPT !.status = "syncing"]

WebhookAges ==
  /\ repo.hook = "recent" /\ repo' = [repo EXCEPT !.hook = "stale"]
  /\ UNCHANGED <<index, sync, mirror, remote, torn, faults>>

\* The remote's HEAD.
Tip == remote.tip[remote.branch]
Push(b) ==
  \E c \in Commits \ {remote.tip[b]} :
    remote' = [remote EXCEPT !.tip[b] = c, !.pushes[b] = @ + 1, !.moves = @ + 1]
SwitchDefault(b) == b # remote.branch /\ remote' = [remote EXCEPT !.branch = b, !.moves = @ + 1]
RemoteMoves ==
  /\ remote.moves < MaxMoves /\ \E b \in Branches : Push(b) \/ SwitchDefault(b)
  /\ UNCHANGED <<repo, index, sync, mirror, torn, faults>>
-----------------------------------------------------------------------------
(* A sync before the mirror's lock *)

ReadRow(s) ==
  /\ At(s, "called")
  /\ sync' = [sync EXCEPT ![s].at = "read", ![s].base = repo.commit]
  /\ UNCHANGED <<repo, index, mirror, remote, torn, faults>>

Claim(s) ==
  /\ At(s, "read") /\ sync' = Go(s, "claimed")
  /\ repo' = [repo EXCEPT !.status = "syncing"]
  /\ UNCHANGED <<index, mirror, remote, torn, faults>>

Fault == faults < MaxSyncFaults /\ faults' = faults + 1
\* Mutant: the last to come is the next to hold the lock.
QueueFirst(s) == sync' = Go(s, "queued") /\ mirror' = <<s>> \o mirror
Queue(s) == sync' = Go(s, "queued") /\ mirror' = Append(mirror, s)

\* ls-remote's answer: the default branch, unless the server does not name it, and whether its commit is the one
\* the row read at the start was synced from: nothing to fetch then.
LsRemote(s) ==
  /\ At(s, "claimed")
  /\ \E named \in {remote.branch, NoBranch} :
       sync' = [sync EXCEPT ![s].at = IF Tip = sync[s].base THEN "unchanged" ELSE "moved", ![s].branch = named]
  /\ UNCHANGED <<repo, index, mirror, remote, torn, faults>>

Answered(s) == At(s, "moved") /\ Queue(s) /\ UNCHANGED <<repo, index, remote, torn, faults>>

\* A failed ls-remote, or a failed write of its result, falls back to the fetch; the latter still knows the branch.
LsRemoteFails(s) ==
  /\ sync[s].at \in {"claimed", "unchanged"} /\ Fault /\ Queue(s)
  /\ UNCHANGED <<repo, index, remote, torn>>

Synced == [repo EXCEPT !.status = "idle", !.synced = TRUE, !.error = FALSE]

Unchanged(s) ==
  /\ At(s, "unchanged") /\ sync' = Over(s) /\ repo' = Synced
  /\ UNCHANGED <<index, mirror, remote, torn, faults>>
-----------------------------------------------------------------------------
(* A sync under the mirror's lock *)

\* Mutant: the lock is not waited for.
Unlocked(s) == mirror # <<>>
Holds(s) == mirror # <<>> /\ Head(mirror) = s
Writing(s) == sync[s].at \in {"write", "record"}

\* Mutant: the diff base is the commit of the row read at the start.
FirstBase(s) == sync[s].base
\* The diff base is the commit of the row read again under the lock.
DiffBase(s) == repo.commit
\* The branch that ls-remote named before the wait is fetched, whatever the default is now; without a name, HEAD is.
Fetched(s) == IF sync[s].branch = NoBranch THEN remote.branch ELSE sync[s].branch

\* scanMirrorTree reads a path whose blob differs from the diff base's tree or that has no row; the store
\* then skips a content it has already.
ToWrite(base, target) ==
  {p \in Paths : /\ Tree[target][p] # NoFile /\ files[p] # Tree[target][p]
                 /\ ~(base # NoCommit /\ files[p] # NoFile /\ Tree[base][p] = Tree[target][p])}

\* The mirror may have lost the diff base (re-created, or folded by gc): every file is read then.
Fetch(s) ==
  /\ At(s, "queued") /\ Holds(s) /\ repo.seq < MaxVersions
  /\ \E base \in {DiffBase(s), NoCommit} :
       LET branch == Fetched(s)
           target == remote.tip[branch]
       IN sync' = [sync EXCEPT ![s] = [at |-> "write", base |-> base, branch |-> branch, target |-> target,
                                       fetched |-> remote.pushes[branch], todo |-> ToWrite(base, target), seq |-> repo.seq + 1]]
  /\ UNCHANGED <<repo, index, mirror, remote, torn, faults>>

\* Mutant: the last change of a version wins.
LastKind(earlier, kind) == kind
\* Within one version: added then changed stays added, added then deleted is nothing, deleted then added is changed.
Net(earlier, kind) ==
  CASE earlier = "added" -> IF kind = "deleted" THEN None ELSE "added"
    [] earlier = "deleted" /\ kind = "added" -> "modified"
    [] OTHER -> kind

\* A repository with no version yet records no changes: its first version is the baseline.
Changed(seq, paths, kind) ==
  IF seq = 1 THEN changes ELSE [changes EXCEPT ![seq] = [p \in Paths |-> IF p \in paths THEN Net(@[p], kind) ELSE @[p]]]

\* A file and its change are one transaction.
WriteFile(s, p) ==
  /\ At(s, "write") /\ p \in sync[s].todo
  /\ sync' = [sync EXCEPT ![s].todo = @ \ {p}]
  /\ files' = [files EXCEPT ![p] = Tree[sync[s].target][p]]
  /\ changes' = Changed(sync[s].seq, {p}, IF files[p] = NoFile THEN "added" ELSE "modified")
  /\ UNCHANGED <<repo, versions, mirror, remote, torn, faults>>

\* The files the commit does not have go in one transaction, with their changes.
DeleteFiles(s) ==
  /\ At(s, "write") /\ sync[s].todo = {} /\ sync' = Go(s, "record")
  /\ LET gone == {p \in Paths : files[p] # NoFile /\ Tree[sync[s].target][p] = NoFile}
     IN /\ files' = [p \in Paths |-> IF p \in gone THEN NoFile ELSE files[p]]
        /\ changes' = Changed(sync[s].seq, gone, "deleted")
  /\ UNCHANGED <<repo, versions, mirror, remote, torn, faults>>

\* The commit, and a version when files or the commit changed, here or by a sync that stopped.
NewVersion(seq, commit) == repo.seq = 0 \/ commit # repo.commit \/ \E p \in Paths : changes[seq][p] # None
Record(s) ==
  /\ At(s, "record") /\ sync' = Go(s, "finish")
  /\ LET seq == repo.seq + 1
         commit == sync[s].target
         new == NewVersion(seq, commit)
     IN /\ repo' = [repo EXCEPT !.commit = commit, !.of[sync[s].branch] = sync[s].fetched, !.seq = IF new THEN seq ELSE @]
        /\ versions' = IF new THEN Append(versions, [commit |-> commit, was |-> files]) ELSE versions
  /\ UNCHANGED <<files, changes, mirror, remote, torn, faults>>

FinishSync(s) ==
  /\ At(s, "finish") /\ sync' = Over(s) /\ repo' = Synced /\ mirror' = Tail(mirror)
  /\ UNCHANGED <<index, remote, torn, faults>>
-----------------------------------------------------------------------------
(* Failures *)

\* A step after the claim fails: the lock is given back, the failure is recorded next.
SyncFails(s) ==
  /\ sync[s].at \in {"claimed", "queued", "write", "record", "finish"} /\ (At(s, "queued") => Holds(s)) /\ Fault
  /\ sync' = [sync EXCEPT ![s] = [Idle EXCEPT !.at = "failed"]]
  /\ mirror' = IF At(s, "claimed") THEN mirror ELSE Tail(mirror)
  /\ torn' = (torn \/ Writing(s))
  /\ UNCHANGED <<repo, index, remote>>

\* recordSyncFailure: the message, if there is none; then the status.
NoteError(s) ==
  /\ At(s, "failed") /\ sync' = Go(s, "noted")
  /\ repo' = [repo EXCEPT !.error = TRUE]
  /\ UNCHANGED <<index, mirror, remote, torn, faults>>
NoteStatus(s) ==
  /\ At(s, "noted") /\ sync' = Over(s)
  /\ repo' = [repo EXCEPT !.status = "error", !.error = TRUE]
  /\ UNCHANGED <<index, mirror, remote, torn, faults>>

\* The database fails before the try, or while the failure is recorded: nothing more is written of this sync.
Dropped(s) ==
  /\ sync[s].at \in {"called", "read", "failed", "noted"} /\ Fault
  /\ sync' = Over(s)
  /\ UNCHANGED <<repo, index, mirror, remote, torn>>

\* The process ends; the next one's boot reconciles a row left "syncing" (reconcileOrphanedSyncs) before it serves.
Reconciled ==
  IF repo.status # "syncing" THEN repo
  ELSE IF repo.synced THEN [repo EXCEPT !.status = "idle", !.error = FALSE]
  ELSE [repo EXCEPT !.status = "error", !.error = TRUE]
RestartSyncs ==
  /\ Fault /\ repo' = Reconciled
  /\ sync' = [s \in Syncs |-> Idle] /\ mirror' = <<>>
  /\ torn' = (torn \/ \E s \in Syncs : Writing(s))
  /\ UNCHANGED <<index, remote>>
-----------------------------------------------------------------------------
SyncSteps(s) ==
  \/ ReadRow(s) \/ Claim(s) \/ LsRemote(s) \/ Answered(s) \/ Unchanged(s) \/ Fetch(s) \/ (\E p \in Paths : WriteFile(s, p))
  \/ DeleteFiles(s) \/ Record(s) \/ FinishSync(s) \/ NoteError(s) \/ NoteStatus(s)

SyncNext ==
  \/ \E s \in Syncs : \/ Poll(s) \/ Webhook(s) \/ Manual(s) \/ SyncSteps(s)
                      \/ LsRemoteFails(s) \/ SyncFails(s) \/ Dropped(s)
  \/ WebhookAges \/ RemoteMoves \/ RestartSyncs

SyncSpec == SyncInit /\ [][SyncNext]_syncVars

\* The interval's poll, the clock, and calls that run on.
SyncFairness ==
  /\ WF_syncVars(WebhookAges) /\ SF_syncVars(\E s \in Syncs : Poll(s))
  /\ \A s \in Syncs : WF_syncVars(SyncSteps(s))
-----------------------------------------------------------------------------
(* Properties *)

FileData == {NoFile} \cup {Tree[c][p] : c \in Commits, p \in Paths}
Steps == {"idle", "called", "read", "claimed", "unchanged", "moved", "queued", "write", "record", "finish", "failed", "noted"}
Kinds == {None, "added", "modified", "deleted"}

\* Types, and what the lock is for: whoever is between its wait and its end is in the mirror's queue, once, and
\* only the first of them is past the wait.
LockSteps == {"queued", "write", "record", "finish"}
SyncTypeOK ==
  /\ repo \in [status : {"idle", "syncing", "error"}, error : BOOLEAN, synced : BOOLEAN, commit : Commits \cup {NoCommit},
               of : [Branches -> 0 .. MaxMoves], seq : 0 .. MaxVersions, hook : {None, "recent", "stale"}]
  /\ files \in [Paths -> FileData] /\ changes \in [1 .. MaxVersions + 1 -> [Paths -> Kinds]]
  /\ versions \in Seq([commit : Commits, was : [Paths -> FileData]]) /\ Len(versions) = repo.seq
  /\ sync \in [Syncs -> [at : Steps, base : Commits \cup {NoCommit}, branch : Branches \cup {NoBranch}, target : Commits \cup {NoCommit},
                         fetched : 0 .. MaxMoves, todo : SUBSET Paths, seq : 0 .. MaxVersions]]
  /\ mirror \in Seq(Syncs)
  /\ remote \in [branch : Branches, tip : [Branches -> Commits], pushes : [Branches -> 0 .. MaxMoves], moves : 0 .. MaxMoves]
  /\ torn \in BOOLEAN /\ faults \in 0 .. MaxSyncFaults
  /\ \A s \in Syncs : sync[s].at \in LockSteps <=> \E i \in 1 .. Len(mirror) : mirror[i] = s
  /\ \A i, j \in 1 .. Len(mirror) : mirror[i] = mirror[j] => i = j
  /\ \A i \in 2 .. Len(mirror) : At(mirror[i], "queued")

\* "The index is the fetched commit's files: its commit is recorded with them" (git-sync.ts): whatever
\* overlapped, the recorded commit is what the files are, as long as no sync stopped among its files.
Recorded == (\A s \in Syncs : ~Writing(s)) /\ repo.commit # NoCommit => files = Tree[repo.commit]
IndexIsCommit == ~torn => Recorded

\* "The commit the index was built from ... Null when no commit describes the indexed files" (db/schema.ts): a row
\* that says it is synced to the remote's HEAD has the files of it, whatever failed before.
SyncedIsCommit ==
  (\A s \in Syncs : At(s, "idle")) /\ repo.status = "idle" /\ ~repo.error /\ repo.commit = Tip
     => files = Tree[repo.commit]

\* changedSince: the first and the last change of a path after version v decide the net one.
NetSince(v, p) ==
  LET seqs == {n \in DOMAIN changes : n > v /\ changes[n][p] # None}
      first == changes[CHOOSE n \in seqs : \A m \in seqs : n <= m][p]
      last == changes[CHOOSE n \in seqs : \A m \in seqs : n >= m][p]
  IN IF seqs = {} \/ (first = "added" /\ last = "deleted") THEN None
     ELSE IF last = "deleted" THEN "deleted"
     ELSE IF first = "added" THEN "added" ELSE "modified"

\* changed_since answers from any recorded version with exactly what differs from it now, through deletes, re-adds,
\* failed and overlapping syncs; a file that changed and changed back may be listed as modified.
ChangesAreKnown ==
  \A v \in 1 .. repo.seq, p \in Paths :
    LET was == versions[v].was[p]
    IN NetSince(v, p) \in IF was = files[p] THEN {None, "modified"}
                          ELSE {IF was = NoFile THEN "added" ELSE IF files[p] = NoFile THEN "deleted" ELSE "modified"}

\* A sync that was slow never takes the index back, on any branch, to a commit older than one of that branch that was
\* recorded.  (To another branch it may: it fetches the one ls-remote named before the wait, see StaysCurrent.)
NeverOlder == [][\A b \in Branches : repo'.of[b] >= repo.of[b]]_syncVars

\* What the code does not promise: the index leaves the remote's HEAD only when the remote moves.  A sync that waited
\* through a switch of the default branch fetches the old one (one that fetched before a push was taken back records
\* what it fetched), and a later poll gets the index to HEAD again.
StaysCurrent == [][repo.commit = Tip /\ remote' = remote => repo'.commit = Tip]_syncVars

\* A row that says "syncing" while no sync runs.
Abandoned == repo.status = "syncing" /\ \A s \in Syncs : At(s, "idle")

\* The poll's promise (shouldPoll): with webhooks that stop coming, failed syncs and restarts, the index gets to
\* the remote's HEAD and the row to "idle", unless recording a failure itself failed and left the row abandoned.
CatchesUp == <>[](repo.commit = Tip \/ Abandoned) /\ []<>(repo.status = "idle" \/ Abandoned)
=============================================================================
