------------------------- MODULE RepositoriesProofs -------------------------
(***************************************************************************)
(* The two components of a repository.  Its syncs, for any number of them, *)
(* of commits, paths, moves of the remote and faults: types and the        *)
(* mirror's lock, that the recorded commit is what the files are, that the *)
(* history of changes answers for every version, and that the index never  *)
(* goes back.  The extraction of its files, for any files, repositories,   *)
(* imports, writes and failures: types, that no repository waits for more  *)
(* than a turn of each other one, and that with nothing left to do the     *)
(* derived rows are of their files' contents and lead where they should.   *)
(***************************************************************************)
EXTENDS RepositorySync, Extraction, FiniteSetTheorems, WellFoundedInduction, TLAPS
-----------------------------------------------------------------------------
(* Syncs: what is known of the index, the calls and the lock *)

Repo ==
  [status : {"idle", "syncing", "error"}, error : BOOLEAN, synced : BOOLEAN, commit : Commits \cup {NoCommit},
   of : [Branches -> 0 .. MaxMoves], seq : 0 .. MaxVersions, hook : {None, "recent", "stale"}]
Version == [commit : Commits, was : [Paths -> FileData]]
SyncRecord ==
  [at : Steps, base : Commits \cup {NoCommit}, branch : Branches \cup {NoBranch}, target : Commits \cup {NoCommit},
   fetched : 0 .. MaxMoves, todo : SUBSET Paths, seq : 0 .. MaxVersions]
Remote == [branch : Branches, tip : [Branches -> Commits], pushes : [Branches -> 0 .. MaxMoves], moves : 0 .. MaxMoves]

RepoOK ==
  /\ repo \in Repo /\ files \in [Paths -> FileData] /\ changes \in [1 .. MaxVersions + 1 -> [Paths -> Kinds]]
  /\ versions \in Seq(Version) /\ Len(versions) = repo.seq
CallsOK ==
  /\ sync \in [Syncs -> SyncRecord] /\ mirror \in Seq(Syncs)
  /\ remote \in Remote /\ torn \in BOOLEAN /\ faults \in 0 .. MaxSyncFaults
LockOK ==
  /\ \A s \in Syncs : sync[s].at \in LockSteps <=> \E i \in 1 .. Len(mirror) : mirror[i] = s
  /\ \A i, j \in 1 .. Len(mirror) : mirror[i] = mirror[j] => i = j
  /\ \A i \in 2 .. Len(mirror) : At(mirror[i], "queued")

\* What a sync that holds the lock took under it still is: nobody else writes the row's commit or its number.
HolderOK ==
  \A s \in Syncs : sync[s].at \in {"write", "record"} =>
    /\ sync[s].seq = repo.seq + 1 /\ sync[s].target \in Commits
    /\ sync[s].base \in {repo.commit, NoCommit}
    /\ sync[s].branch \in Branches /\ repo.of[sync[s].branch] <= sync[s].fetched

\* What a sync fetched of a branch, and what was recorded of it last, was pushed before now.
FetchedOK ==
  \A s \in Syncs : sync[s].at \in {"write", "record"} =>
    sync[s].branch \in Branches /\ sync[s].fetched <= remote.pushes[sync[s].branch]
OfOK == \A b \in Branches : repo.of[b] <= remote.pushes[b] /\ remote.pushes[b] <= remote.moves
Newer == \A b \in Branches : repo'.of[b] >= repo.of[b]

TypeInv == RepoOK /\ CallsOK /\ LockOK
LInv == TypeInv /\ HolderOK /\ FetchedOK /\ OfOK

LEMMA TypeInvTypes == TypeInv <=> SyncTypeOK
BY DEF TypeInv, RepoOK, CallsOK, LockOK, SyncTypeOK, Repo, Version, SyncRecord, Remote

LEMMA IdleRecord == Idle \in SyncRecord /\ Idle.at = "idle"
BY BoundsAssumption DEF Idle, SyncRecord, Steps

LEMMA TreeContents == \A c \in Commits : Tree[c] \in [Paths -> FileData]
BY TreesAssumption DEF FileData
-----------------------------------------------------------------------------
(* The mirror's lock *)

\* Whoever is past its wait holds the lock.
LEMMA PastTheWait ==
  ASSUME CallsOK, LockOK, NEW s \in Syncs, sync[s].at \in {"write", "record", "finish"}
  PROVE  Holds(s)
<1>1. PICK i \in 1 .. Len(mirror) : mirror[i] = s
  BY DEF LockOK, LockSteps
<1>2. i = 1
  BY <1>1 DEF CallsOK, LockOK, At
<1> QED
  BY <1>1, <1>2 DEF CallsOK, Holds

LEMMA OneHolder ==
  ASSUME NEW s \in Syncs, NEW u \in Syncs, Holds(s), Holds(u)
  PROVE  s = u
BY DEF Holds

\* A step of a sync that neither waits for the lock nor has it.
LEMMA LockAside ==
  ASSUME CallsOK, LockOK, NEW s \in Syncs, NEW r \in SyncRecord, sync' = [sync EXCEPT ![s] = r], mirror' = mirror,
         sync[s].at \notin LockSteps, r.at \notin LockSteps
  PROVE  LockOK'
<1>1. \A u \in Syncs : sync'[u] = IF u = s THEN r ELSE sync[u]
  BY DEF CallsOK
<1>2. \A i \in 1 .. Len(mirror) : mirror[i] \in Syncs
  BY DEF CallsOK
<1> QED
  BY <1>1, <1>2 DEF LockOK, At, LockSteps

\* A step of the holder that keeps the lock.
LEMMA LockHeld ==
  ASSUME CallsOK, LockOK, NEW s \in Syncs, NEW r \in SyncRecord, sync' = [sync EXCEPT ![s] = r], mirror' = mirror,
         Holds(s), r.at \in LockSteps
  PROVE  LockOK'
<1>1. \A u \in Syncs : sync'[u] = IF u = s THEN r ELSE sync[u]
  BY DEF CallsOK
<1>2. \A i \in 1 .. Len(mirror) : mirror[i] \in Syncs
  BY DEF CallsOK
<1>3. mirror[1] = s /\ 1 \in 1 .. Len(mirror)
  BY DEF Holds, CallsOK
<1>4. \A i \in 2 .. Len(mirror) : mirror[i] # s
  BY <1>3 DEF LockOK
<1>5. sync[s].at \in LockSteps
  BY <1>3 DEF LockOK
<1> QED
  BY <1>1, <1>2, <1>3, <1>4, <1>5 DEF LockOK, At

LEMMA LockQueued ==
  ASSUME CallsOK, LockOK, NEW s \in Syncs, NEW r \in SyncRecord, sync' = [sync EXCEPT ![s] = r], mirror' = Append(mirror, s),
         sync[s].at \notin LockSteps, r.at = "queued"
  PROVE  LockOK' /\ mirror' \in Seq(Syncs)
<1>1. \A u \in Syncs : sync'[u] = IF u = s THEN r ELSE sync[u]
  BY DEF CallsOK
<1>2. /\ mirror' \in Seq(Syncs) /\ Len(mirror') = Len(mirror) + 1 /\ Len(mirror) \in Nat
      /\ \A i \in 1 .. Len(mirror) : mirror'[i] = mirror[i] /\ mirror[i] \in Syncs
      /\ mirror'[Len(mirror) + 1] = s
  BY DEF CallsOK
<1>3. \A i \in 1 .. Len(mirror) : mirror[i] # s
  BY DEF LockOK
<1>4. \A u \in Syncs : sync'[u].at \in LockSteps <=> \E i \in 1 .. Len(mirror') : mirror'[i] = u
  <2>1. (sync'[s].at \in LockSteps) /\ \E i \in 1 .. Len(mirror') : mirror'[i] = s
    BY <1>1, <1>2 DEF LockSteps
  <2>2. ASSUME NEW u \in Syncs, u # s
        PROVE  sync'[u].at \in LockSteps <=> \E i \in 1 .. Len(mirror') : mirror'[i] = u
    <3>1. (\E i \in 1 .. Len(mirror') : mirror'[i] = u) <=> \E i \in 1 .. Len(mirror) : mirror[i] = u
      BY <1>2, <2>2
    <3> QED
      BY <1>1, <2>2, <3>1 DEF LockOK
  <2> QED
    BY <2>1, <2>2
<1>5. \A i, j \in 1 .. Len(mirror') : mirror'[i] = mirror'[j] => i = j
  BY <1>2, <1>3 DEF LockOK
<1>6. \A i \in 2 .. Len(mirror') : sync'[mirror'[i]].at = "queued"
  <2> SUFFICES ASSUME NEW i \in 2 .. Len(mirror') PROVE sync'[mirror'[i]].at = "queued"
    OBVIOUS
  <2>1. CASE i = Len(mirror) + 1
    BY <1>1, <1>2, <2>1
  <2>2. CASE i \in 2 .. Len(mirror)
    BY <1>1, <1>2, <1>3, <2>2 DEF LockOK, At
  <2> QED
    BY <1>2, <2>1, <2>2
<1> QED
  BY <1>2, <1>4, <1>5, <1>6 DEF LockOK, At

LEMMA LockGivenBack ==
  ASSUME CallsOK, LockOK, NEW s \in Syncs, NEW r \in SyncRecord, sync' = [sync EXCEPT ![s] = r], mirror' = Tail(mirror),
         Holds(s), r.at \notin LockSteps
  PROVE  LockOK' /\ mirror' \in Seq(Syncs)
<1>1. \A u \in Syncs : sync'[u] = IF u = s THEN r ELSE sync[u]
  BY DEF CallsOK
<1>2. /\ mirror' \in Seq(Syncs) /\ Len(mirror') = Len(mirror) - 1 /\ Len(mirror) \in Nat \ {0} /\ mirror[1] = s
      /\ \A i \in 1 .. Len(mirror') : mirror'[i] = mirror[i + 1] /\ mirror'[i] \in Syncs
  BY DEF CallsOK, Holds
<1>3. \A i \in 1 .. Len(mirror') : mirror'[i] # s
  BY <1>2 DEF LockOK
<1>4. \A u \in Syncs : sync'[u].at \in LockSteps <=> \E i \in 1 .. Len(mirror') : mirror'[i] = u
  <2>1. ASSUME NEW u \in Syncs, u # s
        PROVE  sync'[u].at \in LockSteps <=> \E i \in 1 .. Len(mirror') : mirror'[i] = u
    <3>1. ASSUME NEW i \in 1 .. Len(mirror), mirror[i] = u
          PROVE  i - 1 \in 1 .. Len(mirror') /\ mirror'[i - 1] = u
      BY <1>2, <2>1, <3>1
    <3>2. ASSUME NEW i \in 1 .. Len(mirror'), mirror'[i] = u
          PROVE  i + 1 \in 1 .. Len(mirror) /\ mirror[i + 1] = u
      BY <1>2, <3>2
    <3>3. (\E i \in 1 .. Len(mirror') : mirror'[i] = u) <=> \E i \in 1 .. Len(mirror) : mirror[i] = u
      BY <3>1, <3>2
    <3>4. sync'[u].at \in LockSteps <=> \E i \in 1 .. Len(mirror) : mirror[i] = u
      BY <1>1, <2>1 DEF LockOK
    <3> QED
      BY <3>3, <3>4
  <2>2. sync'[s].at \notin LockSteps
    BY <1>1
  <2> QED
    BY <1>3, <2>1, <2>2
<1>5. \A i, j \in 1 .. Len(mirror') : mirror'[i] = mirror'[j] => i = j
  <2> SUFFICES ASSUME NEW i \in 1 .. Len(mirror'), NEW j \in 1 .. Len(mirror'), mirror'[i] = mirror'[j] PROVE i = j
    OBVIOUS
  <2>1. mirror[i + 1] = mirror[j + 1] /\ i + 1 \in 1 .. Len(mirror) /\ j + 1 \in 1 .. Len(mirror)
    BY <1>2
  <2> QED
    BY <2>1 DEF LockOK
<1>6. \A i \in 2 .. Len(mirror') : sync'[mirror'[i]].at = "queued"
  <2> SUFFICES ASSUME NEW i \in 2 .. Len(mirror') PROVE sync'[mirror'[i]].at = "queued"
    OBVIOUS
  <2>1. mirror'[i] = mirror[i + 1] /\ i + 1 \in 2 .. Len(mirror) /\ mirror'[i] \in Syncs /\ mirror'[i] # s
    BY <1>2, <1>3
  <2> QED
    BY <1>1, <2>1 DEF LockOK, At
<1> QED
  BY <1>2, <1>4, <1>5, <1>6 DEF LockOK, At
-----------------------------------------------------------------------------
(* The kinds of step, for what they leave alone *)

SameRow == repo' \in Repo /\ repo'.commit = repo.commit /\ repo'.of = repo.of /\ repo'.seq = repo.seq
FaultsOK == faults' \in 0 .. MaxSyncFaults
Turns(s, r) == r \in SyncRecord /\ sync' = [sync EXCEPT ![s] = r] /\ SameRow /\ FaultsOK

\* A sync that does not have or wait for the lock, before and after.
Aside(s) ==
  /\ sync[s].at \notin LockSteps /\ \E r \in SyncRecord : Turns(s, r) /\ r.at \notin LockSteps
  /\ UNCHANGED <<index, mirror, remote, torn>>
Queues(s) ==
  /\ sync[s].at \notin LockSteps /\ \E r \in SyncRecord : Turns(s, r) /\ r.at = "queued"
  /\ mirror' = Append(mirror, s) /\ UNCHANGED <<index, remote, torn>>
\* The holder leaves; a sync that stops among its files leaves them torn.
GivesBack(s) ==
  /\ Holds(s) /\ \E r \in SyncRecord : Turns(s, r) /\ r.at \notin LockSteps
  /\ mirror' = Tail(mirror) /\ UNCHANGED <<index, remote>>
  /\ torn' \in BOOLEAN /\ (torn \/ Writing(s) => torn')
HolderStep(s) == Fetch(s) \/ (\E p \in Paths : WriteFile(s, p)) \/ DeleteFiles(s) \/ Record(s)
OneSync(s) == Aside(s) \/ Queues(s) \/ GivesBack(s) \/ HolderStep(s)

LEMMA FaultBound == CallsOK /\ Fault => FaultsOK
BY BoundsAssumption DEF CallsOK, Fault, FaultsOK

LEMMA GoRecord ==
  ASSUME CallsOK, NEW s \in Syncs, NEW step \in Steps
  PROVE  /\ [sync[s] EXCEPT !.at = step] \in SyncRecord /\ Go(s, step) = [sync EXCEPT ![s] = [sync[s] EXCEPT !.at = step]]
         /\ [sync[s] EXCEPT !.at = step].at = step
BY DEF CallsOK, SyncRecord, Go

LEMMA Calls ==
  ASSUME TypeInv, NEW s \in Syncs, Poll(s) \/ Webhook(s) \/ Manual(s)
  PROVE  Aside(s)
<1> DEFINE r == [sync[s] EXCEPT !.at = "called"]
<1>1. "called" \in Steps
  BY DEF Steps
<1>2. r \in SyncRecord /\ sync' = [sync EXCEPT ![s] = r] /\ r.at = "called"
  BY <1>1, GoRecord DEF Poll, Webhook, Manual, Call, TypeInv
<1>3. SameRow
  BY DEF Poll, Webhook, Manual, Call, SameRow, TypeInv, RepoOK, Repo
<1>4. FaultsOK /\ UNCHANGED <<index, mirror, remote, torn>> /\ sync[s].at = "idle"
  BY DEF Poll, Webhook, Manual, Call, FaultsOK, TypeInv, CallsOK, At
<1> QED
  BY <1>2, <1>3, <1>4 DEF Aside, Turns, LockSteps

LEMMA BeforeTheLock ==
  ASSUME TypeInv, NEW s \in Syncs, ReadRow(s) \/ Claim(s) \/ LsRemote(s) \/ Answered(s) \/ LsRemoteFails(s) \/ Unchanged(s)
  PROVE  Aside(s) \/ Queues(s)
<1>0. {"read", "claimed", "unchanged", "moved", "queued"} \subseteq Steps
  BY DEF Steps
<1>1. ASSUME ReadRow(s) PROVE Aside(s)
  <2> DEFINE r == [sync[s] EXCEPT !.at = "read", !.base = repo.commit]
  <2>1. r \in SyncRecord /\ sync' = [sync EXCEPT ![s] = r] /\ r.at = "read"
    BY <1>1 DEF ReadRow, TypeInv, RepoOK, CallsOK, SyncRecord, Repo, Steps
  <2>2. SameRow /\ FaultsOK /\ UNCHANGED <<index, mirror, remote, torn>> /\ sync[s].at = "called"
    BY <1>1 DEF ReadRow, SameRow, FaultsOK, TypeInv, RepoOK, CallsOK, At
  <2> QED
    BY <2>1, <2>2 DEF Aside, Turns, LockSteps
<1>2. ASSUME Claim(s) PROVE Aside(s)
  <2> DEFINE r == [sync[s] EXCEPT !.at = "claimed"]
  <2>1. r \in SyncRecord /\ sync' = [sync EXCEPT ![s] = r] /\ r.at = "claimed"
    BY <1>0, <1>2, GoRecord DEF Claim, TypeInv
  <2>2. SameRow
    BY <1>2 DEF Claim, SameRow, TypeInv, RepoOK, Repo
  <2>3. FaultsOK /\ UNCHANGED <<index, mirror, remote, torn>> /\ sync[s].at = "read"
    BY <1>2 DEF Claim, FaultsOK, TypeInv, CallsOK, At
  <2> QED
    BY <2>1, <2>2, <2>3 DEF Aside, Turns, LockSteps
<1>3. ASSUME sync[s].at \in {"claimed", "unchanged", "moved"}, Queue(s), UNCHANGED <<repo, index, remote, torn>>, FaultsOK
      PROVE  Queues(s)
  <2> DEFINE r == [sync[s] EXCEPT !.at = "queued"]
  <2>1. r \in SyncRecord /\ sync' = [sync EXCEPT ![s] = r] /\ r.at = "queued"
    BY <1>0, <1>3, GoRecord DEF Queue, TypeInv
  <2>2. SameRow /\ mirror' = Append(mirror, s)
    BY <1>3 DEF SameRow, TypeInv, RepoOK, Queue
  <2> QED
    BY <1>3, <2>1, <2>2 DEF Queues, Turns, LockSteps
<1>4. ASSUME LsRemote(s) PROVE Aside(s)
  <2>1. PICK step \in {"unchanged", "moved"}, named \in {remote.branch, NoBranch} :
          sync' = [sync EXCEPT ![s].at = step, ![s].branch = named]
    BY <1>4 DEF LsRemote
  <2> DEFINE r == [sync[s] EXCEPT !.at = step, !.branch = named]
  <2>2. r \in SyncRecord /\ sync' = [sync EXCEPT ![s] = r] /\ r.at = step
    BY <1>0, <2>1 DEF TypeInv, CallsOK, SyncRecord, Remote
  <2>3. SameRow /\ FaultsOK /\ UNCHANGED <<index, mirror, remote, torn>> /\ sync[s].at = "claimed"
    BY <1>4 DEF LsRemote, SameRow, FaultsOK, TypeInv, RepoOK, CallsOK, At
  <2> QED
    BY <2>2, <2>3 DEF Aside, Turns, LockSteps
<1>5. ASSUME LsRemoteFails(s) PROVE Queues(s)
  <2>1. FaultsOK
    BY <1>5, FaultBound DEF LsRemoteFails, TypeInv
  <2> QED
    BY <1>3, <1>5, <2>1 DEF LsRemoteFails
<1>7. ASSUME Answered(s) PROVE Queues(s)
  <2>1. FaultsOK /\ sync[s].at = "moved"
    BY <1>7 DEF Answered, FaultsOK, TypeInv, CallsOK, At
  <2> QED
    BY <1>3, <1>7, <2>1 DEF Answered
<1>6. ASSUME Unchanged(s) PROVE Aside(s)
  <2>1. Idle \in SyncRecord /\ sync' = [sync EXCEPT ![s] = Idle] /\ Idle.at = "idle"
    BY <1>6, IdleRecord DEF Unchanged, Over
  <2>2. SameRow
    BY <1>6 DEF Unchanged, Synced, SameRow, TypeInv, RepoOK, Repo
  <2>3. FaultsOK /\ UNCHANGED <<index, mirror, remote, torn>> /\ sync[s].at = "unchanged"
    BY <1>6 DEF Unchanged, FaultsOK, TypeInv, CallsOK, At
  <2> QED
    BY <2>1, <2>2, <2>3 DEF Aside, Turns, LockSteps
<1> QED
  BY <1>1, <1>2, <1>4, <1>5, <1>6, <1>7

LEMMA Endings ==
  ASSUME TypeInv, NEW s \in Syncs, FinishSync(s) \/ SyncFails(s) \/ NoteError(s) \/ NoteStatus(s) \/ Dropped(s)
  PROVE  Aside(s) \/ GivesBack(s)
<1>1. ASSUME FinishSync(s) PROVE GivesBack(s)
  <2>1. Idle \in SyncRecord /\ sync' = [sync EXCEPT ![s] = Idle] /\ Idle.at = "idle"
    BY <1>1, IdleRecord DEF FinishSync, Over
  <2>2. SameRow
    BY <1>1 DEF FinishSync, Synced, SameRow, TypeInv, RepoOK, Repo
  <2>3. sync[s].at = "finish" /\ torn \in BOOLEAN /\ FaultsOK
    BY <1>1 DEF FinishSync, At, TypeInv, CallsOK, FaultsOK
  <2>4. Holds(s) /\ ~Writing(s)
    BY <2>3, PastTheWait DEF TypeInv, Writing
  <2> QED
    BY <1>1, <2>1, <2>2, <2>3, <2>4 DEF FinishSync, GivesBack, Turns, LockSteps
<1>2. ASSUME SyncFails(s) PROVE Aside(s) \/ GivesBack(s)
  <2> DEFINE r == [Idle EXCEPT !.at = "failed"]
  <2>1. r \in SyncRecord /\ sync' = [sync EXCEPT ![s] = r] /\ r.at = "failed"
    BY <1>2, IdleRecord DEF SyncFails, Idle, SyncRecord, Steps
  <2>2. FaultsOK /\ SameRow /\ UNCHANGED <<index, remote>> /\ torn' = (torn \/ Writing(s)) /\ torn \in BOOLEAN
    BY <1>2, FaultBound DEF SyncFails, TypeInv, SameRow, RepoOK, CallsOK
  <2>3. CASE sync[s].at = "claimed"
    <3>1. UNCHANGED <<mirror, torn>>
      BY <1>2, <2>2, <2>3 DEF SyncFails, At, Writing
    <3> QED
      BY <2>1, <2>2, <2>3, <3>1 DEF Aside, Turns, LockSteps
  <2>4. CASE sync[s].at # "claimed"
    <3>1. Holds(s)
      BY <1>2, <2>4, PastTheWait DEF SyncFails, TypeInv, At
    <3>2. mirror' = Tail(mirror) /\ torn' \in BOOLEAN /\ (torn \/ Writing(s) => torn')
      BY <1>2, <2>2, <2>4 DEF SyncFails, At
    <3> QED
      BY <2>1, <2>2, <3>1, <3>2 DEF GivesBack, Turns, LockSteps
  <2> QED
    BY <2>3, <2>4
<1>3. ASSUME NoteError(s) PROVE Aside(s)
  <2> DEFINE r == [sync[s] EXCEPT !.at = "noted"]
  <2>1. r \in SyncRecord /\ sync' = [sync EXCEPT ![s] = r] /\ r.at = "noted"
    BY <1>3, GoRecord DEF NoteError, TypeInv, Steps
  <2>2. SameRow
    BY <1>3 DEF NoteError, SameRow, TypeInv, RepoOK, Repo
  <2>3. FaultsOK /\ UNCHANGED <<index, mirror, remote, torn>> /\ sync[s].at = "failed"
    BY <1>3 DEF NoteError, FaultsOK, TypeInv, CallsOK, At
  <2> QED
    BY <2>1, <2>2, <2>3 DEF Aside, Turns, LockSteps
<1>4. ASSUME NoteStatus(s) \/ Dropped(s) PROVE Aside(s)
  <2>1. Idle \in SyncRecord /\ sync' = [sync EXCEPT ![s] = Idle] /\ Idle.at = "idle"
    BY <1>4, IdleRecord DEF NoteStatus, Dropped, Over
  <2>2. SameRow
    BY <1>4 DEF NoteStatus, Dropped, SameRow, TypeInv, RepoOK, Repo
  <2>3. FaultsOK
    BY <1>4, FaultBound DEF NoteStatus, Dropped, FaultsOK, TypeInv, CallsOK
  <2>4. UNCHANGED <<index, mirror, remote, torn>> /\ sync[s].at \in {"noted", "called", "read", "failed"}
    BY <1>4 DEF NoteStatus, Dropped, At
  <2> QED
    BY <2>1, <2>2, <2>3, <2>4 DEF Aside, Turns, LockSteps
<1> QED
  BY <1>1, <1>2, <1>3, <1>4

LEMMA StepKinds ==
  ASSUME TypeInv, SyncNext
  PROVE  (\E s \in Syncs : OneSync(s)) \/ WebhookAges \/ RemoteMoves \/ RestartSyncs
<1>1. ASSUME NEW s \in Syncs,
             Poll(s) \/ Webhook(s) \/ Manual(s) \/ SyncSteps(s) \/ LsRemoteFails(s) \/ SyncFails(s) \/ Dropped(s)
      PROVE  OneSync(s)
  BY <1>1, Calls, BeforeTheLock, Endings DEF OneSync, SyncSteps, HolderStep
<1> QED
  BY <1>1 DEF SyncNext
-----------------------------------------------------------------------------
(* What a holder's step does to its sync *)

HolderMoves(s, r) ==
  /\ Holds(s) /\ sync[s].at \in LockSteps /\ r \in SyncRecord /\ sync' = [sync EXCEPT ![s] = r] /\ r.at \in LockSteps
  /\ UNCHANGED <<mirror, remote, torn, faults>>

Fetching(s, base) ==
  [at |-> "write", base |-> base, branch |-> Fetched(s), target |-> remote.tip[Fetched(s)],
   fetched |-> remote.pushes[Fetched(s)], todo |-> ToWrite(base, remote.tip[Fetched(s)]), seq |-> repo.seq + 1]

LEMMA FetchedBranch ==
  ASSUME TypeInv, NEW s \in Syncs
  PROVE  Fetched(s) \in Branches
BY DEF Fetched, TypeInv, CallsOK, SyncRecord, Remote

LEMMA FetchMoves ==
  ASSUME TypeInv, NEW s \in Syncs, Fetch(s)
  PROVE  /\ sync[s].at = "queued" /\ UNCHANGED <<repo, index>>
         /\ \E base \in {repo.commit, NoCommit} : HolderMoves(s, Fetching(s, base))
<1>1. PICK base \in {repo.commit, NoCommit} : sync' = [sync EXCEPT ![s] = Fetching(s, base)]
  BY DEF Fetch, DiffBase, Fetching
<1>2. Fetching(s, base) \in SyncRecord
  <2>1. repo.seq + 1 \in 0 .. MaxVersions
    BY BoundsAssumption DEF Fetch, TypeInv, RepoOK, Repo
  <2>2. /\ Fetched(s) \in Branches /\ base \in Commits \cup {NoCommit}
        /\ remote.tip[Fetched(s)] \in Commits /\ remote.pushes[Fetched(s)] \in 0 .. MaxMoves
    BY FetchedBranch DEF TypeInv, RepoOK, CallsOK, Repo, Remote
  <2>3. ToWrite(base, remote.tip[Fetched(s)]) \in SUBSET Paths
    BY DEF ToWrite
  <2> QED
    BY <2>1, <2>2, <2>3 DEF Fetching, SyncRecord, Steps
<1>3. Fetching(s, base).at = "write"
  BY DEF Fetching
<1> QED
  BY <1>1, <1>2, <1>3 DEF Fetch, HolderMoves, LockSteps, At

LEMMA WriteMoves ==
  ASSUME TypeInv, NEW s \in Syncs, NEW p \in Paths, WriteFile(s, p)
  PROVE  /\ sync[s].at = "write" /\ p \in sync[s].todo /\ UNCHANGED <<repo, versions>>
         /\ HolderMoves(s, [sync[s] EXCEPT !.todo = @ \ {p}])
<1>1. [sync[s] EXCEPT !.todo = @ \ {p}] \in SyncRecord /\ sync[s].at = "write"
  BY DEF WriteFile, At, TypeInv, CallsOK, SyncRecord
<1>2. [sync[s] EXCEPT !.todo = @ \ {p}].at = "write"
  BY <1>1 DEF TypeInv, CallsOK, SyncRecord
<1>3. Holds(s)
  BY <1>1, PastTheWait DEF TypeInv
<1>4. sync' = [sync EXCEPT ![s] = [sync[s] EXCEPT !.todo = @ \ {p}]]
  BY DEF WriteFile, TypeInv, CallsOK
<1> QED
  BY <1>1, <1>2, <1>3, <1>4 DEF WriteFile, HolderMoves, LockSteps

LEMMA DeleteMoves ==
  ASSUME TypeInv, NEW s \in Syncs, DeleteFiles(s)
  PROVE  /\ sync[s].at = "write" /\ sync[s].todo = {} /\ UNCHANGED <<repo, versions>>
         /\ HolderMoves(s, [sync[s] EXCEPT !.at = "record"])
<1>1. sync[s].at = "write" /\ "record" \in Steps
  BY DEF DeleteFiles, At, Steps
<1>2. Holds(s)
  BY <1>1, PastTheWait DEF TypeInv
<1> QED
  BY <1>1, <1>2, GoRecord DEF DeleteFiles, HolderMoves, LockSteps, TypeInv

LEMMA RecordMoves ==
  ASSUME TypeInv, NEW s \in Syncs, Record(s)
  PROVE  /\ sync[s].at = "record" /\ UNCHANGED <<files, changes>>
         /\ HolderMoves(s, [sync[s] EXCEPT !.at = "finish"])
<1>1. sync[s].at = "record" /\ "finish" \in Steps
  BY DEF Record, At, Steps
<1>2. Holds(s)
  BY <1>1, PastTheWait DEF TypeInv
<1> QED
  BY <1>1, <1>2, GoRecord DEF Record, HolderMoves, LockSteps, TypeInv
-----------------------------------------------------------------------------
(* Types and the lock *)

LEMMA NetKind ==
  ASSUME NEW earlier \in Kinds, NEW kind \in {"added", "modified", "deleted"}
  PROVE  Net(earlier, kind) \in Kinds
BY DEF Net, Kinds, None

LEMMA ChangedKinds ==
  ASSUME RepoOK, NEW seq \in 1 .. MaxVersions + 1, NEW paths \in SUBSET Paths, NEW kind \in {"added", "modified", "deleted"}
  PROVE  /\ Changed(seq, paths, kind) \in [1 .. MaxVersions + 1 -> [Paths -> Kinds]]
         /\ \A n \in 1 .. MaxVersions + 1, q \in Paths :
              Changed(seq, paths, kind)[n][q] =
                IF n = seq /\ seq # 1 /\ q \in paths THEN Net(changes[n][q], kind) ELSE changes[n][q]
<1> DEFINE row == [q \in Paths |-> IF q \in paths THEN Net(changes[seq][q], kind) ELSE changes[seq][q]]
<1>1. changes \in [1 .. MaxVersions + 1 -> [Paths -> Kinds]] /\ \A n \in 1 .. MaxVersions + 1, q \in Paths : changes[n][q] \in Kinds
  BY DEF RepoOK
<1>2. row \in [Paths -> Kinds]
  BY <1>1, NetKind
<1>3. CASE seq = 1
  BY <1>1, <1>3 DEF Changed
<1>4. CASE seq # 1
  <2>1. Changed(seq, paths, kind) = [changes EXCEPT ![seq] = row]
    BY <1>4 DEF Changed
  <2> HIDE DEF row
  <2>2. /\ Changed(seq, paths, kind) \in [1 .. MaxVersions + 1 -> [Paths -> Kinds]]
        /\ \A n \in 1 .. MaxVersions + 1 : Changed(seq, paths, kind)[n] = IF n = seq THEN row ELSE changes[n]
    BY <1>1, <1>2, <2>1
  <2>3. \A q \in Paths : row[q] = IF q \in paths THEN Net(changes[seq][q], kind) ELSE changes[seq][q]
    BY DEF row
  <2> QED
    BY <1>4, <2>2, <2>3
<1> QED
  BY <1>3, <1>4

LEMMA LInit == SyncInit => LInv
<1> SUFFICES ASSUME SyncInit PROVE LInv
  OBVIOUS
<1>1. RepoOK
  <2>1. repo \in Repo /\ repo.seq = 0
    BY BoundsAssumption DEF SyncInit, Repo, None
  <2>2. files \in [Paths -> FileData] /\ changes \in [1 .. MaxVersions + 1 -> [Paths -> Kinds]]
    BY DEF SyncInit, FileData, Kinds
  <2>3. versions = <<>>
    BY DEF SyncInit
  <2>4. versions \in Seq(Version) /\ Len(versions) = 0
    BY <2>3
  <2> QED
    BY <2>1, <2>2, <2>4 DEF RepoOK
<1>2. CallsOK /\ OfOK
  <2>1. sync \in [Syncs -> SyncRecord] /\ torn \in BOOLEAN
    BY IdleRecord DEF SyncInit
  <2>2. mirror = <<>>
    BY DEF SyncInit
  <2>3. mirror \in Seq(Syncs)
    BY <2>2
  <2>4. remote \in Remote /\ faults \in 0 .. MaxSyncFaults
    BY BoundsAssumption DEF SyncInit, Remote
  <2>5. \A b \in Branches : repo.of[b] = 0 /\ remote.pushes[b] = 0 /\ remote.moves = 0
    BY DEF SyncInit
  <2> QED
    BY <2>1, <2>3, <2>4, <2>5 DEF CallsOK, OfOK
<1>3. LockOK
  BY IdleRecord DEF SyncInit, LockOK, LockSteps, At
<1>4. HolderOK /\ FetchedOK
  BY IdleRecord DEF SyncInit, HolderOK, FetchedOK
<1> QED
  BY <1>1, <1>2, <1>3, <1>4 DEF LInv, TypeInv

LEMMA HolderTypes ==
  ASSUME LInv, NEW s \in Syncs, HolderStep(s)
  PROVE  RepoOK'
<1>1. ASSUME sync[s].at \in {"write", "record"}
      PROVE  sync[s].seq \in 1 .. MaxVersions + 1 /\ sync[s].seq = repo.seq + 1 /\ sync[s].target \in Commits /\ repo.seq + 1 <= MaxVersions
  <2>1. repo.seq \in Nat /\ sync[s].seq \in 0 .. MaxVersions /\ MaxVersions \in Nat
    BY BoundsAssumption DEF LInv, TypeInv, RepoOK, CallsOK, Repo, SyncRecord
  <2> QED
    BY <1>1, <2>1 DEF LInv, HolderOK
<1>2. CASE Fetch(s)
  BY <1>2, FetchMoves DEF LInv, TypeInv, RepoOK, index
<1>3. ASSUME NEW p \in Paths, WriteFile(s, p) PROVE RepoOK'
  <2> DEFINE kind == IF files[p] = NoFile THEN "added" ELSE "modified"
  <2>1. sync[s].at = "write" /\ UNCHANGED <<repo, versions>>
    BY <1>3, WriteMoves DEF LInv
  <2>2. changes' = Changed(sync[s].seq, {p}, kind) /\ kind \in {"added", "modified", "deleted"}
    BY <1>3 DEF WriteFile
  <2>3. changes' \in [1 .. MaxVersions + 1 -> [Paths -> Kinds]]
    BY <1>1, <2>1, <2>2, ChangedKinds DEF LInv, TypeInv
  <2>4. files' \in [Paths -> FileData]
    BY <1>1, <1>3, <2>1, TreeContents DEF WriteFile, LInv, TypeInv, RepoOK
  <2> QED
    BY <2>1, <2>3, <2>4 DEF LInv, TypeInv, RepoOK
<1>4. CASE DeleteFiles(s)
  <2>1. sync[s].at = "write" /\ UNCHANGED <<repo, versions>>
    BY <1>4, DeleteMoves DEF LInv
  <2>2. \E gone \in SUBSET Paths : /\ changes' = Changed(sync[s].seq, gone, "deleted")
                                   /\ files' = [p \in Paths |-> IF p \in gone THEN NoFile ELSE files[p]]
    BY <1>4 DEF DeleteFiles
  <2>3. changes' \in [1 .. MaxVersions + 1 -> [Paths -> Kinds]]
    BY <1>1, <2>1, <2>2, ChangedKinds DEF LInv, TypeInv
  <2>4. files' \in [Paths -> FileData]
    BY <2>2 DEF LInv, TypeInv, RepoOK, FileData
  <2> QED
    BY <2>1, <2>3, <2>4 DEF LInv, TypeInv, RepoOK
<1>5. CASE Record(s)
  <2> DEFINE new == NewVersion(repo.seq + 1, sync[s].target)
  <2>1. sync[s].at = "record" /\ UNCHANGED <<files, changes>>
    BY <1>5, RecordMoves DEF LInv
  <2>2. /\ repo' = [repo EXCEPT !.commit = sync[s].target, !.of[sync[s].branch] = sync[s].fetched, !.seq = IF new THEN repo.seq + 1 ELSE @]
        /\ versions' = IF new THEN Append(versions, [commit |-> sync[s].target, was |-> files]) ELSE versions
    BY <1>5 DEF Record, LInv, TypeInv, RepoOK, Repo
  <2>3. sync[s].fetched \in 0 .. MaxMoves /\ repo.seq + 1 \in 0 .. MaxVersions
    BY <1>1, <2>1 DEF LInv, TypeInv, RepoOK, CallsOK, SyncRecord, Repo
  <2>4. repo' \in Repo /\ repo'.seq = IF new THEN repo.seq + 1 ELSE repo.seq
    BY <1>1, <2>1, <2>2, <2>3 DEF LInv, TypeInv, RepoOK, Repo
  <2>5. [commit |-> sync[s].target, was |-> files] \in Version
    BY <1>1, <2>1 DEF Version, LInv, TypeInv, RepoOK
  <2>6. versions' \in Seq(Version) /\ Len(versions') = repo'.seq
    BY <2>2, <2>4, <2>5 DEF LInv, TypeInv, RepoOK
  <2> QED
    BY <2>1, <2>4, <2>6 DEF LInv, TypeInv, RepoOK
<1> QED
  BY <1>2, <1>3, <1>4, <1>5 DEF HolderStep

LEMMA OneSyncTypes ==
  ASSUME LInv, NEW s \in Syncs, OneSync(s)
  PROVE  TypeInv'
<1>1. CASE Aside(s)
  <2>1. PICK r \in SyncRecord : Turns(s, r) /\ r.at \notin LockSteps
    BY <1>1 DEF Aside
  <2>2. RepoOK' /\ CallsOK'
    BY <1>1, <2>1 DEF Aside, Turns, SameRow, FaultsOK, index, LInv, TypeInv, RepoOK, CallsOK
  <2>3. LockOK'
    BY <1>1, <2>1, LockAside DEF Aside, Turns, LInv, TypeInv
  <2> QED
    BY <2>2, <2>3 DEF TypeInv
<1>2. CASE Queues(s)
  <2>1. PICK r \in SyncRecord : Turns(s, r) /\ r.at = "queued"
    BY <1>2 DEF Queues
  <2>2. LockOK' /\ mirror' \in Seq(Syncs)
    BY <1>2, <2>1, LockQueued DEF Queues, Turns, LInv, TypeInv
  <2>3. RepoOK' /\ CallsOK'
    BY <1>2, <2>1, <2>2 DEF Queues, Turns, SameRow, FaultsOK, index, LInv, TypeInv, RepoOK, CallsOK
  <2> QED
    BY <2>2, <2>3 DEF TypeInv
<1>3. CASE GivesBack(s)
  <2>1. PICK r \in SyncRecord : Turns(s, r) /\ r.at \notin LockSteps
    BY <1>3 DEF GivesBack
  <2>2. LockOK' /\ mirror' \in Seq(Syncs)
    BY <1>3, <2>1, LockGivenBack DEF GivesBack, Turns, LInv, TypeInv
  <2>3. RepoOK' /\ CallsOK'
    BY <1>3, <2>1, <2>2 DEF GivesBack, Turns, SameRow, FaultsOK, index, LInv, TypeInv, RepoOK, CallsOK
  <2> QED
    BY <2>2, <2>3 DEF TypeInv
<1>4. CASE HolderStep(s)
  <2>1. PICK r : HolderMoves(s, r)
    BY <1>4, FetchMoves, WriteMoves, DeleteMoves, RecordMoves DEF HolderStep, LInv
  <2>2. CallsOK'
    BY <2>1 DEF HolderMoves, LInv, TypeInv, CallsOK
  <2>3. LockOK'
    BY <2>1, LockHeld DEF HolderMoves, LInv, TypeInv
  <2> QED
    BY <1>4, <2>2, <2>3, HolderTypes DEF TypeInv
<1> QED
  BY <1>1, <1>2, <1>3, <1>4 DEF OneSync

LEMMA OneSyncHolder ==
  ASSUME LInv, NEW s \in Syncs, OneSync(s)
  PROVE  HolderOK' /\ FetchedOK' /\ OfOK' /\ Newer
<1>0. /\ \A u \in Syncs : sync[u] \in SyncRecord /\ sync[u].fetched \in Nat
      /\ \A b \in Branches : repo.of[b] \in Nat /\ remote.pushes[b] \in Nat /\ remote.tip[b] \in Commits
      /\ sync \in [Syncs -> SyncRecord] /\ repo \in Repo
  BY BoundsAssumption DEF LInv, TypeInv, RepoOK, CallsOK, SyncRecord, Repo, Remote
<1>1. CASE Aside(s) \/ Queues(s) \/ GivesBack(s)
  <2>1. PICK r \in SyncRecord : Turns(s, r) /\ r.at \notin {"write", "record"}
    BY <1>1 DEF Aside, Queues, GivesBack, LockSteps
  <2>2. \A u \in Syncs : sync'[u] = IF u = s THEN r ELSE sync[u]
    BY <1>0, <2>1 DEF Turns
  <2>3. UNCHANGED remote /\ SameRow
    BY <1>1, <2>1 DEF Aside, Queues, GivesBack, Turns
  <2>4. HolderOK'
    BY <1>0, <2>1, <2>2, <2>3 DEF HolderOK, SameRow, LInv
  <2>5. FetchedOK'
    BY <2>1, <2>2, <2>3 DEF FetchedOK, LInv
  <2> QED
    BY <1>0, <2>3, <2>4, <2>5 DEF OfOK, Newer, SameRow, LInv
<1>2. CASE HolderStep(s)
  <2>1. PICK r : HolderMoves(s, r)
    BY <1>2, FetchMoves, WriteMoves, DeleteMoves, RecordMoves DEF HolderStep, LInv
  <2>2. \A u \in Syncs \ {s} : sync'[u] = sync[u] /\ sync[u].at \notin {"write", "record"}
    BY <1>0, <2>1, PastTheWait, OneHolder DEF HolderMoves, LInv, TypeInv
  <2>3. sync'[s] = r /\ UNCHANGED remote
    BY <1>0, <2>1 DEF HolderMoves
  <2>4. CASE Fetch(s)
    <3>1. PICK base \in {repo.commit, NoCommit} : sync' = [sync EXCEPT ![s] = Fetching(s, base)] /\ UNCHANGED repo
      BY <2>4, FetchMoves DEF HolderMoves, LInv
    <3>2. /\ sync'[s].at = "write" /\ sync'[s].base = base /\ sync'[s].branch = Fetched(s) /\ sync'[s].seq = repo.seq + 1
          /\ sync'[s].target = remote.tip[Fetched(s)] /\ sync'[s].fetched = remote.pushes[Fetched(s)]
      BY <1>0, <3>1 DEF Fetching
    <3>3. /\ Fetched(s) \in Branches /\ remote.tip[Fetched(s)] \in Commits
          /\ repo.of[Fetched(s)] <= remote.pushes[Fetched(s)] /\ remote.pushes[Fetched(s)] \in Nat
      BY <1>0, FetchedBranch DEF LInv, OfOK
    <3>4. HolderOK'
      BY <2>2, <3>1, <3>2, <3>3 DEF HolderOK, LInv
    <3>5. FetchedOK'
      BY <2>2, <2>3, <3>2, <3>3 DEF FetchedOK, LInv
    <3> QED
      BY <1>0, <2>3, <3>1, <3>4, <3>5 DEF OfOK, Newer, LInv
  <2>5. CASE \E p \in Paths : WriteFile(s, p)
    <3>1. PICK p \in Paths : sync[s].at = "write" /\ UNCHANGED repo /\ HolderMoves(s, [sync[s] EXCEPT !.todo = @ \ {p}])
      BY <2>5, WriteMoves DEF LInv
    <3>2. sync'[s] = [sync[s] EXCEPT !.todo = @ \ {p}]
      BY <1>0, <3>1 DEF HolderMoves
    <3>3. /\ sync'[s].fetched = sync[s].fetched /\ sync'[s].seq = sync[s].seq
          /\ sync'[s].target = sync[s].target /\ sync'[s].base = sync[s].base /\ sync'[s].branch = sync[s].branch
      BY <1>0, <3>2 DEF SyncRecord
    <3> QED
      BY <1>0, <2>2, <2>3, <3>1, <3>3 DEF HolderOK, FetchedOK, OfOK, Newer, LInv
  <2>6. CASE DeleteFiles(s) \/ Record(s)
    <3>1. PICK step \in {"record", "finish"} : sync'[s] = [sync[s] EXCEPT !.at = step]
      BY <1>0, <2>6, DeleteMoves, RecordMoves DEF HolderMoves, LInv
    <3>2. /\ sync'[s].fetched = sync[s].fetched /\ sync'[s].seq = sync[s].seq /\ sync'[s].at = step
          /\ sync'[s].target = sync[s].target /\ sync'[s].base = sync[s].base /\ sync'[s].branch = sync[s].branch
      BY <1>0, <3>1 DEF SyncRecord
    <3>3. CASE DeleteFiles(s)
      <4>1. sync[s].at = "write" /\ UNCHANGED repo
        BY <3>3, DeleteMoves DEF LInv
      <4> QED
        BY <1>0, <2>2, <2>3, <3>2, <4>1 DEF HolderOK, FetchedOK, OfOK, Newer, LInv
    <3>4. CASE Record(s)
      <4>1. /\ sync[s].at = "record" /\ sync'[s].at = "finish"
            /\ repo'.of = [repo.of EXCEPT ![sync[s].branch] = sync[s].fetched]
        <5>1. sync[s].at = "record" /\ HolderMoves(s, [sync[s] EXCEPT !.at = "finish"])
          BY <3>4, RecordMoves DEF LInv
        <5>2. sync'[s] = [sync[s] EXCEPT !.at = "finish"]
          BY <1>0, <5>1 DEF HolderMoves
        <5> QED
          BY <1>0, <3>4, <5>1, <5>2 DEF Record, SyncRecord, Repo
      <4>2. /\ sync[s].branch \in Branches /\ repo.of[sync[s].branch] <= sync[s].fetched
            /\ sync[s].fetched <= remote.pushes[sync[s].branch]
        BY <4>1 DEF LInv, HolderOK, FetchedOK
      <4>3. \A b \in Branches : repo'.of[b] = IF b = sync[s].branch THEN sync[s].fetched ELSE repo.of[b]
        BY <1>0, <4>1 DEF Repo
      <4>4. OfOK' /\ Newer
        BY <1>0, <2>3, <4>2, <4>3 DEF OfOK, Newer, LInv
      <4>5. HolderOK' /\ FetchedOK'
        BY <2>2, <2>3, <4>1 DEF HolderOK, FetchedOK, LInv
      <4> QED
        BY <4>4, <4>5
    <3> QED
      BY <2>6, <3>3, <3>4
  <2> QED
    BY <1>2, <2>4, <2>5, <2>6 DEF HolderStep
<1> QED
  BY <1>1, <1>2 DEF OneSync

LEMMA LOthers ==
  ASSUME LInv, WebhookAges \/ RemoteMoves \/ RestartSyncs \/ UNCHANGED syncVars
  PROVE  LInv' /\ Newer
<1>0. /\ remote \in Remote /\ remote.moves \in Nat /\ MaxMoves \in Nat
      /\ \A b \in Branches : repo.of[b] \in Nat /\ remote.pushes[b] \in Nat
      /\ \A u \in Syncs : sync[u].fetched \in Nat
  BY BoundsAssumption DEF LInv, TypeInv, RepoOK, CallsOK, SyncRecord, Repo, Remote
<1>1. CASE WebhookAges
  <2>1. RepoOK' /\ SameRow
    BY <1>1 DEF WebhookAges, index, LInv, TypeInv, RepoOK, Repo, SameRow
  <2>2. UNCHANGED <<sync, mirror, remote, torn, faults>>
    BY <1>1 DEF WebhookAges
  <2>3. CallsOK' /\ LockOK' /\ FetchedOK'
    BY <2>2 DEF LInv, TypeInv, CallsOK, LockOK, FetchedOK, At
  <2>4. HolderOK' /\ OfOK'
    BY <2>1, <2>2 DEF LInv, HolderOK, OfOK, SameRow
  <2> QED
    BY <1>0, <2>1, <2>3, <2>4 DEF LInv, TypeInv, SameRow, Newer
<1>2. CASE RemoteMoves
  <2>1. /\ remote' \in Remote
        /\ \A b \in Branches : remote'.pushes[b] >= remote.pushes[b] /\ remote'.pushes[b] <= remote'.moves
    <3>1. PICK b \in Branches : remote.moves < MaxMoves /\ (Push(b) \/ SwitchDefault(b))
      BY <1>2 DEF RemoteMoves
    <3>2. \A a \in Branches : remote.pushes[a] \in Nat /\ remote.pushes[a] <= remote.moves
      BY <1>0 DEF LInv, OfOK
    <3>3. CASE Push(b)
      <4>1. PICK c \in Commits : remote' = [remote EXCEPT !.tip[b] = c, !.pushes[b] = @ + 1, !.moves = @ + 1]
        BY <3>3 DEF Push
      <4> DEFINE tip == [remote.tip EXCEPT ![b] = c]
                 pushes == [remote.pushes EXCEPT ![b] = @ + 1]
      <4>2. remote' = [branch |-> remote.branch, tip |-> tip, pushes |-> pushes, moves |-> remote.moves + 1]
        BY <1>0, <4>1 DEF Remote
      <4>3. \A a \in Branches : pushes[a] = IF a = b THEN remote.pushes[a] + 1 ELSE remote.pushes[a]
        BY <1>0 DEF Remote
      <4>4. \A a \in Branches : pushes[a] \in 0 .. MaxMoves
        BY <1>0, <3>1, <3>2, <4>3
      <4>5. tip \in [Branches -> Commits] /\ pushes \in [Branches -> 0 .. MaxMoves] /\ remote.branch \in Branches
        BY <1>0, <4>4 DEF Remote
      <4>6. remote.moves + 1 \in 0 .. MaxMoves
        BY <1>0, <3>1
      <4> HIDE DEF tip, pushes
      <4>7. remote' \in Remote /\ remote'.pushes = pushes /\ remote'.moves = remote.moves + 1
        BY <4>2, <4>5, <4>6 DEF Remote
      <4> QED
        BY <1>0, <3>2, <4>3, <4>7
    <3>4. CASE SwitchDefault(b)
      <4>1. remote' = [branch |-> b, tip |-> remote.tip, pushes |-> remote.pushes, moves |-> remote.moves + 1]
        BY <1>0, <3>4 DEF SwitchDefault, Remote
      <4>2. remote.moves + 1 \in 0 .. MaxMoves
        BY <1>0, <3>1
      <4>3. remote' \in Remote /\ remote'.pushes = remote.pushes /\ remote'.moves = remote.moves + 1
        BY <1>0, <4>1, <4>2 DEF Remote
      <4> QED
        BY <1>0, <3>2, <4>3
    <3> QED
      BY <3>1, <3>3, <3>4
  <2>2. UNCHANGED <<repo, files, changes, versions, sync, mirror, torn, faults>>
    BY <1>2 DEF RemoteMoves, index
  <2>3. RepoOK' /\ CallsOK' /\ LockOK' /\ HolderOK'
    BY <2>1, <2>2 DEF LInv, TypeInv, RepoOK, CallsOK, LockOK, At, HolderOK
  <2>4. FetchedOK' /\ OfOK'
    <3>1. \A b \in Branches : remote'.pushes[b] \in Nat
      BY <1>0, <2>1 DEF Remote
    <3> QED
      BY <1>0, <2>1, <2>2, <3>1 DEF LInv, FetchedOK, OfOK
  <2> QED
    BY <1>0, <2>2, <2>3, <2>4 DEF LInv, TypeInv, Newer
<1>3. CASE RestartSyncs
  <2>1. SameRow /\ UNCHANGED index
    BY <1>3 DEF RestartSyncs, Reconciled, SameRow, LInv, TypeInv, RepoOK, Repo
  <2>2. sync' = [u \in Syncs |-> Idle] /\ mirror' = <<>> /\ UNCHANGED remote /\ torn' \in BOOLEAN /\ FaultsOK
    BY <1>3, FaultBound DEF RestartSyncs, LInv, TypeInv
  <2>3. mirror' \in Seq(Syncs) /\ Len(mirror') = 0
    BY <2>2
  <2>4. RepoOK' /\ CallsOK'
    BY <2>1, <2>2, <2>3, IdleRecord DEF SameRow, index, LInv, TypeInv, RepoOK, CallsOK, FaultsOK
  <2>5. LockOK' /\ HolderOK'
    BY <2>2, <2>3, IdleRecord DEF LockOK, HolderOK, LockSteps, At
  <2>6. FetchedOK' /\ OfOK'
    BY <1>0, <2>1, <2>2, IdleRecord DEF FetchedOK, OfOK, SameRow, LInv
  <2> QED
    BY <1>0, <2>1, <2>4, <2>5, <2>6 DEF LInv, TypeInv, SameRow, Newer
<1>4. CASE UNCHANGED syncVars
  BY <1>0, <1>4 DEF syncVars, LInv, TypeInv, RepoOK, CallsOK, LockOK, HolderOK, FetchedOK, OfOK, Newer, At
<1> QED
  BY <1>1, <1>2, <1>3, <1>4

LEMMA LStep == LInv /\ [SyncNext]_syncVars => LInv' /\ Newer
<1> SUFFICES ASSUME LInv, [SyncNext]_syncVars PROVE LInv' /\ Newer
  OBVIOUS
<1>1. ASSUME NEW s \in Syncs, OneSync(s) PROVE LInv' /\ Newer
  BY <1>1, OneSyncTypes, OneSyncHolder DEF LInv
<1> QED
  BY <1>1, LOthers, StepKinds DEF LInv

\* Types, and that a sync past its wait is alone with the mirror.
THEOREM SyncTypeCorrect == SyncSpec => []SyncTypeOK
<1>1. SyncSpec => []LInv
  BY LInit, LStep, PTL DEF SyncSpec
<1>2. LInv => SyncTypeOK
  BY TypeInvTypes DEF LInv
<1> QED
  BY <1>1, <1>2, PTL

\* A sync that was slow never takes the index back, on any branch, to a commit of it older than one that was recorded
\* (git-sync.ts: the fetch and the record are under one mirror lock). Which branch it fetches was decided before the wait.
THEOREM IndexNeverOlder == SyncSpec => NeverOlder
<1>1. SyncSpec => []LInv
  BY LInit, LStep, PTL DEF SyncSpec
<1>2. LInv /\ [SyncNext]_syncVars => [Newer]_syncVars
  BY LStep
<1>3. NeverOlder <=> [][Newer]_syncVars
  BY DEF NeverOlder, Newer
<1> QED
  BY <1>1, <1>2, <1>3, PTL DEF SyncSpec
-----------------------------------------------------------------------------
(* The files and the recorded commit *)

TodoOK == \A s \in Syncs : At(s, "write") => \A p \in sync[s].todo : Tree[sync[s].target][p] # NoFile

\* As long as no sync stopped among its files: what is not to be written yet is already the target's, or not in it;
\* before the record the files are the target's; and when nobody writes they are the recorded commit's.
CleanOK ==
  ~torn =>
    /\ \A s \in Syncs : At(s, "write") =>
         \A p \in Paths \ sync[s].todo :
           Tree[sync[s].target][p] # NoFile => files[p] = Tree[sync[s].target][p]
    /\ \A s \in Syncs : At(s, "record") => files = Tree[sync[s].target]
    /\ Recorded
-----------------------------------------------------------------------------
(* The changes and the versions *)

\* A change of kind `kind` leads from content `before` to content `now`.
Makes(before, kind, now) ==
  CASE kind = None -> before = now
    [] kind = "added" -> before = NoFile /\ now # NoFile
    [] kind = "modified" -> before # NoFile /\ now # NoFile
    [] kind = "deleted" -> before # NoFile /\ now = NoFile

\* Between two versions, either nothing was recorded of the path, and its content is the same, or the first and the
\* last change say whether it existed.
ChangedIn(v, u, p) == {n \in v + 1 .. u : changes[n][p] # None}
Tells(v, u, p, was, is) ==
  IF ChangedIn(v, u, p) = {} THEN was = is
  ELSE \E first, last \in ChangedIn(v, u, p) :
         /\ \A n \in ChangedIn(v, u, p) : first <= n /\ n <= last
         /\ changes[first][p] = "added" <=> was = NoFile
         /\ changes[last][p] = "deleted" <=> is = NoFile

LaterOK == \A p \in Paths : changes[1][p] = None /\ \A n \in repo.seq + 2 .. MaxVersions + 1 : changes[n][p] = None
\* What a version under way has recorded leads from the last version's files to the files of now.
LeadsOK == repo.seq # 0 => \A p \in Paths : Makes(versions[repo.seq].was[p], changes[repo.seq + 1][p], files[p])
HistoryOK ==
  \A v \in 1 .. repo.seq, p \in Paths : Tells(v, repo.seq, p, versions[v].was[p], versions[repo.seq].was[p])
ChainOK == LaterOK /\ LeadsOK /\ HistoryOK


IInv == LInv /\ TodoOK /\ CleanOK /\ ChainOK
-----------------------------------------------------------------------------
(* The files follow the commit *)

LEMMA FInit == SyncInit => TodoOK /\ CleanOK
<1> SUFFICES ASSUME SyncInit PROVE TodoOK /\ CleanOK
  OBVIOUS
<1>1. \A s \in Syncs : sync[s].at = "idle"
  BY IdleRecord DEF SyncInit
<1>2. repo.commit = NoCommit
  BY DEF SyncInit
<1> QED
  BY <1>1, <1>2 DEF TodoOK, CleanOK, Recorded, At

\* What the steps of a holder leave alone, and what nobody else has.
LEMMA HolderFacts ==
  ASSUME LInv, NEW s \in Syncs, NEW r, HolderMoves(s, r)
  PROVE  /\ \A u \in Syncs \ {s} : sync'[u] = sync[u] /\ sync[u].at \notin {"write", "record"}
         /\ sync'[s] = r /\ UNCHANGED <<torn, mirror, remote>> /\ sync[s] \in SyncRecord
BY PastTheWait, OneHolder DEF HolderMoves, LInv, TypeInv, CallsOK

LEMMA FetchFiles ==
  ASSUME LInv, TodoOK, CleanOK, NEW s \in Syncs, Fetch(s)
  PROVE  TodoOK' /\ CleanOK'
<1>1. PICK base \in {repo.commit, NoCommit} : HolderMoves(s, Fetching(s, base))
  BY FetchMoves DEF LInv
<1>2. sync[s].at = "queued" /\ UNCHANGED <<repo, files, changes, versions>>
  BY FetchMoves DEF LInv, index
<1>3. /\ sync'[s].at = "write" /\ sync'[s].target = remote.tip[Fetched(s)]
      /\ sync'[s].todo = ToWrite(base, remote.tip[Fetched(s)])
      /\ \A u \in Syncs \ {s} : sync'[u] = sync[u] /\ sync[u].at \notin {"write", "record"}
      /\ torn' = torn
  BY <1>1, HolderFacts DEF Fetching
<1>4. TodoOK'
  BY <1>3 DEF TodoOK, At, ToWrite
<1>5. CleanOK'
  <2> SUFFICES ASSUME ~torn PROVE CleanOK'
    BY <1>3 DEF CleanOK
  <2>1. repo.commit # NoCommit => files = Tree[repo.commit]
    BY <1>2, <1>3 DEF CleanOK, Recorded, Writing
  <2>2. ASSUME NEW p \in Paths \ ToWrite(base, remote.tip[Fetched(s)]), Tree[remote.tip[Fetched(s)]][p] # NoFile
        PROVE  files[p] = Tree[remote.tip[Fetched(s)]][p]
    BY <2>1, <2>2 DEF ToWrite
  <2>3. \A u \in Syncs : At(u, "write")' => u = s
    BY <1>3 DEF At
  <2>4. \A u \in Syncs : ~At(u, "record")'
    BY <1>3 DEF At
  <2>5. Recorded'
    BY <1>3 DEF Recorded, Writing
  <2> QED
    BY <1>2, <1>3, <2>2, <2>3, <2>4, <2>5 DEF CleanOK
<1> QED
  BY <1>4, <1>5

LEMMA WriteFiles ==
  ASSUME LInv, TodoOK, CleanOK, NEW s \in Syncs, NEW p \in Paths, WriteFile(s, p)
  PROVE  TodoOK' /\ CleanOK'
<1>1. sync[s].at = "write" /\ p \in sync[s].todo /\ HolderMoves(s, [sync[s] EXCEPT !.todo = @ \ {p}])
  BY WriteMoves DEF LInv
<1>2. /\ sync'[s] = [sync[s] EXCEPT !.todo = @ \ {p}] /\ torn' = torn /\ sync[s] \in SyncRecord
      /\ \A u \in Syncs \ {s} : sync'[u] = sync[u] /\ sync[u].at \notin {"write", "record"}
  BY <1>1, HolderFacts
<1>3. sync'[s].at = "write" /\ sync'[s].target = sync[s].target /\ sync'[s].todo = sync[s].todo \ {p}
  BY <1>1, <1>2 DEF SyncRecord
<1>4. \A q \in Paths : files'[q] = IF q = p THEN Tree[sync[s].target][p] ELSE files[q]
  BY DEF WriteFile, LInv, TypeInv, RepoOK
<1>5. TodoOK'
  <2>1. \A q \in sync[s].todo : Tree[sync[s].target][q] # NoFile
    BY <1>1 DEF TodoOK, At
  <2>2. \A u \in Syncs : At(u, "write")' => u = s
    BY <1>2 DEF At
  <2>3. \A q \in sync'[s].todo : Tree[sync'[s].target][q] # NoFile
    BY <1>3, <2>1
  <2> QED
    BY <2>2, <2>3 DEF TodoOK
<1>6. CleanOK'
  <2> SUFFICES ASSUME ~torn PROVE CleanOK'
    BY <1>2 DEF CleanOK
  <2>1. \A q \in Paths \ sync'[s].todo : Tree[sync'[s].target][q] # NoFile => files'[q] = Tree[sync'[s].target][q]
    BY <1>1, <1>3, <1>4 DEF CleanOK, At
  <2>2. \A u \in Syncs : (At(u, "write")' => u = s) /\ ~At(u, "record")'
    BY <1>2, <1>3 DEF At
  <2>3. Recorded'
    BY <1>3 DEF Recorded, Writing
  <2> QED
    BY <2>1, <2>2, <2>3 DEF CleanOK
<1> QED
  BY <1>5, <1>6

LEMMA DeleteFilesFiles ==
  ASSUME LInv, TodoOK, CleanOK, NEW s \in Syncs, DeleteFiles(s)
  PROVE  TodoOK' /\ CleanOK'
<1>1. sync[s].at = "write" /\ sync[s].todo = {} /\ HolderMoves(s, [sync[s] EXCEPT !.at = "record"])
  BY DeleteMoves DEF LInv
<1>2. /\ sync'[s] = [sync[s] EXCEPT !.at = "record"] /\ torn' = torn /\ sync[s] \in SyncRecord
      /\ \A u \in Syncs \ {s} : sync'[u] = sync[u] /\ sync[u].at \notin {"write", "record"}
  BY <1>1, HolderFacts
<1>3. sync'[s].at = "record" /\ sync'[s].target = sync[s].target /\ sync[s].target \in Commits
  BY <1>1, <1>2 DEF SyncRecord, LInv, HolderOK
<1>4. TodoOK'
  BY <1>2, <1>3 DEF TodoOK, At
<1>5. CleanOK'
  <2> SUFFICES ASSUME ~torn PROVE CleanOK'
    BY <1>2 DEF CleanOK
  <2>1. /\ files' = [p \in Paths |-> IF files[p] # NoFile /\ Tree[sync[s].target][p] = NoFile THEN NoFile ELSE files[p]]
        /\ files \in [Paths -> FileData]
    BY DEF DeleteFiles, LInv, TypeInv, RepoOK
  <2>2. \A p \in Paths : Tree[sync[s].target][p] # NoFile => files[p] = Tree[sync[s].target][p]
    BY <1>1 DEF CleanOK, At
  <2>3. Tree[sync[s].target] = [p \in Paths |-> Tree[sync[s].target][p]]
    BY <1>3, TreeContents
  <2>4. \A p \in Paths : files'[p] = Tree[sync[s].target][p]
    BY <2>1, <2>2
  <2>5. files' = Tree[sync'[s].target]
    BY <1>3, <2>1, <2>3, <2>4
  <2>6. \A u \in Syncs : (At(u, "record")' => u = s) /\ ~At(u, "write")'
    BY <1>2, <1>3 DEF At
  <2>7. Recorded'
    BY <1>3 DEF Recorded, Writing
  <2> QED
    BY <2>5, <2>6, <2>7 DEF CleanOK
<1> QED
  BY <1>4, <1>5

LEMMA RecordFiles ==
  ASSUME LInv, TodoOK, CleanOK, NEW s \in Syncs, Record(s)
  PROVE  TodoOK' /\ CleanOK'
<1>1. sync[s].at = "record" /\ UNCHANGED <<files, changes>> /\ HolderMoves(s, [sync[s] EXCEPT !.at = "finish"])
  BY RecordMoves DEF LInv
<1>2. /\ sync'[s] = [sync[s] EXCEPT !.at = "finish"] /\ torn' = torn /\ sync[s] \in SyncRecord
      /\ \A u \in Syncs \ {s} : sync'[u] = sync[u] /\ sync[u].at \notin {"write", "record"}
  BY <1>1, HolderFacts
<1>3. sync'[s].at = "finish"
  BY <1>2 DEF SyncRecord
<1>4. \A u \in Syncs : sync'[u].at \notin {"write", "record"}
  BY <1>2, <1>3
<1>5. repo'.commit = sync[s].target
  BY DEF Record, LInv, TypeInv, RepoOK, Repo
<1>6. ~torn => files = Tree[sync[s].target]
  BY <1>1 DEF CleanOK, At
<1> QED
  BY <1>1, <1>2, <1>4, <1>5, <1>6 DEF TodoOK, CleanOK, Recorded, At

LEMMA OtherFiles ==
  ASSUME LInv, TodoOK, CleanOK,
         (\E s \in Syncs : Aside(s) \/ Queues(s) \/ GivesBack(s)) \/ WebhookAges \/ RemoteMoves \/ RestartSyncs
           \/ UNCHANGED syncVars
  PROVE  TodoOK' /\ CleanOK'
<1>0. repo \in Repo /\ sync \in [Syncs -> SyncRecord] /\ torn \in BOOLEAN
  BY DEF LInv, TypeInv, RepoOK, CallsOK
<1>1. ASSUME NEW s \in Syncs, Aside(s) \/ Queues(s) \/ GivesBack(s) PROVE TodoOK' /\ CleanOK'
  <2>1. PICK r \in SyncRecord : Turns(s, r) /\ r.at \notin {"write", "record"}
    BY <1>1 DEF Aside, Queues, GivesBack, LockSteps
  <2>2. \A u \in Syncs : sync'[u] = IF u = s THEN r ELSE sync[u]
    BY <1>0, <2>1 DEF Turns
  <2>3. UNCHANGED files /\ repo'.commit = repo.commit
    BY <1>1, <2>1 DEF Aside, Queues, GivesBack, Turns, SameRow, index
  <2>4. TodoOK'
    BY <2>1, <2>2 DEF TodoOK, At
  <2>5. ~torn' => ~torn /\ ~Writing(s)
    <3>1. CASE Aside(s) \/ Queues(s)
      BY <3>1 DEF Aside, Queues, LockSteps, Writing
    <3>2. CASE GivesBack(s)
      BY <3>2 DEF GivesBack
    <3> QED
      BY <1>1, <3>1, <3>2
  <2>6. ~torn' => \A u \in Syncs : (Writing(u) <=> Writing(u)') /\ (Writing(u) => sync'[u] = sync[u])
    BY <2>1, <2>2, <2>5 DEF Writing
  <2>7. CleanOK'
    BY <2>3, <2>5, <2>6 DEF CleanOK, Recorded, At, Writing
  <2> QED
    BY <2>4, <2>7
<1>2. CASE WebhookAges
  <2>1. UNCHANGED <<files, sync, torn>> /\ repo'.commit = repo.commit
    BY <1>0, <1>2 DEF WebhookAges, index, Repo
  <2> QED
    BY <2>1 DEF TodoOK, CleanOK, Recorded, Writing, At
<1>3. CASE RemoteMoves \/ UNCHANGED syncVars
  BY <1>3 DEF RemoteMoves, syncVars, index, TodoOK, CleanOK, Recorded, Writing, At
<1>4. CASE RestartSyncs
  <2>1. UNCHANGED files /\ repo'.commit = repo.commit
    BY <1>0, <1>4 DEF RestartSyncs, index, Reconciled, Repo
  <2>2. \A u \in Syncs : sync'[u].at = "idle"
    BY <1>4, IdleRecord DEF RestartSyncs
  <2>3. ~torn' => ~torn /\ \A u \in Syncs : ~Writing(u)
    BY <1>4 DEF RestartSyncs
  <2> QED
    BY <2>1, <2>2, <2>3 DEF TodoOK, CleanOK, Recorded, At
<1> QED
  BY <1>1, <1>2, <1>3, <1>4
-----------------------------------------------------------------------------
(* The changes lead from version to version *)

LEMMA NetLeads ==
  ASSUME NEW before, NEW earlier \in Kinds, NEW between, NEW kind \in {"added", "modified", "deleted"}, NEW now,
         Makes(before, earlier, between), Makes(between, kind, now)
  PROVE  Makes(before, Net(earlier, kind), now)
BY DEF Makes, Net, Kinds, None

LEMMA TellsNothing ==
  ASSUME NEW v \in Nat, NEW p, NEW was
  PROVE  Tells(v, v, p, was, was)
<1>1. ChangedIn(v, v, p) = {}
  BY DEF ChangedIn
<1> QED
  BY <1>1 DEF Tells

LEMMA TellsMore ==
  ASSUME NEW v \in Nat, NEW u \in Nat, v <= u, NEW p, NEW was, NEW is, NEW now, changes[u + 1][p] \in Kinds,
         Tells(v, u, p, was, is), Makes(is, changes[u + 1][p], now)
  PROVE  Tells(v, u + 1, p, was, now)
<1>0. ChangedIn(v, u, p) \subseteq Nat /\ \A n \in ChangedIn(v, u, p) : n <= u
  BY DEF ChangedIn
<1>1. CASE changes[u + 1][p] = None
  <2>1. ChangedIn(v, u + 1, p) = ChangedIn(v, u, p)
    BY <1>1 DEF ChangedIn
  <2>2. is = now
    BY <1>1 DEF Makes, None
  <2> QED
    BY <2>1, <2>2 DEF Tells
<1>2. CASE changes[u + 1][p] # None
  <2>1. ChangedIn(v, u + 1, p) = ChangedIn(v, u, p) \cup {u + 1}
    BY <1>2 DEF ChangedIn
  <2>2. changes[u + 1][p] = "added" <=> is = NoFile
    BY <1>2 DEF Makes, Kinds, None
  <2>3. changes[u + 1][p] = "deleted" <=> now = NoFile
    BY <1>2 DEF Makes, Kinds, None
  <2>4. CASE ChangedIn(v, u, p) = {}
    <3>1. was = is /\ ChangedIn(v, u + 1, p) = {u + 1}
      BY <2>1, <2>4 DEF Tells
    <3> QED
      BY <2>2, <2>3, <3>1 DEF Tells
  <2>5. CASE ChangedIn(v, u, p) # {}
    <3>1. PICK first \in ChangedIn(v, u, p) :
            /\ \A n \in ChangedIn(v, u, p) : first <= n
            /\ changes[first][p] = "added" <=> was = NoFile
      BY <2>5 DEF Tells
    <3>2. \A n \in ChangedIn(v, u + 1, p) : first <= n /\ n <= u + 1
      BY <1>0, <2>1, <3>1
    <3>3. first \in ChangedIn(v, u + 1, p) /\ u + 1 \in ChangedIn(v, u + 1, p)
      BY <2>1
    <3> QED
      BY <2>3, <3>1, <3>2, <3>3 DEF Tells
  <2> QED
    BY <2>4, <2>5
<1> QED
  BY <1>1, <1>2

LEMMA CInit == SyncInit => ChainOK
<1> SUFFICES ASSUME SyncInit PROVE ChainOK
  OBVIOUS
<1>1. repo.seq = 0
  BY DEF SyncInit
<1>2. LaterOK
  BY <1>1, BoundsAssumption DEF SyncInit, LaterOK
<1> QED
  BY <1>1, <1>2 DEF ChainOK, LeadsOK, HistoryOK

\* The changes of one transaction, under the number after the last version's.
LEMMA ChangesChain ==
  ASSUME LInv, ChainOK, NEW paths \in SUBSET Paths, NEW kind \in {"added", "modified", "deleted"}, repo.seq + 1 <= MaxVersions,
         changes' = Changed(repo.seq + 1, paths, kind), UNCHANGED <<repo, versions>>,
         \A q \in Paths : IF q \in paths THEN Makes(files[q], kind, files'[q]) ELSE files'[q] = files[q]
  PROVE  ChainOK'
<1> DEFINE seq == repo.seq + 1
<1>0. repo.seq \in Nat /\ MaxVersions \in Nat /\ seq \in 1 .. MaxVersions + 1
  BY BoundsAssumption DEF LInv, TypeInv, RepoOK, Repo
<1>1. \A n \in 1 .. MaxVersions + 1, q \in Paths :
        /\ changes'[n][q] = IF n = seq /\ seq # 1 /\ q \in paths THEN Net(changes[n][q], kind) ELSE changes[n][q]
        /\ changes[n][q] \in Kinds
  BY <1>0, ChangedKinds DEF LInv, TypeInv, RepoOK
<1>2. LaterOK'
  BY <1>0, <1>1 DEF ChainOK, LaterOK
<1>3. LeadsOK'
  <2> SUFFICES ASSUME repo.seq # 0, NEW q \in Paths
               PROVE  Makes(versions[repo.seq].was[q], changes'[seq][q], files'[q])
    BY DEF LeadsOK
  <2>1. Makes(versions[repo.seq].was[q], changes[seq][q], files[q]) /\ changes[seq][q] \in Kinds
    BY <1>0, <1>1 DEF ChainOK, LeadsOK
  <2>2. CASE q \in paths
    <3>1. changes'[seq][q] = Net(changes[seq][q], kind)
      BY <1>0, <1>1, <2>2
    <3>2. Makes(files[q], kind, files'[q])
      BY <2>2
    <3> QED
      BY <2>1, <3>1, <3>2, NetLeads
  <2>3. CASE q \notin paths
    BY <1>0, <1>1, <2>1, <2>3
  <2> QED
    BY <2>2, <2>3
<1>4. HistoryOK'
  <2> SUFFICES ASSUME NEW v \in 1 .. repo.seq, NEW q \in Paths
               PROVE  Tells(v, repo.seq, q, versions[v].was[q], versions[repo.seq].was[q])'
    BY DEF HistoryOK
  <2>1. \A n \in v + 1 .. repo.seq : changes'[n][q] = changes[n][q]
    BY <1>0, <1>1
  <2>2. ChangedIn(v, repo.seq, q)' = ChangedIn(v, repo.seq, q)
    BY <2>1 DEF ChangedIn
  <2>3. \A n \in ChangedIn(v, repo.seq, q) : changes'[n][q] = changes[n][q]
    BY <2>1 DEF ChangedIn
  <2>4. Tells(v, repo.seq, q, versions[v].was[q], versions[repo.seq].was[q])
    BY DEF ChainOK, HistoryOK
  <2> QED
    BY <2>2, <2>3, <2>4 DEF Tells
<1> QED
  BY <1>2, <1>3, <1>4 DEF ChainOK

LEMMA HolderChain ==
  ASSUME LInv, TodoOK, ChainOK, NEW s \in Syncs, HolderStep(s)
  PROVE  ChainOK'
<1>0. /\ repo.seq \in Nat /\ MaxVersions \in Nat /\ files \in [Paths -> FileData] /\ repo \in Repo
      /\ \A n \in 1 .. MaxVersions + 1, q \in Paths : changes[n][q] \in Kinds
  BY BoundsAssumption DEF LInv, TypeInv, RepoOK, Repo
<1>1. ASSUME sync[s].at \in {"write", "record"}
      PROVE  sync[s].seq = repo.seq + 1 /\ repo.seq + 1 <= MaxVersions
  <2>1. sync[s].seq \in 0 .. MaxVersions
    BY DEF LInv, TypeInv, CallsOK, SyncRecord
  <2> QED
    BY <1>0, <1>1, <2>1 DEF LInv, HolderOK
<1>2. CASE Fetch(s)
  BY <1>2, FetchMoves DEF LInv, index, ChainOK, LaterOK, LeadsOK, HistoryOK, Tells, ChangedIn
<1>3. ASSUME NEW p \in Paths, WriteFile(s, p) PROVE ChainOK'
  <2> DEFINE kind == IF files[p] = NoFile THEN "added" ELSE "modified"
  <2>1. sync[s].at = "write" /\ p \in sync[s].todo /\ UNCHANGED <<repo, versions>>
    BY <1>3, WriteMoves DEF LInv
  <2>2. Tree[sync[s].target][p] # NoFile
    BY <2>1 DEF TodoOK, At
  <2>3. \A q \in Paths : files'[q] = IF q = p THEN Tree[sync[s].target][p] ELSE files[q]
    BY <1>0, <1>3 DEF WriteFile
  <2>4. Makes(files[p], kind, files'[p]) /\ kind \in {"added", "modified", "deleted"}
    BY <2>2, <2>3 DEF Makes, None
  <2>5. changes' = Changed(repo.seq + 1, {p}, kind) /\ repo.seq + 1 <= MaxVersions
    BY <1>1, <1>3, <2>1 DEF WriteFile
  <2>6. \A q \in Paths : IF q \in {p} THEN Makes(files[q], kind, files'[q]) ELSE files'[q] = files[q]
    BY <2>3, <2>4
  <2> HIDE DEF kind
  <2> QED
    BY <2>1, <2>4, <2>5, <2>6, ChangesChain
<1>4. CASE DeleteFiles(s)
  <2> DEFINE gone == {p \in Paths : files[p] # NoFile /\ Tree[sync[s].target][p] = NoFile}
  <2>1. sync[s].at = "write" /\ UNCHANGED <<repo, versions>>
    BY <1>4, DeleteMoves DEF LInv
  <2>2. changes' = Changed(repo.seq + 1, gone, "deleted") /\ repo.seq + 1 <= MaxVersions
    BY <1>1, <1>4, <2>1 DEF DeleteFiles
  <2>3. \A q \in Paths : files'[q] = IF q \in gone THEN NoFile ELSE files[q]
    BY <1>4 DEF DeleteFiles
  <2>4. \A q \in Paths : IF q \in gone THEN Makes(files[q], "deleted", files'[q]) ELSE files'[q] = files[q]
    BY <2>3 DEF Makes, None
  <2>5. gone \in SUBSET Paths
    OBVIOUS
  <2> HIDE DEF gone
  <2> QED
    BY <2>1, <2>2, <2>4, <2>5, ChangesChain
<1>5. CASE Record(s)
  <2> DEFINE new == NewVersion(repo.seq + 1, sync[s].target)
             version == [commit |-> sync[s].target, was |-> files]
  <2>1. sync[s].at = "record" /\ UNCHANGED <<files, changes>>
    BY <1>5, RecordMoves DEF LInv
  <2>2. /\ repo'.seq = IF new THEN repo.seq + 1 ELSE repo.seq
        /\ versions' = IF new THEN Append(versions, version) ELSE versions
    BY <1>0, <1>5 DEF Record, Repo
  <2>3. versions \in Seq(Version) /\ Len(versions) = repo.seq /\ version \in Version
    BY <1>0, <2>1 DEF LInv, TypeInv, RepoOK, HolderOK, Version
  <2> HIDE DEF new
  <2>4. CASE ~new
    <3>1. repo'.seq = repo.seq /\ versions' = versions
      BY <2>2, <2>4
    <3> QED
      BY <2>1, <3>1 DEF ChainOK, LaterOK, LeadsOK, HistoryOK, Tells, ChangedIn
  <2>5. CASE new
    <3>1. /\ repo'.seq = repo.seq + 1 /\ versions'[repo.seq + 1].was = files
          /\ \A v \in 1 .. repo.seq : versions'[v] = versions[v]
      BY <1>0, <2>2, <2>3, <2>5
    <3>2. LaterOK'
      BY <1>0, <2>1, <3>1 DEF ChainOK, LaterOK
    <3>3. LeadsOK'
      <4>1. \A q \in Paths : changes[repo.seq + 2][q] = None
        BY <1>0, <1>1, <2>1 DEF ChainOK, LaterOK
      <4>2. \A q \in Paths : Makes(files[q], changes[repo.seq + 2][q], files[q])
        BY <4>1 DEF Makes, None
      <4> QED
        BY <1>0, <2>1, <3>1, <4>2 DEF LeadsOK
    <3>4. HistoryOK'
      <4> SUFFICES ASSUME NEW v \in 1 .. repo.seq + 1, NEW q \in Paths
                   PROVE  Tells(v, repo.seq, q, versions[v].was[q], versions[repo.seq].was[q])'
        BY <1>0, <2>1, <3>1 DEF HistoryOK
      <4>1. Tells(v, repo.seq + 1, q, versions'[v].was[q], files[q])
        <5>1. CASE v = repo.seq + 1
          BY <1>0, <3>1, <5>1, TellsNothing
        <5>2. CASE v \in 1 .. repo.seq
          <6>1. Tells(v, repo.seq, q, versions[v].was[q], versions[repo.seq].was[q])
            BY <5>2 DEF ChainOK, HistoryOK
          <6>2. Makes(versions[repo.seq].was[q], changes[repo.seq + 1][q], files[q]) /\ changes[repo.seq + 1][q] \in Kinds
            BY <1>0, <1>1, <2>1, <5>2 DEF ChainOK, LeadsOK
          <6>3. v \in Nat /\ v <= repo.seq /\ versions'[v].was[q] = versions[v].was[q]
            BY <3>1, <5>2
          <6> QED
            BY <1>0, <6>1, <6>2, <6>3, TellsMore
        <5> QED
          BY <1>0, <5>1, <5>2
      <4> QED
        BY <2>1, <3>1, <4>1 DEF Tells, ChangedIn
    <3> QED
      BY <3>2, <3>3, <3>4 DEF ChainOK
  <2> QED
    BY <2>4, <2>5
<1> QED
  BY <1>2, <1>3, <1>4, <1>5 DEF HolderStep

LEMMA OtherChain ==
  ASSUME LInv, ChainOK,
         (\E s \in Syncs : Aside(s) \/ Queues(s) \/ GivesBack(s)) \/ WebhookAges \/ RemoteMoves \/ RestartSyncs
           \/ UNCHANGED syncVars
  PROVE  ChainOK'
<1>1. repo'.seq = repo.seq /\ UNCHANGED index
  <2>0. repo \in Repo
    BY DEF LInv, TypeInv, RepoOK
  <2>1. CASE \E s \in Syncs : Aside(s) \/ Queues(s) \/ GivesBack(s)
    BY <2>1 DEF Aside, Queues, GivesBack, Turns, SameRow
  <2>2. CASE WebhookAges \/ RemoteMoves \/ UNCHANGED syncVars
    BY <2>0, <2>2 DEF WebhookAges, RemoteMoves, syncVars, index, Repo
  <2>3. CASE RestartSyncs
    BY <2>0, <2>3 DEF RestartSyncs, Reconciled, Repo
  <2> QED
    BY <2>1, <2>2, <2>3
<1> QED
  BY <1>1 DEF index, ChainOK, LaterOK, LeadsOK, HistoryOK, Tells, ChangedIn

LEMMA Inductive == IInv /\ [SyncNext]_syncVars => IInv'
<1> SUFFICES ASSUME IInv, [SyncNext]_syncVars PROVE IInv'
  OBVIOUS
<1>1. LInv'
  BY LStep DEF IInv
<1>2. ASSUME NEW s \in Syncs, HolderStep(s) PROVE TodoOK' /\ CleanOK' /\ ChainOK'
  BY <1>2, FetchFiles, WriteFiles, DeleteFilesFiles, RecordFiles, HolderChain DEF IInv, HolderStep
<1>3. CASE (\E s \in Syncs : Aside(s) \/ Queues(s) \/ GivesBack(s)) \/ WebhookAges \/ RemoteMoves \/ RestartSyncs
             \/ UNCHANGED syncVars
  BY <1>1, <1>3, OtherFiles, OtherChain DEF IInv
<1> QED
  BY <1>1, <1>2, <1>3, StepKinds DEF IInv, LInv, OneSync

LEMMA SyncInvariance == SyncSpec => []IInv
<1>1. SyncInit => IInv
  BY LInit, FInit, CInit DEF IInv
<1> QED
  BY <1>1, Inductive, PTL DEF SyncSpec

\* Whatever overlapped, the recorded commit is what the files are, as long as no sync stopped among its files.
THEOREM CommitIsIndexed == SyncSpec => []IndexIsCommit
<1>1. IInv => IndexIsCommit
  BY DEF IInv, CleanOK, IndexIsCommit
<1> QED
  BY <1>1, SyncInvariance, PTL

LEMMA HistoryAnswers == IInv => ChangesAreKnown
<1> SUFFICES ASSUME IInv, NEW v \in 1 .. repo.seq, NEW p \in Paths
             PROVE  NetSince(v, p) \in IF versions[v].was[p] = files[p] THEN {None, "modified"}
                       ELSE {IF versions[v].was[p] = NoFile THEN "added" ELSE IF files[p] = NoFile THEN "deleted" ELSE "modified"}
  BY DEF ChangesAreKnown
<1> DEFINE was == versions[v].was[p]
           seqs == {n \in DOMAIN changes : n > v /\ changes[n][p] # None}
<1>0. /\ repo.seq \in Nat /\ MaxVersions \in Nat /\ repo.seq <= MaxVersions /\ DOMAIN changes = 1 .. MaxVersions + 1
      /\ \A n \in 1 .. MaxVersions + 1 : changes[n][p] \in Kinds
  BY BoundsAssumption DEF IInv, LInv, TypeInv, RepoOK, Repo
<1>1. Tells(v, repo.seq + 1, p, was, files[p])
  <2>1. Tells(v, repo.seq, p, was, versions[repo.seq].was[p])
    BY DEF IInv, ChainOK, HistoryOK
  <2>2. Makes(versions[repo.seq].was[p], changes[repo.seq + 1][p], files[p]) /\ changes[repo.seq + 1][p] \in Kinds
    BY <1>0 DEF IInv, ChainOK, LeadsOK
  <2> QED
    BY <1>0, <2>1, <2>2, TellsMore
<1>2. seqs = ChangedIn(v, repo.seq + 1, p)
  <2>1. \A n \in repo.seq + 2 .. MaxVersions + 1 : changes[n][p] = None
    BY DEF IInv, ChainOK, LaterOK
  <2> QED
    BY <1>0, <2>1 DEF ChangedIn
<1>3. CASE seqs = {}
  <2>1. NetSince(v, p) = None
    BY <1>3 DEF NetSince
  <2> QED
    BY <1>1, <1>2, <1>3, <2>1 DEF Tells
<1>4. CASE seqs # {}
  <2>1. PICK first \in seqs, last \in seqs :
          /\ \A n \in seqs : first <= n /\ n <= last
          /\ changes[first][p] = "added" <=> was = NoFile
          /\ changes[last][p] = "deleted" <=> files[p] = NoFile
    BY <1>1, <1>2, <1>4 DEF Tells
  <2>2. seqs \subseteq Nat
    BY <1>0
  <2> HIDE DEF seqs, was
  <2>3. first = CHOOSE n \in seqs : \A m \in seqs : n <= m
    <3> DEFINE least == CHOOSE n \in seqs : \A m \in seqs : n <= m
    <3>1. least \in seqs /\ \A m \in seqs : least <= m
      BY <2>1
    <3> HIDE DEF least
    <3>2. least \in Nat /\ first \in Nat /\ least <= first /\ first <= least
      BY <2>1, <2>2, <3>1
    <3>3. least = first
      BY <3>2
    <3> QED
      BY <3>3 DEF least
  <2>4. last = CHOOSE n \in seqs : \A m \in seqs : n >= m
    <3> DEFINE greatest == CHOOSE n \in seqs : \A m \in seqs : n >= m
    <3>0. last \in seqs /\ \A m \in seqs : last >= m
      BY <2>1, <2>2
    <3>1. greatest \in seqs /\ \A m \in seqs : greatest >= m
      BY <3>0
    <3> HIDE DEF greatest
    <3>2. greatest \in Nat /\ last \in Nat /\ greatest <= last /\ last <= greatest
      BY <2>2, <3>0, <3>1
    <3>3. greatest = last
      BY <3>2
    <3> QED
      BY <3>3 DEF greatest
  <2>5. NetSince(v, p) = IF changes[first][p] = "added" /\ changes[last][p] = "deleted" THEN None
                         ELSE IF changes[last][p] = "deleted" THEN "deleted"
                         ELSE IF changes[first][p] = "added" THEN "added" ELSE "modified"
    BY <1>4, <2>3, <2>4 DEF NetSince, seqs
  <2> QED
    BY <2>1, <2>5 DEF was
<1> QED
  BY <1>3, <1>4

\* changed_since answers from any recorded version with exactly what differs from it now, through deletes, re-adds,
\* failed and overlapping syncs.
THEOREM ChangesAnswer == SyncSpec => []ChangesAreKnown
BY SyncInvariance, HistoryAnswers, PTL
-----------------------------------------------------------------------------
(* Extraction: what is known of the rows, the queue and the worker *)

JobSteps == {"read", "resolve", "commit", "complete"}
RowSteps == {"resolve", "commit", "complete"}
WorkerSteps == {"idle", "between", "reresolve", "next", "claim", "down"} \cup JobSteps
Row == [id : Nat, content : Nat]
Job == [key : Nat \X Nat, file : Files, prio : {Write, CatchUp}, tries : Nat, ready : BOOLEAN]
Move == [file : Files, target : Nat]
Batch == [at : {"none", "open", "requested"}, files : SUBSET Files, paths : SUBSET Files]
WorkerRecord ==
  [at : WorkerSteps, repo : Repos \cup {""}, prio : {Write, CatchUp}, left : 0 .. TurnFiles, job : Job \cup {NoJob}, place : Nat,
   read : Row, target : Nat, paths : SUBSET Files, moves : SUBSET Move]

\* An id that was given to one of F, and to no other path.
Owned(id, F) == id \in 0 .. nextId - 1 /\ \A h \in Files : id # 0 /\ rows[h].id = id => h \in F

RowsOK ==
  /\ nextId \in Nat \ {0} /\ rows \in [Files -> Row]
  /\ \A f \in Files : rows[f] = NoRow \/ (rows[f].id \in 1 .. nextId - 1 /\ rows[f].content \in Contents[f])
  /\ \A f, g \in Files : rows[f].id = rows[g].id /\ rows[f].id # 0 => f = g
DerivedOK ==
  /\ derived \in [Files -> [of : Nat, target : Nat]]
  /\ \A f \in Files : derived[f].of \in {0} \cup Contents[f]
  /\ \A f \in Files : derived[f].target = 0 \/ \E g \in Tries(f) : rows[g].id = derived[f].target
MemoryOK ==
  /\ batch \in [Repos -> Batch] /\ requests \in [Repos -> SUBSET Files] /\ DOMAIN siblings = Repos
  /\ missed \in [files : SUBSET Files, paths : SUBSET Files, overtaken : SUBSET Files]
  /\ writes \in Nat /\ failures \in Nat

\* A job is of a content its file had, under the id it had then.
Sane(j) == j \in Job /\ j.key[1] # 0 /\ Owned(j.key[1], {j.file}) /\ j.key[2] \in Contents[j.file] /\ j.tries <= MaxAttempts
Working == worker.at \in JobSteps
QueueOK ==
  /\ queue \in Seq(Job) /\ \A i \in DOMAIN queue : Sane(queue[i])
  /\ \A i, j \in DOMAIN queue : queue[i].key = queue[j].key => i = j
  /\ finished \subseteq [key : Keys, how : {"done", "error", "expired"}]
JobOK ==
  /\ Working => /\ Sane(worker.job) /\ worker.place \in 1 .. Len(queue) + 1
                /\ \A i \in DOMAIN queue : queue[i].key # worker.job.key
  /\ ~Working => worker.job = NoJob
  /\ worker.at \notin RowSteps => worker.read = NoRow
  /\ worker.at \in RowSteps => worker.read = NoRow \/ (worker.read.id = worker.job.key[1] /\ worker.read.content \in Contents[worker.job.file])
  /\ worker.at \in {"resolve", "commit"} => worker.read # NoRow
  /\ worker.at \notin {"commit", "complete"} => worker.target = 0
  /\ worker.at \in {"commit", "complete"} => Owned(worker.target, Tries(worker.job.file))
MovesOK ==
  /\ worker \in WorkerRecord
  /\ ~On("reresolve") => worker.paths = {} /\ worker.moves = {}
  /\ On("reresolve") => /\ worker.repo \in Repos
                        /\ \A m \in worker.moves : RepoOf[m.file] = worker.repo /\ Owned(m.target, Tries(m.file))
                        /\ \A m, n \in worker.moves : m.file = n.file => m = n

InTurn == worker.at \in {"claim"} \cup JobSteps
\* What of the turn under way a repository may still have to wait for.
Ahead(r) == IF InTurn /\ worker.repo # r THEN worker.left ELSE 0
TurnOK ==
  /\ served \in [Repos -> SUBSET Repos] /\ \A r, q \in Repos : q \in served[r] => r \notin served[q]
  /\ waited \in [Repos -> Nat]
  /\ InTurn => worker.repo \in Repos /\ \A r \in Repos \ {worker.repo} : worker.repo \in served[r]
  /\ \A r \in Repos : waited[r] > 0 => Waiting(r, Write) # {}
  /\ Working => worker.left < TurnFiles
  /\ On("claim") /\ worker.left = TurnFiles => Waiting(worker.repo, worker.prio) # {}
  /\ \A r \in Repos : waited[r] <= TurnFiles * Cardinality(Repos \ {r})
  /\ \A r \in Repos : (On("claim") /\ worker.repo = r /\ worker.left = TurnFiles)
                      \/ waited[r] + Ahead(r) <= TurnFiles * Cardinality(served[r])

\* A job that will read the row as it is, or a reason why there is none.
HasJob(f) == \E i \in DOMAIN queue : queue[i].key[1] = rows[f].id
Later(f) == HasJob(f) \/ GaveUp(f) \/ f \in missed.files \/ f \in missed.overtaken
UnderWay(f) == /\ worker.at \in {"read", "resolve", "commit"} /\ worker.job.key[1] = rows[f].id
               /\ worker.at # "read" => worker.read = rows[f]
Pushed(f) == f \in batch[RepoOf[f]].files
Promised(f) == rows[f] # NoRow => derived[f].of = rows[f].content \/ Pushed(f) \/ Later(f) \/ UnderWay(f)
\* The row changed after the job had read it.
Altered(f) == worker.at \in RowSteps /\ rows[f] # NoRow /\ worker.read.id = rows[f].id /\ worker.read # rows[f] => Pushed(f) \/ Later(f)
\* The row changed and changed back: the dropped result leaves it to another job.
ChangedBack(f) ==
  worker.at = "complete" /\ rows[f] # NoRow /\ worker.read = rows[f] => derived[f].of = rows[f].content \/ Later(f)
ContentOK == \A f \in Files : Promised(f) /\ Altered(f) /\ ChangedBack(f)

\* The paths of a repository that will be, or should have been, resolved again.
Asked(r) == missed.paths \cup requests[r] \cup (IF batch[r].at = "open" THEN batch[r].paths ELSE {})
Taken(r) == IF On("reresolve") /\ worker.repo = r THEN worker.paths ELSE {}
Due(f) == Resolve(ListOf(RepoOf[f]), f)
After(f) == IF \E m \in worker.moves : m.file = f THEN Moved(f).target ELSE derived[f].target
Leads(f) == derived[f].of # 0 => derived[f].target = Due(f) \/ Tries(f) \cap (Asked(RepoOf[f]) \cup Taken(RepoOf[f])) # {}
WillLead(f) ==
  On("reresolve") /\ worker.repo = RepoOf[f] /\ derived[f].of # 0 => After(f) = Due(f) \/ Tries(f) \cap Asked(RepoOf[f]) # {}
Resolved(f) == On("commit") /\ worker.job.file = f => worker.target = Due(f) \/ Tries(f) \cap Asked(RepoOf[f]) # {}
Cached(r) ==
  siblings[r] # NoList =>
    \A p \in Of(r) : Owned(siblings[r][p], {p}) /\ (siblings[r][p] = rows[p].id \/ p \in Asked(r))
ImportsOK == (\A f \in Files : Leads(f) /\ WillLead(f) /\ Resolved(f)) /\ (\A r \in Repos : Cached(r))

EInv == RowsOK /\ DerivedOK /\ MemoryOK /\ QueueOK /\ JobOK /\ MovesOK /\ TurnOK /\ ContentOK /\ ImportsOK
-----------------------------------------------------------------------------
(* Operators *)

LEMMA Least ==
  ASSUME NEW S \in SUBSET Nat, S # {}
  PROVE  \E i \in S : \A j \in S : i <= j
<1>1. PICK i \in S : \A j \in S : <<j, i>> \notin OpToRel(<, Nat)
  BY NatLessThanWellFounded, WFMin
<1>2. \A j \in S : ~(j < i)
  BY <1>1 DEF OpToRel
<1> QED
  BY <1>2

LEMMA OldestWaits ==
  ASSUME queue \in Seq(Job), NEW r \in Repos, NEW prio, Waiting(r, prio) # {}
  PROVE  Oldest(r, prio) \in Waiting(r, prio) /\ \A j \in Waiting(r, prio) : Oldest(r, prio) <= j
<1>1. Waiting(r, prio) \in SUBSET Nat
  BY DEF Waiting
<1>2. \E i \in Waiting(r, prio) : \A j \in Waiting(r, prio) : i <= j
  BY <1>1, Least
<1> QED
  BY <1>2 DEF Oldest

LEMMA Imported ==
  ASSUME NEW f \in Files
  PROVE  /\ Imports[f] \in Seq(Files) /\ Tries(f) \in SUBSET Of(RepoOf[f])
         /\ DOMAIN Imports[f] \in SUBSET Nat /\ \A i \in DOMAIN Imports[f] : Imports[f][i] \in Tries(f)
BY FilesAssumption DEF Tries, Of

\* An import leads to the id that the list has for one of the paths it tries, or nowhere.
LEMMA ResolveIs ==
  ASSUME NEW list, NEW f \in Files
  PROVE  Resolve(list, f) = 0 \/ \E p \in Tries(f) : Resolve(list, f) = list[p] /\ list[p] # 0
<1> DEFINE known == {i \in DOMAIN Imports[f] : list[Imports[f][i]] # 0}
           first == CHOOSE i \in known : \A j \in known : i <= j
<1>1. CASE known = {}
  BY <1>1 DEF Resolve
<1>2. CASE known # {}
  <2>1. \E i \in known : \A j \in known : i <= j
    BY <1>2, Imported, Least
  <2>2. first \in known
    BY <2>1
  <2>3. Resolve(list, f) = list[Imports[f][first]]
    BY <1>2 DEF Resolve
  <2> QED
    BY <2>2, <2>3, Imported
<1> QED
  BY <1>1, <1>2

\* Only what a list has for the paths an import tries counts.
LEMMA ResolveSame ==
  ASSUME NEW list, NEW other, NEW f \in Files, \A p \in Tries(f) : list[p] = other[p]
  PROVE  Resolve(list, f) = Resolve(other, f)
<1> DEFINE known(l) == {i \in DOMAIN Imports[f] : l[Imports[f][i]] # 0}
           first(l) == CHOOSE i \in known(l) : \A j \in known(l) : i <= j
<1>1. \A i \in DOMAIN Imports[f] : list[Imports[f][i]] = other[Imports[f][i]]
  BY Imported
<1>2. known(list) = known(other)
  BY <1>1
<1>3. first(list) = first(other)
  BY <1>2
<1>4. known(list) # {} => first(list) \in known(list)
  <2>1. known(list) # {} => \E i \in known(list) : \A j \in known(list) : i <= j
    BY Imported, Least
  <2> QED
    BY <2>1
<1>5. known(list) # {} => list[Imports[f][first(list)]] = other[Imports[f][first(other)]]
  BY <1>1, <1>3, <1>4
<1>6. Resolve(list, f) = IF known(list) = {} THEN 0 ELSE list[Imports[f][first(list)]]
  BY DEF Resolve
<1>7. Resolve(other, f) = IF known(other) = {} THEN 0 ELSE other[Imports[f][first(other)]]
  BY DEF Resolve
<1> QED
  BY <1>2, <1>5, <1>6, <1>7

LEMMA DueIs ==
  ASSUME NEW f \in Files
  PROVE  Due(f) = 0 \/ \E p \in Tries(f) : Due(f) = rows[p].id /\ rows[p].id # 0
<1>1. Due(f) = 0 \/ \E p \in Tries(f) : Due(f) = ListOf(RepoOf[f])[p] /\ ListOf(RepoOf[f])[p] # 0
  BY ResolveIs DEF Due
<1> QED
  BY <1>1, Imported DEF ListOf

\* A sequence that names every file of a set once.
LEMMA InOrder ==
  ASSUME NEW fs \in SUBSET Files
  PROVE  /\ Cardinality(fs) \in Nat
         /\ \E s \in [1 .. Cardinality(fs) -> fs] : \A f \in fs : \E i \in DOMAIN s : s[i] = f
         /\ \A s \in [1 .. Cardinality(fs) -> fs] :
              (\A f \in fs : \E i \in DOMAIN s : s[i] = f) => \A i, j \in DOMAIN s : s[i] = s[j] => i = j
<1>1. IsFiniteSet(fs)
  BY FilesAssumption, FS_Subset
<1>2. Cardinality(fs) \in Nat /\ ExistsBijection(1 .. Cardinality(fs), fs)
  BY <1>1, FS_CardinalityType
<1>3. IsFiniteSet(1 .. Cardinality(fs)) /\ Cardinality(1 .. Cardinality(fs)) = Cardinality(fs)
  BY <1>2, FS_Interval
<1>4. \A s \in Surjection(1 .. Cardinality(fs), fs) : s \in Injection(1 .. Cardinality(fs), fs)
  BY <1>1, <1>3, FS_SurjSameCardinalityImpliesInj
<1> QED
  BY <1>2, <1>4 DEF ExistsBijection, Bijection, Surjection, Injection, IsInjective

NewJob(f, prio) == [key |-> Key(f), file |-> f, prio |-> prio, tries |-> 0, ready |-> TRUE]
\* The queue with a job of each of fs behind it.
Joined(q, fs, prio) ==
  /\ q \in Seq(Job) /\ Len(q) \in Nat /\ Len(queue) <= Len(q)
  /\ \A i \in 1 .. Len(queue) : q[i] = queue[i]
  /\ \A i \in Len(queue) + 1 .. Len(q) : \E f \in fs : q[i] = NewJob(f, prio)
  /\ \A f \in fs : \E i \in Len(queue) + 1 .. Len(q) : q[i] = NewJob(f, prio)
  /\ \A i, j \in Len(queue) + 1 .. Len(q) : q[i].file = q[j].file => i = j

LEMMA EnqueuedIs ==
  ASSUME RowsOK, queue \in Seq(Job), NEW fs \in SUBSET Files, NEW rerun, NEW prio \in {Write, CatchUp}, Enqueued(fs, rerun, prio)
  PROVE  /\ New(fs, rerun) \in SUBSET fs /\ Joined(queue', New(fs, rerun), prio)
         /\ finished' = {j \in finished : \A f \in New(fs, rerun) : j.key # Key(f)}
<1> DEFINE new == New(fs, rerun)
           order == CHOOSE s \in [1 .. Cardinality(new) -> new] : \A f \in new : \E i \in DOMAIN s : s[i] = f
           n == Cardinality(new)
           tail == [i \in DOMAIN order |-> NewJob(order[i], prio)]
<1>1. new \in SUBSET fs /\ new \in SUBSET Files
  BY DEF New
<1>2. /\ n \in Nat /\ order \in [1 .. n -> new] /\ \A f \in new : \E i \in DOMAIN order : order[i] = f
      /\ \A i, j \in DOMAIN order : order[i] = order[j] => i = j
  BY <1>1, InOrder
<1>3. queue' = queue \o tail
  BY DEF Enqueued, NewJob
<1>4. \A f \in new : NewJob(f, prio) \in Job /\ NewJob(f, prio).file = f
  BY <1>1 DEF NewJob, Job, Key, RowsOK, Row
<1> HIDE DEF new, order, n
<1>5. tail \in Seq(Job) /\ Len(tail) = n /\ DOMAIN order = 1 .. n
  BY <1>2, <1>4
<1>6. /\ queue' \in Seq(Job) /\ Len(queue') = Len(queue) + n /\ Len(queue) \in Nat
      /\ \A i \in 1 .. Len(queue) : queue'[i] = queue[i]
      /\ \A i \in Len(queue) + 1 .. Len(queue) + n : queue'[i] = tail[i - Len(queue)] /\ i - Len(queue) \in 1 .. n
  BY <1>2, <1>3, <1>5
<1>7. \A i \in 1 .. n : tail[i] = NewJob(order[i], prio) /\ order[i] \in new
  BY <1>2, <1>5
<1>8. \A i \in Len(queue) + 1 .. Len(queue') : \E f \in new : queue'[i] = NewJob(f, prio)
  BY <1>2, <1>6, <1>7
<1>9. \A f \in new : \E i \in Len(queue) + 1 .. Len(queue') : queue'[i] = NewJob(f, prio)
  <2> TAKE f \in new
  <2>1. PICK i \in 1 .. n : order[i] = f
    BY <1>2, <1>5
  <2>2. i + Len(queue) \in Len(queue) + 1 .. Len(queue')
    BY <1>2, <1>6
  <2>3. queue'[i + Len(queue)] = tail[(i + Len(queue)) - Len(queue)]
    BY <1>2, <1>6, <2>2
  <2>4. (i + Len(queue)) - Len(queue) = i
    BY <1>6
  <2> QED
    BY <1>7, <2>1, <2>2, <2>3, <2>4
<1>10. \A i, j \in Len(queue) + 1 .. Len(queue') : queue'[i].file = queue'[j].file => i = j
  <2> TAKE i, j \in Len(queue) + 1 .. Len(queue')
  <2> HAVE queue'[i].file = queue'[j].file
  <2> DEFINE k == i - Len(queue)
             l == j - Len(queue)
  <2>1. k \in 1 .. n /\ l \in 1 .. n /\ queue'[i] = NewJob(order[k], prio) /\ queue'[j] = NewJob(order[l], prio)
    BY <1>2, <1>6, <1>7
  <2>2. order[k] = order[l]
    BY <1>4, <1>7, <2>1
  <2>3. k = l
    BY <1>2, <1>5, <2>1, <2>2
  <2> QED
    BY <1>6, <2>3
<1>11. finished' = {j \in finished : \A f \in new : j.key # Key(f)}
  BY DEF Enqueued, new
<1>12. Joined(queue', new, prio)
  <2>1. queue' \in Seq(Job) /\ Len(queue') \in Nat /\ Len(queue) <= Len(queue')
    BY <1>2, <1>6
  <2>2. \A i \in 1 .. Len(queue) : queue'[i] = queue[i]
    BY <1>6
  <2> QED
    BY <2>1, <2>2, <1>8, <1>9, <1>10, Zenon DEF Joined
<1> QED
  BY <1>1, <1>11, <1>12 DEF new

LEMMA Joining ==
  ASSUME NEW s \in Seq(Job), NEW t \in Seq(Job)
  PROVE  /\ s \o t \in Seq(Job) /\ Len(s \o t) = Len(s) + Len(t)
         /\ \A k \in 1 .. Len(s) : (s \o t)[k] = s[k]
         /\ \A k \in Len(s) + 1 .. Len(s) + Len(t) : (s \o t)[k] = t[k - Len(s)]
OBVIOUS

LEMMA Joined1 ==
  ASSUME NEW s \in Seq(Job), NEW j \in Job
  PROVE  /\ s \o <<j>> \in Seq(Job) /\ Len(s \o <<j>>) = Len(s) + 1 /\ (s \o <<j>>)[Len(s) + 1] = j
         /\ \A k \in 1 .. Len(s) : (s \o <<j>>)[k] = s[k]
OBVIOUS

\* The queue without the job at i.
Removed(q, i) ==
  /\ q \in Seq(Job) /\ Len(q) = Len(queue) - 1
  /\ \A k \in 1 .. Len(q) : q[k] = IF k < i THEN queue[k] ELSE queue[k + 1]
LEMMA WithoutIs ==
  ASSUME queue \in Seq(Job), NEW i \in 1 .. Len(queue)
  PROVE  Removed(Without(i), i)
<1>1. PICK a, b, c : a = SubSeq(queue, 1, i - 1) /\ b = SubSeq(queue, i + 1, Len(queue)) /\ c = a \o b /\ c = Without(i)
  BY DEF Without
<1>2. a \in Seq(Job) /\ Len(a) = i - 1 /\ \A k \in 1 .. i - 1 : a[k] = queue[k]
  BY <1>1
<1>3. b \in Seq(Job) /\ Len(b) = Len(queue) - i /\ \A k \in 1 .. Len(queue) - i : b[k] = queue[k + i]
  BY <1>1
<1>4. /\ c \in Seq(Job) /\ Len(c) = (i - 1) + Len(b)
      /\ \A k \in 1 .. i - 1 : c[k] = a[k]
      /\ \A k \in (i - 1) + 1 .. (i - 1) + Len(b) : c[k] = b[k - (i - 1)]
  <2>1. a \in Seq(Job) /\ b \in Seq(Job) /\ c = a \o b
    BY <1>1, <1>2, <1>3
  <2>2. /\ c \in Seq(Job) /\ Len(c) = Len(a) + Len(b)
        /\ \A k \in 1 .. Len(a) : c[k] = a[k]
        /\ \A k \in Len(a) + 1 .. Len(a) + Len(b) : c[k] = b[k - Len(a)]
    BY <2>1, Joining, Zenon
  <2>3. Len(a) = i - 1
    BY <1>2
  <2> QED
    BY <2>2, <2>3, Zenon
<1>5. Len(queue) \in Nat /\ Len(c) = Len(queue) - 1
  BY <1>2, <1>3, <1>4
<1>6. \A k \in i .. Len(queue) - 1 : c[k] = queue[k + 1]
  <2> TAKE k \in i .. Len(queue) - 1
  <2>1. k - (i - 1) \in 1 .. Len(queue) - i /\ (k - (i - 1)) + i = k + 1
    OBVIOUS
  <2>2. c[k] = b[k - (i - 1)]
    <3>1. k \in (i - 1) + 1 .. (i - 1) + Len(b)
      BY <1>3
    <3> QED
      BY <1>4, <3>1, Zenon
  <2> QED
    BY <1>3, <2>1, <2>2
<1>7. \A k \in 1 .. i - 1 : c[k] = queue[k]
  BY <1>2, <1>4
<1>8. \A k \in 1 .. Len(c) : c[k] = IF k < i THEN queue[k] ELSE queue[k + 1]
  BY <1>5, <1>6, <1>7
<1> QED
  BY <1>1, <1>4, <1>5, <1>8, Zenon DEF Removed

\* The queue with the jobs at `places` alone.
LeftAlone(q, places) ==
  /\ q \in Seq(Job) /\ \A i \in DOMAIN q : \E k \in places : q[i] = queue[k]
  /\ \A i, j \in DOMAIN q : q[i].key = q[j].key => i = j
  /\ \A k \in places : \E i \in DOMAIN q : q[i] = queue[k]
LEMMA RemainIs ==
  ASSUME QueueOK, NEW places \in SUBSET DOMAIN queue, Remain(places)
  PROVE  LeftAlone(queue', places)
<1>1. queue \in Seq(Job) /\ Len(queue) \in Nat /\ DOMAIN queue = 1 .. Len(queue)
  BY DEF QueueOK
<1>2. PICK n \in Nat : n = Cardinality(places)
  <2>1. IsFiniteSet(1 .. Len(queue))
    BY <1>1, FS_Interval
  <2> QED
    BY <1>1, <2>1, FS_Subset, FS_CardinalityType
<1>3. PICK left \in [1 .. n -> places] :
        /\ \A i, j \in 1 .. n : i < j => left[i] < left[j]
        /\ \A k \in places : \E i \in 1 .. n : left[i] = k
        /\ queue' = [i \in 1 .. n |-> queue[left[i]]]
  BY <1>2 DEF Remain
<1>4. \A i \in 1 .. n : left[i] \in places /\ left[i] \in DOMAIN queue /\ left[i] \in Nat /\ queue[left[i]] \in Job
  BY <1>1, <1>3
<1>5. queue' \in Seq(Job) /\ DOMAIN queue' = 1 .. n /\ \A i \in 1 .. n : queue'[i] = queue[left[i]]
  BY <1>3, <1>4
<1>6. ASSUME NEW i \in 1 .. n, NEW j \in 1 .. n, queue'[i].key = queue'[j].key
      PROVE  i = j
  <2>1. left[i] = left[j]
    BY <1>4, <1>5, <1>6 DEF QueueOK
  <2> QED
    BY <1>3, <1>4, <2>1
<1>7. \A k \in places : \E i \in 1 .. n : queue'[i] = queue[k]
  BY <1>3, <1>5
<1> QED
  BY <1>4, <1>5, <1>6, <1>7 DEF LeftAlone

\* The claimed job in its place by age, not ready.
Put(q, i, j) ==
  /\ q \in Seq(Job) /\ Len(q) = Len(queue) + 1 /\ q[i] = j /\ i \in 1 .. Len(q)
  /\ \A k \in 1 .. Len(queue) : q[IF k < i THEN k ELSE k + 1] = queue[k]
  /\ \A k \in 1 .. Len(q) : k # i => q[k] = IF k < i THEN queue[k] ELSE queue[k - 1]
LEMMA BackIs ==
  ASSUME queue \in Seq(Job), worker.job \in Job, worker.place \in 1 .. Len(queue) + 1
  PROVE  Put(Back, worker.place, [worker.job EXCEPT !.ready = FALSE])
<1>1. PICK i \in 1 .. Len(queue) + 1 : i = worker.place
  OBVIOUS
<1>2. PICK j \in Job : j = [worker.job EXCEPT !.ready = FALSE]
  BY DEF Job
<1>3. PICK a, b, c, d : /\ a = SubSeq(queue, 1, i - 1) /\ b = SubSeq(queue, i, Len(queue))
                        /\ c = a \o <<j>> /\ d = c \o b /\ d = Back
  BY <1>1, <1>2 DEF Back
<1>4. a \in Seq(Job) /\ Len(a) = i - 1 /\ \A k \in 1 .. i - 1 : a[k] = queue[k]
  BY <1>3
<1>5. b \in Seq(Job) /\ Len(b) = Len(queue) - i + 1 /\ \A k \in 1 .. Len(queue) - i + 1 : b[k] = queue[k + i - 1]
  BY <1>3
<1>6. c \in Seq(Job) /\ Len(c) = i /\ c[i] = j /\ \A k \in 1 .. i - 1 : c[k] = queue[k]
  <2>1. c \in Seq(Job) /\ Len(c) = Len(a) + 1 /\ c[Len(a) + 1] = j /\ \A k \in 1 .. Len(a) : c[k] = a[k]
    BY <1>3, <1>4, Joined1
  <2>2. Len(a) + 1 = i
    BY <1>4
  <2> QED
    BY <1>4, <2>1, <2>2
<1>7. /\ d \in Seq(Job) /\ Len(d) = Len(queue) + 1 /\ d[i] = j
      /\ \A k \in 1 .. i - 1 : d[k] = queue[k]
      /\ \A k \in i + 1 .. Len(queue) + 1 : d[k] = b[k - i]
  <2>1. /\ d \in Seq(Job) /\ Len(d) = i + Len(b)
        /\ \A k \in 1 .. i : d[k] = c[k]
        /\ \A k \in i + 1 .. i + Len(b) : d[k] = b[k - i]
    <3>1. c \in Seq(Job) /\ b \in Seq(Job) /\ d = c \o b /\ Len(c) = i
      BY <1>3, <1>5, <1>6
    <3> QED
      BY <3>1, Joining, Zenon
  <2>2. Len(queue) \in Nat /\ i + Len(b) = Len(queue) + 1
    BY <1>5
  <2> QED
    BY <1>6, <2>1, <2>2
<1>8. \A k \in i + 1 .. Len(queue) + 1 : d[k] = queue[k - 1]
  <2> TAKE k \in i + 1 .. Len(queue) + 1
  <2>1. k - i \in 1 .. Len(queue) - i + 1 /\ (k - i) + i - 1 = k - 1
    OBVIOUS
  <2> QED
    BY <1>5, <1>7, <2>1
<1>9. \A k \in 1 .. Len(queue) : d[IF k < i THEN k ELSE k + 1] = queue[k]
  <2> TAKE k \in 1 .. Len(queue)
  <2>1. CASE k < i
    BY <1>7, <2>1
  <2>2. CASE ~(k < i)
    <3>1. k + 1 \in i + 1 .. Len(queue) + 1 /\ (k + 1) - 1 = k
      BY <2>2
    <3>2. d[k + 1] = queue[(k + 1) - 1]
      BY <1>8, <3>1
    <3> QED
      BY <2>2, <3>1, <3>2
  <2> QED
    BY <2>1, <2>2
<1>10. i \in 1 .. Len(d)
  BY <1>7
<1>11. \A k \in 1 .. Len(d) : k # i => d[k] = IF k < i THEN queue[k] ELSE queue[k - 1]
  BY <1>7, <1>8
<1>12. Put(d, i, j)
  BY <1>7, <1>9, <1>10, <1>11, Zenon DEF Put
<1> QED
  BY <1>1, <1>2, <1>3, <1>12
-----------------------------------------------------------------------------
(* Rows, their ids, and the rows derived from them *)

\* What a sync does to a path: a new row has an id that none had before.
Stored(f, row) ==
  /\ rows' = [rows EXCEPT ![f] = row] /\ nextId' \in {nextId, nextId + 1}
  /\ \/ row = NoRow /\ rows[f] # NoRow /\ nextId' = nextId
     \/ row.content \in Contents[f] /\ row \in Row /\ rows[f] # NoRow /\ row.id = rows[f].id /\ row # rows[f] /\ nextId' = nextId
     \/ row.content \in Contents[f] /\ row \in Row /\ rows[f] = NoRow /\ row.id = nextId /\ nextId' = nextId + 1
  /\ f \notin batch[RepoOf[f]].files /\ batch[RepoOf[f]].at # "requested"
  /\ batch' = [batch EXCEPT ![RepoOf[f]] =
                [at |-> "open",
                 files |-> IF row = NoRow THEN batch[RepoOf[f]].files ELSE batch[RepoOf[f]].files \cup {f},
                 paths |-> IF row.id # rows[f].id THEN batch[RepoOf[f]].paths \cup {f} ELSE batch[RepoOf[f]].paths]]
  /\ writes' = writes + 1
  /\ UNCHANGED <<memory, jobs, worker, turns, missed, failures>>

LEMMA ContentTypes == \A f \in Files : RepoOf[f] \in Repos /\ Contents[f] \in SUBSET Nat /\ 0 \notin Contents[f]
BY FilesAssumption

LEMMA Opened ==
  ASSUME NEW b \in Batch, NEW fs, NEW ps
  PROVE  [[[b EXCEPT !.at = "open"] EXCEPT !.files = fs] EXCEPT !.paths = ps] = [at |-> "open", files |-> fs, paths |-> ps]
<1>1. [b EXCEPT !.at = "open"] = [at |-> "open", files |-> b.files, paths |-> b.paths]
  BY DEF Batch
<1>2. [[at |-> "open", files |-> b.files, paths |-> b.paths] EXCEPT !.files = fs] = [at |-> "open", files |-> fs, paths |-> b.paths]
  OBVIOUS
<1>3. [[at |-> "open", files |-> fs, paths |-> b.paths] EXCEPT !.paths = ps] = [at |-> "open", files |-> fs, paths |-> ps]
  OBVIOUS
<1> QED
  BY <1>1, <1>2, <1>3

LEMMA WriteIs ==
  ASSUME RowsOK, MemoryOK, NEW f \in Files, WriteContent(f)
  PROVE  derived' = derived /\ \E row \in Row : row # NoRow /\ Stored(f, row)
<1>1. PICK c \in Contents[f] \ {rows[f].content} :
        LET id == IF rows[f] = NoRow THEN nextId ELSE rows[f].id
        IN /\ Written(RepoOf[f], f, [id |-> id, content |-> c], rows[f] = NoRow)
           /\ nextId' = IF rows[f] = NoRow THEN nextId + 1 ELSE nextId
           /\ UNCHANGED derived
  BY DEF WriteContent
<1>2. PICK row \in Row : row = [id |-> IF rows[f] = NoRow THEN nextId ELSE rows[f].id, content |-> c]
  BY ContentTypes DEF RowsOK, Row
<1>3. c # 0 /\ rows[f] \in Row
  BY ContentTypes DEF RowsOK
<1>4. row # NoRow /\ row # rows[f] /\ row.content = c /\ row.id = IF rows[f] = NoRow THEN nextId ELSE rows[f].id
  BY <1>2, <1>3 DEF NoRow
<1>5. rows[f] = NoRow <=> row.id # rows[f].id
  BY <1>3, <1>4 DEF RowsOK, NoRow
<1>6. Written(RepoOf[f], f, row, rows[f] = NoRow)
  BY <1>1, <1>2
<1>7. batch[RepoOf[f]] \in Batch
  BY ContentTypes DEF MemoryOK
<1>8. batch' = [batch EXCEPT ![RepoOf[f]] =
                [at |-> "open",
                 files |-> IF row = NoRow THEN batch[RepoOf[f]].files ELSE batch[RepoOf[f]].files \cup {f},
                 paths |-> IF row.id # rows[f].id THEN batch[RepoOf[f]].paths \cup {f} ELSE batch[RepoOf[f]].paths]]
  <2>1. batch' = [batch EXCEPT ![RepoOf[f]].at = "open", ![RepoOf[f]].files = IF row = NoRow THEN @ ELSE @ \cup {f},
                               ![RepoOf[f]].paths = IF rows[f] = NoRow THEN @ \cup {f} ELSE @]
    BY <1>6 DEF Written
  <2>2. batch' = [batch EXCEPT ![RepoOf[f]].at = "open",
                               ![RepoOf[f]].files = IF row = NoRow THEN batch[RepoOf[f]].files ELSE batch[RepoOf[f]].files \cup {f},
                               ![RepoOf[f]].paths = IF row.id # rows[f].id THEN batch[RepoOf[f]].paths \cup {f} ELSE batch[RepoOf[f]].paths]
    BY <1>5, <2>1
  <2>3. PICK fs, ps : /\ fs = IF row = NoRow THEN batch[RepoOf[f]].files ELSE batch[RepoOf[f]].files \cup {f}
                      /\ ps = IF row.id # rows[f].id THEN batch[RepoOf[f]].paths \cup {f} ELSE batch[RepoOf[f]].paths
    OBVIOUS
  <2>4. batch' = [batch EXCEPT ![RepoOf[f]] = [at |-> "open", files |-> fs, paths |-> ps]]
    <3>1. batch' = [batch EXCEPT ![RepoOf[f]].at = "open", ![RepoOf[f]].files = fs, ![RepoOf[f]].paths = ps]
      BY <2>2, <2>3
    <3> QED
      <4>1. PICK b \in Batch : b = batch[RepoOf[f]]
        BY ContentTypes DEF MemoryOK
      <4>2. \A q \in Repos : batch'[q] = IF q = RepoOf[f] THEN [[[b EXCEPT !.at = "open"] EXCEPT !.files = fs] EXCEPT !.paths = ps] ELSE batch[q]
        BY <3>1, <4>1, ContentTypes DEF MemoryOK
      <4>3. batch' = [q \in Repos |-> batch'[q]]
        BY <3>1, ContentTypes DEF MemoryOK
      <4>4. [[[b EXCEPT !.at = "open"] EXCEPT !.files = fs] EXCEPT !.paths = ps] = [at |-> "open", files |-> fs, paths |-> ps]
        BY Opened
      <4> QED
        BY <4>2, <4>3, <4>4, ContentTypes DEF MemoryOK
  <2> QED
    BY <2>3, <2>4
<1> QED
  BY <1>1, <1>4, <1>6, <1>8 DEF Stored, Written

LEMMA DeleteIs ==
  ASSUME RowsOK, MemoryOK, NEW f \in Files, DeleteFile(f)
  PROVE  /\ rows[f] # NoRow /\ Stored(f, NoRow)
         /\ derived' = [g \in Files |-> IF g = f THEN Nothing
                                        ELSE IF derived[g].target = rows[f].id THEN [derived[g] EXCEPT !.target = 0] ELSE derived[g]]
<1>1. batch[RepoOf[f]] \in Batch
  BY ContentTypes DEF MemoryOK
<1>2. rows[f].id # 0 /\ NoRow.id = 0
  BY DEF DeleteFile, RowsOK, NoRow
<1>3. batch' = [batch EXCEPT ![RepoOf[f]].at = "open", ![RepoOf[f]].files = @, ![RepoOf[f]].paths = @ \cup {f}]
  BY DEF DeleteFile, Written
<1>4. batch' = [batch EXCEPT ![RepoOf[f]] = [at |-> "open", files |-> batch[RepoOf[f]].files,
                                                  paths |-> batch[RepoOf[f]].paths \cup {f}]]
  <2>1. batch' = [batch EXCEPT ![RepoOf[f]].at = "open", ![RepoOf[f]].files = batch[RepoOf[f]].files,
                               ![RepoOf[f]].paths = batch[RepoOf[f]].paths \cup {f}]
    BY <1>3
  <2>2. PICK fs, ps : fs = batch[RepoOf[f]].files /\ ps = batch[RepoOf[f]].paths \cup {f}
    OBVIOUS
  <2>3. batch' = [batch EXCEPT ![RepoOf[f]].at = "open", ![RepoOf[f]].files = fs, ![RepoOf[f]].paths = ps]
    BY <2>1, <2>2
  <2>4. batch' = [batch EXCEPT ![RepoOf[f]] = [at |-> "open", files |-> fs, paths |-> ps]]
    <3>1. PICK b \in Batch : b = batch[RepoOf[f]]
      BY ContentTypes DEF MemoryOK
    <3>2. \A q \in Repos : batch'[q] = IF q = RepoOf[f] THEN [[[b EXCEPT !.at = "open"] EXCEPT !.files = fs] EXCEPT !.paths = ps] ELSE batch[q]
      BY <2>3, <3>1, ContentTypes DEF MemoryOK
    <3>3. batch' = [q \in Repos |-> batch'[q]]
      BY <2>3, ContentTypes DEF MemoryOK
    <3>4. [[[b EXCEPT !.at = "open"] EXCEPT !.files = fs] EXCEPT !.paths = ps] = [at |-> "open", files |-> fs, paths |-> ps]
      BY Opened
    <3> QED
      BY <3>2, <3>3, <3>4, ContentTypes DEF MemoryOK
  <2> QED
    BY <2>2, <2>4
<1> QED
  BY <1>2, <1>4 DEF Stored, DeleteFile, Written

\* A row that is stored, as every part of the invariant sees it.
LEMMA RowsStored ==
  ASSUME RowsOK, NEW f \in Files, NEW row \in Row, Stored(f, row)
  PROVE  /\ RowsOK' /\ \A g \in Files : rows'[g] = IF g = f THEN row ELSE rows[g]
         /\ \A id, F : Owned(id, F) => Owned(id, F)'
         /\ nextId <= nextId'
<1>1. \A g \in Files : rows'[g] = IF g = f THEN row ELSE rows[g]
  BY DEF Stored, RowsOK
<1>2. RowsOK'
  <2>1. nextId' \in Nat \ {0} /\ rows' \in [Files -> Row]
    BY DEF Stored, RowsOK
  <2>2. \A g \in Files : rows'[g] = NoRow \/ (rows'[g].id \in 1 .. nextId' - 1 /\ rows'[g].content \in Contents[g])
    BY <1>1 DEF Stored, RowsOK
  <2>3. \A g \in Files : g # f => rows[g].id # nextId
    BY DEF RowsOK, NoRow
  <2>4. row.id \in {0, nextId, rows[f].id}
    BY DEF Stored, NoRow
  <2>5. \A g, h \in Files : rows'[g].id = rows'[h].id /\ rows'[g].id # 0 => g = h
    BY <1>1, <2>3, <2>4 DEF RowsOK
  <2> QED
    BY <2>1, <2>2, <2>5 DEF RowsOK
<1>3. ASSUME NEW id, NEW F, Owned(id, F)
      PROVE  Owned(id, F)'
  <2>1. id \in 0 .. nextId - 1 /\ \A h \in Files : id # 0 /\ rows[h].id = id => h \in F
    BY <1>3 DEF Owned
  <2>2. id \in 0 .. nextId' - 1
    BY <2>1 DEF Stored, RowsOK
  <2>3. row.id \in {0, nextId, rows[f].id}
    BY DEF Stored, NoRow
  <2>4. \A h \in Files : id # 0 /\ rows'[h].id = id => h \in F
    BY <1>1, <2>1, <2>3 DEF RowsOK
  <2> QED
    BY <2>2, <2>4 DEF Owned
<1>4. nextId <= nextId'
  BY DEF Stored, RowsOK
<1> QED
  BY <1>1, <1>2, <1>3, <1>4

\* Every step but a sync's write leaves the rows.
Elsewhere == rows' = rows /\ nextId' = nextId
LEMMA RowsKept ==
  ASSUME RowsOK, Elsewhere
  PROVE  RowsOK' /\ \A id, F : Owned(id, F)' <=> Owned(id, F)
BY DEF Elsewhere, RowsOK, Owned

LEMMA DerivedStored ==
  ASSUME RowsOK, DerivedOK, MemoryOK, NEW f \in Files, WriteContent(f) \/ DeleteFile(f)
  PROVE  DerivedOK'
<1>1. CASE WriteContent(f)
  <2>1. PICK row \in Row : derived' = derived /\ row # NoRow /\ Stored(f, row)
    BY <1>1, WriteIs
  <2>2. \A g \in Files : rows'[g] = IF g = f THEN row ELSE rows[g]
    BY <2>1, RowsStored
  <2>3. \A g \in Files : rows[g].id # 0 => rows'[g].id = rows[g].id
    BY <2>1, <2>2 DEF Stored, NoRow
  <2>4. \A g \in Files : Tries(g) \in SUBSET Files
    BY Imported DEF Of
  <2>5. ASSUME NEW g \in Files
        PROVE  derived[g].target = 0 \/ \E h \in Tries(g) : rows'[h].id = derived[g].target
    BY <2>3, <2>4 DEF DerivedOK
  <2> QED
    BY <2>1, <2>5 DEF DerivedOK
<1>2. CASE DeleteFile(f)
  <2>1. /\ rows[f] # NoRow /\ Stored(f, NoRow)
        /\ derived' = [g \in Files |-> IF g = f THEN Nothing
                                       ELSE IF derived[g].target = rows[f].id THEN [derived[g] EXCEPT !.target = 0] ELSE derived[g]]
    BY <1>2, DeleteIs
  <2>2. NoRow \in Row
    BY DEF NoRow, Row
  <2>3. \A g \in Files : rows'[g] = IF g = f THEN NoRow ELSE rows[g]
    BY <2>1, <2>2, RowsStored
  <2>4. \A g \in Files : Tries(g) \in SUBSET Files
    BY Imported DEF Of
  <2>5. ASSUME NEW g \in Files
        PROVE  /\ derived'[g] \in [of : Nat, target : Nat] /\ derived'[g].of \in {0} \cup Contents[g]
               /\ derived'[g].target = 0 \/ \E h \in Tries(g) : rows'[h].id = derived'[g].target
    <3>1. CASE g = f
      BY <2>1, <3>1 DEF Nothing
    <3>2. CASE g # f /\ derived[g].target = rows[f].id
      BY <2>1, <3>2 DEF DerivedOK
    <3>3. CASE g # f /\ derived[g].target # rows[f].id
      <4>1. derived'[g] = derived[g]
        BY <2>1, <3>3
      <4> QED
        BY <2>3, <2>4, <3>3, <4>1 DEF DerivedOK
    <3> QED
      BY <3>1, <3>2, <3>3
  <2>6. derived' \in [Files -> [of : Nat, target : Nat]]
    BY <2>1, <2>5
  <2> QED
    BY <2>5, <2>6 DEF DerivedOK
<1> QED
  BY <1>1, <1>2

\* A sound reference that belongs to the paths an import tries leads to one of them.
LEMMA SoundLeads ==
  ASSUME NEW f \in Files, NEW id, Sound(id), Owned(id, Tries(f))
  PROVE  id \in Nat /\ (id = 0 \/ \E g \in Tries(f) : rows[g].id = id)
<1>1. id \in Nat
  BY DEF Owned
<1>2. CASE id # 0
  <2>1. PICK g \in Files : rows[g].id = id
    BY <1>2 DEF Sound, Exists
  <2> QED
    BY <1>1, <1>2, <2>1 DEF Owned
<1> QED
  BY <1>1, <1>2

LEMMA MovedIs ==
  ASSUME NEW f \in Files, \E m \in worker.moves : m.file = f
  PROVE  Moved(f) \in worker.moves /\ Moved(f).file = f
BY DEF Moved

LEMMA DerivedReresolved ==
  ASSUME RowsOK, DerivedOK, MovesOK, Reresolve
  PROVE  /\ DerivedOK' /\ \A f \in Files : derived'[f].of = derived[f].of
         /\ \A f \in Files : derived'[f].target = IF derived[f].of # 0 THEN After(f) ELSE derived[f].target
<1>1. On("reresolve") /\ Movable /\ rows' = rows
  BY DEF Reresolve
<1>2. \A f \in Files : derived'[f] = IF derived[f].of # 0 /\ (\E m \in worker.moves : m.file = f)
                                     THEN [derived[f] EXCEPT !.target = Moved(f).target] ELSE derived[f]
  BY DEF Reresolve
<1>3. \A m \in worker.moves : m.target \in Nat /\ m.file \in Files
  BY DEF MovesOK, WorkerRecord, Move
<1>4. ASSUME NEW f \in Files
      PROVE  /\ derived'[f] \in [of : Nat, target : Nat] /\ derived'[f].of = derived[f].of
             /\ derived'[f].target = IF derived[f].of # 0 THEN After(f) ELSE derived[f].target
             /\ derived'[f].target = 0 \/ \E g \in Tries(f) : rows[g].id = derived'[f].target
  <2>1. derived[f] \in [of : Nat, target : Nat]
    BY DEF DerivedOK
  <2>2. CASE derived[f].of # 0 /\ \E m \in worker.moves : m.file = f
    <3>1. PICK m \in worker.moves : m = Moved(f) /\ m.file = f
      BY <2>2, MovedIs
    <3>2. Sound(m.target)
      BY <1>1, <2>2, <3>1 DEF Movable
    <3>3. Owned(m.target, Tries(f))
      BY <1>1, <3>1 DEF MovesOK
    <3>4. m.target = 0 \/ \E g \in Tries(f) : rows[g].id = m.target
      BY <3>2, <3>3, SoundLeads
    <3>5. PICK d \in [of : Nat, target : Nat] : d = derived[f]
      BY <2>1
    <3>6. derived'[f] = [d EXCEPT !.target = m.target]
      BY <1>2, <2>2, <3>1, <3>5
    <3>7. derived'[f] = [of |-> d.of, target |-> m.target]
      BY <3>6
    <3> QED
      BY <1>3, <2>2, <3>1, <3>4, <3>5, <3>7 DEF After
  <2>3. CASE ~(derived[f].of # 0 /\ \E m \in worker.moves : m.file = f)
    <3>1. derived'[f] = derived[f]
      BY <1>2, <2>3
    <3>2. derived[f].of # 0 => After(f) = derived[f].target
      BY <2>3 DEF After
    <3> QED
      BY <2>1, <3>1, <3>2 DEF DerivedOK
  <2> QED
    BY <2>2, <2>3
<1>5. derived' = [f \in Files |-> derived'[f]]
  BY DEF Reresolve
<1>6. derived' \in [Files -> [of : Nat, target : Nat]]
  BY <1>4, <1>5
<1>7. DerivedOK'
  BY <1>1, <1>4, <1>6 DEF DerivedOK, Tries
<1> QED
  BY <1>4, <1>7

LEMMA DerivedCommitted ==
  ASSUME RowsOK, DerivedOK, JobOK, CommitFile
  PROVE  /\ DerivedOK' /\ worker.job.file \in Files
         /\ Current => /\ derived'[worker.job.file] = [of |-> rows[worker.job.file].content, target |-> worker.target]
                       /\ \A f \in Files : f # worker.job.file => derived'[f] = derived[f]
         /\ ~Current => derived' = derived
<1>1. worker.at = "commit" /\ rows' = rows
  BY DEF CommitFile, On
<1>2. PICK f \in Files : f = worker.job.file
  BY <1>1 DEF JobOK, Working, JobSteps, Sane, Job
<1>3. Owned(worker.target, Tries(f))
  BY <1>1, <1>2 DEF JobOK
<1>4. worker.read.content \in Contents[f] /\ worker.read.content \in Nat
  BY <1>1, <1>2, ContentTypes DEF JobOK, RowSteps
<1>5. CASE Current
  <2>1. PICK id : id = worker.target
    OBVIOUS
  <2>2. id \in Nat /\ (id = 0 \/ \E g \in Tries(f) : rows[g].id = id)
    BY <1>3, <1>5, <2>1, SoundLeads DEF CommitFile
  <2>3. derived' = [derived EXCEPT ![f] = [of |-> worker.read.content, target |-> id]]
    BY <1>2, <1>5, <2>1 DEF CommitFile
  <2>4. worker.read = rows[f]
    BY <1>2, <1>5 DEF Current
  <2>5. derived' \in [Files -> [of : Nat, target : Nat]]
    BY <1>4, <2>2, <2>3 DEF DerivedOK
  <2>6. derived'[f] = [of |-> rows[f].content, target |-> id] /\ \A g \in Files : g # f => derived'[g] = derived[g]
    BY <2>3, <2>4 DEF DerivedOK
  <2>7. DerivedOK'
    BY <1>1, <1>4, <2>2, <2>4, <2>5, <2>6 DEF DerivedOK, Tries
  <2> QED
    BY <1>2, <1>5, <2>1, <2>6, <2>7
<1>6. CASE ~Current
  BY <1>1, <1>2, <1>6 DEF CommitFile, DerivedOK, Tries
<1> QED
  BY <1>5, <1>6

LEMMA DerivedBooted ==
  ASSUME RowsOK, DerivedOK, Boot
  PROVE  /\ DerivedOK' /\ \A f \in Files : derived'[f].of = derived[f].of
         /\ \A f \in Files : derived'[f].target = IF derived[f].of # 0 /\ derived[f].target = 0 THEN Due(f) ELSE derived[f].target
<1>1. rows' = rows
  BY DEF Boot
<1>2. \A f \in Files : derived'[f] = IF derived[f].of # 0 /\ derived[f].target = 0
                                     THEN [derived[f] EXCEPT !.target = Due(f)] ELSE derived[f]
  BY DEF Boot, Due
<1>3. ASSUME NEW f \in Files
      PROVE  /\ derived'[f] \in [of : Nat, target : Nat] /\ derived'[f].of = derived[f].of
             /\ derived'[f].target = IF derived[f].of # 0 /\ derived[f].target = 0 THEN Due(f) ELSE derived[f].target
             /\ derived'[f].target = 0 \/ \E g \in Tries(f) : rows[g].id = derived'[f].target
  <2>1. PICK d \in [of : Nat, target : Nat] : d = derived[f]
    BY DEF DerivedOK
  <2>2. PICK id : id = Due(f)
    OBVIOUS
  <2>3. Tries(f) \in SUBSET Files
    BY Imported DEF Of
  <2>4. id \in Nat /\ (id = 0 \/ \E g \in Tries(f) : rows[g].id = id)
    BY <2>2, <2>3, DueIs DEF RowsOK, Row
  <2>5. CASE d.of # 0 /\ d.target = 0
    <3>1. derived'[f] = [d EXCEPT !.target = id]
      BY <1>2, <2>1, <2>2, <2>5
    <3>2. derived'[f] = [of |-> d.of, target |-> id]
      BY <3>1
    <3> QED
      BY <2>1, <2>2, <2>4, <2>5, <3>2
  <2>6. CASE ~(d.of # 0 /\ d.target = 0)
    <3>1. derived'[f] = d
      BY <1>2, <2>1, <2>6
    <3> QED
      BY <2>1, <2>6, <3>1 DEF DerivedOK
  <2> QED
    BY <2>5, <2>6
<1>4. derived' = [f \in Files |-> derived'[f]]
  BY DEF Boot
<1>5. derived' \in [Files -> [of : Nat, target : Nat]]
  BY <1>3, <1>4
<1> QED
  BY <1>1, <1>3, <1>5 DEF DerivedOK, Tries
-----------------------------------------------------------------------------
(* The syncs, the requests, the lists and what was missed *)

MissedRecord == [files : SUBSET Files, paths : SUBSET Files, overtaken : SUBSET Files]

LEMMA UnsaidIs ==
  ASSUME MemoryOK, NEW rs \in SUBSET Repos
  PROVE  /\ Unsaid(rs).files \in SUBSET Files /\ Unsaid(rs).paths \in SUBSET Files
         /\ \A f \in Files, r \in rs : f \in batch[r].files => f \in Unsaid(rs).files
         /\ \A f \in Files, r \in rs : batch[r].at = "open" /\ f \in batch[r].paths => f \in Unsaid(rs).paths
BY DEF Unsaid, MemoryOK, Batch

LEMMA MemoryStored ==
  ASSUME MemoryOK, NEW f \in Files, NEW row \in Row, Stored(f, row)
  PROVE  MemoryOK' /\ \A r \in Repos : r # RepoOf[f] => batch'[r] = batch[r]
<1>1. \A b \in Batch : [at |-> "open", files |-> IF row = NoRow THEN b.files ELSE b.files \cup {f},
                        paths |-> IF row.id # rows[f].id THEN b.paths \cup {f} ELSE b.paths] \in Batch
  BY DEF Batch
<1>2. batch' \in [Repos -> Batch] /\ \A r \in Repos : r # RepoOf[f] => batch'[r] = batch[r]
  BY <1>1, ContentTypes DEF Stored, MemoryOK
<1> QED
  BY <1>2 DEF Stored, MemoryOK, memory

LEMMA MemoryRequested ==
  ASSUME MemoryOK, NEW r \in Repos, RequestPaths(r)
  PROVE  /\ MemoryOK' /\ requests' = [requests EXCEPT ![r] = @ \cup batch[r].paths] /\ batch[r].at = "open"
         /\ batch'[r].at = "requested" /\ batch'[r].files = batch[r].files
         /\ \A q \in Repos : q # r => batch'[q] = batch[q]
<1>1. PICK b \in Batch : b = batch[r]
  BY DEF MemoryOK
<1>2. batch' = [batch EXCEPT ![r] = [b EXCEPT !.at = "requested"]]
  BY <1>1 DEF RequestPaths, MemoryOK
<1>3. [b EXCEPT !.at = "requested"] = [at |-> "requested", files |-> b.files, paths |-> b.paths]
  BY DEF Batch
<1>4. batch' \in [Repos -> Batch] /\ batch'[r] = [at |-> "requested", files |-> b.files, paths |-> b.paths]
      /\ \A q \in Repos : q # r => batch'[q] = batch[q]
  BY <1>2, <1>3 DEF Batch, MemoryOK
<1>5. requests' \in [Repos -> SUBSET Files]
  BY <1>1 DEF RequestPaths, MemoryOK, Batch
<1>6. UNCHANGED <<siblings, missed, writes, failures>>
  BY DEF RequestPaths, counts
<1> QED
  BY <1>1, <1>4, <1>5, <1>6 DEF MemoryOK, RequestPaths

LEMMA EmptyBatch == NoBatch \in Batch /\ NoBatch.at = "none" /\ NoBatch.files = {} /\ NoBatch.paths = {}
BY DEF NoBatch, Batch

LEMMA MemoryEnqueued ==
  ASSUME MemoryOK, NEW r \in Repos, EnqueueBatch(r)
  PROVE  /\ MemoryOK' /\ batch' = [batch EXCEPT ![r] = NoBatch] /\ requests' = requests /\ missed'.paths = missed.paths
         /\ missed'.files = missed.files \ New(batch[r].files, "done")
         /\ missed'.overtaken = missed.overtaken \cup {f \in batch[r].files : Overtaken(f)}
<1>1. PICK m \in MissedRecord : m = missed
  BY DEF MemoryOK, MissedRecord
<1>2. PICK fs, os : fs = missed.files \ New(batch[r].files, "done") /\ os = missed.overtaken \cup {f \in batch[r].files : Overtaken(f)}
  OBVIOUS
<1>3. missed' = [m EXCEPT !.files = fs, !.overtaken = os]
  BY <1>1, <1>2 DEF EnqueueBatch
<1>4. missed' = [files |-> fs, paths |-> m.paths, overtaken |-> os]
  BY <1>3 DEF MissedRecord
<1>5. fs \in SUBSET Files /\ os \in SUBSET Files
  BY <1>1, <1>2 DEF MemoryOK, MissedRecord, Batch
<1>6. batch' \in [Repos -> Batch]
  BY EmptyBatch DEF EnqueueBatch, MemoryOK
<1>7. UNCHANGED <<requests, siblings, writes, failures>>
  BY DEF EnqueueBatch, counts, memory
<1> QED
  BY <1>1, <1>2, <1>4, <1>5, <1>6, <1>7 DEF MemoryOK, EnqueueBatch, MissedRecord

LEMMA MemoryStopped ==
  ASSUME MemoryOK, NEW r \in Repos, SyncStops(r)
  PROVE  /\ MemoryOK' /\ batch' = [batch EXCEPT ![r] = NoBatch] /\ requests' = requests
         /\ missed'.files = missed.files \cup Unsaid({r}).files /\ missed'.paths = missed.paths \cup Unsaid({r}).paths
         /\ missed'.overtaken = missed.overtaken
<1>1. PICK m \in MissedRecord : m = missed
  BY DEF MemoryOK, MissedRecord
<1>2. PICK fs, ps : fs = missed.files \cup Unsaid({r}).files /\ ps = missed.paths \cup Unsaid({r}).paths
  OBVIOUS
<1>3. missed' = [m EXCEPT !.files = fs, !.paths = ps]
  BY <1>1, <1>2 DEF SyncStops
<1>4. missed' = [files |-> fs, paths |-> ps, overtaken |-> m.overtaken]
  BY <1>3 DEF MissedRecord
<1>5. fs \in SUBSET Files /\ ps \in SUBSET Files
  BY <1>1, <1>2, UnsaidIs DEF MissedRecord
<1>6. batch' \in [Repos -> Batch]
  BY EmptyBatch DEF SyncStops, MemoryOK
<1>7. UNCHANGED <<requests, siblings, writes>> /\ failures' \in Nat
  BY DEF SyncStops, memory, Fail, MemoryOK
<1> QED
  BY <1>1, <1>2, <1>4, <1>5, <1>6, <1>7 DEF MemoryOK, SyncStops, MissedRecord

LEMMA MemoryCommitted ==
  ASSUME MemoryOK, CommitFile
  PROVE  /\ MemoryOK' /\ missed'.paths = missed.paths /\ (~Current => missed' = missed)
         /\ Current => /\ missed'.files = missed.files \ {worker.job.file}
                       /\ missed'.overtaken = missed.overtaken \ {worker.job.file}
<1>1. PICK m \in MissedRecord : m = missed
  BY DEF MemoryOK, MissedRecord
<1>2. PICK fs, os : fs = missed.files \ {worker.job.file} /\ os = missed.overtaken \ {worker.job.file}
  OBVIOUS
<1>3. Current => missed' = [m EXCEPT !.files = fs, !.overtaken = os]
  BY <1>1, <1>2 DEF CommitFile
<1>4. Current => missed' = [files |-> fs, paths |-> m.paths, overtaken |-> os]
  BY <1>3 DEF MissedRecord
<1>5. fs \in SUBSET Files /\ os \in SUBSET Files
  BY <1>1, <1>2 DEF MissedRecord
<1>6. ~Current => missed' = missed
  BY DEF CommitFile
<1>7. missed' \in MissedRecord
  BY <1>1, <1>4, <1>5, <1>6 DEF MissedRecord
<1>8. UNCHANGED <<batch, requests, siblings, writes, failures>>
  BY DEF CommitFile, memory, counts
<1> QED
  BY <1>1, <1>2, <1>4, <1>6, <1>7, <1>8 DEF MemoryOK, MissedRecord

LEMMA MemoryEnded ==
  ASSUME MemoryOK, MovesOK, Die
  PROVE  /\ MemoryOK' /\ batch' = [r \in Repos |-> NoBatch] /\ requests' = [r \in Repos |-> {}]
         /\ siblings' = [r \in Repos |-> NoList]
         /\ missed'.files = missed.files \cup Unsaid(Repos).files /\ missed'.overtaken = missed.overtaken
         /\ missed'.paths = missed.paths \cup Unsaid(Repos).paths \cup worker.paths \cup UNION {requests[r] : r \in Repos}
<1>1. PICK m \in MissedRecord : m = missed
  BY DEF MemoryOK, MissedRecord
<1>2. PICK fs, ps : /\ fs = missed.files \cup Unsaid(Repos).files
                    /\ ps = missed.paths \cup Unsaid(Repos).paths \cup worker.paths \cup UNION {requests[r] : r \in Repos}
  OBVIOUS
<1>3. missed' = [m EXCEPT !.files = fs, !.paths = ps]
  BY <1>1, <1>2 DEF Die
<1>4. missed' = [files |-> fs, paths |-> ps, overtaken |-> m.overtaken]
  BY <1>3 DEF MissedRecord
<1>5. fs \in SUBSET Files
  BY <1>1, <1>2, UnsaidIs DEF MissedRecord
<1>6. ps \in SUBSET Files
  <2>1. Unsaid(Repos).paths \in SUBSET Files
    BY UnsaidIs
  <2>2. worker.paths \in SUBSET Files
    BY DEF MovesOK, WorkerRecord
  <2>3. UNION {requests[r] : r \in Repos} \in SUBSET Files
    BY DEF MemoryOK
  <2> QED
    BY <1>1, <1>2, <2>1, <2>2, <2>3 DEF MissedRecord
<1>7. batch' \in [Repos -> Batch] /\ requests' \in [Repos -> SUBSET Files] /\ DOMAIN siblings' = Repos
  BY EmptyBatch DEF Die
<1>8. writes' = writes /\ failures' \in Nat
  BY DEF Die, Fail, MemoryOK
<1> QED
  BY <1>1, <1>2, <1>4, <1>5, <1>6, <1>7, <1>8 DEF MemoryOK, Die, MissedRecord

LEMMA MemoryBooted ==
  ASSUME MemoryOK, Boot
  PROVE  /\ MemoryOK' /\ missed'.files = missed.files \ New(Missing, "error") /\ missed'.paths = missed.paths
         /\ missed'.overtaken = missed.overtaken
<1>1. PICK m \in MissedRecord : m = missed
  BY DEF MemoryOK, MissedRecord
<1>2. PICK fs : fs = missed.files \ New(Missing, "error")
  OBVIOUS
<1>3. missed' = [m EXCEPT !.files = fs]
  BY <1>1, <1>2 DEF Boot
<1>4. missed' = [files |-> fs, paths |-> m.paths, overtaken |-> m.overtaken]
  BY <1>3 DEF MissedRecord
<1>5. UNCHANGED <<batch, requests, siblings, writes, failures>>
  BY DEF Boot, memory, counts
<1> QED
  BY <1>1, <1>2, <1>4, <1>5 DEF MemoryOK, MissedRecord

LEMMA MemoryWorked ==
  ASSUME MemoryOK, MovesOK,
         \/ Drain \/ Reresolve \/ ReresolveFails \/ NoRequests \/ DrainEnds \/ ClaimJob \/ TurnEnds \/ ReadFile
         \/ ResolveImports \/ Complete \/ JobFails \/ LeaseOver \/ \E r \in Repos : TakeRequest(r) \/ Turn(r)
  PROVE  MemoryOK'
<1>1. CASE Drain \/ Reresolve \/ NoRequests \/ ClaimJob \/ TurnEnds \/ ReadFile \/ Complete \/ LeaseOver \/ \E r \in Repos : Turn(r)
  BY <1>1 DEF Drain, Reresolve, NoRequests, ClaimJob, TurnEnds, ReadFile, Complete, LeaseOver, Turn, MemoryOK, memory, counts
<1>2. CASE ReresolveFails
  <2>1. requests' \in [Repos -> SUBSET Files]
    BY <1>2 DEF ReresolveFails, Kept, MemoryOK, MovesOK, WorkerRecord
  <2>2. failures' \in Nat
    BY <1>2 DEF ReresolveFails, Fail, MemoryOK
  <2> QED
    BY <1>2, <2>1, <2>2 DEF ReresolveFails, Ends, MemoryOK
<1>3. CASE DrainEnds
  BY <1>3 DEF DrainEnds, Ends, MemoryOK, counts
<1>4. CASE ResolveImports
  BY <1>4 DEF ResolveImports, MemoryOK, counts
<1>5. CASE JobFails
  BY <1>5 DEF JobFails, Fail, MemoryOK, memory
<1>6. CASE \E r \in Repos : TakeRequest(r)
  BY <1>6 DEF TakeRequest, MemoryOK, counts
<1> QED
  BY <1>1, <1>2, <1>3, <1>4, <1>5, <1>6
-----------------------------------------------------------------------------
(* The worker's record *)

SameTurn == worker'.repo = worker.repo /\ worker'.prio = worker.prio /\ worker'.left = worker.left
SameJob == worker'.job = worker.job /\ worker'.place = worker.place /\ worker'.read = worker.read /\ worker'.target = worker.target
SameMoves == worker'.paths = worker.paths /\ worker'.moves = worker.moves

LEMMA Limits == TurnFiles \in Nat /\ TurnFiles > 0 /\ MaxAttempts \in Nat /\ MaxAttempts > 0
BY LimitsAssumption

Rests(w) == w.job = NoJob /\ w.read = NoRow /\ w.target = 0 /\ w.paths = {} /\ w.moves = {}

LEMMA RestingRecord ==
  /\ Resting \in WorkerRecord /\ Resting.at = "idle" /\ Rests(Resting) /\ Resting.repo = ""
  /\ [Resting EXCEPT !.at = "down"] \in WorkerRecord /\ [Resting EXCEPT !.at = "down"].at = "down"
  /\ Rests([Resting EXCEPT !.at = "down"])
<1>1. PICK none \in Row : none = NoRow
  BY DEF NoRow, Row
<1>2. PICK no \in {NoJob} : TRUE
  OBVIOUS
<1>3. Resting = [at |-> "idle", repo |-> "", prio |-> Write, left |-> 0, job |-> no, place |-> 0, read |-> none,
                 target |-> 0, paths |-> {}, moves |-> {}]
  BY <1>1, <1>2 DEF Resting
<1>4. Resting \in WorkerRecord
  <2>1. "idle" \in WorkerSteps /\ 0 \in 0 .. TurnFiles /\ no \in Job \cup {NoJob} /\ "" \in Repos \cup {""}
    BY <1>2, Limits DEF WorkerSteps
  <2>2. Write \in {Write, CatchUp} /\ 0 \in Nat /\ {} \in SUBSET Files /\ {} \in SUBSET Move
    OBVIOUS
  <2> QED
    BY <1>3, <2>1, <2>2, Zenon DEF WorkerRecord
<1>5. Resting.at = "idle" /\ Rests(Resting) /\ Resting.repo = ""
  BY <1>1, <1>2, <1>3 DEF Rests
<1>6. PICK w \in WorkerRecord : w = Resting
  BY <1>4
<1>7. [w EXCEPT !.at = "down"] \in WorkerRecord
  BY DEF WorkerRecord, WorkerSteps
<1>8. [w EXCEPT !.at = "down"].at = "down" /\ Rests([w EXCEPT !.at = "down"])
  BY <1>5, <1>6 DEF WorkerRecord, Rests
<1> QED
  BY <1>4, <1>5, <1>6, <1>7, <1>8

LEMMA WorkerRests ==
  ASSUME ReresolveFails \/ DrainEnds \/ Boot \/ Die
  PROVE  worker' \in WorkerRecord /\ worker'.at = (IF Die THEN "down" ELSE "idle") /\ Rests(worker') /\ Elsewhere
<1>1. CASE Die
  <2>1. worker' = [Resting EXCEPT !.at = "down"]
    BY <1>1 DEF Die
  <2>2. Elsewhere
    BY <1>1 DEF Die, Elsewhere, store
  <2> QED
    BY <1>1, <2>1, <2>2, RestingRecord
<1>2. CASE ~Die
  <2>1. worker' = Resting
    BY <1>2 DEF ReresolveFails, DrainEnds, Boot, Ends
  <2>2. Elsewhere
    BY <1>2 DEF ReresolveFails, DrainEnds, Boot, Elsewhere, store, counts
  <2> QED
    BY <1>2, <2>1, <2>2, RestingRecord
<1> QED
  BY <1>1, <1>2

LEMMA WorkerGoes ==
  ASSUME worker \in WorkerRecord, NEW step \in WorkerSteps, worker' = To(step)
  PROVE  worker' \in WorkerRecord /\ worker'.at = step /\ SameTurn /\ SameJob /\ SameMoves
<1>1. PICK w \in WorkerRecord : w = worker
  OBVIOUS
<1>2. worker' = [w EXCEPT !.at = step]
  BY <1>1 DEF To
<1> QED
  BY <1>1, <1>2 DEF WorkerRecord, SameTurn, SameJob, SameMoves

LEMMA MovesIs ==
  ASSUME RowsOK, DerivedOK, NEW r \in Repos, NEW ps \in SUBSET Files
  PROVE  /\ Moves(r, ps) \in SUBSET Move
         /\ \A m \in Moves(r, ps) : RepoOf[m.file] = r /\ m.target = Due(m.file) /\ Owned(m.target, Tries(m.file))
         /\ \A m, n \in Moves(r, ps) : m.file = n.file => m = n
         /\ \A f \in Files : RepoOf[f] = r /\ derived[f].of # 0 /\ Tries(f) \cap ps # {} /\ derived[f].target # Due(f)
              => \E m \in Moves(r, ps) : m.file = f
<1>1. \A f \in Files : RepoOf[f] = r => Resolve(ListOf(r), f) = Due(f)
  BY DEF Due
<1>2. ASSUME NEW f \in Files
      PROVE  Due(f) \in Nat /\ Owned(Due(f), Tries(f))
  <2>1. PICK id : id = Due(f)
    OBVIOUS
  <2>2. Tries(f) \in SUBSET Files
    BY Imported DEF Of
  <2>3. id = 0 \/ \E p \in Tries(f) : id = rows[p].id /\ rows[p].id # 0
    BY <2>1, DueIs
  <2>4. id \in 0 .. nextId - 1
    BY <2>2, <2>3 DEF RowsOK, NoRow
  <2>5. Owned(id, Tries(f))
    BY <2>2, <2>3, <2>4 DEF RowsOK, Owned
  <2> QED
    BY <2>1, <2>4, <2>5 DEF RowsOK
<1>3. Moves(r, ps) = {[file |-> f, target |-> Due(f)] :
                        f \in {g \in Of(r) : derived[g].of # 0 /\ Tries(g) \cap ps # {} /\ derived[g].target # Due(g)}}
  BY <1>1 DEF Moves, Of
<1>4. ASSUME NEW m \in Moves(r, ps)
      PROVE  \E f \in Files : RepoOf[f] = r /\ m = [file |-> f, target |-> Due(f)]
  BY <1>3 DEF Of
<1>5. ASSUME NEW f \in Files, RepoOf[f] = r, derived[f].of # 0, Tries(f) \cap ps # {}, derived[f].target # Due(f)
      PROVE  [file |-> f, target |-> Due(f)] \in Moves(r, ps)
  BY <1>3, <1>5 DEF Of
<1>6. Moves(r, ps) \in SUBSET Move
  BY <1>2, <1>4 DEF Move
<1>7. \A m \in Moves(r, ps) : RepoOf[m.file] = r /\ m.target = Due(m.file) /\ Owned(m.target, Tries(m.file))
  <2> TAKE m \in Moves(r, ps)
  <2>1. PICK f \in Files : RepoOf[f] = r /\ m = [file |-> f, target |-> Due(f)]
    BY <1>4
  <2>2. m.file = f /\ m.target = Due(f)
    BY <2>1
  <2> QED
    BY <1>2, <2>1, <2>2
<1>8. \A m, n \in Moves(r, ps) : m.file = n.file => m = n
  <2> TAKE m, n \in Moves(r, ps)
  <2>1. PICK f \in Files : m = [file |-> f, target |-> Due(f)]
    BY <1>4
  <2>2. PICK g \in Files : n = [file |-> g, target |-> Due(g)]
    BY <1>4
  <2> QED
    BY <2>1, <2>2
<1>9. \A f \in Files : RepoOf[f] = r /\ derived[f].of # 0 /\ Tries(f) \cap ps # {} /\ derived[f].target # Due(f)
              => \E m \in Moves(r, ps) : m.file = f
  <2> TAKE f \in Files
  <2> HAVE RepoOf[f] = r /\ derived[f].of # 0 /\ Tries(f) \cap ps # {} /\ derived[f].target # Due(f)
  <2>1. [file |-> f, target |-> Due(f)] \in Moves(r, ps)
    BY <1>5
  <2> QED
    BY <2>1
<1> QED
  BY <1>6, <1>7, <1>8, <1>9

LEMMA WorkerTakes ==
  ASSUME RowsOK, DerivedOK, MemoryOK, worker \in WorkerRecord, NEW r \in Repos, TakeRequest(r)
  PROVE  /\ worker' \in WorkerRecord /\ worker'.at = "reresolve" /\ worker'.repo = r /\ SameJob
         /\ worker'.paths = requests[r] /\ worker'.moves = Moves(r, requests[r])
<1>1. PICK w \in WorkerRecord : w = worker
  OBVIOUS
<1>2. PICK ps \in SUBSET Files : ps = requests[r]
  BY DEF MemoryOK
<1>3. PICK ms \in SUBSET Move : ms = Moves(r, requests[r])
  BY <1>2, MovesIs
<1>4. worker' = [w EXCEPT !.at = "reresolve", !.repo = r, !.paths = ps, !.moves = ms]
  BY <1>1, <1>2, <1>3 DEF TakeRequest
<1> QED
  BY <1>1, <1>2, <1>3, <1>4 DEF WorkerRecord, WorkerSteps, SameJob

LEMMA WorkerReresolved ==
  ASSUME worker \in WorkerRecord, Reresolve
  PROVE  worker' \in WorkerRecord /\ worker'.at = "between" /\ SameTurn /\ SameJob /\ worker'.paths = {} /\ worker'.moves = {}
<1>1. PICK w \in WorkerRecord : w = worker
  OBVIOUS
<1>2. worker' = [w EXCEPT !.at = "between", !.paths = {}, !.moves = {}]
  BY <1>1 DEF Reresolve
<1> QED
  BY <1>1, <1>2 DEF WorkerRecord, WorkerSteps, SameTurn, SameJob

LEMMA WorkerTurns ==
  ASSUME worker \in WorkerRecord, NEW r \in Repos, Turn(r)
  PROVE  /\ worker' \in WorkerRecord /\ worker'.at = "claim" /\ SameJob /\ SameMoves
         /\ worker'.repo = r /\ worker'.prio = Lowest /\ worker'.left = TurnFiles
<1>1. PICK w \in WorkerRecord : w = worker
  OBVIOUS
<1>2. PICK p \in {Write, CatchUp} : p = Lowest
  BY DEF Lowest
<1>3. worker' = [w EXCEPT !.at = "claim", !.repo = r, !.prio = p, !.left = TurnFiles]
  BY <1>1, <1>2 DEF Turn
<1>4. TurnFiles \in 0 .. TurnFiles
  BY LimitsAssumption
<1> QED
  BY <1>1, <1>2, <1>3, <1>4 DEF WorkerRecord, WorkerSteps, SameJob, SameMoves

LEMMA WorkerClaims ==
  ASSUME QueueOK, worker \in WorkerRecord, worker.repo \in Repos, ClaimJob
  PROVE  LET i == Oldest(worker.repo, worker.prio)
         IN /\ worker' \in WorkerRecord /\ worker'.at = "read" /\ SameMoves
            /\ worker'.repo = worker.repo /\ worker'.prio = worker.prio /\ worker.left > 0 /\ worker'.left = worker.left - 1
            /\ worker'.read = worker.read /\ worker'.target = worker.target
            /\ i \in 1 .. Len(queue) /\ worker'.place = i /\ i \in Waiting(worker.repo, worker.prio)
            /\ worker'.job \in Job /\ worker'.job.key = queue[i].key /\ worker'.job.file = queue[i].file
            /\ worker'.job.tries = queue[i].tries + 1 /\ queue[i].tries < MaxAttempts
<1>1. PICK w \in WorkerRecord : w = worker
  OBVIOUS
<1>2. Waiting(worker.repo, worker.prio) # {} /\ worker.left > 0
  BY DEF ClaimJob, GoesOn
<1>3. PICK i : i = Oldest(worker.repo, worker.prio)
  OBVIOUS
<1>4. i \in Waiting(worker.repo, worker.prio)
  <2>1. PICK p : p = worker.prio
    OBVIOUS
  <2>2. PICK r \in Repos : r = worker.repo
    OBVIOUS
  <2> QED
    BY <1>2, <1>3, <2>1, <2>2, OldestWaits DEF QueueOK
<1>5. i \in 1 .. Len(queue) /\ queue[i].tries < MaxAttempts
  BY <1>4 DEF Waiting, Claimable, QueueOK
<1>6. PICK j \in Job : j = queue[i]
  BY <1>5 DEF QueueOK
<1>7. PICK k \in Job : k = [j EXCEPT !.tries = @ + 1] /\ k.key = j.key /\ k.file = j.file /\ k.tries = j.tries + 1
  <2>1. j.tries + 1 \in Nat
    BY DEF Job
  <2>2. [j EXCEPT !.tries = j.tries + 1] \in Job
    BY <2>1 DEF Job
  <2>3. /\ [j EXCEPT !.tries = j.tries + 1].key = j.key /\ [j EXCEPT !.tries = j.tries + 1].file = j.file
        /\ [j EXCEPT !.tries = j.tries + 1].tries = j.tries + 1
    BY DEF Job
  <2> QED
    BY <2>2, <2>3
<1>8. worker' = [w EXCEPT !.at = "read", !.left = w.left - 1, !.place = i, !.job = k]
  BY <1>1, <1>3, <1>6, <1>7 DEF ClaimJob
<1>9. w.left - 1 \in 0 .. TurnFiles /\ i \in Nat
  <2>1. w.left \in 0 .. TurnFiles /\ w.left > 0
    BY <1>1, <1>2 DEF WorkerRecord
  <2> QED
    BY <1>5, <2>1, Limits DEF QueueOK
<1>10. /\ worker' \in WorkerRecord /\ worker'.at = "read" /\ SameMoves
       /\ worker'.repo = worker.repo /\ worker'.prio = worker.prio /\ worker'.left = worker.left - 1
       /\ worker'.read = worker.read /\ worker'.target = worker.target /\ worker'.place = i /\ worker'.job = k
  BY <1>1, <1>8, <1>9 DEF WorkerRecord, WorkerSteps, SameMoves, JobSteps
<1> QED
  BY <1>2, <1>3, <1>4, <1>5, <1>6, <1>7, <1>10

LEMMA WorkerReads ==
  ASSUME RowsOK, JobOK, worker \in WorkerRecord, ReadFile
  PROVE  /\ worker' \in WorkerRecord /\ SameTurn /\ SameMoves /\ worker'.job = worker.job /\ worker'.place = worker.place
         /\ worker'.target = worker.target /\ worker.job.file \in Files
         /\ \/ /\ rows[worker.job.file].id = worker.job.key[1] /\ worker'.read = rows[worker.job.file]
               /\ worker'.at = IF Imports[worker.job.file] = <<>> THEN "commit" ELSE "resolve"
            \/ rows[worker.job.file].id # worker.job.key[1] /\ worker'.read = worker.read /\ worker'.at = "complete"
<1>1. PICK w \in WorkerRecord : w = worker
  OBVIOUS
<1>2. PICK f \in Files : f = worker.job.file
  BY DEF ReadFile, On, JobOK, Working, JobSteps, Sane, Job
<1>3. PICK row \in Row : row = rows[f]
  BY DEF RowsOK
<1>4. CASE row.id = worker.job.key[1]
  <2>1. PICK next \in {"commit", "resolve"} : next = IF Imports[f] = <<>> THEN "commit" ELSE "resolve"
    OBVIOUS
  <2>2. worker' = [w EXCEPT !.at = next, !.read = row]
    BY <1>1, <1>2, <1>3, <1>4, <2>1 DEF ReadFile
  <2> QED
    BY <1>1, <1>2, <1>3, <1>4, <2>1, <2>2 DEF WorkerRecord, SameTurn, SameMoves, WorkerSteps, JobSteps
<1>5. CASE row.id # worker.job.key[1]
  <2>1. worker' = To("complete")
    BY <1>2, <1>3, <1>5 DEF ReadFile
  <2>2. "complete" \in WorkerSteps
    BY DEF WorkerSteps, JobSteps
  <2> QED
    BY <1>2, <1>3, <1>5, <2>1, <2>2, WorkerGoes DEF SameJob
<1> QED
  BY <1>4, <1>5

LEMMA WorkerOver ==
  ASSUME worker \in WorkerRecord, worker' = JobOver
  PROVE  /\ worker' \in WorkerRecord /\ SameTurn /\ SameMoves /\ worker'.at = "claim" /\ worker'.job = NoJob
         /\ worker'.read = NoRow /\ worker'.target = 0
<1>1. PICK w \in WorkerRecord : w = worker
  OBVIOUS
<1>2. PICK none \in Row : none = NoRow
  BY DEF NoRow, Row
<1>3. PICK no : no = NoJob
  OBVIOUS
<1>4. worker' = [w EXCEPT !.at = "claim", !.job = no, !.place = 0, !.read = none, !.target = 0]
  BY <1>1, <1>2, <1>3 DEF JobOver
<1>5. no \in Job \cup {NoJob} /\ "claim" \in WorkerSteps
  BY <1>3 DEF WorkerSteps
<1>6. worker' \in WorkerRecord
  <2>1. PICK r \in Repos \cup {""}, p \in {Write, CatchUp}, n \in 0 .. TurnFiles, ps \in SUBSET Files, ms \in SUBSET Move :
          r = w.repo /\ p = w.prio /\ n = w.left /\ ps = w.paths /\ ms = w.moves
    BY DEF WorkerRecord
  <2>2. w = [at |-> w.at, repo |-> w.repo, prio |-> w.prio, left |-> w.left, job |-> w.job, place |-> w.place, read |-> w.read,
             target |-> w.target, paths |-> w.paths, moves |-> w.moves]
    BY DEF WorkerRecord
  <2>3. worker' = [at |-> "claim", repo |-> r, prio |-> p, left |-> n, job |-> no, place |-> 0, read |-> none, target |-> 0,
                   paths |-> ps, moves |-> ms]
    BY <1>4, <2>1, <2>2
  <2>4. "claim" \in WorkerSteps /\ no \in Job \cup {NoJob} /\ 0 \in Nat
    BY <1>5
  <2>5. [at |-> "claim", repo |-> r, prio |-> p, left |-> n, job |-> no, place |-> 0, read |-> none, target |-> 0,
         paths |-> ps, moves |-> ms] \in WorkerRecord
    BY <2>4, Zenon DEF WorkerRecord
  <2> QED
    BY <2>3, <2>5
<1>7. /\ worker'.at = "claim" /\ worker'.job = no /\ worker'.read = none /\ worker'.target = 0
      /\ worker'.repo = w.repo /\ worker'.prio = w.prio /\ worker'.left = w.left /\ worker'.paths = w.paths
      /\ worker'.moves = w.moves
  BY <1>4 DEF WorkerRecord
<1> QED
  BY <1>1, <1>2, <1>3, <1>6, <1>7 DEF SameTurn, SameMoves

\* What a list that is out of date only where a request is pending resolves to.
LEMMA WorkerResolves ==
  ASSUME RowsOK, JobOK, ImportsOK, MemoryOK, worker \in WorkerRecord, ResolveImports
  PROVE  /\ worker' \in WorkerRecord /\ worker'.at = "commit" /\ SameTurn /\ SameMoves /\ worker'.job = worker.job
         /\ worker'.place = worker.place /\ worker'.read = worker.read /\ worker.job.file \in Files
         /\ Owned(worker'.target, Tries(worker.job.file))
         /\ worker'.target = Due(worker.job.file) \/ Tries(worker.job.file) \cap Asked(RepoOf[worker.job.file]) # {}
         /\ DOMAIN siblings' = Repos
         /\ \A r \in Repos : siblings'[r] # NoList =>
              \A p \in Of(r) : Owned(siblings'[r][p], {p}) /\ (siblings'[r][p] = rows[p].id \/ p \in Asked(r))
<1>1. PICK w \in WorkerRecord : w = worker
  OBVIOUS
<1>2. PICK f \in Files : f = worker.job.file
  BY DEF ResolveImports, On, JobOK, Working, JobSteps, Sane, Job
<1>3. PICK r \in Repos : r = RepoOf[f]
  BY ContentTypes
<1>4. PICK list : list = IF siblings[r] = NoList THEN ListOf(r) ELSE siblings[r]
  OBVIOUS
<1>5. \A p \in Of(r) : ListOf(r)[p] = rows[p].id /\ Owned(rows[p].id, {p}) /\ p \in Files
  BY DEF ListOf, Of, RowsOK, Owned, NoRow
<1>6. \A p \in Of(r) : Owned(list[p], {p}) /\ (list[p] = rows[p].id \/ p \in Asked(r))
  BY <1>4, <1>5 DEF ImportsOK, Cached
<1>7. PICK id : id = Resolve(list, f)
  OBVIOUS
<1>8. Tries(f) \in SUBSET Of(r)
  BY <1>3, Imported
<1>9. Owned(id, Tries(f)) /\ id \in Nat
  <2>1. CASE id = 0
    BY <2>1 DEF Owned, RowsOK
  <2>2. CASE id # 0
    <3>1. PICK p \in Tries(f) : id = list[p]
      BY <1>7, <2>2, ResolveIs
    <3>2. Owned(id, {p})
      BY <1>6, <1>8, <3>1
    <3> QED
      BY <3>1, <3>2 DEF Owned
  <2> QED
    BY <2>1, <2>2
<1>10. Tries(f) \cap Asked(r) = {} => id = Due(f)
  <2>1. ASSUME Tries(f) \cap Asked(r) = {}
        PROVE  \A p \in Tries(f) : list[p] = ListOf(r)[p]
    BY <1>5, <1>6, <1>8, <2>1
  <2>2. PICK other : other = ListOf(r)
    OBVIOUS
  <2> QED
    BY <1>3, <1>7, <2>1, <2>2, ResolveSame DEF Due
<1>11. worker' = [w EXCEPT !.at = "commit", !.target = id]
  BY <1>1, <1>2, <1>3, <1>4, <1>7 DEF ResolveImports
<1>12. /\ worker' \in WorkerRecord /\ worker'.at = "commit" /\ worker'.target = id /\ SameTurn /\ SameMoves /\ worker'.job = worker.job
       /\ worker'.place = worker.place /\ worker'.read = worker.read
  BY <1>1, <1>9, <1>11 DEF WorkerRecord, WorkerSteps, JobSteps, SameTurn, SameMoves
<1>13. siblings' = [siblings EXCEPT ![r] = list]
  BY <1>2, <1>3, <1>4 DEF ResolveImports
<1>14. DOMAIN siblings' = Repos
  BY <1>13 DEF MemoryOK
<1>15. ASSUME NEW q \in Repos, siblings'[q] # NoList
       PROVE  \A p \in Of(q) : Owned(siblings'[q][p], {p}) /\ (siblings'[q][p] = rows[p].id \/ p \in Asked(q))
  <2>1. CASE q = r
    BY <1>6, <1>13, <2>1 DEF MemoryOK
  <2>2. CASE q # r
    <3>1. siblings'[q] = siblings[q]
      BY <1>13, <2>2 DEF MemoryOK
    <3> QED
      BY <1>15, <3>1 DEF ImportsOK, Cached
  <2> QED
    BY <2>1, <2>2
<1>16. worker'.target = Due(worker.job.file) \/ Tries(worker.job.file) \cap Asked(RepoOf[worker.job.file]) # {}
  BY <1>2, <1>3, <1>10, <1>12
<1>17. Owned(worker'.target, Tries(worker.job.file))
  BY <1>2, <1>9, <1>12
<1> QED
  BY <1>2, <1>12, <1>14, <1>15, <1>16, <1>17
-----------------------------------------------------------------------------
(* Moves: what the worker takes to the update of imports *)

LEMMA MovesStored ==
  ASSUME RowsOK, MovesOK, NEW f \in Files, NEW row \in Row, Stored(f, row)
  PROVE  MovesOK'
<1>1. \A id, F : Owned(id, F) => Owned(id, F)'
  BY RowsStored
<1>2. \A m \in worker.moves : Owned(m.target, Tries(m.file)) => Owned(m.target, Tries(m.file))'
  BY <1>1 DEF Tries
<1>3. worker' = worker
  BY DEF Stored
<1> QED
  BY <1>2, <1>3 DEF MovesOK, On

\* A step of the worker or of another actor that leaves the rows and the moves, or drops the moves.
LEMMA MovesKept ==
  ASSUME MovesOK, Elsewhere, worker' \in WorkerRecord, worker'.at # "reresolve",
         \/ worker'.paths = {} /\ worker'.moves = {}
         \/ SameMoves /\ ~On("reresolve")
  PROVE  MovesOK'
BY DEF MovesOK, On, SameMoves

LEMMA MovesTaken ==
  ASSUME RowsOK, DerivedOK, MemoryOK, MovesOK, NEW r \in Repos, TakeRequest(r)
  PROVE  MovesOK'
<1>1. /\ worker' \in WorkerRecord /\ worker'.at = "reresolve" /\ worker'.repo = r
      /\ worker'.paths = requests[r] /\ worker'.moves = Moves(r, requests[r])
  BY WorkerTakes DEF MovesOK
<1>2. PICK ps \in SUBSET Files : ps = requests[r]
  BY DEF MemoryOK
<1>3. PICK ms : ms = Moves(r, ps)
  OBVIOUS
<1>4. /\ \A m \in ms : RepoOf[m.file] = r /\ Owned(m.target, Tries(m.file))
      /\ \A m, n \in ms : m.file = n.file => m = n
  BY <1>3, MovesIs
<1>5. Elsewhere
  BY DEF Elsewhere, TakeRequest, store, counts
<1>6. \A m \in ms : Owned(m.target, Tries(m.file))'
  BY <1>4, <1>5, RowsKept
<1>7. worker'.moves = ms
  BY <1>1, <1>2, <1>3
<1>8. \A m \in worker'.moves : RepoOf[m.file] = worker'.repo /\ Owned(m.target, Tries(m.file))'
  BY <1>1, <1>4, <1>6, <1>7
<1> QED
  BY <1>1, <1>4, <1>7, <1>8 DEF MovesOK, On

LEMMA MovesStep ==
  ASSUME RowsOK, DerivedOK, MemoryOK, QueueOK, JobOK, MovesOK, TurnOK, ImportsOK, [ExtractionNext]_extractionVars
  PROVE  MovesOK'
<1>1. CASE UNCHANGED extractionVars
  BY <1>1 DEF extractionVars, MovesOK, On, Owned
<1>2. CASE \E f \in Files : WriteContent(f) \/ DeleteFile(f)
  <2>1. PICK f \in Files : WriteContent(f) \/ DeleteFile(f)
    BY <1>2
  <2>2. PICK row \in Row : Stored(f, row)
    <3>1. NoRow \in Row
      BY DEF NoRow, Row
    <3> QED
      BY <2>1, <3>1, WriteIs, DeleteIs
  <2> QED
    BY <2>2, MovesStored
<1>3. CASE (\E r \in Repos : RequestPaths(r) \/ EnqueueBatch(r) \/ SyncStops(r)) \/ LeaseOver
  <2>1. worker' = worker /\ rows' = rows /\ nextId' = nextId
    BY <1>3 DEF RequestPaths, EnqueueBatch, SyncStops, LeaseOver, store, counts
  <2> QED
    BY <2>1 DEF MovesOK, On, Owned
<1>4. CASE \E r \in Repos : TakeRequest(r)
  BY <1>4, MovesTaken
<1>5. CASE Drain \/ NoRequests \/ TurnEnds
  <2>1. Elsewhere /\ ~On("reresolve")
    BY <1>5 DEF Drain, NoRequests, TurnEnds, Elsewhere, store, counts, On
  <2>2. PICK step \in {"between", "next"} : worker' = To(step)
    BY <1>5 DEF Drain, NoRequests, TurnEnds
  <2>3. step \in WorkerSteps
    BY DEF WorkerSteps
  <2>4. worker' \in WorkerRecord /\ worker'.at = step /\ SameMoves
    BY <2>2, <2>3, WorkerGoes DEF MovesOK
  <2> QED
    BY <2>1, <2>4, MovesKept
<1>6. CASE Reresolve
  BY <1>6, WorkerReresolved, MovesKept DEF MovesOK, Elsewhere, Reresolve, counts
<1>7. CASE ReresolveFails \/ DrainEnds \/ Boot \/ Die
  <2>1. worker' \in WorkerRecord /\ worker'.at # "reresolve" /\ Rests(worker') /\ Elsewhere
    BY <1>7, WorkerRests
  <2>2. worker'.paths = {} /\ worker'.moves = {}
    BY <2>1 DEF Rests
  <2> QED
    BY <2>1, <2>2 DEF MovesOK, On
<1>9. CASE \E r \in Repos : Turn(r)
  <2>1. PICK r \in Repos : Turn(r)
    BY <1>9
  <2>2. worker' \in WorkerRecord /\ worker'.at = "claim" /\ SameMoves
    BY <2>1, WorkerTurns DEF MovesOK
  <2> QED
    BY <2>1, <2>2, MovesKept DEF Elsewhere, Turn, On, store, counts
<1>10. CASE ClaimJob
  <2>1. worker.repo \in Repos /\ worker \in WorkerRecord
    BY <1>10 DEF ClaimJob, On, TurnOK, InTurn, MovesOK
  <2>2. worker' \in WorkerRecord /\ worker'.at = "read" /\ SameMoves
    BY <1>10, <2>1, WorkerClaims
  <2> QED
    BY <1>10, <2>2, MovesKept DEF Elsewhere, ClaimJob, On, store, counts
<1>11. CASE ReadFile
  <2>1. worker' \in WorkerRecord /\ worker'.at # "reresolve" /\ SameMoves
    BY <1>11, WorkerReads DEF MovesOK
  <2> QED
    BY <1>11, <2>1, MovesKept DEF Elsewhere, ReadFile, On, store, counts
<1>12. CASE ResolveImports
  <2>1. worker' \in WorkerRecord /\ worker'.at = "commit" /\ SameMoves
    BY <1>12, WorkerResolves DEF MovesOK
  <2> QED
    BY <1>12, <2>1, MovesKept DEF Elsewhere, ResolveImports, On, store, counts
<1>13. CASE CommitFile
  <2>1. "complete" \in WorkerSteps
    BY DEF WorkerSteps, JobSteps
  <2>2. worker' \in WorkerRecord /\ worker'.at = "complete" /\ SameMoves
    BY <1>13, <2>1, WorkerGoes DEF MovesOK, CommitFile
  <2> QED
    BY <1>13, <2>2, MovesKept DEF Elsewhere, CommitFile, On, counts
<1>14. CASE Complete \/ JobFails
  <2>1. worker' \in WorkerRecord /\ worker'.at = "claim" /\ SameMoves
    BY <1>14, WorkerOver DEF MovesOK, Complete, JobFails
  <2> QED
    BY <1>14, <2>1, MovesKept DEF Elsewhere, Complete, JobFails, On, store, counts
<1> QED
  BY <1>1, <1>2, <1>3, <1>4, <1>5, <1>6, <1>7, <1>9, <1>10, <1>11, <1>12, <1>13, <1>14 DEF ExtractionNext, Work
-----------------------------------------------------------------------------
(* The queue and the job under way *)

LEMMA SaneKept ==
  ASSUME \A id, F : Owned(id, F) => Owned(id, F)'
  PROVE  \A j : Sane(j) => Sane(j)'
BY DEF Sane

LEMMA SaneKey ==
  ASSUME RowsOK, NEW j, Sane(j)
  PROVE  j.key \in Keys /\ j.file \in Files /\ j.key # NoJob.key
<1>1. j \in Job /\ j.key[1] \in 1 .. nextId - 1 /\ j.key[2] \in Contents[j.file]
  BY DEF Sane, Owned
<1>2. j.key \in Nat \X Nat /\ j.file \in Files
  BY <1>1 DEF Job
<1>3. j.key[2] \in AllContents
  BY <1>1, <1>2 DEF AllContents
<1>4. j.key = <<j.key[1], j.key[2]>>
  BY <1>2
<1>5. j.key # <<>>
  BY <1>4
<1>6. j.key[1] \in 1 .. nextId
  BY <1>1 DEF RowsOK
<1> QED
  BY <1>2, <1>3, <1>4, <1>5, <1>6 DEF Keys, NoJob

LEMMA NewIs ==
  ASSUME RowsOK, NEW fs \in SUBSET Files, NEW rerun, NEW prio \in {Write, CatchUp}, NEW f \in New(fs, rerun)
  PROVE  /\ f \in Files /\ Sane(NewJob(f, prio)) /\ NewJob(f, prio).key = Key(f) /\ NewJob(f, prio).file = f
         /\ Key(f)[1] = rows[f].id /\ rows[f] # NoRow /\ ~Pending(Key(f))
<1>1. f \in Files /\ rows[f] # NoRow /\ ~Pending(Key(f))
  BY DEF New
<1>2. rows[f].id \in 1 .. nextId - 1 /\ rows[f].content \in Contents[f] /\ rows[f] \in Row
  BY <1>1 DEF RowsOK
<1>3. Key(f) = <<rows[f].id, rows[f].content>> /\ Key(f) \in Nat \X Nat
  BY <1>2 DEF Key, Row
<1>4. NewJob(f, prio) \in Job
  BY <1>1, <1>3 DEF NewJob, Job
<1>5. NewJob(f, prio).key = Key(f) /\ NewJob(f, prio).file = f /\ NewJob(f, prio).tries = 0
  BY DEF NewJob
<1>6. Owned(rows[f].id, {f})
  BY <1>1, <1>2 DEF Owned, RowsOK
<1>7. Sane(NewJob(f, prio))
  BY <1>2, <1>3, <1>4, <1>5, <1>6, Limits DEF Sane
<1> QED
  BY <1>1, <1>3, <1>5, <1>7

LEMMA QueueJoined ==
  ASSUME RowsOK, QueueOK, JobOK, NEW fs \in SUBSET Files, NEW rerun, NEW prio \in {Write, CatchUp},
         Enqueued(fs, rerun, prio), Elsewhere
  PROVE  /\ QueueOK' /\ Len(queue) <= Len(queue')
         /\ \A i \in DOMAIN queue' : queue'[i].key = worker.job.key => \E k \in DOMAIN queue : queue[k].key = worker.job.key
<1>1. /\ New(fs, rerun) \in SUBSET fs /\ Joined(queue', New(fs, rerun), prio)
      /\ finished' = {j \in finished : \A f \in New(fs, rerun) : j.key # Key(f)}
  BY EnqueuedIs DEF QueueOK
<1>2. PICK new \in SUBSET Files : new = New(fs, rerun)
  BY <1>1
<1>3. \A f \in new : /\ Sane(NewJob(f, prio)) /\ NewJob(f, prio).key = Key(f) /\ NewJob(f, prio).file = f
                     /\ Key(f)[1] = rows[f].id /\ rows[f] # NoRow /\ ~Pending(Key(f))
  BY <1>2, NewIs
<1>4. /\ queue' \in Seq(Job) /\ Len(queue') \in Nat /\ Len(queue) <= Len(queue') /\ Len(queue) \in Nat
      /\ \A i \in 1 .. Len(queue) : queue'[i] = queue[i]
      /\ \A i \in Len(queue) + 1 .. Len(queue') : \E f \in new : queue'[i] = NewJob(f, prio)
      /\ \A i, j \in Len(queue) + 1 .. Len(queue') : queue'[i].file = queue'[j].file => i = j
  BY <1>1, <1>2 DEF Joined, QueueOK
<1>5. \A j : Sane(j) <=> Sane(j)'
  BY RowsKept DEF Sane
<1>6. ASSUME NEW i \in DOMAIN queue'
      PROVE  Sane(queue[i])'
  <2>1. PICK j : j = queue'[i]
    OBVIOUS
  <2>2. Sane(j)
    <3>1. CASE i \in 1 .. Len(queue)
      BY <1>4, <2>1, <3>1 DEF QueueOK
    <3>2. CASE i \in Len(queue) + 1 .. Len(queue')
      <4>1. PICK f \in new : queue'[i] = NewJob(f, prio)
        BY <1>4, <3>2
      <4> QED
        BY <1>3, <2>1, <4>1
    <3> QED
      BY <1>4, <3>1, <3>2
  <2>3. Sane(j)'
    BY <1>5, <2>2
  <2> QED
    BY <2>1, <2>3 DEF Sane
<1>7. ASSUME NEW i \in 1 .. Len(queue), NEW j \in Len(queue) + 1 .. Len(queue')
      PROVE  queue'[i].key # queue'[j].key
  <2>1. PICK f \in new : queue'[j] = NewJob(f, prio)
    BY <1>4
  <2>2. queue'[j].key = Key(f) /\ ~Pending(Key(f))
    BY <1>3, <2>1
  <2>3. queue[i].key # Key(f)
    BY <1>4, <2>2 DEF Pending
  <2> QED
    BY <1>4, <2>2, <2>3
<1>8. ASSUME NEW i \in Len(queue) + 1 .. Len(queue'), NEW j \in Len(queue) + 1 .. Len(queue'), queue'[i].key = queue'[j].key
      PROVE  i = j
  <2>1. PICK f \in new : queue'[i] = NewJob(f, prio)
    BY <1>4
  <2>2. PICK g \in new : queue'[j] = NewJob(g, prio)
    BY <1>4
  <2>3. rows[f].id = rows[g].id /\ rows[f] # NoRow
    BY <1>3, <1>8, <2>1, <2>2
  <2>4. f = g
    BY <1>2, <2>3 DEF RowsOK
  <2> QED
    BY <1>4, <2>1, <2>2, <2>4
<1>9. \A i, j \in DOMAIN queue' : queue'[i].key = queue'[j].key => i = j
  <2> TAKE i, j \in DOMAIN queue'
  <2> HAVE queue'[i].key = queue'[j].key
  <2>1. CASE i \in 1 .. Len(queue) /\ j \in 1 .. Len(queue)
    BY <1>4, <2>1 DEF QueueOK
  <2>2. CASE i \in Len(queue) + 1 .. Len(queue') /\ j \in Len(queue) + 1 .. Len(queue')
    BY <1>8, <2>2
  <2> QED
    BY <1>4, <1>7, <2>1, <2>2
<1>10. finished' \subseteq [key : Keys, how : {"done", "error", "expired"}]'
  <2>1. Keys' = Keys
    BY DEF Keys, Elsewhere
  <2> QED
    BY <1>1, <2>1 DEF QueueOK
<1>11. \A i \in DOMAIN queue' : queue'[i].key = worker.job.key => \E k \in DOMAIN queue : queue[k].key = worker.job.key
  <2> TAKE i \in DOMAIN queue'
  <2> HAVE queue'[i].key = worker.job.key
  <2>1. CASE i \in 1 .. Len(queue)
    BY <1>4, <2>1
  <2>2. CASE i \in Len(queue) + 1 .. Len(queue')
    <3>1. PICK f \in new : queue'[i] = NewJob(f, prio)
      BY <1>4, <2>2
    <3> QED
      BY <1>3, <3>1 DEF Pending
  <2> QED
    BY <1>4, <2>1, <2>2
<1> QED
  BY <1>4, <1>6, <1>9, <1>10, <1>11 DEF QueueOK

LEMMA QueueRemoved ==
  ASSUME RowsOK, QueueOK, Elsewhere, NEW i \in 1 .. Len(queue), Removed(queue', i),
         finished' \subseteq [key : Keys, how : {"done", "error", "expired"}]
  PROVE  /\ QueueOK' /\ \A k \in DOMAIN queue' : queue'[k].key # queue[i].key
         /\ \A k \in DOMAIN queue' : \E l \in DOMAIN queue : l # i /\ queue'[k] = queue[l]
<1>1. /\ queue' \in Seq(Job) /\ Len(queue') = Len(queue) - 1 /\ Len(queue) \in Nat
      /\ \A k \in 1 .. Len(queue') : queue'[k] = IF k < i THEN queue[k] ELSE queue[k + 1]
  BY DEF Removed, QueueOK
<1>2. \A j : Sane(j) <=> Sane(j)'
  BY RowsKept DEF Sane
<1>3. \A k \in DOMAIN queue' : LET l == IF k < i THEN k ELSE k + 1 IN l \in DOMAIN queue /\ l # i /\ queue'[k] = queue[l]
  BY <1>1 DEF QueueOK
<1>4. ASSUME NEW k \in DOMAIN queue'
      PROVE  Sane(queue[k])'
  <2>1. PICK j : j = queue'[k] /\ Sane(j)
    BY <1>3 DEF QueueOK
  <2>2. Sane(j)'
    BY <1>2, <2>1
  <2> QED
    BY <2>1, <2>2 DEF Sane
<1>5. \A k, l \in DOMAIN queue' : queue'[k].key = queue'[l].key => k = l
  <2> TAKE k, l \in DOMAIN queue'
  <2>1. k \in 1 .. Len(queue') /\ l \in 1 .. Len(queue')
    BY <1>1
  <2>2. queue'[k].key = queue'[l].key => (IF k < i THEN k ELSE k + 1) = (IF l < i THEN l ELSE l + 1)
    BY <1>3 DEF QueueOK
  <2> QED
    BY <2>1, <2>2
<1>6. Keys' = Keys
  BY DEF Keys, Elsewhere
<1>7. QueueOK'
  BY <1>1, <1>4, <1>5, <1>6 DEF QueueOK
<1>8. i \in DOMAIN queue
  BY <1>1 DEF QueueOK
<1> QED
  BY <1>3, <1>7, <1>8 DEF QueueOK

LEMMA QueuePut ==
  ASSUME RowsOK, QueueOK, JobOK, Working, Elsewhere, queue' = Back,
         finished' \subseteq [key : Keys, how : {"done", "error", "expired"}]
  PROVE  QueueOK' /\ Put(queue', worker.place, [worker.job EXCEPT !.ready = FALSE])
<1>1. PICK j \in Job : j = worker.job /\ Sane(j)
  BY DEF JobOK, Sane
<1>2. PICK i \in 1 .. Len(queue) + 1 : i = worker.place
  BY DEF JobOK
<1>3. PICK b \in Job : b = [j EXCEPT !.ready = FALSE]
  BY DEF Job
<1>4. b.key = j.key /\ b.file = j.file /\ b.tries = j.tries
  BY <1>3 DEF Job
<1>5. Put(queue', worker.place, [worker.job EXCEPT !.ready = FALSE])
  BY <1>1, <1>2, BackIs DEF QueueOK
<1>6. /\ queue' \in Seq(Job) /\ Len(queue') = Len(queue) + 1 /\ Len(queue) \in Nat /\ queue'[i] = b
      /\ \A k \in 1 .. Len(queue') : k # i => queue'[k] = IF k < i THEN queue[k] ELSE queue[k - 1]
  BY <1>1, <1>2, <1>3, <1>5 DEF Put, QueueOK
<1>7. \A k \in DOMAIN queue' : k # i => LET l == IF k < i THEN k ELSE k - 1 IN l \in DOMAIN queue /\ queue'[k] = queue[l]
  BY <1>6 DEF QueueOK
<1>8. Sane(b)
  BY <1>1, <1>4 DEF Sane
<1>9. \A k : Sane(k) <=> Sane(k)'
  BY RowsKept DEF Sane
<1>10. ASSUME NEW k \in DOMAIN queue'
       PROVE  Sane(queue[k])'
  <2>1. PICK l : l = queue'[k] /\ Sane(l)
    BY <1>6, <1>7, <1>8 DEF QueueOK
  <2>2. Sane(l)'
    BY <1>9, <2>1
  <2> QED
    BY <2>1, <2>2 DEF Sane
<1>11. \A k \in DOMAIN queue : queue[k].key # b.key
  BY <1>1, <1>4 DEF JobOK
<1>12. \A k, l \in DOMAIN queue' : queue'[k].key = queue'[l].key => k = l
  <2> TAKE k, l \in DOMAIN queue'
  <2> HAVE queue'[k].key = queue'[l].key
  <2>1. k \in 1 .. Len(queue') /\ l \in 1 .. Len(queue')
    BY <1>6
  <2>2. CASE k # i /\ l # i
    <3>1. (IF k < i THEN k ELSE k - 1) = (IF l < i THEN l ELSE l - 1)
      BY <1>7, <2>2 DEF QueueOK
    <3> QED
      BY <2>1, <2>2, <3>1
  <2>3. CASE k = i \/ l = i
    BY <1>6, <1>7, <1>11, <2>3
  <2> QED
    BY <2>2, <2>3
<1>13. Keys' = Keys
  BY DEF Keys, Elsewhere
<1> QED
  BY <1>5, <1>6, <1>10, <1>12, <1>13 DEF QueueOK

LEMMA Replaced ==
  ASSUME NEW q \in Seq(Job), NEW i \in DOMAIN q, NEW j \in Job
  PROVE  [q EXCEPT ![i] = j] \in Seq(Job) /\ Len([q EXCEPT ![i] = j]) = Len(q) /\ DOMAIN [q EXCEPT ![i] = j] = DOMAIN q
<1>1. Len(q) \in Nat /\ q \in [1 .. Len(q) -> Job] /\ DOMAIN q = 1 .. Len(q)
  OBVIOUS
<1>2. [q EXCEPT ![i] = j] \in [1 .. Len(q) -> Job]
  BY <1>1
<1> QED
  BY <1>1, <1>2

LEMMA LeaseIs ==
  ASSUME QueueOK, LeaseOver
  PROVE  /\ queue' \in Seq(Job) /\ DOMAIN queue' = DOMAIN queue /\ Len(queue') = Len(queue)
         /\ \A k \in DOMAIN queue : /\ queue'[k].key = queue[k].key /\ queue'[k].file = queue[k].file /\ queue'[k].prio = queue[k].prio
                                    /\ queue'[k].tries = queue[k].tries /\ (queue[k].ready => queue'[k].ready)
<1>1. PICK i \in DOMAIN queue : queue' = [queue EXCEPT ![i].ready = TRUE]
  BY DEF LeaseOver
<1>2. PICK j \in Job : j = queue[i]
  BY <1>1 DEF QueueOK
<1>3. PICK b \in Job : b = [j EXCEPT !.ready = TRUE]
  BY DEF Job
<1>4. b.key = j.key /\ b.file = j.file /\ b.prio = j.prio /\ b.tries = j.tries /\ b.ready
  BY <1>3 DEF Job
<1>5. queue' = [queue EXCEPT ![i] = b]
  BY <1>1, <1>2, <1>3 DEF QueueOK
<1>6. queue' \in Seq(Job) /\ Len(queue') = Len(queue) /\ DOMAIN queue' = DOMAIN queue
  <2>1. PICK q \in Seq(Job) : q = queue
    BY DEF QueueOK
  <2>2. i \in DOMAIN q /\ queue' = [q EXCEPT ![i] = b]
    BY <1>1, <1>5, <2>1
  <2>3. PICK p : p = [q EXCEPT ![i] = b]
    OBVIOUS
  <2>4. p \in Seq(Job) /\ Len(p) = Len(q) /\ DOMAIN p = DOMAIN q
    BY <2>2, <2>3, Replaced, Zenon
  <2>5. queue' = p
    BY <2>2, <2>3
  <2> QED
    BY <2>1, <2>4, <2>5
<1>7. \A k \in DOMAIN queue : queue'[k] = IF k = i THEN b ELSE queue[k]
  BY <1>5
<1> QED
  BY <1>2, <1>4, <1>6, <1>7

LEMMA QueueLeased ==
  ASSUME RowsOK, QueueOK, LeaseOver
  PROVE  QueueOK'
<1>1. /\ queue' \in Seq(Job) /\ DOMAIN queue' = DOMAIN queue
      /\ \A k \in DOMAIN queue : queue'[k].key = queue[k].key /\ queue'[k].file = queue[k].file /\ queue'[k].tries = queue[k].tries
  BY LeaseIs
<1>2. Elsewhere /\ finished' = finished
  BY DEF LeaseOver, Elsewhere, store, counts
<1>3. \A j : Sane(j) <=> Sane(j)'
  BY <1>2, RowsKept DEF Sane
<1>4. ASSUME NEW k \in DOMAIN queue'
      PROVE  Sane(queue[k])'
  <2>1. PICK j \in Job : j = queue'[k]
    BY <1>1
  <2>2. Sane(queue[k])
    BY <1>1 DEF QueueOK
  <2>3. Sane(j)
    BY <1>1, <2>1, <2>2 DEF Sane
  <2>4. Sane(j)'
    BY <1>3, <2>3
  <2> QED
    BY <2>1, <2>4 DEF Sane
<1>5. Keys' = Keys
  BY <1>2 DEF Keys, Elsewhere
<1> QED
  BY <1>1, <1>2, <1>4, <1>5 DEF QueueOK

\* The queue stays, and at most keys of it or of the job under way are added to those that are over.
LEMMA QueueStays ==
  ASSUME RowsOK, QueueOK, queue' = queue, nextId <= nextId', nextId' \in Nat, \A id, F : Owned(id, F) => Owned(id, F)',
         finished' \subseteq [key : Keys, how : {"done", "error", "expired"}]
  PROVE  QueueOK'
<1>1. \A j : Sane(j) => Sane(j)'
  BY SaneKept
<1>2. ASSUME NEW k \in DOMAIN queue
      PROVE  Sane(queue[k])'
  <2>1. PICK j : j = queue[k] /\ Sane(j)
    BY DEF QueueOK
  <2>2. Sane(j)' /\ j = queue'[k]
    BY <1>1, <2>1
  <2> QED
    BY <2>2 DEF Sane
<1>3. Keys \subseteq Keys'
  BY DEF Keys, RowsOK
<1>4. finished' \subseteq [key : Keys', how : {"done", "error", "expired"}]
  BY <1>3
<1> QED
  BY <1>2, <1>4 DEF QueueOK

LEMMA QueueStep ==
  ASSUME RowsOK, DerivedOK, MemoryOK, QueueOK, JobOK, MovesOK, TurnOK, [ExtractionNext]_extractionVars
  PROVE  QueueOK'
<1> DEFINE Results == [key : Keys, how : {"done", "error", "expired"}]
<1>1. Len(queue) \in Nat /\ finished \subseteq Results /\ nextId \in Nat
  BY DEF QueueOK, RowsOK
<1>2. Working => worker.job.key \in Keys
  BY SaneKey DEF JobOK
<1>3. CASE UNCHANGED extractionVars
  BY <1>1, <1>3, QueueStays DEF extractionVars, Owned
<1>4. CASE \E f \in Files : WriteContent(f) \/ DeleteFile(f)
  <2>1. PICK f \in Files : WriteContent(f) \/ DeleteFile(f)
    BY <1>4
  <2>2. PICK row \in Row : Stored(f, row)
    <3>1. NoRow \in Row
      BY DEF NoRow, Row
    <3> QED
      BY <2>1, <3>1, WriteIs, DeleteIs
  <2>3. RowsOK' /\ nextId <= nextId' /\ \A id, F : Owned(id, F) => Owned(id, F)'
    BY <2>2, RowsStored
  <2>4. queue' = queue /\ finished' = finished
    BY <2>2 DEF Stored, jobs
  <2>5. nextId' \in Nat
    BY <2>3 DEF RowsOK
  <2> QED
    BY <1>1, <2>3, <2>4, <2>5, QueueStays
<1>5. ASSUME Elsewhere, queue' = queue, finished' \subseteq Results
      PROVE  QueueOK'
  <2>1. \A id, F : Owned(id, F) => Owned(id, F)'
    BY <1>5, RowsKept
  <2> QED
    BY <1>1, <1>5, <2>1, QueueStays DEF Elsewhere
<1>6. CASE \E r \in Repos : EnqueueBatch(r)
  <2>1. PICK r \in Repos : EnqueueBatch(r)
    BY <1>6
  <2>2. PICK fs \in SUBSET Files : fs = batch[r].files
    BY DEF MemoryOK, Batch
  <2>3. Enqueued(fs, "done", Write) /\ Elsewhere
    BY <2>1, <2>2 DEF EnqueueBatch, Elsewhere, store, counts
  <2> QED
    BY <2>3, QueueJoined
<1>7. CASE Boot
  <2>1. Enqueued(Missing, "error", CatchUp) /\ Elsewhere /\ Missing \in SUBSET Files
    BY <1>7 DEF Boot, Elsewhere, counts, Missing
  <2> QED
    BY <2>1, QueueJoined
<1>8. CASE Drain
  <2>1. PICK crashed : crashed = {i \in DOMAIN queue : queue[i].ready /\ queue[i].tries >= MaxAttempts}
    OBVIOUS
  <2>2. /\ queue' = queue \/ Remain(DOMAIN queue \ crashed)
        /\ finished' = finished \cup {[key |-> queue[i].key, how |-> "expired"] : i \in crashed}
        /\ Elsewhere
    BY <1>8, <2>1 DEF Drain, Elsewhere, store, counts
  <2>3. \A i \in DOMAIN queue : queue[i].key \in Keys
    BY SaneKey DEF QueueOK
  <2>4. finished' \subseteq Results
    BY <1>1, <2>1, <2>2, <2>3
  <2>5. CASE queue' = queue
    BY <1>5, <2>2, <2>4, <2>5
  <2>6. CASE Remain(DOMAIN queue \ crashed)
    <3>1. LeftAlone(queue', DOMAIN queue \ crashed)
      BY <2>6, RemainIs
    <3>2. \A j : Sane(j) <=> Sane(j)'
      BY <2>2, RowsKept DEF Sane
    <3>3. ASSUME NEW i \in DOMAIN queue'
          PROVE  Sane(queue[i])'
      <4>1. PICK j : j = queue'[i] /\ Sane(j)
        BY <3>1 DEF LeftAlone, QueueOK
      <4>2. Sane(j)'
        BY <3>2, <4>1
      <4> QED
        BY <4>1, <4>2 DEF Sane
    <3>4. Keys' = Keys
      BY <2>2 DEF Keys, Elsewhere
    <3> QED
      BY <2>4, <3>1, <3>3, <3>4 DEF LeftAlone, QueueOK
  <2> QED
    BY <2>2, <2>5, <2>6
<1>9. CASE ClaimJob
  <2>1. worker.repo \in Repos /\ worker \in WorkerRecord
    BY <1>9 DEF ClaimJob, On, TurnOK, InTurn, MovesOK
  <2>2. PICK i : i = Oldest(worker.repo, worker.prio)
    OBVIOUS
  <2>3. i \in 1 .. Len(queue)
    BY <1>9, <2>1, <2>2, WorkerClaims
  <2>4. queue' = Without(i) /\ Elsewhere /\ finished' = finished
    BY <1>9, <2>2 DEF ClaimJob, Elsewhere, store, counts
  <2>5. Removed(queue', i)
    BY <2>3, <2>4, WithoutIs DEF QueueOK
  <2> QED
    BY <1>1, <2>3, <2>4, <2>5, QueueRemoved
<1>10. CASE JobFails
  <2>1. Working /\ Elsewhere
    BY <1>10 DEF JobFails, Working, JobSteps, Elsewhere, store
  <2>2. CASE worker.job.tries >= MaxAttempts
    <3>1. queue' = queue /\ finished' = finished \cup {[key |-> worker.job.key, how |-> "error"]}
      BY <1>10, <2>2 DEF JobFails
    <3>2. finished' \subseteq Results
      BY <1>1, <1>2, <2>1, <3>1
    <3> QED
      BY <1>5, <2>1, <3>1, <3>2
  <2>3. CASE ~(worker.job.tries >= MaxAttempts)
    <3>1. queue' = Back /\ finished' = finished
      BY <1>10, <2>3 DEF JobFails
    <3> QED
      BY <1>1, <2>1, <3>1, QueuePut
  <2> QED
    BY <2>2, <2>3
<1>11. CASE Complete
  <2>1. Working /\ Elsewhere /\ queue' = queue /\ finished' = finished \cup {[key |-> worker.job.key, how |-> "done"]}
    BY <1>11 DEF Complete, On, Working, JobSteps, Elsewhere, store, counts
  <2>2. finished' \subseteq Results
    BY <1>1, <1>2, <2>1
  <2> QED
    BY <1>5, <2>1, <2>2
<1>12. CASE Die
  <2>1. Elsewhere /\ finished' = finished
    BY <1>12 DEF Die, Elsewhere, store
  <2>2. CASE ~Working
    <3>1. queue' = queue
      BY <1>12, <2>2 DEF Die, JobOK
    <3> QED
      BY <1>1, <1>5, <2>1, <3>1
  <2>3. CASE Working
    <3>1. worker.job # NoJob
      <4>1. PICK j : j = worker.job /\ Sane(j)
        BY <2>3 DEF JobOK
      <4> QED
        BY <4>1, SaneKey
    <3>2. queue' = Back
      BY <1>12, <3>1 DEF Die
    <3> QED
      BY <1>1, <2>1, <2>3, <3>2, QueuePut
  <2> QED
    BY <2>2, <2>3
<1>13. CASE LeaseOver
  BY <1>13, QueueLeased
<1>14. CASE \/ \E r \in Repos : RequestPaths(r) \/ SyncStops(r) \/ TakeRequest(r) \/ Turn(r)
            \/ Reresolve \/ ReresolveFails \/ NoRequests \/ DrainEnds \/ TurnEnds \/ ReadFile \/ ResolveImports \/ CommitFile
  <2>1. Elsewhere /\ queue' = queue /\ finished' = finished
    BY <1>14 DEF RequestPaths, SyncStops, TakeRequest, Turn, Reresolve, ReresolveFails, NoRequests, DrainEnds, TurnEnds,
                 ReadFile, ResolveImports, CommitFile, Elsewhere, jobs, store, counts
  <2> QED
    BY <1>1, <1>5, <2>1
<1> QED
  BY <1>3, <1>4, <1>6, <1>7, <1>8, <1>9, <1>10, <1>11, <1>12, <1>13, <1>14 DEF ExtractionNext, Work

\* The worker between jobs, or in none.
LEMMA JobNone ==
  ASSUME worker'.at \notin JobSteps, worker'.job = NoJob, worker'.read = NoRow, worker'.target = 0
  PROVE  JobOK'
BY DEF JobOK, Working, JobSteps, RowSteps

\* What others do to the rows and to the queue leaves the job under way.
LEMMA JobKept ==
  ASSUME RowsOK, QueueOK, JobOK, worker' = worker, \A id, F : Owned(id, F) => Owned(id, F)', Len(queue') \in Nat, Len(queue) <= Len(queue'),
         \A i \in DOMAIN queue' : queue'[i].key = worker.job.key => \E k \in DOMAIN queue : queue[k].key = worker.job.key
  PROVE  JobOK'
<1>1. ASSUME Working
      PROVE  Sane(worker.job)' /\ worker.place \in 1 .. Len(queue') + 1 /\ \A i \in DOMAIN queue' : queue'[i].key # worker.job.key
  <2>1. PICK j : j = worker.job /\ Sane(j)
    BY <1>1 DEF JobOK
  <2>2. Sane(j)' /\ j = worker'.job
    BY <2>1, SaneKept
  <2>3. Sane(worker.job)'
    BY <2>2 DEF Sane
  <2>4. Len(queue) \in Nat
    BY DEF QueueOK
  <2> QED
    BY <1>1, <2>3, <2>4 DEF JobOK
<1>2. worker.at \in {"commit", "complete"} => Owned(worker.target, Tries(worker.job.file))'
  BY DEF JobOK, Tries
<1>3. Working' <=> Working
  BY DEF Working
<1> QED
  BY <1>1, <1>2, <1>3 DEF JobOK

LEMMA JobStep ==
  ASSUME RowsOK, DerivedOK, MemoryOK, QueueOK, JobOK, MovesOK, TurnOK, ImportsOK, [ExtractionNext]_extractionVars
  PROVE  JobOK'
<1>1. Len(queue) \in Nat /\ worker \in WorkerRecord
  BY DEF QueueOK, MovesOK
<1>2. Elsewhere => \A id, F : Owned(id, F) => Owned(id, F)'
  BY RowsKept
<1>3. CASE UNCHANGED extractionVars
  <2>1. Elsewhere /\ worker' = worker /\ queue' = queue
    BY <1>3 DEF extractionVars, Elsewhere
  <2> QED
    BY <1>1, <1>2, <2>1, JobKept
<1>4. CASE \E f \in Files : WriteContent(f) \/ DeleteFile(f)
  <2>1. PICK f \in Files : WriteContent(f) \/ DeleteFile(f)
    BY <1>4
  <2>2. PICK row \in Row : Stored(f, row)
    <3>1. NoRow \in Row
      BY DEF NoRow, Row
    <3> QED
      BY <2>1, <3>1, WriteIs, DeleteIs
  <2>3. worker' = worker /\ queue' = queue
    BY <2>2 DEF Stored, jobs
  <2> QED
    BY <1>1, <2>2, <2>3, RowsStored, JobKept
<1>5. CASE (\E r \in Repos : RequestPaths(r) \/ SyncStops(r)) \/ LeaseOver
  <2>1. worker' = worker /\ Elsewhere
    BY <1>5 DEF RequestPaths, SyncStops, LeaseOver, Elsewhere, store, counts
  <2>2. LeaseOver \/ queue' = queue
    BY <1>5 DEF RequestPaths, SyncStops, jobs
  <2>3. /\ Len(queue') = Len(queue) /\ DOMAIN queue' = DOMAIN queue /\ \A i \in DOMAIN queue : queue'[i].key = queue[i].key
    BY <2>2, LeaseIs
  <2> QED
    BY <1>1, <1>2, <2>1, <2>3, JobKept
<1>6. CASE \E r \in Repos : EnqueueBatch(r)
  <2>1. PICK r \in Repos : EnqueueBatch(r)
    BY <1>6
  <2>2. PICK fs \in SUBSET Files : fs = batch[r].files
    BY DEF MemoryOK, Batch
  <2>3. Enqueued(fs, "done", Write) /\ Elsewhere /\ worker' = worker
    BY <2>1, <2>2 DEF EnqueueBatch, Elsewhere, store, counts
  <2>4. /\ QueueOK' /\ Len(queue) <= Len(queue')
        /\ \A i \in DOMAIN queue' : queue'[i].key = worker.job.key => \E k \in DOMAIN queue : queue[k].key = worker.job.key
    BY <2>3, QueueJoined
  <2>5. Len(queue') \in Nat
    BY <2>4 DEF QueueOK
  <2> QED
    BY <1>2, <2>3, <2>4, <2>5, JobKept
<1>7. CASE ReresolveFails \/ DrainEnds \/ Boot \/ Die
  BY <1>7, WorkerRests, JobNone DEF Rests, JobSteps
<1>8. ASSUME ~Working, SameJob, worker'.at \notin JobSteps
      PROVE  JobOK'
  BY <1>8, JobNone DEF JobOK, SameJob, Working, JobSteps, RowSteps
<1>9. CASE Drain \/ NoRequests \/ TurnEnds
  <2>1. PICK step \in {"between", "next"} : worker' = To(step)
    BY <1>9 DEF Drain, NoRequests, TurnEnds
  <2>2. step \in WorkerSteps /\ step \notin JobSteps
    BY DEF WorkerSteps, JobSteps
  <2>3. ~Working
    BY <1>9 DEF Drain, NoRequests, TurnEnds, On, Working, JobSteps
  <2> QED
    BY <1>1, <1>8, <2>1, <2>2, <2>3, WorkerGoes
<1>10. CASE (\E r \in Repos : TakeRequest(r) \/ Turn(r)) \/ Reresolve
  <2>1. SameJob /\ worker'.at \in {"reresolve", "claim", "between"}
    BY <1>1, <1>10, WorkerTakes, WorkerTurns, WorkerReresolved
  <2>2. ~Working
    BY <1>10 DEF TakeRequest, Turn, Reresolve, On, Working, JobSteps
  <2> QED
    BY <1>8, <2>1, <2>2 DEF JobSteps
<1>11. CASE Complete \/ JobFails
  <2>1. worker' = JobOver
    BY <1>11 DEF Complete, JobFails
  <2> QED
    BY <1>1, <2>1, WorkerOver, JobNone DEF JobSteps
<1>12. CASE ClaimJob
  <2>1. worker.repo \in Repos /\ worker.at = "claim"
    BY <1>12 DEF ClaimJob, On, TurnOK, InTurn
  <2>2. PICK i : i = Oldest(worker.repo, worker.prio)
    OBVIOUS
  <2>3. /\ worker'.at = "read" /\ worker'.read = worker.read /\ worker'.target = worker.target
        /\ i \in 1 .. Len(queue) /\ worker'.place = i
        /\ worker'.job \in Job /\ worker'.job.key = queue[i].key /\ worker'.job.file = queue[i].file
        /\ worker'.job.tries = queue[i].tries + 1 /\ queue[i].tries < MaxAttempts
    BY <1>1, <1>12, <2>1, <2>2, WorkerClaims
  <2>4. queue' = Without(i) /\ Elsewhere /\ finished' = finished
    BY <1>12, <2>2 DEF ClaimJob, Elsewhere, store, counts
  <2>5. Removed(queue', i)
    BY <2>3, <2>4, WithoutIs DEF QueueOK
  <2>6. Len(queue') = Len(queue) - 1 /\ \A k \in DOMAIN queue' : queue'[k].key # queue[i].key
    BY <2>3, <2>4, <2>5, QueueRemoved DEF Removed, QueueOK
  <2>7. PICK j : j = worker'.job
    OBVIOUS
  <2>8. PICK q \in Job : q = queue[i] /\ Sane(q) /\ q.tries \in Nat
    <3>1. queue[i] \in Job /\ Sane(queue[i])
      BY <2>3 DEF QueueOK
    <3> QED
      BY <3>1 DEF Job
  <2>9. Sane(j)
    <3>1. j \in Job /\ j.key = q.key /\ j.file = q.file /\ j.tries = q.tries + 1 /\ q.tries < MaxAttempts
      BY <2>3, <2>7, <2>8
    <3>2. j.tries <= MaxAttempts
      BY <2>8, <3>1, Limits
    <3> QED
      BY <2>8, <3>1, <3>2 DEF Sane
  <2>10. Sane(j)'
    BY <1>2, <2>4, <2>9, SaneKept
  <2>11. Sane(worker.job)'
    BY <2>7, <2>10 DEF Sane
  <2>12. worker'.read = NoRow /\ worker'.target = 0
    BY <2>1, <2>3 DEF JobOK, RowSteps
  <2>13. worker'.place \in 1 .. Len(queue') + 1
    BY <1>1, <2>3, <2>6
  <2> QED
    BY <2>3, <2>6, <2>11, <2>12, <2>13 DEF JobOK, Working, JobSteps, RowSteps
<1>13. ASSUME Elsewhere, queue' = queue, Working, worker'.job = worker.job, worker'.place = worker.place
       PROVE  Sane(worker.job)' /\ worker'.place \in 1 .. Len(queue') + 1 /\ \A i \in DOMAIN queue' : queue'[i].key # worker'.job.key
  <2>1. PICK j : j = worker.job /\ Sane(j)
    BY <1>13 DEF JobOK
  <2>2. Sane(j)' /\ j = worker'.job
    BY <1>2, <1>13, <2>1, SaneKept
  <2>3. Sane(worker.job)'
    BY <2>2 DEF Sane
  <2> QED
    BY <1>13, <2>3 DEF JobOK
<1>14. CASE ReadFile
  <2>1. Elsewhere /\ queue' = queue /\ Working /\ worker.at = "read"
    BY <1>14 DEF ReadFile, On, Working, JobSteps, Elsewhere, store, counts, jobs
  <2>2. /\ worker'.job = worker.job /\ worker'.place = worker.place /\ worker'.target = worker.target /\ worker.job.file \in Files
        /\ \/ /\ rows[worker.job.file].id = worker.job.key[1] /\ worker'.read = rows[worker.job.file]
              /\ worker'.at \in {"commit", "resolve"}
           \/ worker'.read = worker.read /\ worker'.at = "complete"
    BY <1>1, <1>14, WorkerReads
  <2>3. worker'.target = 0 /\ worker.read = NoRow
    BY <2>1, <2>2 DEF JobOK, RowSteps
  <2>4. Owned(0, Tries(worker.job.file))'
    <3>1. nextId \in Nat \ {0} /\ nextId' = nextId
      BY <2>1 DEF RowsOK, Elsewhere
    <3>2. 0 \in 0 .. nextId' - 1
      BY <3>1
    <3> QED
      BY <3>2 DEF Owned, Tries
  <2>5. worker.job.key[1] # 0
    BY <2>1 DEF JobOK, Sane
  <2>6. worker'.at # "complete" => worker'.read # NoRow /\ worker'.read.id = worker'.job.key[1] /\ worker'.read.content \in Contents[worker'.job.file]
    BY <2>2, <2>5 DEF RowsOK, NoRow
  <2>7. worker'.at = "complete" => worker'.read = NoRow
    BY <2>2, <2>3
  <2> QED
    BY <1>13, <2>1, <2>2, <2>3, <2>4, <2>6, <2>7 DEF JobOK, Working, JobSteps, RowSteps
<1>15. CASE ResolveImports
  <2>1. Elsewhere /\ queue' = queue /\ Working /\ worker.at = "resolve"
    BY <1>15 DEF ResolveImports, On, Working, JobSteps, Elsewhere, store, counts, jobs
  <2>2. /\ worker'.at = "commit" /\ worker'.job = worker.job /\ worker'.place = worker.place /\ worker'.read = worker.read
        /\ Owned(worker'.target, Tries(worker.job.file))
    BY <1>1, <1>15, WorkerResolves
  <2>3. PICK id, F : id = worker'.target /\ F = Tries(worker.job.file)
    OBVIOUS
  <2>4. Owned(id, F)'
    BY <1>2, <2>1, <2>2, <2>3
  <2>5. Owned(worker.target, Tries(worker.job.file))'
    BY <2>2, <2>3, <2>4 DEF Owned, Tries
  <2> QED
    BY <1>13, <2>1, <2>2, <2>5 DEF JobOK, Working, JobSteps, RowSteps
<1>16. CASE CommitFile
  <2>1. Elsewhere /\ queue' = queue /\ Working /\ worker.at = "commit"
    BY <1>16 DEF CommitFile, On, Working, JobSteps, Elsewhere, counts, jobs
  <2>2. "complete" \in WorkerSteps
    BY DEF WorkerSteps, JobSteps
  <2>3. worker'.at = "complete" /\ SameJob
    BY <1>1, <1>16, <2>2, WorkerGoes DEF CommitFile
  <2>4. Owned(worker.target, Tries(worker.job.file))'
    BY <2>1, <2>3 DEF JobOK, SameJob, Elsewhere, Owned, Tries
  <2> QED
    BY <1>13, <2>1, <2>3, <2>4 DEF JobOK, SameJob, Working, JobSteps, RowSteps
<1> QED
  BY <1>3, <1>4, <1>5, <1>6, <1>7, <1>9, <1>10, <1>11, <1>12, <1>14, <1>15, <1>16 DEF ExtractionNext, Work
-----------------------------------------------------------------------------
(* Rows, what is derived from them, and memory, over every step *)

\* The steps that leave the rows.
LEMMA Others ==
  ASSUME [ExtractionNext]_extractionVars, ~(\E f \in Files : WriteContent(f) \/ DeleteFile(f))
  PROVE  Elsewhere
<1>1. CASE UNCHANGED extractionVars
  BY <1>1 DEF extractionVars, Elsewhere
<1>2. CASE \E r \in Repos : RequestPaths(r) \/ EnqueueBatch(r) \/ SyncStops(r)
  BY <1>2 DEF RequestPaths, EnqueueBatch, SyncStops, Elsewhere, store, counts
<1>3. CASE Work
  BY <1>3 DEF Work, Drain, TakeRequest, Turn, Reresolve, ReresolveFails, NoRequests, DrainEnds, ClaimJob, TurnEnds, ReadFile,
              ResolveImports, CommitFile, Complete, JobFails, Elsewhere, store, counts
<1>4. CASE LeaseOver \/ Die \/ Boot
  BY <1>4 DEF LeaseOver, Die, Boot, Elsewhere, store, counts
<1> QED
  BY <1>1, <1>2, <1>3, <1>4 DEF ExtractionNext

LEMMA Stores ==
  ASSUME RowsOK, MemoryOK, NEW f \in Files, WriteContent(f) \/ DeleteFile(f)
  PROVE  \E row \in Row : Stored(f, row)
<1>1. NoRow \in Row
  BY DEF NoRow, Row
<1> QED
  BY <1>1, WriteIs, DeleteIs

LEMMA RowsStep ==
  ASSUME RowsOK, MemoryOK, [ExtractionNext]_extractionVars
  PROVE  RowsOK' /\ \A id, F : Owned(id, F) => Owned(id, F)'
<1>1. CASE \E f \in Files : WriteContent(f) \/ DeleteFile(f)
  BY <1>1, Stores, RowsStored
<1>2. CASE ~(\E f \in Files : WriteContent(f) \/ DeleteFile(f))
  BY <1>2, Others, RowsKept
<1> QED
  BY <1>1, <1>2

LEMMA DerivedStep ==
  ASSUME RowsOK, DerivedOK, MemoryOK, JobOK, MovesOK, [ExtractionNext]_extractionVars
  PROVE  DerivedOK'
<1>1. CASE \E f \in Files : WriteContent(f) \/ DeleteFile(f)
  BY <1>1, DerivedStored
<1>2. CASE Reresolve \/ CommitFile \/ Boot
  BY <1>2, DerivedReresolved, DerivedCommitted, DerivedBooted
<1>3. ASSUME derived' = derived, rows' = rows
      PROVE  DerivedOK'
  BY <1>3 DEF DerivedOK, Tries
<1>4. CASE UNCHANGED extractionVars
  BY <1>3, <1>4 DEF extractionVars
<1>5. CASE \/ \E r \in Repos : RequestPaths(r) \/ EnqueueBatch(r) \/ SyncStops(r) \/ TakeRequest(r) \/ Turn(r)
           \/ Drain \/ ReresolveFails \/ NoRequests \/ DrainEnds \/ ClaimJob \/ TurnEnds \/ ReadFile
           \/ ResolveImports \/ Complete \/ JobFails \/ LeaseOver \/ Die
  BY <1>3, <1>5 DEF RequestPaths, EnqueueBatch, SyncStops, TakeRequest, Turn, Drain, ReresolveFails, NoRequests, DrainEnds, ClaimJob,
                    TurnEnds, ReadFile, ResolveImports, Complete, JobFails, LeaseOver, Die, store
<1> QED
  BY <1>1, <1>2, <1>4, <1>5 DEF ExtractionNext, Work

LEMMA MemoryStep ==
  ASSUME RowsOK, MemoryOK, MovesOK, [ExtractionNext]_extractionVars
  PROVE  MemoryOK'
<1>1. CASE \E f \in Files : WriteContent(f) \/ DeleteFile(f)
  BY <1>1, Stores, MemoryStored
<1>2. CASE UNCHANGED extractionVars
  BY <1>2 DEF extractionVars, MemoryOK
<1>3. CASE \E r \in Repos : RequestPaths(r) \/ EnqueueBatch(r) \/ SyncStops(r)
  BY <1>3, MemoryRequested, MemoryEnqueued, MemoryStopped
<1>4. CASE CommitFile \/ Die \/ Boot
  BY <1>4, MemoryCommitted, MemoryEnded, MemoryBooted
<1> QED
  BY <1>1, <1>2, <1>3, <1>4, MemoryWorked DEF ExtractionNext, Work
-----------------------------------------------------------------------------
(* Turns *)

LEMMA Times ==
  ASSUME NEW a \in Nat, NEW m \in Nat, NEW n \in Nat
  PROVE  /\ a * m \in Nat /\ a * (n + 1) = a * n + a /\ a * 0 = 0
         /\ m <= n => a * m <= a * n
<1>1. a * m \in Nat /\ a * n \in Nat /\ a * (n + 1) = a * n + a /\ a * 0 = 0
  OBVIOUS
<1>2. ASSUME m <= n
      PROVE  a * m <= a * n
  <2>1. PICK d \in Nat : n = m + d
    <3>1. n - m \in Nat /\ n = m + (n - m)
      BY <1>2
    <3> QED
      BY <3>1
  <2>2. a * (m + d) = a * m + a * d /\ a * d \in Nat
    OBVIOUS
  <2> QED
    BY <1>1, <2>1, <2>2
<1> QED
  BY <1>1, <1>2

\* A job that waits keeps waiting, until it is claimed.
LEMMA StillWaits ==
  ASSUME RowsOK, QueueOK, MemoryOK, JobOK, MovesOK, TurnOK, [ExtractionNext]_extractionVars,
         NEW r \in Repos, NEW p, Waiting(r, p) # {}, ~ClaimJob
  PROVE  Waiting(r, p)' # {}
<1>1. PICK i \in DOMAIN queue : Claimable(i) /\ RepoOf[queue[i].file] = r /\ queue[i].prio = p
  BY DEF Waiting
<1>2. Len(queue) \in Nat /\ i \in 1 .. Len(queue) /\ queue[i].ready /\ queue[i].tries < MaxAttempts /\ queue[i] \in Job
  BY <1>1 DEF QueueOK, Claimable
<1>3. ASSUME NEW k \in DOMAIN queue', queue'[k] = queue[i]
      PROVE  Waiting(r, p)' # {}
  BY <1>1, <1>2, <1>3 DEF Waiting, Claimable
<1>4. CASE queue' = queue
  BY <1>1, <1>3, <1>4
<1>5. CASE \E fs \in SUBSET Files, rerun \in {"done", "error"}, prio \in {Write, CatchUp} : Enqueued(fs, rerun, prio) /\ Elsewhere
  <2>1. PICK fs \in SUBSET Files, rerun \in {"done", "error"}, prio \in {Write, CatchUp} : Enqueued(fs, rerun, prio)
    BY <1>5
  <2>2. Joined(queue', New(fs, rerun), prio)
    <3>1. queue \in Seq(Job)
      BY DEF QueueOK
    <3> QED
      BY <2>1, <3>1, EnqueuedIs, Zenon
  <2>3. i \in DOMAIN queue' /\ queue'[i] = queue[i]
    BY <1>2, <2>2 DEF Joined
  <2> QED
    BY <1>3, <2>3
<1>6. CASE Drain
  <2>1. PICK crashed : crashed = {k \in DOMAIN queue : queue[k].ready /\ queue[k].tries >= MaxAttempts}
    OBVIOUS
  <2>2. queue' = queue \/ Remain(DOMAIN queue \ crashed)
    BY <1>6, <2>1 DEF Drain
  <2>3. i \in DOMAIN queue \ crashed
    <3>1. queue[i].tries \in Nat
      BY <1>2 DEF Job
    <3> QED
      BY <1>1, <1>2, <2>1, <3>1, Limits
  <2>4. CASE Remain(DOMAIN queue \ crashed)
    <3>1. PICK k \in DOMAIN queue' : queue'[k] = queue[i]
      BY <2>3, <2>4, RemainIs DEF LeftAlone
    <3> QED
      BY <1>3, <3>1
  <2> QED
    BY <1>4, <2>2, <2>4
<1>7. CASE queue' = Back /\ Working
  <2>1. PICK j \in Job : j = worker.job
    BY <1>7 DEF JobOK, Sane
  <2>2. Put(queue', worker.place, [worker.job EXCEPT !.ready = FALSE])
    BY <1>7, <2>1, BackIs DEF QueueOK, JobOK
  <2>3. PICK l \in 1 .. Len(queue) + 1 : l = worker.place
    BY <1>7 DEF JobOK
  <2>4. PICK k \in 1 .. Len(queue) + 1 : k = IF i < l THEN i ELSE i + 1
    BY <1>2
  <2>5. k \in DOMAIN queue' /\ queue'[k] = queue[i]
    BY <1>2, <2>2, <2>3, <2>4 DEF Put
  <2> QED
    BY <1>3, <2>5
<1>8. CASE LeaseOver
  <2>1. i \in DOMAIN queue' /\ queue'[i].file = queue[i].file /\ queue'[i].prio = queue[i].prio
        /\ queue'[i].tries = queue[i].tries /\ queue'[i].ready
    BY <1>2, <1>8, LeaseIs
  <2> QED
    BY <1>1, <1>2, <2>1 DEF Waiting, Claimable
<1>9. CASE \E q \in Repos : EnqueueBatch(q)
  <2>1. PICK q \in Repos : EnqueueBatch(q)
    BY <1>9
  <2>2. PICK fs \in SUBSET Files : fs = batch[q].files
    BY DEF MemoryOK, Batch
  <2>3. Enqueued(fs, "done", Write) /\ Elsewhere
    BY <2>1, <2>2 DEF EnqueueBatch, Elsewhere, store, counts
  <2> QED
    BY <1>5, <2>3
<1>10. CASE Boot
  <2>1. Enqueued(Missing, "error", CatchUp) /\ Elsewhere /\ Missing \in SUBSET Files
    BY <1>10 DEF Boot, Elsewhere, counts, Missing
  <2> QED
    BY <1>5, <2>1
<1>11. CASE JobFails
  <2>1. Working
    BY <1>11 DEF JobFails, Working, JobSteps
  <2> QED
    BY <1>4, <1>7, <1>11, <2>1 DEF JobFails
<1>12. CASE Die
  <2>1. Working \/ worker.job = NoJob
    BY DEF JobOK
  <2> QED
    BY <1>4, <1>7, <1>12, <2>1 DEF Die
<1>13. CASE UNCHANGED extractionVars \/ \E f \in Files : WriteContent(f) \/ DeleteFile(f)
  BY <1>4, <1>13 DEF extractionVars, WriteContent, DeleteFile, Written, jobs
<1>14. CASE \/ \E q \in Repos : RequestPaths(q) \/ SyncStops(q) \/ TakeRequest(q) \/ Turn(q)
            \/ Reresolve \/ ReresolveFails \/ NoRequests \/ DrainEnds \/ TurnEnds \/ ReadFile \/ ResolveImports \/ CommitFile \/ Complete
  BY <1>4, <1>14 DEF RequestPaths, SyncStops, TakeRequest, Turn, Reresolve, ReresolveFails, NoRequests, DrainEnds, TurnEnds,
                     ReadFile, ResolveImports, CommitFile, Complete, jobs
<1> QED
  BY <1>6, <1>8, <1>9, <1>10, <1>11, <1>12, <1>13, <1>14 DEF ExtractionNext, Work

\* A step that leaves the turns: the turn under way goes on, or it ended after its first claim.
LEMMA TurnKept ==
  ASSUME TurnOK, UNCHANGED turns, \A r \in Repos : \A p : Waiting(r, p) # {} => Waiting(r, p)' # {},
         \/ (InTurn' <=> InTurn) /\ (On("claim")' <=> On("claim")) /\ SameTurn
         \/ InTurn /\ worker'.at \in {"claim"} \cup JobSteps /\ SameTurn /\ worker.left < TurnFiles
         \/ worker'.at \notin {"claim"} \cup JobSteps /\ ~(On("claim") /\ worker.left = TurnFiles),
         worker \in WorkerRecord
  PROVE  TurnOK'
<1>1. served' = served /\ waited' = waited
  BY DEF turns
<1>2. \A r \in Repos : waited'[r] > 0 => Waiting(r, Write)' # {}
  BY <1>1 DEF TurnOK
<1>3. InTurn' => InTurn /\ SameTurn
  BY DEF InTurn
<1>4. InTurn' => worker'.repo \in Repos /\ \A r \in Repos \ {worker'.repo} : worker'.repo \in served'[r]
  BY <1>1, <1>3 DEF TurnOK, SameTurn
<1>5. Working' => worker'.left < TurnFiles
  <2>1. Working => worker.left < TurnFiles
    BY DEF TurnOK
  <2>2. Working' => InTurn' /\ ~On("claim")'
    BY DEF Working, InTurn, JobSteps, On
  <2>3. InTurn /\ ~On("claim") => Working
    BY DEF Working, InTurn, On
  <2>4. Working' => worker'.at \in JobSteps
    BY DEF Working
  <2> QED
    BY <2>1, <2>2, <2>3, <2>4 DEF SameTurn
<1>6. On("claim")' /\ worker'.left = TurnFiles => On("claim") /\ SameTurn /\ worker.left = TurnFiles
  <2>1. On("claim")' => InTurn' /\ worker'.at = "claim"
    BY DEF On, InTurn
  <2> QED
    BY <1>3, <2>1, Limits DEF SameTurn
<1>7. On("claim")' /\ worker'.left = TurnFiles => Waiting(worker.repo, worker.prio)' # {}
  <2>1. PICK r, p : r = worker.repo /\ p = worker.prio
    OBVIOUS
  <2>2. On("claim") /\ worker.left = TurnFiles => r \in Repos /\ Waiting(r, p) # {}
    BY <2>1 DEF TurnOK, InTurn, On
  <2>3. On("claim") /\ worker.left = TurnFiles => Waiting(r, p)' # {}
    BY <2>2
  <2>4. On("claim")' /\ worker'.left = TurnFiles => r = worker'.repo /\ p = worker'.prio
    BY <1>6, <2>1 DEF SameTurn
  <2> QED
    BY <1>6, <2>3, <2>4 DEF Waiting, Claimable
<1>8. ASSUME NEW r \in Repos
      PROVE  (On("claim")' /\ worker'.repo = r /\ worker'.left = TurnFiles)
             \/ waited'[r] + Ahead(r)' <= TurnFiles * Cardinality(served'[r])
  <2>1. \/ On("claim") /\ worker.repo = r /\ worker.left = TurnFiles
        \/ waited[r] + Ahead(r) <= TurnFiles * Cardinality(served[r])
    BY DEF TurnOK
  <2>2. worker.left \in Nat /\ waited[r] \in Nat
    <3>1. worker.left \in 0 .. TurnFiles
      BY DEF WorkerRecord
    <3> QED
      BY <3>1, Limits DEF TurnOK
  <2>3. Ahead(r)' = Ahead(r) \/ (Ahead(r)' = 0 /\ Ahead(r) \in Nat)
    BY <1>3, <2>2 DEF Ahead, SameTurn
  <2>4. On("claim") /\ worker.repo = r /\ worker.left = TurnFiles => On("claim")' /\ worker'.repo = r /\ worker'.left = TurnFiles
    BY Limits DEF SameTurn
  <2>5. TurnFiles * Cardinality(served[r]) \in Int
    <3>1. IsFiniteSet(served[r])
      BY FilesAssumption, FS_Subset DEF TurnOK
    <3>2. PICK n \in Nat : n = Cardinality(served[r])
      BY <3>1, FS_CardinalityType
    <3> QED
      BY <3>2, Limits, Times
  <2> QED
    BY <1>1, <2>1, <2>2, <2>3, <2>4, <2>5
<1>9. \A r, q \in Repos : q \in served'[r] => r \notin served'[q]
  BY <1>1 DEF TurnOK
<1>10. served' \in [Repos -> SUBSET Repos] /\ waited' \in [Repos -> Nat] /\ \A r \in Repos : waited'[r] <= TurnFiles * Cardinality(Repos \ {r})
  BY <1>1 DEF TurnOK
<1> QED
  BY <1>2, <1>4, <1>5, <1>7, <1>8, <1>9, <1>10 DEF TurnOK

LEMMA TurnTaken ==
  ASSUME QueueOK, MovesOK, TurnOK, NEW r \in Repos, Turn(r)
  PROVE  TurnOK'
<1>1. /\ worker'.at = "claim" /\ worker'.repo = r /\ worker'.prio = Lowest /\ worker'.left = TurnFiles
  BY WorkerTurns DEF MovesOK
<1>2. /\ ~InTurn /\ waited' = waited /\ queue' = queue /\ Waiting(r, Lowest) # {}
      /\ served' = [q \in Repos |-> IF q = r THEN {} ELSE served[q] \cup {r}]
      /\ \A q \in Repos : Waiting(q, Lowest) # {} => Before(r, q, Lowest)
  BY DEF Turn, On, InTurn, JobSteps, jobs
<1>3. InTurn' /\ ~Working' /\ On("claim")'
  BY <1>1 DEF InTurn, Working, JobSteps, On
<1>4. \A q \in Repos : \A p : Waiting(q, p)' = Waiting(q, p)
  BY <1>2 DEF Waiting, Claimable
<1>5. served' \in [Repos -> SUBSET Repos] /\ \A q, p \in Repos : p \in served'[q] => q \notin served'[p]
  BY <1>2 DEF TurnOK
<1>6. Waiting(worker.repo, worker.prio)' # {}
  <2>1. PICK p : p = Lowest
    OBVIOUS
  <2>2. Waiting(r, p)' # {}
    BY <1>2, <1>4, <2>1
  <2> QED
    BY <1>1, <2>1, <2>2 DEF Waiting, Claimable
<1>7. ASSUME NEW q \in Repos, q # r
      PROVE  waited'[q] + Ahead(q)' <= TurnFiles * Cardinality(served'[q])
  <2>1. Ahead(q)' = TurnFiles
    BY <1>1, <1>3, <1>7 DEF Ahead
  <2>2. served'[q] = served[q] \cup {r} /\ IsFiniteSet(served[q]) /\ IsFiniteSet(Repos)
    BY <1>2, <1>7, FilesAssumption, FS_Subset DEF TurnOK
  <2>3. PICK n \in Nat : n = Cardinality(served[q])
    BY <2>2, FS_CardinalityType
  <2>4. waited[q] \in Nat /\ waited[q] <= TurnFiles * n
    <3>1. waited[q] + Ahead(q) <= TurnFiles * n /\ Ahead(q) = 0
      BY <1>2, <2>3 DEF TurnOK, InTurn, On, Ahead
    <3>2. waited[q] \in Nat
      BY DEF TurnOK
    <3> QED
      BY <3>1, <3>2
  <2>5. CASE r \notin served[q]
    <3>1. Cardinality(served'[q]) = n + 1
      BY <2>2, <2>3, <2>5, FS_AddElement
    <3>2. TurnFiles * (n + 1) = TurnFiles * n + TurnFiles /\ TurnFiles * n \in Nat
      BY Limits, Times
    <3> QED
      BY <1>2, <2>1, <2>4, <3>1, <3>2, Limits
  <2>6. CASE r \in served[q]
    <3>1. waited[q] = 0
      <4>1. ASSUME waited[q] > 0
            PROVE  FALSE
        <5>1. Waiting(q, Write) # {} /\ Lowest = Write
          BY <4>1 DEF TurnOK, Lowest
        <5>2. Before(r, q, Lowest)
          BY <1>2, <5>1
        <5>3. q \in served[r]
          BY <2>6, <5>2 DEF Before
        <5> QED
          BY <2>6, <5>3 DEF TurnOK
      <4> QED
        BY <2>4, <4>1
    <3>2. Cardinality(served'[q]) = n /\ n # 0
      <4>1. served'[q] = served[q]
        BY <2>2, <2>6
      <4> QED
        BY <2>2, <2>3, <2>6, <4>1, FS_EmptySet
    <3>3. PICK m \in Nat : n = m + 1
      <4>1. n - 1 \in Nat /\ n = (n - 1) + 1
        BY <3>2
      <4> QED
        BY <4>1
    <3>4. TurnFiles * (m + 1) = TurnFiles * m + TurnFiles /\ TurnFiles * m \in Nat
      BY Limits, Times
    <3> QED
      BY <1>2, <2>1, <3>1, <3>2, <3>3, <3>4, Limits
  <2> QED
    BY <2>5, <2>6
<1>8. worker'.repo \in Repos /\ \A q \in Repos \ {worker'.repo} : worker'.repo \in served'[q]
  BY <1>1, <1>2
<1>9. \A q \in Repos : waited'[q] > 0 => Waiting(q, Write)' # {}
  BY <1>2, <1>4 DEF TurnOK
<1>10. waited' \in [Repos -> Nat] /\ \A q \in Repos : waited'[q] <= TurnFiles * Cardinality(Repos \ {q})
  BY <1>2 DEF TurnOK
<1>11. \A q \in Repos : (On("claim")' /\ worker'.repo = q /\ worker'.left = TurnFiles)
                        \/ waited'[q] + Ahead(q)' <= TurnFiles * Cardinality(served'[q])
  BY <1>1, <1>3, <1>7
<1> QED
  BY <1>3, <1>5, <1>6, <1>8, <1>9, <1>10, <1>11 DEF TurnOK

LEMMA TurnClaims ==
  ASSUME QueueOK, MovesOK, TurnOK, ClaimJob
  PROVE  TurnOK'
<1>1. On("claim") /\ InTurn /\ worker.repo \in Repos
  BY DEF ClaimJob, On, InTurn, TurnOK
<1>2. PICK i : i = Oldest(worker.repo, worker.prio)
  OBVIOUS
<1>3. /\ worker'.at = "read" /\ worker'.repo = worker.repo /\ worker.left > 0 /\ worker'.left = worker.left - 1
      /\ i \in 1 .. Len(queue) /\ i \in Waiting(worker.repo, worker.prio)
  BY <1>1, <1>2, WorkerClaims DEF MovesOK
<1>4. /\ queue' = Without(i) /\ served' = served
      /\ waited' = [r \in Repos |-> IF r = worker.repo \/ Waiting(r, Write) = {} THEN 0 ELSE waited[r] + 1]
  BY <1>2 DEF ClaimJob
<1>5. Removed(queue', i) /\ Len(queue) \in Nat
  BY <1>3, <1>4, WithoutIs DEF QueueOK
<1>6. worker.left \in 0 .. TurnFiles
  BY DEF MovesOK, WorkerRecord
<1>7. InTurn' /\ Working' /\ ~On("claim")'
  BY <1>3 DEF InTurn, Working, JobSteps, On
<1>8. waited' \in [Repos -> Nat]
  BY <1>4 DEF TurnOK
<1>9. ASSUME NEW r \in Repos, waited'[r] > 0
      PROVE  Waiting(r, Write)' # {}
  <2>1. r # worker.repo /\ Waiting(r, Write) # {}
    BY <1>4, <1>9
  <2>2. PICK k \in 1 .. Len(queue) : Claimable(k) /\ RepoOf[queue[k].file] = r /\ queue[k].prio = Write
    BY <2>1 DEF Waiting, QueueOK
  <2>3. k # i
    BY <1>3, <2>1, <2>2 DEF Waiting
  <2>4. PICK l \in 1 .. Len(queue) - 1 : l = IF k < i THEN k ELSE k - 1
    BY <1>3, <1>5, <2>3
  <2>5. l \in DOMAIN queue' /\ queue'[l] = queue[k]
    <3>1. /\ queue' \in Seq(Job) /\ Len(queue') = Len(queue) - 1
          /\ \A m \in 1 .. Len(queue') : queue'[m] = IF m < i THEN queue[m] ELSE queue[m + 1]
      BY <1>5 DEF Removed
    <3>2. queue'[l] = IF l < i THEN queue[l] ELSE queue[l + 1]
      BY <2>4, <3>1
    <3> QED
      BY <1>3, <1>5, <2>3, <2>4, <3>1, <3>2
  <2> QED
    BY <2>2, <2>5 DEF Waiting, Claimable
<1>10. ASSUME NEW r \in Repos
       PROVE  /\ waited'[r] + Ahead(r)' <= TurnFiles * Cardinality(served'[r])
              /\ waited'[r] <= TurnFiles * Cardinality(Repos \ {r})
  <2>1. IsFiniteSet(served[r]) /\ IsFiniteSet(Repos \ {r}) /\ served[r] \subseteq Repos \ {r}
    <3>1. served[r] \in SUBSET (Repos \ {r})
      BY DEF TurnOK
    <3> QED
      BY <3>1, FilesAssumption, FS_Subset
  <2>2. PICK n \in Nat, m \in Nat : n = Cardinality(served[r]) /\ m = Cardinality(Repos \ {r}) /\ n <= m
    BY <2>1, FS_CardinalityType, FS_Subset
  <2>3. TurnFiles * n \in Nat /\ TurnFiles * m \in Nat /\ TurnFiles * n <= TurnFiles * m
    BY <2>2, Limits, Times
  <2>4. CASE r = worker.repo
    <3>1. waited'[r] = 0 /\ Ahead(r)' = 0
      BY <1>3, <1>4, <2>4 DEF Ahead
    <3> QED
      BY <1>4, <2>2, <2>3, <3>1
  <2>5. CASE r # worker.repo
    <3>1. Ahead(r)' = worker.left - 1 /\ Ahead(r) = worker.left
      BY <1>1, <1>3, <1>7, <2>5 DEF Ahead
    <3>2. waited[r] + worker.left <= TurnFiles * n /\ waited[r] \in Nat
      BY <2>2, <2>5, <3>1 DEF TurnOK
    <3>3. waited'[r] \in {0, waited[r] + 1}
      BY <1>4
    <3>4. waited'[r] + (worker.left - 1) <= TurnFiles * n /\ waited'[r] <= TurnFiles * n
      <4>1. PICK l \in Nat, w \in Nat, t \in Nat : l = worker.left /\ w = waited[r] /\ t = TurnFiles * n
        BY <1>3, <1>6, <2>3, <3>2, Limits
      <4>2. w + l <= t /\ l > 0 /\ waited'[r] \in {0, w + 1}
        BY <1>3, <3>2, <3>3, <4>1
      <4> QED
        BY <4>1, <4>2
    <3> QED
      BY <1>4, <1>8, <2>2, <2>3, <3>1, <3>4
  <2> QED
    BY <2>4, <2>5
<1>11. Working' => worker'.left < TurnFiles
  BY <1>3, <1>6, Limits
<1>12. served' \in [Repos -> SUBSET Repos] /\ \A q, p \in Repos : p \in served'[q] => q \notin served'[p]
  BY <1>4 DEF TurnOK
<1>13. worker'.repo \in Repos /\ \A q \in Repos \ {worker'.repo} : worker'.repo \in served'[q]
  BY <1>1, <1>3, <1>4 DEF TurnOK
<1> QED
  BY <1>7, <1>8, <1>9, <1>10, <1>11, <1>12, <1>13 DEF TurnOK

LEMMA TurnDies ==
  ASSUME Die
  PROVE  TurnOK'
<1>1. served' = [r \in Repos |-> {}] /\ waited' = [r \in Repos |-> 0] /\ ~InTurn' /\ ~Working' /\ ~On("claim")'
  <2>1. worker'.at = "down"
    BY WorkerRests
  <2> QED
    BY <2>1 DEF Die, InTurn, Working, JobSteps, On
<1>2. ASSUME NEW r \in Repos
      PROVE  /\ waited'[r] + Ahead(r)' <= TurnFiles * Cardinality(served'[r])
             /\ waited'[r] <= TurnFiles * Cardinality(Repos \ {r})
  <2>1. Ahead(r)' = 0 /\ waited'[r] = 0 /\ served'[r] = {}
    BY <1>1 DEF Ahead
  <2>2. IsFiniteSet(Repos \ {r})
    BY FilesAssumption, FS_Subset
  <2>3. PICK m \in Nat : m = Cardinality(Repos \ {r})
    BY <2>2, FS_CardinalityType
  <2>4. TurnFiles * m \in Nat /\ TurnFiles * 0 = 0 /\ Cardinality({}) = 0
    BY Limits, Times, FS_EmptySet
  <2> QED
    BY <2>1, <2>3, <2>4
<1>3. served' \in [Repos -> SUBSET Repos] /\ waited' \in [Repos -> Nat] /\ \A r, q \in Repos : q \in served'[r] => r \notin served'[q]
  BY <1>1
<1>4. \A r \in Repos : ~(waited'[r] > 0)
  BY <1>1
<1> QED
  BY <1>1, <1>2, <1>3, <1>4 DEF TurnOK

LEMMA TurnStep ==
  ASSUME RowsOK, DerivedOK, MemoryOK, QueueOK, JobOK, MovesOK, TurnOK, ImportsOK, [ExtractionNext]_extractionVars
  PROVE  TurnOK'
<1>1. CASE \E r \in Repos : Turn(r)
  BY <1>1, TurnTaken
<1>2. CASE ClaimJob
  BY <1>2, TurnClaims
<1>3. CASE Die
  BY <1>3, TurnDies
<1>4. ASSUME ~ClaimJob
      PROVE  \A r \in Repos : \A p : Waiting(r, p) # {} => Waiting(r, p)' # {}
  BY <1>4, StillWaits
<1>5. worker \in WorkerRecord
  BY DEF MovesOK
<1>6. CASE UNCHANGED extractionVars \/ LeaseOver
           \/ (\E f \in Files : WriteContent(f) \/ DeleteFile(f)) \/ \E r \in Repos : RequestPaths(r) \/ EnqueueBatch(r) \/ SyncStops(r)
  <2>1. worker' = worker /\ UNCHANGED turns
    BY <1>6 DEF extractionVars, LeaseOver, WriteContent, DeleteFile, Written, RequestPaths, EnqueueBatch, SyncStops, turns
  <2>2. SameTurn /\ (InTurn' <=> InTurn) /\ (On("claim")' <=> On("claim"))
    BY <2>1 DEF SameTurn, InTurn, On
  <2>3. CASE ~ClaimJob
    BY <1>4, <1>5, <2>1, <2>2, <2>3, TurnKept
  <2> QED
    BY <1>2, <2>3
<1>7. ASSUME ~ClaimJob, UNCHANGED turns, ~InTurn, worker'.at \notin {"claim"} \cup JobSteps
      PROVE  TurnOK'
  <2>1. ~(On("claim") /\ worker.left = TurnFiles)
    BY <1>7 DEF InTurn, On
  <2> QED
    BY <1>4, <1>5, <1>7, <2>1, TurnKept
<1>8. ASSUME ~ClaimJob, UNCHANGED turns, Working, worker'.at \in {"claim"} \cup JobSteps, SameTurn
      PROVE  TurnOK'
  <2>1. InTurn /\ worker.left < TurnFiles
    BY <1>8 DEF InTurn, Working, TurnOK
  <2> QED
    BY <1>4, <1>5, <1>8, <2>1, TurnKept
<1>9. CASE Drain \/ NoRequests \/ Reresolve \/ ReresolveFails \/ DrainEnds \/ Boot \/ \E r \in Repos : TakeRequest(r)
  <2>1. UNCHANGED turns /\ ~InTurn /\ ~ClaimJob
    BY <1>9 DEF Drain, NoRequests, Reresolve, ReresolveFails, DrainEnds, Boot, TakeRequest, ClaimJob, On, InTurn, JobSteps, turns
  <2>2. worker'.at \in {"between", "next", "idle", "down", "reresolve"}
    <3>1. CASE Drain \/ NoRequests
      <4>1. PICK step \in {"between", "next"} : worker' = To(step)
        BY <3>1 DEF Drain, NoRequests
      <4>2. step \in WorkerSteps
        BY DEF WorkerSteps
      <4> QED
        BY <1>5, <4>1, <4>2, WorkerGoes
    <3>2. CASE ReresolveFails \/ DrainEnds \/ Boot
      BY <3>2, WorkerRests
    <3> QED
      BY <1>5, <1>9, <3>1, <3>2, WorkerReresolved, WorkerTakes
  <2>3. worker'.at \notin {"claim"} \cup JobSteps
    BY <2>2 DEF JobSteps
  <2> QED
    BY <1>7, <2>1, <2>3
<1>10. CASE TurnEnds
  <2>1. UNCHANGED turns /\ On("claim") /\ ~GoesOn /\ worker' = To("between")
    BY <1>10 DEF TurnEnds
  <2>2. "between" \in WorkerSteps
    BY DEF WorkerSteps
  <2>3. worker'.at \notin {"claim"} \cup JobSteps
    BY <1>5, <2>1, <2>2, WorkerGoes DEF JobSteps
  <2>4. ~(On("claim") /\ worker.left = TurnFiles)
    BY <2>1, Limits DEF TurnOK, GoesOn
  <2>5. ~ClaimJob
    BY <2>1 DEF ClaimJob
  <2> QED
    BY <1>4, <1>5, <2>1, <2>3, <2>4, <2>5, TurnKept
<1>11. CASE ReadFile \/ ResolveImports \/ CommitFile \/ Complete \/ JobFails
  <2>1. UNCHANGED turns /\ Working /\ ~ClaimJob
    BY <1>11 DEF ReadFile, ResolveImports, CommitFile, Complete, JobFails, ClaimJob, On, Working, JobSteps, turns
  <2>2. SameTurn /\ worker'.at \in {"claim"} \cup JobSteps
    <3>1. CASE ReadFile
      BY <1>5, <3>1, WorkerReads DEF JobSteps
    <3>2. CASE ResolveImports
      BY <1>5, <3>2, WorkerResolves DEF JobSteps
    <3>3. CASE CommitFile
      <4>1. "complete" \in WorkerSteps
        BY DEF WorkerSteps, JobSteps
      <4> QED
        BY <1>5, <3>3, <4>1, WorkerGoes DEF JobSteps, CommitFile
    <3>4. CASE Complete \/ JobFails
      <4>1. worker' = JobOver
        BY <3>4 DEF Complete, JobFails
      <4> QED
        BY <1>5, <4>1, WorkerOver
    <3> QED
      BY <1>11, <3>1, <3>2, <3>3, <3>4
  <2> QED
    BY <1>8, <2>1, <2>2
<1> QED
  BY <1>1, <1>2, <1>3, <1>6, <1>9, <1>10, <1>11 DEF ExtractionNext, Work
-----------------------------------------------------------------------------
(* Contents: a file's job, or a reason why there is none *)

LEMMA Whose ==
  ASSUME RowsOK, NEW j, Sane(j), NEW f \in Files, rows[f] # NoRow, j.key[1] = rows[f].id
  PROVE  j.file = f /\ j.key[2] \in Contents[f] /\ j.key = <<rows[f].id, j.key[2]>>
<1>1. j \in Job /\ Owned(j.key[1], {j.file}) /\ j.key[1] # 0 /\ j.key[2] \in Contents[j.file]
  BY DEF Sane
<1>2. j.file = f
  BY <1>1 DEF Owned
<1>3. j.key \in Nat \X Nat
  BY <1>1 DEF Job
<1> QED
  BY <1>1, <1>2, <1>3

\* The file of the job under way.
LEMMA WhoseJob ==
  ASSUME RowsOK, JobOK, Working, NEW f \in Files, rows[f] # NoRow, worker.job.key[1] = rows[f].id
  PROVE  worker.job.file = f /\ worker.job.key[2] \in Contents[f] /\ worker.job.key = <<rows[f].id, worker.job.key[2]>>
<1>1. PICK j : j = worker.job
  OBVIOUS
<1>2. Sane(j)
  BY <1>1 DEF JobOK
<1> QED
  BY <1>1, <1>2, Whose

LEMMA LaterEnqueued ==
  ASSUME RowsOK, QueueOK, NEW fs \in SUBSET Files, NEW rerun, NEW prio \in {Write, CatchUp}, Enqueued(fs, rerun, prio), Elsewhere,
         NEW f \in Files
  PROVE  /\ HasJob(f) \/ f \in New(fs, rerun) => HasJob(f)'
         /\ GaveUp(f) => GaveUp(f)' \/ HasJob(f)'
<1>1. /\ New(fs, rerun) \in SUBSET fs /\ Joined(queue', New(fs, rerun), prio)
      /\ finished' = {j \in finished : \A g \in New(fs, rerun) : j.key # Key(g)}
  <2>1. queue \in Seq(Job)
    BY DEF QueueOK
  <2> QED
    BY <2>1, EnqueuedIs, Zenon
<1>2. PICK new \in SUBSET Files : new = New(fs, rerun)
  BY <1>1
<1>3. /\ queue' \in Seq(Job) /\ Len(queue') \in Nat /\ Len(queue) <= Len(queue') /\ Len(queue) \in Nat
      /\ \A i \in 1 .. Len(queue) : queue'[i] = queue[i]
      /\ \A g \in new : \E i \in Len(queue) + 1 .. Len(queue') : queue'[i] = NewJob(g, prio)
  BY <1>1, <1>2 DEF Joined, QueueOK
<1>4. rows' = rows
  BY DEF Elsewhere
<1>5. HasJob(f) => HasJob(f)'
  BY <1>3, <1>4 DEF HasJob, QueueOK
<1>6. ASSUME NEW g \in new
      PROVE  \E i \in DOMAIN queue' : queue'[i].key = Key(g) /\ queue'[i].key[1] = rows[g].id
  <2>1. PICK i \in Len(queue) + 1 .. Len(queue') : queue'[i] = NewJob(g, prio)
    BY <1>3
  <2>2. NewJob(g, prio).key = Key(g) /\ Key(g)[1] = rows[g].id
    BY DEF NewJob, Key
  <2>3. i \in DOMAIN queue'
    BY <1>3
  <2> QED
    BY <2>1, <2>2, <2>3
<1>7. f \in new => HasJob(f)'
  BY <1>4, <1>6 DEF HasJob
<1>8. ASSUME GaveUp(f)
      PROVE  GaveUp(f)' \/ HasJob(f)'
  <2>1. PICK c \in Contents[f], how \in {"error", "expired"} : [key |-> <<rows[f].id, c>>, how |-> how] \in finished
    BY <1>8 DEF GaveUp, Ended
  <2>2. PICK key, e : key = <<rows[f].id, c>> /\ e = [key |-> key, how |-> how]
    OBVIOUS
  <2>3. e.key = key /\ key[1] = rows[f].id
    BY <2>2
  <2>4. CASE \A g \in new : key # Key(g)
    <3>1. e \in finished'
      BY <1>1, <1>2, <2>1, <2>2, <2>3, <2>4
    <3> QED
      BY <1>4, <2>2, <3>1 DEF GaveUp, Ended
  <2>5. CASE \E g \in new : key = Key(g)
    <3>1. PICK g \in new : key = Key(g)
      BY <2>5
    <3>2. PICK i \in DOMAIN queue' : queue'[i].key = Key(g)
      BY <1>6
    <3> QED
      BY <1>4, <2>3, <3>1, <3>2 DEF HasJob
  <2> QED
    BY <2>4, <2>5
<1> QED
  BY <1>2, <1>5, <1>7, <1>8

\* A file's queued job stays until it is claimed or ends without success.
LEMMA HasJobStep ==
  ASSUME RowsOK, QueueOK, MemoryOK, JobOK, MovesOK, TurnOK, [ExtractionNext]_extractionVars,
         NEW f \in Files, rows[f] # NoRow, rows'[f].id = rows[f].id, HasJob(f)
  PROVE  HasJob(f)' \/ GaveUp(f)' \/ (ClaimJob /\ worker'.job.key[1] = rows[f].id)
<1>1. PICK i \in 1 .. Len(queue) : queue[i].key[1] = rows[f].id
  BY DEF HasJob, QueueOK
<1>2. Len(queue) \in Nat
  BY DEF QueueOK
<1>3. ASSUME NEW k \in DOMAIN queue', queue'[k].key = queue[i].key
      PROVE  HasJob(f)'
  BY <1>1, <1>3 DEF HasJob
<1>4. CASE queue' = queue
  BY <1>1, <1>4 DEF HasJob
<1>5. CASE queue' = Back /\ Working
  <2>1. PICK j \in Job : j = worker.job
    BY <1>5 DEF JobOK, Sane
  <2>2. Put(queue', worker.place, [worker.job EXCEPT !.ready = FALSE])
    BY <1>5, <2>1, BackIs DEF QueueOK, JobOK
  <2>3. PICK l \in 1 .. Len(queue) + 1 : l = worker.place
    BY <1>5 DEF JobOK
  <2>4. PICK k \in 1 .. Len(queue) + 1 : k = IF i < l THEN i ELSE i + 1
    BY <1>2
  <2>5. k \in DOMAIN queue' /\ queue'[k] = queue[i]
    BY <1>2, <2>2, <2>3, <2>4 DEF Put
  <2> QED
    BY <1>3, <2>5
<1>6. CASE LeaseOver
  <2>1. i \in DOMAIN queue' /\ queue'[i].key = queue[i].key
    BY <1>2, <1>6, LeaseIs DEF QueueOK
  <2> QED
    BY <1>3, <2>1
<1>7. CASE \E q \in Repos : EnqueueBatch(q)
  <2>1. PICK q \in Repos : EnqueueBatch(q)
    BY <1>7
  <2>2. PICK fs \in SUBSET Files : fs = batch[q].files
    BY DEF MemoryOK, Batch
  <2>3. Enqueued(fs, "done", Write) /\ Elsewhere
    BY <2>1, <2>2 DEF EnqueueBatch, Elsewhere, store, counts
  <2> QED
    BY <2>3, LaterEnqueued
<1>8. CASE Boot
  <2>1. Enqueued(Missing, "error", CatchUp) /\ Elsewhere /\ Missing \in SUBSET Files
    BY <1>8 DEF Boot, Elsewhere, counts, Missing
  <2> QED
    BY <2>1, LaterEnqueued
<1>9. CASE JobFails \/ Die
  <2>1. Working \/ worker.job = NoJob
    BY DEF JobOK
  <2>2. JobFails => Working
    BY DEF JobFails, Working, JobSteps
  <2> QED
    BY <1>4, <1>5, <1>9, <2>1, <2>2 DEF JobFails, Die
<1>10. ASSUME NEW l \in 1 .. Len(queue), l # i, Removed(queue', l)
       PROVE  HasJob(f)'
  <2>1. PICK k \in 1 .. Len(queue) - 1 : k = IF i < l THEN i ELSE i - 1
    BY <1>2, <1>10
  <2>2. /\ queue' \in Seq(Job) /\ Len(queue') = Len(queue) - 1
        /\ \A m \in 1 .. Len(queue') : queue'[m] = IF m < l THEN queue[m] ELSE queue[m + 1]
    BY <1>10 DEF Removed
  <2>3. queue'[k] = IF k < l THEN queue[k] ELSE queue[k + 1]
    BY <2>1, <2>2
  <2>4. k \in DOMAIN queue' /\ queue'[k] = queue[i]
    BY <1>2, <1>10, <2>1, <2>2, <2>3
  <2> QED
    BY <1>3, <2>4
<1>11. CASE ClaimJob
  <2>1. worker.repo \in Repos
    BY <1>11 DEF ClaimJob, On, InTurn, TurnOK
  <2>2. PICK l : l = Oldest(worker.repo, worker.prio)
    OBVIOUS
  <2>3. l \in 1 .. Len(queue) /\ worker'.job.key = queue[l].key
    BY <1>11, <2>1, <2>2, WorkerClaims DEF MovesOK
  <2>4. Removed(queue', l)
    BY <1>11, <2>2, <2>3, WithoutIs DEF QueueOK, ClaimJob
  <2> QED
    BY <1>1, <1>10, <1>11, <2>3, <2>4
<1>12. CASE Drain
  <2>1. PICK crashed : crashed = {k \in DOMAIN queue : queue[k].ready /\ queue[k].tries >= MaxAttempts}
    OBVIOUS
  <2>2. /\ queue' = queue \/ Remain(DOMAIN queue \ crashed)
        /\ finished' = finished \cup {[key |-> queue[k].key, how |-> "expired"] : k \in crashed}
        /\ rows' = rows
    BY <1>12, <2>1 DEF Drain, store
  <2>3. CASE i \in crashed
    <3>1. PICK j : j = queue[i] /\ Sane(j)
      BY <2>1, <2>3 DEF QueueOK
    <3>2. j.key[2] \in Contents[f] /\ j.key = <<rows[f].id, j.key[2]>>
      BY <1>1, <3>1, Whose
    <3>3. [key |-> j.key, how |-> "expired"] \in finished'
      BY <2>2, <2>3, <3>1
    <3>4. [key |-> <<rows'[f].id, j.key[2]>>, how |-> "expired"] \in finished'
      BY <2>2, <3>2, <3>3
    <3> QED
      BY <3>2, <3>4 DEF GaveUp, Ended
  <2>4. CASE i \notin crashed /\ Remain(DOMAIN queue \ crashed)
    <3>1. i \in DOMAIN queue
      BY <1>1, <1>2 DEF QueueOK
    <3>2. PICK k \in DOMAIN queue' : queue'[k] = queue[i]
      BY <2>4, <3>1, RemainIs DEF LeftAlone
    <3> QED
      BY <1>3, <3>2
  <2> QED
    BY <1>4, <2>2, <2>3, <2>4
<1>13. CASE UNCHANGED extractionVars \/ \E g \in Files : WriteContent(g) \/ DeleteFile(g)
  BY <1>4, <1>13 DEF extractionVars, WriteContent, DeleteFile, Written, jobs
<1>14. CASE \/ \E q \in Repos : RequestPaths(q) \/ SyncStops(q) \/ TakeRequest(q) \/ Turn(q)
            \/ Reresolve \/ ReresolveFails \/ NoRequests \/ DrainEnds \/ TurnEnds \/ ReadFile \/ ResolveImports \/ CommitFile \/ Complete
  BY <1>4, <1>14 DEF RequestPaths, SyncStops, TakeRequest, Turn, Reresolve, ReresolveFails, NoRequests, DrainEnds, TurnEnds,
                     ReadFile, ResolveImports, CommitFile, Complete, jobs
<1> QED
  BY <1>6, <1>7, <1>8, <1>9, <1>11, <1>12, <1>13, <1>14 DEF ExtractionNext, Work

LEMMA GaveUpStep ==
  ASSUME RowsOK, QueueOK, MemoryOK, [ExtractionNext]_extractionVars, NEW f \in Files, rows'[f].id = rows[f].id, GaveUp(f)
  PROVE  GaveUp(f)' \/ HasJob(f)'
<1>1. CASE finished \subseteq finished'
  BY <1>1 DEF GaveUp, Ended
<1>2. CASE \E q \in Repos : EnqueueBatch(q)
  <2>1. PICK q \in Repos : EnqueueBatch(q)
    BY <1>2
  <2>2. PICK fs \in SUBSET Files : fs = batch[q].files
    BY DEF MemoryOK, Batch
  <2>3. Enqueued(fs, "done", Write) /\ Elsewhere
    BY <2>1, <2>2 DEF EnqueueBatch, Elsewhere, store, counts
  <2> QED
    BY <2>3, LaterEnqueued
<1>3. CASE Boot
  <2>1. Enqueued(Missing, "error", CatchUp) /\ Elsewhere /\ Missing \in SUBSET Files
    BY <1>3 DEF Boot, Elsewhere, counts, Missing
  <2> QED
    BY <2>1, LaterEnqueued
<1>4. CASE UNCHANGED extractionVars \/ LeaseOver \/ Die \/ \E g \in Files : WriteContent(g) \/ DeleteFile(g)
  BY <1>1, <1>4 DEF extractionVars, WriteContent, DeleteFile, Written, LeaseOver, Die, jobs
<1>5. CASE \/ \E q \in Repos : RequestPaths(q) \/ SyncStops(q) \/ TakeRequest(q) \/ Turn(q)
           \/ Reresolve \/ ReresolveFails \/ NoRequests \/ DrainEnds \/ TurnEnds \/ ReadFile \/ ResolveImports \/ CommitFile
           \/ ClaimJob \/ Complete \/ Drain \/ JobFails
  BY <1>1, <1>5 DEF RequestPaths, SyncStops, TakeRequest, Turn, Reresolve, ReresolveFails, NoRequests, DrainEnds, TurnEnds,
                    ReadFile, ResolveImports, CommitFile, Complete, ClaimJob, Drain, JobFails, jobs
<1> QED
  BY <1>2, <1>3, <1>4, <1>5 DEF ExtractionNext, Work

LEMMA MissedStep ==
  ASSUME RowsOK, QueueOK, MemoryOK, MovesOK, [ExtractionNext]_extractionVars, NEW f \in Files,
         f \in missed.files \/ f \in missed.overtaken
  PROVE  f \in missed'.files \/ f \in missed'.overtaken \/ HasJob(f)' \/ (CommitFile /\ Current /\ worker.job.file = f)
<1>1. CASE missed' = missed
  BY <1>1
<1>2. CASE \E q \in Repos : EnqueueBatch(q)
  <2>1. PICK q \in Repos : EnqueueBatch(q)
    BY <1>2
  <2>2. PICK fs \in SUBSET Files : fs = batch[q].files
    BY DEF MemoryOK, Batch
  <2>3. Enqueued(fs, "done", Write) /\ Elsewhere
    BY <2>1, <2>2 DEF EnqueueBatch, Elsewhere, store, counts
  <2>4. f \in New(fs, "done") => HasJob(f)'
    BY <2>3, LaterEnqueued
  <2> QED
    BY <2>1, <2>2, <2>4, MemoryEnqueued
<1>3. CASE Boot
  <2>1. Enqueued(Missing, "error", CatchUp) /\ Elsewhere /\ Missing \in SUBSET Files
    BY <1>3 DEF Boot, Elsewhere, counts, Missing
  <2>2. f \in New(Missing, "error") => HasJob(f)'
    BY <2>1, LaterEnqueued
  <2> QED
    BY <1>3, <2>2, MemoryBooted
<1>4. CASE (\E q \in Repos : SyncStops(q)) \/ Die \/ CommitFile
  BY <1>4, MemoryStopped, MemoryEnded, MemoryCommitted
<1>5. CASE UNCHANGED extractionVars \/ LeaseOver \/ \E g \in Files : WriteContent(g) \/ DeleteFile(g)
  BY <1>1, <1>5 DEF extractionVars, WriteContent, DeleteFile, Written, LeaseOver
<1>6. CASE \/ \E q \in Repos : RequestPaths(q) \/ TakeRequest(q) \/ Turn(q)
           \/ Reresolve \/ ReresolveFails \/ NoRequests \/ DrainEnds \/ TurnEnds \/ ReadFile \/ ResolveImports
           \/ ClaimJob \/ Complete \/ Drain \/ JobFails
  BY <1>1, <1>6 DEF RequestPaths, TakeRequest, Turn, Reresolve, ReresolveFails, NoRequests, DrainEnds, TurnEnds,
                    ReadFile, ResolveImports, Complete, ClaimJob, Drain, JobFails
<1> QED
  BY <1>2, <1>3, <1>4, <1>5, <1>6 DEF ExtractionNext, Work

\* A job, or the reason why there is none, ends with a claim or a commit alone.
LEMMA LaterStep ==
  ASSUME RowsOK, QueueOK, MemoryOK, JobOK, MovesOK, TurnOK, [ExtractionNext]_extractionVars,
         NEW f \in Files, rows[f] # NoRow, rows'[f].id = rows[f].id, Later(f)
  PROVE  \/ Later(f)'
         \/ ClaimJob /\ worker'.job.key[1] = rows[f].id
         \/ CommitFile /\ Current /\ worker.job.file = f
BY HasJobStep, GaveUpStep, MissedStep DEF Later

\* What a sync queues: a job, one under way that will read the row, or a reason why there is none.
LEMMA PushedQueued ==
  ASSUME RowsOK, QueueOK, MemoryOK, JobOK, MovesOK, TurnOK, ContentOK, [ExtractionNext]_extractionVars,
         NEW r \in Repos, EnqueueBatch(r), NEW f \in batch[r].files, rows[f] # NoRow, f \in Files
  PROVE  /\ Later(f)' \/ derived[f].of = rows[f].content \/ UnderWay(f)
         /\ worker.at \in RowSteps /\ worker.read # rows[f] => Later(f)' \/ worker.job.key # Key(f)
         /\ worker.job.key # Key(f) => Later(f)'
<1>1. PICK fs \in SUBSET Files : fs = batch[r].files
  BY DEF MemoryOK, Batch
<1>2. Enqueued(fs, "done", Write) /\ Elsewhere /\ rows' = rows /\ ~ClaimJob /\ ~CommitFile
  <2>1. Enqueued(fs, "done", Write) /\ Elsewhere /\ rows' = rows /\ worker' = worker
    BY <1>1 DEF EnqueueBatch, Elsewhere, store, counts
  <2>2. ASSUME ClaimJob \/ CommitFile
        PROVE  FALSE
    <3>1. batch' = batch /\ batch'[r] = NoBatch
      BY <2>2 DEF ClaimJob, CommitFile, EnqueueBatch, MemoryOK
    <3> QED
      BY <3>1, EmptyBatch
  <2> QED
    BY <2>1, <2>2
<1>3. Later(f) => Later(f)'
  BY <1>2, LaterStep
<1>4. f \in New(fs, "done") => Later(f)'
  BY <1>2, LaterEnqueued DEF Later
<1>5. Overtaken(f) => Later(f)'
  BY MemoryEnqueued DEF Later
<1>6. (\E i \in DOMAIN queue : queue[i].key = Key(f)) => Later(f)'
  BY <1>3 DEF Later, HasJob, Key
<1>7. Ended(Key(f), "error") \/ Ended(Key(f), "expired") => Later(f)'
  <2>1. rows[f].content \in Contents[f]
    BY DEF RowsOK
  <2> QED
    BY <1>3, <2>1 DEF Later, GaveUp, Key
<1>8. f \notin New(fs, "done") => Pending(Key(f)) \/ Ended(Key(f), "error") \/ Ended(Key(f), "expired")
  BY <1>1 DEF New, JobExists
<1>9. worker.job.key # Key(f) => Later(f)'
  BY <1>4, <1>6, <1>7, <1>8 DEF Pending
<1>10. ASSUME worker.job.key = Key(f)
       PROVE  Later(f)' \/ derived[f].of = rows[f].content \/ UnderWay(f)
  <2>1. Working
    <3>1. Key(f) # <<>>
      BY DEF Key
    <3>2. NoJob.key = <<>>
      BY DEF NoJob
    <3>3. ~Working => worker.job = NoJob
      BY DEF JobOK
    <3> QED
      BY <1>10, <3>1, <3>2, <3>3
  <2>2. worker.job.key[1] = rows[f].id
    BY <1>10 DEF Key
  <2>3. CASE worker.at = "read"
    BY <2>2, <2>3 DEF UnderWay
  <2>4. CASE worker.at \in RowSteps /\ worker.read # rows[f]
    BY <1>5, <1>10, <2>4 DEF Overtaken, RowSteps
  <2>5. CASE worker.at \in {"resolve", "commit"} /\ worker.read = rows[f]
    BY <2>2, <2>5 DEF UnderWay
  <2>6. CASE worker.at = "complete" /\ worker.read = rows[f]
    BY <1>3, <2>6 DEF ContentOK, ChangedBack
  <2> QED
    BY <2>1, <2>3, <2>4, <2>5, <2>6 DEF Working, JobSteps, RowSteps
<1>11. worker.at \in RowSteps /\ worker.read # rows[f] /\ worker.job.key = Key(f) => Later(f)'
  BY <1>5 DEF Overtaken, RowSteps
<1> QED
  BY <1>9, <1>10, <1>11

\* A step that leaves the row, the pushed files and what is derived of a file, and its part in the job under way.
LEMMA ContentKept ==
  ASSUME NEW f \in Files, ContentOK, rows'[f] = rows[f], derived'[f].of = derived[f].of,
         Pushed(f) => Pushed(f)' \/ Later(f)', Later(f) => Later(f)',
         worker' = worker
  PROVE  (Promised(f) /\ Altered(f) /\ ChangedBack(f))'
BY DEF ContentOK, Promised, Altered, ChangedBack, UnderWay

\* A step of the worker outside of jobs.
LEMMA ContentBetween ==
  ASSUME NEW f \in Files, ContentOK, rows'[f] = rows[f], derived'[f].of = derived[f].of, batch' = batch, Later(f) => Later(f)',
         ~Working, worker'.at \notin JobSteps
  PROVE  (Promised(f) /\ Altered(f) /\ ChangedBack(f))'
<1>1. ~UnderWay(f) /\ worker'.at \notin RowSteps /\ worker'.at # "complete"
  BY DEF UnderWay, Working, JobSteps, RowSteps
<1>2. Pushed(f)' <=> Pushed(f)
  BY DEF Pushed
<1> QED
  BY <1>1, <1>2 DEF ContentOK, Promised, Altered, ChangedBack

LEMMA ContentStored ==
  ASSUME RowsOK, DerivedOK, MemoryOK, JobOK, ContentOK, NEW g \in Files, WriteContent(g) \/ DeleteFile(g), NEW f \in Files,
         rows[f] # NoRow /\ rows'[f].id = rows[f].id /\ Later(f) => Later(f)'
  PROVE  (Promised(f) /\ Altered(f) /\ ChangedBack(f))'
<1>1. PICK row \in Row : Stored(g, row)
  BY Stores
<1>2. \A h \in Files : rows'[h] = IF h = g THEN row ELSE rows[h]
  BY <1>1, RowsStored
<1>3. worker' = worker /\ missed' = missed /\ queue' = queue /\ finished' = finished
  BY <1>1 DEF Stored, jobs
<1>4. PICK b \in Batch : b = batch[RepoOf[g]]
  BY ContentTypes DEF MemoryOK
<1>5. \A r \in Repos : /\ r # RepoOf[g] => batch'[r] = batch[r]
                       /\ r = RepoOf[g] => batch'[r].files = IF row = NoRow THEN b.files ELSE b.files \cup {g}
  <2>1. batch' = [batch EXCEPT ![RepoOf[g]] =
                [at |-> "open",
                 files |-> IF row = NoRow THEN b.files ELSE b.files \cup {g},
                 paths |-> IF row.id # rows[g].id THEN b.paths \cup {g} ELSE b.paths]]
    BY <1>1, <1>4 DEF Stored
  <2> QED
    BY <2>1 DEF MemoryOK
<1>6. RepoOf[f] \in Repos /\ RepoOf[g] \in Repos
  BY ContentTypes
<1>7. CASE f # g
  <2>1. rows'[f] = rows[f] /\ (Pushed(f) => Pushed(f)')
    BY <1>2, <1>4, <1>5, <1>6, <1>7 DEF Pushed
  <2>2. derived'[f].of = derived[f].of
    <3>1. CASE DeleteFile(g)
      <4>1. derived'[f] = IF derived[f].target = rows[g].id THEN [derived[f] EXCEPT !.target = 0] ELSE derived[f]
        BY <1>7, <3>1 DEF DeleteFile
      <4>2. PICK d \in [of : Nat, target : Nat] : d = derived[f]
        BY DEF DerivedOK
      <4> QED
        BY <4>1, <4>2
    <3> QED
      BY <3>1, WriteIs
  <2>3. CASE rows[f] = NoRow
    BY <2>1, <2>3 DEF Promised, Altered, ChangedBack
  <2>4. CASE rows[f] # NoRow
    BY <1>3, <2>1, <2>2, <2>4, ContentKept
  <2> QED
    BY <2>3, <2>4
<1>8. CASE f = g /\ row = NoRow
  BY <1>2, <1>8 DEF Promised, Altered, ChangedBack
<1>9. CASE f = g /\ row # NoRow
  <2>1. Pushed(f)'
    BY <1>5, <1>6, <1>9 DEF Pushed
  <2>2. ASSUME worker.at = "complete", worker.read = row
        PROVE  Later(f)'
    <3>1. worker.read.id = worker.job.key[1] /\ worker.job.key[1] \in 0 .. nextId - 1 /\ worker.job.key[1] # 0
      <4>1. PICK j : j = worker.job /\ Sane(j)
        BY <2>2 DEF JobOK, Working, JobSteps
      <4> QED
        BY <1>9, <2>2, <4>1 DEF JobOK, RowSteps, Sane, Owned
    <3>2. rows[f] # NoRow /\ row.id = rows[f].id /\ row # rows[f] /\ f \notin batch[RepoOf[f]].files
      BY <1>1, <1>9, <2>2, <3>1 DEF Stored, RowsOK
    <3>3. Later(f)
      BY <2>2, <3>2 DEF ContentOK, Altered, Pushed, RowSteps
    <3> QED
      BY <1>2, <1>9, <3>2, <3>3
  <2>3. rows'[f] = row
    BY <1>2, <1>9
  <2> QED
    BY <1>3, <2>1, <2>2, <2>3 DEF Promised, Altered, ChangedBack
<1> QED
  BY <1>7, <1>8, <1>9

\* A job reads the row, computes and commits: the file is derived, its row changed meanwhile, or it is still under way.
LEMMA ContentRead ==
  ASSUME RowsOK, JobOK, MovesOK, ContentOK, ReadFile, NEW f \in Files, Later(f) => Later(f)'
  PROVE  (Promised(f) /\ Altered(f) /\ ChangedBack(f))'
<1>1. rows' = rows /\ derived' = derived /\ batch' = batch /\ Working /\ worker.at = "read" /\ worker.read = NoRow
  BY DEF ReadFile, On, Working, JobSteps, RowSteps, JobOK, store
<1>2. /\ worker'.job = worker.job /\ worker.job.file \in Files
      /\ \/ /\ rows[worker.job.file].id = worker.job.key[1] /\ worker'.read = rows[worker.job.file]
            /\ worker'.at \in {"commit", "resolve"}
         \/ rows[worker.job.file].id # worker.job.key[1] /\ worker'.read = worker.read /\ worker'.at = "complete"
  BY WorkerReads DEF MovesOK
<1>3. rows[f] # NoRow /\ worker.job.key[1] = rows[f].id => worker.job.file = f
  BY <1>1, WhoseJob
<1>4. worker.job.key[1] # 0
  BY <1>1 DEF JobOK, Sane
<1>5. CASE worker'.at = "complete"
  <2>1. worker'.read = NoRow /\ rows[worker.job.file].id # worker.job.key[1]
    BY <1>1, <1>2, <1>5
  <2>2. rows[f] # NoRow => rows[f].id # 0 /\ NoRow.id = 0
    BY DEF RowsOK, NoRow
  <2>3. rows[f] # NoRow => ~UnderWay(f)
    BY <1>3, <2>1 DEF UnderWay
  <2> QED
    BY <1>1, <2>1, <2>2, <2>3 DEF ContentOK, Promised, Altered, ChangedBack, Pushed
<1>6. CASE worker'.at # "complete"
  <2>1. worker'.at \in {"commit", "resolve"} /\ worker'.read = rows[worker.job.file] /\ worker'.read.id = worker.job.key[1]
    BY <1>2, <1>6
  <2>2. rows[f] # NoRow /\ UnderWay(f) => UnderWay(f)'
    BY <1>1, <1>2, <1>3, <2>1 DEF UnderWay
  <2>3. rows[f] # NoRow /\ worker'.read.id = rows[f].id => worker'.read = rows[f]
    BY <1>3, <2>1
  <2> QED
    BY <1>1, <2>1, <2>2, <2>3 DEF ContentOK, Promised, Altered, ChangedBack, Pushed
<1> QED
  BY <1>5, <1>6

LEMMA ContentResolves ==
  ASSUME RowsOK, JobOK, MemoryOK, MovesOK, ImportsOK, ContentOK, ResolveImports, NEW f \in Files, Later(f) => Later(f)'
  PROVE  (Promised(f) /\ Altered(f) /\ ChangedBack(f))'
<1>1. rows' = rows /\ derived' = derived /\ batch' = batch /\ worker.at = "resolve"
  BY DEF ResolveImports, On, store
<1>2. worker'.at = "commit" /\ worker'.job = worker.job /\ worker'.read = worker.read
  BY WorkerResolves DEF MovesOK
<1> QED
  BY <1>1, <1>2 DEF ContentOK, Promised, Altered, ChangedBack, Pushed, UnderWay, RowSteps

LEMMA ContentCommitted ==
  ASSUME RowsOK, DerivedOK, MemoryOK, JobOK, MovesOK, ContentOK, CommitFile, NEW f \in Files,
         rows[f] # NoRow /\ Later(f) => Later(f)' \/ (Current /\ worker.job.file = f)
  PROVE  (Promised(f) /\ Altered(f) /\ ChangedBack(f))'
<1>1. rows' = rows /\ batch' = batch /\ worker.at = "commit" /\ Working /\ worker' = To("complete")
  BY DEF CommitFile, On, Working, JobSteps
<1>2. worker'.at = "complete" /\ worker'.job = worker.job /\ worker'.read = worker.read
  <2>1. "complete" \in WorkerSteps
    BY DEF WorkerSteps, JobSteps
  <2> QED
    BY <1>1, <2>1, WorkerGoes DEF SameJob, MovesOK
<1>3. /\ worker.job.file \in Files
      /\ Current => /\ derived'[worker.job.file] = [of |-> rows[worker.job.file].content, target |-> worker.target]
                    /\ \A g \in Files : g # worker.job.file => derived'[g] = derived[g]
      /\ ~Current => derived' = derived
  BY DerivedCommitted
<1>4. rows[f] # NoRow /\ worker.job.key[1] = rows[f].id => worker.job.file = f
  BY <1>1, WhoseJob
<1>5. worker.read # NoRow /\ worker.read.id = worker.job.key[1]
  BY <1>1 DEF JobOK, RowSteps
<1>6. CASE rows[f] = NoRow
  BY <1>1, <1>6 DEF Promised, Altered, ChangedBack
<1>7. CASE rows[f] # NoRow /\ Current /\ worker.job.file = f
  <2>1. derived'[f].of = rows[f].content /\ worker.read = rows[f]
    BY <1>3, <1>7 DEF Current
  <2> QED
    BY <1>1, <1>2, <2>1 DEF Promised, Altered, ChangedBack
<1>8. CASE rows[f] # NoRow /\ ~(Current /\ worker.job.file = f)
  <2>1. ~UnderWay(f) /\ worker.read # rows[f]
    BY <1>1, <1>4, <1>5, <1>8 DEF UnderWay, Current
  <2>2. derived'[f] = derived[f]
    BY <1>3, <1>8
  <2>3. Later(f) => Later(f)'
    BY <1>8
  <2> QED
    BY <1>1, <1>2, <2>1, <2>2, <2>3 DEF ContentOK, Promised, Altered, ChangedBack, Pushed, RowSteps
<1> QED
  BY <1>6, <1>7, <1>8

\* A job that is claimed, done or failed, or that ends with the process.
LEMMA ContentClaimed ==
  ASSUME MovesOK, QueueOK, TurnOK, ContentOK, ClaimJob, NEW f \in Files,
         rows[f] # NoRow /\ Later(f) => Later(f)' \/ worker'.job.key[1] = rows[f].id
  PROVE  (Promised(f) /\ Altered(f) /\ ChangedBack(f))'
<1>1. rows' = rows /\ derived' = derived /\ batch' = batch /\ worker.at = "claim" /\ worker.repo \in Repos
  BY DEF ClaimJob, On, InTurn, TurnOK, store
<1>2. worker'.at = "read"
  BY <1>1, WorkerClaims DEF MovesOK
<1>3. ~UnderWay(f)
  BY <1>1 DEF UnderWay
<1>4. worker'.job.key[1] = rows[f].id => UnderWay(f)'
  BY <1>1, <1>2 DEF UnderWay
<1> QED
  BY <1>1, <1>2, <1>3, <1>4 DEF ContentOK, Promised, Altered, ChangedBack, Pushed, RowSteps

LEMMA ContentOver ==
  ASSUME RowsOK, QueueOK, MemoryOK, JobOK, MovesOK, ContentOK, Complete \/ JobFails \/ Die, NEW f \in Files, rows[f] # NoRow /\ Later(f) => Later(f)'
  PROVE  (Promised(f) /\ Altered(f) /\ ChangedBack(f))'
<1>1. rows' = rows /\ derived' = derived
  BY DEF Complete, JobFails, Die, store
<1>2. worker'.at \in {"claim", "down"}
  <2>1. worker' = JobOver \/ Die
    BY DEF Complete, JobFails
  <2> QED
    BY <2>1, WorkerOver, WorkerRests DEF MovesOK
<1>3. Pushed(f) => Pushed(f)' \/ Later(f)'
  <2>1. CASE Die
    <3>1. PICK r \in Repos : r = RepoOf[f]
      BY ContentTypes
    <3>2. Pushed(f) => f \in Unsaid(Repos).files
      BY <3>1, UnsaidIs DEF Pushed
    <3> QED
      BY <2>1, <3>2, MemoryEnded DEF Later
  <2>2. CASE Complete \/ JobFails
    BY <2>2 DEF Complete, JobFails, Pushed
  <2> QED
    BY <2>1, <2>2
<1>4. ASSUME rows[f] # NoRow, UnderWay(f)
      PROVE  Later(f)'
  <2>1. Working /\ worker.job.key[1] = rows[f].id /\ ~Complete
    BY <1>4 DEF UnderWay, Working, JobSteps, Complete, On
  <2>2. worker.job.file = f /\ worker.job.key[2] \in Contents[f] /\ worker.job.key = <<rows[f].id, worker.job.key[2]>>
    BY <1>4, <2>1, WhoseJob
  <2>3. worker.job # NoJob
    <3>1. PICK j : j = worker.job /\ Sane(j)
      BY <2>1 DEF JobOK
    <3> QED
      BY <3>1, SaneKey
  <2>4. CASE queue' = Back
    <3>1. PICK j \in Job : j = worker.job
      BY <2>1 DEF JobOK, Sane
    <3>2. PICK k \in Job : k = [j EXCEPT !.ready = FALSE] /\ k.key = j.key
      <4>1. [j EXCEPT !.ready = FALSE] \in Job
        BY DEF Job
      <4>2. [j EXCEPT !.ready = FALSE].key = j.key
        BY DEF Job
      <4> QED
        BY <4>1, <4>2
    <3>3. Put(queue', worker.place, k)
      <4>1. Put(Back, worker.place, [worker.job EXCEPT !.ready = FALSE])
        BY <2>1, <3>1, BackIs DEF QueueOK, JobOK
      <4> QED
        BY <2>4, <3>1, <3>2, <4>1
    <3>4. worker.place \in DOMAIN queue' /\ queue'[worker.place] = k
      BY <3>3 DEF Put
    <3> QED
      BY <1>1, <2>1, <3>1, <3>2, <3>4 DEF Later, HasJob
  <2>5. CASE [key |-> worker.job.key, how |-> "error"] \in finished'
    <3>1. [key |-> <<rows'[f].id, worker.job.key[2]>>, how |-> "error"] \in finished'
      BY <1>1, <2>2, <2>5
    <3> QED
      BY <2>2, <3>1 DEF Later, GaveUp, Ended
  <2>6. CASE JobFails
    BY <2>4, <2>5, <2>6 DEF JobFails
  <2>7. CASE Die
    BY <2>3, <2>4, <2>7 DEF Die
  <2> QED
    BY <2>1, <2>6, <2>7
<1> QED
  BY <1>1, <1>2, <1>3, <1>4 DEF ContentOK, Promised, Altered, ChangedBack, RowSteps

\* A sync ends: its files have been queued, or their jobs are under way, or they were missed.
LEMMA ContentEnqueued ==
  ASSUME RowsOK, QueueOK, MemoryOK, JobOK, MovesOK, TurnOK, ContentOK, [ExtractionNext]_extractionVars,
         NEW r \in Repos, EnqueueBatch(r), NEW f \in Files, rows[f] # NoRow /\ Later(f) => Later(f)'
  PROVE  (Promised(f) /\ Altered(f) /\ ChangedBack(f))'
<1>1. rows' = rows /\ derived' = derived /\ worker' = worker
  BY DEF EnqueueBatch, store
<1>2. \A q \in Repos : q # r => batch'[q] = batch[q]
  BY DEF EnqueueBatch, MemoryOK
<1>3. CASE rows[f] = NoRow
  BY <1>1, <1>3 DEF Promised, Altered, ChangedBack
<1>4. CASE rows[f] # NoRow /\ ~(Pushed(f) /\ RepoOf[f] = r)
  <2>1. Pushed(f) => Pushed(f)'
    BY <1>2, <1>4, ContentTypes DEF Pushed
  <2> QED
    BY <1>1, <1>4, <2>1, ContentKept
<1>5. CASE rows[f] # NoRow /\ Pushed(f) /\ RepoOf[f] = r
  <2>1. /\ Later(f)' \/ derived[f].of = rows[f].content \/ UnderWay(f)
        /\ worker.at \in RowSteps /\ worker.read # rows[f] => Later(f)' \/ worker.job.key # Key(f)
        /\ worker.job.key # Key(f) => Later(f)'
    BY <1>5, PushedQueued DEF Pushed
  <2>2. UnderWay(f)' <=> UnderWay(f)
    BY <1>1 DEF UnderWay
  <2> QED
    BY <1>1, <1>5, <2>1, <2>2 DEF ContentOK, Promised, Altered, ChangedBack
<1> QED
  BY <1>3, <1>4, <1>5

LEMMA ContentStep ==
  ASSUME RowsOK, DerivedOK, MemoryOK, QueueOK, JobOK, MovesOK, TurnOK, ContentOK, ImportsOK, [ExtractionNext]_extractionVars
  PROVE  ContentOK'
<1> SUFFICES ASSUME NEW f \in Files
             PROVE  (Promised(f) /\ Altered(f) /\ ChangedBack(f))'
  BY DEF ContentOK, Promised, Altered, ChangedBack
<1>1. rows[f] # NoRow /\ rows'[f].id = rows[f].id /\ Later(f) =>
        \/ Later(f)'
        \/ ClaimJob /\ worker'.job.key[1] = rows[f].id
        \/ CommitFile /\ Current /\ worker.job.file = f
  BY LaterStep
<1>2. CASE \E g \in Files : WriteContent(g) \/ DeleteFile(g)
  <2>1. PICK g \in Files : WriteContent(g) \/ DeleteFile(g)
    BY <1>2
  <2>2. ~ClaimJob /\ ~CommitFile
    <3>1. PICK row \in Row : Stored(g, row)
      BY <2>1, Stores
    <3>2. rows' # rows
      <4>1. row # rows[g]
        BY <3>1, ContentTypes DEF Stored, NoRow
      <4>2. rows'[g] = row
        BY <3>1, RowsStored
      <4> QED
        BY <4>1, <4>2
    <3> QED
      BY <3>2 DEF ClaimJob, CommitFile, store
  <2> QED
    BY <1>1, <2>1, <2>2, ContentStored
<1>3. CASE ~(\E g \in Files : WriteContent(g) \/ DeleteFile(g))
  <2>1. rows' = rows
    BY <1>3, Others DEF Elsewhere
  <2>2. CASE rows[f] = NoRow
    BY <2>1, <2>2 DEF Promised, Altered, ChangedBack
  <2>3. CASE rows[f] # NoRow
    <3>1. ~ClaimJob /\ ~CommitFile /\ Later(f) => Later(f)'
      BY <1>1, <2>1, <2>3
    <3>2. CASE ClaimJob
      <4>1. ~CommitFile
        BY <3>2 DEF ClaimJob, CommitFile, On
      <4> QED
        BY <1>1, <2>1, <3>2, <4>1, ContentClaimed
    <3>3. CASE CommitFile
      <4>1. ~ClaimJob
        BY <3>3 DEF ClaimJob, CommitFile, On
      <4> QED
        BY <1>1, <2>1, <3>3, <4>1, ContentCommitted
    <3>4. ASSUME ~ClaimJob, ~CommitFile
          PROVE  (Promised(f) /\ Altered(f) /\ ChangedBack(f))'
      <4>1. Later(f) => Later(f)'
        BY <3>1, <3>4
      <4>2. CASE UNCHANGED extractionVars \/ LeaseOver
        <5>1. derived' = derived /\ batch' = batch /\ worker' = worker
          BY <4>2 DEF extractionVars, LeaseOver, store
        <5> QED
          BY <2>1, <4>1, <5>1, ContentKept DEF Pushed
      <4>3. CASE \E r \in Repos : RequestPaths(r)
        <5>1. PICK r \in Repos : RequestPaths(r)
          BY <4>3
        <5>2. derived' = derived /\ worker' = worker
          BY <5>1 DEF RequestPaths, store
        <5>3. Pushed(f)' <=> Pushed(f)
          BY <5>1, MemoryRequested, ContentTypes DEF Pushed
        <5> QED
          BY <2>1, <4>1, <5>2, <5>3, ContentKept
      <4>4. CASE \E r \in Repos : EnqueueBatch(r)
        BY <4>1, <4>4, ContentEnqueued
      <4>5. CASE \E r \in Repos : SyncStops(r)
        <5>1. PICK r \in Repos : SyncStops(r)
          BY <4>5
        <5>2. derived' = derived /\ worker' = worker
          BY <5>1 DEF SyncStops, store
        <5>3. /\ batch' = [batch EXCEPT ![r] = NoBatch] /\ missed'.files = missed.files \cup Unsaid({r}).files
          BY <5>1, MemoryStopped
        <5>4. Pushed(f) => Pushed(f)' \/ Later(f)'
          <6>1. CASE RepoOf[f] = r
            <7>1. PICK q \in {r} : q = r
              OBVIOUS
            <7>2. Pushed(f) => f \in Unsaid({r}).files
              BY <6>1, <7>1, UnsaidIs DEF Pushed
            <7> QED
              BY <5>3, <7>2 DEF Later
          <6>2. CASE RepoOf[f] # r
            BY <5>3, <6>2, ContentTypes DEF Pushed, MemoryOK
          <6> QED
            BY <6>1, <6>2
        <5> QED
          BY <2>1, <4>1, <5>2, <5>4, ContentKept
      <4>6. CASE Drain \/ NoRequests \/ Reresolve \/ ReresolveFails \/ DrainEnds \/ TurnEnds \/ Boot
                 \/ \E r \in Repos : TakeRequest(r) \/ Turn(r)
        <5>1. batch' = batch /\ ~Working
          BY <4>6 DEF Drain, NoRequests, Reresolve, ReresolveFails, DrainEnds, TurnEnds, Boot, TakeRequest, Turn, On, Working, JobSteps
        <5>2. derived'[f].of = derived[f].of
          <6>1. CASE Reresolve \/ Boot
            BY <6>1, DerivedReresolved, DerivedBooted
          <6>2. CASE ~(Reresolve \/ Boot)
            BY <4>6, <6>2 DEF Drain, NoRequests, ReresolveFails, DrainEnds, TurnEnds, TakeRequest, Turn, store
          <6> QED
            BY <6>1, <6>2
        <5>3. worker'.at \notin JobSteps
          <6>1. CASE Drain \/ NoRequests \/ TurnEnds
            <7>1. PICK step \in {"between", "next"} : worker' = To(step)
              BY <6>1 DEF Drain, NoRequests, TurnEnds
            <7>2. step \in WorkerSteps /\ step \notin JobSteps
              BY DEF WorkerSteps, JobSteps
            <7> QED
              BY <7>1, <7>2, WorkerGoes DEF MovesOK
          <6>2. CASE ReresolveFails \/ DrainEnds \/ Boot
            BY <6>2, WorkerRests DEF JobSteps
          <6>3. CASE Reresolve
            BY <6>3, WorkerReresolved DEF JobSteps, MovesOK
          <6>4. CASE \E r \in Repos : TakeRequest(r) \/ Turn(r)
            BY <6>4, WorkerTakes, WorkerTurns DEF JobSteps, MovesOK
          <6> QED
            BY <4>6, <6>1, <6>2, <6>3, <6>4
        <5> QED
          BY <2>1, <4>1, <5>1, <5>2, <5>3, ContentBetween
      <4>7. CASE ReadFile \/ ResolveImports
        BY <4>1, <4>7, ContentRead, ContentResolves
      <4>8. CASE Complete \/ JobFails \/ Die
        BY <4>1, <4>8, ContentOver
      <4> QED
        BY <1>3, <3>4, <4>2, <4>3, <4>4, <4>5, <4>6, <4>7, <4>8 DEF ExtractionNext, Work
    <3> QED
      BY <3>2, <3>3, <3>4
  <2> QED
    BY <2>2, <2>3
<1> QED
  BY <1>2, <1>3
-----------------------------------------------------------------------------
(* Imports: where they lead, and the paths that will be resolved again *)

LEMMA DueKept ==
  ASSUME NEW f \in Files, \A p \in Tries(f) : rows'[p].id = rows[p].id
  PROVE  Due(f)' = Due(f)
<1>1. PICK l, k : l = ListOf(RepoOf[f]) /\ k = ListOf(RepoOf[f])'
  OBVIOUS
<1>2. \A p \in Tries(f) : l[p] = k[p]
  BY <1>1, Imported DEF ListOf, Of
<1>3. Resolve(l, f) = Resolve(k, f)
  BY <1>2, ResolveSame
<1>4. Due(f) = Resolve(l, f)
  BY <1>1 DEF Due
<1>5. Due(f)' = Resolve(k, f)
  BY <1>1 DEF Due, Resolve
<1> QED
  BY <1>3, <1>4, <1>5

\* A path that was asked about is asked about until a request is taken.
LEMMA AskedKept ==
  ASSUME RowsOK, MemoryOK, MovesOK, [ExtractionNext]_extractionVars, NEW r \in Repos, ~TakeRequest(r)
  PROVE  Asked(r) \subseteq Asked(r)'
<1>1. ASSUME missed'.paths = missed.paths, requests[r] \subseteq requests'[r], batch' = batch
      PROVE  Asked(r) \subseteq Asked(r)'
  BY <1>1 DEF Asked
<1>2. CASE \E f \in Files : WriteContent(f) \/ DeleteFile(f)
  <2>1. PICK f \in Files, row \in Row : Stored(f, row)
    BY <1>2, Stores
  <2>2. PICK b \in Batch : b = batch[RepoOf[f]]
    BY ContentTypes DEF MemoryOK
  <2>3. batch' = [batch EXCEPT ![RepoOf[f]] =
                [at |-> "open",
                 files |-> IF row = NoRow THEN b.files ELSE b.files \cup {f},
                 paths |-> IF row.id # rows[f].id THEN b.paths \cup {f} ELSE b.paths]]
    BY <2>1, <2>2 DEF Stored
  <2>4. missed' = missed /\ requests' = requests
    BY <2>1 DEF Stored, memory
  <2>5. CASE r = RepoOf[f]
    <3>1. batch'[r].at = "open" /\ batch[r].paths \subseteq batch'[r].paths
      BY <2>2, <2>3, <2>5 DEF MemoryOK
    <3> QED
      BY <2>4, <3>1 DEF Asked
  <2>6. CASE r # RepoOf[f]
    <3>1. batch'[r] = batch[r]
      BY <2>3, <2>6 DEF MemoryOK
    <3> QED
      BY <2>4, <3>1 DEF Asked
  <2> QED
    BY <2>5, <2>6
<1>3. CASE \E q \in Repos : RequestPaths(q)
  <2>1. PICK q \in Repos : RequestPaths(q)
    BY <1>3
  <2>2. /\ requests' = [requests EXCEPT ![q] = @ \cup batch[q].paths] /\ batch[q].at = "open"
        /\ \A p \in Repos : p # q => batch'[p] = batch[p]
    BY <2>1, MemoryRequested
  <2>3. missed' = missed
    BY <2>1 DEF RequestPaths
  <2> QED
    BY <2>2, <2>3 DEF Asked, MemoryOK
<1>4. CASE \E q \in Repos : EnqueueBatch(q)
  <2>1. PICK q \in Repos : EnqueueBatch(q)
    BY <1>4
  <2>2. batch' = [batch EXCEPT ![q] = NoBatch] /\ requests' = requests /\ missed'.paths = missed.paths
    BY <2>1, MemoryEnqueued
  <2>3. batch[q].at = "open" => batch[q].paths = {}
    BY <2>1 DEF EnqueueBatch
  <2> QED
    BY <2>2, <2>3 DEF Asked, MemoryOK
<1>5. CASE \E q \in Repos : SyncStops(q)
  <2>1. PICK q \in Repos : SyncStops(q)
    BY <1>5
  <2>2. batch' = [batch EXCEPT ![q] = NoBatch] /\ requests' = requests /\ missed'.paths = missed.paths \cup Unsaid({q}).paths
    BY <2>1, MemoryStopped
  <2>3. batch[q].at = "open" => batch[q].paths \subseteq Unsaid({q}).paths
    BY UnsaidIs DEF MemoryOK, Batch
  <2> QED
    BY <2>2, <2>3 DEF Asked, MemoryOK
<1>6. CASE Die
  <2>1. missed'.paths = missed.paths \cup Unsaid(Repos).paths \cup worker.paths \cup UNION {requests[q] : q \in Repos}
    BY <1>6, MemoryEnded
  <2>2. batch[r].at = "open" => batch[r].paths \subseteq Unsaid(Repos).paths
    BY UnsaidIs DEF MemoryOK, Batch
  <2> QED
    BY <2>1, <2>2 DEF Asked
<1>7. CASE Boot \/ CommitFile
  BY <1>1, <1>7, MemoryBooted, MemoryCommitted DEF Boot, CommitFile, memory
<1>8. CASE ReresolveFails
  <2>1. requests[r] \subseteq requests'[r]
    BY <1>8 DEF ReresolveFails, Kept, MemoryOK
  <2> QED
    BY <1>1, <1>8, <2>1 DEF ReresolveFails
<1>9. CASE \E q \in Repos : TakeRequest(q)
  <2>1. PICK q \in Repos : TakeRequest(q)
    BY <1>9
  <2>2. requests'[r] = requests[r]
    BY <2>1 DEF TakeRequest, MemoryOK
  <2> QED
    BY <1>1, <2>1, <2>2 DEF TakeRequest
<1>10. CASE UNCHANGED extractionVars \/ LeaseOver
  BY <1>1, <1>10 DEF extractionVars, LeaseOver, memory
<1>11. CASE \/ \E q \in Repos : Turn(q)
            \/ Reresolve \/ NoRequests \/ DrainEnds \/ TurnEnds \/ ReadFile \/ ResolveImports \/ ClaimJob \/ Complete \/ Drain \/ JobFails
  BY <1>1, <1>11 DEF Turn, Reresolve, NoRequests, DrainEnds, TurnEnds, ReadFile, ResolveImports, Complete, ClaimJob, Drain, JobFails, memory
<1> QED
  BY <1>2, <1>3, <1>4, <1>5, <1>6, <1>7, <1>8, <1>9, <1>10, <1>11 DEF ExtractionNext, Work

\* A row is created, replaced or deleted: the paths whose ids change are asked about.
LEMMA ImportsStored ==
  ASSUME RowsOK, DerivedOK, MemoryOK, MovesOK, ImportsOK, [ExtractionNext]_extractionVars, NEW g \in Files, WriteContent(g) \/ DeleteFile(g)
  PROVE  ImportsOK'
<1>1. PICK row \in Row : Stored(g, row)
  BY Stores
<1>2. /\ \A h \in Files : rows'[h] = IF h = g THEN row ELSE rows[h]
      /\ \A id, F : Owned(id, F) => Owned(id, F)'
  BY <1>1, RowsStored
<1>3. worker' = worker /\ siblings' = siblings
  BY <1>1 DEF Stored, memory
<1>4. \A r \in Repos : Asked(r) \subseteq Asked(r)'
  <2>1. \A r \in Repos : ~TakeRequest(r)
    <3>1. rows' # rows
      <4>1. row # rows[g]
        BY <1>1, ContentTypes DEF Stored, NoRow
      <4> QED
        BY <1>2, <4>1
    <3> QED
      BY <3>1 DEF TakeRequest, store
  <2> QED
    BY <2>1, AskedKept
<1>5. row.id # rows[g].id => g \in Asked(RepoOf[g])'
  <2>1. PICK b \in Batch : b = batch[RepoOf[g]]
    BY ContentTypes DEF MemoryOK
  <2>2. batch' = [batch EXCEPT ![RepoOf[g]] =
                [at |-> "open",
                 files |-> IF row = NoRow THEN b.files ELSE b.files \cup {g},
                 paths |-> IF row.id # rows[g].id THEN b.paths \cup {g} ELSE b.paths]]
    BY <1>1, <2>1 DEF Stored
  <2>3. row.id # rows[g].id => batch'[RepoOf[g]].at = "open" /\ g \in batch'[RepoOf[g]].paths
    BY <2>1, <2>2, ContentTypes DEF MemoryOK
  <2> QED
    BY <2>3 DEF Asked
<1>6. ASSUME NEW f \in Files
      PROVE  (Leads(f) /\ WillLead(f) /\ Resolved(f))'
  <2>1. Tries(f) \in SUBSET Of(RepoOf[f])
    BY Imported
  <2>2. CASE g \in Tries(f) /\ row.id # rows[g].id
    <3>1. g \in Asked(RepoOf[f])'
      BY <1>5, <2>1, <2>2 DEF Of
    <3>2. Tries(f) \cap Asked(RepoOf[f])' # {}
      BY <2>2, <3>1
    <3> QED
      BY <3>2 DEF Leads, WillLead, Resolved, Tries
  <2>3. CASE ~(g \in Tries(f) /\ row.id # rows[g].id)
    <3>1. Due(f)' = Due(f)
      BY <1>2, <2>1, <2>3, DueKept DEF Of
    <3>2. Asked(RepoOf[f]) \subseteq Asked(RepoOf[f])' /\ Taken(RepoOf[f])' = Taken(RepoOf[f])
      BY <1>3, <1>4, ContentTypes DEF Taken, On
    <3>3. derived'[f].of = 0 \/ derived'[f] = derived[f]
      <4>1. CASE DeleteFile(g)
        <5>1. /\ rows[g] # NoRow /\ Stored(g, NoRow)
              /\ derived'[f] = IF f = g THEN Nothing
                               ELSE IF derived[f].target = rows[g].id THEN [derived[f] EXCEPT !.target = 0] ELSE derived[f]
          BY <4>1, DeleteIs
        <5>2. rows[g].id # 0 /\ row.id = 0
          <6>1. rows'[g] = NoRow
            BY <5>1 DEF Stored, RowsOK
          <6> QED
            BY <1>2, <5>1, <6>1 DEF RowsOK, NoRow
        <5>3. derived[f].target # rows[g].id
          <6>1. derived[f].target = 0 \/ \E h \in Tries(f) : rows[h].id = derived[f].target
            BY DEF DerivedOK
          <6>2. \A h \in Tries(f) : rows[h].id = rows[g].id => h = g
            BY <2>1, <5>2 DEF RowsOK, Of
          <6> QED
            BY <2>3, <5>2, <6>1, <6>2
        <5> QED
          BY <5>1, <5>3 DEF Nothing
      <4> QED
        BY <4>1, WriteIs
    <3>4. Leads(f)'
      BY <3>1, <3>2, <3>3 DEF ImportsOK, Leads, Tries
    <3>5. WillLead(f)'
      BY <1>3, <3>1, <3>2, <3>3 DEF ImportsOK, WillLead, After, Moved, On, Tries
    <3>6. Resolved(f)'
      BY <1>3, <3>1, <3>2 DEF ImportsOK, Resolved, On, Tries
    <3> QED
      BY <3>4, <3>5, <3>6
  <2> QED
    BY <2>2, <2>3
<1>7. ASSUME NEW r \in Repos
      PROVE  Cached(r)'
  <2>1. ASSUME siblings[r] # NoList, NEW p \in Of(r)
        PROVE  Owned(siblings[r][p], {p})' /\ (siblings[r][p] = rows'[p].id \/ p \in Asked(r)')
    <3>1. Owned(siblings[r][p], {p}) /\ (siblings[r][p] = rows[p].id \/ p \in Asked(r))
      BY <2>1 DEF ImportsOK, Cached
    <3>2. PICK id : id = siblings[r][p] /\ id = siblings'[r][p]
      BY <1>3
    <3>3. Owned(id, {p})'
      BY <1>2, <3>1, <3>2
    <3>4. p \in Files /\ RepoOf[p] = r
      BY DEF Of
    <3> QED
      BY <1>2, <1>4, <1>5, <3>1, <3>2, <3>3, <3>4 DEF Owned
  <2> QED
    BY <1>3, <2>1 DEF Cached, Of
<1> QED
  BY <1>6, <1>7 DEF ImportsOK, Leads, WillLead, Resolved, Cached

LEMMA CachedKept ==
  ASSUME RowsOK, ImportsOK, Elsewhere, NEW r \in Repos, Asked(r) \subseteq Asked(r)', siblings'[r] = siblings[r] \/ siblings'[r] = NoList
  PROVE  Cached(r)'
<1>1. ASSUME siblings[r] # NoList, NEW p \in Of(r), siblings'[r] = siblings[r]
      PROVE  Owned(siblings[r][p], {p})' /\ (siblings[r][p] = rows'[p].id \/ p \in Asked(r)')
  <2>1. Owned(siblings[r][p], {p}) /\ (siblings[r][p] = rows[p].id \/ p \in Asked(r))
    BY <1>1 DEF ImportsOK, Cached
  <2>2. PICK id : id = siblings[r][p] /\ id = siblings'[r][p]
    BY <1>1
  <2>3. Owned(id, {p})'
    BY <2>1, <2>2, RowsKept
  <2> QED
    BY <2>1, <2>2, <2>3 DEF Owned, Elsewhere
<1> QED
  BY <1>1 DEF Cached, Of

\* A step that leaves the rows and what is derived of them, and goes to no update or commit.
LEMMA ImportsKept ==
  ASSUME RowsOK, ImportsOK, Elsewhere, derived' = derived,
         \A r \in Repos : /\ Asked(r) \subseteq Asked(r)' /\ Asked(r) \cup Taken(r) \subseteq Asked(r)' \cup Taken(r)'
                          /\ siblings'[r] = siblings[r] \/ siblings'[r] = NoList,
         worker' = worker \/ worker'.at \notin {"reresolve", "commit"}
  PROVE  ImportsOK'
<1>1. \A r \in Repos : Cached(r)'
  BY CachedKept
<1>2. ASSUME NEW f \in Files
      PROVE  (Leads(f) /\ WillLead(f) /\ Resolved(f))'
  <2>1. Due(f)' = Due(f)
    BY DueKept DEF Elsewhere
  <2>2. RepoOf[f] \in Repos
    BY ContentTypes
  <2>3. Leads(f)'
    BY <2>1, <2>2 DEF ImportsOK, Leads, Tries
  <2>4. CASE worker' = worker
    <3>1. WillLead(f)'
      BY <2>1, <2>2, <2>4 DEF ImportsOK, WillLead, After, Moved, On, Tries
    <3>2. Resolved(f)'
      BY <2>1, <2>2, <2>4 DEF ImportsOK, Resolved, On, Tries
    <3> QED
      BY <2>3, <3>1, <3>2
  <2>5. CASE worker'.at \notin {"reresolve", "commit"}
    BY <2>3, <2>5 DEF WillLead, Resolved, On
  <2> QED
    BY <2>4, <2>5
<1> QED
  BY <1>1, <1>2 DEF ImportsOK, Leads, WillLead, Resolved, Cached

LEMMA ImportsTaken ==
  ASSUME RowsOK, DerivedOK, MemoryOK, MovesOK, ImportsOK, [ExtractionNext]_extractionVars, NEW r \in Repos, TakeRequest(r)
  PROVE  ImportsOK'
<1>1. /\ worker'.at = "reresolve" /\ worker'.repo = r /\ worker'.paths = requests[r] /\ worker'.moves = Moves(r, requests[r])
  BY WorkerTakes DEF MovesOK
<1>2. PICK ps \in SUBSET Files : ps = requests[r]
  BY DEF MemoryOK
<1>3. PICK ms : ms = Moves(r, ps)
  OBVIOUS
<1>4. /\ \A m \in ms : RepoOf[m.file] = r /\ m.target = Due(m.file)
      /\ \A f \in Files : RepoOf[f] = r /\ derived[f].of # 0 /\ Tries(f) \cap ps # {} /\ derived[f].target # Due(f)
              => \E m \in ms : m.file = f
  BY <1>3, MovesIs
<1>5. worker'.moves = ms
  BY <1>1, <1>2, <1>3
<1>6. /\ Elsewhere /\ rows' = rows /\ derived' = derived /\ missed' = missed /\ batch' = batch /\ ~On("reresolve")
      /\ requests' = [requests EXCEPT ![r] = {}] /\ siblings' = [siblings EXCEPT ![r] = ListOf(r)]
  BY DEF TakeRequest, Elsewhere, store, counts, On
<1>7. \A q \in Repos : /\ q # r => Asked(q)' = Asked(q) /\ Taken(q)' = {}
                       /\ Asked(r) = Asked(r)' \cup ps /\ Taken(r)' = ps /\ Taken(q) = {}
  <2>1. \A q \in Repos : q # r => Asked(q)' = Asked(q) /\ Taken(q)' = {}
    BY <1>1, <1>6 DEF Asked, Taken, MemoryOK
  <2>2. Asked(r) = Asked(r)' \cup ps
    BY <1>2, <1>6 DEF Asked, MemoryOK
  <2>3. Taken(r)' = ps /\ \A q \in Repos : Taken(q) = {}
    BY <1>1, <1>2, <1>6 DEF Taken, On
  <2> QED
    BY <2>1, <2>2, <2>3
<1>8. ASSUME NEW f \in Files
      PROVE  (Leads(f) /\ WillLead(f) /\ Resolved(f))'
  <2>1. Due(f)' = Due(f)
    BY DueKept DEF Elsewhere, TakeRequest, store
  <2>2. RepoOf[f] \in Repos
    BY ContentTypes
  <2>3. Leads(f) /\ Leads(f)'
    BY <1>6, <1>7, <2>1, <2>2 DEF ImportsOK, Leads, Tries
  <2>4. ASSUME RepoOf[f] = r, derived[f].of # 0
        PROVE  After(f)' = Due(f) \/ Tries(f) \cap Asked(r)' # {}
    <3>1. CASE \E m \in ms : m.file = f
      <4>1. PICK k : k = CHOOSE m \in ms : m.file = f
        OBVIOUS
      <4>2. k \in ms /\ k.file = f
        BY <3>1, <4>1
      <4>3. After(f)' = k.target
        BY <1>5, <3>1, <4>1 DEF After, Moved
      <4> QED
        BY <1>4, <4>2, <4>3
    <3>2. CASE ~\E m \in ms : m.file = f
      <4>1. After(f)' = derived[f].target
        BY <1>5, <1>6, <3>2 DEF After
      <4>2. derived[f].target = Due(f) \/ Tries(f) \cap ps = {}
        BY <1>4, <2>4, <3>2
      <4> QED
        BY <1>7, <2>3, <2>4, <4>1, <4>2 DEF Leads
    <3> QED
      BY <3>1, <3>2
  <2>5. WillLead(f)'
    BY <1>1, <1>6, <2>1, <2>4 DEF WillLead, Tries
  <2>6. Resolved(f)'
    BY <1>1 DEF Resolved, On
  <2> QED
    BY <2>3, <2>5, <2>6
<1>9. ASSUME NEW q \in Repos
      PROVE  Cached(q)'
  <2>1. CASE q # r
    <3>1. Asked(q) \subseteq Asked(q)' /\ siblings'[q] = siblings[q]
      BY <1>6, <1>7, <2>1 DEF MemoryOK
    <3> QED
      BY <1>6, <3>1, CachedKept
  <2>2. CASE q = r
    <3>1. siblings'[q] = ListOf(r)
      BY <1>6, <2>2 DEF MemoryOK
    <3>2. \A p \in Of(r) : ListOf(r)[p] = rows[p].id /\ Owned(rows[p].id, {p})
      BY DEF ListOf, Of, RowsOK, Owned, NoRow
    <3> QED
      BY <1>6, <2>2, <3>1, <3>2 DEF Cached, Of, Owned, Elsewhere
  <2> QED
    BY <2>1, <2>2
<1> QED
  BY <1>8, <1>9 DEF ImportsOK, Leads, WillLead, Resolved, Cached

LEMMA ImportsReresolved ==
  ASSUME RowsOK, DerivedOK, MemoryOK, MovesOK, ImportsOK, [ExtractionNext]_extractionVars, Reresolve
  PROVE  ImportsOK'
<1>1. worker'.at = "between"
  BY WorkerReresolved DEF MovesOK
<1>2. /\ \A f \in Files : derived'[f].of = derived[f].of
      /\ \A f \in Files : derived'[f].target = IF derived[f].of # 0 THEN After(f) ELSE derived[f].target
  BY DerivedReresolved
<1>3. Elsewhere /\ rows' = rows /\ UNCHANGED <<batch, requests, siblings, missed>> /\ On("reresolve")
  BY DEF Reresolve, Elsewhere, memory, counts
<1>4. \A r \in Repos : Asked(r)' = Asked(r)
  BY <1>3 DEF Asked
<1>5. \A r \in Repos : Cached(r)'
  BY <1>3, <1>4, CachedKept
<1>6. ASSUME NEW f \in Files
      PROVE  (Leads(f) /\ WillLead(f) /\ Resolved(f))'
  <2>1. Due(f)' = Due(f)
    BY <1>3, DueKept
  <2>2. RepoOf[f] \in Repos
    BY ContentTypes
  <2>3. ASSUME derived[f].of # 0
        PROVE  After(f) = Due(f) \/ Tries(f) \cap Asked(RepoOf[f]) # {}
    <3>1. CASE RepoOf[f] = worker.repo
      BY <1>3, <2>3, <3>1 DEF ImportsOK, WillLead
    <3>2. CASE RepoOf[f] # worker.repo
      <4>1. After(f) = derived[f].target
        BY <1>3, <3>2 DEF After, MovesOK
      <4>2. Taken(RepoOf[f]) = {}
        BY <3>2 DEF Taken
      <4> QED
        BY <2>3, <4>1, <4>2 DEF ImportsOK, Leads
    <3> QED
      BY <3>1, <3>2
  <2>4. Leads(f)'
    BY <1>2, <1>4, <2>1, <2>2, <2>3 DEF Leads, Tries
  <2> QED
    BY <1>1, <2>4 DEF WillLead, Resolved, On
<1> QED
  BY <1>5, <1>6 DEF ImportsOK, Leads, WillLead, Resolved, Cached

\* A commit stores the target that was resolved, a boot the one that is due for the imports without one.
LEMMA ImportsDerived ==
  ASSUME RowsOK, DerivedOK, MemoryOK, JobOK, MovesOK, ImportsOK, [ExtractionNext]_extractionVars, CommitFile \/ Boot
  PROVE  ImportsOK'
<1>1. worker'.at \in {"complete", "idle"}
  <2>1. CASE CommitFile
    <3>1. "complete" \in WorkerSteps
      BY DEF WorkerSteps, JobSteps
    <3> QED
      BY <2>1, <3>1, WorkerGoes DEF CommitFile, MovesOK
  <2>2. CASE Boot /\ ~Die
    BY <2>2, WorkerRests
  <2>3. ~(Boot /\ Die)
    BY DEF Boot, Die
  <2> QED
    BY <2>1, <2>2, <2>3
<1>2. Elsewhere /\ rows' = rows /\ UNCHANGED <<batch, requests, siblings>> /\ ~On("reresolve") /\ missed'.paths = missed.paths
  BY MemoryBooted, MemoryCommitted DEF CommitFile, Boot, Elsewhere, memory, counts, On
<1>3. \A r \in Repos : Asked(r)' = Asked(r) /\ Taken(r) = {}
  BY <1>2 DEF Asked, Taken
<1>4. \A r \in Repos : Cached(r)'
  BY <1>2, <1>3, CachedKept
<1>5. ASSUME NEW f \in Files
      PROVE  (Leads(f) /\ WillLead(f) /\ Resolved(f))'
  <2>1. Due(f)' = Due(f)
    BY <1>2, DueKept
  <2>2. RepoOf[f] \in Repos
    BY ContentTypes
  <2>3. derived[f].of # 0 => derived[f].target = Due(f) \/ Tries(f) \cap Asked(RepoOf[f]) # {}
    BY <1>3, <2>2 DEF ImportsOK, Leads
  <2>4. derived'[f].of # 0 => derived'[f].target = Due(f) \/ Tries(f) \cap Asked(RepoOf[f]) # {}
    <3>1. CASE Boot
      BY <2>3, <3>1, DerivedBooted
    <3>2. CASE CommitFile
      <4>1. On("commit") /\ (worker.job.file = f => worker.target = Due(f) \/ Tries(f) \cap Asked(RepoOf[f]) # {})
        BY <3>2 DEF CommitFile, ImportsOK, Resolved
      <4>2. CASE Current /\ worker.job.file = f
        <5>1. derived'[f].target = worker.target
          BY <3>2, <4>2, DerivedCommitted
        <5> QED
          BY <4>1, <4>2, <5>1
      <4>3. CASE ~(Current /\ worker.job.file = f)
        <5>1. derived'[f] = derived[f]
          BY <3>2, <4>3, DerivedCommitted
        <5> QED
          BY <2>3, <5>1
      <4> QED
        BY <4>2, <4>3
    <3> QED
      BY <3>1, <3>2
  <2>5. Leads(f)'
    BY <1>3, <2>1, <2>2, <2>4 DEF Leads, Tries
  <2> QED
    BY <1>1, <2>5 DEF WillLead, Resolved, On
<1> QED
  BY <1>4, <1>5 DEF ImportsOK, Leads, WillLead, Resolved, Cached

\* A job without imports commits without a target.
LEMMA ImportsRead ==
  ASSUME RowsOK, MemoryOK, JobOK, MovesOK, ImportsOK, [ExtractionNext]_extractionVars, ReadFile
  PROVE  ImportsOK'
<1>1. /\ Elsewhere /\ derived' = derived /\ UNCHANGED <<batch, requests, siblings, missed>> /\ worker.at = "read"
  BY DEF ReadFile, Elsewhere, store, memory, counts, On
<1>2. /\ worker'.job = worker.job /\ worker'.target = worker.target /\ worker'.at \in {"commit", "resolve", "complete"}
      /\ worker'.at = "commit" => Imports[worker.job.file] = <<>>
  BY WorkerReads DEF MovesOK
<1>3. \A r \in Repos : Asked(r)' = Asked(r) /\ Taken(r) = {} /\ Taken(r)' = {}
  BY <1>1, <1>2 DEF Asked, Taken, On
<1>4. \A r \in Repos : Cached(r)'
  BY <1>1, <1>3, CachedKept
<1>5. ASSUME NEW f \in Files
      PROVE  (Leads(f) /\ WillLead(f) /\ Resolved(f))'
  <2>1. Due(f)' = Due(f)
    BY <1>1, DueKept DEF Elsewhere
  <2>2. RepoOf[f] \in Repos
    BY ContentTypes
  <2>3. Leads(f)'
    BY <1>1, <1>3, <2>1, <2>2 DEF ImportsOK, Leads, Tries
  <2>4. WillLead(f)'
    BY <1>2 DEF WillLead, On
  <2>5. ASSUME worker'.at = "commit", worker'.job.file = f
        PROVE  worker'.target = Due(f)
    <3>1. Imports[f] = <<>>
      BY <1>2, <2>5
    <3>2. Tries(f) = {}
      BY <3>1 DEF Tries
    <3>3. Due(f) = 0
      BY <3>2, DueIs
    <3> QED
      BY <1>1, <1>2, <3>3 DEF JobOK
  <2>6. Resolved(f)'
    BY <2>1, <2>5 DEF Resolved, On
  <2> QED
    BY <2>3, <2>4, <2>6
<1> QED
  BY <1>4, <1>5 DEF ImportsOK, Leads, WillLead, Resolved, Cached

LEMMA ImportsResolved ==
  ASSUME RowsOK, MemoryOK, JobOK, MovesOK, ImportsOK, [ExtractionNext]_extractionVars, ResolveImports
  PROVE  ImportsOK'
<1>1. /\ Elsewhere /\ rows' = rows /\ derived' = derived /\ UNCHANGED <<batch, requests, missed>> /\ worker.at = "resolve"
  BY DEF ResolveImports, Elsewhere, store, counts, On
<1>2. /\ worker'.at = "commit" /\ worker'.job = worker.job
      /\ worker'.target = Due(worker.job.file) \/ Tries(worker.job.file) \cap Asked(RepoOf[worker.job.file]) # {}
      /\ \A r \in Repos : siblings'[r] # NoList =>
              \A p \in Of(r) : Owned(siblings'[r][p], {p}) /\ (siblings'[r][p] = rows[p].id \/ p \in Asked(r))
  BY WorkerResolves DEF MovesOK
<1>3. \A r \in Repos : Asked(r)' = Asked(r) /\ Taken(r) = {} /\ Taken(r)' = {}
  BY <1>1, <1>2 DEF Asked, Taken, On
<1>4. ASSUME NEW r \in Repos
      PROVE  Cached(r)'
  BY <1>1, <1>2, <1>3 DEF Cached, Of, Owned, Elsewhere
<1>5. ASSUME NEW f \in Files
      PROVE  (Leads(f) /\ WillLead(f) /\ Resolved(f))'
  <2>1. Due(f)' = Due(f)
    BY <1>1, DueKept
  <2>2. RepoOf[f] \in Repos
    BY ContentTypes
  <2>3. Leads(f)'
    BY <1>1, <1>3, <2>1, <2>2 DEF ImportsOK, Leads, Tries
  <2>4. WillLead(f)'
    BY <1>2 DEF WillLead, On
  <2>5. worker'.job.file = f => worker'.target = Due(f) \/ Tries(f) \cap Asked(RepoOf[f]) # {}
    BY <1>2
  <2>6. Resolved(f)'
    BY <1>3, <2>1, <2>2, <2>5 DEF Resolved, On, Tries
  <2> QED
    BY <2>3, <2>4, <2>6
<1> QED
  BY <1>4, <1>5 DEF ImportsOK, Leads, WillLead, Resolved, Cached

LEMMA ImportStep ==
  ASSUME RowsOK, DerivedOK, MemoryOK, QueueOK, JobOK, MovesOK, TurnOK, ImportsOK, [ExtractionNext]_extractionVars
  PROVE  ImportsOK'
<1>1. CASE \E g \in Files : WriteContent(g) \/ DeleteFile(g)
  BY <1>1, ImportsStored
<1>2. CASE \E r \in Repos : TakeRequest(r)
  BY <1>2, ImportsTaken
<1>3. CASE Reresolve \/ CommitFile \/ Boot \/ ReadFile \/ ResolveImports
  BY <1>3, ImportsReresolved, ImportsDerived, ImportsRead, ImportsResolved
<1>4. ASSUME ~(\E g \in Files : WriteContent(g) \/ DeleteFile(g)), ~(\E r \in Repos : TakeRequest(r))
      PROVE  Elsewhere /\ \A r \in Repos : Asked(r) \subseteq Asked(r)'
  BY <1>4, Others, AskedKept
<1>5. ASSUME ~(\E g \in Files : WriteContent(g) \/ DeleteFile(g)), ~(\E r \in Repos : TakeRequest(r)),
             derived' = derived, \A r \in Repos : siblings'[r] = siblings[r] \/ siblings'[r] = NoList,
             \/ worker' = worker
             \/ worker'.at \notin {"reresolve", "commit"} /\ \A r \in Repos : Taken(r) \subseteq Asked(r)'
      PROVE  ImportsOK'
  <2>1. worker' = worker => \A r \in Repos : Taken(r)' = Taken(r)
    BY DEF Taken, On
  <2> QED
    BY <1>4, <1>5, <2>1, ImportsKept
<1>6. CASE UNCHANGED extractionVars \/ LeaseOver \/ \E r \in Repos : RequestPaths(r) \/ EnqueueBatch(r) \/ SyncStops(r)
  <2>1. worker' = worker /\ derived' = derived /\ siblings' = siblings
    BY <1>6 DEF extractionVars, LeaseOver, RequestPaths, EnqueueBatch, SyncStops, memory, store
  <2> QED
    BY <1>1, <1>2, <1>5, <2>1
<1>7. CASE Drain \/ NoRequests \/ TurnEnds \/ ClaimJob \/ DrainEnds \/ Complete \/ JobFails \/ \E r \in Repos : Turn(r)
  <2>1. derived' = derived /\ ~On("reresolve")
    BY <1>7 DEF Drain, NoRequests, TurnEnds, ClaimJob, DrainEnds, Complete, JobFails, Turn, On, store
  <2>2. \A r \in Repos : siblings'[r] = siblings[r] \/ siblings'[r] = NoList
    BY <1>7 DEF Drain, NoRequests, TurnEnds, ClaimJob, DrainEnds, Complete, JobFails, Turn, Ends, memory
  <2>3. worker'.at \notin {"reresolve", "commit"}
    <3>1. worker \in WorkerRecord
      BY DEF MovesOK
    <3>2. CASE Drain \/ NoRequests \/ TurnEnds
      <4>1. PICK step \in {"between", "next"} : worker' = To(step)
        BY <3>2 DEF Drain, NoRequests, TurnEnds
      <4>2. step \in WorkerSteps
        BY DEF WorkerSteps
      <4> QED
        BY <3>1, <4>1, <4>2, WorkerGoes
    <3>3. CASE ClaimJob
      <4>1. worker.repo \in Repos
        BY <3>3 DEF ClaimJob, On, InTurn, TurnOK
      <4> QED
        BY <3>1, <3>3, <4>1, WorkerClaims
    <3>4. CASE Complete \/ JobFails
      <4>1. worker' = JobOver
        BY <3>4 DEF Complete, JobFails
      <4> QED
        BY <3>1, <4>1, WorkerOver
    <3>5. CASE DrainEnds
      BY <3>5, WorkerRests
    <3>6. CASE \E r \in Repos : Turn(r)
      BY <3>1, <3>6, WorkerTurns
    <3> QED
      BY <1>7, <3>2, <3>3, <3>4, <3>5, <3>6
  <2>4. \A r \in Repos : Taken(r) = {}
    BY <2>1 DEF Taken
  <2> QED
    BY <1>1, <1>2, <1>5, <2>1, <2>2, <2>3, <2>4
<1>8. CASE ReresolveFails \/ Die
  <2>1. derived' = derived /\ \A r \in Repos : siblings'[r] = NoList
    BY <1>8 DEF ReresolveFails, Die, Ends, store
  <2>2. worker'.at \notin {"reresolve", "commit"}
    BY <1>8, WorkerRests
  <2>3. ASSUME NEW r \in Repos
        PROVE  Taken(r) \subseteq Asked(r)'
    <3>1. CASE Die
      <4>1. worker.paths \subseteq missed'.paths
        BY <3>1, MemoryEnded
      <4> QED
        BY <4>1 DEF Taken, Asked
    <3>2. CASE ReresolveFails
      <4>1. On("reresolve") /\ worker.repo = r => worker.paths \subseteq requests'[r]
        BY <3>2 DEF ReresolveFails, Kept, MemoryOK
      <4> QED
        BY <4>1 DEF Taken, Asked
    <3> QED
      BY <1>8, <3>1, <3>2
  <2> QED
    BY <1>1, <1>2, <1>5, <2>1, <2>2, <2>3
<1> QED
  BY <1>1, <1>2, <1>3, <1>6, <1>7, <1>8 DEF ExtractionNext, Work
-----------------------------------------------------------------------------
(* The invariant *)

LEMMA Initially ==
  ASSUME ExtractionInit
  PROVE  EInv
<1>1. RowsOK
  BY DEF ExtractionInit, RowsOK, NoRow, Row
<1>2. DerivedOK
  BY DEF ExtractionInit, DerivedOK, Nothing
<1>3. MemoryOK
  BY EmptyBatch DEF ExtractionInit, MemoryOK
<1>4. queue = <<>> /\ finished = {} /\ DOMAIN queue = {}
  BY DEF ExtractionInit
<1>5. QueueOK
  BY <1>4 DEF QueueOK
<1>6. worker \in WorkerRecord /\ worker.at = "idle" /\ Rests(worker)
  BY RestingRecord DEF ExtractionInit
<1>7. JobOK
  BY <1>6 DEF Rests, JobOK, Working, JobSteps, RowSteps
<1>8. MovesOK
  BY <1>6 DEF Rests, MovesOK, On
<1>9. TurnOK
  <2>1. served = [r \in Repos |-> {}] /\ waited = [r \in Repos |-> 0]
    BY DEF ExtractionInit
  <2>2. ~InTurn /\ ~Working /\ ~On("claim")
    BY <1>6 DEF InTurn, Working, JobSteps, On
  <2>3. ASSUME NEW r \in Repos
        PROVE  /\ waited[r] + Ahead(r) <= TurnFiles * Cardinality(served[r])
               /\ waited[r] <= TurnFiles * Cardinality(Repos \ {r})
    <3>1. Ahead(r) = 0 /\ waited[r] = 0 /\ served[r] = {}
      BY <2>1, <2>2 DEF Ahead
    <3>2. IsFiniteSet(Repos \ {r})
      BY FilesAssumption, FS_Subset
    <3>3. PICK m \in Nat : m = Cardinality(Repos \ {r})
      BY <3>2, FS_CardinalityType
    <3>4. TurnFiles * m \in Nat /\ TurnFiles * 0 = 0 /\ Cardinality({}) = 0
      BY Limits, Times, FS_EmptySet
    <3> QED
      BY <3>1, <3>3, <3>4
  <2>4. served \in [Repos -> SUBSET Repos] /\ waited \in [Repos -> Nat] /\ \A r, q \in Repos : q \in served[r] => r \notin served[q]
    BY <2>1
  <2>5. \A r \in Repos : ~(waited[r] > 0)
    BY <2>1
  <2> QED
    BY <2>2, <2>3, <2>4, <2>5 DEF TurnOK
<1>10. ContentOK
  <2>1. \A f \in Files : rows[f] = NoRow
    BY DEF ExtractionInit
  <2> QED
    BY <2>1 DEF ContentOK, Promised, Altered, ChangedBack
<1>11. ImportsOK
  <2>1. \A f \in Files : derived[f].of = 0
    BY DEF ExtractionInit, Nothing
  <2>2. \A r \in Repos : siblings[r] = NoList
    BY DEF ExtractionInit
  <2> QED
    BY <1>6, <2>1, <2>2 DEF ImportsOK, Leads, WillLead, Resolved, Cached, On
<1> QED
  BY <1>1, <1>2, <1>3, <1>5, <1>7, <1>8, <1>9, <1>10, <1>11 DEF EInv

LEMMA ExtractionInvariance == ExtractionSpec => []EInv
<1>1. ExtractionInit => EInv
  BY Initially
<1>2. EInv /\ [ExtractionNext]_extractionVars => EInv'
  <2> SUFFICES ASSUME EInv, [ExtractionNext]_extractionVars
               PROVE  EInv'
    OBVIOUS
  <2>1. RowsOK /\ DerivedOK /\ MemoryOK /\ QueueOK /\ JobOK /\ MovesOK /\ TurnOK /\ ContentOK /\ ImportsOK
    BY DEF EInv
  <2>2. RowsOK' /\ DerivedOK' /\ MemoryOK'
    BY <2>1, RowsStep, DerivedStep, MemoryStep
  <2>3. QueueOK' /\ JobOK' /\ MovesOK' /\ TurnOK'
    BY <2>1, QueueStep, JobStep, MovesStep, TurnStep
  <2>4. ContentOK' /\ ImportsOK'
    BY <2>1, ContentStep, ImportStep
  <2> QED
    BY <2>2, <2>3, <2>4 DEF EInv
<1> QED
  BY <1>1, <1>2, PTL DEF ExtractionSpec

LEMMA ShownTypes ==
  ASSUME EInv
  PROVE  ExtractionTypeOK
<1>1. RowsOK /\ DerivedOK /\ QueueOK /\ TurnOK
  BY DEF EInv
<1>2. \A f \in Files : Contents[f] \subseteq AllContents
  BY DEF AllContents
<1>3. rows \in [Files -> [id : 0 .. nextId, content : {0} \cup AllContents]]
  <2>1. ASSUME NEW f \in Files
        PROVE  rows[f] \in [id : 0 .. nextId, content : {0} \cup AllContents]
    <3>1. PICK row \in Row : row = rows[f]
      BY <1>1 DEF RowsOK
    <3>2. row = NoRow \/ (row.id \in 1 .. nextId - 1 /\ row.content \in Contents[f])
      BY <1>1, <3>1 DEF RowsOK
    <3>3. row.id \in 0 .. nextId /\ row.content \in {0} \cup AllContents
      BY <1>1, <1>2, <3>2 DEF RowsOK, NoRow
    <3> QED
      BY <3>1, <3>3 DEF Row
  <2> QED
    BY <1>1, <2>1 DEF RowsOK
<1>4. derived \in [Files -> [of : {0} \cup AllContents, target : 0 .. nextId]]
  <2>1. ASSUME NEW f \in Files
        PROVE  derived[f] \in [of : {0} \cup AllContents, target : 0 .. nextId]
    <3>1. PICK d \in [of : Nat, target : Nat] : d = derived[f]
      BY <1>1 DEF DerivedOK
    <3>2. d.of \in {0} \cup AllContents
      BY <1>1, <1>2, <3>1 DEF DerivedOK
    <3>3. d.target = 0 \/ \E g \in Files : rows[g].id = d.target
      BY <1>1, <3>1, Imported DEF DerivedOK, Of
    <3>4. \A g \in Files : rows[g].id \in 0 .. nextId
      BY <1>1 DEF RowsOK, NoRow
    <3>5. d.target \in 0 .. nextId
      BY <1>1, <3>3, <3>4 DEF RowsOK
    <3> QED
      BY <3>1, <3>2, <3>5
  <2> QED
    BY <1>1, <2>1 DEF DerivedOK
<1>5. \A f \in Files : derived[f].target # 0 => Exists(derived[f].target)
  BY <1>1, Imported DEF DerivedOK, Exists, Of
<1>6. \A i \in DOMAIN queue : queue[i].tries <= MaxAttempts
  BY <1>1 DEF QueueOK, Sane
<1>7. OneTurnAtMost
  <2>1. ASSUME NEW r \in Repos
        PROVE  Cardinality(Repos \ {r}) = Cardinality(Repos) - 1
    BY <2>1, FilesAssumption, FS_RemoveElement
  <2> QED
    BY <1>1, <2>1 DEF TurnOK, OneTurnAtMost
<1> QED
  BY <1>1, <1>3, <1>4, <1>5, <1>6, <1>7 DEF ExtractionTypeOK, QueueOK

LEMMA ShownCurrent ==
  ASSUME EInv
  PROVE  RowsAreCurrent
<1>1. MemoryOK /\ ContentOK /\ ImportsOK
  BY DEF EInv
<1>2. ASSUME Quiet, NEW f \in Files
      PROVE  /\ Derived(f) \/ f \in missed.overtaken
             /\ derived[f].of # 0 /\ Tries(f) \cap missed.paths = {} => derived[f].target = Resolve(ListOf(RepoOf[f]), f)
  <2>1. worker.at = "idle" /\ queue = <<>> /\ batch[RepoOf[f]] = NoBatch /\ requests[RepoOf[f]] = {}
    BY <1>2, ContentTypes DEF Quiet
  <2>2. ~HasJob(f) /\ ~UnderWay(f) /\ ~Pushed(f)
    BY <2>1, EmptyBatch DEF HasJob, UnderWay, Pushed
  <2>3. Derived(f) \/ f \in missed.overtaken
    BY <1>1, <2>2 DEF ContentOK, Promised, Later, Derived
  <2>4. Asked(RepoOf[f]) = missed.paths /\ Taken(RepoOf[f]) = {}
    BY <2>1, EmptyBatch DEF Asked, Taken, On
  <2>5. derived[f].of # 0 => derived[f].target = Due(f) \/ Tries(f) \cap missed.paths # {}
    BY <1>1, <2>4 DEF ImportsOK, Leads
  <2> QED
    BY <2>3, <2>5 DEF Due
<1> QED
  BY <1>2 DEF RowsAreCurrent, DerivedIsCurrent, ImportsAreCurrent

\* What repository_files, their derived rows and the jobs hold: an import leads to a row that exists (the reference of
\* repo_code_import is checked and cleared on delete), no job is queued twice, none is tried more than MAX_JOB_ATTEMPTS
\* times, and a repository whose pushed files wait is passed by at most EXTRACTION_TURN_FILES files of each other one
\* (the order of turns in extraction-queue.ts).
THEOREM ExtractionTypeCorrect == ExtractionSpec => []ExtractionTypeOK
BY ExtractionInvariance, ShownTypes, PTL

\* With nothing left to do, a file's blocks and import are of its content and lead where they should: whatever the
\* worker had cached, whichever pushes, failures and restarts came between. Left out, as the code leaves them out: a
\* file whose job gave up, whose sync stopped before it queued it, or whose content came back under its job; and an
\* import whose request was lost with its process.
THEOREM RowsStayCurrent == ExtractionSpec => []RowsAreCurrent
BY ExtractionInvariance, ShownCurrent, PTL
=============================================================================
