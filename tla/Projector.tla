------------------------------ MODULE Projector ------------------------------
(***************************************************************************)
(* The projector (notes/projector.ts): note rows to their files.  A file   *)
(* is owned by path (projected_files: who wrote it, the hash of what was   *)
(* written); what the projector did not write is copied before it is       *)
(* replaced or removed.  Several processes may run a projector (a server   *)
(* and restore-backup), notes move and are trashed, restored and purged    *)
(* while it works, people edit files, and the machine may lose power.      *)
(* Generated index files and vaults are left out.                          *)
(***************************************************************************)
EXTENDS Integers

CONSTANTS
  Notes,     \* note ids
  Paths,     \* the paths a live note may have
  Workers,   \* processes that run a projector
  Edits,     \* texts people put into files
  MaxChanges, MaxFaults, MaxCrashes  \* bounds: changes of notes, failed statements, power losses

ASSUME BoundsAssumption == MaxChanges \in Nat /\ MaxFaults \in Nat /\ MaxCrashes \in Nat
ASSUME NamesAssumption ==
  /\ Notes \cap Edits = {} /\ {"nothing", "torn", "none", "nobody"} \cap (Notes \cup Edits \cup Paths) = {}
  /\ Paths \cap {<<"trash", n>> : n \in Notes} = {}

VARIABLES
  rows,      \* notes: at, path, seq, text (the seq of its last change of text)
  applied,   \* note_projections.applied_seq of `file`; target_seq is the row's seq
  leased,    \* notes whose projection, or removal once purged, is claimed or backs off
  removals,  \* notes whose store_remove_file job is not done
  files,     \* projected_files: owner and hash per location
  disk,      \* the bytes at each location
  copies,    \* bytes in .conflicts and .orphans
  worker,    \* each process's drain
  up,
  made, lost,     \* ghost: texts people put into files; those they overwrote or a power loss took
  touched,   \* ghost: locations edited since the projector last wrote there
  changes, faults, crashes

store == <<rows, applied, removals, changes>>
people == <<made, lost>>
vars == <<rows, applied, leased, removals, files, disk, copies, worker, up, made, lost, touched, changes, faults, crashes>>

Trash(n) == <<"trash", n>>
Locations == Paths \cup {Trash(n) : n \in Notes}

\* What a file holds: nothing, a rendered text, the same text formatted by hand, something else.
Bytes(of, text, hand) == [of |-> of, text |-> text, hand |-> hand]
Absent == Bytes("nothing", 0, FALSE)
Torn == Bytes("torn", 0, FALSE)
Foreign(e) == Bytes(e, 0, TRUE)
Unrecorded == [owner |-> "nobody", hash |-> Absent]

Home(n) == IF rows[n].at = "trashed" THEN Trash(n) ELSE rows[n].path
Exists(n) == rows[n].at \in {"live", "trashed"}
Live(n, l) == rows[n].at = "live" /\ rows[n].path = l
Pending(n) == Exists(n) /\ applied[n] < rows[n].seq

Idle == [at |-> "idle", claims |-> {}, job |-> FALSE, note |-> "none", loc |-> "none", rel |-> "none", todo |-> {},
         owned |-> FALSE, seq |-> 0, text |-> 0, hash |-> Absent]

Init ==
  /\ rows = [n \in Notes |-> [at |-> "none", path |-> "none", seq |-> 0, text |-> 0]]
  /\ applied = [n \in Notes |-> 0] /\ leased = {} /\ removals = {}
  /\ files = [l \in Locations |-> Unrecorded] /\ disk = [l \in Locations |-> Absent] /\ copies = {}
  /\ worker = [w \in Workers |-> Idle] /\ up = TRUE
  /\ made = {} /\ lost = {} /\ touched = {}
  /\ changes = 0 /\ faults = 0 /\ crashes = 0
-----------------------------------------------------------------------------
(* The store: each write is one transaction that raises the projection's target *)

Change(n, at, path, newText) ==
  LET seq == rows[n].seq + 1 IN
  /\ up /\ changes < MaxChanges /\ changes' = changes + 1
  /\ rows' = [rows EXCEPT ![n] = [at |-> at, path |-> path, seq |-> seq, text |-> IF newText THEN seq ELSE @.text]]
  /\ UNCHANGED <<applied, files, disk, copies, worker, up, people, touched, faults, crashes>>

\* Mutant: the unique index on live paths is missing.
AnyPath(path) == TRUE
Free(path) == \A m \in Notes : ~Live(m, path)

\* A move and a trash first take over what editors typed (catchUp), so the text may change with them.
Create(n, p) == rows[n].at = "none" /\ Free(p) /\ Change(n, "live", p, TRUE) /\ UNCHANGED <<removals, leased>>
Write(n) == rows[n].at = "live" /\ Change(n, "live", rows[n].path, TRUE) /\ UNCHANGED <<removals, leased>>
Move(n, p) ==
  rows[n].at = "live" /\ Free(p) /\ (\E typed \in BOOLEAN : Change(n, "live", p, typed)) /\ UNCHANGED <<removals, leased>>
SoftDelete(n) ==
  /\ rows[n].at = "live" /\ \E typed \in BOOLEAN : Change(n, "trashed", rows[n].path, typed)
  /\ UNCHANGED <<removals, leased>>
Restore(n) ==
  /\ rows[n].at = "trashed" /\ Free(rows[n].path) /\ Change(n, "live", rows[n].path, FALSE)
  /\ UNCHANGED <<removals, leased>>
Purge(n) ==
  /\ rows[n].at = "trashed" /\ Change(n, "purged", rows[n].path, FALSE)
  /\ removals' = removals \cup {n} /\ leased' = leased \ {n}
-----------------------------------------------------------------------------
(* The drain of one process *)

Step(w, change) == worker' = [worker EXCEPT ![w] = change]

\* withPathLock
LockFree(l) == \A v \in Workers : ~(worker[v].at \in {"check", "removed", "writing", "written"} /\ worker[v].loc = l)

\* claimProjections
Claim(w) ==
  /\ up /\ worker[w].at = "idle"
  /\ LET claims == {n \in Notes : Pending(n) /\ n \notin leased} IN
     Step(w, [worker[w] EXCEPT !.at = "next", !.claims = claims]) /\ leased' = leased \cup claims
  /\ UNCHANGED <<store, files, disk, copies, up, people, touched, faults, crashes>>

\* projectFile, before any lock: where the note is, and what else it owns.
ReadNote(w, n) ==
  /\ worker[w].at = "next" /\ n \in worker[w].claims
  /\ IF Exists(n)
     THEN Step(w, [worker[w] EXCEPT !.at = "seen", !.claims = @ \ {n}, !.job = FALSE, !.note = n, !.rel = Home(n),
                                    !.todo = {l \in Locations : files[l].owner = n} \ {Home(n)}])
     ELSE Step(w, [worker[w] EXCEPT !.claims = @ \ {n}])
  /\ UNCHANGED <<store, leased, files, disk, copies, up, people, touched, faults, crashes>>

\* runStoreJobs, after the claimed projections: a removal, or the end of the round.
ClaimRemoval(w, n) ==
  /\ worker[w].at = "next" /\ worker[w].claims = {} /\ n \in removals \ leased
  /\ Step(w, [worker[w] EXCEPT !.at = "seen", !.job = TRUE, !.note = n,
                               !.todo = {l \in Locations : files[l].owner = n} \cup {Trash(n)}])
  /\ leased' = leased \cup {n}
  /\ UNCHANGED <<store, files, disk, copies, up, people, touched, faults, crashes>>

RoundEnds(w) ==
  /\ worker[w].at = "next" /\ worker[w].claims = {} /\ removals \subseteq leased
  /\ Step(w, Idle)
  /\ UNCHANGED <<store, leased, files, disk, copies, up, people, touched, faults, crashes>>

\* pathHasLiveOwner
LiveOwner(l, n) ==
  \/ \E m \in Notes \ {n} : Live(m, l)
  \/ \E m \in Notes : l = Trash(m) /\ rows[m].at = "trashed"

\* releaseOwned, removeFiles: the path's lock is taken, its owner among the rows is read.
Check(w, l) ==
  /\ worker[w].at = "seen" /\ l \in worker[w].todo /\ LockFree(l)
  /\ Step(w, [worker[w] EXCEPT !.at = "check", !.loc = l, !.todo = @ \ {l}, !.owned = LiveOwner(l, worker[w].note)])
  /\ UNCHANGED <<store, leased, files, disk, copies, up, people, touched, faults, crashes>>

\* Mutant: the bytes on disk are taken for the projector's own.
AnyBytes(l) == TRUE
OwnBytes(l) == files[l] # Unrecorded /\ disk[l] = files[l].hash

\* Only what the note owns, and nobody else now, is removed; a purged note's trash file also without a record.
Removes(w) ==
  LET l == worker[w].loc IN
  /\ ~worker[w].owned
  /\ files[l].owner = worker[w].note \/ (worker[w].job /\ files[l] = Unrecorded /\ l = Trash(worker[w].note))

Remove(w) ==
  LET l == worker[w].loc IN
  /\ worker[w].at = "check"
  /\ IF Removes(w)
     THEN /\ disk' = [disk EXCEPT ![l] = Absent]
          /\ copies' = IF disk[l] = Absent \/ OwnBytes(l) \/ files[l] = Unrecorded THEN copies ELSE copies \cup {disk[l]}
          /\ Step(w, [worker[w] EXCEPT !.at = "removed"])
     ELSE Step(w, [worker[w] EXCEPT !.at = "seen"]) /\ UNCHANGED <<disk, copies>>
  /\ UNCHANGED <<store, leased, files, up, people, touched, faults, crashes>>

\* The transaction of the release commits.
Unrecord(w) ==
  /\ worker[w].at = "removed"
  /\ files' = [files EXCEPT ![worker[w].loc] = Unrecorded]
  /\ Step(w, [worker[w] EXCEPT !.at = "seen"])
  /\ UNCHANGED <<store, leased, disk, copies, up, people, touched, faults, crashes>>

\* removeFiles is done: completeJob.
RemovalDone(w) ==
  /\ worker[w].at = "seen" /\ worker[w].job /\ worker[w].todo = {}
  /\ removals' = removals \ {worker[w].note} /\ leased' = leased \ {worker[w].note}
  /\ Step(w, [worker[w] EXCEPT !.at = "next"])
  /\ UNCHANGED <<rows, applied, changes, files, disk, copies, up, people, touched, faults, crashes>>

\* A purged note's projection row is gone: nothing of its removal's lease changes.
Released(n) == IF Exists(n) THEN leased \ {n} ELSE leased

\* Mutant: where the note was when it was first read is not asked again.
NeverMoves(n, rel) == FALSE
HasMoved(n, rel) == Home(n) # rel

\* projectFile, under the lock of the note's path: the note is read again.
Reread(w) ==
  LET n == worker[w].note  rel == worker[w].rel IN
  /\ worker[w].at = "seen" /\ ~worker[w].job /\ worker[w].todo = {} /\ LockFree(rel)
  /\ IF ~Exists(n) \/ HasMoved(n, rel)
     THEN Step(w, [worker[w] EXCEPT !.at = "next"]) /\ leased' = Released(n)
     ELSE /\ Step(w, [worker[w] EXCEPT !.at = "writing", !.loc = rel, !.seq = rows[n].seq, !.text = rows[n].text])
          /\ UNCHANGED leased
  /\ UNCHANGED <<store, files, disk, copies, up, people, touched, faults, crashes>>

\* writeOwned: a file with the note's text keeps its bytes; what the projector did not write is copied first.
WriteFile(w) ==
  LET n == worker[w].note  l == worker[w].loc
      sameText == disk[l].of = n /\ disk[l].text = worker[w].text
      bytes == IF sameText THEN disk[l] ELSE Bytes(n, worker[w].text, FALSE) IN
  /\ worker[w].at = "writing"
  /\ copies' = IF sameText \/ disk[l] = Absent \/ OwnBytes(l) THEN copies ELSE copies \cup {disk[l]}
  /\ disk' = [disk EXCEPT ![l] = bytes]
  /\ touched' = touched \ {l}
  /\ Step(w, [worker[w] EXCEPT !.at = "written", !.hash = bytes])
  /\ UNCHANGED <<store, leased, files, up, people, faults, crashes>>

Larger(a, b) == IF a > b THEN a ELSE b

\* recordProjected and markApplied commit together, after the rename.
Record(w) ==
  LET n == worker[w].note IN
  /\ worker[w].at = "written"
  /\ files' = [files EXCEPT ![worker[w].loc] = [owner |-> n, hash |-> worker[w].hash]]
  /\ applied' = IF Exists(n) THEN [applied EXCEPT ![n] = Larger(@, worker[w].seq)] ELSE applied
  /\ leased' = Released(n)
  /\ Step(w, [worker[w] EXCEPT !.at = "next"])
  /\ UNCHANGED <<rows, removals, changes, disk, copies, up, people, touched, faults, crashes>>

\* failProjection, failJob: a statement fails, or another process holds the path's lock; what was claimed backs off.
Fail(w) ==
  LET waits == IF worker[w].todo = {} THEN {worker[w].rel} ELSE worker[w].todo IN
  /\ worker[w].at \notin {"idle", "next"}
  /\ IF worker[w].at = "seen" /\ \A l \in waits : ~LockFree(l) THEN UNCHANGED faults
     ELSE faults < MaxFaults /\ faults' = faults + 1
  /\ Step(w, [worker[w] EXCEPT !.at = "next", !.todo = {}])
  /\ leased' = IF worker[w].job \/ Exists(worker[w].note) THEN leased \cup {worker[w].note} ELSE leased
  /\ UNCHANGED <<store, files, disk, copies, up, people, touched, crashes>>

\* A lease or a backoff runs out, also under running work.
LeaseEnds(n) ==
  /\ n \in leased /\ leased' = leased \ {n}
  /\ UNCHANGED <<store, files, disk, copies, worker, up, people, touched, faults, crashes>>
-----------------------------------------------------------------------------
(* The machine and the people *)

Texts(bytes) == {e \in made : bytes = Foreign(e)}

\* The machine stops; nothing was synced, so the last file written, or copied, may come back cut short.
PowerLoss ==
  /\ up /\ crashes < MaxCrashes /\ crashes' = crashes + 1
  /\ up' = FALSE /\ worker' = [w \in Workers |-> Idle]
  /\ \/ UNCHANGED <<disk, copies, lost>>
     \/ \E l \in Locations : /\ disk[l] # Absent /\ disk' = [disk EXCEPT ![l] = Torn]
                            /\ lost' = lost \cup Texts(disk[l]) /\ UNCHANGED copies
     \/ \E c \in copies : copies' = copies \ {c} /\ lost' = lost \cup Texts(c) /\ UNCHANGED disk
  /\ UNCHANGED <<store, leased, files, made, touched, faults>>

\* bootStore after an unclean shutdown: leases are cleared, every projection is verified.
Boot ==
  /\ ~up /\ up' = TRUE
  /\ leased' = {} /\ applied' = [n \in Notes |-> 0]
  /\ UNCHANGED <<rows, removals, changes, files, disk, copies, worker, people, touched, faults, crashes>>

\* sweepOrphanFiles decides each file under its path's lock.
Sweep(l) ==
  /\ up /\ LockFree(l) /\ disk[l] # Absent /\ files[l] = Unrecorded /\ Free(l)
  /\ disk' = [disk EXCEPT ![l] = Absent] /\ copies' = copies \cup {disk[l]}
  /\ UNCHANGED <<store, leased, files, worker, up, people, touched, faults, crashes>>

EditFile(l, e) ==
  /\ e \notin made /\ made' = made \cup {e}
  /\ disk' = [disk EXCEPT ![l] = Foreign(e)]
  /\ lost' = lost \cup Texts(disk[l])
  /\ touched' = touched \cup {l}
  /\ UNCHANGED <<store, leased, files, copies, worker, up, faults, crashes>>

\* The same text, other formatting.
Reformat(l) ==
  /\ disk[l].of \in Notes /\ ~disk[l].hand
  /\ disk' = [disk EXCEPT ![l].hand = TRUE]
  /\ UNCHANGED <<store, leased, files, copies, worker, up, people, touched, faults, crashes>>
-----------------------------------------------------------------------------
Drain(w) ==
  \/ Claim(w) \/ (\E n \in Notes : ReadNote(w, n) \/ ClaimRemoval(w, n)) \/ RoundEnds(w)
  \/ (\E l \in Locations : Check(w, l)) \/ Remove(w) \/ Unrecord(w) \/ RemovalDone(w)
  \/ Reread(w) \/ WriteFile(w) \/ Record(w)

Next ==
  \/ \E n \in Notes, p \in Paths : Create(n, p) \/ Move(n, p)
  \/ \E n \in Notes : Write(n) \/ SoftDelete(n) \/ Restore(n) \/ Purge(n) \/ LeaseEnds(n)
  \/ \E w \in Workers : Drain(w) \/ Fail(w)
  \/ PowerLoss \/ Boot
  \/ \E l \in Paths : Sweep(l) \/ Reformat(l) \/ \E e \in Edits : EditFile(l, e)

Spec == Init /\ [][Next]_vars
-----------------------------------------------------------------------------
(* Properties *)

NoteBytes == [of : Notes, text : 1 .. MaxChanges, hand : BOOLEAN]

\* The types; one live note per path; no projection is ahead of its note.
TypeOK ==
  /\ \A n \in Notes : /\ rows[n].at \in {"none", "live", "trashed", "purged"} /\ rows[n].path \in Paths \cup {"none"}
                      /\ applied[n] <= rows[n].seq /\ rows[n].text <= rows[n].seq
  /\ \A l \in Locations : files[l] = Unrecorded \/ (files[l].owner \in Notes /\ files[l].hash \in NoteBytes)
  /\ \A l \in Locations : disk[l] \in NoteBytes \cup {Absent, Torn} \cup {Foreign(e) : e \in Edits}
  /\ leased \subseteq Notes /\ removals \subseteq Notes
  /\ \A p \in Paths, m, n \in Notes : Live(m, p) /\ Live(n, p) => m = n

\* A note whose projection counts as applied has its text in its file, whichever notes were at the path before and
\* wherever the machine stopped; only people make it differ (implementation.md says so of two processes, too).
Mirror ==
  up => \A n \in Notes :
    Exists(n) /\ ~Pending(n) /\ Home(n) \notin touched => disk[Home(n)].of = n /\ disk[Home(n)].text = rows[n].text

\* writeOwned, releaseOwned, the sweep: what people put into a note's file stays or is copied to .conflicts or .orphans.
EditsKept ==
  \A e \in made \ lost : Foreign(e) \in copies \/ \E l \in Locations : disk[l] = Foreign(e)

\* removeFiles "releases every file a purged note owned": once it is done and nothing is pending, none is left.
PurgedIsGone ==
  \A n \in Notes :
    /\ rows[n].at = "purged" /\ n \notin removals
    /\ \A w \in Workers : worker[w].at = "idle"
    /\ \A m \in Notes : ~Pending(m)
    => \A l \in Locations : disk[l].of # n
=============================================================================
