------------------------------ MODULE NoteCrdt ------------------------------
(***************************************************************************)
(* One note's collaborative text: the CRDT log in Postgres (sync/          *)
(* note-crdt.ts), the row it is folded into (notes/store.ts) and the       *)
(* relay's open document (sync/collab-server.ts).                          *)
(*                                                                         *)
(* A text is the set of edits it shows; a Yjs update is a set of edits and *)
(* applying it is union.  A log row (`note_updates`) carries an update.    *)
(* The stored document is the snapshot with every non-rejected row past    *)
(* `snapshotThrough`.  Editors' updates are logged without the note's lock *)
(* (only the append gate, from the id to the COMMIT); everything else runs *)
(* in one store transaction at a time, which reads the log once and works  *)
(* on that copy while more updates are logged.                             *)
(***************************************************************************)
EXTENDS Integers, FiniteSets, FiniteSetsExt

CONSTANTS
  Typing,      \* edits typed in editors, each sent as one update
  Writes,      \* edits of server writes (agents, REST)
  Outside,     \* edits made to the row behind the store (manual SQL, an older release), each made once
  Overlaps,    \* pairs <<o, u>>: the edit behind the store and u change the same place of the text
  Broken,      \* typed updates that decode but do not apply to a document
  Bad, Cures,  \* a text with a Bad edit and no Cure is one the store refuses
  MaxCrashes,  \* bound: crashes of the server process
  MaxAborts,   \* bound: rolled back transactions, failed appends, tabs closed with an update in flight
  MaxPurges,   \* bound: purge_revision calls
  MaxFaults    \* bound: all of these together

ASSUME EditsAssumption ==
  /\ Typing \cap Writes = {} /\ Typing \cap Outside = {} /\ Writes \cap Outside = {}
  /\ Overlaps \subseteq Outside \X (Typing \cup Writes)
  /\ Broken \subseteq Typing
  /\ (Bad \cup Cures) \subseteq (Typing \cup Writes)
  /\ Bad \cap Cures = {}

ASSUME BoundsAssumption == MaxCrashes \in Nat /\ MaxAborts \in Nat /\ MaxPurges \in Nat /\ MaxFaults \in Nat

Edits == Typing \cup Writes \cup Outside
NoCache == -1

VARIABLES
  db,            \* committed `notes` row and `note_crdt` row
  log,           \* committed `note_updates` rows
  nextId,        \* the sequence of `note_updates.id`
  loaded, live,  \* the relay's document: is it open, what it holds
  cached,        \* last id of the open document's cached stored state (storedStates)
  dirty,         \* a debounced store of the document is due
  refusedStore,  \* a store was refused: its typing is still to be kept
  unloaded,      \* a document was unloaded: its compaction is still to run
  msg,           \* each typed edit's message in the relay
  orphans,       \* appends still queued whose document was unloaded
  acked,         \* edits whose author was told they are saved
  tx,            \* the store transaction holding the note's lock
  up,            \* FALSE from a crash until the boot fold is done
  crashes, aborts, purges,
  staleRead      \* ghost: a transaction took a clone older than the cached state it was checked against

vars == <<db, log, nextId, loaded, live, cached, dirty, refusedStore, unloaded,
          msg, orphans, acked, tx, up, crashes, aborts, purges, staleRead>>
relayVars == <<loaded, live, cached, dirty, refusedStore, unloaded>>

-----------------------------------------------------------------------------
(* The log *)

Row(i, e) == [id |-> i, edits |-> e, rejected |-> FALSE]
Applies(r) == r.edits \cap Broken = {}
Refused(text) == text \cap Bad # {} /\ text \cap Cures = {}

\* The non-rejected rows past the snapshot, those of them that apply, and the document they make.
Tail == {r \in log : ~r.rejected /\ r.id > db.snapshotThrough}
\* Mutant: reading the tail stops at the first row that does not apply.
ReadableUpToBroken == {r \in Tail : \A s \in Tail : s.id <= r.id => Applies(s)}
Readable == {r \in Tail : Applies(r)}
Materialised == db.snapshot \cup UNION {r.edits : r \in Readable}

\* Mutant: an empty tail has no last id (instead of the snapshot's).
LastOfTailOnly(rows) == IF rows = {} THEN NoCache ELSE Max({r.id : r \in rows})
LastOf(rows) == Max({db.snapshotThrough} \cup {r.id : r \in rows})

\* Mutant: boot looks at the row only, not at the log's tail.
NeedsFoldBySeqOnly == db.seq > db.foldedSeq
\* notesNeedingFold, foldPending.
NeedsFold ==
  \/ db.seq > db.foldedSeq
  \/ \E r \in log : ~r.rejected /\ r.id > db.foldedThrough

\* The gate is held from a relay append's id to its COMMIT.
GateFree == \A u \in Typing : msg[u].at # "drawn"

Idle == [at |-> "idle", id |-> 0, previous |-> 0]

\* Mutant: the row at the boundary is left behind.
CompactedBelow(rows, rejects, through) ==
  {[r EXCEPT !.rejected = @ \/ r.id \in rejects] :
     r \in {s \in rows : s.rejected \/ s.id \in rejects \/ s.id >= through}}
\* note_updates after a transaction that rejected `rejects` and compacted through `through`.
Compacted(rows, rejects, through) ==
  {[r EXCEPT !.rejected = @ \/ r.id \in rejects] :
     r \in {s \in rows : s.rejected \/ s.id \in rejects \/ s.id > through}}
-----------------------------------------------------------------------------
(* Folding: what one transaction does to the rows, given the document it read *)

\* Mutant: folded_through takes in the transaction's own rows, and so the relay's rows below them.
MarkPastOwnRows(d, last, refused, rejects) ==
  [d EXCEPT !.foldedThrough = IF refused THEN @ ELSE nextId,
            !.foldedSeq = d.seq,
            !.base = d.row,
            !.foldError = IF refused THEN "refused"
                          ELSE IF rejects # {} THEN "rejected" ELSE "none"]
\* markFolded: the document agrees with the row, unless it was refused.
Mark(d, last, refused, rejects) ==
  [d EXCEPT !.foldedThrough = IF refused THEN @ ELSE last,
            !.foldedSeq = d.seq,
            !.base = d.row,
            !.foldError = IF refused THEN "refused"
                          ELSE IF rejects # {} THEN "rejected" ELSE "none"]

\* applyRowChange: a new seq, with its revision, only for a new text.
SetRow(d, text) ==
  IF text = d.row THEN d
  ELSE [d EXCEPT !.row = text, !.seq = @ + 1, !.revised = @ \cup {d.seq + 1}]

\* Mutant: a fold that does not ask whether the store would refuse the text.
FoldUnchecked(d, doc, last, rejects) == Mark(SetRow(d, doc), last, FALSE, rejects)
\* foldCrdt.
Fold(d, doc, last, rejects) ==
  IF doc # d.row /\ Refused(doc)
  THEN Mark(d, last, TRUE, rejects)
  ELSE Mark(SetRow(d, doc), last, FALSE, rejects)

\* rebaseLocked: what the row gained behind the store is merged into the document.
Behind(d) == d.seq > d.foldedSeq
\* The base of the merge is the revision at folded_seq, which a note from before the store may lack.
HasBase(d) == d.foldedSeq \in d.revised
\* Mutant: the fold runs without the rebase.
NothingGained(d, doc) == {}
\* The document's text stays where both sides changed one place, and all of it where the base is missing.
Gained(d, doc) ==
  IF Behind(d) /\ HasBase(d)
  THEN {e \in d.row \ d.base : \A u \in doc \ d.base : <<e, u>> \notin Overlaps}
  ELSE {}
\* The row is first kept as a revision at its seq (revisionAtSeq).
Rebased(d, doc) ==
  [d EXCEPT !.revised = @ \cup {d.seq},
            !.unmerged = IF HasBase(d) THEN @ ELSE @ \cup (d.row \ doc)]

\* compactNoteCrdt.
Compact(d, doc, last) == [d EXCEPT !.snapshot = doc, !.snapshotThrough = last]

\* Mutant: the write's own update is pushed but never logged.
AppendedTypingOnly(first, e1, e2, e3) ==
  {r \in {Row(first, e1), Row(first + 1, e2)} : r.edits # {}}
\* The updates a transaction appends (appendUpdate stores none that is empty).
Appended(first, e1, e2, e3) ==
  {r \in {Row(first, e1), Row(first + 1, e2), Row(first + 2, e3)} : r.edits # {}}

NewNote == [row |-> {}, seq |-> 1, snapshot |-> {}, snapshotThrough |-> 0,
            foldedThrough |-> 0, foldedSeq |-> 1, base |-> {}, foldError |-> "none",
            revised |-> {}, made |-> {}, unmerged |-> {}]
NoTx == [kind |-> "none", phase |-> "idle", edit |-> {}, open |-> FALSE, base |-> {}, seen |-> 0,
         doc |-> {}, last |-> 0, rejects |-> {}, next |-> NewNote, rows |-> {}, through |-> 0,
         push |-> {}, again |-> FALSE]

Init ==
  /\ \E revised \in {{}, {1}} : db = [NewNote EXCEPT !.revised = revised]
  /\ log = {} /\ nextId = 1
  /\ loaded = "no" /\ live = {} /\ cached = NoCache
  /\ dirty = FALSE /\ refusedStore = FALSE /\ unloaded = FALSE
  /\ msg = [u \in Typing |-> Idle] /\ orphans = {}
  /\ acked = {} /\ tx = NoTx /\ up = TRUE
  /\ crashes = 0 /\ aborts = 0 /\ purges = 0 /\ staleRead = FALSE

Fault == crashes + aborts + purges < MaxFaults
Aborting == Fault /\ aborts < MaxAborts /\ aborts' = aborts + 1
-----------------------------------------------------------------------------
(* The relay: append before ack *)

\* An editor sends `u`; what the document already holds is acked without a new row (updateToLog).
Send(u) ==
  /\ up /\ loaded = "yes" /\ msg[u].at = "idle" /\ u \notin acked
  /\ u \in Broken => \A r \in log : u \notin r.edits
  /\ IF u \in live
     THEN acked' = acked \cup {u} /\ UNCHANGED msg
     ELSE msg' = [msg EXCEPT ![u].at = "queued"] /\ UNCHANGED acked
  /\ UNCHANGED <<db, log, nextId, relayVars, orphans, tx, up, crashes, aborts, purges, staleRead>>

\* commitAppends draws the row's id; the gate is held from here to the COMMIT.
LogDraw(u) ==
  /\ msg[u].at = "queued" /\ GateFree
  /\ msg' = [msg EXCEPT ![u] = [at |-> "drawn", id |-> nextId,
                                previous |-> LastOf({r \in log : ~r.rejected})]]
  /\ nextId' = nextId + 1
  /\ UNCHANGED <<db, log, relayVars, orphans, acked, tx, up, crashes, aborts, purges, staleRead>>

LogCommit(u) ==
  /\ msg[u].at = "drawn"
  /\ log' = log \cup {Row(msg[u].id, {u})}
  /\ msg' = [msg EXCEPT ![u].at = "logged"]
  /\ UNCHANGED <<db, nextId, relayVars, orphans, acked, tx, up, crashes, aborts, purges, staleRead>>

\* The statement failed: nothing is stored, the socket is closed unacked.
AppendFails(u) ==
  /\ msg[u].at \in {"queued", "drawn"} /\ Aborting
  /\ msg' = [msg EXCEPT ![u] = Idle]
  /\ UNCHANGED <<db, log, nextId, relayVars, orphans, acked, tx, up, crashes, purges, staleRead>>

\* An append whose document is gone: logged, but never applied nor acked.
LogOrphan(u) ==
  /\ u \in orphans /\ GateFree
  /\ log' = log \cup {Row(nextId, {u})}
  /\ nextId' = nextId + 1
  /\ orphans' = orphans \ {u}
  /\ UNCHANGED <<db, relayVars, msg, acked, tx, up, crashes, aborts, purges, staleRead>>

\* Hocuspocus applies the logged update and acks it; the cached state advances if it was at the row before.
Apply(u) ==
  /\ msg[u].at = "logged" /\ u \notin Broken
  /\ live' = live \cup {u}
  /\ acked' = acked \cup {u}
  /\ dirty' = TRUE
  /\ cached' = IF cached = msg[u].previous THEN msg[u].id ELSE cached
  /\ msg' = [msg EXCEPT ![u] = Idle]
  /\ UNCHANGED <<db, log, nextId, loaded, refusedStore, unloaded, orphans, tx, up, crashes, aborts, purges, staleRead>>

\* The live document did not take it: the row is rejected, the editor is not acked (afterHandleMessage).
Reject(u) ==
  /\ msg[u].at = "logged" /\ u \in Broken
  /\ log' = {[r EXCEPT !.rejected = @ \/ r.id = msg[u].id] : r \in log}
  /\ msg' = [msg EXCEPT ![u] = Idle]
  /\ UNCHANGED <<db, nextId, relayVars, orphans, acked, tx, up, crashes, aborts, purges, staleRead>>

\* The last tab closed and its store is done.  Messages still being handled lose their document.
Unload ==
  LET inFlight == {u \in Typing : msg[u].at # "idle"} IN
  /\ up /\ loaded = "yes" /\ ~dirty /\ ~refusedStore /\ tx.kind \notin {"store", "keep"}
  /\ IF inFlight = {} THEN UNCHANGED aborts ELSE Aborting
  /\ \A u \in inFlight : msg[u].at # "drawn"
  /\ msg' = [u \in Typing |-> Idle]
  /\ orphans' = orphans \cup {u \in Typing : msg[u].at = "queued"}
  /\ loaded' = "no" /\ live' = {} /\ unloaded' = TRUE
  /\ UNCHANGED <<db, log, nextId, cached, dirty, refusedStore, acked, tx, up, crashes, purges, staleRead>>
-----------------------------------------------------------------------------
(* Store transactions *)

\* The lock is taken and the open document cloned (foldSource) before the transaction reads anything.
Started(kind, edit, open, doc) ==
  [NoTx EXCEPT !.kind = kind, !.phase = "begun", !.edit = edit,
               !.open = open, !.base = IF open THEN doc ELSE {}, !.seen = db.seq]

Start(kind, edit) ==
  /\ tx.phase = "idle"
  /\ tx' = Started(kind, edit, loaded = "yes" /\ kind \in {"store", "keep", "write", "read"}, live)
  /\ UNCHANGED <<db, log, nextId, loaded, live, cached, msg, orphans, acked, up, crashes, aborts, purges, staleRead>>

StartStore  == up /\ loaded = "yes" /\ dirty /\ dirty' = FALSE
               /\ Start("store", {}) /\ UNCHANGED <<refusedStore, unloaded>>
StartKeep   == up /\ refusedStore /\ refusedStore' = FALSE
               /\ Start("keep", {}) /\ UNCHANGED <<dirty, unloaded>>
StartUnload == up /\ unloaded /\ unloaded' = FALSE
               /\ Start("unload", {}) /\ UNCHANGED <<dirty, refusedStore>>
StartWrite(w) == up /\ w \notin acked \cup Materialised
                 /\ Start("write", {w}) /\ UNCHANGED <<dirty, refusedStore, unloaded>>
StartRead   == up /\ (loaded = "yes" \/ NeedsFold)
               /\ Start("read", {}) /\ UNCHANGED <<dirty, refusedStore, unloaded>>
StartLoad   == up /\ loaded = "no"
               /\ Start("load", {}) /\ UNCHANGED <<dirty, refusedStore, unloaded>>
StartBoot   == ~up /\ NeedsFold
               /\ Start("boot", {}) /\ UNCHANGED <<dirty, refusedStore, unloaded>>

Writing == tx.kind \in {"store", "write"}

\* writeNote: another process changed the row meanwhile; compute again from a new clone.
Moved ==
  /\ tx.phase = "begun" /\ Writing /\ db.seq # tx.seen
  /\ tx' = Started(tx.kind, tx.edit, loaded = "yes", live)
  /\ UNCHANGED <<db, log, nextId, relayVars, msg, orphans, acked, up, crashes, aborts, purges, staleRead>>

\* readNoteCrdt: the clone when the cached stored state matches the database, else snapshot and tail.
ReadTail ==
  LET hit == /\ Writing /\ tx.open
             /\ cached = LastOf(Tail) /\ db.foldError = "none" /\ db.foldedSeq = db.seq
  IN
  /\ tx.phase = "begun" /\ GateFree
  /\ Writing => db.seq = tx.seen
  /\ tx' = [tx EXCEPT !.phase = "read",
                      !.doc = IF hit THEN tx.base ELSE Materialised,
                      !.last = IF hit THEN cached ELSE LastOf(Readable),
                      !.rejects = IF hit THEN {} ELSE {r.id : r \in Tail \ Readable}]
  /\ cached' = IF Writing /\ tx.open /\ ~hit THEN NoCache ELSE cached
  /\ staleRead' = (staleRead \/ (hit /\ ~(Materialised \subseteq tx.base)))
  /\ UNCHANGED <<db, log, nextId, loaded, live, dirty, refusedStore, unloaded, msg, orphans, acked, up, crashes, aborts, purges>>

\* The transaction's writes, not yet committed: the rows `d`, the appended updates, maybe a compaction.
Computed(d, doc, rows, push, compactions, again) ==
  /\ tx.phase = "read"
  /\ \E compact \in compactions :
       tx' = [tx EXCEPT !.phase = "computed", !.doc = doc, !.rows = rows, !.push = push, !.again = again,
                        !.next = IF compact THEN Compact(d, doc, tx.last) ELSE d,
                        !.through = IF compact THEN tx.last ELSE 0]
  /\ nextId' = IF rows = {} THEN nextId ELSE nextId + 3
  /\ UNCHANGED <<db, log, relayVars, msg, orphans, acked, up, crashes, aborts, purges, staleRead>>

HasTail(rows) == tx.last > db.snapshotThrough \/ rows # {}
MayCompact(rows) == IF HasTail(rows) THEN BOOLEAN ELSE {FALSE}
MustCompact(rows) == {HasTail(rows)}

\* catchUp with storeRow: rebase, the open document's typing, the fold.
ComputeFold ==
  LET gained == Gained(db, tx.doc) \ tx.doc
      first  == tx.doc \cup gained
      typing == tx.base \ first
      doc    == first \cup typing
      d      == IF Behind(db) THEN Fold(Rebased(db, tx.doc), first, tx.last, tx.rejects) ELSE db
      rows   == Appended(nextId, gained, typing, {})
  IN
  /\ tx.kind \in {"read", "load", "unload", "boot"}
  /\ Computed(Fold(d, doc, tx.last, tx.rejects), doc, rows, gained,
              IF tx.kind = "unload" THEN MustCompact(rows) ELSE MayCompact(rows), FALSE)

\* writeNote on a row changed behind the store: the rebase is committed, then the write computed again.
ComputeRebase ==
  LET gained == Gained(db, tx.doc) \ tx.doc
      doc    == tx.doc \cup gained
      rows   == Appended(nextId, gained, {}, {})
  IN
  /\ Writing /\ Behind(db)
  /\ Computed(Fold(Rebased(db, tx.doc), doc, tx.last, tx.rejects), doc, rows, gained, MayCompact(rows), TRUE)

\* A server write: on the folded text, or (the fold refused) keeping the stored text, or curing the refused one.
ComputeWrite ==
  LET typing == tx.base \ tx.doc
      text   == tx.doc \cup typing
      folded == Fold(db, text, tx.last, tx.rejects)
      rows   == Appended(nextId, {}, typing, tx.edit)
  IN
  /\ tx.kind = "write" /\ ~Behind(db)
  /\ \E current \in {folded.row, text} :
       /\ ~Refused(current \cup tx.edit)
       /\ Computed(Mark(SetRow(folded, current \cup tx.edit), tx.last, current # text, tx.rejects),
                   text \cup tx.edit, rows, tx.edit, MayCompact(rows), FALSE)

\* The relay's store of its document.
ComputeStore ==
  LET typing == tx.base \ tx.doc
      text   == tx.doc \cup typing
      rows   == Appended(nextId, {}, typing, {})
  IN
  /\ tx.kind = "store" /\ ~Behind(db) /\ ~Refused(text)
  /\ Computed(Mark(SetRow(db, text), tx.last, FALSE, tx.rejects), text, rows, {}, MayCompact(rows), FALSE)

\* keepRefusedTyping: only the log and fold_error.
ComputeKeep ==
  LET typing == tx.base \ tx.doc
      rows   == Appended(nextId, {}, typing, {})
  IN
  /\ tx.kind = "keep"
  /\ Computed([db EXCEPT !.foldError = "refused"], tx.doc \cup typing, rows, {}, {FALSE}, FALSE)

\* A store or a write the store refuses is rolled back; a store's typing is then kept in the log.
Refuse ==
  /\ tx.phase = "read" /\ Writing /\ ~Behind(db)
  /\ Refused(tx.doc \cup tx.base \cup tx.edit)
  /\ refusedStore' = (refusedStore \/ tx.kind = "store")
  /\ tx' = NoTx
  /\ UNCHANGED <<db, log, nextId, loaded, live, cached, dirty, unloaded, msg, orphans, acked, up, crashes, aborts, purges, staleRead>>

Commit ==
  /\ tx.phase = "computed"
  /\ db' = tx.next
  /\ log' = Compacted(log, tx.rejects, tx.through) \cup tx.rows
  /\ tx' = [tx EXCEPT !.phase = "committed", !.base = {}, !.seen = 0,
                      !.rejects = {}, !.rows = {}, !.through = 0]
  /\ UNCHANGED <<nextId, relayVars, msg, orphans, acked, up, crashes, aborts, purges, staleRead>>

Remembered == IF tx.next.foldError = "none" THEN tx.last ELSE NoCache

\* After the COMMIT: the change is pushed into the open document, the stored state cached, the write acked.
Finish ==
  LET pushed == IF loaded = "yes" THEN live \cup tx.push ELSE live IN
  /\ tx.phase = "committed" /\ tx.kind # "load"
  /\ live' = pushed
  /\ dirty' = (dirty \/ pushed # live)
  /\ cached' = IF Writing /\ tx.open /\ ~tx.again THEN Remembered ELSE cached
  /\ acked' = IF tx.again THEN acked ELSE acked \cup tx.edit
  /\ tx' = IF tx.again THEN Started(tx.kind, tx.edit, loaded = "yes", pushed) ELSE NoTx
  /\ up' = TRUE
  /\ UNCHANGED <<db, log, nextId, loaded, refusedStore, unloaded, msg, orphans, crashes, aborts, purges, staleRead>>

\* The loaded state reaches the document; with a fold_error the relay first asks for the quarantine notice.
FinishLoad ==
  /\ tx.phase = "committed" /\ tx.kind = "load"
  /\ live' = tx.doc
  /\ loaded' = IF tx.next.foldError = "none" THEN "yes" ELSE "loading"
  /\ cached' = Remembered
  /\ tx' = NoTx
  /\ UNCHANGED <<db, log, nextId, dirty, refusedStore, unloaded, msg, orphans, acked, up, crashes, aborts, purges, staleRead>>

Opened ==
  /\ loaded = "loading"
  /\ loaded' = "yes"
  /\ UNCHANGED <<db, log, nextId, live, cached, dirty, refusedStore, unloaded, msg, orphans, acked, tx, up, crashes, aborts, purges, staleRead>>
-----------------------------------------------------------------------------
(* Failures, and writers that are not the store's transactions *)

\* A lock timeout, a lost connection, maintenance: rolled back; a failed boot fold sets fold_error.
Abort ==
  /\ tx.phase \in {"begun", "read", "computed"} /\ Aborting
  /\ tx' = NoTx
  /\ db' = IF tx.kind = "boot" THEN [db EXCEPT !.foldError = "boot"] ELSE db
  /\ up' = TRUE
  /\ UNCHANGED <<log, nextId, relayVars, msg, orphans, acked, crashes, purges, staleRead>>

Crash ==
  /\ up /\ Fault /\ crashes < MaxCrashes /\ crashes' = crashes + 1
  /\ up' = FALSE
  /\ loaded' = "no" /\ live' = {} /\ cached' = NoCache
  /\ dirty' = FALSE /\ refusedStore' = FALSE /\ unloaded' = FALSE
  /\ msg' = [u \in Typing |-> Idle] /\ orphans' = {}
  /\ tx' = NoTx
  /\ UNCHANGED <<db, log, nextId, acked, aborts, purges, staleRead>>

\* reconcileStore: boot gives the row a revision at its seq, unless that fails.
Reconcile ==
  /\ ~up /\ tx.phase = "idle" /\ db.seq \notin db.revised
  /\ db' = [db EXCEPT !.revised = @ \cup {db.seq}]
  /\ UNCHANGED <<log, nextId, relayVars, msg, orphans, acked, tx, up, crashes, aborts, purges, staleRead>>

\* Boot with nothing to fold.
Boot ==
  /\ ~up /\ tx.phase = "idle" /\ ~NeedsFold
  /\ up' = TRUE
  /\ UNCHANGED <<db, log, nextId, relayVars, msg, orphans, acked, tx, crashes, aborts, purges, staleRead>>

\* The row changes behind the store (it is not locked while no transaction has read it).
ChangeOutside(o) ==
  /\ tx.phase \notin {"read", "computed"} /\ o \notin db.made
  /\ db' = [db EXCEPT !.row = @ \cup {o}, !.seq = @ + 1, !.made = @ \cup {o}]
  /\ UNCHANGED <<log, nextId, relayVars, msg, orphans, acked, tx, up, crashes, aborts, purges, staleRead>>

\* purge_revision: a transaction of its own that compacts and folds nothing; never the revision at the
\* row's seq nor a rebase's base (0: one older than the model's).
PurgeRevision ==
  LET rejects == {r.id : r \in Tail \ Readable} IN
  /\ up /\ Fault /\ purges < MaxPurges /\ purges' = purges + 1
  /\ tx.phase \notin {"read", "computed"} /\ GateFree
  /\ \E s \in {0} \cup db.revised :
       /\ s # db.seq /\ ~(Behind(db) /\ s = db.foldedSeq)
       /\ db' = [Compact(db, Materialised, LastOf(Readable)) EXCEPT
                   !.revised = @ \ {s}, !.foldError = IF rejects = {} THEN @ ELSE "rejected"]
  /\ log' = Compacted(log, rejects, LastOf(Readable))
  /\ UNCHANGED <<nextId, relayVars, msg, orphans, acked, tx, up, crashes, aborts, staleRead>>
-----------------------------------------------------------------------------
Relay == \E u \in Typing :
  Send(u) \/ LogDraw(u) \/ LogCommit(u) \/ AppendFails(u) \/ LogOrphan(u) \/ Apply(u) \/ Reject(u)
Begin == \/ StartStore \/ StartKeep \/ StartUnload \/ StartRead \/ StartLoad \/ StartBoot
         \/ \E w \in Writes : StartWrite(w)
Compute == ComputeFold \/ ComputeRebase \/ ComputeWrite \/ ComputeStore \/ ComputeKeep \/ Refuse
Next ==
  \/ Relay \/ Unload
  \/ Begin \/ Moved \/ ReadTail \/ Compute \/ Commit \/ Finish \/ FinishLoad \/ Opened
  \/ Abort \/ Crash \/ Reconcile \/ Boot \/ PurgeRevision
  \/ \E o \in Outside : ChangeOutside(o)

Spec == Init /\ [][Next]_vars

\* Promises already made run to their end: a logged update is applied, a due store starts, a
\* transaction finishes, boot folds.  Strong fairness of the starts is the FIFO of the note's lock
\* (key-lock.ts): others may take it first, not forever.  Nobody is obliged to type, to open or close a tab, or to write.
Fairness ==
  /\ \A u \in Typing : WF_vars(LogDraw(u) \/ LogCommit(u) \/ LogOrphan(u) \/ Apply(u) \/ Reject(u))
  /\ SF_vars(StartStore) /\ SF_vars(StartKeep) /\ SF_vars(StartUnload)
  /\ WF_vars(StartBoot) /\ WF_vars(Boot)
  /\ WF_vars(Moved \/ ReadTail \/ Compute \/ Commit \/ Finish \/ FinishLoad) /\ WF_vars(Opened)

FairSpec == Spec /\ Fairness
-----------------------------------------------------------------------------
(* Properties *)

FoldErrors == {"none", "refused", "rejected", "boot"}
Notes == [row : SUBSET Edits, seq : Nat, snapshot : SUBSET Edits, snapshotThrough : Nat,
          foldedThrough : Nat, foldedSeq : Nat, base : SUBSET Edits, foldError : FoldErrors,
          revised : SUBSET Nat, made : SUBSET Outside, unmerged : SUBSET Edits]
LogRows == [id : Nat, edits : SUBSET Edits, rejected : BOOLEAN]
Kinds == {"none", "store", "keep", "write", "read", "load", "unload", "boot"}
Phases == {"idle", "begun", "read", "computed", "committed"}
Transactions ==
  [kind : Kinds, phase : Phases, edit : SUBSET Writes, open : BOOLEAN, base : SUBSET Edits, seen : Nat,
   doc : SUBSET Edits, last : Nat, rejects : SUBSET Nat, next : Notes, rows : SUBSET LogRows,
   through : Nat, push : SUBSET Edits, again : BOOLEAN]
Messages == [at : {"idle", "queued", "drawn", "logged"}, id : Nat, previous : Nat]

\* The types of the stored rows, the relay's document and the transaction.
TypeOK ==
  /\ db \in Notes /\ log \subseteq LogRows /\ nextId \in Nat
  /\ loaded \in {"no", "loading", "yes"} /\ live \subseteq Edits /\ cached \in Nat \cup {NoCache}
  /\ dirty \in BOOLEAN /\ refusedStore \in BOOLEAN /\ unloaded \in BOOLEAN
  /\ msg \in [Typing -> Messages] /\ orphans \subseteq Typing
  /\ acked \subseteq Edits /\ tx \in Transactions /\ up \in BOOLEAN
  /\ crashes \in Nat /\ aborts \in Nat /\ purges \in Nat /\ staleRead \in BOOLEAN

\* Append before ack (beforeSync) and the fold's boundary: an edit whose author was told it is saved is in
\* the snapshot or in a row that a materialisation still reads, through every fold, write, rejection,
\* compaction and crash - as long as no transaction took a stale clone for the stored state.
AckedKept == ~staleRead => acked \subseteq Materialised

\* "A SIGKILL after the ack therefore loses nothing: boot folds the logged update."
SigkillLosesNothing == ~up => acked \subseteq Materialised

\* "boot folds the logged update": when boot finds nothing to fold and no fold error, the row shows what was acked.
BootFoldsAcked ==
  ~up /\ ~NeedsFold /\ db.foldError = "none" /\ ~staleRead => acked \subseteq db.row

\* The append gate: no committed row that should be read lies at or under the snapshot's boundary, where
\* materialise never looks again.
LogPastSnapshot == \A r \in log : ~r.rejected => r.id > db.snapshotThrough

\* Both: what was acked stays readable, and no row that should be read is out of a materialisation's reach.
PromiseKept == AckedKept /\ LogPastSnapshot

\* folded_through never passes a row the note's text does not show ("never past an unseen row").
FoldBoundary ==
  ~staleRead => \A r \in Readable : r.id <= db.foldedThrough => r.edits \subseteq db.row

\* What editors see is stored: a crash of the relay takes nothing from the document it showed.
OpenIsStored == ~staleRead => live \subseteq Materialised

\* Whatever is folded, written, rebased or kept, the row never takes a text the store refuses.
RowAccepted == ~Refused(db.row)

\* No fold, rebase or write takes typed or server-written text from the row.  What was written behind the store
\* survives the merge with what was typed meanwhile, except where an edit the row now shows changed the same place
\* or the base had no revision; the row that showed it is then kept as a revision.
RowKeepsText ==
  [][~staleRead' => \A e \in db.row \ db'.row :
       /\ e \in Outside /\ db.seq \in db'.revised
       /\ (e \in db'.unmerged \/ \E u \in db'.row : <<e, u>> \in Overlaps)]_vars

\* A purge took the rows that said a fold is pending; a transaction that failed left the fold to the note's next one.
Forgotten == purges > 0 /\ ~NeedsFold
LeftForLater == aborts > 0 /\ NeedsFold
\* Acked typing reaches the row, unless a stale clone was used, a purge made the log forget it has to, or a failed
\* transaction left it to the next one, which the log still asks for.
AckedReachesRow == \A u \in Typing : u \in acked ~> (u \in db.row \/ staleRead \/ Forgotten \/ LeftForLater)
=============================================================================
