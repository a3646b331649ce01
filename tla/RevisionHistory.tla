-------------------------- MODULE RevisionHistory --------------------------
(* The revision history of one note: what a write, a rebase, a quarantined write, a proposal, a restore point, an       *)
(* import and a purge record or take away, and the compaction that stores old revisions as deltas of older ones         *)
(* (notes/revision-compaction.ts) while those go on. Every one of them holds the note's lock for its transaction but a  *)
(* restore point, an import and what a purge looks up first.                                                            *)
(*                                                                                                                      *)
(* A text is an element of Bodies or 0, the empty text a compacted revision's row keeps. A delta <<from, to>> turns     *)
(* `from` into `to` and any other base into 0. Whether a delta pays is left open. A revision's id is the `ord` it was   *)
(* recorded with, which only a quarantine written again changes.                                                        *)
EXTENDS Integers, FiniteSetsExt, SequencesExt

CONSTANTS Bodies,         \* the texts of the note
          Imports,        \* the histories an archive may hold for it: sequences of texts, oldest first
          KeepRecent,     \* KEEP_RECENT_REVISIONS
          BatchRows,      \* BATCH_ROWS
          CompactEvery,   \* COMPACT_EVERY_SEQ
          MaxOrd,         \* bound: values drawn from the sequence of `ord`
          MaxOutside,     \* bound: changes of the row behind the store
          MaxStops        \* bound: deaths of the process and failed runs

ASSUME HistoryConstants ==
  /\ 0 \notin Bodies /\ Bodies # {} /\ Imports \subseteq Seq(Bodies)
  /\ KeepRecent \in Nat \ {0} /\ BatchRows \in Nat \ {0} /\ CompactEvery \in Nat \ {0}
  /\ MaxOrd \in Nat \ {0} /\ MaxOutside \in Nat /\ MaxStops \in Nat

VARIABLES row,      \* the note: [seq, body]
          folded,   \* note_crdt.folded_seq, 0 for a note without CRDT state
          revs,     \* note_revisions: id -> revision; `saved` is the text recorded, kept to compare with
          drawn,    \* the last value drawn from the sequence of `ord`
          mark,     \* examined_through, 0 without a row of note_revision_compaction
          due,      \* compact_revisions jobs not done
          run,      \* the compaction in this process: between batches, or in a batch with the lock held
          purge,    \* the revision a purge found it may remove, before it has the lock; 0 for none
          point,    \* the restore point a connection's write will leave: its place, its text, whether the write landed
          around,   \* seqs the row had without a revision (changed around the store, or the history imported), or with
                    \* one adopted while a purge of it waits for the lock
          importing, outside, stops

vars == <<row, folded, revs, drawn, mark, due, run, purge, point, around, importing, outside, stops>>
-----------------------------------------------------------------------------
Actions   == {"update", "import", "backfill", "quarantine", "proposal", "restore_point"}
KeptWhole == {"restore_point", "quarantine", "proposal"}
NotABase  == {"quarantine", "proposal"}

Patch(base, delta) == IF base = delta[1] THEN delta[2] ELSE 0
Whole(r) == r.base = 0

\* note_revision_body: the row's text, or its delta applied to its base's row.
BodyOf(id) == IF Whole(revs[id]) THEN revs[id].body ELSE Patch(revs[revs[id].base].body, revs[id].delta)

Revision(ord, action, body, seq, source) ==
  [ord |-> ord, action |-> action, body |-> body, base |-> 0, delta |-> <<>>, seq |-> seq, source |-> source, saved |-> body]

\* The history `h` with one revision more, inserted at the place `ord` of the sequence.
With(h, ord, action, body, seq, source) ==
  [id \in {ord} \cup DOMAIN h |-> IF id = ord THEN Revision(ord, action, body, seq, source) ELSE h[id]]

NoRun   == [at |-> "none", after |-> 0, found |-> {}, done |-> {}, pending |-> <<>>, cache |-> <<0, 0>>]
NoPoint == [ord |-> 0, body |-> 0, landed |-> FALSE]

LockFree == run.at # "batch"
CanDraw  == drawn < MaxOrd

\* The row is ahead of the CRDT state: changed behind the store, to be rebased before the next write.
Behind == folded > 0 /\ row.seq > folded

At(seq) == {id \in DOMAIN revs : revs[id].seq = seq}

\* Sets of at most one.
Newest(ids) == {id \in ids : \A other \in ids : other <= id}
Oldest(ids) == {id \in ids : \A other \in ids : id <= other}

Init ==
  /\ \E b \in Bodies : row = [seq |-> 1, body |-> b]
  /\ folded \in {0, 1}
  /\ revs = [id \in {1} |-> Revision(1, "update", row.body, 1, 0)] /\ drawn = 1
  /\ mark = 0 /\ due = 0 /\ run = NoRun /\ purge = 0 /\ point = NoPoint
  /\ around = {} /\ importing \in BOOLEAN /\ outside = 0 /\ stops = 0
-----------------------------------------------------------------------------
(* Writes *)

\* The job of a write that moves the note to `seq` (outbox).
DueAt(seq) == IF seq % CompactEvery = 0 THEN due + 1 ELSE due

\* A write of a new text: the row, and its revision at the new seq; a CRDT state that agreed with the row still does.
Write(body) ==
  /\ LockFree /\ ~Behind /\ CanDraw /\ body # row.body
  /\ row' = [seq |-> row.seq + 1, body |-> body]
  /\ drawn' = drawn + 1 /\ revs' = With(revs, drawn', "update", body, row'.seq, 0)
  /\ folded' = IF folded = row.seq THEN row'.seq ELSE folded
  /\ due' = DueAt(row'.seq)
  /\ point' = [point EXCEPT !.landed = @ \/ point.ord > 0]
  /\ UNCHANGED <<mark, run, purge, around, importing, outside, stops>>

\* A write that changes nothing, of another author than the last content revision's: recorded without a seq.
Repeat ==
  /\ LockFree /\ ~Behind /\ CanDraw
  /\ drawn' = drawn + 1 /\ revs' = With(revs, drawn', "update", row.body, 0, 0)
  /\ point' = [point EXCEPT !.landed = @ \/ point.ord > 0]
  /\ UNCHANGED <<row, folded, mark, due, run, purge, around, importing, outside, stops>>

\* Old code during a rollback, manual SQL, a restore: the row moves and no revision records it.
ChangeOutside(body) ==
  /\ body # row.body /\ outside < MaxOutside /\ outside' = outside + 1
  /\ row' = [seq |-> row.seq + 1, body |-> body] /\ around' = around \cup {row'.seq}
  /\ UNCHANGED <<folded, revs, drawn, mark, due, run, purge, point, importing, stops>>

\* The relay's first load of the note seeds its CRDT state from the row.
Seed ==
  /\ LockFree /\ folded = 0 /\ folded' = row.seq
  /\ UNCHANGED <<row, revs, drawn, mark, due, run, purge, point, around, importing, outside, stops>>

\* revisionAtSeq: the newest content revision takes the row's seq when it has none and holds the row's text,
\* otherwise the row is recorded at its seq.
Content == {id \in DOMAIN revs : revs[id].action \notin KeptWhole}
Adopted == {id \in Newest(Content) : revs[id].seq = 0 /\ BodyOf(id) = row.body}
AtSeq ==
  IF At(row.seq) # {} THEN [revs |-> revs, drawn |-> drawn]
  ELSE IF Adopted # {} THEN [revs |-> [id \in DOMAIN revs |-> IF id \in Adopted THEN [revs[id] EXCEPT !.seq = row.seq] ELSE revs[id]],
                             drawn |-> drawn]
  ELSE [revs |-> With(revs, drawn + 1, "backfill", row.body, row.seq, 0), drawn |-> drawn + 1]

\* rebaseLocked: the row kept as a revision at its seq, then the merge of the editors' text and the row's from the
\* revision at folded_seq, whatever text that gives; a merge that is the row's text, or refused, only moves folded_seq.
Rebase(merged) ==
  /\ LockFree /\ Behind /\ drawn + 1 < MaxOrd
  /\ IF merged = row.body
     THEN /\ revs' = AtSeq.revs /\ drawn' = AtSeq.drawn
          /\ folded' = row.seq /\ UNCHANGED <<row, due>>
     ELSE /\ row' = [seq |-> row.seq + 1, body |-> merged] /\ folded' = row'.seq /\ due' = DueAt(row'.seq)
          /\ drawn' = AtSeq.drawn + 1 /\ revs' = With(AtSeq.revs, drawn', "update", merged, row'.seq, 0)
  /\ around' = IF At(row.seq) = {} /\ purge \in Adopted THEN around ELSE around \ {row.seq}
  /\ UNCHANGED <<mark, run, purge, point, importing, outside, stops>>
-----------------------------------------------------------------------------
(* What is kept beside the note *)

\* refuseSuspiciousWrite, called while a write that will be refused holds the lock: a new revision, or the one this
\* attempt continues written again at the end of the history.
Quarantine(body) ==
  /\ LockFree /\ ~Behind /\ CanDraw /\ drawn' = drawn + 1
  /\ \/ revs' = With(revs, drawn', "quarantine", body, 0, 0)
     \/ \E id \in DOMAIN revs :
          /\ revs[id].action = "quarantine"
          /\ revs' = [revs EXCEPT ![id].body = body, ![id].saved = body, ![id].ord = drawn']
  /\ UNCHANGED <<row, folded, mark, due, run, purge, point, around, importing, outside, stops>>

\* recordProposal, under the lock too: an agent's edit of revision `source` (getBaseRevision) that overlaps what came after it. One that
\* names a revision purged since then protects nothing, and is left out.
Propose(source, body) ==
  /\ LockFree /\ ~Behind /\ CanDraw /\ drawn' = drawn + 1 /\ revs[source].action \notin NotABase
  /\ revs' = With(revs, drawn', "proposal", body, 0, source)
  /\ UNCHANGED <<row, folded, mark, due, run, purge, point, around, importing, outside, stops>>

\* withRestorePoint: the place and the stored text are taken before the connection's write ...
PointTaken ==
  /\ CanDraw /\ point = NoPoint /\ drawn' = drawn + 1
  /\ point' = [ord |-> drawn', body |-> row.body, landed |-> FALSE]
  /\ UNCHANGED <<row, folded, revs, mark, due, run, purge, around, importing, outside, stops>>

\* ... and recorded once it landed; a refused or failed write leaves none.
PointKept ==
  /\ point # NoPoint /\ point' = NoPoint
  /\ revs' = IF point.landed THEN With(revs, point.ord, "restore_point", point.body, 0, 0) ELSE revs
  /\ UNCHANGED <<row, folded, drawn, mark, due, run, purge, around, importing, outside, stops>>

\* applyHistory: the archive's history in place of what the note has, without a seq; the rows a batch has updated
\* are locked until it ends.
Import(history) ==
  /\ importing /\ importing' = FALSE /\ run.pending = <<>>
  /\ history # <<>> /\ drawn + Len(history) <= MaxOrd /\ drawn' = drawn + Len(history)
  /\ revs' = [id \in drawn + 1 .. drawn' |-> Revision(id, "import", history[id - drawn], 0, 0)]
  /\ around' = 1 .. row.seq
  /\ UNCHANGED <<row, folded, mark, due, run, purge, point, outside, stops>>
-----------------------------------------------------------------------------
(* Purge *)

Current(id)   == revs[id].seq = row.seq
\* Mutant: the base is looked for at the row's seq.
MergeBaseMissed(id) == Behind /\ revs[id].seq = row.seq
MergeBase(id) == Behind /\ revs[id].seq = folded

\* purgeRevision looks the revision up, and refuses the note's state and the base of a pending merge, without the lock.
PurgeFinds(id) ==
  /\ purge = 0 /\ id \in DOMAIN revs /\ ~Current(id) /\ ~MergeBase(id)
  /\ purge' = id
  /\ UNCHANGED <<row, folded, revs, drawn, mark, due, run, point, around, importing, outside, stops>>

Dependents(id) == {d \in DOMAIN revs : revs[d].base = id}

\* expandDependents: the revisions stored as deltas of this one are whole again, and the mark moves back before them.
\* Mutant: the base stays named by the revisions stored whole again.
ExpandedButNamed(id) ==
  [d \in DOMAIN revs |-> IF d \in Dependents(id) THEN [revs[d] EXCEPT !.body = BodyOf(d), !.delta = <<>>] ELSE revs[d]]
Expanded(id) ==
  [d \in DOMAIN revs |-> IF d \in Dependents(id)
                          THEN [revs[d] EXCEPT !.body = BodyOf(d), !.base = 0, !.delta = <<>>] ELSE revs[d]]
MovedBack(id) == Oldest({mark} \cup {d - 1 : d \in Dependents(id)})

Purge ==
  /\ LockFree /\ purge # 0
  /\ revs' = Restrict(Expanded(purge), DOMAIN revs \ {purge})
  /\ mark' \in MovedBack(purge) /\ purge' = 0
  /\ UNCHANGED <<row, folded, drawn, due, run, point, around, importing, outside, stops>>
-----------------------------------------------------------------------------
(* Compaction *)

\* What the retention allows to compact, newer than `after`.
Newer(id) == {n \in DOMAIN revs : revs[n].ord > revs[id].ord}
Compactable(after) ==
  {id \in DOMAIN revs :
     /\ revs[id].ord > after /\ Whole(revs[id]) /\ revs[id].action \notin KeptWhole
     /\ Cardinality(Newer(id)) >= KeepRecent
     /\ revs[id].seq = 0 \/ revs[id].seq \notin {row.seq, folded}
     /\ \A p \in DOMAIN revs : ~(revs[p].action = "proposal" /\ revs[p].source = id)
     /\ Dependents(id) = {}}

\* The batch: the oldest of them.
Candidates(after) ==
  LET all == Compactable(after) IN {id \in all : Cardinality({older \in all : older < id}) < BatchRows}

\* A job is claimed: the run starts after the mark.
RunStarts ==
  /\ run.at = "none" /\ due > 0
  /\ run' = [NoRun EXCEPT !.at = "between", !.after = mark]
  /\ UNCHANGED <<row, folded, revs, drawn, mark, due, purge, point, around, importing, outside, stops>>

\* A batch takes the note's lock and finds its candidates.
BatchStarts ==
  /\ run.at = "between"
  /\ run' = [run EXCEPT !.at = "batch", !.found = Candidates(run.after), !.done = {}]
  /\ UNCHANGED <<row, folded, revs, drawn, mark, due, purge, point, around, importing, outside, stops>>

\* The nearest older revision stored whole, as the batch's own transaction sees it; a set of at most one.
StillWhole(id) == Whole(revs[id]) /\ id \notin DOMAIN run.pending
BaseOf(id) ==
  IF id \in DOMAIN revs THEN Newest({b \in DOMAIN revs : b < id /\ StillWhole(b) /\ revs[b].action \notin NotABase}) ELSE {}

\* compactRevision: the delta is made from the base's text this run read last, and stored if SQL rebuilds the text
\* from it; otherwise, or when it does not pay, the revision stays whole. The rows change with the batch's commit.
Examine ==
  /\ run.at = "batch"
  /\ \E id \in Oldest(run.found \ run.done) :
       \/ run' = [run EXCEPT !.done = @ \cup {id}]
       \/ \E b \in BaseOf(id) :
            LET cache == IF run.cache[1] = b THEN run.cache ELSE <<b, revs[b].body>>
                delta == <<cache[2], revs[id].body>>
            IN run' = [run EXCEPT !.done = @ \cup {id}, !.cache = cache,
                         !.pending = IF StillWhole(id) /\ Patch(revs[b].body, delta) = revs[id].body
                                     THEN [n \in {id} \cup DOMAIN @ |-> IF n = id THEN [base |-> b, delta |-> delta] ELSE @[n]]
                                     ELSE @]
  /\ UNCHANGED <<row, folded, revs, drawn, mark, due, purge, point, around, importing, outside, stops>>

Compacted(r, p) == [r EXCEPT !.body = 0, !.base = p.base, !.delta = p.delta]

\* The batch commits what it examined, all it found or less (BATCH_MS, a pending projection), and the mark with it;
\* the run goes on after it, or its job is done.
BatchCommits ==
  /\ run.at = "batch" /\ (run.done # {} \/ run.found = {})
  /\ \E last \in IF run.done = {} THEN {run.after} ELSE Newest(run.done) :
       LET more == run.found # {} /\ (Cardinality(run.found) = BatchRows \/ run.done # run.found)
       IN /\ mark' = IF last > mark /\ last > run.after THEN last ELSE mark
          /\ run' = IF more THEN [NoRun EXCEPT !.at = "between", !.after = last, !.cache = run.cache] ELSE NoRun
          /\ due' = IF more THEN due ELSE due - 1
  /\ revs' = [id \in DOMAIN revs |-> IF id \in DOMAIN run.pending THEN Compacted(revs[id], run.pending[id]) ELSE revs[id]]
  /\ UNCHANGED <<row, folded, drawn, purge, point, around, importing, outside, stops>>

\* A statement of the run fails: the batch under way is rolled back; the job is tried again, or given up.
RunFails ==
  /\ run.at # "none" /\ run' = NoRun /\ stops < MaxStops /\ stops' = stops + 1
  /\ due' \in {due, due - 1}
  /\ UNCHANGED <<row, folded, revs, drawn, mark, purge, point, around, importing, outside>>

\* The process dies and boots: what was under way is lost, the note gets a revision at its seq unless that fails, and
\* a long history stored whole is queued unless the job of this seq is there already.
Reboot ==
  /\ stops < MaxStops /\ stops' = stops + 1
  /\ run' = NoRun /\ purge' = 0 /\ point' = NoPoint /\ importing' = FALSE
  /\ \/ /\ AtSeq.drawn <= MaxOrd /\ revs' = AtSeq.revs /\ drawn' = AtSeq.drawn /\ around' = around \ {row.seq}
     \/ UNCHANGED <<revs, drawn, around>>
  /\ \/ due' = due
     \/ /\ Cardinality({id \in DOMAIN revs' : Whole(revs'[id])}) > KeepRecent + CompactEvery
        /\ due' = due + 1
  /\ UNCHANGED <<row, folded, mark, outside>>
-----------------------------------------------------------------------------
Recorded == \/ Repeat \/ Seed \/ PointTaken \/ PointKept
            \/ \E body \in Bodies : Write(body) \/ ChangeOutside(body) \/ Rebase(body) \/ Quarantine(body)
            \/ \E source \in DOMAIN revs, body \in Bodies : Propose(source, body)
            \/ \E history \in Imports : Import(history)

Compaction == RunStarts \/ BatchStarts \/ Examine \/ BatchCommits \/ RunFails

Next == Recorded \/ Compaction \/ Reboot \/ Purge \/ \E id \in DOMAIN revs : PurgeFinds(id)

Spec == Init /\ [][Next]_vars
-----------------------------------------------------------------------------
(* Properties *)

Texts == Bodies \cup {0}

\* The types of the note, its history and the run; a delta's base is in the history, whole and older.
HistoryTypeOK ==
  /\ row \in [seq : Nat \ {0}, body : Bodies] /\ folded \in 0 .. row.seq /\ drawn \in Nat /\ mark \in 0 .. drawn
  /\ \A id \in DOMAIN revs :
       /\ revs[id].ord \in id .. drawn /\ revs[id].action \in Actions /\ revs[id].seq \in 0 .. row.seq
       /\ revs[id].source \in 0 .. MaxOrd /\ revs[id].body \in Texts /\ revs[id].saved \in Bodies
       /\ ~Whole(revs[id]) => /\ revs[id].base \in DOMAIN revs /\ Whole(revs[revs[id].base])
                               /\ revs[id].base < id /\ revs[id].delta \in Bodies \X Bodies
  /\ due \in Nat /\ run.at \in {"none", "between", "batch"} /\ run.done \subseteq run.found
  /\ purge \in 0 .. drawn /\ around \subseteq 1 .. row.seq /\ importing \in BOOLEAN

\* "Lossless: every revision keeps its exact body", whatever is compacted, purged, quarantined again or rolled back.
Lossless == \A id \in DOMAIN revs : BodyOf(id) = revs[id].saved

\* Invariant I2 and the base of a pending merge: the revision at the row's seq exists and holds the row's text, and a
\* row past folded_seq has the revision at folded_seq to merge from, but for states changed around the store.
StatesKept ==
  /\ row.seq \notin around => \E id \in At(row.seq) : BodyOf(id) = row.body
  /\ Behind /\ folded \notin around => At(folded) # {}

\* "Refused for the revision at the note's seq (its text still holds it)" (purgeRevision): a purge leaves some revision
\* that holds the row's text.
NoteStaysRecorded ==
  [][purge # 0 /\ purge' = 0 /\ stops' = stops /\ (\E id \in DOMAIN revs : BodyOf(id) = row.body)
       => \E id \in DOMAIN revs' : BodyOf(id)' = row.body]_vars

\* The mark passes no revision the retention lets go that the batch did not decide on ("The note's next run examines
\* them again", expandDependents).
PassedDecided ==
  [][mark' > mark => \A id \in Compactable(mark) : id <= mark' => id \in run.done]_vars
=============================================================================
