------------------------ MODULE RevisionHistoryProofs ------------------------
(****************************************************************************)
(* For any texts, retention, batches and any number of revisions, outside   *)
(* changes and stops: types, that every revision keeps its exact text       *)
(* through compaction and purges, and that the note's own revision and the  *)
(* base of a pending merge stay.                                            *)
(****************************************************************************)
EXTENDS RevisionHistory, TLAPS

RevisionRecord ==
  [ord : Nat, action : Actions, body : Texts, base : Nat, delta : (Bodies \X Bodies) \cup {<<>>}, seq : Nat,
   source : 0 .. MaxOrd, saved : Bodies]

\* A history: whole revisions hold what was saved; a delta is on a whole revision that never changes, older than its
\* own, and leads from that one's text to its own; what is kept beside the note is whole and without a seq.
Good(h, top) ==
  /\ DOMAIN h \subseteq 1 .. top /\ h \in [DOMAIN h -> RevisionRecord]
  /\ \A id \in DOMAIN h :
       /\ h[id].ord \in id .. top
       /\ h[id].action \in KeptWhole => h[id].seq = 0 /\ Whole(h[id])
       /\ Whole(h[id]) => h[id].body = h[id].saved
       /\ ~Whole(h[id]) => /\ h[id].base \in DOMAIN h /\ h[id].base < id /\ Whole(h[h[id].base])
                           /\ h[h[id].base].action \notin NotABase
                           /\ h[id].delta = <<h[h[id].base].saved, h[id].saved>>

RowOK ==
  /\ row \in [seq : Nat \ {0}, body : Bodies] /\ folded \in 0 .. row.seq /\ drawn \in 1 .. MaxOrd /\ mark \in 0 .. drawn
  /\ due \in Nat /\ purge \in 0 .. drawn /\ around \subseteq 1 .. row.seq /\ importing \in BOOLEAN

\* A restore point's place is nobody else's until it is recorded.
PointOK ==
  /\ point \in [ord : Nat, body : Texts, landed : BOOLEAN]
  /\ point # NoPoint => point.ord \in 1 .. drawn \ DOMAIN revs /\ point.body \in Bodies

PendingRecord == [base : Nat, delta : Bodies \X Bodies]
RunRecord ==
  [at : {"none", "between", "batch"}, after : Nat, found : SUBSET Nat, done : SUBSET Nat,
   pending : UNION {[D -> PendingRecord] : D \in SUBSET Nat}, cache : Nat \X Texts]

RunOK ==
  /\ run \in RunRecord /\ (run.at # "none" => due > 0) /\ run.after \in 0 .. drawn
  /\ run.done \subseteq run.found /\ run.found \subseteq 1 .. drawn
  /\ run.at # "batch" => run.pending = <<>>

\* What a batch found stays as it was, as it has the lock, or an import took it away.
FoundOK ==
  run.at = "batch" =>
    /\ \A id \in run.found \cap DOMAIN revs :
         Whole(revs[id]) /\ revs[id].action \notin KeptWhole /\ \A d \in DOMAIN revs : revs[d].base # id
    /\ \A d \in run.done, e \in run.found \ run.done : d < e
    /\ point.ord \notin run.found

\* What a batch has examined and not committed.
PendingOK ==
  \A id \in DOMAIN run.pending :
    LET p == run.pending[id]
    IN /\ id \in run.done \cap DOMAIN revs
       /\ p.base \in DOMAIN revs \ DOMAIN run.pending /\ p.base < id
       /\ Whole(revs[p.base]) /\ revs[p.base].action \notin NotABase
       /\ p.delta = <<revs[p.base].saved, revs[id].saved>>

\* A revision at the row's seq holds the row's text, and there is one, but for the states `around`.
SeqOK ==
  /\ \A id \in DOMAIN revs : revs[id].seq \in 0 .. row.seq /\ (revs[id].seq = row.seq => revs[id].saved = row.body)
  /\ row.seq \notin around => At(row.seq) # {}
  /\ Behind /\ folded \notin around => At(folded) # {}

\* What a purge found and has not locked yet is neither, but for the states `around`.
PurgeOK ==
  purge \in DOMAIN revs =>
    /\ revs[purge].seq = row.seq => row.seq \in around /\ ~Behind
    /\ Behind /\ revs[purge].seq = folded => folded \in around

IInv == RowOK /\ Good(revs, drawn) /\ PointOK /\ RunOK /\ FoundOK /\ PendingOK /\ SeqOK /\ PurgeOK
-----------------------------------------------------------------------------
(* Histories *)

LEMMA WithGood ==
  ASSUME NEW h, NEW top \in Nat, NEW higher \in Nat, Good(h, top), top <= higher, NEW ord \in 1 .. higher, ord \notin DOMAIN h,
         NEW action \in Actions, NEW body \in Bodies, NEW seq \in Nat, NEW source \in 0 .. MaxOrd,
         action \in KeptWhole => seq = 0
  PROVE  Good(With(h, ord, action, body, seq, source), higher)
<1> DEFINE g == With(h, ord, action, body, seq, source)
           r == Revision(ord, action, body, seq, source)
<1>1. DOMAIN g = {ord} \cup DOMAIN h /\ \A id \in DOMAIN h : g[id] = h[id]
  BY DEF With
<1>2. g[ord] = r /\ g = [id \in DOMAIN g |-> g[id]]
  BY DEF With
<1>3. r \in RevisionRecord /\ r.ord = ord /\ Whole(r) /\ r.body = r.saved /\ r.action = action /\ r.seq = seq
  BY DEF RevisionRecord, Revision, Whole, Texts
<1> HIDE DEF g, r
<1>4. DOMAIN g \subseteq 1 .. higher /\ g \in [DOMAIN g -> RevisionRecord]
  BY <1>1, <1>2, <1>3 DEF Good
<1>5. ASSUME NEW id \in DOMAIN g
      PROVE  /\ g[id].ord \in id .. higher
             /\ g[id].action \in KeptWhole => g[id].seq = 0 /\ Whole(g[id])
             /\ Whole(g[id]) => g[id].body = g[id].saved
             /\ ~Whole(g[id]) => /\ g[id].base \in DOMAIN g /\ g[id].base < id /\ Whole(g[g[id].base])
                                 /\ g[g[id].base].action \notin NotABase
                                 /\ g[id].delta = <<g[g[id].base].saved, g[id].saved>>
  <2>1. CASE id = ord
    BY <1>2, <1>3, <2>1
  <2>2. CASE id \in DOMAIN h
    <3>1. h[id].ord \in id .. top /\ id \in Nat
      BY <2>2 DEF Good
    <3>2. h[id].ord \in id .. higher
      BY <3>1
    <3>3. ~Whole(h[id]) => h[id].base \in DOMAIN h /\ g[h[id].base] = h[h[id].base]
      BY <1>1, <2>2 DEF Good
    <3> QED
      BY <1>1, <2>2, <3>2, <3>3 DEF Good
  <2> QED
    BY <1>1, <2>1, <2>2
<1> QED
  BY <1>4, <1>5 DEF Good, g

\* A change of the seqs alone, of revisions that are not kept beside the note.
LEMMA SeqsGood ==
  ASSUME NEW h, NEW top \in Nat, Good(h, top), NEW g, g = [id \in DOMAIN h |-> [h[id] EXCEPT !.seq = g[id].seq]],
         \A id \in DOMAIN h : g[id].seq \in Nat /\ (h[id].action \in KeptWhole => g[id].seq = h[id].seq)
  PROVE  Good(g, top)
<1>1. DOMAIN g = DOMAIN h
  OBVIOUS
<1>2. \A id \in DOMAIN h : h[id] \in RevisionRecord
  BY DEF Good
<1>3. \A id \in DOMAIN h : /\ g[id] \in RevisionRecord /\ g[id].ord = h[id].ord /\ g[id].action = h[id].action
                           /\ g[id].body = h[id].body /\ g[id].base = h[id].base /\ g[id].delta = h[id].delta
                           /\ g[id].saved = h[id].saved /\ (Whole(g[id]) <=> Whole(h[id]))
  BY <1>2 DEF RevisionRecord, Whole
<1>4. g \in [DOMAIN g -> RevisionRecord]
  BY <1>1, <1>3
<1> QED
  BY <1>1, <1>3, <1>4 DEF Good

\* note_revision_body gives back what was saved.
LEMMA GoodBodies ==
  ASSUME NEW top, Good(revs, top), NEW id \in DOMAIN revs
  PROVE  BodyOf(id) = revs[id].saved
<1>1. CASE Whole(revs[id])
  BY <1>1 DEF Good, BodyOf
<1>2. CASE ~Whole(revs[id])
  <2> DEFINE b == revs[id].base
  <2>1. b \in DOMAIN revs /\ Whole(revs[b]) /\ revs[b].body = revs[b].saved /\ revs[id].delta = <<revs[b].saved, revs[id].saved>>
    BY <1>2 DEF Good
  <2> QED
    BY <1>2, <2>1 DEF BodyOf, Patch
<1> QED
  BY <1>1, <1>2
-----------------------------------------------------------------------------
(* What a step makes of the history *)

\* A history and its revision at the row's seq (AtSeq): nothing but an adopted revision's seq changed, one at most added.
LEMMA AtSeqHistory ==
  ASSUME IInv
  PROVE  LET h == AtSeq.revs
         IN /\ AtSeq.drawn \in {drawn, drawn + 1} /\ Good(h, AtSeq.drawn)
            /\ DOMAIN h = IF AtSeq.drawn = drawn THEN DOMAIN revs ELSE {drawn + 1} \cup DOMAIN revs
            /\ \A id \in DOMAIN h : h[id].seq \in 0 .. row.seq /\ (h[id].seq = row.seq => h[id].saved = row.body)
            /\ \E id \in DOMAIN h : h[id].seq = row.seq
            /\ \A id \in DOMAIN revs :
                 /\ revs[id].seq # 0 => h[id].seq = revs[id].seq
                 /\ h[id].seq = row.seq /\ revs[id].seq # row.seq => At(row.seq) = {} /\ id \in Adopted
<1> DEFINE h == AtSeq.revs
<1>0. /\ row.seq \in Nat \ {0} /\ row.body \in Bodies /\ drawn \in Nat /\ DOMAIN revs \subseteq 1 .. drawn
      /\ \A id \in DOMAIN revs : revs[id] \in RevisionRecord
      /\ \A id \in DOMAIN revs : revs[id].seq \in 0 .. row.seq /\ (revs[id].seq = row.seq => revs[id].saved = row.body)
  BY DEF IInv, RowOK, Good, SeqOK
<1>1. CASE At(row.seq) # {}
  <2>1. AtSeq = [revs |-> revs, drawn |-> drawn]
    BY <1>1 DEF AtSeq
  <2> QED
    BY <1>0, <1>1, <2>1 DEF At, IInv
<1>2. CASE At(row.seq) = {} /\ Adopted # {}
  <2> DEFINE g == [id \in DOMAIN revs |-> IF id \in Adopted THEN [revs[id] EXCEPT !.seq = row.seq] ELSE revs[id]]
  <2>1. AtSeq = [revs |-> g, drawn |-> drawn]
    BY <1>2 DEF AtSeq
  <2>2. \A id \in Adopted : id \in DOMAIN revs /\ revs[id].action \notin KeptWhole /\ revs[id].seq = 0 /\ BodyOf(id) = row.body
    BY DEF Adopted, Newest, Content
  <2>3. \A id \in DOMAIN revs : g[id].seq = IF id \in Adopted THEN row.seq ELSE revs[id].seq
    BY <1>0 DEF RevisionRecord
  <2>4. g = [id \in DOMAIN revs |-> [revs[id] EXCEPT !.seq = g[id].seq]]
    <3>1. \A id \in DOMAIN revs : g[id] = [revs[id] EXCEPT !.seq = g[id].seq]
      BY <1>0 DEF RevisionRecord
    <3> QED
      BY <3>1
  <2>5. \A id \in DOMAIN revs : g[id].saved = revs[id].saved
    BY <1>0 DEF RevisionRecord
  <2>6. \A id \in Adopted : revs[id].saved = row.body
    BY <2>2, GoodBodies DEF IInv
  <2>7. Good(g, drawn)
    <3>1. \A id \in DOMAIN revs : g[id].seq \in Nat /\ (revs[id].action \in KeptWhole => g[id].seq = revs[id].seq)
      BY <1>0, <2>2, <2>3 DEF RevisionRecord
    <3> HIDE DEF g
    <3> QED
      BY <1>0, <2>4, <3>1, SeqsGood DEF IInv
  <2> HIDE DEF g
  <2>8. DOMAIN g = DOMAIN revs
    BY <2>4
  <2> QED
    BY <1>0, <1>2, <2>1, <2>2, <2>3, <2>5, <2>6, <2>7, <2>8
<1>3. CASE At(row.seq) = {} /\ Adopted = {}
  <2> DEFINE g == With(revs, drawn + 1, "backfill", row.body, row.seq, 0)
  <2>1. AtSeq = [revs |-> g, drawn |-> drawn + 1]
    BY <1>3 DEF AtSeq
  <2>2. DOMAIN g = {drawn + 1} \cup DOMAIN revs /\ \A id \in DOMAIN revs : g[id] = revs[id]
    BY <1>0 DEF With
  <2>3. g[drawn + 1].seq = row.seq /\ g[drawn + 1].saved = row.body
    BY DEF With, Revision
  <2>4. Good(g, drawn + 1)
    <3>1. drawn + 1 \notin DOMAIN revs /\ drawn + 1 \in 1 .. drawn + 1 /\ "backfill" \in Actions \ KeptWhole
      BY <1>0 DEF Actions, KeptWhole
    <3> HIDE DEF g
    <3> QED
      BY <1>0, <3>1, WithGood, HistoryConstants DEF IInv, g
  <2> HIDE DEF g
  <2> QED
    BY <1>0, <2>1, <2>2, <2>3, <2>4
<1> QED
  BY <1>1, <1>2, <1>3

\* A purge: what named it as its base is whole again.
LEMMA PurgeHistory ==
  ASSUME IInv, Purge
  PROVE  /\ Good(revs', drawn) /\ DOMAIN revs' = DOMAIN revs \ {purge}
         /\ \A id \in DOMAIN revs' : revs'[id].seq = revs[id].seq /\ revs'[id].saved = revs[id].saved
<1> DEFINE h == Expanded(purge)
<1>1. /\ DOMAIN revs \subseteq 1 .. drawn /\ drawn \in Nat
      /\ \A id \in DOMAIN revs : revs[id] \in RevisionRecord /\ BodyOf(id) = revs[id].saved
  <2>1. Good(revs, drawn) /\ drawn \in Nat
    BY DEF IInv, RowOK
  <2>2. \A id \in DOMAIN revs : BodyOf(id) = revs[id].saved
    BY <2>1, GoodBodies
  <2> QED
    BY <2>1, <2>2 DEF Good
<1>2. DOMAIN h = DOMAIN revs /\ \A id \in DOMAIN revs : revs[id].base # purge => h[id] = revs[id]
  BY DEF Expanded, Dependents
<1>3. \A id \in DOMAIN revs : revs[id].base = purge
        => h[id] = [revs[id] EXCEPT !.body = revs[id].saved, !.base = 0, !.delta = <<>>]
  BY <1>1 DEF Expanded, Dependents
<1>4. \A id \in DOMAIN revs : revs[id].base = purge
        => /\ h[id] \in RevisionRecord /\ Whole(h[id]) /\ h[id].body = h[id].saved
           /\ h[id].ord = revs[id].ord /\ h[id].action = revs[id].action /\ h[id].seq = revs[id].seq
           /\ h[id].saved = revs[id].saved
  <2> SUFFICES ASSUME NEW id \in DOMAIN revs, revs[id].base = purge
               PROVE  LET r == [revs[id] EXCEPT !.body = revs[id].saved, !.base = 0, !.delta = <<>>]
                      IN /\ r \in RevisionRecord /\ r.base = 0 /\ r.body = r.saved /\ r.ord = revs[id].ord
                         /\ r.action = revs[id].action /\ r.seq = revs[id].seq /\ r.saved = revs[id].saved
    BY <1>3 DEF Whole
  <2>1. revs[id] \in RevisionRecord /\ revs[id].saved \in Texts
    BY <1>1 DEF RevisionRecord, Texts
  <2> QED
    BY <2>1 DEF RevisionRecord
<1> HIDE DEF h
<1>5. revs' = [id \in DOMAIN revs \ {purge} |-> h[id]]
  BY DEF Purge, Restrict, h
<1>6. DOMAIN revs' = DOMAIN revs \ {purge} /\ \A id \in DOMAIN revs' : revs'[id] = h[id]
  BY <1>5
<1>7. \A id \in DOMAIN revs' : revs'[id] \in RevisionRecord /\ revs'[id].ord = revs[id].ord /\ revs'[id].action = revs[id].action
                               /\ revs'[id].seq = revs[id].seq /\ revs'[id].saved = revs[id].saved
  BY <1>1, <1>2, <1>4, <1>6
<1>8. ASSUME NEW id \in DOMAIN revs'
      PROVE  /\ revs'[id].ord \in id .. drawn
             /\ revs'[id].action \in KeptWhole => revs'[id].seq = 0 /\ Whole(revs'[id])
             /\ Whole(revs'[id]) => revs'[id].body = revs'[id].saved
             /\ ~Whole(revs'[id]) => /\ revs'[id].base \in DOMAIN revs' /\ revs'[id].base < id /\ Whole(revs'[revs'[id].base])
                                     /\ revs'[revs'[id].base].action \notin NotABase
                                     /\ revs'[id].delta = <<revs'[revs'[id].base].saved, revs'[id].saved>>
  <2>0. id \in DOMAIN revs /\ Good(revs, drawn)
    BY <1>6 DEF IInv
  <2>1. CASE revs[id].base = purge
    BY <1>4, <1>6, <1>7, <2>0, <2>1 DEF Good
  <2>2. CASE revs[id].base # purge
    <3>1. revs'[id] = revs[id]
      BY <1>2, <1>6, <2>0, <2>2
    <3>2. ASSUME ~Whole(revs[id])
          PROVE  revs[id].base \in DOMAIN revs' /\ Whole(revs'[revs[id].base])
      <4>1. revs[id].base \in DOMAIN revs' /\ Whole(revs[revs[id].base])
        BY <1>6, <2>0, <2>2, <3>2 DEF Good
      <4> QED
        BY <1>2, <1>4, <1>6, <4>1
    <3> QED
      BY <1>7, <2>0, <3>1, <3>2 DEF Good
  <2> QED
    BY <2>1, <2>2
<1>9. DOMAIN revs' \subseteq 1 .. drawn /\ revs' \in [DOMAIN revs' -> RevisionRecord]
  BY <1>1, <1>5, <1>6, <1>7
<1> QED
  BY <1>6, <1>7, <1>8, <1>9 DEF Good

LEMMA CompactedRecord ==
  ASSUME NEW r \in RevisionRecord, NEW p, p.base \in Nat, p.delta \in Bodies \X Bodies
  PROVE  LET s == Compacted(r, p)
         IN /\ s \in RevisionRecord /\ s.ord = r.ord /\ s.action = r.action /\ s.seq = r.seq /\ s.saved = r.saved
            /\ s.base = p.base /\ s.delta = p.delta
BY DEF Compacted, RevisionRecord, Texts

\* A batch: what it examined becomes deltas of revisions it leaves whole, and nothing was a delta of them.
LEMMA BatchHistory ==
  ASSUME IInv, BatchCommits
  PROVE  /\ Good(revs', drawn) /\ DOMAIN revs' = DOMAIN revs
         /\ \A id \in DOMAIN revs' : revs'[id].seq = revs[id].seq /\ revs'[id].saved = revs[id].saved
<1> DEFINE P == DOMAIN run.pending
<1>1. /\ DOMAIN revs \subseteq 1 .. drawn /\ drawn \in Nat /\ Good(revs, drawn)
      /\ \A id \in DOMAIN revs : revs[id] \in RevisionRecord
  <2>1. Good(revs, drawn) /\ drawn \in Nat
    BY DEF IInv, RowOK
  <2> QED
    BY <2>1 DEF Good
<1>2. DOMAIN revs' = DOMAIN revs /\ \A id \in DOMAIN revs \ P : revs'[id] = revs[id]
  BY DEF BatchCommits
<1>3. \A id \in P : /\ id \in DOMAIN revs /\ run.pending[id].base \in DOMAIN revs \ P /\ run.pending[id].base < id
                    /\ Whole(revs[run.pending[id].base]) /\ revs[run.pending[id].base].action \notin NotABase
                    /\ run.pending[id].delta = <<revs[run.pending[id].base].saved, revs[id].saved>>
                    /\ Whole(revs[id]) /\ revs[id].action \notin KeptWhole /\ \A d \in DOMAIN revs : revs[d].base # id
  <2> SUFFICES ASSUME NEW id \in P
               PROVE  id \in DOMAIN revs /\ Whole(revs[id]) /\ revs[id].action \notin KeptWhole
                      /\ \A d \in DOMAIN revs : revs[d].base # id
    BY DEF IInv, PendingOK
  <2> QED
    BY DEF IInv, PendingOK, FoundOK, RunOK, BatchCommits
<1>4. \A id \in P : revs'[id] = Compacted(revs[id], run.pending[id])
  BY <1>3 DEF BatchCommits
<1>5. \A id \in DOMAIN revs : revs[id].saved \in Bodies
  BY <1>1 DEF RevisionRecord
<1>6. ASSUME NEW id \in P
      PROVE  /\ revs'[id] \in RevisionRecord /\ revs'[id].ord = revs[id].ord /\ revs'[id].action = revs[id].action
             /\ revs'[id].seq = revs[id].seq /\ revs'[id].saved = revs[id].saved
             /\ revs'[id].base = run.pending[id].base /\ revs'[id].delta = run.pending[id].delta
  <2> DEFINE b == run.pending[id].base
  <2>0. b \in DOMAIN revs /\ id \in DOMAIN revs /\ run.pending[id].delta = <<revs[b].saved, revs[id].saved>>
    BY <1>3
  <2>1. b \in Nat /\ run.pending[id].delta \in Bodies \X Bodies
    <3> HIDE DEF b
    <3> QED
      BY <1>1, <1>5, <2>0
  <2>2. revs[id] \in RevisionRecord /\ revs'[id] = Compacted(revs[id], run.pending[id])
    BY <1>1, <1>4, <2>0
  <2> QED
    BY <2>1, <2>2, CompactedRecord
<1> HIDE DEF P
<1>7. \A id \in DOMAIN revs' : /\ revs'[id] \in RevisionRecord /\ revs'[id].ord = revs[id].ord
                               /\ revs'[id].action = revs[id].action /\ revs'[id].seq = revs[id].seq
                               /\ revs'[id].saved = revs[id].saved
  BY <1>1, <1>2, <1>6
<1>8. ASSUME NEW id \in DOMAIN revs'
      PROVE  /\ revs'[id].ord \in id .. drawn
             /\ revs'[id].action \in KeptWhole => revs'[id].seq = 0 /\ Whole(revs'[id])
             /\ Whole(revs'[id]) => revs'[id].body = revs'[id].saved
             /\ ~Whole(revs'[id]) => /\ revs'[id].base \in DOMAIN revs' /\ revs'[id].base < id /\ Whole(revs'[revs'[id].base])
                                     /\ revs'[revs'[id].base].action \notin NotABase
                                     /\ revs'[id].delta = <<revs'[revs'[id].base].saved, revs'[id].saved>>
  <2>1. CASE id \in P
    <3> DEFINE b == run.pending[id].base
    <3>1. b \in DOMAIN revs /\ b < id /\ revs'[b] = revs[b] /\ Whole(revs[b]) /\ revs[b].action \notin NotABase
      BY <1>2, <1>3, <2>1
    <3>2. revs'[id].base = b /\ revs'[id].delta = <<revs[b].saved, revs[id].saved>> /\ revs[id].action \notin KeptWhole
      BY <1>3, <1>6, <2>1
    <3>3. b # 0
      BY <1>1, <3>1
    <3>4. revs[id].ord \in id .. drawn
      BY <1>1, <1>2 DEF Good
    <3> HIDE DEF b
    <3> QED
      BY <1>2, <1>7, <3>1, <3>2, <3>3, <3>4 DEF Whole
  <2>2. CASE id \notin P
    <3>1. revs'[id] = revs[id] /\ id \in DOMAIN revs
      BY <1>2, <2>2
    <3>2. ASSUME ~Whole(revs[id])
          PROVE  revs[id].base \in DOMAIN revs /\ revs'[revs[id].base] = revs[revs[id].base]
      BY <1>1, <1>2, <1>3, <3>1, <3>2 DEF Good
    <3> QED
      BY <1>1, <1>2, <3>1, <3>2 DEF Good
  <2> QED
    BY <2>1, <2>2
<1>9. DOMAIN revs' \subseteq 1 .. drawn /\ revs' \in [DOMAIN revs' -> RevisionRecord]
  <2>1. revs' = [id \in DOMAIN revs' |-> revs'[id]]
    BY DEF BatchCommits
  <2> QED
    BY <1>1, <1>2, <1>7, <2>1
<1> QED
  BY <1>2, <1>7, <1>8, <1>9 DEF Good

\* A quarantined text written again: nothing is a delta of it.
LEMMA QuarantineHistory ==
  ASSUME IInv, NEW body \in Bodies, Quarantine(body)
  PROVE  /\ Good(revs', drawn') /\ DOMAIN revs \subseteq DOMAIN revs' /\ DOMAIN revs' \subseteq {drawn'} \cup DOMAIN revs
         /\ \A id \in DOMAIN revs : revs'[id].seq = revs[id].seq /\ (revs[id].seq # 0 => revs'[id].saved = revs[id].saved)
         /\ \A id \in DOMAIN revs' \ DOMAIN revs : revs'[id].seq = 0
<1>1. /\ Good(revs, drawn) /\ DOMAIN revs \subseteq 1 .. drawn /\ drawn \in Nat /\ drawn' = drawn + 1
      /\ \A id \in DOMAIN revs : revs[id] \in RevisionRecord
  <2>1. Good(revs, drawn) /\ drawn \in Nat
    BY DEF IInv, RowOK
  <2>2. drawn' = drawn + 1
    BY DEF Quarantine
  <2> QED
    BY <2>1, <2>2 DEF Good
<1>2. CASE revs' = With(revs, drawn', "quarantine", body, 0, 0)
  <2>1. DOMAIN revs' = {drawn'} \cup DOMAIN revs /\ \A id \in DOMAIN revs : revs'[id] = revs[id]
    BY <1>1, <1>2 DEF With
  <2>2. revs'[drawn'].seq = 0
    BY <1>2 DEF With, Revision
  <2>3. Good(revs', drawn')
    <3>1. drawn' \notin DOMAIN revs /\ drawn' \in 1 .. drawn' /\ "quarantine" \in Actions /\ 0 \in 0 .. MaxOrd
      BY <1>1, HistoryConstants DEF Actions
    <3> QED
      BY <1>1, <1>2, <3>1, WithGood
  <2> QED
    BY <2>1, <2>2, <2>3
<1>3. CASE \E id \in DOMAIN revs :
             /\ revs[id].action = "quarantine"
             /\ revs' = [revs EXCEPT ![id].body = body, ![id].saved = body, ![id].ord = drawn']
  <2>1. PICK q \in DOMAIN revs :
          /\ revs[q].action = "quarantine"
          /\ revs' = [revs EXCEPT ![q].body = body, ![q].saved = body, ![q].ord = drawn']
    BY <1>3
  <2>2. revs[q].seq = 0 /\ Whole(revs[q]) /\ \A id \in DOMAIN revs : ~Whole(revs[id]) => revs[id].base # q
    BY <1>1, <2>1 DEF Good, KeptWhole, NotABase
  <2>3. DOMAIN revs' = DOMAIN revs /\ \A id \in DOMAIN revs \ {q} : revs'[id] = revs[id]
    BY <2>1
  <2>4. revs'[q] = [revs[q] EXCEPT !.body = body, !.saved = body, !.ord = drawn']
    BY <1>1, <2>1 DEF RevisionRecord
  <2>5. /\ revs'[q] \in RevisionRecord /\ revs'[q].body = body /\ revs'[q].saved = body /\ revs'[q].ord = drawn'
        /\ revs'[q].seq = revs[q].seq /\ revs'[q].action = revs[q].action /\ revs'[q].base = revs[q].base
    <3>1. drawn' \in Nat /\ body \in Texts
      BY <1>1 DEF Texts
    <3> QED
      BY <1>1, <2>4, <3>1 DEF RevisionRecord
  <2>6. revs' \in [DOMAIN revs' -> RevisionRecord] /\ DOMAIN revs' \subseteq 1 .. drawn'
    <3>1. revs' = [id \in DOMAIN revs' |-> revs'[id]]
      BY <2>1
    <3> QED
      BY <1>1, <2>3, <2>5, <3>1
  <2>7. ASSUME NEW id \in DOMAIN revs'
        PROVE  /\ revs'[id].ord \in id .. drawn'
               /\ revs'[id].action \in KeptWhole => revs'[id].seq = 0 /\ Whole(revs'[id])
               /\ Whole(revs'[id]) => revs'[id].body = revs'[id].saved
               /\ ~Whole(revs'[id]) => /\ revs'[id].base \in DOMAIN revs' /\ revs'[id].base < id /\ Whole(revs'[revs'[id].base])
                                       /\ revs'[revs'[id].base].action \notin NotABase
                                       /\ revs'[id].delta = <<revs'[revs'[id].base].saved, revs'[id].saved>>
    <3>1. CASE id = q
      BY <1>1, <2>2, <2>3, <2>5, <3>1 DEF Whole
    <3>2. CASE id # q
      <4>1. revs'[id] = revs[id] /\ id \in DOMAIN revs /\ id \in Nat /\ revs[id].ord \in id .. drawn
        BY <1>1, <2>3, <3>2 DEF Good
      <4>2. ~Whole(revs[id]) => revs'[revs[id].base] = revs[revs[id].base]
        BY <1>1, <2>2, <2>3, <4>1 DEF Good
      <4> QED
        BY <1>1, <2>3, <4>1, <4>2 DEF Good
    <3> QED
      BY <3>1, <3>2
  <2>8. Good(revs', drawn')
    BY <2>6, <2>7 DEF Good
  <2> QED
    BY <2>2, <2>3, <2>5, <2>8
<1> QED
  BY <1>2, <1>3 DEF Quarantine

\* One revision more.
LEMMA AddedHistory ==
  ASSUME IInv, NEW ord, ord \notin DOMAIN revs, NEW top \in Nat, drawn <= top, ord \in 1 .. top,
         NEW action \in Actions, NEW body \in Bodies, NEW seq \in Nat, NEW source \in 0 .. MaxOrd,
         action \in KeptWhole => seq = 0, revs' = With(revs, ord, action, body, seq, source)
  PROVE  /\ Good(revs', top) /\ DOMAIN revs' = {ord} \cup DOMAIN revs /\ \A id \in DOMAIN revs : revs'[id] = revs[id]
         /\ revs'[ord].seq = seq /\ revs'[ord].saved = body /\ Whole(revs'[ord]) /\ revs'[ord].base = 0
<1>1. Good(revs, drawn) /\ drawn \in Nat
  BY DEF IInv, RowOK
<1>2. Good(revs', top)
  BY <1>1, WithGood
<1>3. DOMAIN revs' = {ord} \cup DOMAIN revs /\ \A id \in DOMAIN revs : revs'[id] = revs[id]
  BY DEF With
<1>4. revs'[ord] = Revision(ord, action, body, seq, source)
  BY DEF With
<1> QED
  BY <1>2, <1>3, <1>4 DEF Revision, Whole

\* A write, a rebase that changes the text, a text kept beside the note: one revision with the next `ord`.
LEMMA NextOrd ==
  ASSUME IInv
  PROVE  drawn \in Nat /\ drawn + 1 \notin DOMAIN revs /\ drawn + 1 \in 1 .. drawn + 1 /\ DOMAIN revs \subseteq 1 .. drawn
BY DEF IInv, RowOK, Good

\* A merge that changes the text: the row's revision, then the merge's.
LEMMA MergedHistory ==
  ASSUME IInv, NEW merged \in Bodies, Rebase(merged), merged # row.body
  PROVE  /\ Good(revs', drawn') /\ drawn' \in {drawn + 1, drawn + 2}
         /\ DOMAIN revs' = {drawn'} \cup DOMAIN AtSeq.revs /\ \A id \in DOMAIN AtSeq.revs : revs'[id] = AtSeq.revs[id]
         /\ revs'[drawn'].seq = row.seq + 1 /\ revs'[drawn'].saved = merged
<1> DEFINE h == AtSeq.revs
           top == AtSeq.drawn
<1>1. top \in {drawn, drawn + 1} /\ Good(h, top) /\ drawn \in Nat /\ row.seq \in Nat
  BY AtSeqHistory DEF IInv, RowOK
<1>2. drawn' = top + 1 /\ revs' = With(h, drawn', "update", merged, row.seq + 1, 0)
  <2>1. row' = [seq |-> row.seq + 1, body |-> merged]
    BY DEF Rebase
  <2>2. row'.seq = row.seq + 1
    BY <2>1
  <2> QED
    BY <2>2 DEF Rebase
<1> HIDE DEF h, top
<1>3. drawn' \notin DOMAIN h /\ drawn' \in 1 .. drawn'
  BY <1>1, <1>2 DEF Good
<1>4. Good(revs', drawn')
  <2>1. "update" \in Actions \ KeptWhole /\ 0 \in 0 .. MaxOrd
    BY HistoryConstants DEF Actions, KeptWhole
  <2> QED
    BY <1>1, <1>2, <1>3, <2>1, WithGood
<1>5. DOMAIN revs' = {drawn'} \cup DOMAIN h /\ \A id \in DOMAIN h : revs'[id] = h[id]
  BY <1>2, <1>3 DEF With
<1>6. revs'[drawn'] = Revision(drawn', "update", merged, row.seq + 1, 0)
  BY <1>2 DEF With
<1> QED
  BY <1>1, <1>2, <1>4, <1>5, <1>6 DEF Revision, h, top

\* An import: whole revisions, without a seq, that were not there.
LEMMA ImportHistory ==
  ASSUME IInv, NEW history \in Imports, Import(history)
  PROVE  /\ Good(revs', drawn') /\ DOMAIN revs' = drawn + 1 .. drawn' /\ drawn' \in Nat /\ drawn <= drawn'
         /\ \A id \in DOMAIN revs' : revs'[id].seq = 0 /\ revs'[id].base = 0
<1>1. drawn \in Nat /\ history \in Seq(Bodies) /\ drawn' = drawn + Len(history) /\ drawn' \in Nat
  BY HistoryConstants DEF IInv, RowOK, Import
<1>2. revs' = [id \in drawn + 1 .. drawn' |-> Revision(id, "import", history[id - drawn], 0, 0)]
  BY DEF Import
<1>3. \A id \in drawn + 1 .. drawn' : id \in 1 .. drawn' /\ history[id - drawn] \in Bodies
  BY <1>1
<1>4. \A id \in drawn + 1 .. drawn' :
        LET r == Revision(id, "import", history[id - drawn], 0, 0)
        IN /\ r \in RevisionRecord /\ r.ord = id /\ r.body = r.saved /\ r.base = 0 /\ r.seq = 0 /\ r.action \notin KeptWhole
  BY <1>1, <1>3, HistoryConstants DEF Revision, RevisionRecord, Texts, Actions, KeptWhole
<1>5. \A id \in DOMAIN revs' : revs'[id] \in RevisionRecord /\ revs'[id].ord = id /\ revs'[id].body = revs'[id].saved
                               /\ revs'[id].base = 0 /\ revs'[id].seq = 0 /\ revs'[id].action \notin KeptWhole
  BY <1>2, <1>4
<1>6. DOMAIN revs' \subseteq 1 .. drawn' /\ revs' \in [DOMAIN revs' -> RevisionRecord]
  BY <1>2, <1>3, <1>5
<1> QED
  BY <1>1, <1>2, <1>5, <1>6 DEF Good, Whole
-----------------------------------------------------------------------------
(* One lemma per part of the invariant *)

LEMMA GoodStep ==
  ASSUME IInv, [Next]_vars
  PROVE  Good(revs, drawn)' /\ drawn' \in Nat /\ drawn <= drawn'
<1>0. Good(revs, drawn) /\ drawn \in 1 .. MaxOrd /\ 0 \in 0 .. MaxOrd /\ row.seq \in Nat /\ row.body \in Bodies
  BY HistoryConstants DEF IInv, RowOK
<1>a. drawn \in Nat /\ drawn <= drawn /\ drawn + 1 \in Nat /\ drawn <= drawn + 1 /\ drawn + 1 \in 1 .. drawn + 1 /\ drawn + 1 \notin DOMAIN revs
  BY <1>0, NextOrd
<1>1. ASSUME NEW body \in Bodies, Write(body) PROVE Good(revs', drawn') /\ drawn' = drawn + 1
  <2>1. drawn' = drawn + 1 /\ revs' = With(revs, drawn + 1, "update", body, row.seq + 1, 0) /\ row.seq + 1 \in Nat
    <3>1. row' = [seq |-> row.seq + 1, body |-> body] /\ drawn' = drawn + 1 /\ revs' = With(revs, drawn', "update", body, row'.seq, 0)
      BY <1>1 DEF Write
    <3>2. row'.seq = row.seq + 1
      BY <3>1
    <3> QED
      BY <1>0, <3>1, <3>2
  <2>2. "update" \in Actions \ KeptWhole
    BY DEF Actions, KeptWhole
  <2> QED
    BY <1>0, <1>a, <2>1, <2>2, AddedHistory
<1>2. CASE Repeat
  <2>1. drawn' = drawn + 1 /\ revs' = With(revs, drawn + 1, "update", row.body, 0, 0)
    BY <1>2 DEF Repeat
  <2>2. "update" \in Actions
    BY DEF Actions
  <2> QED
    BY <1>0, <1>a, <2>1, <2>2, AddedHistory
<1>3. ASSUME NEW body \in Bodies, Rebase(body) PROVE Good(revs', drawn') /\ drawn' \in {drawn, drawn + 1, drawn + 2}
  <2>1. CASE body = row.body
    BY <1>3, <2>1, AtSeqHistory DEF Rebase
  <2>2. CASE body # row.body
    BY <1>3, <2>2, MergedHistory
  <2> QED
    BY <2>1, <2>2
<1>4. ASSUME NEW body \in Bodies, Quarantine(body) PROVE Good(revs', drawn') /\ drawn' = drawn + 1
  <2>1. drawn' = drawn + 1
    BY <1>4 DEF Quarantine
  <2> QED
    BY <1>4, <2>1, QuarantineHistory
<1>5. ASSUME NEW source \in DOMAIN revs, NEW body \in Bodies, Propose(source, body) PROVE Good(revs', drawn') /\ drawn' = drawn + 1
  <2>1. drawn' = drawn + 1 /\ revs' = With(revs, drawn + 1, "proposal", body, 0, source)
    BY <1>5 DEF Propose
  <2>2. "proposal" \in Actions /\ source \in 0 .. MaxOrd
    BY <1>0, NextOrd, HistoryConstants DEF Actions
  <2> QED
    BY <1>0, <1>a, <2>1, <2>2, AddedHistory
<1>6. CASE PointKept
  <2>1. drawn' = drawn
    BY <1>6 DEF PointKept
  <2>2. CASE point.landed
    <3>1. revs' = With(revs, point.ord, "restore_point", point.body, 0, 0)
      BY <1>6, <2>2 DEF PointKept
    <3>2. point.ord \in 1 .. drawn /\ point.ord \notin DOMAIN revs /\ point.body \in Bodies /\ "restore_point" \in Actions
      BY <1>6 DEF PointKept, IInv, PointOK, Actions
    <3> QED
      BY <1>0, <1>a, <2>1, <3>1, <3>2, AddedHistory
  <2>3. CASE ~point.landed
    BY <1>0, <1>6, <2>3 DEF PointKept
  <2> QED
    BY <1>0, <1>a, <2>1, <2>2, <2>3
<1>7. ASSUME NEW history \in Imports, Import(history) PROVE Good(revs', drawn') /\ drawn' \in Nat /\ drawn <= drawn'
  BY <1>7, ImportHistory
<1>8. CASE Purge
  <2>1. drawn' = drawn
    BY <1>8 DEF Purge
  <2> QED
    BY <1>a, <1>8, <2>1, PurgeHistory
<1>9. CASE BatchCommits
  <2>1. drawn' = drawn
    BY <1>9 DEF BatchCommits
  <2> QED
    BY <1>a, <1>9, <2>1, BatchHistory
<1>10. CASE Reboot
  BY <1>0, <1>a, <1>10, AtSeqHistory DEF Reboot
<1>11. CASE UNCHANGED <<revs, drawn>>
  BY <1>0, <1>a, <1>11
<1>12. CASE PointTaken
  <2>1. revs' = revs /\ drawn' = drawn + 1
    BY <1>12 DEF PointTaken
  <2> QED
    BY <1>0, <1>a, <2>1 DEF Good
<1>13. \/ \E body \in Bodies : Write(body) \/ Rebase(body) \/ Quarantine(body)
       \/ Repeat \/ PointKept \/ Purge \/ BatchCommits \/ Reboot \/ PointTaken \/ UNCHANGED <<revs, drawn>>
       \/ \E source \in DOMAIN revs, body \in Bodies : Propose(source, body)
       \/ \E history \in Imports : Import(history)
  BY DEF Next, Recorded, Compaction, Seed, ChangeOutside, PurgeFinds, RunStarts, BatchStarts, Examine, RunFails, vars
<1> QED
  BY <1>0, <1>a, <1>1, <1>2, <1>3, <1>4, <1>5, <1>6, <1>7, <1>8, <1>9, <1>10, <1>11, <1>12, <1>13

LEMMA RowStep ==
  ASSUME IInv, [Next]_vars
  PROVE  RowOK'
<1>0. /\ row \in [seq : Nat \ {0}, body : Bodies] /\ folded \in 0 .. row.seq /\ drawn \in 1 .. MaxOrd /\ mark \in 0 .. drawn
      /\ due \in Nat /\ purge \in 0 .. drawn /\ around \subseteq 1 .. row.seq /\ importing \in BOOLEAN
  BY DEF IInv, RowOK
<1>a. \A s \in Nat : DueAt(s) \in Nat
  BY <1>0 DEF DueAt
<1>b. AtSeq.drawn \in {drawn, drawn + 1} /\ DOMAIN revs \subseteq 1 .. drawn
  BY AtSeqHistory, NextOrd
<1>c. run.after \in 0 .. drawn /\ run.done \subseteq 1 .. drawn /\ (run.at # "none" => due - 1 \in Nat)
  BY <1>0 DEF IInv, RunOK
<1> USE <1>0 DEF RowOK
<1>1. ASSUME NEW body \in Bodies, Write(body) PROVE RowOK'
  <2>1. row' = [seq |-> row.seq + 1, body |-> body] /\ drawn' = drawn + 1 /\ drawn' \in 1 .. MaxOrd /\ folded' \in {folded, row'.seq}
    BY <1>1, HistoryConstants DEF Write, CanDraw
  <2>2. due' \in Nat /\ mark' = mark /\ purge' = purge /\ around' = around /\ importing' = importing
    BY <1>1, <1>a, <2>1 DEF Write
  <2> QED
    BY <2>1, <2>2
<1>2. ASSUME NEW body \in Bodies, ChangeOutside(body) PROVE RowOK'
  <2>1. /\ row' = [seq |-> row.seq + 1, body |-> body] /\ around' = around \cup {row'.seq}
        /\ UNCHANGED <<folded, drawn, mark, due, purge, importing>>
    BY <1>2 DEF ChangeOutside
  <2>2. row'.seq = row.seq + 1 /\ row' \in [seq : Nat \ {0}, body : Bodies]
    BY <2>1
  <2>3. around' \subseteq 1 .. row'.seq /\ folded' \in 0 .. row'.seq
    <3>1. around' = around \cup {row.seq + 1} /\ folded' = folded
      BY <2>1, <2>2
    <3>2. 1 .. row.seq + 1 = {row.seq + 1} \cup (1 .. row.seq)
      OBVIOUS
    <3>3. around' \subseteq 1 .. row.seq + 1
      <4>1. around \subseteq 1 .. row.seq
        OBVIOUS
      <4> QED
        BY <3>1, <3>2, <4>1
    <3>4. folded' \in 0 .. row.seq + 1
      BY <3>1
    <3> QED
      BY <2>2, <3>3, <3>4
  <2> QED
    BY <2>1, <2>2, <2>3
<1>3. ASSUME NEW body \in Bodies, Rebase(body) PROVE RowOK'
  <2>1. /\ mark' = mark /\ purge' = purge /\ importing' = importing /\ around' \subseteq around
        /\ drawn' \in {AtSeq.drawn, AtSeq.drawn + 1} /\ drawn' \in 1 .. MaxOrd
    BY <1>3, <1>b, HistoryConstants DEF Rebase
  <2>2. CASE body = row.body
    <3>1. row' = row /\ folded' = row.seq /\ due' = due
      BY <1>3, <2>2 DEF Rebase
    <3> QED
      BY <1>b, <2>1, <3>1
  <2>3. CASE body # row.body
    <3>1. row' = [seq |-> row.seq + 1, body |-> body] /\ folded' = row'.seq /\ due' = DueAt(row'.seq)
      BY <1>3, <2>3 DEF Rebase
    <3>2. row'.seq = row.seq + 1 /\ due' \in Nat
      BY <1>a, <3>1
    <3> QED
      BY <1>b, <2>1, <3>1, <3>2
  <2> QED
    BY <2>2, <2>3
<1>4. CASE Repeat \/ Seed \/ PointTaken \/ PointKept \/ RunStarts \/ BatchStarts \/ Examine
  <2>1. UNCHANGED <<row, mark, due, purge, around, importing>> /\ folded' \in {folded, row.seq}
    BY <1>4 DEF Repeat, Seed, PointTaken, PointKept, RunStarts, BatchStarts, Examine
  <2>2. Repeat \/ PointTaken => drawn' = drawn + 1 /\ drawn < MaxOrd
    BY DEF Repeat, PointTaken, CanDraw
  <2>3. Seed \/ PointKept \/ RunStarts \/ BatchStarts \/ Examine => drawn' = drawn
    BY DEF Seed, PointKept, RunStarts, BatchStarts, Examine
  <2>4. drawn' \in 1 .. MaxOrd /\ drawn <= drawn'
    BY <1>4, <2>2, <2>3, HistoryConstants
  <2> QED
    BY <2>1, <2>4
<1>5. ASSUME NEW body \in Bodies, NEW source, Quarantine(body) \/ Propose(source, body) PROVE RowOK'
  <2>1. drawn' = drawn + 1 /\ drawn < MaxOrd /\ UNCHANGED <<row, folded, mark, due, purge, around, importing>>
    BY <1>5 DEF Quarantine, Propose, CanDraw
  <2> QED
    BY <2>1, HistoryConstants
<1>6. ASSUME NEW history \in Imports, Import(history) PROVE RowOK'
  <2>1. drawn' \in Nat /\ drawn <= drawn'
    BY <1>6, ImportHistory
  <2>2. drawn' <= MaxOrd /\ around' = 1 .. row.seq /\ importing' \in BOOLEAN /\ UNCHANGED <<row, folded, mark, due, purge>>
    BY <1>6 DEF Import
  <2>3. drawn' \in 1 .. MaxOrd /\ mark' \in 0 .. drawn' /\ purge' \in 0 .. drawn'
    BY <2>1, <2>2, HistoryConstants
  <2> QED
    BY <2>2, <2>3
<1>7. ASSUME NEW id \in DOMAIN revs, PurgeFinds(id) PROVE RowOK'
  BY <1>7, <1>b DEF PurgeFinds
<1>8. CASE Purge
  <2>1. mark' \in Oldest({mark} \cup {d - 1 : d \in Dependents(purge)}) /\ Dependents(purge) \subseteq 1 .. drawn
    BY <1>8, <1>b DEF Purge, MovedBack, Dependents
  <2>2. mark' <= mark /\ mark' \in Nat
    BY <2>1 DEF Oldest
  <2>3. purge' = 0 /\ UNCHANGED <<row, folded, drawn, due, around, importing>>
    BY <1>8 DEF Purge
  <2> QED
    BY <2>2, <2>3
<1>9. CASE BatchCommits
  <2>1. due' \in Nat
    BY <1>9, <1>c DEF BatchCommits
  <2>2. mark' \in {mark, run.after} \cup run.done
    BY <1>9 DEF BatchCommits, Newest
  <2>3. UNCHANGED <<row, folded, drawn, purge, around, importing>>
    BY <1>9 DEF BatchCommits
  <2> QED
    BY <1>c, <2>1, <2>2, <2>3
<1>10. CASE RunFails
  BY <1>10, <1>c DEF RunFails
<1>11. CASE Reboot
  <2>1. due' \in {due, due + 1} /\ purge' = 0 /\ importing' \in BOOLEAN /\ UNCHANGED <<row, folded, mark>>
    BY <1>11 DEF Reboot
  <2>2. around' \subseteq around /\ (drawn' = drawn \/ (drawn' = AtSeq.drawn /\ drawn' <= MaxOrd))
    BY <1>11 DEF Reboot
  <2>3. drawn' \in 1 .. MaxOrd /\ mark' \in 0 .. drawn' /\ purge' \in 0 .. drawn' /\ due' \in Nat
    BY <1>b, <2>1, <2>2, HistoryConstants
  <2> QED
    BY <2>1, <2>2, <2>3
<1>12. CASE UNCHANGED vars
  BY <1>12 DEF vars
<1> QED
  BY <1>1, <1>2, <1>3, <1>4, <1>5, <1>6, <1>7, <1>8, <1>9, <1>10, <1>11, <1>12 DEF Next, Recorded, Compaction

\* What a step adds to the history is past what was drawn, but for a restore point.
LEMMA DomainStep ==
  ASSUME IInv, [Next]_vars
  PROVE  PointKept \/ \A id \in DOMAIN revs' : id \in DOMAIN revs \/ id \in drawn + 1 .. drawn'
<1> DEFINE Past == \A id \in DOMAIN revs' : id \in DOMAIN revs \/ id \in drawn + 1 .. drawn'
<1>0. drawn \in Nat
  BY DEF IInv, RowOK
<1>1. ASSUME NEW body \in Bodies, Write(body) PROVE Past
  BY <1>0, <1>1 DEF Write, With
<1>2. CASE Repeat
  BY <1>0, <1>2 DEF Repeat, With
<1>3. ASSUME NEW body \in Bodies, Rebase(body) PROVE Past
  <2>1. CASE body = row.body
    <3>1. revs' = AtSeq.revs /\ drawn' = AtSeq.drawn
      BY <1>3, <2>1 DEF Rebase
    <3> QED
      BY <1>0, <3>1, AtSeqHistory
  <2>2. CASE body # row.body
    <3>1. drawn' \in {drawn + 1, drawn + 2} /\ DOMAIN revs' = {drawn'} \cup DOMAIN AtSeq.revs
      BY <1>3, <2>2, MergedHistory
    <3> QED
      BY <1>0, <3>1, AtSeqHistory
  <2> QED
    BY <2>1, <2>2
<1>4. ASSUME NEW body \in Bodies, Quarantine(body) PROVE Past
  <2>1. drawn' = drawn + 1
    BY <1>4 DEF Quarantine
  <2> QED
    BY <1>0, <1>4, <2>1, QuarantineHistory
<1>5. ASSUME NEW source \in DOMAIN revs, NEW body \in Bodies, Propose(source, body)
      PROVE  Past
  BY <1>0, <1>5 DEF Propose, With
<1>6. ASSUME NEW history \in Imports, Import(history) PROVE Past
  BY <1>6, ImportHistory
<1>7. CASE Purge
  BY <1>7, PurgeHistory
<1>8. CASE BatchCommits
  BY <1>8, BatchHistory
<1>9. CASE Reboot
  BY <1>0, <1>9, AtSeqHistory DEF Reboot
<1>10. \/ \E body \in Bodies : Write(body) \/ Rebase(body) \/ Quarantine(body)
       \/ Repeat \/ PointKept \/ Purge \/ BatchCommits \/ Reboot \/ UNCHANGED revs
       \/ \E source \in DOMAIN revs, body \in Bodies : Propose(source, body)
       \/ \E history \in Imports : Import(history)
  BY DEF Next, Recorded, Compaction, Seed, ChangeOutside, PointTaken, PurgeFinds, RunStarts, BatchStarts, Examine, RunFails, vars
<1>11. Repeat \/ Purge \/ BatchCommits \/ Reboot \/ UNCHANGED revs => PointKept \/ Past
  BY <1>2, <1>7, <1>8, <1>9
<1> HIDE DEF Past
<1>12. PointKept \/ Past
  BY <1>1, <1>3, <1>4, <1>5, <1>6, <1>10, <1>11
<1> QED
  BY <1>12 DEF Past

LEMMA PointStep ==
  ASSUME IInv, [Next]_vars
  PROVE  PointOK'
<1>0. /\ point \in [ord : Nat, body : Texts, landed : BOOLEAN] /\ row.body \in Bodies /\ drawn \in Nat
      /\ DOMAIN revs \subseteq 1 .. drawn
      /\ point # NoPoint => point.ord \in 1 .. drawn /\ point.ord \notin DOMAIN revs /\ point.body \in Bodies
  BY NextOrd DEF IInv, PointOK, RowOK
<1>1. drawn' \in Nat /\ drawn <= drawn' /\ (PointKept \/ \A id \in DOMAIN revs' : id \in DOMAIN revs \/ id \in drawn + 1 .. drawn')
  BY GoodStep, DomainStep
<1>2. NoPoint \in [ord : Nat, body : Texts, landed : BOOLEAN]
  BY DEF NoPoint, Texts
<1>3. CASE PointKept \/ Reboot
  BY <1>2, <1>3 DEF PointKept, Reboot, PointOK
<1>4. CASE PointTaken
  <2>1. drawn' = drawn + 1 /\ revs' = revs /\ point' = [ord |-> drawn + 1, body |-> row.body, landed |-> FALSE]
    BY <1>4 DEF PointTaken
  <2>2. row.body \in Texts
    BY <1>0 DEF Texts
  <2>3. point' \in [ord : Nat, body : Texts, landed : BOOLEAN] /\ point'.ord = drawn + 1 /\ point'.body = row.body
    BY <1>0, <2>1, <2>2
  <2> QED
    BY <1>0, <2>1, <2>3 DEF PointOK
<1>5. CASE Repeat \/ \E body \in Bodies : Write(body)
  <2>1. point' = [point EXCEPT !.landed = @ \/ point.ord > 0] /\ ~PointKept
    <3>1. point' = [point EXCEPT !.landed = @ \/ point.ord > 0] /\ drawn' = drawn + 1
      BY <1>5 DEF Repeat, Write
    <3>2. PointKept => drawn' = drawn
      BY DEF PointKept
    <3> QED
      BY <1>0, <3>1, <3>2
  <2>2. /\ point' \in [ord : Nat, body : Texts, landed : BOOLEAN] /\ point'.ord = point.ord /\ point'.body = point.body
        /\ point = NoPoint => point' = NoPoint
    <3>1. (point.landed \/ point.ord > 0) \in BOOLEAN
      OBVIOUS
    <3>2. point = NoPoint => ~point.landed /\ ~(point.ord > 0) /\ point.landed = FALSE
      BY DEF NoPoint
    <3> QED
      BY <1>0, <2>1, <3>1, <3>2
  <2> QED
    BY <1>0, <1>1, <2>1, <2>2 DEF PointOK
<1>6. CASE UNCHANGED point /\ ~PointKept
  BY <1>0, <1>1, <1>6 DEF PointOK
<1>7. PointKept \/ Reboot \/ PointTaken \/ Repeat \/ (\E body \in Bodies : Write(body)) \/ UNCHANGED point
  BY DEF Next, Recorded, Compaction, Seed, ChangeOutside, Rebase, Quarantine, Propose, Import, Purge, PurgeFinds, RunStarts,
         BatchStarts, Examine, BatchCommits, RunFails, vars
<1> QED
  BY <1>3, <1>4, <1>5, <1>6, <1>7

\* What a step is for a batch: one that does not see a batch, one that leaves it alone, one of those that go on beside it, one
\* of its own, or its end.
LEMMA BatchKinds ==
  ASSUME [Next]_vars
  PROVE  \/ LockFree /\ run' = run
         \/ UNCHANGED <<revs, run, point>>
         \/ PointTaken \/ PointKept \/ (\E history \in Imports : Import(history))
         \/ BatchStarts \/ Examine
         \/ run'.at # "batch" /\ run'.pending = <<>>
<1>1. RunStarts \/ BatchCommits \/ RunFails \/ Reboot => run'.at # "batch" /\ run'.pending = <<>>
  <2>1. RunStarts => run'.at # "batch" /\ run'.pending = <<>>
    BY DEF RunStarts, NoRun
  <2>2. BatchCommits => run'.at # "batch" /\ run'.pending = <<>>
    BY DEF BatchCommits, NoRun
  <2>3. RunFails \/ Reboot => run'.at # "batch" /\ run'.pending = <<>>
    BY DEF RunFails, Reboot, NoRun
  <2> QED
    BY <2>1, <2>2, <2>3
<1>2. (\E body \in Bodies : Write(body) \/ Rebase(body) \/ Quarantine(body)) \/ Repeat \/ Seed \/ Purge
      \/ (\E source \in DOMAIN revs, body \in Bodies : Propose(source, body)) => LockFree /\ run' = run
  BY DEF Write, Rebase, Quarantine, Repeat, Seed, Purge, Propose
<1>3. (\E body \in Bodies : ChangeOutside(body)) \/ (\E id \in DOMAIN revs : PurgeFinds(id)) \/ UNCHANGED vars
      => UNCHANGED <<revs, run, point>>
  BY DEF ChangeOutside, PurgeFinds, vars
<1> QED
  BY <1>1, <1>2, <1>3 DEF Next, Recorded, Compaction

\* What a revision may be to be looked at, and what its delta is if it gets one.
LEMMA ExamineFacts ==
  ASSUME IInv, NEW id \in run.found \ run.done, NEW b \in BaseOf(id)
  PROVE  /\ id \in DOMAIN revs /\ b \in DOMAIN revs \ DOMAIN run.pending /\ b < id /\ Whole(revs[b])
         /\ revs[b].action \notin NotABase /\ b \in Nat
         /\ revs[b].body = revs[b].saved /\ revs[b].body \in Bodies
         /\ LET cache == IF run.cache[1] = b THEN run.cache ELSE <<b, revs[b].body>>
            IN /\ cache \in Nat \X Texts
               /\ StillWhole(id) /\ Patch(revs[b].body, <<cache[2], revs[id].body>>) = revs[id].body
                  => /\ <<cache[2], revs[id].body>> = <<revs[b].saved, revs[id].saved>>
                     /\ <<cache[2], revs[id].body>> \in Bodies \X Bodies
<1>1. Good(revs, drawn) /\ run.cache \in Nat \X Texts /\ DOMAIN revs \subseteq 1 .. drawn /\ drawn \in Nat
  BY NextOrd DEF IInv, RunOK, RunRecord
<1>2. id \in DOMAIN revs /\ b \in DOMAIN revs /\ b < id /\ StillWhole(b) /\ revs[b].action \notin NotABase
  BY DEF BaseOf, Newest
<1>3. Whole(revs[b]) /\ b \notin DOMAIN run.pending
  BY <1>2 DEF StillWhole
<1>4. revs[b].body = revs[b].saved /\ revs[b].saved \in Bodies /\ revs[id].saved \in Bodies
      /\ (Whole(revs[id]) => revs[id].body = revs[id].saved)
  BY <1>1, <1>2, <1>3 DEF Good, RevisionRecord
<1> DEFINE cache == IF run.cache[1] = b THEN run.cache ELSE <<b, revs[b].body>>
<1>5. cache \in Nat \X Texts
  BY <1>1, <1>2, <1>4 DEF Texts
<1>6. ASSUME StillWhole(id), Patch(revs[b].body, <<cache[2], revs[id].body>>) = revs[id].body
      PROVE  cache[2] = revs[b].body /\ revs[id].body = revs[id].saved
  <2>1. revs[id].body = revs[id].saved
    BY <1>4, <1>6 DEF StillWhole
  <2> HIDE DEF cache
  <2>2. revs[id].body # 0
    BY <1>4, <2>1, HistoryConstants
  <2>3. revs[b].body = cache[2]
    BY <1>6, <2>2 DEF Patch
  <2> QED
    BY <2>1, <2>3
<1> HIDE DEF cache
<1>7. StillWhole(id) /\ Patch(revs[b].body, <<cache[2], revs[id].body>>) = revs[id].body
      => /\ <<cache[2], revs[id].body>> = <<revs[b].saved, revs[id].saved>>
         /\ <<cache[2], revs[id].body>> \in Bodies \X Bodies
  BY <1>4, <1>6
<1>8. b \in Nat
  BY <1>1, <1>2
<1> QED
  BY <1>2, <1>3, <1>4, <1>5, <1>7, <1>8 DEF cache

\* A revision examined: whole as it was, or with a delta of its base.
LEMMA ExamineKinds ==
  ASSUME IInv, Examine
  PROVE  \E id \in Oldest(run.found \ run.done) :
           /\ run' \in RunRecord /\ run'.at = "batch" /\ run'.after = run.after /\ run'.found = run.found
           /\ run'.done = run.done \cup {id}
           /\ \/ run'.pending = run.pending
              \/ \E b \in BaseOf(id) :
                   run'.pending = [n \in {id} \cup DOMAIN run.pending |->
                                     IF n = id THEN [base |-> b, delta |-> <<revs[b].saved, revs[id].saved>>] ELSE run.pending[n]]
<1>1. /\ run \in RunRecord /\ run.at = "batch" /\ run.found \subseteq Nat
      /\ run.pending \in [DOMAIN run.pending -> PendingRecord] /\ DOMAIN run.pending \in SUBSET Nat
  <2>1. run.at = "batch"
    BY DEF Examine
  <2>2. run \in RunRecord /\ run.found \subseteq Nat /\ run.pending \in UNION {[D -> PendingRecord] : D \in SUBSET Nat}
    BY DEF IInv, RunOK, RunRecord
  <2>3. PICK D \in SUBSET Nat : run.pending \in [D -> PendingRecord]
    BY <2>2
  <2> QED
    BY <2>1, <2>2, <2>3
<1>2. PICK id \in Oldest(run.found \ run.done) :
        \/ run' = [run EXCEPT !.done = @ \cup {id}]
        \/ \E b \in BaseOf(id) :
            LET cache == IF run.cache[1] = b THEN run.cache ELSE <<b, revs[b].body>>
                delta == <<cache[2], revs[id].body>>
            IN run' = [run EXCEPT !.done = @ \cup {id}, !.cache = cache,
                         !.pending = IF StillWhole(id) /\ Patch(revs[b].body, delta) = revs[id].body
                                     THEN [n \in {id} \cup DOMAIN @ |-> IF n = id THEN [base |-> b, delta |-> delta] ELSE @[n]]
                                     ELSE @]
  BY DEF Examine
<1>3. id \in run.found \ run.done /\ id \in Nat
  BY <1>1 DEF Oldest
<1>4. CASE run' = [run EXCEPT !.done = @ \cup {id}]
  <2>1. /\ run' \in RunRecord /\ run'.at = "batch" /\ run'.after = run.after /\ run'.found = run.found
        /\ run'.done = run.done \cup {id} /\ run'.pending = run.pending
    BY <1>1, <1>3, <1>4 DEF RunRecord
  <2> QED
    BY <1>2, <2>1
<1>5. ASSUME NEW b \in BaseOf(id),
             LET cache == IF run.cache[1] = b THEN run.cache ELSE <<b, revs[b].body>>
                 delta == <<cache[2], revs[id].body>>
             IN run' = [run EXCEPT !.done = @ \cup {id}, !.cache = cache,
                          !.pending = IF StillWhole(id) /\ Patch(revs[b].body, delta) = revs[id].body
                                      THEN [n \in {id} \cup DOMAIN @ |-> IF n = id THEN [base |-> b, delta |-> delta] ELSE @[n]]
                                      ELSE @]
      PROVE  /\ run' \in RunRecord /\ run'.at = "batch" /\ run'.after = run.after /\ run'.found = run.found
             /\ run'.done = run.done \cup {id}
             /\ \/ run'.pending = run.pending
                \/ run'.pending = [n \in {id} \cup DOMAIN run.pending |->
                                     IF n = id THEN [base |-> b, delta |-> <<revs[b].saved, revs[id].saved>>] ELSE run.pending[n]]
  <2> DEFINE cache   == IF run.cache[1] = b THEN run.cache ELSE <<b, revs[b].body>>
             delta   == <<cache[2], revs[id].body>>
             pending == IF StillWhole(id) /\ Patch(revs[b].body, delta) = revs[id].body
                        THEN [n \in {id} \cup DOMAIN run.pending |->
                                IF n = id THEN [base |-> b, delta |-> delta] ELSE run.pending[n]]
                        ELSE run.pending
  <2>1. run' = [run EXCEPT !.done = @ \cup {id}, !.cache = cache, !.pending = pending]
    BY <1>1, <1>5 DEF RunRecord
  <2>2. cache \in Nat \X Texts /\ b \in Nat
    BY <1>3, <1>5, ExamineFacts
  <2>3. StillWhole(id) /\ Patch(revs[b].body, delta) = revs[id].body
        => delta = <<revs[b].saved, revs[id].saved>> /\ delta \in Bodies \X Bodies
    BY <1>3, <1>5, ExamineFacts
  <2>4. CASE StillWhole(id) /\ Patch(revs[b].body, delta) = revs[id].body
    <3> DEFINE new == [n \in {id} \cup DOMAIN run.pending |->
                         IF n = id THEN [base |-> b, delta |-> delta] ELSE run.pending[n]]
    <3>1. pending = new /\ DOMAIN new \in SUBSET Nat
      BY <1>1, <1>3, <2>4
    <3> HIDE DEF cache, pending
    <3>2. [base |-> b, delta |-> delta] \in PendingRecord
      BY <2>2, <2>3, <2>4 DEF PendingRecord
    <3> HIDE DEF delta
    <3>3. new \in [DOMAIN new -> PendingRecord]
      BY <1>1, <3>2
    <3>4. new = [n \in {id} \cup DOMAIN run.pending |->
                   IF n = id THEN [base |-> b, delta |-> <<revs[b].saved, revs[id].saved>>] ELSE run.pending[n]]
      BY <2>3, <2>4
    <3> HIDE DEF new
    <3>5. pending \in UNION {[D -> PendingRecord] : D \in SUBSET Nat}
      BY <3>1, <3>3
    <3>6. /\ run' \in RunRecord /\ run'.at = "batch" /\ run'.after = run.after /\ run'.found = run.found
          /\ run'.done = run.done \cup {id} /\ run'.pending = pending
      BY <1>1, <1>3, <2>1, <2>2, <3>5 DEF RunRecord
    <3> QED
      BY <3>1, <3>4, <3>6
  <2>5. CASE ~(StillWhole(id) /\ Patch(revs[b].body, delta) = revs[id].body)
    <3>1. pending = run.pending
      BY <2>5
    <3> HIDE DEF cache, pending
    <3> QED
      BY <1>1, <1>3, <2>1, <2>2, <3>1 DEF RunRecord
  <2> QED
    BY <2>4, <2>5
<1> QED
  BY <1>2, <1>4, <1>5

LEMMA RunStep ==
  ASSUME IInv, [Next]_vars
  PROVE  RunOK'
<1>0. /\ run \in RunRecord /\ (run.at # "none" => due > 0) /\ run.after \in 0 .. drawn /\ run.done \subseteq run.found
      /\ run.found \subseteq 1 .. drawn /\ (run.at # "batch" => run.pending = <<>>) /\ due \in Nat /\ mark \in 0 .. drawn
  BY DEF IInv, RunOK, RowOK
<1>a. drawn \in Nat /\ drawn' \in Nat /\ drawn <= drawn' /\ DOMAIN revs \subseteq 1 .. drawn
  BY GoodStep, NextOrd
<1>b. /\ NoRun \in RunRecord /\ NoRun.at = "none" /\ NoRun.after = 0 /\ NoRun.found = {} /\ NoRun.done = {}
      /\ NoRun.pending = <<>> /\ NoRun.cache \in Nat \X Texts
  <2>1. <<>> \in UNION {[D -> PendingRecord] : D \in SUBSET Nat}
    <3>1. <<>> \in [{} -> PendingRecord]
      OBVIOUS
    <3> QED
      BY <3>1
  <2> QED
    BY <2>1 DEF NoRun, RunRecord, Texts
<1>1. CASE RunStarts
  <2>1. run' = [NoRun EXCEPT !.at = "between", !.after = mark] /\ due' = due /\ due > 0 /\ drawn' = drawn
    BY <1>1 DEF RunStarts
  <2>2. mark \in Nat
    BY <1>0
  <2>3. /\ run' \in RunRecord /\ run'.at = "between" /\ run'.after = mark /\ run'.found = {} /\ run'.done = {}
        /\ run'.pending = <<>>
    BY <1>b, <2>1, <2>2 DEF RunRecord
  <2> QED
    BY <1>0, <2>1, <2>3 DEF RunOK
<1>2. CASE BatchStarts
  <2>1. /\ run' = [run EXCEPT !.at = "batch", !.found = Candidates(run.after), !.done = {}] /\ due' = due /\ drawn' = drawn
        /\ run.at = "between"
    BY <1>2 DEF BatchStarts
  <2>2. Candidates(run.after) \subseteq 1 .. drawn
    BY <1>a DEF Candidates, Compactable
  <2>3. /\ run' \in RunRecord /\ run'.at = "batch" /\ run'.after = run.after /\ run'.found = Candidates(run.after)
        /\ run'.done = {} /\ run'.pending = run.pending
    <3>1. Candidates(run.after) \in SUBSET Nat /\ {} \in SUBSET Nat
      BY <1>a, <2>2
    <3> QED
      BY <1>0, <2>1, <3>1 DEF RunRecord
  <2> QED
    BY <1>0, <2>1, <2>2, <2>3 DEF RunOK
<1>3. CASE Examine
  <2>1. due' = due /\ drawn' = drawn /\ run.at = "batch"
    BY <1>3 DEF Examine
  <2>2. PICK id \in Oldest(run.found \ run.done) :
          /\ run' \in RunRecord /\ run'.at = "batch" /\ run'.after = run.after /\ run'.found = run.found
          /\ run'.done = run.done \cup {id}
    BY <1>3, ExamineKinds
  <2>3. id \in run.found
    BY DEF Oldest
  <2> QED
    BY <1>0, <2>1, <2>2, <2>3 DEF RunOK
<1>4. CASE BatchCommits
  <2>1. PICK last \in IF run.done = {} THEN {run.after} ELSE Newest(run.done) :
          \/ run' = [NoRun EXCEPT !.at = "between", !.after = last, !.cache = run.cache] /\ due' = due
          \/ run' = NoRun
    BY <1>4 DEF BatchCommits
  <2>2. last \in 0 .. drawn
    BY <1>0, <2>1 DEF Newest
  <2>3. due > 0 /\ drawn' = drawn
    BY <1>0, <1>4 DEF BatchCommits
  <2>4. CASE run' = NoRun
    BY <1>a, <1>b, <2>3, <2>4 DEF RunOK
  <2>5. CASE run' = [NoRun EXCEPT !.at = "between", !.after = last, !.cache = run.cache] /\ due' = due
    <3>1. run.cache \in Nat \X Texts /\ last \in Nat
      BY <1>0, <2>2 DEF RunRecord
    <3>2. /\ run' \in RunRecord /\ run'.at = "between" /\ run'.after = last /\ run'.found = {} /\ run'.done = {}
          /\ run'.pending = <<>>
      BY <1>b, <2>5, <3>1 DEF RunRecord
    <3> QED
      BY <2>2, <2>3, <2>5, <3>2 DEF RunOK
  <2> QED
    BY <2>1, <2>4, <2>5
<1>5. CASE RunFails \/ Reboot
  <2>1. run' = NoRun
    BY <1>5 DEF RunFails, Reboot
  <2> QED
    BY <1>a, <1>b, <2>1 DEF RunOK
<1>6. CASE run' = run /\ due' \in {due, due + 1}
  <2>1. run'.found \subseteq 1 .. drawn' /\ run'.after \in 0 .. drawn'
    BY <1>0, <1>a, <1>6
  <2> QED
    BY <1>0, <1>6, <2>1 DEF RunOK
<1> DEFINE Idle == run' = run /\ due' \in {due, due + 1}
<1>7. (\E body \in Bodies : Write(body)) => Idle
  BY DEF Write, DueAt
<1>8. (\E body \in Bodies : Rebase(body)) => Idle
  BY DEF Rebase, DueAt
<1>9. Repeat \/ Seed \/ PointTaken \/ PointKept \/ Purge \/ (\E id \in DOMAIN revs : PurgeFinds(id)) \/ UNCHANGED vars
      => Idle
  BY DEF Repeat, Seed, PointTaken, PointKept, Purge, PurgeFinds, vars
<1>10. \/ \E body \in Bodies : ChangeOutside(body) \/ Quarantine(body)
       \/ \E source \in DOMAIN revs, body \in Bodies : Propose(source, body)
       \/ \E history \in Imports : Import(history)
       => Idle
  BY DEF ChangeOutside, Quarantine, Propose, Import
<1> HIDE DEF Idle
<1>11. \/ RunStarts \/ BatchStarts \/ Examine \/ BatchCommits \/ RunFails \/ Reboot \/ Idle
  BY <1>7, <1>8, <1>9, <1>10 DEF Next, Recorded, Compaction
<1> QED
  BY <1>1, <1>2, <1>3, <1>4, <1>5, <1>6, <1>11 DEF Idle

LEMMA FoundStep ==
  ASSUME IInv, [Next]_vars
  PROVE  FoundOK'
<1>0. drawn \in Nat /\ drawn' \in Nat /\ DOMAIN revs \subseteq 1 .. drawn /\ run.found \subseteq 1 .. drawn /\ run.done \subseteq run.found
  BY GoodStep, NextOrd DEF IInv, RunOK
<1>1. CASE LockFree /\ run' = run
  BY <1>1 DEF LockFree, FoundOK
<1>2. CASE UNCHANGED <<revs, run, point>>
  <2>1. FoundOK
    BY DEF IInv
  <2> QED
    BY <1>2, <2>1 DEF FoundOK
<1>3. CASE PointTaken
  <2>1. revs' = revs /\ run' = run /\ point' = [ord |-> drawn + 1, body |-> row.body, landed |-> FALSE]
    BY <1>3 DEF PointTaken
  <2>2. point'.ord \notin run.found
    BY <1>0, <2>1
  <2> QED
    BY <2>1, <2>2 DEF FoundOK, IInv
<1>4. CASE PointKept
  <2>1. run' = run /\ point' = NoPoint /\ point # NoPoint
    BY <1>4 DEF PointKept
  <2>2. point'.ord \notin run.found
    BY <1>0, <2>1 DEF NoPoint
  <2>3. CASE point.landed
    <3>1. revs' = With(revs, point.ord, "restore_point", point.body, 0, 0) /\ point.ord \notin DOMAIN revs /\ point.ord > 0
      BY <1>4, <2>1, <2>3 DEF PointKept, IInv, PointOK
    <3>2. DOMAIN revs' = {point.ord} \cup DOMAIN revs /\ \A id \in DOMAIN revs : revs'[id] = revs[id]
      BY <3>1 DEF With
    <3>3. revs'[point.ord].base = 0
      BY <3>1 DEF With, Revision
    <3>4. run.at = "batch" => run.found \cap DOMAIN revs' = run.found \cap DOMAIN revs
      BY <3>2 DEF IInv, FoundOK
    <3> QED
      BY <1>0, <2>1, <2>2, <3>2, <3>3, <3>4 DEF FoundOK, IInv
  <2>4. CASE ~point.landed
    <3>1. revs' = revs
      BY <1>4, <2>4 DEF PointKept
    <3> QED
      BY <2>1, <2>2, <3>1 DEF FoundOK, IInv
  <2> QED
    BY <2>3, <2>4
<1>5. ASSUME NEW history \in Imports, Import(history) PROVE FoundOK'
  <2>1. run' = run /\ point' = point
    BY <1>5 DEF Import
  <2>2. DOMAIN revs' = drawn + 1 .. drawn'
    BY <1>5, ImportHistory
  <2>3. run.found \cap DOMAIN revs' = {}
    BY <1>0, <2>2
  <2> QED
    BY <2>1, <2>3 DEF FoundOK, IInv
<1>6. CASE BatchStarts
  <2>1. run.at = "between" /\ run' = [run EXCEPT !.at = "batch", !.found = Candidates(run.after), !.done = {}] /\ UNCHANGED <<revs, point>>
    BY <1>6 DEF BatchStarts
  <2>2. run \in RunRecord
    BY DEF IInv, RunOK
  <2>3. run'.found = Candidates(run.after) /\ run'.done = {}
    BY <2>1, <2>2 DEF RunRecord
  <2>4. \A id \in Candidates(run.after) :
          id \in DOMAIN revs /\ Whole(revs[id]) /\ revs[id].action \notin KeptWhole /\ \A d \in DOMAIN revs : revs[d].base # id
    BY DEF Candidates, Compactable, Dependents
  <2>5. point.ord \notin DOMAIN revs
    BY <1>0 DEF IInv, PointOK, NoPoint
  <2> QED
    BY <2>1, <2>3, <2>4, <2>5 DEF FoundOK
<1>7. CASE Examine
  <2>1. run.at = "batch" /\ UNCHANGED <<revs, point>>
    BY <1>7 DEF Examine
  <2>2. PICK id \in Oldest(run.found \ run.done) : run'.found = run.found /\ run'.done = run.done \cup {id}
    BY <1>7, ExamineKinds
  <2>3. \A e \in run'.found \ run'.done : id < e /\ e \in run.found \ run.done
    BY <1>0, <2>2 DEF Oldest
  <2>4. \A d \in run'.done, e \in run'.found \ run'.done : d < e
    BY <2>1, <2>2, <2>3 DEF FoundOK, IInv
  <2> QED
    BY <2>1, <2>2, <2>4 DEF FoundOK, IInv
<1>8. CASE run'.at # "batch" /\ run'.pending = <<>>
  BY <1>8 DEF FoundOK
<1> QED
  BY <1>1, <1>2, <1>3, <1>4, <1>5, <1>6, <1>7, <1>8, BatchKinds

LEMMA PendingStep ==
  ASSUME IInv, [Next]_vars
  PROVE  PendingOK'
<1>0. PendingOK /\ (run.at # "batch" => run.pending = <<>>)
  BY DEF IInv, RunOK
<1>a. DOMAIN <<>> = {}
  OBVIOUS
<1>1. CASE run'.pending = <<>>
  BY <1>1, <1>a DEF PendingOK
<1>2. CASE UNCHANGED <<revs, run>>
  BY <1>0, <1>2 DEF PendingOK
<1>3. CASE PointKept /\ run.pending # <<>>
  <2>1. run' = run /\ point # NoPoint
    BY <1>3 DEF PointKept
  <2>2. CASE point.landed
    <3>1. revs' = With(revs, point.ord, "restore_point", point.body, 0, 0) /\ point.ord \notin DOMAIN revs
      BY <1>3, <2>1, <2>2 DEF PointKept, IInv, PointOK
    <3>2. DOMAIN revs' = {point.ord} \cup DOMAIN revs /\ \A id \in DOMAIN revs : revs'[id] = revs[id]
      BY <3>1 DEF With
    <3> QED
      BY <1>0, <2>1, <3>2 DEF PendingOK
  <2>3. CASE ~point.landed
    BY <1>2, <1>3, <2>1, <2>3 DEF PointKept
  <2> QED
    BY <2>2, <2>3
<1>4. CASE Examine
  <2>1. run.at = "batch" /\ revs' = revs
    BY <1>4 DEF Examine
  <2>2. PICK id \in Oldest(run.found \ run.done) :
          /\ run'.done = run.done \cup {id}
          /\ \/ run'.pending = run.pending
             \/ \E b \in BaseOf(id) :
                  run'.pending = [n \in {id} \cup DOMAIN run.pending |->
                                    IF n = id THEN [base |-> b, delta |-> <<revs[b].saved, revs[id].saved>>] ELSE run.pending[n]]
    BY <1>4, ExamineKinds
  <2>3. CASE run'.pending = run.pending
    BY <1>0, <2>1, <2>2, <2>3 DEF PendingOK
  <2>4. ASSUME NEW b \in BaseOf(id),
               run'.pending = [n \in {id} \cup DOMAIN run.pending |->
                                 IF n = id THEN [base |-> b, delta |-> <<revs[b].saved, revs[id].saved>>] ELSE run.pending[n]]
        PROVE  PendingOK'
    <3>0. id \in run.found \ run.done
      BY DEF Oldest
    <3>1. /\ id \in DOMAIN revs /\ b \in DOMAIN revs \ DOMAIN run.pending /\ b < id /\ Whole(revs[b])
          /\ revs[b].action \notin NotABase /\ b \in Nat
      BY <3>0, ExamineFacts
    <3>2. DOMAIN run'.pending = {id} \cup DOMAIN run.pending
      BY <2>4
    <3>3. run'.pending[id].base = b /\ run'.pending[id].delta = <<revs[b].saved, revs[id].saved>>
      BY <2>4
    <3>4. \A n \in DOMAIN run.pending : n \in run.done /\ run'.pending[n] = run.pending[n]
      BY <1>0, <2>4, <3>0 DEF PendingOK
    <3>5. \A n \in DOMAIN run.pending : run.pending[n].base # id
      <4> SUFFICES ASSUME NEW n \in DOMAIN run.pending PROVE run.pending[n].base # id
        OBVIOUS
      <4>1. n < id /\ run.pending[n].base < n
        BY <1>0, <2>1, <3>0, <3>4 DEF IInv, FoundOK, PendingOK
      <4>2. n \in Nat /\ id \in Nat /\ run.pending[n].base \in Nat
        BY <1>0, NextOrd, <3>1 DEF PendingOK
      <4> QED
        BY <4>1, <4>2
    <3>6. b # id
      BY <3>0, <3>1, NextOrd
    <3> QED
      BY <1>0, <2>1, <2>2, <3>1, <3>2, <3>3, <3>4, <3>5, <3>6 DEF PendingOK
  <2> QED
    BY <2>2, <2>3, <2>4
<1>5. LockFree /\ run' = run => run'.pending = <<>>
  BY <1>0 DEF LockFree
<1>6. PointTaken => UNCHANGED <<revs, run>>
  BY DEF PointTaken
<1>7. PointKept => run' = run
  BY DEF PointKept
<1>8. (\E history \in Imports : Import(history)) => run'.pending = <<>>
  BY DEF Import
<1>9. BatchStarts => run'.pending = <<>>
  <2> HAVE BatchStarts
  <2>1. run.at = "between" /\ run' = [run EXCEPT !.at = "batch", !.found = Candidates(run.after), !.done = {}] /\ run \in RunRecord
    BY DEF BatchStarts, IInv, RunOK
  <2> QED
    BY <1>0, <2>1 DEF RunRecord
<1> QED
  BY <1>1, <1>2, <1>3, <1>4, <1>5, <1>6, <1>7, <1>8, <1>9, BatchKinds

\* What the revisions' seqs become, but for the row's own changes.
LEMMA SeqsKept ==
  ASSUME IInv, [Next]_vars
  PROVE  \/ \E body \in Bodies : Write(body) \/ Rebase(body)
         \/ Reboot \/ Purge \/ \E history \in Imports : Import(history)
         \/ /\ DOMAIN revs \subseteq DOMAIN revs'
            /\ \A id \in DOMAIN revs' \ DOMAIN revs : revs'[id].seq = 0
            /\ \A id \in DOMAIN revs : revs'[id].seq = revs[id].seq /\ (revs[id].seq # 0 => revs'[id].saved = revs[id].saved)
<1> DEFINE Kept == /\ DOMAIN revs \subseteq DOMAIN revs'
                   /\ \A id \in DOMAIN revs' \ DOMAIN revs : revs'[id].seq = 0
                   /\ \A id \in DOMAIN revs : revs'[id].seq = revs[id].seq
                                              /\ (revs[id].seq # 0 => revs'[id].saved = revs[id].saved)
<1>1. UNCHANGED revs => Kept
  OBVIOUS
<1>2. ASSUME NEW ord, ord \notin DOMAIN revs, NEW action, NEW body, NEW source, revs' = With(revs, ord, action, body, 0, source)
      PROVE  Kept
  BY <1>2 DEF With, Revision
<1>3. Repeat => Kept
  <2>1. Repeat => revs' = With(revs, drawn + 1, "update", row.body, 0, 0)
    BY DEF Repeat
  <2> QED
    BY <1>2, <2>1, NextOrd
<1>4. ASSUME NEW source, NEW body, Propose(source, body) PROVE Kept
  <2>1. revs' = With(revs, drawn + 1, "proposal", body, 0, source)
    BY <1>4 DEF Propose
  <2> QED
    BY <1>2, <2>1, NextOrd
<1>5. ASSUME PointKept PROVE Kept
  <2>1. CASE point.landed
    <3>1. revs' = With(revs, point.ord, "restore_point", point.body, 0, 0) /\ point.ord \notin DOMAIN revs
      BY <1>5, <2>1 DEF PointKept, IInv, PointOK
    <3> QED
      BY <1>2, <3>1
  <2> QED
    BY <1>1, <1>5, <2>1 DEF PointKept
<1>6. ASSUME NEW body \in Bodies, Quarantine(body) PROVE Kept
  BY <1>6, QuarantineHistory
<1>7. BatchCommits => Kept
  BY BatchHistory
<1>8. \/ Seed \/ PointTaken \/ RunStarts \/ BatchStarts \/ Examine \/ RunFails
      \/ (\E body \in Bodies : ChangeOutside(body)) \/ (\E id \in DOMAIN revs : PurgeFinds(id)) \/ UNCHANGED vars
      => UNCHANGED revs
  BY DEF Seed, PointTaken, RunStarts, BatchStarts, Examine, RunFails, ChangeOutside, PurgeFinds, vars
<1> HIDE DEF Kept
<1>9. \/ \E body \in Bodies : Write(body) \/ Rebase(body)
      \/ Reboot \/ Purge \/ (\E history \in Imports : Import(history)) \/ Kept
  BY <1>1, <1>3, <1>4, <1>5, <1>6, <1>7, <1>8 DEF Next, Recorded, Compaction
<1> QED
  BY <1>9 DEF Kept

LEMMA SeqStep ==
  ASSUME IInv, [Next]_vars
  PROVE  SeqOK'
<1>0. /\ row \in [seq : Nat \ {0}, body : Bodies] /\ row.seq \in Nat /\ row.seq > 0 /\ folded \in 0 .. row.seq /\ drawn \in Nat
      /\ DOMAIN revs \subseteq 1 .. drawn
  BY NextOrd DEF IInv, RowOK
<1>a. SeqOK
  BY DEF IInv
<1>1. ASSUME NEW body \in Bodies, Write(body) PROVE SeqOK'
  <2>1. row' = [seq |-> row.seq + 1, body |-> body] /\ ~Behind /\ folded' = IF folded = row.seq THEN row'.seq ELSE folded
    BY <1>1 DEF Write
  <2>2. row'.seq = row.seq + 1 /\ row'.body = body
    BY <2>1
  <2>3. revs' = With(revs, drawn + 1, "update", body, row.seq + 1, 0)
    BY <1>1, <2>2 DEF Write
  <2>4. /\ DOMAIN revs' = {drawn + 1} \cup DOMAIN revs /\ \A id \in DOMAIN revs : revs'[id] = revs[id]
        /\ revs'[drawn + 1].seq = row.seq + 1 /\ revs'[drawn + 1].saved = body
    BY <2>3, NextOrd DEF With, Revision
  <2>5. ~Behind'
    BY <1>0, <2>1, <2>2 DEF Behind
  <2>6. At(row.seq)' # {}
    BY <2>2, <2>4 DEF At
  <2>7. \A id \in DOMAIN revs' : revs'[id].seq \in 0 .. row'.seq /\ (revs'[id].seq = row'.seq => revs'[id].saved = row'.body)
    BY <1>0, <1>a, <2>2, <2>4 DEF SeqOK
  <2> QED
    BY <2>5, <2>6, <2>7 DEF SeqOK
<1>2. ASSUME NEW merged \in Bodies, Rebase(merged) PROVE SeqOK'
  <2>0. LET h == AtSeq.revs
        IN /\ \A id \in DOMAIN h : h[id].seq \in 0 .. row.seq /\ (h[id].seq = row.seq => h[id].saved = row.body)
           /\ \E id \in DOMAIN h : h[id].seq = row.seq
    BY AtSeqHistory
  <2>1. CASE merged = row.body
    <3>1. revs' = AtSeq.revs /\ row' = row /\ folded' = row.seq
      BY <1>2, <2>1 DEF Rebase
    <3>2. ~Behind' /\ At(row.seq)' # {}
      BY <1>0, <2>0, <3>1 DEF Behind, At
    <3> QED
      BY <2>0, <3>1, <3>2 DEF SeqOK
  <2>2. CASE merged # row.body
    <3>1. row' = [seq |-> row.seq + 1, body |-> merged] /\ folded' = row'.seq
      BY <1>2, <2>2 DEF Rebase
    <3>2. row'.seq = row.seq + 1 /\ row'.body = merged
      BY <3>1
    <3>3. /\ DOMAIN revs' = {drawn'} \cup DOMAIN AtSeq.revs /\ \A id \in DOMAIN AtSeq.revs : revs'[id] = AtSeq.revs[id]
          /\ revs'[drawn'].seq = row.seq + 1 /\ revs'[drawn'].saved = merged
      BY <1>2, <2>2, MergedHistory
    <3>4. ~Behind' /\ At(row.seq)' # {}
      BY <1>0, <3>1, <3>2, <3>3 DEF Behind, At
    <3>5. \A id \in DOMAIN revs' : revs'[id].seq \in 0 .. row'.seq /\ (revs'[id].seq = row'.seq => revs'[id].saved = row'.body)
      BY <1>0, <2>0, <3>2, <3>3
    <3> QED
      BY <3>4, <3>5 DEF SeqOK
  <2> QED
    BY <2>1, <2>2
<1>3. CASE Reboot
  <2>1. row' = row /\ folded' = folded
    BY <1>3 DEF Reboot
  <2>2. CASE revs' = AtSeq.revs /\ around' = around \ {row.seq}
    <3>1. /\ \A id \in DOMAIN revs' : revs'[id].seq \in 0 .. row.seq /\ (revs'[id].seq = row.seq => revs'[id].saved = row.body)
          /\ \E id \in DOMAIN revs' : revs'[id].seq = row.seq
          /\ DOMAIN revs \subseteq DOMAIN revs' /\ \A id \in DOMAIN revs : revs[id].seq # 0 => revs'[id].seq = revs[id].seq
      BY <1>0, <2>2, AtSeqHistory
    <3>2. At(row.seq)' # {}
      BY <2>1, <3>1 DEF At
    <3>3. Behind' /\ folded \notin around' => At(folded) # {}
      BY <1>0, <1>a, <2>1, <2>2 DEF Behind, SeqOK
    <3>4. Behind' /\ folded' \notin around' => At(folded)' # {}
      BY <1>0, <2>1, <3>1, <3>3 DEF At, Behind
    <3> QED
      BY <2>1, <3>1, <3>2, <3>4 DEF SeqOK
  <2>3. CASE revs' = revs /\ around' = around
    BY <1>a, <2>1, <2>3 DEF SeqOK, At, Behind
  <2> QED
    BY <1>3, <2>2, <2>3 DEF Reboot
<1>4. CASE Purge
  <2>1. /\ DOMAIN revs' = DOMAIN revs \ {purge} /\ UNCHANGED <<row, folded, around>>
        /\ \A id \in DOMAIN revs' : revs'[id].seq = revs[id].seq /\ revs'[id].saved = revs[id].saved
    BY <1>4, PurgeHistory DEF Purge
  <2>2. row.seq \notin around => At(row.seq)' # {}
    BY <1>a, <2>1 DEF SeqOK, At, IInv, PurgeOK
  <2>3. Behind /\ folded \notin around => At(folded)' # {}
    BY <1>a, <2>1 DEF SeqOK, At, IInv, PurgeOK
  <2>4. Behind' <=> Behind
    BY <2>1 DEF Behind
  <2>5. \A id \in DOMAIN revs' : revs'[id].seq \in 0 .. row.seq /\ (revs'[id].seq = row.seq => revs'[id].saved = row.body)
    BY <1>a, <2>1 DEF SeqOK
  <2> QED
    BY <2>1, <2>2, <2>3, <2>4, <2>5 DEF SeqOK
<1>5. ASSUME NEW history \in Imports, Import(history) PROVE SeqOK'
  <2>1. \A id \in DOMAIN revs' : revs'[id].seq = 0
    BY <1>5, ImportHistory
  <2>2. around' = 1 .. row.seq /\ row' = row /\ folded' = folded
    BY <1>5 DEF Import
  <2>3. row.seq \in around' /\ (Behind' => folded \in around')
    BY <1>0, <2>2 DEF Behind
  <2> QED
    BY <1>0, <2>1, <2>2, <2>3 DEF SeqOK
<1>6. CASE /\ DOMAIN revs \subseteq DOMAIN revs'
           /\ \A id \in DOMAIN revs' \ DOMAIN revs : revs'[id].seq = 0
           /\ \A id \in DOMAIN revs : revs'[id].seq = revs[id].seq /\ (revs[id].seq # 0 => revs'[id].saved = revs[id].saved)
           /\ ~(Reboot \/ Purge \/ (\E history \in Imports : Import(history)) \/ \E body \in Bodies : Write(body) \/ Rebase(body))
  <2>1. \A id \in DOMAIN revs' : /\ revs'[id].seq \in 0 .. row.seq
                                 /\ revs'[id].seq = row.seq => revs'[id].saved = row.body
    BY <1>0, <1>a, <1>6 DEF SeqOK
  <2>2. \A s : At(s) # {} => \E id \in DOMAIN revs' : revs'[id].seq = s
    BY <1>6 DEF At
  <2>3. ASSUME NEW body \in Bodies, ChangeOutside(body) PROVE SeqOK'
    <3>1. row' = [seq |-> row.seq + 1, body |-> body] /\ around' = around \cup {row'.seq} /\ folded' = folded
      BY <2>3 DEF ChangeOutside
    <3>2. row'.seq = row.seq + 1 /\ row'.seq \in around'
      BY <3>1
    <3>3. \A id \in DOMAIN revs' : revs'[id].seq \in 0 .. row'.seq /\ revs'[id].seq # row'.seq
      BY <1>0, <2>1, <3>2
    <3>4. folded \notin around' => folded \notin around
      BY <3>1
    <3>5. Behind' /\ folded \notin around' => At(folded) # {}
      BY <1>0, <1>a, <3>1, <3>4 DEF Behind, SeqOK
    <3>6. Behind' /\ folded' \notin around' => At(folded)' # {}
      BY <2>2, <3>1, <3>5 DEF At
    <3> QED
      BY <3>2, <3>3, <3>6 DEF SeqOK
  <2>4. CASE Seed
    <3>1. row' = row /\ around' = around /\ folded' = row.seq
      BY <2>4 DEF Seed
    <3>2. ~Behind'
      BY <1>0, <3>1 DEF Behind
    <3>3. row.seq \notin around => At(row.seq)' # {}
      BY <1>a, <2>2, <3>1 DEF SeqOK, At
    <3> QED
      BY <2>1, <3>1, <3>2, <3>3 DEF SeqOK
  <2>5. CASE UNCHANGED <<row, folded, around>>
    <3>1. (Behind' <=> Behind) /\ (At(row.seq) # {} => At(row.seq)' # {}) /\ (At(folded) # {} => At(folded)' # {})
      BY <2>2, <2>5 DEF Behind, At
    <3> QED
      BY <1>a, <2>1, <2>5, <3>1 DEF SeqOK
  <2>6. Seed \/ UNCHANGED <<row, folded, around>> \/ \E body \in Bodies : ChangeOutside(body)
    BY <1>6 DEF Next, Recorded, Compaction, Repeat, PointTaken, PointKept, Quarantine, Propose, PurgeFinds,
                RunStarts, BatchStarts, Examine, BatchCommits, RunFails, vars
  <2> QED
    BY <2>3, <2>4, <2>5, <2>6
<1> QED
  BY <1>1, <1>2, <1>3, <1>4, <1>5, <1>6, SeqsKept

LEMMA PurgeStep ==
  ASSUME IInv, [Next]_vars
  PROVE  PurgeOK'
<1>0. /\ row \in [seq : Nat \ {0}, body : Bodies] /\ row.seq \in Nat /\ row.seq > 0 /\ folded \in 0 .. row.seq /\ drawn \in Nat
      /\ DOMAIN revs \subseteq 1 .. drawn /\ purge \in 0 .. drawn /\ DOMAIN revs' \subseteq 1 .. drawn'
  BY NextOrd, GoodStep DEF IInv, RowOK, Good
<1>a. SeqOK /\ PurgeOK
  BY DEF IInv
<1>b. \A id \in DOMAIN revs : revs[id].seq \in 0 .. row.seq
  BY <1>a DEF SeqOK
<1>1. ASSUME NEW body \in Bodies, Write(body) PROVE PurgeOK'
  <2>1. /\ row' = [seq |-> row.seq + 1, body |-> body] /\ ~Behind /\ folded' = IF folded = row.seq THEN row'.seq ELSE folded
        /\ purge' = purge
    BY <1>1 DEF Write
  <2>2. row'.seq = row.seq + 1
    BY <2>1
  <2>3. revs' = With(revs, drawn + 1, "update", body, row.seq + 1, 0)
    BY <1>1, <2>2 DEF Write
  <2>4. DOMAIN revs' = {drawn + 1} \cup DOMAIN revs /\ \A id \in DOMAIN revs : revs'[id] = revs[id]
    BY <2>3, NextOrd DEF With
  <2>5. purge \in DOMAIN revs' => revs'[purge].seq # row'.seq
    BY <1>0, <1>b, <2>2, <2>4
  <2>6. ~Behind'
    BY <1>0, <2>1, <2>2 DEF Behind
  <2> QED
    BY <2>1, <2>5, <2>6 DEF PurgeOK
<1>2. ASSUME NEW merged \in Bodies, Rebase(merged) PROVE PurgeOK'
  <2>0. Behind /\ purge' = purge
    BY <1>2 DEF Rebase
  <2>1. /\ purge \in DOMAIN AtSeq.revs => purge \in DOMAIN revs
        /\ \A id \in DOMAIN revs : AtSeq.revs[id].seq = row.seq /\ revs[id].seq # row.seq => At(row.seq) = {} /\ id \in Adopted
        /\ \A id \in DOMAIN AtSeq.revs : AtSeq.revs[id].seq \in 0 .. row.seq
    BY <1>0, AtSeqHistory
  <2>2. CASE merged = row.body
    <3>1. revs' = AtSeq.revs /\ row' = row /\ folded' = row.seq
      BY <1>2, <2>2 DEF Rebase
    <3>2. ~Behind'
      BY <1>0, <3>1 DEF Behind
    <3>3. ASSUME purge \in DOMAIN revs', revs'[purge].seq = row.seq
          PROVE  row.seq \in around'
      <4>1. purge \in DOMAIN revs /\ revs[purge].seq # row.seq
        BY <1>a, <2>0, <2>1, <3>1, <3>3 DEF PurgeOK
      <4>2. At(row.seq) = {} /\ purge \in Adopted
        BY <2>1, <3>1, <3>3, <4>1
      <4>3. around' = around /\ row.seq \in around
        BY <1>2, <1>a, <4>2 DEF Rebase, SeqOK
      <4> QED
        BY <4>3
    <3> QED
      BY <2>0, <3>1, <3>2, <3>3 DEF PurgeOK
  <2>3. CASE merged # row.body
    <3>1. row' = [seq |-> row.seq + 1, body |-> merged] /\ folded' = row'.seq
      BY <1>2, <2>3 DEF Rebase
    <3>2. row'.seq = row.seq + 1
      BY <3>1
    <3>3. /\ DOMAIN revs' = {drawn'} \cup DOMAIN AtSeq.revs /\ \A id \in DOMAIN AtSeq.revs : revs'[id] = AtSeq.revs[id]
          /\ drawn' \in {drawn + 1, drawn + 2}
      BY <1>2, <2>3, MergedHistory
    <3>4. ~Behind'
      BY <1>0, <3>1, <3>2 DEF Behind
    <3>5. purge \in DOMAIN revs' => revs'[purge].seq # row'.seq
      BY <1>0, <2>1, <3>2, <3>3
    <3> QED
      BY <2>0, <3>4, <3>5 DEF PurgeOK
  <2> QED
    BY <2>2, <2>3
<1>3. CASE Reboot \/ Purge
  <2>1. purge' = 0
    BY <1>3 DEF Reboot, Purge
  <2>2. purge' \notin DOMAIN revs'
    BY <1>0, <2>1
  <2> QED
    BY <2>2 DEF PurgeOK
<1>4. ASSUME NEW history \in Imports, Import(history) PROVE PurgeOK'
  <2>1. DOMAIN revs' = drawn + 1 .. drawn' /\ purge' = purge
    BY <1>4, ImportHistory DEF Import
  <2>2. purge \notin DOMAIN revs'
    BY <1>0, <2>1
  <2> QED
    BY <2>1, <2>2 DEF PurgeOK
<1>5. CASE /\ DOMAIN revs \subseteq DOMAIN revs'
           /\ \A id \in DOMAIN revs' \ DOMAIN revs : revs'[id].seq = 0
           /\ \A id \in DOMAIN revs : revs'[id].seq = revs[id].seq /\ (revs[id].seq # 0 => revs'[id].saved = revs[id].saved)
           /\ ~(Reboot \/ Purge \/ (\E history \in Imports : Import(history)) \/ \E body \in Bodies : Write(body) \/ Rebase(body))
  <2>1. purge \in DOMAIN revs' => revs'[purge].seq = (IF purge \in DOMAIN revs THEN revs[purge].seq ELSE 0)
    BY <1>5
  <2>2. ASSUME NEW body \in Bodies, ChangeOutside(body) PROVE PurgeOK'
    <3>1. /\ row' = [seq |-> row.seq + 1, body |-> body] /\ around' = around \cup {row'.seq} /\ folded' = folded /\ purge' = purge
          /\ revs' = revs
      BY <2>2 DEF ChangeOutside
    <3>2. row'.seq = row.seq + 1
      BY <3>1
    <3>3. purge \in DOMAIN revs => revs[purge].seq # row'.seq
      BY <1>0, <1>b, <3>2
    <3>4. purge \in DOMAIN revs /\ folded > 0 /\ revs[purge].seq = folded => folded \in around
      BY <1>0, <1>a DEF PurgeOK, Behind
    <3>5. Behind' => folded > 0
      BY <3>1 DEF Behind
    <3> QED
      BY <3>1, <3>3, <3>4, <3>5 DEF PurgeOK
  <2>3. CASE Seed
    <3>1. row' = row /\ around' = around /\ folded' = row.seq /\ purge' = purge /\ revs' = revs
      BY <2>3 DEF Seed
    <3>2. ~Behind'
      BY <1>0, <3>1 DEF Behind
    <3> QED
      BY <1>a, <3>1, <3>2 DEF PurgeOK
  <2>4. ASSUME NEW id \in DOMAIN revs, PurgeFinds(id) PROVE PurgeOK'
    <3>1. purge' = id /\ UNCHANGED <<revs, row, folded, around>> /\ revs[id].seq # row.seq /\ ~(Behind /\ revs[id].seq = folded)
      BY <2>4 DEF PurgeFinds, Current, MergeBase
    <3>2. Behind' <=> Behind
      BY <3>1 DEF Behind
    <3> QED
      BY <3>1, <3>2 DEF PurgeOK
  <2>5. CASE UNCHANGED <<row, folded, around, purge>>
    <3>1. Behind' <=> Behind
      BY <2>5 DEF Behind
    <3>2. Behind => folded # 0
      BY DEF Behind
    <3> QED
      BY <1>0, <1>a, <2>1, <2>5, <3>1, <3>2 DEF PurgeOK
  <2>6. \/ Seed \/ (\E id \in DOMAIN revs : PurgeFinds(id)) \/ UNCHANGED <<row, folded, around, purge>>
        \/ \E body \in Bodies : ChangeOutside(body)
    BY <1>5 DEF Next, Recorded, Compaction, Repeat, PointTaken, PointKept, Quarantine, Propose,
                RunStarts, BatchStarts, Examine, BatchCommits, RunFails, vars
  <2> QED
    BY <2>2, <2>3, <2>4, <2>5, <2>6
<1> QED
  BY <1>1, <1>2, <1>3, <1>4, <1>5, SeqsKept
-----------------------------------------------------------------------------
(* The theorems *)

LEMMA InitInv == Init => IInv
<1> SUFFICES ASSUME Init PROVE IInv
  OBVIOUS
<1>1. PICK b \in Bodies : row = [seq |-> 1, body |-> b]
  BY DEF Init
<1>2. row.seq = 1 /\ row.body = b
  BY <1>1
<1>3. RowOK
  BY <1>1, HistoryConstants DEF Init, RowOK
<1>4. DOMAIN revs = {1} /\ revs = [id \in {1} |-> revs[1]]
  BY DEF Init
<1>5. revs[1] = Revision(1, "update", b, 1, 0)
  BY <1>2 DEF Init
<1>6. /\ revs[1] \in RevisionRecord /\ revs[1].ord = 1 /\ Whole(revs[1]) /\ revs[1].body = revs[1].saved
      /\ revs[1].action \notin KeptWhole /\ revs[1].seq = 1 /\ revs[1].saved = b
  BY <1>5, HistoryConstants DEF Revision, RevisionRecord, Texts, Actions, KeptWhole, Whole
<1>7. Good(revs, drawn)
  <2>1. drawn = 1 /\ revs \in [DOMAIN revs -> RevisionRecord]
    BY <1>4, <1>6 DEF Init
  <2> QED
    BY <1>4, <1>6, <2>1 DEF Good
<1>8. PointOK
  BY DEF Init, PointOK, NoPoint, Texts
<1>9. RunOK /\ FoundOK /\ PendingOK
  <2>1. run = NoRun /\ drawn = 1
    BY DEF Init
  <2>2. NoRun.pending \in UNION {[D -> PendingRecord] : D \in SUBSET Nat} /\ DOMAIN NoRun.pending = {}
    <3>1. <<>> \in [{} -> PendingRecord] /\ NoRun.pending = <<>>
      BY DEF NoRun
    <3> QED
      BY <3>1
  <2>3. NoRun \in RunRecord
    BY <2>2 DEF NoRun, RunRecord, Texts
  <2>4. NoRun.at = "none" /\ NoRun.after = 0 /\ NoRun.found = {} /\ NoRun.done = {} /\ NoRun.pending = <<>>
    BY DEF NoRun
  <2> QED
    BY <2>1, <2>2, <2>3, <2>4 DEF RunOK, FoundOK, PendingOK
<1>10. SeqOK /\ PurgeOK
  <2>1. folded \in {0, 1} /\ purge = 0
    BY DEF Init
  <2>2. ~Behind /\ At(row.seq) # {}
    BY <1>2, <1>4, <1>6, <2>1 DEF Behind, At
  <2> QED
    BY <1>2, <1>4, <1>6, <2>1, <2>2 DEF SeqOK, PurgeOK
<1> QED
  BY <1>3, <1>7, <1>8, <1>9, <1>10 DEF IInv

LEMMA NextInv == IInv /\ [Next]_vars => IInv'
BY GoodStep, RowStep, PointStep, RunStep, FoundStep, PendingStep, SeqStep, PurgeStep DEF IInv

\* The note, its history and the run have their types, and a delta's base is in the history, whole and older.
THEOREM TypeCorrect == Spec => []HistoryTypeOK
<1>1. IInv => HistoryTypeOK
  <2> SUFFICES ASSUME IInv PROVE HistoryTypeOK
    OBVIOUS
  <2>1. RowOK /\ Good(revs, drawn) /\ SeqOK /\ RunOK /\ drawn \in Nat
    BY DEF IInv, RowOK
  <2>2. \A id \in DOMAIN revs : revs[id] \in RevisionRecord /\ revs[id].saved \in Bodies
    BY <2>1 DEF Good, RevisionRecord
  <2>3. ASSUME NEW id \in DOMAIN revs
        PROVE  /\ revs[id].ord \in id .. drawn /\ revs[id].action \in Actions /\ revs[id].seq \in 0 .. row.seq
               /\ revs[id].source \in 0 .. MaxOrd /\ revs[id].body \in Texts /\ revs[id].saved \in Bodies
               /\ ~Whole(revs[id]) => /\ revs[id].base \in DOMAIN revs /\ Whole(revs[revs[id].base])
                                      /\ revs[id].base < id /\ revs[id].delta \in Bodies \X Bodies
    <3>1. revs[id].action \in Actions /\ revs[id].source \in 0 .. MaxOrd /\ revs[id].body \in Texts
      BY <2>2 DEF RevisionRecord
    <3>2. revs[id].ord \in id .. drawn /\ revs[id].seq \in 0 .. row.seq
      BY <2>1 DEF Good, SeqOK
    <3>3. ~Whole(revs[id]) => /\ revs[id].base \in DOMAIN revs /\ Whole(revs[revs[id].base]) /\ revs[id].base < id
                              /\ revs[id].delta = <<revs[revs[id].base].saved, revs[id].saved>>
      BY <2>1 DEF Good
    <3>4. ~Whole(revs[id]) => revs[id].delta \in Bodies \X Bodies
      <4> DEFINE b == revs[id].base
      <4>1. ~Whole(revs[id]) => b \in DOMAIN revs /\ revs[id].delta = <<revs[b].saved, revs[id].saved>>
        BY <3>3
      <4> HIDE DEF b
      <4> QED
        BY <2>2, <4>1
    <3> QED
      BY <2>2, <3>1, <3>2, <3>3, <3>4
  <2>4. run.at \in {"none", "between", "batch"} /\ run.done \subseteq run.found
    BY <2>1 DEF RunOK, RunRecord
  <2> QED
    BY <2>1, <2>3, <2>4 DEF HistoryTypeOK, RowOK
<1> QED
  BY <1>1, InitInv, NextInv, PTL DEF Spec

\* Every revision keeps its exact body, whatever is compacted, purged, quarantined again, imported or rolled back.
THEOREM EveryBodyKept == Spec => []Lossless
<1>1. IInv => Lossless
  BY GoodBodies DEF IInv, Lossless
<1> QED
  BY <1>1, InitInv, NextInv, PTL DEF Spec

\* The note's revision at its seq exists and holds its text, and the base of a pending merge exists, but for the states
\* changed around the store.
THEOREM NoteAndBaseKept == Spec => []StatesKept
<1>1. IInv => StatesKept
  <2> SUFFICES ASSUME IInv PROVE StatesKept
    OBVIOUS
  <2>1. SeqOK /\ \A id \in DOMAIN revs : BodyOf(id) = revs[id].saved
    BY GoodBodies DEF IInv
  <2> QED
    BY <2>1 DEF SeqOK, StatesKept, At
<1> QED
  BY <1>1, InitInv, NextInv, PTL DEF Spec
=============================================================================
