--------------------------- MODULE NoteCrdtProofs ---------------------------
(***************************************************************************)
(* For every set of edits, every crash, rollback and purge: the types, the *)
(* append gate's boundary, and that acked and open text stays stored until *)
(* a transaction takes a stale clone for the stored state.  Then the row:  *)
(* never a refused text, it loses none and shows what it is folded through.*)
(***************************************************************************)
EXTENDS NoteCrdt, TLAPS, NaturalsInduction, WellFoundedInduction

Held == tx.phase \in {"read", "computed"}
Drawn(u) == msg[u].at = "drawn"
Numbered(u) == msg[u].at \in {"drawn", "logged"}

\* Ids are drawn once, in order, and those not yet committed lie past every boundary in use.
IdsInv ==
  /\ nextId > 0 /\ db.snapshotThrough < nextId /\ tx.last < nextId
  /\ \A r \in log : 0 < r.id /\ r.id < nextId
  /\ \A r, s \in log : r.id = s.id => r = s
  /\ \A u \in Typing : Numbered(u) =>
       /\ 0 < msg[u].id /\ msg[u].id < nextId
       /\ \A v \in Typing : Numbered(v) /\ msg[v].id = msg[u].id => u = v
       /\ \A r \in log : r.id = msg[u].id => r.edits = {u} /\ ~Drawn(u)
  /\ \A u \in Typing : Drawn(u) =>
       /\ db.snapshotThrough < msg[u].id
       /\ \A v \in Typing : Drawn(v) => u = v
       /\ Held => tx.last < msg[u].id /\ msg[u].id \notin tx.rejects

\* What a transaction that has read the log holds of it.
TxInv ==
  /\ tx.kind # "write" => tx.edit = {}
  /\ Held => /\ db.snapshotThrough <= tx.last
             /\ \A i \in tx.rejects : i < nextId
             /\ \A r \in log : r.id \in tx.rejects => ~Applies(r)
  /\ tx.phase = "computed" =>
       /\ \A r \in tx.rows : /\ ~r.rejected /\ Applies(r)
                             /\ 0 < r.id /\ tx.last < r.id /\ r.id < nextId
                             /\ \A s \in log : s.id # r.id
                             /\ \A s \in tx.rows : s.id = r.id => s = r
                             /\ \A u \in Typing : Numbered(u) => msg[u].id # r.id
       /\ \/ /\ tx.through = 0
             /\ tx.next.snapshot = db.snapshot /\ tx.next.snapshotThrough = db.snapshotThrough
          \/ /\ tx.through = tx.last
             /\ tx.next.snapshot = tx.doc /\ tx.next.snapshotThrough = tx.last
       /\ tx.push \subseteq tx.doc
       /\ ~tx.again => tx.edit \subseteq tx.doc

Whole(text) == text \cap Broken = {}

\* No text ever holds an update that does not apply.
BrokenInv ==
  /\ Whole(db.row) /\ Whole(db.snapshot) /\ Whole(live) /\ Whole(tx.base) /\ Whole(tx.doc) /\ Whole(tx.push)
  /\ tx.phase = "computed" => Whole(tx.next.row) /\ Whole(tx.next.snapshot)

\* What is promised, shown or in hand is stored, while no stale clone was used.
KeptInv ==
  /\ acked \subseteq Materialised /\ live \subseteq Materialised /\ tx.base \subseteq Materialised
  /\ \A u \in Typing \ Broken : msg[u].at = "logged" => u \in Materialised
  /\ Held =>
       /\ db.snapshot \subseteq tx.doc
       /\ \A r \in Readable : r.id <= tx.last => r.edits \subseteq tx.doc
  /\ tx.phase = "read" => tx.doc \subseteq Materialised
  /\ tx.phase = "computed" => tx.doc \subseteq Materialised \cup UNION {r.edits : r \in tx.rows}
  /\ tx.phase = "committed" =>
       /\ tx.doc \subseteq Materialised /\ tx.push \subseteq Materialised
       /\ ~tx.again => tx.edit \subseteq Materialised

IInv == TypeOK /\ IdsInv /\ LogPastSnapshot /\ TxInv /\ BrokenInv /\ (~staleRead => KeptInv)
-----------------------------------------------------------------------------
(* The largest of a bounded set of naturals, as LastOf takes it. *)

\* A non-empty set of naturals with a bound has a largest member, and Max chooses it.
LEMMA MaxOfBounded ==
  ASSUME NEW S, S \subseteq Nat, S # {}, NEW b \in Nat, \A x \in S : x <= b
  PROVE  Max(S) \in S /\ \A x \in S : x <= Max(S)
<1> DEFINE T == {x \in Nat : b - x \in S}
<1> DEFINE R == {ss \in Nat \X Nat : ss[1] < ss[2]}
<1>1. T \subseteq Nat /\ T # {}
  <2>1. PICK x \in S : TRUE
    OBVIOUS
  <2>2. b - x \in T
    BY <2>1, b - (b - x) = x
  <2> QED
    BY <2>2
<1>2. IsWellFoundedOn(R, Nat)
  BY NatLessThanWellFounded DEF OpToRel
<1> HIDE DEF R
<1>3. PICK t \in T : \A y \in T : ~(<<y, t>> \in R)
  BY <1>1, <1>2, WFMin
<1>4. \A y \in T : ~(y < t)
  BY <1>1, <1>3 DEF R
<1>5. \A x \in S : b - t >= x
  <2> SUFFICES ASSUME NEW x \in S PROVE b - t >= x
    OBVIOUS
  <2>1. b - x \in T
    BY b - (b - x) = x
  <2>2. t \in Nat /\ x \in Nat /\ ~(b - x < t)
    BY <1>1, <1>4, <2>1
  <2> HIDE DEF T
  <2> QED
    BY <2>2
<1>6. b - t \in S
  BY <1>3
<1> QED
  BY <1>5, <1>6 DEF Max

\* The last id of a set of log rows lies between the snapshot's boundary and the sequence.
LEMMA LastOfBounds ==
  ASSUME db.snapshotThrough \in Nat, nextId \in Nat, db.snapshotThrough < nextId,
         NEW rows, \A r \in rows : r.id \in Nat /\ r.id < nextId
  PROVE  /\ LastOf(rows) \in Nat /\ LastOf(rows) < nextId /\ db.snapshotThrough <= LastOf(rows)
         /\ \A r \in rows : r.id <= LastOf(rows)
<1> DEFINE S == {db.snapshotThrough} \cup {r.id : r \in rows}
<1>1. S \subseteq Nat /\ S # {} /\ \A x \in S : x <= nextId
  OBVIOUS
<1>2. Max(S) \in S /\ \A x \in S : x <= Max(S)
  BY <1>1, MaxOfBounded
<1>3. LastOf(rows) = Max(S)
  BY DEF LastOf
<1> QED
  BY <1>2, <1>3
-----------------------------------------------------------------------------
(* What the operators on the stored rows return. *)

\* Marking a note folded gives a note's rows again, and leaves the text and the snapshot alone.
LEMMA MarkFacts ==
  ASSUME NEW d \in Notes, NEW last \in Nat, NEW refused \in BOOLEAN, NEW rejects
  PROVE  /\ Mark(d, last, refused, rejects) \in Notes
         /\ Mark(d, last, refused, rejects).row = d.row
         /\ Mark(d, last, refused, rejects).snapshot = d.snapshot
         /\ Mark(d, last, refused, rejects).snapshotThrough = d.snapshotThrough
BY DEF Mark, Notes, FoldErrors

\* So does a row change or a fold, with the row as it was or the new text.
LEMMA FoldFacts ==
  ASSUME NEW d \in Notes, NEW text \in SUBSET Edits, NEW last \in Nat, NEW rejects
  PROVE  /\ SetRow(d, text) \in Notes
         /\ Fold(d, text, last, rejects) \in Notes
         /\ Compact(d, text, last) \in Notes
         /\ SetRow(d, text).row = text
         /\ Fold(d, text, last, rejects).row \in {d.row, text}
         /\ SetRow(d, text).snapshot = d.snapshot
         /\ Fold(d, text, last, rejects).snapshot = d.snapshot
         /\ SetRow(d, text).snapshotThrough = d.snapshotThrough
         /\ Fold(d, text, last, rejects).snapshotThrough = d.snapshotThrough
<1>1. \A c \in Notes, b \in BOOLEAN :
        /\ Mark(c, last, b, rejects) \in Notes
        /\ Mark(c, last, b, rejects).row = c.row
        /\ Mark(c, last, b, rejects).snapshot = c.snapshot
        /\ Mark(c, last, b, rejects).snapshotThrough = c.snapshotThrough
  BY MarkFacts
<1>2. /\ SetRow(d, text) \in Notes /\ SetRow(d, text).row = text
      /\ SetRow(d, text).snapshot = d.snapshot /\ SetRow(d, text).snapshotThrough = d.snapshotThrough
  <2>1. CASE text = d.row
    BY <2>1 DEF SetRow, Notes
  <2>2. CASE text # d.row
    <3>1. SetRow(d, text) = [d EXCEPT !.row = text, !.seq = @ + 1, !.revised = @ \cup {d.seq + 1}]
      BY <2>2 DEF SetRow
    <3> DEFINE e == [d EXCEPT !.row = text, !.seq = @ + 1, !.revised = @ \cup {d.seq + 1}]
    <3>2. d.seq + 1 \in Nat
      BY DEF Notes
    <3>3. e \in Notes
      BY <3>2 DEF Notes
    <3>4. e.row = text /\ e.snapshot = d.snapshot /\ e.snapshotThrough = d.snapshotThrough
      BY DEF Notes
    <3> QED
      BY <3>1, <3>3, <3>4
  <2> QED
    BY <2>1, <2>2
<1>3. Compact(d, text, last) \in Notes
  BY DEF Compact, Notes
<1>4. Fold(d, text, last, rejects) \in {Mark(d, last, TRUE, rejects), Mark(SetRow(d, text), last, FALSE, rejects)}
  BY DEF Fold
<1> QED
  BY <1>1, <1>2, <1>3, <1>4

\* A rebase's start: the row is a revision, and without a base what the document lacks is left to it.
LEMMA RebasedFacts ==
  ASSUME NEW d \in Notes, NEW doc \in SUBSET Edits
  PROVE  /\ Rebased(d, doc) \in Notes
         /\ Rebased(d, doc).row = d.row /\ Rebased(d, doc).seq = d.seq
         /\ Rebased(d, doc).snapshot = d.snapshot /\ Rebased(d, doc).snapshotThrough = d.snapshotThrough
         /\ Rebased(d, doc).foldedThrough = d.foldedThrough
         /\ d.seq \in Rebased(d, doc).revised /\ d.revised \subseteq Rebased(d, doc).revised
         /\ d.unmerged \subseteq Rebased(d, doc).unmerged
         /\ ~HasBase(d) => d.row \ doc \subseteq Rebased(d, doc).unmerged
<1> DEFINE left == IF HasBase(d) THEN d.unmerged ELSE d.unmerged \cup (d.row \ doc)
           e    == [d EXCEPT !.revised = d.revised \cup {d.seq}, !.unmerged = left]
<1>1. Rebased(d, doc) = e
  BY DEF Rebased
<1>2. left \in SUBSET Edits /\ d.unmerged \subseteq left /\ (~HasBase(d) => d.row \ doc \subseteq left)
  BY DEF Notes
<1> HIDE DEF left
<1>3. e \in Notes
  BY <1>2 DEF Notes
<1>4. /\ e.row = d.row /\ e.seq = d.seq /\ e.snapshot = d.snapshot /\ e.snapshotThrough = d.snapshotThrough
      /\ e.foldedThrough = d.foldedThrough /\ e.revised = d.revised \cup {d.seq} /\ e.unmerged = left
  BY DEF Notes
<1> HIDE DEF e
<1> QED
  BY <1>1, <1>2, <1>3, <1>4

\* The appended updates: new ids in order, none empty, none rejected.
LEMMA AppendedFacts ==
  ASSUME NEW first \in Nat, NEW e1 \in SUBSET Edits, NEW e2 \in SUBSET Edits, NEW e3 \in SUBSET Edits
  PROVE  LET rows == Appended(first, e1, e2, e3) IN
         /\ rows \subseteq LogRows
         /\ \A r \in rows : /\ first <= r.id /\ r.id < first + 3 /\ ~r.rejected
                            /\ r.edits \subseteq e1 \cup e2 \cup e3
                            /\ \A s \in rows : s.id = r.id => s = r
         /\ e1 \cup e2 \cup e3 = UNION {r.edits : r \in rows}
<1> DEFINE rows == Appended(first, e1, e2, e3)
<1>1. \A r \in rows : r \in {Row(first, e1), Row(first + 1, e2), Row(first + 2, e3)}
  BY DEF Appended
<1>2. /\ e1 # {} => Row(first, e1) \in rows
      /\ e2 # {} => Row(first + 1, e2) \in rows
      /\ e3 # {} => Row(first + 2, e3) \in rows
  BY DEF Appended, Row
<1>3. \A i \in Nat, e \in SUBSET Edits :
        Row(i, e) \in LogRows /\ Row(i, e).id = i /\ Row(i, e).edits = e /\ Row(i, e).rejected = FALSE
  BY DEF Row, LogRows
<1>4. \A r \in rows : /\ first <= r.id /\ r.id < first + 3 /\ ~r.rejected /\ r \in LogRows
                      /\ r.edits \subseteq e1 \cup e2 \cup e3
  BY <1>1, <1>3
<1>5. \A r, s \in rows : s.id = r.id => s = r
  BY <1>1, <1>3
<1>6. e1 \cup e2 \cup e3 \subseteq UNION {r.edits : r \in rows}
  BY <1>2, <1>3
<1> QED
  BY <1>4, <1>5, <1>6

\* A compaction keeps the rejected rows and those past it, and changes nothing of them but the rejection.
LEMMA CompactedFacts ==
  ASSUME NEW rows \in SUBSET LogRows, NEW rejects, NEW through \in Nat
  PROVE  LET kept == Compacted(rows, rejects, through) IN
         /\ kept \subseteq LogRows
         /\ \A r \in kept : \E s \in rows :
              /\ r.id = s.id /\ r.edits = s.edits /\ r.rejected = (s.rejected \/ s.id \in rejects)
              /\ s.rejected \/ s.id \in rejects \/ s.id > through
         /\ \A s \in rows : ~s.rejected /\ s.id \notin rejects /\ s.id > through =>
              \E r \in kept : r.id = s.id /\ r.edits = s.edits /\ ~r.rejected
<1> DEFINE ch(r) == [r EXCEPT !.rejected = @ \/ r.id \in rejects]
<1>1. \A r \in LogRows : /\ ch(r) \in LogRows /\ ch(r).id = r.id /\ ch(r).edits = r.edits
                         /\ ch(r).rejected = (r.rejected \/ r.id \in rejects)
  BY DEF LogRows
<1>2. Compacted(rows, rejects, through) = {ch(r) : r \in {s \in rows : s.rejected \/ s.id \in rejects \/ s.id > through}}
  BY DEF Compacted
<1> DEFINE kept == Compacted(rows, rejects, through)
<1> HIDE DEF ch
<1>3. \A r \in kept : \E s \in rows : r = ch(s) /\ (s.rejected \/ s.id \in rejects \/ s.id > through)
  BY <1>2
<1>4. \A s \in rows : s.rejected \/ s.id \in rejects \/ s.id > through => ch(s) \in kept
  BY <1>2
<1> HIDE DEF kept
<1>5. kept \subseteq LogRows
  BY <1>1, <1>3
<1>6. \A r \in kept : \E s \in rows :
        /\ r.id = s.id /\ r.edits = s.edits /\ r.rejected = (s.rejected \/ s.id \in rejects)
        /\ s.rejected \/ s.id \in rejects \/ s.id > through
  BY <1>1, <1>3
<1>7. \A s \in rows : ~s.rejected /\ s.id \notin rejects /\ s.id > through =>
        \E r \in kept : r.id = s.id /\ r.edits = s.edits /\ ~r.rejected
  BY <1>1, <1>4
<1> QED
  BY <1>5, <1>6, <1>7 DEF kept
-----------------------------------------------------------------------------
(* Type correctness. *)

\* The four fields of a computed transaction that depend on the note's rows.
ComputedType(d, doc, rows, push) ==
  d \in Notes /\ doc \in SUBSET Edits /\ rows \in SUBSET LogRows /\ push \in SUBSET Edits

\* A transaction computed from well-typed parts is well typed.
LEMMA TypeComputed ==
  ASSUME TypeOK, NEW d, NEW doc, NEW rows, NEW push, NEW compactions, NEW again \in BOOLEAN,
         ComputedType(d, doc, rows, push), compactions \subseteq BOOLEAN,
         Computed(d, doc, rows, push, compactions, again)
  PROVE  TypeOK'
<1>1. tx \in Transactions /\ tx.last \in Nat
  BY DEF TypeOK, Transactions
<1>2. PICK compact \in BOOLEAN :
        tx' = [tx EXCEPT !.phase = "computed", !.doc = doc, !.rows = rows, !.push = push, !.again = again,
                         !.next = IF compact THEN Compact(d, doc, tx.last) ELSE d,
                         !.through = IF compact THEN tx.last ELSE 0]
  BY DEF Computed
<1>3. (IF compact THEN Compact(d, doc, tx.last) ELSE d) \in Notes
  BY <1>1, FoldFacts DEF ComputedType
<1>4. (IF compact THEN tx.last ELSE 0) \in Nat
  BY <1>1
<1>5. tx' \in Transactions
  BY <1>1, <1>2, <1>3, <1>4 DEF Transactions, ComputedType, Phases
<1>6. nextId' \in Nat
  BY DEF Computed, TypeOK
<1> QED
  BY <1>5, <1>6 DEF Computed, TypeOK, relayVars

\* Every step keeps the types; the id discipline is what makes LastOf a number.
LEMMA TypeStep == ASSUME TypeOK, IdsInv, [Next]_vars PROVE TypeOK'
<1> USE DEF TypeOK
<1>t. Typing \subseteq Edits /\ Writes \subseteq Edits /\ Outside \subseteq Edits
  BY DEF Edits
<1>n. NewNote \in Notes /\ NoTx \in Transactions
  BY DEF NewNote, NoTx, Notes, Transactions, FoldErrors, Kinds, Phases
<1>r. \A i \in Nat, e \in SUBSET Edits : Row(i, e) \in LogRows
  BY DEF Row, LogRows
<1>l. \A rows \in SUBSET log : LastOf(rows) \in Nat
  BY LastOfBounds DEF IdsInv, LogRows, Notes
<1>q. db.seq \in Nat
  BY DEF Notes
<1>s. \A k \in Kinds, e \in SUBSET Writes, o \in BOOLEAN, d \in SUBSET Edits : Started(k, e, o, d) \in Transactions
  BY <1>n, <1>q DEF Started, Transactions, Phases
<1>1. CASE UNCHANGED vars
  BY <1>1 DEF vars, relayVars
<1>2. ASSUME NEW u \in Typing, Send(u) PROVE TypeOK'
  BY <1>2, <1>t DEF Send, relayVars, Messages
<1>3. ASSUME NEW u \in Typing, LogDraw(u) PROVE TypeOK'
  BY <1>3, <1>l DEF LogDraw, relayVars, Messages
<1>4. ASSUME NEW u \in Typing, LogCommit(u) PROVE TypeOK'
  BY <1>4, <1>t, <1>r DEF LogCommit, relayVars, Messages
<1>5. ASSUME NEW u \in Typing, AppendFails(u) PROVE TypeOK'
  BY <1>5 DEF AppendFails, Aborting, relayVars, Messages, Idle
<1>6. ASSUME NEW u \in Typing, LogOrphan(u) PROVE TypeOK'
  BY <1>6, <1>t, <1>r DEF LogOrphan, relayVars
<1>7. ASSUME NEW u \in Typing, Apply(u) PROVE TypeOK'
  BY <1>7, <1>t DEF Apply, Messages, Idle
<1>8. ASSUME NEW u \in Typing, Reject(u) PROVE TypeOK'
  BY <1>8 DEF Reject, relayVars, Messages, Idle, LogRows
<1>9. CASE Unload
  BY <1>9 DEF Unload, Aborting, Messages, Idle
<1>10. CASE Begin
  <2>1. ASSUME NEW k \in Kinds, NEW e \in SUBSET Writes, Start(k, e) PROVE tx' \in Transactions
    <3>1. tx' = Started(k, e, loaded = "yes" /\ k \in {"store", "keep", "write", "read"}, live)
      BY <2>1 DEF Start
    <3>2. (loaded = "yes" /\ k \in {"store", "keep", "write", "read"}) \in BOOLEAN
      OBVIOUS
    <3> QED
      BY <3>1, <3>2, <1>s
  <2>2. \E k \in Kinds, e \in SUBSET Writes : Start(k, e)
    BY <1>10 DEF Begin, StartStore, StartKeep, StartUnload, StartRead, StartLoad, StartBoot, StartWrite, Kinds
  <2>3. dirty' \in BOOLEAN /\ refusedStore' \in BOOLEAN /\ unloaded' \in BOOLEAN
    BY <1>10 DEF Begin, StartStore, StartKeep, StartUnload, StartRead, StartLoad, StartBoot, StartWrite
  <2> QED
    BY <2>1, <2>2, <2>3 DEF Start
<1>11. CASE Moved
  BY <1>11, <1>s DEF Moved, relayVars, Transactions
<1>12. CASE ReadTail
  <2>1. Tail \in SUBSET log /\ Readable \in SUBSET log
    BY DEF Tail, Readable
  <2>2. Materialised \in SUBSET Edits
    BY <2>1 DEF Materialised, LogRows, Notes
  <2>3. {r.id : r \in Tail \ Readable} \in SUBSET Nat
    BY <2>1 DEF LogRows
  <2>4. PICK doc \in SUBSET Edits, last \in Nat, rejects \in SUBSET Nat :
          tx' = [tx EXCEPT !.phase = "read", !.doc = doc, !.last = last, !.rejects = rejects]
    <3> DEFINE hit == /\ Writing /\ tx.open
                      /\ cached = LastOf(Tail) /\ db.foldError = "none" /\ db.foldedSeq = db.seq
    <3>1. (IF hit THEN tx.base ELSE Materialised) \in SUBSET Edits
      BY <2>2 DEF Transactions
    <3>2. (IF hit THEN cached ELSE LastOf(Readable)) \in Nat
      BY <2>1, <1>l
    <3>3. (IF hit THEN {} ELSE {r.id : r \in Tail \ Readable}) \in SUBSET Nat
      BY <2>3
    <3> QED
      BY <1>12, <3>1, <3>2, <3>3 DEF ReadTail
  <2>5. tx' \in Transactions
    BY <2>4 DEF Transactions, Phases
  <2> QED
    BY <1>12, <2>5 DEF ReadTail
<1>13. CASE Compute
  <2>0. /\ \A rows : HasTail(rows) \in BOOLEAN /\ MayCompact(rows) \subseteq BOOLEAN /\ MustCompact(rows) \subseteq BOOLEAN
        /\ {FALSE} \subseteq BOOLEAN
    BY DEF HasTail, MayCompact, MustCompact
  <2>1. /\ tx.doc \in SUBSET Edits /\ tx.base \in SUBSET Edits /\ tx.edit \in SUBSET Writes
        /\ db.row \in SUBSET Edits /\ tx.last \in Nat /\ Gained(db, tx.doc) \in SUBSET Edits
    BY DEF Transactions, Notes, Gained
  <2>r. Rebased(db, tx.doc) \in Notes
    BY <2>1, RebasedFacts
  <2>2. CASE ComputeFold
    <3> DEFINE gained == Gained(db, tx.doc) \ tx.doc
               first  == tx.doc \cup gained
               typing == tx.base \ first
               doc    == first \cup typing
               d      == IF Behind(db) THEN Fold(Rebased(db, tx.doc), first, tx.last, tx.rejects) ELSE db
               rows   == Appended(nextId, gained, typing, {})
    <3>1. gained \in SUBSET Edits /\ first \in SUBSET Edits /\ typing \in SUBSET Edits /\ doc \in SUBSET Edits
      BY <2>1
    <3>2. d \in Notes
      BY <2>1, <2>r, <3>1, FoldFacts
    <3>3. Fold(d, doc, tx.last, tx.rejects) \in Notes
      BY <2>1, <3>1, <3>2, FoldFacts
    <3>4. rows \in SUBSET LogRows
      BY <3>1, AppendedFacts
    <3>5. ComputedType(Fold(d, doc, tx.last, tx.rejects), doc, rows, gained)
      BY <3>1, <3>3, <3>4 DEF ComputedType
    <3>6. Computed(Fold(d, doc, tx.last, tx.rejects), doc, rows, gained,
                   IF tx.kind = "unload" THEN MustCompact(rows) ELSE MayCompact(rows), FALSE)
      BY <2>2 DEF ComputeFold
    <3> HIDE DEF doc, rows, gained, d
    <3> QED
      BY <2>0, <3>5, <3>6, TypeComputed
  <2>3. CASE ComputeRebase
    <3> DEFINE gained == Gained(db, tx.doc) \ tx.doc
               doc    == tx.doc \cup gained
               rows   == Appended(nextId, gained, {}, {})
    <3>0. gained \in SUBSET Edits /\ doc \in SUBSET Edits /\ {} \in SUBSET Edits
      BY <2>1
    <3>a. rows \in SUBSET LogRows
      BY <3>0, AppendedFacts
    <3>b. Fold(Rebased(db, tx.doc), doc, tx.last, tx.rejects) \in Notes
      BY <2>1, <2>r, <3>0, FoldFacts
    <3>1. ComputedType(Fold(Rebased(db, tx.doc), doc, tx.last, tx.rejects), doc, rows, gained)
      BY <3>0, <3>a, <3>b DEF ComputedType
    <3>2. Computed(Fold(Rebased(db, tx.doc), doc, tx.last, tx.rejects), doc, rows, gained, MayCompact(rows), TRUE)
      BY <2>3 DEF ComputeRebase
    <3> HIDE DEF doc, rows, gained
    <3> QED
      BY <2>0, <3>1, <3>2, TypeComputed
  <2>4. CASE ComputeWrite
    <3> DEFINE typing == tx.base \ tx.doc
               text   == tx.doc \cup typing
               folded == Fold(db, text, tx.last, tx.rejects)
               rows   == Appended(nextId, {}, typing, tx.edit)
    <3>1. typing \in SUBSET Edits /\ text \in SUBSET Edits /\ tx.edit \in SUBSET Edits
      BY <2>1, <1>t
    <3>2. folded \in Notes /\ folded.row \in SUBSET Edits
      <4>1. folded \in Notes
        BY <2>1, <3>1, FoldFacts
      <4> HIDE DEF folded
      <4> QED
        BY <4>1 DEF Notes
    <3> HIDE DEF folded
    <3>3. rows \in SUBSET LogRows
      BY <3>1, AppendedFacts
    <3>4. PICK current \in {folded.row, text} :
            Computed(Mark(SetRow(folded, current \cup tx.edit), tx.last, current # text, tx.rejects),
                     text \cup tx.edit, rows, tx.edit, MayCompact(rows), FALSE)
      BY <2>4 DEF ComputeWrite, folded
    <3>5. SetRow(folded, current \cup tx.edit) \in Notes
      BY <2>1, <3>1, <3>2, FoldFacts
    <3>6. Mark(SetRow(folded, current \cup tx.edit), tx.last, current # text, tx.rejects) \in Notes
      BY <2>1, <3>5, MarkFacts
    <3>7. ComputedType(Mark(SetRow(folded, current \cup tx.edit), tx.last, current # text, tx.rejects),
                       text \cup tx.edit, rows, tx.edit)
      BY <3>1, <3>3, <3>6 DEF ComputedType
    <3> HIDE DEF text, rows
    <3> QED
      BY <2>0, <3>4, <3>7, TypeComputed
  <2>5. CASE ComputeStore
    <3> DEFINE typing == tx.base \ tx.doc
               text   == tx.doc \cup typing
               rows   == Appended(nextId, {}, typing, {})
    <3>1. typing \in SUBSET Edits /\ text \in SUBSET Edits
      BY <2>1
    <3>2. SetRow(db, text) \in Notes
      BY <2>1, <3>1, FoldFacts
    <3>3. Mark(SetRow(db, text), tx.last, FALSE, tx.rejects) \in Notes
      BY <2>1, <3>2, MarkFacts
    <3>4. ComputedType(Mark(SetRow(db, text), tx.last, FALSE, tx.rejects), text, rows, {})
      <4>1. rows \in SUBSET LogRows /\ {} \in SUBSET Edits
        BY <3>1, AppendedFacts
      <4> QED
        BY <3>1, <3>3, <4>1 DEF ComputedType
    <3>5. Computed(Mark(SetRow(db, text), tx.last, FALSE, tx.rejects), text, rows, {}, MayCompact(rows), FALSE)
      BY <2>5 DEF ComputeStore
    <3> HIDE DEF text, rows
    <3> QED
      BY <2>0, <3>4, <3>5, TypeComputed
  <2>6. CASE ComputeKeep
    <3> DEFINE typing == tx.base \ tx.doc
               doc    == tx.doc \cup typing
               rows   == Appended(nextId, {}, typing, {})
               d      == [db EXCEPT !.foldError = "refused"]
    <3>1. typing \in SUBSET Edits /\ doc \in SUBSET Edits
      BY <2>1
    <3>2. d \in Notes
      BY DEF Notes, FoldErrors
    <3>3. ComputedType(d, doc, rows, {})
      BY <3>1, <3>2, AppendedFacts DEF ComputedType
    <3>4. Computed(d, doc, rows, {}, {FALSE}, FALSE)
      BY <2>6 DEF ComputeKeep
    <3> HIDE DEF doc, rows, d
    <3> QED
      BY <2>0, <3>3, <3>4, TypeComputed
  <2>7. CASE Refuse
    BY <2>7, <1>n DEF Refuse
  <2> QED
    BY <1>13, <2>2, <2>3, <2>4, <2>5, <2>6, <2>7 DEF Compute
<1>14. CASE Commit
  <2>1. tx.next \in Notes /\ tx.rows \in SUBSET LogRows /\ tx.through \in Nat
    BY DEF Transactions
  <2>2. Compacted(log, tx.rejects, tx.through) \in SUBSET LogRows
    BY <2>1, CompactedFacts
  <2>3. tx' \in Transactions
    BY <1>14 DEF Commit, Transactions, Phases
  <2> QED
    BY <1>14, <2>1, <2>2, <2>3 DEF Commit, relayVars
<1>15. CASE Finish
  <2>1. /\ tx.push \in SUBSET Edits /\ tx.edit \in SUBSET Edits /\ tx.edit \in SUBSET Writes /\ tx.kind \in Kinds
        /\ tx.last \in Nat
    BY <1>t DEF Transactions
  <2>2. Remembered \in Nat \cup {NoCache}
    BY <2>1 DEF Remembered
  <2>3. live' \in SUBSET Edits /\ dirty' \in BOOLEAN /\ acked' \in SUBSET Edits /\ cached' \in Nat \cup {NoCache} /\ up' \in BOOLEAN
    BY <1>15, <2>1, <2>2 DEF Finish
  <2>4. tx' \in Transactions
    <3> DEFINE pushed == IF loaded = "yes" THEN live \cup tx.push ELSE live
    <3>1. pushed \in SUBSET Edits /\ (loaded = "yes") \in BOOLEAN
      BY <2>1
    <3>2. Started(tx.kind, tx.edit, loaded = "yes", pushed) \in Transactions
      BY <1>s, <2>1, <3>1
    <3> QED
      BY <1>15, <1>n, <3>2 DEF Finish
  <2> QED
    BY <1>15, <2>3, <2>4 DEF Finish
<1>16. CASE FinishLoad
  <2>1. tx.doc \in SUBSET Edits /\ Remembered \in Nat \cup {NoCache}
    BY DEF Transactions, Remembered
  <2> QED
    BY <1>16, <1>n, <2>1 DEF FinishLoad
<1>17. CASE Opened
  BY <1>17 DEF Opened
<1>18. CASE Abort
  BY <1>18, <1>n DEF Abort, Aborting, relayVars, Notes, FoldErrors
<1>19. CASE Crash
  <2>1. msg' \in [Typing -> Messages]
    BY <1>19 DEF Crash, Idle, Messages
  <2>2. /\ loaded' = "no" /\ live' = {} /\ cached' = NoCache /\ dirty' = FALSE
        /\ refusedStore' = FALSE /\ unloaded' = FALSE /\ orphans' = {} /\ tx' = NoTx /\ up' = FALSE
        /\ crashes' = crashes + 1
        /\ UNCHANGED <<db, log, nextId, acked, aborts, purges, staleRead>>
    BY <1>19 DEF Crash
  <2>3. db' \in Notes /\ log' \subseteq LogRows /\ nextId' \in Nat /\ acked' \subseteq Edits /\ crashes' \in Nat
    BY <2>2
  <2>4. cached' \in Nat \cup {NoCache} /\ tx' \in Transactions /\ live' \subseteq Edits /\ orphans' \subseteq Typing
    BY <1>n, <2>2
  <2> QED
    BY <2>1, <2>2, <2>3, <2>4
<1>20. CASE Boot
  BY <1>20 DEF Boot, relayVars
<1>21. CASE PurgeRevision
  <2>1. Tail \in SUBSET log /\ Readable \in SUBSET log
    BY DEF Tail, Readable
  <2>2. Materialised \in SUBSET Edits /\ LastOf(Readable) \in Nat
    BY <2>1, <1>l DEF Materialised, LogRows, Notes
  <2>3. Compact(db, Materialised, LastOf(Readable)) \in Notes
    BY <2>2, FoldFacts
  <2>4. db' \in Notes
    <3>1. PICK s : db' = [Compact(db, Materialised, LastOf(Readable)) EXCEPT
                           !.revised = @ \ {s}, !.foldError = IF {r.id : r \in Tail \ Readable} = {} THEN @ ELSE "rejected"]
      BY <1>21 DEF PurgeRevision
    <3> QED
      BY <2>3, <3>1 DEF Notes, FoldErrors
  <2>5. log' \in SUBSET LogRows
    BY <1>21, <2>2, CompactedFacts DEF PurgeRevision
  <2> QED
    BY <1>21, <2>4, <2>5 DEF PurgeRevision, relayVars
<1>22. ASSUME NEW o \in Outside, ChangeOutside(o) PROVE TypeOK'
  <2>1. db.row \cup {o} \in SUBSET Edits /\ db.seq + 1 \in Nat
    BY <1>t DEF Notes
  <2>2. db' \in Notes
    BY <1>22, <2>1 DEF ChangeOutside, Notes
  <2> QED
    BY <1>22, <2>2 DEF ChangeOutside, relayVars
<1>23. CASE Reconcile
  <2>1. db' \in Notes
    BY <1>23 DEF Reconcile, Notes
  <2> QED
    BY <1>23, <2>1 DEF Reconcile, relayVars
<1> QED
  BY <1>23, <1>1, <1>2, <1>3, <1>4, <1>5, <1>6, <1>7, <1>8, <1>9, <1>10, <1>11, <1>12, <1>13, <1>14, <1>15, <1>16, <1>17, <1>18, <1>19, <1>20, <1>21, <1>22 DEF Next, Relay
-----------------------------------------------------------------------------
(* The stored text. *)

\* What a materialisation shows, row by row, now and after a step.
LEMMA StoredFacts ==
  /\ \A e : e \in Materialised <=>
       \/ e \in db.snapshot
       \/ \E r \in log : ~r.rejected /\ r.id > db.snapshotThrough /\ Applies(r) /\ e \in r.edits
  /\ \A e : e \in Materialised' <=>
       \/ e \in db'.snapshot
       \/ \E r \in log' : ~r.rejected /\ r.id > db'.snapshotThrough /\ Applies(r) /\ e \in r.edits
BY DEF Materialised, Readable, Tail, Applies

\* A step that touches neither the note's rows nor its log touches nothing stored.
LEMMA StoredUnchanged ==
  ASSUME UNCHANGED <<db, log>>
  PROVE  Materialised' = Materialised /\ Readable' = Readable /\ Tail' = Tail
BY DEF Materialised, Readable, Tail, Applies

\* Texts in hand hold no update that does not apply.
LEMMA WholeFacts ==
  ASSUME IInv
  PROVE  Whole(Materialised) /\ Whole(tx.edit) /\ Whole(Gained(db, tx.doc)) /\ \A o \in Outside : Whole({o})
<1>1. Whole(Materialised)
  BY StoredFacts DEF IInv, BrokenInv, Whole, Applies
<1>2. tx.edit \subseteq Writes
  BY DEF IInv, TypeOK, Transactions
<1>3. Whole(tx.edit) /\ \A o \in Outside : Whole({o})
  BY <1>2, EditsAssumption DEF Whole
<1>4. Whole(Gained(db, tx.doc))
  BY DEF IInv, BrokenInv, Whole, Gained
<1> QED
  BY <1>1, <1>3, <1>4
-----------------------------------------------------------------------------
(* The inductive step, first for the steps that store nothing. *)

\* No row is written, no id drawn, and the transaction goes on as it was or is not one that has read the log.
Quiet ==
  /\ UNCHANGED <<log, nextId>>
  /\ db'.snapshot = db.snapshot /\ db'.snapshotThrough = db.snapshotThrough
  /\ \A u \in Typing : Numbered(u)' => msg'[u].at = msg[u].at /\ msg'[u].id = msg[u].id
  /\ \/ UNCHANGED tx
     \/ /\ tx'.phase \in {"idle", "begun", "committed"} /\ tx'.last \in {0, tx.last}
        /\ tx'.kind # "write" => tx'.edit = {}

\* A quiet step keeps the ids, the boundary, the transaction's view and the stored text.
LEMMA QuietStep ==
  ASSUME IInv, Quiet
  PROVE  /\ IdsInv' /\ LogPastSnapshot' /\ TxInv'
         /\ Materialised' = Materialised /\ Readable' = Readable
<1>1. Materialised' = Materialised /\ Readable' = Readable
  BY DEF Quiet, Materialised, Readable, Tail, Applies
<1>2. LogPastSnapshot'
  BY DEF Quiet, IInv, LogPastSnapshot
<1>3. CASE UNCHANGED tx
  <2>1. IdsInv'
    BY <1>3 DEF Quiet, IInv, IdsInv, Held, Drawn, Numbered
  <2>2. TxInv'
    BY <1>3 DEF Quiet, IInv, TxInv, Held, Numbered, Applies
  <2> QED
    BY <1>1, <1>2, <2>1, <2>2
<1>4. CASE ~(UNCHANGED tx)
  <2>0. /\ tx'.phase \in {"idle", "begun", "committed"} /\ tx'.last \in {0, tx.last}
        /\ tx'.kind # "write" => tx'.edit = {}
    BY <1>4 DEF Quiet
  <2>1. IdsInv'
    BY <2>0 DEF Quiet, IInv, IdsInv, Held, Drawn, Numbered
  <2>2. TxInv'
    BY <2>0 DEF TxInv, Held
  <2> QED
    BY <1>1, <1>2, <2>1, <2>2
<1> QED
  BY <1>3, <1>4

\* What must hold besides the types and the ids, for a step that leaves the transaction alone.
LEMMA QuietTx ==
  ASSUME IInv, Quiet, UNCHANGED <<tx, staleRead>>, Whole(db'.row), Whole(live'),
         ~staleRead => /\ acked' \subseteq Materialised /\ live' \subseteq Materialised
                       /\ \A u \in Typing \ Broken : msg'[u].at = "logged" => u \in Materialised
  PROVE  IdsInv' /\ LogPastSnapshot' /\ TxInv' /\ BrokenInv' /\ (~staleRead => KeptInv)'
<1>1. IdsInv' /\ LogPastSnapshot' /\ TxInv' /\ Materialised' = Materialised /\ Readable' = Readable
  BY QuietStep
<1>2. BrokenInv'
  BY DEF Quiet, IInv, BrokenInv, Whole
<1>3. ASSUME ~staleRead PROVE KeptInv'
  BY <1>1, <1>3 DEF Quiet, IInv, KeptInv, Held
<1> QED
  BY <1>1, <1>2, <1>3

\* The same for a step that starts or ends a transaction.
LEMMA QuietNewTx ==
  ASSUME IInv, Quiet, UNCHANGED staleRead, tx'.phase \in {"idle", "begun"},
         Whole(db'.row), Whole(live'), Whole(tx'.base), tx'.doc = {}, tx'.push = {},
         ~staleRead => /\ acked' \subseteq Materialised /\ live' \subseteq Materialised
                       /\ tx'.base \subseteq Materialised
                       /\ \A u \in Typing \ Broken : msg'[u].at = "logged" => u \in Materialised
  PROVE  IdsInv' /\ LogPastSnapshot' /\ TxInv' /\ BrokenInv' /\ (~staleRead => KeptInv)'
<1>1. IdsInv' /\ LogPastSnapshot' /\ TxInv' /\ Materialised' = Materialised /\ Readable' = Readable
  BY QuietStep
<1>2. BrokenInv'
  BY DEF Quiet, IInv, BrokenInv, Whole
<1>3. ASSUME ~staleRead PROVE KeptInv'
  BY <1>1, <1>3 DEF KeptInv, Held
<1> QED
  BY <1>1, <1>2, <1>3

Rest == IdsInv /\ LogPastSnapshot /\ TxInv /\ BrokenInv /\ (~staleRead => KeptInv)

\* Messages the relay handles without writing a row.
LEMMA RelayStep ==
  ASSUME IInv, NEW u \in Typing, Send(u) \/ AppendFails(u) \/ Apply(u)
  PROVE  Rest'
<1> USE DEF Rest
<1>1. msg \in [Typing -> Messages] /\ Whole(live) /\ Whole(db.row)
  BY DEF IInv, TypeOK, BrokenInv
<1>2. ~staleRead => KeptInv
  BY DEF IInv
<1>3. CASE Send(u)
  <2>1. Quiet
    BY <1>1, <1>3 DEF Send, Quiet, Numbered, Messages
  <2>2. ~staleRead => /\ acked' \subseteq Materialised /\ live' \subseteq Materialised
                      /\ \A v \in Typing \ Broken : msg'[v].at = "logged" => v \in Materialised
    BY <1>1, <1>2, <1>3 DEF Send, relayVars, KeptInv, Messages
  <2> QED
    BY <1>1, <1>3, <2>1, <2>2, QuietTx DEF Send, relayVars
<1>4. CASE AppendFails(u)
  <2>1. Quiet
    BY <1>1, <1>4 DEF AppendFails, Quiet, Numbered, Messages, Idle
  <2>2. ~staleRead => /\ acked' \subseteq Materialised /\ live' \subseteq Materialised
                      /\ \A v \in Typing \ Broken : msg'[v].at = "logged" => v \in Materialised
    BY <1>1, <1>2, <1>4 DEF AppendFails, relayVars, KeptInv, Messages, Idle
  <2> QED
    BY <1>1, <1>4, <2>1, <2>2, QuietTx DEF AppendFails, relayVars
<1>5. CASE Apply(u)
  <2>1. Quiet
    BY <1>1, <1>5 DEF Apply, Quiet, Numbered, Messages, Idle
  <2>2. ~staleRead => /\ acked' \subseteq Materialised /\ live' \subseteq Materialised
                      /\ \A v \in Typing \ Broken : msg'[v].at = "logged" => v \in Materialised
    BY <1>1, <1>2, <1>5 DEF Apply, KeptInv, Messages, Idle
  <2>3. Whole(live')
    BY <1>1, <1>5 DEF Apply, Whole
  <2> QED
    BY <1>1, <1>5, <2>1, <2>2, <2>3, QuietTx DEF Apply
<1> QED
  BY <1>3, <1>4, <1>5

\* Opening, closing, crashing, and the transaction's steps that store nothing.
LEMMA OpenStep ==
  ASSUME IInv, Unload \/ Opened \/ Boot \/ Reconcile \/ Crash \/ Abort \/ Begin \/ Moved \/ Refuse
  PROVE  Rest'
<1> USE DEF Rest
<1>1. msg \in [Typing -> Messages] /\ Whole(live) /\ Whole(db.row) /\ Whole({}) /\ db \in Notes
  BY DEF IInv, TypeOK, BrokenInv, Whole
<1>2. ~staleRead => KeptInv
  BY DEF IInv
<1>3. CASE Unload
  <2>1. Quiet
    BY <1>1, <1>3 DEF Unload, Quiet, Numbered, Messages, Idle
  <2>2. ~staleRead => /\ acked' \subseteq Materialised /\ live' \subseteq Materialised
                      /\ \A v \in Typing \ Broken : msg'[v].at = "logged" => v \in Materialised
    BY <1>1, <1>2, <1>3 DEF Unload, KeptInv, Messages, Idle
  <2> QED
    BY <1>1, <1>3, <2>1, <2>2, QuietTx DEF Unload
<1>4. CASE Opened
  <2>1. Quiet
    BY <1>4 DEF Opened, Quiet, Numbered
  <2> QED
    BY <1>1, <1>2, <1>4, <2>1, QuietTx DEF Opened, KeptInv
<1>5. CASE Boot
  <2>1. Quiet
    BY <1>5 DEF Boot, Quiet, Numbered
  <2> QED
    BY <1>1, <1>2, <1>5, <2>1, QuietTx DEF Boot, relayVars, KeptInv
<1>6. CASE Crash
  <2>1. Quiet
    BY <1>6 DEF Crash, Quiet, Numbered, Idle, NoTx
  <2> QED
    BY <1>1, <1>2, <1>6, <2>1, QuietNewTx DEF Crash, Idle, NoTx, KeptInv
<1>7. CASE Abort
  <2>1. db'.row = db.row /\ db'.snapshot = db.snapshot /\ db'.snapshotThrough = db.snapshotThrough
    BY <1>1, <1>7 DEF Abort, Notes
  <2>2. Quiet
    BY <1>7, <2>1 DEF Abort, Quiet, Numbered, NoTx
  <2> QED
    BY <1>1, <1>2, <1>7, <2>1, <2>2, QuietNewTx DEF Abort, relayVars, NoTx, KeptInv
<1>8. CASE Begin \/ Moved
  <2>1. PICK k \in Kinds, e \in SUBSET Writes, o \in BOOLEAN :
          tx' = Started(k, e, o, live) /\ (k # "write" => e = {})
    <3>1. CASE Begin
      <4>1. \E k \in Kinds, e \in SUBSET Writes : Start(k, e) /\ (k # "write" => e = {})
        BY <3>1 DEF Begin, StartStore, StartKeep, StartUnload, StartRead, StartLoad, StartBoot, StartWrite, Kinds
      <4> QED
        BY <4>1 DEF Start
    <3>2. CASE Moved
      BY <3>2 DEF Moved, IInv, TxInv, TypeOK, Transactions
    <3> QED
      BY <1>8, <3>1, <3>2
  <2>2. UNCHANGED <<db, log, nextId, live, msg, acked, staleRead>>
    BY <1>8 DEF Begin, StartStore, StartKeep, StartUnload, StartRead, StartLoad, StartBoot, StartWrite, Start, Moved, relayVars
  <2>3. /\ tx'.phase = "begun" /\ tx'.last = 0 /\ tx'.doc = {} /\ tx'.push = {} /\ tx'.base \in {{}, live}
        /\ tx'.kind # "write" => tx'.edit = {}
    BY <2>1 DEF Started, NoTx
  <2>4. Quiet
    BY <2>2, <2>3 DEF Quiet, Drawn
  <2> QED
    BY <1>1, <1>2, <2>2, <2>3, <2>4, QuietNewTx DEF KeptInv
<1>9. CASE Refuse
  <2>1. Quiet
    BY <1>9 DEF Refuse, Quiet, Numbered, NoTx
  <2> QED
    BY <1>1, <1>2, <1>9, <2>1, QuietNewTx DEF Refuse, NoTx, KeptInv
<1>10. CASE Reconcile
  <2>1. db'.row = db.row /\ db'.snapshot = db.snapshot /\ db'.snapshotThrough = db.snapshotThrough
    BY <1>1, <1>10 DEF Reconcile, Notes
  <2>2. Quiet
    BY <1>10, <2>1 DEF Reconcile, Quiet, Numbered
  <2> QED
    BY <1>1, <1>2, <1>10, <2>1, <2>2, QuietTx DEF Reconcile, relayVars, KeptInv
<1> QED
  BY <1>10, <1>3, <1>4, <1>5, <1>6, <1>7, <1>8, <1>9

\* The end of a transaction: what is pushed, loaded or acked is stored by then.
LEMMA FinishStep ==
  ASSUME IInv, Finish \/ FinishLoad
  PROVE  Rest'
<1> USE DEF Rest
<1>1. /\ Whole(live) /\ Whole(db.row) /\ Whole({}) /\ Whole(tx.doc) /\ tx \in Transactions
      /\ tx.kind # "write" => tx.edit = {}
  BY DEF IInv, TypeOK, BrokenInv, TxInv, Whole
<1>2. ~staleRead => KeptInv
  BY DEF IInv
<1>3. CASE FinishLoad
  <2>1. Quiet
    BY <1>3 DEF FinishLoad, Quiet, Numbered, NoTx
  <2> QED
    BY <1>1, <1>2, <1>3, <2>1, QuietNewTx DEF FinishLoad, NoTx, KeptInv
<1>4. CASE Finish
  <2> DEFINE pushed == IF loaded = "yes" THEN live \cup tx.push ELSE live
  <2>1. /\ tx' = IF tx.again THEN Started(tx.kind, tx.edit, loaded = "yes", pushed) ELSE NoTx
        /\ live' = pushed /\ acked' \subseteq acked \cup (IF tx.again THEN {} ELSE tx.edit)
        /\ UNCHANGED <<db, log, nextId, msg, staleRead>> /\ tx.phase = "committed"
    BY <1>4 DEF Finish
  <2>2. Whole(pushed)
    BY <1>1 DEF IInv, BrokenInv, Whole
  <2> HIDE DEF pushed
  <2>3. /\ tx'.phase \in {"idle", "begun"} /\ tx'.last = 0 /\ tx'.doc = {} /\ tx'.push = {} /\ tx'.base \in {{}, pushed}
        /\ tx'.kind # "write" => tx'.edit = {}
    BY <1>1, <2>1 DEF Started, NoTx
  <2>4. Quiet
    BY <2>1, <2>3 DEF Quiet, Drawn
  <2>5. ~staleRead => pushed \subseteq Materialised /\ acked' \subseteq Materialised
    BY <1>2, <2>1 DEF KeptInv, pushed
  <2> QED
    BY <1>1, <1>2, <2>1, <2>2, <2>3, <2>4, <2>5, QuietNewTx DEF KeptInv
<1> QED
  BY <1>3, <1>4
-----------------------------------------------------------------------------
(* The steps on the log and the rows. *)

\* A step that only adds to what is stored keeps every promise, if a transaction that has read the log
\* already holds what lies below its boundary.
LEMMA KeptMono ==
  ASSUME KeptInv, Materialised \subseteq Materialised', UNCHANGED <<tx, live, acked>>,
         Held => /\ db'.snapshot = db.snapshot
                 /\ \A r \in Readable' : r.id <= tx.last => \E s \in Readable : s.id = r.id /\ s.edits = r.edits,
         \A u \in Typing \ Broken : msg'[u].at = "logged" => msg[u].at = "logged" \/ u \in Materialised'
  PROVE  KeptInv'
<1>1. /\ acked' \subseteq Materialised' /\ live' \subseteq Materialised' /\ tx'.base \subseteq Materialised'
      /\ \A u \in Typing \ Broken : msg'[u].at = "logged" => u \in Materialised'
  BY DEF KeptInv
<1>2. Held' => /\ db'.snapshot \subseteq tx'.doc
               /\ \A r \in Readable' : r.id <= tx'.last => r.edits \subseteq tx'.doc
  <2> SUFFICES ASSUME Held PROVE /\ db'.snapshot \subseteq tx.doc
                                 /\ \A r \in Readable' : r.id <= tx.last => r.edits \subseteq tx.doc
    BY DEF Held
  <2>1. /\ db.snapshot \subseteq tx.doc
        /\ \A r \in Readable : r.id <= tx.last => r.edits \subseteq tx.doc
    BY DEF KeptInv
  <2> QED
    BY <2>1
<1>3. /\ tx'.phase = "read" => tx'.doc \subseteq Materialised'
      /\ tx'.phase = "computed" => tx'.doc \subseteq Materialised' \cup UNION {r.edits : r \in tx'.rows}
      /\ tx'.phase = "committed" =>
           /\ tx'.doc \subseteq Materialised' /\ tx'.push \subseteq Materialised'
           /\ ~tx'.again => tx'.edit \subseteq Materialised'
  BY DEF KeptInv
<1> QED
  BY <1>1, <1>2, <1>3 DEF KeptInv

\* One new row past every boundary.
LEMMA NewRow ==
  ASSUME IInv, NEW i \in Nat, NEW u \in Typing, db.snapshotThrough < i,
         log' = log \cup {Row(i, {u})}, UNCHANGED db
  PROVE  /\ Materialised \subseteq Materialised' /\ LogPastSnapshot'
         /\ u \notin Broken => u \in Materialised'
         /\ \A r \in Readable' : r \in Readable \/ r.id = i
         /\ Row(i, {u}).id = i /\ Row(i, {u}).edits = {u} /\ ~Row(i, {u}).rejected
<1>1. Row(i, {u}).id = i /\ Row(i, {u}).edits = {u} /\ ~Row(i, {u}).rejected
  BY DEF Row
<1>2. Materialised \subseteq Materialised'
  BY StoredFacts
<1>3. u \notin Broken => u \in Materialised'
  <2> SUFFICES ASSUME u \notin Broken PROVE u \in Materialised'
    OBVIOUS
  <2> DEFINE row == Row(i, {u})
  <2>1. row \in log' /\ ~row.rejected /\ row.id > db'.snapshotThrough /\ Applies(row) /\ u \in row.edits
    BY <1>1 DEF Applies
  <2> HIDE DEF row
  <2> QED
    BY <2>1, StoredFacts
<1>4. \A r \in Readable' : r \in Readable \/ r.id = i
  BY <1>1 DEF Readable, Tail, Applies
<1>5. LogPastSnapshot'
  BY <1>1 DEF IInv, LogPastSnapshot
<1> QED
  BY <1>1, <1>2, <1>3, <1>4, <1>5

\* Drawing an id, committing its row, logging an orphan and rejecting a row keep the invariant: an id in hand lies
\* past every boundary, and a rejected row was never part of a text.
LEMMA LogStep ==
  ASSUME IInv, NEW u \in Typing, LogDraw(u) \/ LogCommit(u) \/ LogOrphan(u) \/ Reject(u)
  PROVE  Rest'
<1> USE DEF Rest
<1>1. msg \in [Typing -> Messages] /\ nextId \in Nat /\ tx.last \in Nat /\ db.snapshotThrough \in Nat /\ log \subseteq LogRows
  BY DEF IInv, TypeOK, Transactions, Notes
<1>2. /\ IdsInv /\ LogPastSnapshot /\ TxInv /\ BrokenInv /\ (~staleRead => KeptInv)
  BY DEF IInv
<1>a. /\ \A v \in Typing : msg[v].id \in Nat
      /\ \A r \in log : r.id \in Nat
      /\ tx.rows \subseteq LogRows /\ \A r \in tx.rows : r.id \in Nat
      /\ tx.rejects \subseteq Nat
  BY <1>1 DEF Messages, LogRows, IInv, TypeOK, Transactions
<1>3. CASE LogDraw(u)
  <2>1. /\ UNCHANGED <<db, log, tx, live, acked, staleRead>> /\ nextId' = nextId + 1
        /\ msg'[u].at = "drawn" /\ msg'[u].id = nextId
        /\ \A v \in Typing \ {u} : msg'[v] = msg[v] /\ ~Drawn(v)
    BY <1>1, <1>3 DEF LogDraw, relayVars, GateFree, Messages, Drawn
  <2>2. IdsInv'
    <3>1. /\ nextId' > 0 /\ db'.snapshotThrough < nextId' /\ tx'.last < nextId'
          /\ \A r \in log' : 0 < r.id /\ r.id < nextId'
          /\ \A r, s \in log' : r.id = s.id => r = s
      BY <1>1, <1>a, <1>2, <2>1 DEF IdsInv
    <3>2. \A v \in Typing : Numbered(v)' =>
            /\ 0 < msg'[v].id /\ msg'[v].id < nextId'
            /\ \A w \in Typing : Numbered(w)' /\ msg'[w].id = msg'[v].id => v = w
            /\ \A r \in log' : r.id = msg'[v].id => r.edits = {v} /\ ~Drawn(v)'
      <4>1. \A v \in Typing \ {u} : Numbered(v)' => Numbered(v) /\ msg'[v].id = msg[v].id /\ msg[v].id < nextId
        BY <1>2, <2>1 DEF IdsInv, Numbered
      <4>2. \A r \in log : r.id # nextId
        BY <1>a, <1>1, <1>2 DEF IdsInv
      <4> QED
        BY <1>1, <1>a, <1>2, <2>1, <4>1, <4>2 DEF IdsInv, Drawn
    <3>3. \A v \in Typing : Drawn(v)' =>
            /\ db'.snapshotThrough < msg'[v].id
            /\ \A w \in Typing : Drawn(w)' => v = w
            /\ Held' => tx'.last < msg'[v].id /\ msg'[v].id \notin tx'.rejects
      <4>1. \A v \in Typing : Drawn(v)' => v = u
        BY <2>1 DEF Drawn
      <4>2. Held => nextId \notin tx.rejects
        BY <1>a, <1>1, <1>2 DEF TxInv
      <4> QED
        BY <1>1, <1>2, <2>1, <4>1, <4>2 DEF IdsInv, Held
    <3> QED
      BY <3>1, <3>2, <3>3 DEF IdsInv
  <2>3. TxInv'
    <3>1. /\ tx'.kind # "write" => tx'.edit = {}
          /\ Held' => /\ db'.snapshotThrough <= tx'.last
                      /\ \A i \in tx'.rejects : i < nextId'
                      /\ \A r \in log' : r.id \in tx'.rejects => ~Applies(r)'
      BY <1>1, <1>a, <1>2, <2>1 DEF TxInv, Held, Applies
    <3>2. ASSUME tx.phase = "computed", NEW r \in tx.rows
          PROVE  r.id < nextId' /\ \A v \in Typing : Numbered(v)' => msg'[v].id # r.id
      BY <1>1, <1>a, <1>2, <2>1, <3>2 DEF TxInv, Numbered
    <3> QED
      BY <1>2, <2>1, <3>1, <3>2 DEF TxInv, Applies
  <2>4. LogPastSnapshot' /\ BrokenInv'
    BY <1>2, <2>1 DEF LogPastSnapshot, BrokenInv, Whole
  <2>5. Materialised' = Materialised /\ Readable' = Readable
    BY <2>1, StoredUnchanged
  <2>6. (~staleRead => KeptInv)'
    BY <1>2, <2>1, <2>5, KeptMono
  <2> QED
    BY <2>2, <2>3, <2>4, <2>6
<1>4. CASE LogCommit(u)
  <2> DEFINE i == msg[u].id
  <2>1. /\ UNCHANGED <<db, nextId, tx, live, acked, staleRead>>
        /\ log' = log \cup {Row(i, {u})} /\ Drawn(u) /\ msg'[u].at = "logged" /\ msg'[u].id = i
        /\ \A v \in Typing \ {u} : msg'[v] = msg[v]
    BY <1>1, <1>4 DEF LogCommit, relayVars, Drawn, Messages
  <2>2. /\ i \in Nat /\ 0 < i /\ i < nextId /\ db.snapshotThrough < i /\ \A r \in log : r.id # i
        /\ Held => tx.last < i /\ i \notin tx.rejects
        /\ \A v \in Typing : Drawn(v) => v = u
        /\ \A v \in Typing : Numbered(v) /\ msg[v].id = i => v = u
        /\ tx.phase = "computed" => \A r \in tx.rows : r.id # i
    BY <1>1, <1>a, <1>2, <2>1 DEF IdsInv, TxInv, Numbered, Drawn
  <2>3. /\ Materialised \subseteq Materialised' /\ LogPastSnapshot' /\ (u \notin Broken => u \in Materialised')
        /\ \A r \in Readable' : r \in Readable \/ r.id = i
        /\ Row(i, {u}).id = i /\ Row(i, {u}).edits = {u} /\ ~Row(i, {u}).rejected
    BY <2>1, <2>2, NewRow
  <2> HIDE DEF i
  <2>4. \A v \in Typing : ~Drawn(v)'
    BY <2>1, <2>2 DEF Drawn
  <2>5. IdsInv'
    <3>1. /\ \A r \in log' : 0 < r.id /\ r.id < nextId'
          /\ \A r, s \in log' : r.id = s.id => r = s
      <4> DEFINE row == Row(i, {u})
      <4>1. \A r \in log' : r \in log \/ r = row
        BY <2>1
      <4>2. row.id = i
        BY <2>3
      <4> HIDE DEF row
      <4>3. \A r \in log' : 0 < r.id /\ r.id < nextId'
        BY <1>2, <2>1, <2>2, <4>1, <4>2 DEF IdsInv
      <4>4. ASSUME NEW r \in log', NEW s \in log', r.id = s.id PROVE r = s
        BY <1>2, <2>2, <4>1, <4>2, <4>4 DEF IdsInv
      <4> QED
        BY <4>3, <4>4
    <3>2. \A v \in Typing : Numbered(v)' => Numbered(v) /\ msg'[v].id = msg[v].id
      BY <2>1 DEF Numbered, Drawn, i
    <3>3. \A v \in Typing : Numbered(v)' =>
            /\ 0 < msg'[v].id /\ msg'[v].id < nextId'
            /\ \A w \in Typing : Numbered(w)' /\ msg'[w].id = msg'[v].id => v = w
      BY <1>2, <2>1, <3>2 DEF IdsInv
    <3>4. \A v \in Typing : Numbered(v)' => \A r \in log' : r.id = msg'[v].id => r.edits = {v}
      <4> SUFFICES ASSUME NEW v \in Typing, Numbered(v)', NEW r \in log', r.id = msg'[v].id PROVE r.edits = {v}
        OBVIOUS
      <4>1. Numbered(v) /\ msg'[v].id = msg[v].id
        BY <3>2
      <4>2. CASE r \in log
        BY <1>2, <4>1, <4>2 DEF IdsInv
      <4>3. CASE r = Row(i, {u})
        BY <2>2, <2>3, <4>1, <4>3
      <4> QED
        BY <2>1, <4>2, <4>3
    <3> QED
      BY <1>2, <2>1, <2>4, <3>1, <3>3, <3>4 DEF IdsInv
  <2>6. TxInv'
    <3>1. \A v \in Typing : Numbered(v)' => Numbered(v) /\ msg'[v].id = msg[v].id
      BY <2>1 DEF Numbered, Drawn, i
    <3>2. Held => \A r \in log' : r.id \in tx.rejects => ~Applies(r)
      BY <1>2, <2>1, <2>2, <2>3 DEF TxInv
    <3>3. ASSUME tx.phase = "computed", NEW r \in tx.rows
          PROVE  /\ \A s \in log' : s.id # r.id
                 /\ \A v \in Typing : Numbered(v)' => msg'[v].id # r.id
      BY <1>2, <2>1, <2>2, <2>3, <3>1, <3>3 DEF TxInv
    <3> QED
      BY <1>2, <2>1, <3>2, <3>3 DEF TxInv, Held, Applies
  <2>7. BrokenInv'
    BY <1>2, <2>1 DEF BrokenInv, Whole
  <2>8. ASSUME ~staleRead PROVE KeptInv'
    <3>1. Held => \A r \in Readable' : r.id <= tx.last => r \in Readable
      BY <1>1, <2>2, <2>3
    <3>2. \A v \in Typing \ Broken : msg'[v].at = "logged" => msg[v].at = "logged" \/ v \in Materialised'
      BY <2>1, <2>3
    <3> QED
      BY <1>2, <2>1, <2>3, <2>8, <3>1, <3>2, KeptMono
  <2> QED
    BY <2>1, <2>3, <2>5, <2>6, <2>7, <2>8
<1>5. CASE LogOrphan(u)
  <2>1. /\ UNCHANGED <<db, msg, tx, live, acked, staleRead>> /\ nextId' = nextId + 1
        /\ log' = log \cup {Row(nextId, {u})} /\ \A v \in Typing : ~Drawn(v)
    BY <1>5 DEF LogOrphan, relayVars, GateFree, Drawn
  <2>3. /\ Materialised \subseteq Materialised' /\ LogPastSnapshot'
        /\ \A r \in Readable' : r \in Readable \/ r.id = nextId
        /\ Row(nextId, {u}).id = nextId /\ Row(nextId, {u}).edits = {u} /\ ~Row(nextId, {u}).rejected
    BY <1>1, <1>2, <2>1, NewRow DEF IdsInv
  <2>4. \A v \in Typing : ~Drawn(v)'
    BY <2>1 DEF Drawn
  <2>5. IdsInv'
    <3>1. /\ nextId' > 0 /\ db'.snapshotThrough < nextId' /\ tx'.last < nextId'
          /\ \A r \in log' : 0 < r.id /\ r.id < nextId'
          /\ \A r, s \in log' : r.id = s.id => r = s
      <4> DEFINE row == Row(nextId, {u})
      <4>1. \A r \in log' : r \in log \/ r = row
        BY <2>1
      <4>2. row.id = nextId
        BY <2>3
      <4> HIDE DEF row
      <4>3. /\ nextId' > 0 /\ db'.snapshotThrough < nextId' /\ tx'.last < nextId'
            /\ \A r \in log' : 0 < r.id /\ r.id < nextId'
        <5>1. nextId > 0 /\ db.snapshotThrough < nextId /\ tx.last < nextId /\ \A r \in log : 0 < r.id /\ r.id < nextId
          BY <1>2 DEF IdsInv
        <5>2. nextId' > 0 /\ db'.snapshotThrough < nextId' /\ tx'.last < nextId'
          BY <1>1, <2>1, <5>1
        <5>3. ASSUME NEW r \in log' PROVE 0 < r.id /\ r.id < nextId'
          <6>1. nextId' \in Nat /\ nextId < nextId'
            BY <1>1, <2>1
          <6>2. CASE r \in log
            BY <1>1, <1>a, <5>1, <6>1, <6>2
          <6>3. CASE r = row
            BY <1>1, <4>2, <5>1, <6>1, <6>3
          <6> QED
            BY <4>1, <6>2, <6>3
        <5> QED
          BY <5>2, <5>3
      <4>4. \A r \in log : r.id # nextId
        BY <1>1, <1>a, <1>2 DEF IdsInv
      <4>5. ASSUME NEW r \in log', NEW s \in log', r.id = s.id PROVE r = s
        BY <1>2, <4>1, <4>2, <4>4, <4>5 DEF IdsInv
      <4> QED
        BY <4>3, <4>5
    <3>2. \A v \in Typing : Numbered(v) =>
            /\ 0 < msg[v].id /\ msg[v].id < nextId'
            /\ \A w \in Typing : Numbered(w) /\ msg[w].id = msg[v].id => v = w
            /\ \A r \in log' : r.id = msg[v].id => r.edits = {v}
      BY <1>1, <1>a, <1>2, <2>1, <2>3 DEF IdsInv
    <3> QED
      BY <2>1, <2>4, <3>1, <3>2 DEF IdsInv, Numbered, Drawn
  <2>6. TxInv'
    <3>1. Held => /\ \A i \in tx.rejects : i < nextId'
                  /\ \A r \in log' : r.id \in tx.rejects => ~Applies(r)
      BY <1>1, <1>a, <1>2, <2>1, <2>3 DEF TxInv
    <3>2. ASSUME tx.phase = "computed", NEW r \in tx.rows
          PROVE  r.id < nextId' /\ \A s \in log' : s.id # r.id
      BY <1>1, <1>a, <1>2, <2>1, <2>3, <3>2 DEF TxInv
    <3> QED
      BY <1>2, <2>1, <3>1, <3>2 DEF TxInv, Held, Applies, Numbered
  <2>7. BrokenInv'
    BY <1>2, <2>1 DEF BrokenInv, Whole
  <2>8. ASSUME ~staleRead PROVE KeptInv'
    <3>1. Held => \A r \in Readable' : r.id <= tx.last => r \in Readable
      BY <1>1, <1>2, <2>3 DEF IdsInv
    <3> QED
      BY <1>2, <2>1, <2>3, <2>8, <3>1, KeptMono
  <2> QED
    BY <2>1, <2>3, <2>5, <2>6, <2>7, <2>8
<1>6. CASE Reject(u)
  <2> DEFINE i == msg[u].id
             ch(r) == [r EXCEPT !.rejected = @ \/ r.id = i]
  <2>1. /\ UNCHANGED <<db, nextId, tx, live, acked, staleRead>>
        /\ log' = {ch(r) : r \in log} /\ u \in Broken /\ Numbered(u)
        /\ \A v \in Typing : Numbered(v)' => msg'[v] = msg[v] /\ Numbered(v) /\ (Drawn(v)' <=> Drawn(v))
    BY <1>1, <1>6 DEF Reject, relayVars, Messages, Idle, Numbered, Drawn
  <2>2. \A r \in log : ch(r).id = r.id /\ ch(r).edits = r.edits /\ ch(r).rejected = (r.rejected \/ r.id = i)
    BY <1>1 DEF LogRows
  <2>3. \A r \in log : Applies(r) => r.id # i
    BY <1>2, <2>1 DEF IdsInv, Applies
  <2> HIDE DEF ch, i
  <2>4. /\ \A r \in log' : \E s \in log : r = ch(s) /\ r.id = s.id /\ r.edits = s.edits /\ (s.rejected => r.rejected)
        /\ \A s \in log : Applies(s) /\ ~s.rejected =>
             \E r \in log' : r.id = s.id /\ r.edits = s.edits /\ ~r.rejected
    <3>1. \A r \in log' : \E s \in log : r = ch(s) /\ r.id = s.id /\ r.edits = s.edits /\ (s.rejected => r.rejected)
      <4> SUFFICES ASSUME NEW r \in log'
                   PROVE  \E s \in log : r = ch(s) /\ r.id = s.id /\ r.edits = s.edits /\ (s.rejected => r.rejected)
        OBVIOUS
      <4>1. PICK s \in log : r = ch(s)
        BY <2>1
      <4> QED
        BY <2>2, <4>1
    <3>2. ASSUME NEW s \in log, Applies(s), ~s.rejected
          PROVE  \E r \in log' : r.id = s.id /\ r.edits = s.edits /\ ~r.rejected
      <4>1. ch(s) \in log' /\ ch(s).id = s.id /\ ch(s).edits = s.edits /\ ~ch(s).rejected
        BY <2>1, <2>2, <2>3, <3>2
      <4> QED
        BY <4>1
    <3> QED
      BY <3>1, <3>2
  <2>5. IdsInv'
    <3>1. \A r, s \in log' : r.id = s.id => r = s
      BY <1>2, <2>4 DEF IdsInv
    <3>2. \A r \in log' : 0 < r.id /\ r.id < nextId'
      BY <1>2, <2>1, <2>4 DEF IdsInv
    <3>3. \A v \in Typing : Numbered(v)' =>
            /\ 0 < msg'[v].id /\ msg'[v].id < nextId'
            /\ \A w \in Typing : Numbered(w)' /\ msg'[w].id = msg'[v].id => v = w
            /\ \A r \in log' : r.id = msg'[v].id => r.edits = {v} /\ ~Drawn(v)'
      BY <1>2, <2>1, <2>4 DEF IdsInv
    <3>4. \A v \in Typing : Drawn(v)' => Numbered(v)'
      BY DEF Drawn, Numbered
    <3> QED
      BY <1>2, <2>1, <3>1, <3>2, <3>3, <3>4 DEF IdsInv, Held
  <2>6. TxInv'
    <3>1. Held => \A r \in log' : r.id \in tx.rejects => ~Applies(r)
      BY <1>2, <2>4 DEF TxInv, Applies
    <3>2. tx.phase = "computed" => \A r \in tx.rows : \A s \in log' : s.id # r.id
      BY <1>2, <2>4 DEF TxInv
    <3> QED
      BY <1>2, <2>1, <3>1, <3>2 DEF TxInv, Held, Applies
  <2>7. LogPastSnapshot'
    BY <1>2, <2>1, <2>4 DEF LogPastSnapshot
  <2>8. BrokenInv'
    BY <1>2, <2>1 DEF BrokenInv, Whole
  <2>9. ASSUME ~staleRead PROVE KeptInv'
    <3>1. Materialised \subseteq Materialised'
      BY <2>1, <2>4, StoredFacts DEF Applies
    <3>2. \A r \in Readable' : \E s \in Readable : s.id = r.id /\ s.edits = r.edits
      BY <2>1, <2>4 DEF Readable, Tail, Applies
    <3>3. \A v \in Typing \ Broken : msg'[v].at = "logged" => msg[v].at = "logged"
      BY <2>1 DEF Numbered
    <3> QED
      BY <1>2, <2>1, <2>9, <3>1, <3>2, <3>3, KeptMono
  <2> QED
    BY <2>1, <2>5, <2>6, <2>7, <2>8, <2>9
<1> QED
  BY <1>3, <1>4, <1>5, <1>6

\* A change made behind the store touches the row and its seq only.
LEMMA OutsideStep ==
  ASSUME IInv, NEW o \in Outside, ChangeOutside(o)
  PROVE  Rest'
<1> USE DEF Rest
<1>1. db \in Notes /\ Whole(live) /\ Whole(db.row) /\ Whole({o})
  BY WholeFacts DEF IInv, TypeOK, BrokenInv
<1>2. db'.row = db.row \cup {o} /\ db'.snapshot = db.snapshot /\ db'.snapshotThrough = db.snapshotThrough
  BY <1>1 DEF ChangeOutside, Notes
<1>3. Whole(db'.row)
  BY <1>1, <1>2 DEF Whole
<1>4. Quiet
  BY <1>2 DEF ChangeOutside, Quiet, Numbered
<1>5. /\ UNCHANGED <<tx, live, acked, msg, staleRead>>
      /\ ~staleRead => KeptInv
  BY DEF ChangeOutside, relayVars, IInv
<1> QED
  BY <1>1, <1>3, <1>4, <1>5, QuietTx DEF KeptInv

\* Reading the log: the gate is free, so the boundary passes no row that is still to come.
LEMMA ReadStep ==
  ASSUME IInv, ReadTail
  PROVE  Rest'
<1> DEFINE hit == /\ Writing /\ tx.open
                  /\ cached = LastOf(Tail) /\ db.foldError = "none" /\ db.foldedSeq = db.seq
           doc == IF hit THEN tx.base ELSE Materialised
           last == IF hit THEN cached ELSE LastOf(Readable)
           rejects == IF hit THEN {} ELSE {r.id : r \in Tail \ Readable}
<1>1. /\ IdsInv /\ LogPastSnapshot /\ TxInv /\ BrokenInv /\ (~staleRead => KeptInv)
      /\ nextId \in Nat /\ db.snapshotThrough \in Nat /\ log \subseteq LogRows /\ tx \in Transactions
  BY DEF IInv, TypeOK, Notes
<1>2. /\ UNCHANGED <<db, log, nextId, live, msg, acked>> /\ \A u \in Typing : ~Drawn(u)
      /\ tx' = [tx EXCEPT !.phase = "read", !.doc = doc, !.last = last, !.rejects = rejects]
      /\ staleRead' = (staleRead \/ (hit /\ ~(Materialised \subseteq tx.base)))
  BY DEF ReadTail, GateFree, Drawn
<1>3. last \in Nat /\ last < nextId /\ db.snapshotThrough <= last
  <2>1. \A rows \in SUBSET log : LastOf(rows) \in Nat /\ LastOf(rows) < nextId /\ db.snapshotThrough <= LastOf(rows)
    <3> SUFFICES ASSUME NEW rows \in SUBSET log
                 PROVE  LastOf(rows) \in Nat /\ LastOf(rows) < nextId /\ db.snapshotThrough <= LastOf(rows)
      OBVIOUS
    <3>1. \A r \in rows : r.id \in Nat /\ r.id < nextId
      BY <1>1 DEF IdsInv, LogRows
    <3> QED
      BY <1>1, <3>1, LastOfBounds DEF IdsInv
  <2>2. Tail \in SUBSET log /\ Readable \in SUBSET log
    BY DEF Tail, Readable
  <2> QED
    BY <2>1, <2>2
<1>4. /\ \A i \in rejects : i < nextId
      /\ \A r \in log : r.id \in rejects => ~Applies(r)
  BY <1>1 DEF IdsInv, Tail, Readable
<1>5. Whole(doc)
  BY <1>1, WholeFacts DEF BrokenInv
<1>6. ASSUME ~staleRead' PROVE Materialised \subseteq doc /\ doc \subseteq Materialised /\ KeptInv
  BY <1>1, <1>2, <1>6 DEF KeptInv
<1> HIDE DEF hit, doc, last, rejects
<1>7. /\ tx'.phase = "read" /\ tx'.doc = doc /\ tx'.last = last /\ tx'.rejects = rejects
      /\ tx'.kind = tx.kind /\ tx'.edit = tx.edit /\ tx'.base = tx.base /\ tx'.push = tx.push
  BY <1>1, <1>2 DEF Transactions
<1>8. Materialised' = Materialised /\ Readable' = Readable
  BY <1>2, StoredUnchanged
<1>9. IdsInv'
  BY <1>1, <1>2, <1>3, <1>7 DEF IdsInv, Drawn, Numbered
<1>10. TxInv'
  BY <1>1, <1>2, <1>3, <1>4, <1>7 DEF TxInv, Applies
<1>11. LogPastSnapshot'
  BY <1>1, <1>2 DEF LogPastSnapshot
<1>12. BrokenInv'
  BY <1>1, <1>2, <1>5, <1>7 DEF BrokenInv, Whole
<1>13. ASSUME ~staleRead' PROVE KeptInv'
  <2>1. db.snapshot \subseteq Materialised /\ \A r \in Readable : r.edits \subseteq Materialised
    BY DEF Materialised
  <2> QED
    BY <1>2, <1>6, <1>7, <1>8, <1>13, <2>1 DEF KeptInv, Held
<1> QED
  BY <1>9, <1>10, <1>11, <1>12, <1>13 DEF Rest

\* A transaction's writes: a document that grew only by what is appended.
Grown(d, doc, e1, e2, e3, push, compactions, again) ==
  /\ doc = tx.doc \cup e1 \cup e2 \cup e3 /\ compactions \subseteq BOOLEAN
  /\ Computed(d, doc, Appended(nextId, e1, e2, e3), push, compactions, again)
  /\ d.snapshot = db.snapshot /\ d.snapshotThrough = db.snapshotThrough
  /\ Whole(d.row) /\ Whole(doc) /\ push \subseteq doc /\ (~again => tx.edit \subseteq doc)

\* A transaction whose document grew only by what it appends keeps the invariant until its COMMIT.
LEMMA ComputedStep ==
  ASSUME IInv, NEW d \in Notes, NEW e1 \in SUBSET Edits, NEW e2 \in SUBSET Edits, NEW e3 \in SUBSET Edits,
         NEW push, NEW compactions, NEW again \in BOOLEAN, NEW doc, Grown(d, doc, e1, e2, e3, push, compactions, again)
  PROVE  Rest'
<1> DEFINE rows == Appended(nextId, e1, e2, e3)
<1>0. /\ doc = tx.doc \cup e1 \cup e2 \cup e3 /\ compactions \subseteq BOOLEAN
      /\ Computed(d, doc, rows, push, compactions, again)
      /\ d.snapshot = db.snapshot /\ d.snapshotThrough = db.snapshotThrough
      /\ Whole(d.row) /\ Whole(doc) /\ push \subseteq doc /\ (~again => tx.edit \subseteq doc)
  BY DEF Grown
<1>1. /\ IdsInv /\ LogPastSnapshot /\ TxInv /\ BrokenInv /\ (~staleRead => KeptInv)
      /\ nextId \in Nat /\ tx \in Transactions /\ tx.last \in Nat /\ db.snapshotThrough \in Nat
      /\ log \subseteq LogRows /\ db \in Notes /\ \A u \in Typing : msg[u].id \in Nat
  BY DEF IInv, TypeOK, Transactions, Notes, Messages
<1>2. PICK compact \in BOOLEAN :
        tx' = [tx EXCEPT !.phase = "computed", !.doc = doc, !.rows = rows, !.push = push, !.again = again,
                         !.next = IF compact THEN Compact(d, doc, tx.last) ELSE d,
                         !.through = IF compact THEN tx.last ELSE 0]
  BY <1>0 DEF Computed
<1>3. /\ UNCHANGED <<db, log, live, msg, acked, staleRead>> /\ tx.phase = "read"
      /\ nextId' = IF rows = {} THEN nextId ELSE nextId + 3
  BY <1>0 DEF Computed, relayVars
<1>4. /\ tx'.phase = "computed" /\ tx'.doc = doc /\ tx'.rows = rows /\ tx'.push = push /\ tx'.again = again
      /\ tx'.kind = tx.kind /\ tx'.edit = tx.edit /\ tx'.base = tx.base /\ tx'.last = tx.last /\ tx'.rejects = tx.rejects
      /\ tx'.next = (IF compact THEN Compact(d, doc, tx.last) ELSE d)
      /\ tx'.through = (IF compact THEN tx.last ELSE 0)
  BY <1>1, <1>2 DEF Transactions
<1>5. /\ Compact(d, doc, tx.last).snapshot = doc /\ Compact(d, doc, tx.last).snapshotThrough = tx.last
      /\ Compact(d, doc, tx.last).row = d.row
  BY DEF Compact, Notes
<1>6. /\ rows \subseteq LogRows
      /\ \A r \in rows : /\ nextId <= r.id /\ r.id < nextId + 3 /\ ~r.rejected
                         /\ r.edits \subseteq e1 \cup e2 \cup e3
                         /\ \A s \in rows : s.id = r.id => s = r
      /\ e1 \cup e2 \cup e3 = UNION {r.edits : r \in rows}
  BY <1>1, AppendedFacts
<1> HIDE DEF rows
<1>7. \A r \in rows : Applies(r) /\ r.id \in Nat /\ r.id < nextId' /\ nextId <= r.id
  BY <1>0, <1>1, <1>3, <1>6 DEF Applies, Whole, LogRows
<1>8. nextId' \in Nat /\ nextId <= nextId'
  BY <1>1, <1>3
<1>9. IdsInv'
  <2>1. Held /\ Held'
    BY <1>3, <1>4 DEF Held
  <2>2. /\ nextId' > 0 /\ db'.snapshotThrough < nextId' /\ tx'.last < nextId'
        /\ \A r \in log' : 0 < r.id /\ r.id < nextId'
    BY <1>1, <1>3, <1>4, <1>8 DEF IdsInv, LogRows
  <2>3. \A u \in Typing : Numbered(u)' => msg'[u].id < nextId'
    BY <1>1, <1>3, <1>8 DEF IdsInv, Numbered
  <2> QED
    BY <1>1, <1>3, <1>4, <2>1, <2>2, <2>3 DEF IdsInv, Numbered, Drawn
<1>10. TxInv'
  <2>1. /\ tx'.kind # "write" => tx'.edit = {}
        /\ db'.snapshotThrough <= tx'.last
        /\ \A i \in tx'.rejects : i < nextId'
        /\ \A r \in log' : r.id \in tx'.rejects => ~Applies(r)'
    <3>1. tx.rejects \subseteq Nat
      BY <1>1 DEF Transactions
    <3> QED
      BY <1>1, <1>3, <1>4, <1>8, <3>1 DEF TxInv, Held, Applies
  <2>2. ASSUME NEW r \in rows
        PROVE  /\ ~r.rejected /\ Applies(r) /\ 0 < r.id /\ tx.last < r.id /\ r.id < nextId'
               /\ \A s \in log : s.id # r.id
               /\ \A s \in rows : s.id = r.id => s = r
               /\ \A u \in Typing : Numbered(u) => msg[u].id # r.id
    <3>1. \A s \in log : s.id \in Nat /\ s.id < nextId
      BY <1>1 DEF IdsInv, LogRows
    <3> QED
      BY <1>1, <1>6, <1>7, <3>1 DEF IdsInv
  <2>3. \/ /\ tx'.through = 0
           /\ tx'.next.snapshot = db'.snapshot /\ tx'.next.snapshotThrough = db'.snapshotThrough
        \/ /\ tx'.through = tx'.last
           /\ tx'.next.snapshot = tx'.doc /\ tx'.next.snapshotThrough = tx'.last
    BY <1>0, <1>3, <1>4, <1>5
  <2> QED
    BY <1>0, <1>3, <1>4, <2>1, <2>2, <2>3 DEF TxInv, Applies, Numbered
<1>11. LogPastSnapshot'
  BY <1>1, <1>3 DEF LogPastSnapshot
<1>12. BrokenInv'
  <2>1. Whole(push) /\ Whole(tx'.next.row) /\ Whole(tx'.next.snapshot)
    BY <1>0, <1>1, <1>4, <1>5 DEF Whole, BrokenInv
  <2> QED
    BY <1>0, <1>1, <1>3, <1>4, <2>1 DEF BrokenInv, Whole
<1>13. ASSUME ~staleRead PROVE KeptInv'
  <2>1. Materialised' = Materialised /\ Readable' = Readable
    BY <1>3, StoredUnchanged
  <2>2. tx.doc \subseteq Materialised /\ db.snapshot \subseteq tx.doc
        /\ \A r \in Readable : r.id <= tx.last => r.edits \subseteq tx.doc
    BY <1>1, <1>3, <1>13 DEF KeptInv, Held
  <2>3. doc \subseteq Materialised \cup UNION {r.edits : r \in rows}
    BY <1>0, <1>6, <2>2
  <2>4. /\ acked' \subseteq Materialised' /\ live' \subseteq Materialised' /\ tx'.base \subseteq Materialised'
        /\ \A u \in Typing \ Broken : msg'[u].at = "logged" => u \in Materialised'
    BY <1>1, <1>3, <1>4, <1>13, <2>1 DEF KeptInv
  <2> QED
    BY <1>0, <1>3, <1>4, <2>1, <2>2, <2>3, <2>4 DEF KeptInv
<1> QED
  BY <1>3, <1>9, <1>10, <1>11, <1>12, <1>13 DEF Rest

\* Every computation of a fold, a rebase, a write, a store or kept typing is such a growth.
LEMMA ComputeStep ==
  ASSUME IInv, Compute
  PROVE  Rest'
<1>1. /\ tx.doc \in SUBSET Edits /\ tx.base \in SUBSET Edits /\ tx.edit \in SUBSET Edits
      /\ db \in Notes /\ tx.last \in Nat /\ Gained(db, tx.doc) \in SUBSET Edits
  BY DEF IInv, TypeOK, Transactions, Notes, Gained, Edits
<1>r. /\ Rebased(db, tx.doc) \in Notes /\ Rebased(db, tx.doc).row = db.row
      /\ Rebased(db, tx.doc).snapshot = db.snapshot /\ Rebased(db, tx.doc).snapshotThrough = db.snapshotThrough
  BY <1>1, RebasedFacts
<1>2. /\ Whole(tx.doc) /\ Whole(tx.base) /\ Whole(tx.edit) /\ Whole(Gained(db, tx.doc)) /\ Whole(db.row)
      /\ tx.kind # "write" => tx.edit = {}
  BY WholeFacts DEF IInv, BrokenInv, TxInv
<1>3. \A rows : MayCompact(rows) \subseteq BOOLEAN /\ MustCompact(rows) \subseteq BOOLEAN
  BY DEF HasTail, MayCompact, MustCompact
<1>4. \A d \in Notes, text \in SUBSET Edits : Whole(d.row) /\ Whole(text) =>
        LET f == Fold(d, text, tx.last, tx.rejects) IN
        f \in Notes /\ f.snapshot = d.snapshot /\ f.snapshotThrough = d.snapshotThrough /\ Whole(f.row)
  <2> SUFFICES ASSUME NEW d \in Notes, NEW text \in SUBSET Edits, Whole(d.row), Whole(text)
               PROVE  LET f == Fold(d, text, tx.last, tx.rejects) IN
                      f \in Notes /\ f.snapshot = d.snapshot /\ f.snapshotThrough = d.snapshotThrough /\ Whole(f.row)
    OBVIOUS
  <2> DEFINE f == Fold(d, text, tx.last, tx.rejects)
  <2>1. f \in Notes /\ f.snapshot = d.snapshot /\ f.snapshotThrough = d.snapshotThrough /\ f.row \in {d.row, text}
    <3>1. f \in Notes
      BY <1>1, FoldFacts
    <3>2. f.snapshot = d.snapshot /\ f.snapshotThrough = d.snapshotThrough
      BY <1>1, FoldFacts
    <3>3. f.row \in {d.row, text}
      BY <1>1, FoldFacts
    <3> QED
      BY <3>1, <3>2, <3>3
  <2> QED
    BY <2>1
<1>5. \A d \in Notes, text \in SUBSET Edits, b \in BOOLEAN : Whole(text) =>
        LET f == Mark(SetRow(d, text), tx.last, b, tx.rejects) IN
        f \in Notes /\ f.snapshot = d.snapshot /\ f.snapshotThrough = d.snapshotThrough /\ Whole(f.row)
  <2> SUFFICES ASSUME NEW d \in Notes, NEW text \in SUBSET Edits, NEW b \in BOOLEAN, Whole(text)
               PROVE  LET f == Mark(SetRow(d, text), tx.last, b, tx.rejects) IN
                      f \in Notes /\ f.snapshot = d.snapshot /\ f.snapshotThrough = d.snapshotThrough /\ Whole(f.row)
    OBVIOUS
  <2> DEFINE c == SetRow(d, text)
  <2>1. c \in Notes /\ c.snapshot = d.snapshot /\ c.snapshotThrough = d.snapshotThrough /\ c.row = text
    BY <1>1, FoldFacts
  <2> HIDE DEF c
  <2>2. /\ Mark(c, tx.last, b, tx.rejects) \in Notes
        /\ Mark(c, tx.last, b, tx.rejects).row = c.row
        /\ Mark(c, tx.last, b, tx.rejects).snapshot = c.snapshot
        /\ Mark(c, tx.last, b, tx.rejects).snapshotThrough = c.snapshotThrough
    BY <1>1, <2>1, MarkFacts
  <2> QED
    BY <2>1, <2>2 DEF c
<1>6. CASE ComputeFold
  <2> DEFINE gained == Gained(db, tx.doc) \ tx.doc
             first  == tx.doc \cup gained
             typing == tx.base \ first
             doc    == first \cup typing
             d      == IF Behind(db) THEN Fold(Rebased(db, tx.doc), first, tx.last, tx.rejects) ELSE db
             f      == Fold(d, doc, tx.last, tx.rejects)
             rows   == Appended(nextId, gained, typing, {})
             cs     == IF tx.kind = "unload" THEN MustCompact(rows) ELSE MayCompact(rows)
  <2>1. /\ gained \in SUBSET Edits /\ typing \in SUBSET Edits /\ {} \in SUBSET Edits
        /\ first \in SUBSET Edits /\ doc \in SUBSET Edits
        /\ Whole(first) /\ Whole(doc)
    BY <1>1, <1>2 DEF Whole
  <2>2. d \in Notes /\ d.snapshot = db.snapshot /\ d.snapshotThrough = db.snapshotThrough /\ Whole(d.row)
    <3> DEFINE b == Rebased(db, tx.doc)
    <3>1. b \in Notes /\ b.snapshot = db.snapshot /\ b.snapshotThrough = db.snapshotThrough /\ Whole(b.row)
      BY <1>r, <1>2
    <3> HIDE DEF b, first
    <3>2. /\ Fold(b, first, tx.last, tx.rejects) \in Notes
          /\ Fold(b, first, tx.last, tx.rejects).snapshot = db.snapshot
          /\ Fold(b, first, tx.last, tx.rejects).snapshotThrough = db.snapshotThrough
          /\ Whole(Fold(b, first, tx.last, tx.rejects).row)
      BY <1>4, <2>1, <3>1
    <3> QED
      BY <1>1, <1>2, <3>2 DEF b
  <2> HIDE DEF d
  <2>3. f \in Notes /\ f.snapshot = db.snapshot /\ f.snapshotThrough = db.snapshotThrough /\ Whole(f.row)
    BY <1>4, <2>1, <2>2
  <2>4. Computed(f, doc, rows, gained, cs, FALSE) /\ tx.edit = {}
    BY <1>2, <1>6 DEF ComputeFold, d
  <2>5. doc = tx.doc \cup gained \cup typing \cup {} /\ gained \subseteq doc /\ cs \subseteq BOOLEAN
    BY <1>3
  <2> HIDE DEF f, doc, gained, typing, cs
  <2>6. Grown(f, doc, gained, typing, {}, gained, cs, FALSE)
    BY <2>1, <2>3, <2>4, <2>5 DEF Grown
  <2> QED
    BY <2>1, <2>3, <2>6, ComputedStep
<1>7. CASE ComputeRebase
  <2> DEFINE gained == Gained(db, tx.doc) \ tx.doc
             doc    == tx.doc \cup gained
             f      == Fold(Rebased(db, tx.doc), doc, tx.last, tx.rejects)
             rows   == Appended(nextId, gained, {}, {})
             cs     == MayCompact(rows)
  <2>1. gained \in SUBSET Edits /\ {} \in SUBSET Edits /\ doc \in SUBSET Edits /\ Whole(doc)
    BY <1>1, <1>2 DEF Whole
  <2>3. f \in Notes /\ f.snapshot = db.snapshot /\ f.snapshotThrough = db.snapshotThrough /\ Whole(f.row)
    <3> DEFINE b == Rebased(db, tx.doc)
    <3>1. b \in Notes /\ b.snapshot = db.snapshot /\ b.snapshotThrough = db.snapshotThrough /\ Whole(b.row)
      BY <1>r, <1>2
    <3> HIDE DEF b, doc
    <3> QED
      BY <1>4, <2>1, <3>1 DEF b
  <2>4. Computed(f, doc, rows, gained, cs, TRUE)
    BY <1>7 DEF ComputeRebase
  <2>5. doc = tx.doc \cup gained \cup {} \cup {} /\ gained \subseteq doc /\ cs \subseteq BOOLEAN
    BY <1>3
  <2> HIDE DEF f, doc, gained, cs
  <2>6. Grown(f, doc, gained, {}, {}, gained, cs, TRUE)
    BY <2>1, <2>3, <2>4, <2>5 DEF Grown
  <2> QED
    BY <2>1, <2>3, <2>6, ComputedStep
<1>8. CASE ComputeWrite
  <2> DEFINE typing == tx.base \ tx.doc
             text   == tx.doc \cup typing
             folded == Fold(db, text, tx.last, tx.rejects)
             rows   == Appended(nextId, {}, typing, tx.edit)
             doc    == text \cup tx.edit
             cs     == MayCompact(rows)
  <2>1. /\ typing \in SUBSET Edits /\ {} \in SUBSET Edits /\ text \in SUBSET Edits /\ doc \in SUBSET Edits
        /\ Whole(text) /\ Whole(doc)
    BY <1>1, <1>2 DEF Whole
  <2>2. /\ folded \in Notes /\ folded.snapshot = db.snapshot /\ folded.snapshotThrough = db.snapshotThrough
        /\ Whole(folded.row)
    BY <1>1, <1>2, <1>4, <2>1
  <2>3. PICK current \in {folded.row, text} :
          Computed(Mark(SetRow(folded, current \cup tx.edit), tx.last, current # text, tx.rejects),
                   doc, rows, tx.edit, cs, FALSE)
    BY <1>8 DEF ComputeWrite
  <2> HIDE DEF folded
  <2>4. current \cup tx.edit \in SUBSET Edits /\ Whole(current \cup tx.edit)
    BY <1>1, <1>2, <2>1, <2>2 DEF Whole, Notes
  <2> DEFINE b == current # text
             f == Mark(SetRow(folded, current \cup tx.edit), tx.last, b, tx.rejects)
  <2>5. f \in Notes /\ f.snapshot = db.snapshot /\ f.snapshotThrough = db.snapshotThrough /\ Whole(f.row)
    <3>1. b \in BOOLEAN
      OBVIOUS
    <3> HIDE DEF b
    <3> QED
      BY <1>5, <2>2, <2>4, <3>1
  <2>6. Computed(f, doc, rows, tx.edit, cs, FALSE)
    BY <2>3
  <2>7. doc = tx.doc \cup {} \cup typing \cup tx.edit /\ tx.edit \subseteq doc /\ cs \subseteq BOOLEAN
    BY <1>3
  <2> HIDE DEF f, doc, typing, cs
  <2>8. Grown(f, doc, {}, typing, tx.edit, tx.edit, cs, FALSE)
    BY <2>1, <2>5, <2>6, <2>7 DEF Grown
  <2> QED
    BY <1>1, <2>1, <2>5, <2>8, ComputedStep
<1>9. CASE ComputeStore
  <2> DEFINE typing == tx.base \ tx.doc
             text   == tx.doc \cup typing
             f      == Mark(SetRow(db, text), tx.last, FALSE, tx.rejects)
             rows   == Appended(nextId, {}, typing, {})
             cs     == MayCompact(rows)
  <2>1. typing \in SUBSET Edits /\ {} \in SUBSET Edits /\ text \in SUBSET Edits /\ Whole(text)
    BY <1>1, <1>2 DEF Whole
  <2>3. f \in Notes /\ f.snapshot = db.snapshot /\ f.snapshotThrough = db.snapshotThrough /\ Whole(f.row)
    BY <1>1, <1>5, <2>1
  <2>4. Computed(f, text, rows, {}, cs, FALSE) /\ tx.edit = {}
    BY <1>2, <1>9 DEF ComputeStore
  <2>5. text = tx.doc \cup {} \cup typing \cup {} /\ {} \subseteq text /\ cs \subseteq BOOLEAN
    BY <1>3
  <2> HIDE DEF f, text, typing, cs
  <2>6. Grown(f, text, {}, typing, {}, {}, cs, FALSE)
    BY <2>1, <2>3, <2>4, <2>5 DEF Grown
  <2> QED
    BY <2>1, <2>3, <2>6, ComputedStep
<1>10. CASE ComputeKeep
  <2> DEFINE typing == tx.base \ tx.doc
             doc    == tx.doc \cup typing
             f      == [db EXCEPT !.foldError = "refused"]
             rows   == Appended(nextId, {}, typing, {})
  <2>1. typing \in SUBSET Edits /\ {} \in SUBSET Edits /\ doc \in SUBSET Edits /\ Whole(doc)
    BY <1>1, <1>2 DEF Whole
  <2>3. f \in Notes /\ f.snapshot = db.snapshot /\ f.snapshotThrough = db.snapshotThrough /\ Whole(f.row)
    <3>1. f \in Notes /\ f.row = db.row
      BY <1>1 DEF Notes, FoldErrors
    <3>2. f.snapshot = db.snapshot /\ f.snapshotThrough = db.snapshotThrough
      BY <1>1 DEF Notes
    <3> QED
      BY <1>2, <3>1, <3>2
  <2>4. Computed(f, doc, rows, {}, {FALSE}, FALSE) /\ tx.edit = {}
    BY <1>2, <1>10 DEF ComputeKeep
  <2>5. doc = tx.doc \cup {} \cup typing \cup {} /\ {} \subseteq doc /\ {FALSE} \subseteq BOOLEAN
    OBVIOUS
  <2> HIDE DEF f, doc, typing
  <2>6. Grown(f, doc, {}, typing, {}, {}, {FALSE}, FALSE)
    BY <2>1, <2>3, <2>4, <2>5 DEF Grown
  <2> QED
    BY <2>1, <2>3, <2>6, ComputedStep
<1>11. CASE Refuse
  BY <1>11, OpenStep
<1> QED
  BY <1>6, <1>7, <1>8, <1>9, <1>10, <1>11 DEF Compute

\* Every row of the log that is neither rejected nor compacted is kept as it was; the others that are
\* kept are rejected.  What a materialisation showed, it still shows, and the appended updates too.
LEMMA CommitStep ==
  ASSUME IInv, Commit
  PROVE  Rest'
<1> DEFINE kept == Compacted(log, tx.rejects, tx.through)
<1>1. /\ IdsInv /\ LogPastSnapshot /\ TxInv /\ BrokenInv /\ (~staleRead => KeptInv)
      /\ tx \in Transactions /\ tx.last \in Nat /\ tx.through \in Nat /\ tx.rows \subseteq LogRows
      /\ tx.next \in Notes /\ db.snapshotThrough \in Nat /\ nextId \in Nat /\ log \subseteq LogRows
      /\ \A u \in Typing : msg[u].id \in Nat
  BY DEF IInv, TypeOK, Transactions, Notes, Messages
<1>2. /\ tx.phase = "computed" /\ db' = tx.next /\ log' = kept \cup tx.rows
      /\ UNCHANGED <<nextId, live, msg, acked, staleRead>>
  BY DEF Commit, relayVars
<1>3. /\ tx'.phase = "committed" /\ tx'.doc = tx.doc /\ tx'.push = tx.push /\ tx'.again = tx.again
      /\ tx'.kind = tx.kind /\ tx'.edit = tx.edit /\ tx'.base = {} /\ tx'.last = tx.last
  BY <1>1 DEF Commit, Transactions
<1>4. /\ kept \subseteq LogRows
      /\ \A r \in kept : \E s \in log :
           /\ r.id = s.id /\ r.edits = s.edits /\ r.rejected = (s.rejected \/ s.id \in tx.rejects)
           /\ s.rejected \/ s.id \in tx.rejects \/ s.id > tx.through
      /\ \A s \in log : ~s.rejected /\ s.id \notin tx.rejects /\ s.id > tx.through =>
           \E r \in kept : r.id = s.id /\ r.edits = s.edits /\ ~r.rejected
  BY <1>1, CompactedFacts
<1> HIDE DEF kept
<1>5. Held /\ ~Held'
  BY <1>2, <1>3 DEF Held
<1>6. /\ tx.next.snapshotThrough \in Nat /\ tx.next.snapshotThrough <= tx.last /\ tx.last < nextId
      /\ db.snapshotThrough <= tx.last
      /\ \A r \in log : r.id \in Nat /\ 0 < r.id /\ r.id < nextId
      /\ \A r \in tx.rows : r.id \in Nat /\ tx.last < r.id /\ r.id < nextId /\ ~r.rejected /\ Applies(r)
      /\ \A r \in tx.rows : \A s \in log : s.id # r.id
      /\ \A r \in tx.rows : \A s \in tx.rows : s.id = r.id => s = r
      /\ \A r \in tx.rows : \A u \in Typing : Numbered(u) => msg[u].id # r.id
  <2>1. tx.next.snapshotThrough \in Nat /\ tx.next.snapshotThrough \in {db.snapshotThrough, tx.last}
    BY <1>1, <1>2 DEF TxInv, Notes
  <2>2. db.snapshotThrough <= tx.last /\ tx.last < nextId
    BY <1>1, <1>5 DEF TxInv, IdsInv
  <2>3. \A r \in log : r.id \in Nat /\ 0 < r.id /\ r.id < nextId
    BY <1>1 DEF IdsInv, LogRows
  <2>4. /\ \A r \in tx.rows : r.id \in Nat /\ tx.last < r.id /\ r.id < nextId /\ ~r.rejected /\ Applies(r)
        /\ \A r \in tx.rows : \A s \in log : s.id # r.id
        /\ \A r \in tx.rows : \A s \in tx.rows : s.id = r.id => s = r
        /\ \A r \in tx.rows : \A u \in Typing : Numbered(u) => msg[u].id # r.id
    BY <1>1, <1>2 DEF TxInv, LogRows
  <2>5. tx.next.snapshotThrough <= tx.last
    BY <1>1, <2>1, <2>2
  <2> QED
    BY <2>1, <2>2, <2>3, <2>4, <2>5
<1>7. IdsInv'
  <2>1. nextId' > 0 /\ db'.snapshotThrough < nextId' /\ tx'.last < nextId'
    BY <1>1, <1>2, <1>3, <1>6 DEF IdsInv
  <2>2. \A r \in log' : 0 < r.id /\ r.id < nextId'
    <3>1. \A r \in kept : 0 < r.id /\ r.id < nextId
      BY <1>4, <1>6
    <3>2. \A r \in tx.rows : 0 < r.id /\ r.id < nextId
      BY <1>1, <1>6
    <3> QED
      BY <1>2, <3>1, <3>2
  <2>3. \A r, s \in log' : r.id = s.id => r = s
    <3>1. ASSUME NEW r \in kept, NEW s \in kept, r.id = s.id PROVE r = s
      <4>1. PICK r0 \in log : r.id = r0.id /\ r.edits = r0.edits /\ r.rejected = (r0.rejected \/ r0.id \in tx.rejects)
        BY <1>4
      <4>2. PICK s0 \in log : s.id = s0.id /\ s.edits = s0.edits /\ s.rejected = (s0.rejected \/ s0.id \in tx.rejects)
        BY <1>4
      <4>3. r0 = s0
        BY <1>1, <3>1, <4>1, <4>2 DEF IdsInv
      <4>4. r \in LogRows /\ s \in LogRows /\ r.id = s.id /\ r.edits = s.edits /\ r.rejected = s.rejected
        BY <1>4, <4>1, <4>2, <4>3
      <4> QED
        BY <4>4 DEF LogRows
    <3>2. \A r \in kept : \A s \in tx.rows : r.id # s.id
      BY <1>4, <1>6
    <3> QED
      BY <1>2, <1>6, <3>1, <3>2
  <2>4. \A u \in Typing : Numbered(u) => \A r \in log' : r.id = msg[u].id => r.edits = {u} /\ ~Drawn(u)
    <3>1. \A u \in Typing : Numbered(u) => \A r \in kept : r.id = msg[u].id => r.edits = {u} /\ ~Drawn(u)
      BY <1>1, <1>4 DEF IdsInv
    <3> QED
      BY <1>2, <1>6, <3>1
  <2>5. \A u \in Typing : Drawn(u) => db'.snapshotThrough < msg[u].id
    BY <1>1, <1>2, <1>5, <1>6 DEF IdsInv
  <2> QED
    BY <1>1, <1>2, <1>5, <2>1, <2>2, <2>3, <2>4, <2>5 DEF IdsInv, Numbered, Drawn
<1>8. TxInv'
  BY <1>1, <1>3, <1>5 DEF TxInv
<1>9. \A s \in log : ~s.rejected /\ s.id \notin tx.rejects /\ s.id > tx.through =>
        s.id > tx.next.snapshotThrough
  <2>1. ASSUME NEW s \in log, ~s.rejected, s.id > tx.through PROVE s.id > tx.next.snapshotThrough
    BY <1>1, <1>2, <1>6, <2>1 DEF TxInv, LogPastSnapshot
  <2> QED
    BY <2>1
<1>10. LogPastSnapshot'
  <2>1. \A r \in kept : ~r.rejected => r.id > tx.next.snapshotThrough
    BY <1>4, <1>9
  <2>2. \A r \in tx.rows : r.id > tx.next.snapshotThrough
    BY <1>1, <1>6
  <2> QED
    BY <1>2, <2>1, <2>2 DEF LogPastSnapshot
<1>11. BrokenInv'
  BY <1>1, <1>2, <1>3 DEF BrokenInv, Whole
<1>12. ASSUME ~staleRead PROVE KeptInv'
  <2>1. KeptInv
    BY <1>1, <1>12
  <2>2. \A r \in tx.rows : r.edits \subseteq Materialised'
    <3> SUFFICES ASSUME NEW r \in tx.rows, NEW e \in r.edits PROVE e \in Materialised'
      OBVIOUS
    <3>1. r \in log' /\ ~r.rejected /\ r.id > db'.snapshotThrough /\ Applies(r)
      BY <1>1, <1>2, <1>6
    <3> QED
      BY <3>1, StoredFacts
  <2>3. db.snapshot \subseteq Materialised'
    BY <1>1, <1>2, <1>5, <2>1, StoredFacts DEF TxInv, KeptInv
  <2>4. \A r \in Readable : r.edits \subseteq Materialised'
    <3> SUFFICES ASSUME NEW r \in Readable, NEW e \in r.edits PROVE e \in Materialised'
      OBVIOUS
    <3>1. r \in log /\ ~r.rejected /\ r.id > db.snapshotThrough /\ Applies(r) /\ r.id \in Nat /\ 0 < r.id
      BY <1>6 DEF Readable, Tail
    <3>2. r.id \notin tx.rejects
      BY <1>1, <1>5, <3>1 DEF TxInv
    <3>3. CASE r.id > tx.through
      <4>1. PICK k \in kept : k.id = r.id /\ k.edits = r.edits /\ ~k.rejected
        BY <1>4, <3>1, <3>2, <3>3
      <4>2. k \in log' /\ k.id > db'.snapshotThrough /\ Applies(k)
        BY <1>2, <1>9, <3>1, <3>2, <3>3, <4>1 DEF Applies
      <4> QED
        BY <4>1, <4>2, StoredFacts
    <3>4. CASE ~(r.id > tx.through)
      <4>1. tx.through = tx.last /\ tx.next.snapshot = tx.doc /\ r.id <= tx.last
        BY <1>1, <1>2, <3>1, <3>4 DEF TxInv
      <4>2. r.edits \subseteq tx.doc
        BY <1>5, <2>1, <4>1 DEF KeptInv
      <4> QED
        BY <1>2, <4>1, <4>2, StoredFacts
    <3> QED
      BY <3>3, <3>4
  <2>5. Materialised \subseteq Materialised'
    BY <2>3, <2>4 DEF Materialised
  <2>6. tx.doc \subseteq Materialised'
    BY <1>2, <2>1, <2>2, <2>5 DEF KeptInv
  <2>7. tx.push \subseteq tx.doc /\ (~tx.again => tx.edit \subseteq tx.doc)
    BY <1>1, <1>2 DEF TxInv
  <2>8. /\ acked' \subseteq Materialised' /\ live' \subseteq Materialised'
        /\ \A u \in Typing \ Broken : msg'[u].at = "logged" => u \in Materialised'
    BY <1>2, <2>1, <2>5 DEF KeptInv
  <2> QED
    BY <1>3, <1>5, <2>6, <2>7, <2>8 DEF KeptInv
<1> QED
  BY <1>2, <1>7, <1>8, <1>10, <1>11, <1>12 DEF Rest

\* A purge compacts under the gate what a materialisation shows, between transactions.
LEMMA PurgeStep ==
  ASSUME IInv, PurgeRevision
  PROVE  Rest'
<1> DEFINE rejects == {r.id : r \in Tail \ Readable}
           through == LastOf(Readable)
           kept == Compacted(log, rejects, through)
<1>1. /\ IdsInv /\ TxInv /\ BrokenInv /\ (~staleRead => KeptInv)
      /\ db \in Notes /\ db.snapshotThrough \in Nat /\ nextId \in Nat /\ log \subseteq LogRows
  BY DEF IInv, TypeOK, Notes
<1>2. /\ ~Held /\ UNCHANGED <<nextId, live, msg, acked, tx, staleRead>> /\ log' = kept
      /\ \A u \in Typing : ~Drawn(u)
  BY DEF PurgeRevision, relayVars, Held, GateFree, Drawn
<1>3. through \in Nat /\ through < nextId
  <2>1. \A r \in Readable : r.id \in Nat /\ r.id < nextId
    BY <1>1 DEF IdsInv, Readable, Tail, LogRows
  <2> QED
    BY <1>1, <2>1, LastOfBounds DEF IdsInv
<1>4. db'.row = db.row /\ db'.snapshot = Materialised /\ db'.snapshotThrough = through
  <2>1. PICK s : db' = [Compact(db, Materialised, through) EXCEPT
                         !.revised = @ \ {s}, !.foldError = IF rejects = {} THEN @ ELSE "rejected"]
    BY DEF PurgeRevision
  <2> HIDE DEF rejects, through
  <2> QED
    BY <1>1, <2>1 DEF Compact, Notes
<1> HIDE DEF rejects, through
<1>5. /\ kept \subseteq LogRows
      /\ \A r \in kept : \E s \in log :
           /\ r.id = s.id /\ r.edits = s.edits /\ r.rejected = (s.rejected \/ s.id \in rejects)
           /\ s.rejected \/ s.id \in rejects \/ s.id > through
  BY <1>1, <1>3, CompactedFacts
<1> HIDE DEF kept
<1>6. IdsInv'
  <2>1. \A r \in log' : 0 < r.id /\ r.id < nextId'
    BY <1>1, <1>2, <1>5 DEF IdsInv
  <2>2. ASSUME NEW r \in kept, NEW s \in kept, r.id = s.id PROVE r = s
    <3>1. PICK r0 \in log : r.id = r0.id /\ r.edits = r0.edits /\ r.rejected = (r0.rejected \/ r0.id \in rejects)
      BY <1>5
    <3>2. PICK s0 \in log : s.id = s0.id /\ s.edits = s0.edits /\ s.rejected = (s0.rejected \/ s0.id \in rejects)
      BY <1>5
    <3>3. r0 = s0
      BY <1>1, <2>2, <3>1, <3>2 DEF IdsInv
    <3>4. r \in LogRows /\ s \in LogRows /\ r.id = s.id /\ r.edits = s.edits /\ r.rejected = s.rejected
      BY <1>5, <3>1, <3>2, <3>3
    <3> QED
      BY <3>4 DEF LogRows
  <2>3. \A u \in Typing : Numbered(u) => \A r \in kept : r.id = msg[u].id => r.edits = {u}
    BY <1>1, <1>5 DEF IdsInv
  <2> QED
    BY <1>1, <1>2, <1>3, <1>4, <2>1, <2>2, <2>3 DEF IdsInv, Numbered, Drawn
<1>7. TxInv'
  BY <1>1, <1>2 DEF TxInv, Held
<1>8. LogPastSnapshot'
  BY <1>2, <1>4, <1>5 DEF LogPastSnapshot
<1>9. BrokenInv'
  BY <1>1, <1>2, <1>4, WholeFacts DEF BrokenInv, Whole, Held
<1>10. ASSUME ~staleRead PROVE KeptInv'
  <2>1. Materialised \subseteq Materialised'
    BY <1>4, StoredFacts
  <2> QED
    BY <1>1, <1>2, <1>10, <2>1, KeptMono
<1> QED
  BY <1>2, <1>6, <1>7, <1>8, <1>9, <1>10 DEF Rest
-----------------------------------------------------------------------------
(* The invariant and what it gives. *)

\* Nothing is stored, promised or in hand at first.
LEMMA InvInit == Init => IInv
<1> SUFFICES ASSUME Init PROVE IInv
  OBVIOUS
<1>1. NewNote \in Notes /\ NoTx \in Transactions /\ Idle \in Messages
  BY DEF NewNote, NoTx, Idle, Notes, Transactions, Messages, FoldErrors, Kinds, Phases
<1>d. db \in Notes /\ db.row = {} /\ db.snapshot = {} /\ db.snapshotThrough = 0
  <2>1. PICK revised \in {{}, {1}} : db = [NewNote EXCEPT !.revised = revised]
    BY DEF Init
  <2>2. \A c \in Notes, v \in SUBSET Nat : LET e == [c EXCEPT !.revised = v] IN
          e \in Notes /\ e.row = c.row /\ e.snapshot = c.snapshot /\ e.snapshotThrough = c.snapshotThrough
    BY DEF Notes
  <2>3. NewNote.row = {} /\ NewNote.snapshot = {} /\ NewNote.snapshotThrough = 0 /\ revised \in SUBSET Nat
    BY DEF NewNote
  <2> QED
    BY <1>1, <2>1, <2>2, <2>3
<1>2. TypeOK
  BY <1>1, <1>d, BoundsAssumption DEF Init, TypeOK
<1>3. \A u \in Typing : msg[u].at = "idle"
  BY DEF Init, Idle
<1>4. IdsInv /\ LogPastSnapshot
  BY <1>3, <1>d DEF Init, IdsInv, LogPastSnapshot, NoTx, Numbered, Drawn
<1>5. TxInv /\ BrokenInv
  BY <1>d DEF Init, TxInv, BrokenInv, NoTx, NewNote, Held, Whole
<1>6. KeptInv
  <2>1. Materialised = {} /\ Readable = {}
    BY <1>d DEF Init, Materialised, Readable, Tail
  <2> QED
    BY <1>3, <1>d, <2>1 DEF Init, KeptInv, NoTx, Held
<1> QED
  BY <1>2, <1>4, <1>5, <1>6 DEF IInv

\* Every step of the relay, of a transaction, of a failure or of an outside writer keeps the invariant.
LEMMA InvStep == IInv /\ [Next]_vars => IInv'
<1> SUFFICES ASSUME IInv, [Next]_vars PROVE IInv'
  OBVIOUS
<1>1. TypeOK'
  BY TypeStep DEF IInv
<1>2. ASSUME Next PROVE Rest'
  <2>1. ASSUME NEW u \in Typing, Send(u) \/ AppendFails(u) \/ Apply(u) PROVE Rest'
    BY <2>1, RelayStep
  <2>2. ASSUME NEW u \in Typing, LogDraw(u) \/ LogCommit(u) \/ LogOrphan(u) \/ Reject(u) PROVE Rest'
    BY <2>2, LogStep
  <2>3. ASSUME NEW o \in Outside, ChangeOutside(o) PROVE Rest'
    BY <2>3, OutsideStep
  <2>4. Unload \/ Opened \/ Boot \/ Reconcile \/ Crash \/ Abort \/ Begin \/ Moved => Rest'
    BY OpenStep
  <2>5. (Finish \/ FinishLoad => Rest') /\ (ReadTail => Rest')
    BY FinishStep, ReadStep
  <2>6. (Compute => Rest') /\ (Commit => Rest') /\ (PurgeRevision => Rest')
    BY ComputeStep, CommitStep, PurgeStep
  <2> HIDE DEF Rest
  <2> QED
    BY <1>2, <2>1, <2>2, <2>3, <2>4, <2>5, <2>6 DEF Next, Relay
<1>3. ASSUME UNCHANGED vars PROVE Rest'
  <2>1. Quiet /\ UNCHANGED <<db, tx, staleRead, live, acked, msg>>
    BY <1>3 DEF Quiet, vars, Numbered
  <2>2. /\ Whole(db'.row) /\ Whole(live')
        /\ ~staleRead => /\ acked' \subseteq Materialised /\ live' \subseteq Materialised
                         /\ \A u \in Typing \ Broken : msg'[u].at = "logged" => u \in Materialised
    BY <2>1 DEF IInv, BrokenInv, KeptInv
  <2>3. IdsInv' /\ LogPastSnapshot' /\ TxInv' /\ BrokenInv' /\ (~staleRead => KeptInv)'
    BY <2>1, <2>2, QuietTx
  <2> QED
    BY <2>3 DEF Rest
<1> QED
  BY <1>1, <1>2, <1>3 DEF IInv, Rest

\* Every reachable state has the types, the id discipline, the transaction's view of the log, and - until a
\* stale clone is used - every promised text in store.
THEOREM Invariance == Spec => []IInv
  BY InvInit, InvStep, PTL DEF Spec

\* Every reachable state has the types declared for the stored rows, the relay and the transaction.
THEOREM TypeCorrect == Spec => []TypeOK
<1>1. IInv => TypeOK
  BY DEF IInv
<1> QED
  BY <1>1, Invariance, PTL

\* The append gate: no row a materialisation should read ever lies at or under the snapshot's boundary.
THEOREM GateKeepsTail == Spec => []LogPastSnapshot
<1>1. IInv => LogPastSnapshot
  BY DEF IInv
<1> QED
  BY <1>1, Invariance, PTL

\* Append before ack: an edit whose author was told it is saved stays in the stored document, through every
\* fold, write, rejection, compaction, purge and crash, until a transaction takes a stale clone for it, and no row
\* that should be read falls under the snapshot's boundary.
THEOREM AckedStaysStored == Spec => []PromiseKept
<1>1. IInv => PromiseKept
  BY DEF IInv, KeptInv, AckedKept, PromiseKept
<1> QED
  BY <1>1, Invariance, PTL

\* What an open document shows its editors is stored, so a crash of the relay takes nothing from it.
THEOREM OpenStaysStored == Spec => []OpenIsStored
<1>1. IInv => OpenIsStored
  BY DEF IInv, KeptInv, OpenIsStored
<1> QED
  BY <1>1, Invariance, PTL
-----------------------------------------------------------------------------
(* The row: what it shows, what it loses and what it refuses. *)

\* A row's text shows every readable log row up to an id.
Shows(row, through) == \A r \in Readable : r.id <= through => r.edits \subseteq row

\* A note's rows tell what changed behind the store: the base of a note without such a change is its text.
Based(d) ==
  d.foldedSeq <= d.seq /\ (d.foldedSeq = d.seq => d.row = d.base) /\ d.row \ d.base \subseteq Outside

\* `text` accounts for the version `old` of the row, of that seq: what it does not show was changed behind the store,
\* met an edit of `text` at its place or a rebase without a base, and is kept as a revision.
Accounts(text, old, seq, d) ==
  \A e \in old \ text :
    /\ e \in Outside /\ seq \in d.revised
    /\ (e \in d.unmerged \/ \E u \in text : <<e, u>> \in Overlaps)

\* What a computed transaction will write: only through an id that no row still to come lies under.
NextInv ==
  /\ ~Refused(tx.next.row) /\ Based(tx.next)
  /\ tx.next.foldedThrough \in {db.foldedThrough, tx.last} /\ \A r \in tx.rows : db.foldedThrough < r.id
  /\ ~staleRead => /\ Accounts(tx.next.row, db.row, db.seq, tx.next)
                   /\ Accounts(tx.doc, tx.next.base, tx.next.foldedSeq, tx.next)
                   /\ Shows(tx.next.row, tx.next.foldedThrough)

RowInv ==
  /\ ~Refused(db.row) /\ Based(db)
  /\ db.foldedThrough < nextId /\ \A u \in Typing : Drawn(u) => db.foldedThrough < msg[u].id
  /\ ~staleRead => /\ Accounts(Materialised, db.base, db.foldedSeq, db)
                   /\ (Held => Accounts(tx.doc, db.base, db.foldedSeq, db))
                   /\ Shows(db.row, db.foldedThrough)
  /\ tx.phase = "computed" => NextInv

\* A text accounts for what it shows; a larger text, or a note that remembers more, accounts for no less.
LEMMA AccountsFacts ==
  /\ \A text, old, seq, d : old \subseteq text => Accounts(text, old, seq, d)
  /\ \A text, old, seq, d, more, n :
       /\ Accounts(text, old, seq, d) /\ text \subseteq more
       /\ d.unmerged \subseteq n.unmerged /\ (seq \in d.revised => seq \in n.revised)
       => Accounts(more, old, seq, n)
BY DEF Accounts

\* A later version of a note remembers what the earlier one did, and a new seq has a revision.
Follows(n, d) ==
  n.unmerged = d.unmerged /\ d.revised \subseteq n.revised /\ (n.seq = d.seq \/ n.seq \in n.revised)

\* A note marked in a transaction on `b`, whose row the text `first` accounts for: its row holds either, and is accounted
\* for by the document.
LEMMA Settles ==
  ASSUME NEW f, NEW b, NEW row, NEW first, NEW doc,
         Accounts(first, row, b.seq, b), Follows(f, b), f.base = f.row, f.foldedSeq = f.seq,
         first \subseteq doc, f.row \subseteq row \cup doc, row \subseteq f.row \/ first \subseteq f.row
  PROVE  Accounts(f.row, row, b.seq, f) /\ Accounts(doc, f.base, f.foldedSeq, f)
BY DEF Accounts, Follows

\* A row change moves no boundary, and gives a new text its revision.
SetTo(s, d, text) == s \in Notes /\ s.row = text /\ s.foldedThrough = d.foldedThrough /\ Follows(s, d)

LEMMA SetRowMore ==
  \A d \in Notes, text \in SUBSET Edits : SetTo(SetRow(d, text), d, text)
<1> SUFFICES ASSUME NEW d \in Notes, NEW text \in SUBSET Edits
             PROVE  SetTo(SetRow(d, text), d, text)
  OBVIOUS
<1> DEFINE e == [d EXCEPT !.row = text, !.seq = @ + 1, !.revised = @ \cup {d.seq + 1}]
<1>1. SetTo(e, d, text)
  <2>1. d.seq + 1 \in Nat
    BY DEF Notes
  <2>2. /\ e \in Notes /\ e.row = text /\ e.foldedThrough = d.foldedThrough
        /\ e.unmerged = d.unmerged /\ e.revised = d.revised \cup {d.seq + 1} /\ e.seq = d.seq + 1
    BY <2>1 DEF Notes
  <2> HIDE DEF e
  <2> QED
    BY <2>2 DEF SetTo, Follows
<1>2. SetRow(d, text) = IF text = d.row THEN d ELSE e
  BY DEF SetRow
<1> HIDE DEF e
<1>3. text = d.row => SetTo(d, d, text)
  BY DEF SetTo, Follows
<1> QED
  BY <1>1, <1>2, <1>3

\* A marked note: its base is its text, and it is folded through that boundary.
MarkedTo(m, d, row, through) ==
  /\ m \in Notes /\ m.row = row /\ m.base = row /\ m.seq \in Nat /\ m.foldedSeq = m.seq /\ m.foldedThrough = through
  /\ Follows(m, d)

\* A marked note's base is its text, so its rows tell what changes behind the store from here.
LEMMA MarkedBased == \A m, d, row, through : MarkedTo(m, d, row, through) => Based(m)
<1> SUFFICES ASSUME NEW m, NEW d, NEW row, NEW through, MarkedTo(m, d, row, through) PROVE Based(m)
  OBVIOUS
<1>1. m.row = m.base /\ m.seq \in Nat /\ m.foldedSeq = m.seq
  BY DEF MarkedTo
<1>2. m.foldedSeq <= m.seq /\ m.row \ m.base = {}
  BY <1>1
<1> QED
  BY <1>1, <1>2 DEF Based

\* Marking folded: the base is the row, and the boundary moves only if the document agrees with it.
LEMMA MarkMore ==
  ASSUME NEW last \in Nat, NEW rejects
  PROVE  \A s, d, text : SetTo(s, d, text) =>
           /\ MarkedTo(Mark(s, last, TRUE, rejects), d, text, d.foldedThrough)
           /\ MarkedTo(Mark(s, last, FALSE, rejects), d, text, last)
<1> SUFFICES ASSUME NEW s, NEW d, NEW text, SetTo(s, d, text)
             PROVE  /\ MarkedTo(Mark(s, last, TRUE, rejects), d, text, d.foldedThrough)
                    /\ MarkedTo(Mark(s, last, FALSE, rejects), d, text, last)
  OBVIOUS
<1>1. /\ s \in Notes /\ s.foldedThrough \in Nat /\ s.seq \in Nat /\ s.row \in SUBSET Edits
      /\ (IF rejects # {} THEN "rejected" ELSE "none") \in FoldErrors /\ "refused" \in FoldErrors
  BY DEF Notes, FoldErrors, SetTo
<1>2. ASSUME NEW through \in Nat, NEW error \in FoldErrors
      PROVE  MarkedTo([s EXCEPT !.foldedThrough = through, !.foldedSeq = s.seq, !.base = s.row, !.foldError = error],
                      d, text, through)
  <2> DEFINE m == [s EXCEPT !.foldedThrough = through, !.foldedSeq = s.seq, !.base = s.row, !.foldError = error]
  <2>1. /\ m \in Notes /\ m.row = s.row /\ m.base = s.row /\ m.seq = s.seq /\ m.foldedSeq = s.seq
        /\ m.foldedThrough = through /\ m.unmerged = s.unmerged /\ m.revised = s.revised
    BY <1>1 DEF Notes
  <2> HIDE DEF m
  <2>2. MarkedTo(m, d, text, through)
    BY <1>1, <2>1 DEF MarkedTo, SetTo, Follows
  <2> QED
    BY <2>2 DEF m
<1>3. Mark(s, last, TRUE, rejects) =
        [s EXCEPT !.foldedThrough = s.foldedThrough, !.foldedSeq = s.seq, !.base = s.row, !.foldError = "refused"]
  BY DEF Mark
<1>4. MarkedTo(Mark(s, last, TRUE, rejects), d, text, s.foldedThrough)
  <2>1. MarkedTo([s EXCEPT !.foldedThrough = s.foldedThrough, !.foldedSeq = s.seq, !.base = s.row, !.foldError = "refused"],
                 d, text, s.foldedThrough)
    BY <1>1, <1>2
  <2> QED
    BY <1>3, <2>1
<1>5. s.foldedThrough = d.foldedThrough
  BY DEF SetTo
<1> DEFINE e == IF rejects # {} THEN "rejected" ELSE "none"
<1>6. Mark(s, last, FALSE, rejects) =
        [s EXCEPT !.foldedThrough = last, !.foldedSeq = s.seq, !.base = s.row, !.foldError = e]
  BY DEF Mark
<1>7. e \in FoldErrors
  BY <1>1
<1> HIDE DEF e
<1>8. MarkedTo(Mark(s, last, FALSE, rejects), d, text, last)
  BY <1>2, <1>6, <1>7
<1> QED
  BY <1>4, <1>5, <1>8

\* A fold's result as a record of facts: accepted, marked, and either nothing moved or the whole text taken.
FoldedTo(f, d, text, last) ==
  /\ f \in Notes /\ Based(f) /\ ~Refused(f.row) /\ f.base = f.row /\ f.foldedSeq = f.seq /\ Follows(f, d)
  /\ \/ f.row = d.row /\ f.foldedThrough = d.foldedThrough
     \/ f.row = text /\ f.foldedThrough = last

\* A fold either refuses the text and moves nothing, or takes it whole and moves the boundary.
LEMMA FoldMore ==
  ASSUME NEW last \in Nat, NEW rejects
  PROVE  \A d \in Notes, text \in SUBSET Edits : ~Refused(d.row) => FoldedTo(Fold(d, text, last, rejects), d, text, last)
<1> SUFFICES ASSUME NEW d \in Notes, NEW text \in SUBSET Edits, ~Refused(d.row)
             PROVE  FoldedTo(Fold(d, text, last, rejects), d, text, last)
  OBVIOUS
<1>1. PICK s : s = SetRow(d, text) /\ SetTo(s, d, text)
  BY SetRowMore
<1>2. CASE text # d.row /\ Refused(text)
  <2>0. SetTo(d, d, d.row)
    BY DEF SetTo, Follows
  <2>1. PICK m : m = Mark(d, last, TRUE, rejects) /\ MarkedTo(m, d, d.row, d.foldedThrough)
    BY <2>0, MarkMore
  <2>2. Fold(d, text, last, rejects) = m
    BY <1>2, <2>1 DEF Fold
  <2>3. Based(m)
    BY <2>1, MarkedBased
  <2>4. m.row = d.row
    BY <2>1 DEF MarkedTo
  <2>5. ~Refused(m.row)
    BY <2>4
  <2>6. FoldedTo(m, d, text, last)
    BY <2>1, <2>3, <2>5 DEF FoldedTo, MarkedTo
  <2> QED
    BY <2>2, <2>6
<1>3. CASE ~(text # d.row /\ Refused(text))
  <2>1. PICK m : m = Mark(s, last, FALSE, rejects) /\ MarkedTo(m, d, text, last)
    BY <1>1, MarkMore
  <2>2. Fold(d, text, last, rejects) = m
    BY <1>1, <1>3, <2>1 DEF Fold
  <2>3. ~Refused(text)
    BY <1>3
  <2>4. Based(m)
    BY <2>1, MarkedBased
  <2>5. m.row = text
    BY <2>1 DEF MarkedTo
  <2>6. ~Refused(m.row)
    BY <2>3, <2>5
  <2>7. FoldedTo(m, d, text, last)
    BY <2>1, <2>4, <2>5, <2>6 DEF FoldedTo, MarkedTo
  <2> QED
    BY <2>2, <2>7
<1> QED
  BY <1>2, <1>3

\* A larger text shows no less.
LEMMA ShowsMore ==
  ASSUME NEW a, NEW b, NEW i, a \subseteq b, Shows(a, i)
  PROVE  Shows(b, i)
BY DEF Shows

\* What a fold or a rebase starts from: the note as it is, or with the row kept as a revision.
Opening == IF Behind(db) THEN Rebased(db, tx.doc) ELSE db
Merged == tx.doc \cup (Gained(db, tx.doc) \ tx.doc)

\* What a transaction that has read the log knows of the row: its document shows what lies below its boundary, and with
\* what the row gained behind the store it accounts for the whole row.
LEMMA ReadKnows ==
  ASSUME IInv, RowInv, tx.phase = "read"
  PROVE  /\ tx \in Transactions /\ db \in Notes /\ ~Refused(db.row) /\ Based(db)
         /\ Opening \in Notes /\ Opening.row = db.row /\ Opening.seq = db.seq /\ Opening.foldedThrough = db.foldedThrough
         /\ ~Behind(db) => Merged = tx.doc
         /\ ~staleRead => Shows(tx.doc, tx.last) /\ Shows(db.row, db.foldedThrough)
         /\ ~staleRead => Accounts(tx.doc, db.base, db.foldedSeq, db)
         /\ ~staleRead => Accounts(Merged, db.row, db.seq, Opening)
<1>1. tx \in Transactions /\ db \in Notes /\ ~Refused(db.row) /\ Based(db) /\ db.seq \in Nat /\ db.foldedSeq \in Nat
  BY DEF IInv, TypeOK, RowInv, Notes
<1>2. ~staleRead => Shows(tx.doc, tx.last) /\ Shows(db.row, db.foldedThrough)
  BY DEF IInv, KeptInv, Held, RowInv, Shows
<1>3. ~staleRead => Accounts(tx.doc, db.base, db.foldedSeq, db)
  BY DEF RowInv, Held
<1>4. ~Behind(db) => db.row = db.base /\ db.foldedSeq = db.seq
  BY <1>1 DEF Behind, Based
<1>5. ~Behind(db) => Merged = tx.doc
  BY DEF Gained, Merged
<1>6. tx.doc \in SUBSET Edits
  BY <1>1 DEF Transactions
<1> DEFINE b == Rebased(db, tx.doc)
<1>7. /\ b \in Notes /\ b.row = db.row /\ b.seq = db.seq /\ b.foldedThrough = db.foldedThrough
      /\ db.seq \in b.revised /\ db.unmerged \subseteq b.unmerged
      /\ ~HasBase(db) => db.row \ tx.doc \subseteq b.unmerged
  BY <1>1, <1>6, RebasedFacts
<1>8. Opening = IF Behind(db) THEN b ELSE db
  BY DEF Opening
<1> HIDE DEF b
<1>9. ASSUME ~staleRead, Behind(db) PROVE Accounts(Merged, db.row, db.seq, b)
  <2> SUFFICES ASSUME NEW e \in db.row, e \notin Merged
               PROVE  e \in Outside /\ (e \in b.unmerged \/ \E u \in Merged : <<e, u>> \in Overlaps)
    BY <1>7 DEF Accounts
  <2>1. e \notin tx.doc /\ tx.doc \subseteq Merged /\ e \notin Gained(db, tx.doc)
    BY DEF Merged
  <2>2. CASE e \in db.base
    BY <1>3, <1>7, <1>9, <2>1, <2>2 DEF Accounts
  <2>3. CASE e \notin db.base
    <3>1. e \in Outside
      BY <1>1, <2>3 DEF Based
    <3>2. CASE HasBase(db)
      <4>1. \E u \in tx.doc \ db.base : <<e, u>> \in Overlaps
        BY <1>9, <2>1, <2>3, <3>2 DEF Gained
      <4> QED
        BY <2>1, <3>1, <4>1
    <3>3. CASE ~HasBase(db)
      BY <1>7, <2>1, <3>1, <3>3
    <3> QED
      BY <3>2, <3>3
  <2> QED
    BY <2>2, <2>3
<1> QED
  BY <1>1, <1>2, <1>3, <1>4, <1>5, <1>7, <1>8, <1>9

\* A transaction's writes, from a document that holds what was read.
LEMMA RowComputed ==
  ASSUME IInv, RowInv, NEW d \in Notes, NEW doc \in SUBSET Edits, NEW e1 \in SUBSET Edits, NEW e2 \in SUBSET Edits,
         NEW e3 \in SUBSET Edits, NEW push, NEW compactions, NEW again,
         Computed(d, doc, Appended(nextId, e1, e2, e3), push, compactions, again), compactions \subseteq BOOLEAN,
         tx.doc \subseteq doc, ~Refused(d.row), Based(d), d.foldedThrough \in {db.foldedThrough, tx.last},
         ~staleRead => /\ Accounts(d.row, db.row, db.seq, d) /\ Accounts(doc, d.base, d.foldedSeq, d)
                       /\ Shows(d.row, d.foldedThrough)
  PROVE  RowInv'
<1> DEFINE rows == Appended(nextId, e1, e2, e3)
<1>1. tx \in Transactions /\ nextId \in Nat /\ tx.last \in Nat /\ db \in Notes /\ db.foldedThrough \in Nat
  BY DEF IInv, TypeOK, Transactions, Notes
<1>2. PICK n \in {d, Compact(d, doc, tx.last)}, through \in Nat :
        tx' = [tx EXCEPT !.phase = "computed", !.doc = doc, !.rows = rows, !.push = push, !.again = again,
                         !.next = n, !.through = through]
  BY <1>1 DEF Computed
<1>3. /\ n.row = d.row /\ n.base = d.base /\ n.seq = d.seq /\ n.foldedSeq = d.foldedSeq /\ n.foldedThrough = d.foldedThrough
      /\ n.unmerged = d.unmerged /\ n.revised = d.revised
  BY DEF Compact, Notes
<1>4. /\ UNCHANGED <<db, log, msg, staleRead>> /\ tx.phase = "read"
      /\ nextId' = IF rows = {} THEN nextId ELSE nextId + 3
  BY DEF Computed
<1>5. \A r \in rows : nextId <= r.id /\ r.id \in Nat
  <2>1. /\ rows \subseteq LogRows
        /\ \A r \in rows : /\ nextId <= r.id /\ r.id < nextId + 3 /\ ~r.rejected
                           /\ r.edits \subseteq e1 \cup e2 \cup e3
                           /\ \A s \in rows : s.id = r.id => s = r
        /\ e1 \cup e2 \cup e3 = UNION {r.edits : r \in rows}
    BY <1>1, AppendedFacts
  <2> HIDE DEF rows
  <2> QED
    BY <2>1 DEF LogRows
<1> HIDE DEF rows
<1>6. tx'.phase = "computed" /\ tx'.doc = doc /\ tx'.rows = rows /\ tx'.next = n /\ tx'.last = tx.last
  BY <1>1, <1>2 DEF Transactions
<1>7. Readable' = Readable /\ Materialised' = Materialised
  BY <1>4, StoredUnchanged
<1>8. db.foldedThrough < nextId /\ nextId <= nextId'
  BY <1>1, <1>4 DEF RowInv
<1>9. \A r \in rows : db.foldedThrough < r.id
  BY <1>1, <1>5, <1>8
<1>10. NextInv'
  <2>1. /\ ~Refused(n.row) /\ Based(n) /\ n.foldedThrough \in {db.foldedThrough, tx.last}
        /\ ~staleRead => /\ Accounts(n.row, db.row, db.seq, n) /\ Accounts(doc, n.base, n.foldedSeq, n)
                         /\ Shows(n.row, n.foldedThrough)
    BY <1>3 DEF Based, Accounts
  <2> QED
    BY <1>4, <1>6, <1>7, <1>9, <2>1 DEF NextInv, Based, Refused, Shows, Accounts
<1>11. ~staleRead => Accounts(doc, db.base, db.foldedSeq, db)
  BY <1>4, AccountsFacts DEF RowInv, Held
<1>12. db'.foldedThrough < nextId'
  BY <1>1, <1>4, <1>8
<1> QED
  BY <1>4, <1>6, <1>7, <1>10, <1>11, <1>12 DEF RowInv, Drawn, Based, Refused, Shows, Accounts

\* Folds, rebases, writes, stores and kept typing all account for the row's text.
LEMMA RowCompute ==
  ASSUME IInv, RowInv, Compute, ~Refuse
  PROVE  RowInv'
<1>0. /\ \A rows : HasTail(rows) \in BOOLEAN /\ MayCompact(rows) \subseteq BOOLEAN /\ MustCompact(rows) \subseteq BOOLEAN
      /\ {FALSE} \subseteq BOOLEAN /\ {} \in SUBSET Edits
  BY DEF HasTail, MayCompact, MustCompact
<1>1. tx.phase = "read"
  BY DEF Compute, ComputeFold, ComputeRebase, ComputeWrite, ComputeStore, ComputeKeep, Computed
<1>2. /\ tx \in Transactions /\ db \in Notes /\ ~Refused(db.row) /\ Based(db)
      /\ Opening \in Notes /\ Opening.row = db.row /\ Opening.seq = db.seq /\ Opening.foldedThrough = db.foldedThrough
      /\ ~Behind(db) => Merged = tx.doc
      /\ ~staleRead => Shows(tx.doc, tx.last) /\ Shows(db.row, db.foldedThrough)
      /\ ~staleRead => Accounts(tx.doc, db.base, db.foldedSeq, db)
      /\ ~staleRead => Accounts(Merged, db.row, db.seq, Opening)
  BY <1>1, ReadKnows
<1>3. /\ tx.doc \in SUBSET Edits /\ tx.base \in SUBSET Edits /\ tx.edit \in SUBSET Edits
      /\ db.row \in SUBSET Edits /\ tx.last \in Nat /\ Gained(db, tx.doc) \in SUBSET Edits
      /\ Merged \in SUBSET Edits /\ tx.doc \subseteq Merged
  BY <1>2 DEF Transactions, Notes, Gained, Edits, Merged
<1>f. \A d \in Notes, text \in SUBSET Edits :
        ~Refused(d.row) => FoldedTo(Fold(d, text, tx.last, tx.rejects), d, text, tx.last)
  BY <1>3, FoldMore
\* The opening, folded to any text that holds the merged one, accounts for the row.
<1>s. ASSUME NEW f, NEW doc, ~staleRead, Follows(f, Opening), f.base = f.row, f.foldedSeq = f.seq,
             Merged \subseteq doc, f.row \subseteq db.row \cup doc, db.row \subseteq f.row \/ Merged \subseteq f.row
      PROVE  Accounts(f.row, db.row, db.seq, f) /\ Accounts(doc, f.base, f.foldedSeq, f)
  <2>1. Accounts(Merged, db.row, Opening.seq, Opening)
    BY <1>2, <1>s
  <2>2. Accounts(f.row, db.row, Opening.seq, f) /\ Accounts(doc, f.base, f.foldedSeq, f)
    BY <1>s, <2>1, Settles
  <2> QED
    BY <1>2, <2>2
<1>m. \A d \in Notes, text \in SUBSET Edits, b \in BOOLEAN :
        MarkedTo(Mark(SetRow(d, text), tx.last, b, tx.rejects), d, text, IF b THEN d.foldedThrough ELSE tx.last)
  <2> SUFFICES ASSUME NEW d \in Notes, NEW text \in SUBSET Edits, NEW b \in BOOLEAN
               PROVE  MarkedTo(Mark(SetRow(d, text), tx.last, b, tx.rejects), d, text,
                               IF b THEN d.foldedThrough ELSE tx.last)
    OBVIOUS
  <2>1. PICK s : s = SetRow(d, text) /\ SetTo(s, d, text)
    BY SetRowMore
  <2>2. /\ MarkedTo(Mark(s, tx.last, TRUE, tx.rejects), d, text, d.foldedThrough)
        /\ MarkedTo(Mark(s, tx.last, FALSE, tx.rejects), d, text, tx.last)
    BY <1>3, <2>1, MarkMore
  <2>3. CASE b = TRUE
    BY <2>1, <2>2, <2>3
  <2>4. CASE b = FALSE
    BY <2>1, <2>2, <2>4
  <2> QED
    BY <2>3, <2>4
<1>4. CASE ComputeFold
  <2> DEFINE gained == Gained(db, tx.doc) \ tx.doc
             first  == tx.doc \cup gained
             typing == tx.base \ first
             doc    == first \cup typing
             d      == IF Behind(db) THEN Fold(Rebased(db, tx.doc), first, tx.last, tx.rejects) ELSE db
             f      == Fold(d, doc, tx.last, tx.rejects)
             rows   == Appended(nextId, gained, typing, {})
  <2>1. gained \in SUBSET Edits /\ first \in SUBSET Edits /\ typing \in SUBSET Edits /\ doc \in SUBSET Edits
    BY <1>3
  <2>2. first \subseteq doc /\ tx.doc \subseteq first /\ first = Merged
    BY DEF Merged
  <2>3. Computed(f, doc, rows, gained, IF tx.kind = "unload" THEN MustCompact(rows) ELSE MayCompact(rows), FALSE)
    BY <1>4 DEF ComputeFold
  <2>4. /\ d \in Notes /\ ~Refused(d.row) /\ Follows(d, Opening)
        /\ \/ d.row = db.row /\ d.foldedThrough = db.foldedThrough
           \/ d.row = first /\ d.foldedThrough = tx.last
    <3> HIDE DEF first
    <3>1. CASE Behind(db)
      <4>1. d = Fold(Opening, first, tx.last, tx.rejects)
        BY <3>1 DEF Opening
      <4>2. FoldedTo(Fold(Opening, first, tx.last, tx.rejects), Opening, first, tx.last)
        BY <1>2, <1>f, <2>1
      <4> HIDE DEF d
      <4> QED
        BY <1>2, <4>1, <4>2 DEF FoldedTo
    <3>2. CASE ~Behind(db)
      <4>1. d = db /\ Opening = db
        BY <3>2 DEF Opening
      <4> HIDE DEF d
      <4> QED
        BY <1>2, <4>1 DEF Follows
    <3> QED
      BY <3>1, <3>2
  <2> HIDE DEF d
  <2>5. /\ f \in Notes /\ Based(f) /\ ~Refused(f.row) /\ f.base = f.row /\ f.foldedSeq = f.seq /\ Follows(f, d)
        /\ \/ f.row = d.row /\ f.foldedThrough = d.foldedThrough
           \/ f.row = doc /\ f.foldedThrough = tx.last
    BY <1>f, <2>1, <2>4 DEF FoldedTo
  <2> HIDE DEF f, doc, first, gained, typing
  <2>6. f.foldedThrough \in {db.foldedThrough, tx.last} /\ Follows(f, Opening)
    BY <2>4, <2>5 DEF Follows
  <2>7. ASSUME ~staleRead
        PROVE  /\ Accounts(f.row, db.row, db.seq, f) /\ Accounts(doc, f.base, f.foldedSeq, f)
               /\ Shows(f.row, f.foldedThrough)
    <3>1. Shows(first, tx.last) /\ Shows(doc, tx.last)
      BY <1>2, <2>2, <2>7, ShowsMore
    <3>2. Shows(f.row, f.foldedThrough)
      BY <1>2, <2>4, <2>5, <2>7, <3>1
    <3>3. /\ Merged \subseteq doc /\ f.row \subseteq db.row \cup doc
          /\ db.row \subseteq f.row \/ Merged \subseteq f.row
      BY <2>2, <2>4, <2>5
    <3> QED
      BY <1>s, <2>5, <2>6, <2>7, <3>2, <3>3
  <2>8. tx.doc \subseteq doc
    BY <2>2
  <2> QED
    BY <1>0, <2>1, <2>3, <2>5, <2>6, <2>7, <2>8, RowComputed
<1>5. CASE ComputeRebase
  <2> DEFINE gained == Gained(db, tx.doc) \ tx.doc
             doc    == tx.doc \cup gained
             f      == Fold(Rebased(db, tx.doc), doc, tx.last, tx.rejects)
             rows   == Appended(nextId, gained, {}, {})
  <2>1. gained \in SUBSET Edits /\ doc \in SUBSET Edits
    BY <1>3
  <2>2. tx.doc \subseteq doc /\ doc = Merged
    BY DEF Merged
  <2>3. Computed(f, doc, rows, gained, MayCompact(rows), TRUE)
    BY <1>5 DEF ComputeRebase
  <2>4. /\ f \in Notes /\ Based(f) /\ ~Refused(f.row) /\ f.base = f.row /\ f.foldedSeq = f.seq /\ Follows(f, Opening)
        /\ \/ f.row = db.row /\ f.foldedThrough = db.foldedThrough
           \/ f.row = doc /\ f.foldedThrough = tx.last
    <3> HIDE DEF doc
    <3>1. f = Fold(Opening, doc, tx.last, tx.rejects)
      BY <1>5 DEF ComputeRebase, Opening
    <3>2. FoldedTo(Fold(Opening, doc, tx.last, tx.rejects), Opening, doc, tx.last)
      BY <1>2, <1>f, <2>1
    <3> HIDE DEF f
    <3> QED
      BY <1>2, <3>1, <3>2 DEF FoldedTo
  <2> HIDE DEF f, doc, gained
  <2>5. f.foldedThrough \in {db.foldedThrough, tx.last}
    BY <2>4
  <2>6. ASSUME ~staleRead
        PROVE  /\ Accounts(f.row, db.row, db.seq, f) /\ Accounts(doc, f.base, f.foldedSeq, f)
               /\ Shows(f.row, f.foldedThrough)
    <3>1. Shows(doc, tx.last)
      BY <1>2, <2>2, <2>6, ShowsMore
    <3>2. Shows(f.row, f.foldedThrough)
      BY <1>2, <2>4, <2>6, <3>1
    <3>3. /\ Merged \subseteq doc /\ f.row \subseteq db.row \cup doc
          /\ db.row \subseteq f.row \/ Merged \subseteq f.row
      BY <2>2, <2>4
    <3> QED
      BY <1>s, <2>4, <2>6, <3>2, <3>3
  <2> QED
    BY <1>0, <2>1, <2>2, <2>3, <2>4, <2>5, <2>6, RowComputed
<1>6. CASE ComputeWrite
  <2> DEFINE typing == tx.base \ tx.doc
             text   == tx.doc \cup typing
             doc    == text \cup tx.edit
             folded == Fold(db, text, tx.last, tx.rejects)
             rows   == Appended(nextId, {}, typing, tx.edit)
  <2>1. typing \in SUBSET Edits /\ text \in SUBSET Edits /\ doc \in SUBSET Edits
    BY <1>3
  <2>2. tx.doc \subseteq text /\ text \subseteq doc /\ tx.doc \subseteq doc /\ Merged = tx.doc /\ Opening = db
    BY <1>2, <1>6 DEF ComputeWrite, Opening
  <2>3. /\ folded \in Notes /\ Follows(folded, db)
        /\ \/ folded.row = db.row /\ folded.foldedThrough = db.foldedThrough
           \/ folded.row = text /\ folded.foldedThrough = tx.last
    BY <1>2, <1>f, <2>1 DEF FoldedTo
  <2>4. PICK current \in {folded.row, text} :
          /\ ~Refused(current \cup tx.edit)
          /\ Computed(Mark(SetRow(folded, current \cup tx.edit), tx.last, current # text, tx.rejects),
                      doc, rows, tx.edit, MayCompact(rows), FALSE)
    BY <1>6 DEF ComputeWrite
  <2> HIDE DEF folded
  <2> DEFINE new == current \cup tx.edit
  <2>5. new \in SUBSET Edits
    BY <1>3, <2>1, <2>3, <2>4 DEF Notes
  <2>6. PICK m : /\ m = Mark(SetRow(folded, new), tx.last, current # text, tx.rejects)
                 /\ MarkedTo(m, folded, new, IF current # text THEN folded.foldedThrough ELSE tx.last)
    <3>1. \A b \in BOOLEAN : MarkedTo(Mark(SetRow(folded, new), tx.last, b, tx.rejects), folded, new,
                                      IF b THEN folded.foldedThrough ELSE tx.last)
      BY <1>m, <2>3, <2>5
    <3> HIDE DEF new, text
    <3> QED
      BY <3>1
  <2>7. /\ m \in Notes /\ m.row = new /\ m.base = new /\ m.seq \in Nat /\ m.foldedSeq = m.seq
        /\ m.foldedThrough = IF current # text THEN folded.foldedThrough ELSE tx.last
        /\ Follows(m, folded)
    BY <2>6 DEF MarkedTo
  <2>8. Computed(m, doc, rows, tx.edit, MayCompact(rows), FALSE)
    BY <2>4, <2>6
  <2>9. Based(m) /\ ~Refused(m.row)
    BY <2>4, <2>6, <2>7, MarkedBased DEF Refused
  <2>10. /\ m.foldedThrough \in {db.foldedThrough, tx.last} /\ Follows(m, Opening)
         /\ current # text => current = db.row /\ m.foldedThrough = db.foldedThrough
    BY <2>2, <2>3, <2>4, <2>7 DEF Follows
  <2>11. ASSUME ~staleRead
         PROVE  /\ Accounts(m.row, db.row, db.seq, m) /\ Accounts(doc, m.base, m.foldedSeq, m)
                /\ Shows(m.row, m.foldedThrough)
    <3>1. Shows(m.row, m.foldedThrough)
      <4>1. CASE current = text
        <5>1. m.foldedThrough = tx.last /\ tx.doc \subseteq m.row
          BY <2>2, <2>7, <4>1
        <5> QED
          BY <1>2, <2>11, <5>1, ShowsMore
      <4>2. CASE current # text
        <5>1. m.foldedThrough = db.foldedThrough /\ db.row \subseteq m.row
          BY <2>7, <2>10, <4>2
        <5> QED
          BY <1>2, <2>11, <5>1, ShowsMore
      <4> QED
        BY <4>1, <4>2
    <3>2. /\ Merged \subseteq doc /\ m.row \subseteq db.row \cup doc
          /\ db.row \subseteq m.row \/ Merged \subseteq m.row
      BY <2>2, <2>7, <2>10
    <3> HIDE DEF doc, text, typing, new
    <3> QED
      BY <1>s, <2>7, <2>10, <2>11, <3>1, <3>2
  <2> HIDE DEF doc, typing
  <2> QED
    BY <1>0, <1>3, <2>1, <2>2, <2>7, <2>8, <2>9, <2>10, <2>11, RowComputed
<1>7. CASE ComputeStore
  <2> DEFINE typing == tx.base \ tx.doc
             text   == tx.doc \cup typing
             rows   == Appended(nextId, {}, typing, {})
  <2>1. typing \in SUBSET Edits /\ text \in SUBSET Edits
    BY <1>3
  <2>2. tx.doc \subseteq text /\ Merged = tx.doc /\ Opening = db /\ ~Refused(text)
    BY <1>2, <1>7 DEF ComputeStore, Opening
  <2>4. PICK m : m = Mark(SetRow(db, text), tx.last, FALSE, tx.rejects) /\ MarkedTo(m, db, text, tx.last)
    <3>1. \A b \in BOOLEAN : MarkedTo(Mark(SetRow(db, text), tx.last, b, tx.rejects), db, text,
                                      IF b THEN db.foldedThrough ELSE tx.last)
      BY <1>2, <1>m, <2>1
    <3> HIDE DEF text
    <3> QED
      BY <3>1
  <2>5. /\ m \in Notes /\ m.row = text /\ m.base = text /\ m.seq \in Nat /\ m.foldedSeq = m.seq
        /\ m.foldedThrough = tx.last /\ Follows(m, db)
    BY <2>4 DEF MarkedTo
  <2>3. Computed(m, text, rows, {}, MayCompact(rows), FALSE)
    BY <1>7, <2>4 DEF ComputeStore
  <2> HIDE DEF text, typing
  <2>6. ASSUME ~staleRead
        PROVE  /\ Accounts(m.row, db.row, db.seq, m) /\ Accounts(text, m.base, m.foldedSeq, m)
               /\ Shows(m.row, m.foldedThrough)
    <3>1. Shows(text, tx.last)
      BY <1>2, <2>2, <2>6, ShowsMore
    <3>2. Merged \subseteq text /\ m.row \subseteq db.row \cup text /\ Merged \subseteq m.row /\ Follows(m, Opening)
      BY <2>2, <2>5
    <3> QED
      BY <1>s, <2>5, <2>6, <3>1, <3>2
  <2>7. Based(m) /\ ~Refused(m.row)
    BY <2>2, <2>4, <2>5, MarkedBased
  <2> QED
    BY <1>0, <2>1, <2>2, <2>3, <2>5, <2>6, <2>7, RowComputed
<1>8. CASE ComputeKeep
  <2> DEFINE typing == tx.base \ tx.doc
             doc    == tx.doc \cup typing
             f      == [db EXCEPT !.foldError = "refused"]
             rows   == Appended(nextId, {}, typing, {})
  <2>1. typing \in SUBSET Edits /\ doc \in SUBSET Edits
    BY <1>3
  <2>2. Computed(f, doc, rows, {}, {FALSE}, FALSE)
    BY <1>8 DEF ComputeKeep
  <2>3. /\ f \in Notes /\ f.row = db.row /\ f.base = db.base /\ f.seq = db.seq /\ f.foldedSeq = db.foldedSeq
        /\ f.foldedThrough = db.foldedThrough /\ f.unmerged = db.unmerged /\ f.revised = db.revised
    BY <1>2 DEF Notes, FoldErrors
  <2> HIDE DEF f
  <2>4. Based(f) /\ ~Refused(f.row)
    BY <1>2, <2>3 DEF Based
  <2>5. tx.doc \subseteq doc
    OBVIOUS
  <2> HIDE DEF doc, typing
  <2>6. ASSUME ~staleRead
        PROVE  /\ Accounts(f.row, db.row, db.seq, f) /\ Accounts(doc, f.base, f.foldedSeq, f)
               /\ Shows(f.row, f.foldedThrough)
    <3>1. Accounts(f.row, db.row, db.seq, f)
      BY <2>3, AccountsFacts
    <3>2. Accounts(doc, db.base, db.foldedSeq, f)
      BY <1>2, <2>3, <2>5, <2>6, AccountsFacts
    <3> QED
      BY <1>2, <2>3, <2>6, <3>1, <3>2
  <2> QED
    BY <1>0, <2>1, <2>2, <2>3, <2>4, <2>5, <2>6, RowComputed
<1> QED
  BY <1>4, <1>5, <1>6, <1>7, <1>8 DEF Compute

\* A step that leaves the note's text and boundaries alone, and the revisions that explain it: what is stored only grows,
\* and what is new lies past both boundaries in use.
RowKept ==
  /\ UNCHANGED staleRead /\ nextId <= nextId' /\ nextId' \in Nat
  /\ db'.row = db.row /\ db'.base = db.base /\ db'.foldedThrough = db.foldedThrough
  /\ db'.seq = db.seq /\ db'.foldedSeq = db.foldedSeq
  /\ db'.unmerged = db.unmerged /\ (db.foldedSeq \in db.revised => db.foldedSeq \in db'.revised)
  /\ UNCHANGED tx \/ tx'.phase \in {"idle", "begun", "committed"}
  /\ \A u \in Typing : Drawn(u)' => db.foldedThrough < msg'[u].id

\* What a materialisation reads after a step: what it read before, or a row past both boundaries.
OldOrPast(r) ==
  \/ \E s \in Readable : s.id = r.id /\ s.edits = r.edits
  \/ r.id \in Nat /\ db.foldedThrough < r.id /\ (Held => tx.last < r.id)

\* Such a step keeps the row's invariant.
LEMMA RowKeptStep ==
  ASSUME IInv, RowInv, RowKept, Materialised \subseteq Materialised', \A r \in Readable' : OldOrPast(r)
  PROVE  RowInv'
<1>1. /\ db.foldedThrough \in Nat /\ tx.last \in Nat /\ nextId \in Nat
      /\ tx.phase = "computed" => tx.next.foldedThrough \in Nat
  BY DEF IInv, TypeOK, Notes, Transactions
<1>2. ASSUME NEW through \in Nat, NEW row, through = db.foldedThrough \/ (Held /\ through = tx.last), Shows(row, through)
      PROVE  \A r \in Readable' : r.id <= through => r.edits \subseteq row
  <2> SUFFICES ASSUME NEW r \in Readable', r.id <= through PROVE r.edits \subseteq row
    OBVIOUS
  <2>1. OldOrPast(r)
    OBVIOUS
  <2>2. ~(r.id \in Nat /\ db.foldedThrough < r.id /\ (Held => tx.last < r.id))
    BY <1>1, <1>2
  <2> QED
    BY <1>2, <2>1, <2>2 DEF OldOrPast, Shows
<1>3. /\ ~Refused(db'.row) /\ Based(db') /\ db'.foldedThrough < nextId'
      /\ \A u \in Typing : Drawn(u)' => db'.foldedThrough < msg'[u].id
  <2>1. ~Refused(db'.row)
    BY DEF RowKept, RowInv
  <2>2. Based(db')
    BY DEF RowKept, RowInv, Based
  <2> QED
    BY <1>1, <2>1, <2>2 DEF RowKept, RowInv
<1>4. ASSUME ~staleRead
      PROVE  /\ Accounts(Materialised', db'.base, db'.foldedSeq, db')
             /\ (Held' => Accounts(tx'.doc, db'.base, db'.foldedSeq, db'))
             /\ \A r \in Readable' : r.id <= db'.foldedThrough => r.edits \subseteq db'.row
  <2>1. /\ Accounts(Materialised, db.base, db.foldedSeq, db) /\ (Held => Accounts(tx.doc, db.base, db.foldedSeq, db))
        /\ Shows(db.row, db.foldedThrough)
    BY <1>4 DEF RowInv
  <2>2. Held' => UNCHANGED tx /\ Held
    BY DEF RowKept, Held
  <2>3. \A r \in Readable' : r.id <= db.foldedThrough => r.edits \subseteq db.row
    BY <1>1, <1>2, <2>1
  <2>4. \A text, more : Accounts(text, db.base, db.foldedSeq, db) /\ text \subseteq more =>
                          Accounts(more, db'.base, db'.foldedSeq, db')
    <3>1. /\ db'.base = db.base /\ db'.foldedSeq = db.foldedSeq /\ db.unmerged \subseteq db'.unmerged
          /\ (db.foldedSeq \in db.revised => db.foldedSeq \in db'.revised)
      BY DEF RowKept
    <3> QED
      BY <3>1, AccountsFacts
  <2> QED
    BY <2>1, <2>2, <2>3, <2>4 DEF RowKept
<1>5. ASSUME tx'.phase = "computed" PROVE NextInv'
  <2>1. UNCHANGED tx /\ tx.phase = "computed" /\ Held /\ NextInv
    BY <1>5 DEF RowKept, RowInv, Held
  <2>2. /\ ~Refused(tx'.next.row) /\ Based(tx'.next)
        /\ tx'.next.foldedThrough \in {db'.foldedThrough, tx'.last} /\ \A r \in tx'.rows : db'.foldedThrough < r.id
    BY <2>1 DEF NextInv, RowKept
  <2>3. ASSUME ~staleRead
        PROVE  /\ Accounts(tx'.next.row, db'.row, db'.seq, tx'.next)
               /\ Accounts(tx'.doc, tx'.next.base, tx'.next.foldedSeq, tx'.next)
               /\ \A r \in Readable' : r.id <= tx'.next.foldedThrough => r.edits \subseteq tx'.next.row
    <3>1. /\ Accounts(tx.next.row, db.row, db.seq, tx.next)
          /\ Accounts(tx.doc, tx.next.base, tx.next.foldedSeq, tx.next)
          /\ Shows(tx.next.row, tx.next.foldedThrough)
      BY <2>1, <2>3 DEF NextInv
    <3>2. tx.next.foldedThrough = db.foldedThrough \/ (Held /\ tx.next.foldedThrough = tx.last)
      BY <2>1 DEF NextInv
    <3>3. \A r \in Readable' : r.id <= tx.next.foldedThrough => r.edits \subseteq tx.next.row
      BY <1>1, <1>2, <2>1, <3>1, <3>2
    <3>4. db'.row = db.row /\ db'.seq = db.seq /\ tx' = tx
      BY <2>1 DEF RowKept
    <3> QED
      BY <3>1, <3>3, <3>4
  <2> QED
    BY <2>2, <2>3 DEF NextInv, Refused, Based, Shows, RowKept, Accounts
<1> QED
  BY <1>3, <1>4, <1>5 DEF RowInv, Refused, Based, Shows, RowKept, Held, Accounts

\* Steps that store nothing.
LEMMA RowQuiet ==
  ASSUME IInv, RowInv,
         \/ \E u \in Typing : Send(u) \/ AppendFails(u) \/ Apply(u)
         \/ Unload \/ Opened \/ Boot \/ Reconcile \/ Crash \/ Abort \/ Begin \/ Moved \/ Refuse \/ Finish \/ FinishLoad
         \/ UNCHANGED vars
  PROVE  RowInv'
<1>1. msg \in [Typing -> Messages] /\ db \in Notes /\ nextId \in Nat
  BY DEF IInv, TypeOK
<1>2. \A u \in Typing : Drawn(u) => db.foldedThrough < msg[u].id
  BY DEF RowInv
<1>3. /\ UNCHANGED <<log, nextId, staleRead>>
      /\ \/ db' = db \/ db' = [db EXCEPT !.foldError = "boot"]
         \/ db' = [db EXCEPT !.revised = @ \cup {db.seq}]
  BY DEF Reconcile, Send, AppendFails, Apply, Unload, Opened, Boot, Crash, Abort, Begin, StartStore, StartKeep, StartUnload,
     StartRead, StartLoad, StartBoot, StartWrite, Start, Moved, Refuse, Finish, FinishLoad, vars
<1>4. UNCHANGED tx \/ tx'.phase \in {"idle", "begun", "committed"}
  <2>1. \A k, e, o, t : Started(k, e, o, t).phase = "begun"
    BY DEF Started, NoTx
  <2>2. NoTx.phase = "idle"
    BY DEF NoTx
  <2>3. CASE \/ \E u \in Typing : Send(u) \/ AppendFails(u) \/ Apply(u)
             \/ Unload \/ Opened \/ Boot \/ Reconcile \/ UNCHANGED vars
    BY <2>3 DEF Send, AppendFails, Apply, Unload, Opened, Boot, Reconcile, vars
  <2>4. CASE Crash \/ Abort \/ Refuse \/ FinishLoad
    BY <2>2, <2>4 DEF Crash, Abort, Refuse, FinishLoad
  <2>5. CASE Begin
    <3>1. \E k, e : Start(k, e)
      BY <2>5 DEF Begin, StartStore, StartKeep, StartUnload, StartRead, StartLoad, StartBoot, StartWrite
    <3>2. \E k, e, o, t : tx' = Started(k, e, o, t)
      BY <3>1 DEF Start
    <3> QED
      BY <2>1, <3>2
  <2>6. CASE Moved \/ Finish
    <3>1. tx' = NoTx \/ \E k, e, o, t : tx' = Started(k, e, o, t)
      BY <2>6 DEF Moved, Finish
    <3> QED
      BY <2>1, <2>2, <3>1
  <2> QED
    BY <2>3, <2>4, <2>5, <2>6
<1>5. \A u \in Typing : Drawn(u)' => Drawn(u) /\ msg'[u].id = msg[u].id
  <2>1. CASE \E u \in Typing : Send(u) \/ AppendFails(u) \/ Apply(u)
    BY <1>1, <2>1 DEF Send, AppendFails, Apply, Drawn, Idle, Messages
  <2>2. CASE Unload \/ Crash
    BY <1>1, <2>2 DEF Unload, Crash, Drawn, Idle
  <2>3. CASE UNCHANGED msg
    BY <2>3 DEF Drawn
  <2>4. CASE \/ Opened \/ Boot \/ Reconcile \/ Abort \/ Begin \/ Moved \/ Refuse \/ Finish \/ FinishLoad
             \/ UNCHANGED vars
    BY <2>3, <2>4 DEF Opened, Boot, Reconcile, Abort, Begin, StartStore, StartKeep, StartUnload,
       StartRead, StartLoad, StartBoot, StartWrite, Start, Moved, Refuse, Finish, FinishLoad, vars
  <2> QED
    BY <2>1, <2>2, <2>4
<1>6. /\ db'.row = db.row /\ db'.base = db.base /\ db'.foldedThrough = db.foldedThrough
      /\ db'.seq = db.seq /\ db'.foldedSeq = db.foldedSeq
      /\ db'.unmerged = db.unmerged /\ db.revised \subseteq db'.revised
      /\ db'.snapshot = db.snapshot /\ db'.snapshotThrough = db.snapshotThrough
  BY <1>1, <1>3 DEF Notes
<1>7. RowKept
  BY <1>1, <1>2, <1>3, <1>4, <1>5, <1>6 DEF RowKept
<1>8. Materialised' = Materialised /\ Readable' = Readable
  BY <1>3, <1>6 DEF Materialised, Readable, Tail, Applies
<1>9. \A r \in Readable' : OldOrPast(r)
  BY <1>8 DEF OldOrPast
<1> QED
  BY <1>7, <1>8, <1>9, RowKeptStep

\* Drawing an id, committing its row, logging an orphan, rejecting a row.
LEMMA RowLog ==
  ASSUME IInv, RowInv, NEW u \in Typing, LogDraw(u) \/ LogCommit(u) \/ LogOrphan(u) \/ Reject(u)
  PROVE  RowInv'
<1>1. /\ msg \in [Typing -> Messages] /\ nextId \in Nat /\ tx.last \in Nat /\ db.foldedThrough \in Nat
      /\ db.snapshotThrough \in Nat /\ log \subseteq LogRows /\ IdsInv
      /\ db.foldedThrough < nextId /\ \A v \in Typing : Drawn(v) => db.foldedThrough < msg[v].id
  BY DEF IInv, TypeOK, Transactions, Notes, RowInv
<1>2. CASE LogDraw(u)
  <2>1. /\ UNCHANGED <<db, log, tx, staleRead>> /\ nextId' = nextId + 1
        /\ msg'[u].id = nextId /\ \A v \in Typing \ {u} : msg'[v] = msg[v]
    BY <1>1, <1>2 DEF LogDraw, Messages
  <2>2. \A v \in Typing : Drawn(v)' => db.foldedThrough < msg'[v].id
    BY <1>1, <2>1 DEF Drawn
  <2>3. RowKept
    BY <1>1, <2>1, <2>2 DEF RowKept
  <2>4. Materialised' = Materialised /\ Readable' = Readable
    BY <2>1, StoredUnchanged
  <2>5. \A r \in Readable' : OldOrPast(r)
    BY <2>4 DEF OldOrPast
  <2> QED
    BY <2>3, <2>4, <2>5, RowKeptStep
<1>3. CASE LogCommit(u) \/ LogOrphan(u)
  <2>1. PICK i \in Nat : /\ log' = log \cup {Row(i, {u})} /\ UNCHANGED <<db, tx, staleRead>>
                         /\ nextId <= nextId' /\ nextId' \in Nat
                         /\ db.snapshotThrough < i /\ db.foldedThrough < i /\ (Held => tx.last < i)
    <3>1. CASE LogCommit(u)
      <4>1. Drawn(u) /\ msg[u].id \in Nat
        BY <1>1, <3>1 DEF LogCommit, Drawn, Messages
      <4>2. db.snapshotThrough < msg[u].id /\ db.foldedThrough < msg[u].id /\ (Held => tx.last < msg[u].id)
        BY <1>1, <4>1 DEF IdsInv
      <4>3. log' = log \cup {Row(msg[u].id, {u})} /\ UNCHANGED <<db, tx, staleRead, nextId>>
        BY <3>1 DEF LogCommit
      <4> QED
        BY <1>1, <4>1, <4>2, <4>3
    <3>2. CASE LogOrphan(u)
      <4>1. log' = log \cup {Row(nextId, {u})} /\ UNCHANGED <<db, tx, staleRead>> /\ nextId' = nextId + 1
        BY <3>2 DEF LogOrphan
      <4>2. db.snapshotThrough < nextId /\ tx.last < nextId
        BY <1>1 DEF IdsInv
      <4> QED
        BY <1>1, <4>1, <4>2
    <3> QED
      BY <1>3, <3>1, <3>2
  <2>2. /\ Materialised \subseteq Materialised'
        /\ \A r \in Readable' : r \in Readable \/ r.id = i
    BY <2>1, NewRow
  <2>3. \A r \in Readable' : OldOrPast(r)
    BY <2>1, <2>2 DEF OldOrPast
  <2>4. \A v \in Typing : Drawn(v)' => Drawn(v) /\ msg'[v].id = msg[v].id
    BY <1>1, <1>3 DEF LogCommit, LogOrphan, Drawn, Messages
  <2>5. RowKept
    BY <1>1, <2>1, <2>4 DEF RowKept
  <2> QED
    BY <2>2, <2>3, <2>5, RowKeptStep
<1>4. CASE Reject(u)
  <2> DEFINE i == msg[u].id
             ch(r) == [r EXCEPT !.rejected = @ \/ r.id = i]
  <2>1. /\ UNCHANGED <<db, nextId, tx, staleRead>> /\ log' = {ch(r) : r \in log} /\ u \in Broken /\ Numbered(u)
        /\ \A v \in Typing : Drawn(v)' => Drawn(v) /\ msg'[v].id = msg[v].id
    BY <1>1, <1>4 DEF Reject, Messages, Idle, Numbered, Drawn
  <2>2. \A r \in log : ch(r).id = r.id /\ ch(r).edits = r.edits /\ ch(r).rejected = (r.rejected \/ r.id = i)
    BY <1>1 DEF LogRows
  <2>3. \A r \in log : Applies(r) => r.id # i
    BY <1>1, <2>1 DEF IdsInv, Applies
  <2> HIDE DEF ch, i
  <2>4. /\ \A r \in log' : \E s \in log : r.id = s.id /\ r.edits = s.edits /\ (s.rejected => r.rejected)
        /\ \A s \in log : Applies(s) /\ ~s.rejected =>
             \E r \in log' : r.id = s.id /\ r.edits = s.edits /\ ~r.rejected
    <3>1. ASSUME NEW r \in log' PROVE \E s \in log : r.id = s.id /\ r.edits = s.edits /\ (s.rejected => r.rejected)
      <4>1. PICK s \in log : r = ch(s)
        BY <2>1
      <4> QED
        BY <2>2, <4>1
    <3>2. ASSUME NEW s \in log, Applies(s), ~s.rejected
          PROVE  \E r \in log' : r.id = s.id /\ r.edits = s.edits /\ ~r.rejected
      <4>1. ch(s) \in log' /\ ch(s).id = s.id /\ ch(s).edits = s.edits /\ ~ch(s).rejected
        BY <2>1, <2>2, <2>3, <3>2
      <4> QED
        BY <4>1
    <3> QED
      BY <3>1, <3>2
  <2>5. Materialised \subseteq Materialised'
    BY <2>1, <2>4, StoredFacts DEF Applies
  <2>6. \A r \in Readable' : \E s \in Readable : s.id = r.id /\ s.edits = r.edits
    BY <2>1, <2>4 DEF Readable, Tail, Applies
  <2>7. \A r \in Readable' : OldOrPast(r)
    BY <2>6 DEF OldOrPast
  <2>8. RowKept
    BY <1>1, <2>1 DEF RowKept
  <2> QED
    BY <2>5, <2>7, <2>8, RowKeptStep
<1> QED
  BY <1>2, <1>3, <1>4

\* A purge compacts what a materialisation shows, and leaves the row and its boundary.
LEMMA RowPurge ==
  ASSUME IInv, RowInv, PurgeRevision
  PROVE  RowInv'
<1> DEFINE rejects == {r.id : r \in Tail \ Readable}
           through == LastOf(Readable)
           kept == Compacted(log, rejects, through)
<1>1. /\ db \in Notes /\ nextId \in Nat /\ log \subseteq LogRows /\ IdsInv /\ LogPastSnapshot
      /\ db.snapshotThrough \in Nat
  BY DEF IInv, TypeOK, Notes
<1>2. /\ UNCHANGED <<nextId, tx, staleRead>> /\ log' = kept /\ \A u \in Typing : ~Drawn(u)'
  BY DEF PurgeRevision, GateFree, Drawn
<1>3. through \in Nat
  <2>1. \A r \in Readable : r.id \in Nat /\ r.id < nextId
    BY <1>1 DEF IdsInv, Readable, Tail, LogRows
  <2> QED
    BY <1>1, <2>1, LastOfBounds DEF IdsInv
<1>4. /\ db'.row = db.row /\ db'.base = db.base /\ db'.foldedThrough = db.foldedThrough
      /\ db'.seq = db.seq /\ db'.foldedSeq = db.foldedSeq /\ db'.snapshot = Materialised
      /\ db'.unmerged = db.unmerged /\ (db.foldedSeq \in db.revised => db.foldedSeq \in db'.revised)
  <2>1. PICK s : /\ s # db.seq /\ ~(Behind(db) /\ s = db.foldedSeq)
                 /\ db' = [Compact(db, Materialised, through) EXCEPT
                             !.revised = @ \ {s}, !.foldError = IF rejects = {} THEN @ ELSE "rejected"]
    BY DEF PurgeRevision
  <2>2. s # db.foldedSeq
    <3>1. Based(db) /\ db.seq \in Nat /\ db.foldedSeq \in Nat
      BY <1>1 DEF RowInv, Notes
    <3> QED
      BY <2>1, <3>1 DEF Behind, Based
  <2> HIDE DEF rejects, through
  <2>3. /\ db'.row = db.row /\ db'.base = db.base /\ db'.foldedThrough = db.foldedThrough
        /\ db'.seq = db.seq /\ db'.foldedSeq = db.foldedSeq /\ db'.snapshot = Materialised
        /\ db'.unmerged = db.unmerged /\ db'.revised = db.revised \ {s}
    BY <1>1, <2>1 DEF Compact, Notes
  <2> QED
    BY <2>2, <2>3
<1> HIDE DEF rejects, through
<1>5. /\ kept \subseteq LogRows
      /\ \A r \in kept : \E s \in log :
           /\ r.id = s.id /\ r.edits = s.edits /\ r.rejected = (s.rejected \/ s.id \in rejects)
           /\ s.rejected \/ s.id \in rejects \/ s.id > through
  BY <1>1, <1>3, CompactedFacts
<1> HIDE DEF kept
<1>6. \A r \in Readable' : \E s \in Readable : s.id = r.id /\ s.edits = r.edits
  BY <1>1, <1>2, <1>5 DEF Readable, Tail, Applies, LogPastSnapshot
<1>7. \A r \in Readable' : OldOrPast(r)
  BY <1>6 DEF OldOrPast
<1>8. Materialised \subseteq Materialised'
  BY <1>4, StoredFacts
<1>9. RowKept
  BY <1>1, <1>2, <1>4 DEF RowKept
<1> QED
  BY <1>7, <1>8, <1>9, RowKeptStep

\* Reading the log: unless the clone was stale, the document holds the base.
LEMMA RowRead ==
  ASSUME IInv, RowInv, ReadTail
  PROVE  RowInv'
<1> DEFINE hit == /\ Writing /\ tx.open
                  /\ cached = LastOf(Tail) /\ db.foldError = "none" /\ db.foldedSeq = db.seq
           doc == IF hit THEN tx.base ELSE Materialised
           last == IF hit THEN cached ELSE LastOf(Readable)
           rejects == IF hit THEN {} ELSE {r.id : r \in Tail \ Readable}
<1>1. /\ UNCHANGED <<db, log, nextId, msg>>
      /\ tx' = [tx EXCEPT !.phase = "read", !.doc = doc, !.last = last, !.rejects = rejects]
      /\ staleRead' = (staleRead \/ (hit /\ ~(Materialised \subseteq tx.base))) /\ tx \in Transactions
  BY DEF ReadTail, IInv, TypeOK
<1>2. ~staleRead' => ~staleRead /\ Materialised \subseteq doc
  BY <1>1
<1> HIDE DEF hit, doc, last, rejects
<1>3. tx'.phase = "read" /\ tx'.doc = doc
  BY <1>1 DEF Transactions
<1>4. Materialised' = Materialised /\ Readable' = Readable
  BY <1>1, StoredUnchanged
<1>5. /\ ~Refused(db'.row) /\ Based(db') /\ db'.foldedThrough < nextId'
      /\ \A u \in Typing : Drawn(u)' => db'.foldedThrough < msg'[u].id
  BY <1>1 DEF RowInv, Drawn
<1>6. ASSUME ~staleRead'
      PROVE  /\ Accounts(Materialised', db'.base, db'.foldedSeq, db') /\ Accounts(tx'.doc, db'.base, db'.foldedSeq, db')
             /\ \A r \in Readable' : r.id <= db'.foldedThrough => r.edits \subseteq db'.row
  <2>1. Accounts(Materialised, db.base, db.foldedSeq, db) /\ Shows(db.row, db.foldedThrough) /\ Materialised \subseteq doc
    BY <1>2, <1>6 DEF RowInv
  <2>2. Accounts(doc, db.base, db.foldedSeq, db)
    BY <2>1, AccountsFacts
  <2>3. db' = db
    BY <1>1
  <2> QED
    BY <1>3, <1>4, <2>1, <2>2, <2>3 DEF Shows
<1> QED
  BY <1>3, <1>5, <1>6 DEF RowInv, Refused, Based, Shows, Accounts

\* A change behind the store adds to the row, and is no text the store refuses.
LEMMA RowOutside ==
  ASSUME IInv, RowInv, NEW o \in Outside, ChangeOutside(o)
  PROVE  RowInv'
<1>1. db \in Notes /\ db.seq \in Nat /\ db.foldedSeq \in Nat
  BY DEF IInv, TypeOK, Notes
<1>2. /\ db'.row = db.row \cup {o} /\ db'.seq = db.seq + 1 /\ db'.base = db.base /\ db'.foldedSeq = db.foldedSeq
      /\ db'.foldedThrough = db.foldedThrough /\ db'.unmerged = db.unmerged /\ db'.revised = db.revised
      /\ db'.snapshot = db.snapshot /\ db'.snapshotThrough = db.snapshotThrough
      /\ UNCHANGED <<log, nextId, msg, tx, staleRead>> /\ ~Held
  BY <1>1 DEF ChangeOutside, Notes, Held
<1>3. o \notin Bad /\ o \notin Cures
  BY EditsAssumption
<1>4. ~Refused(db'.row)
  BY <1>2, <1>3 DEF RowInv, Refused
<1>5. Based(db')
  BY <1>1, <1>2 DEF RowInv, Based
<1>6. Materialised' = Materialised /\ Readable' = Readable
  BY <1>2 DEF Materialised, Readable, Tail, Applies
<1>7. db'.foldedThrough < nextId' /\ \A u \in Typing : Drawn(u)' => db'.foldedThrough < msg'[u].id
  BY <1>2 DEF RowInv, Drawn
<1>8. ~staleRead => /\ Accounts(Materialised', db'.base, db'.foldedSeq, db')
                    /\ \A r \in Readable' : r.id <= db'.foldedThrough => r.edits \subseteq db'.row
  BY <1>2, <1>6 DEF RowInv, Shows, Accounts
<1>9. ~Held' /\ tx'.phase # "computed"
  BY <1>2 DEF Held
<1> QED
  BY <1>2, <1>4, <1>5, <1>7, <1>8, <1>9 DEF RowInv, Refused, Based, Shows, Accounts

\* The COMMIT makes the computed row the row; the transaction's own rows lie past the boundary it sets.
LEMMA RowCommit ==
  ASSUME IInv, IInv', RowInv, Commit
  PROVE  RowInv'
<1> DEFINE kept == Compacted(log, tx.rejects, tx.through)
<1>1. /\ IdsInv /\ LogPastSnapshot /\ TxInv /\ tx \in Transactions /\ tx.through \in Nat /\ tx.rows \subseteq LogRows
      /\ tx.last \in Nat /\ db.foldedThrough \in Nat /\ nextId \in Nat /\ log \subseteq LogRows
      /\ db.snapshotThrough \in Nat /\ \A u \in Typing : msg[u].id \in Nat
  BY DEF IInv, TypeOK, Transactions, Notes, Messages
<1>2. /\ tx.phase = "computed" /\ Held /\ NextInv /\ db' = tx.next /\ log' = kept \cup tx.rows
      /\ UNCHANGED <<nextId, msg, staleRead>>
  BY DEF Commit, RowInv, Held
<1>3. tx'.phase = "committed" /\ tx'.doc = tx.doc
  BY <1>1 DEF Commit, Transactions
<1>4. /\ kept \subseteq LogRows
      /\ \A r \in kept : \E s \in log :
           /\ r.id = s.id /\ r.edits = s.edits /\ r.rejected = (s.rejected \/ s.id \in tx.rejects)
           /\ s.rejected \/ s.id \in tx.rejects \/ s.id > tx.through
      /\ \A s \in log : ~s.rejected /\ s.id \notin tx.rejects /\ s.id > tx.through =>
           \E r \in kept : r.id = s.id /\ r.edits = s.edits /\ ~r.rejected
  BY <1>1, CompactedFacts
<1> HIDE DEF kept
<1>5. /\ ~Refused(tx.next.row) /\ Based(tx.next) /\ tx.next.foldedThrough \in {db.foldedThrough, tx.last}
      /\ \A r \in tx.rows : db.foldedThrough < r.id /\ tx.last < r.id /\ r.id \in Nat
  BY <1>1, <1>2 DEF NextInv, TxInv, LogRows
<1>6. tx.next.foldedThrough < nextId /\ \A u \in Typing : Drawn(u) => tx.next.foldedThrough < msg[u].id
  BY <1>1, <1>2, <1>5 DEF RowInv, IdsInv
<1>7. ~Refused(db'.row) /\ Based(db')
  BY <1>2, <1>5
<1>8. db'.foldedThrough < nextId' /\ \A u \in Typing : Drawn(u)' => db'.foldedThrough < msg'[u].id
  BY <1>2, <1>6 DEF Drawn
<1>9. ASSUME ~staleRead
      PROVE  /\ Accounts(Materialised', db'.base, db'.foldedSeq, db')
             /\ \A r \in Readable' : r.id <= db'.foldedThrough => r.edits \subseteq db'.row
  <2>1. Accounts(tx.doc, tx.next.base, tx.next.foldedSeq, tx.next) /\ Shows(tx.next.row, tx.next.foldedThrough)
    BY <1>2, <1>9 DEF NextInv
  <2>2. tx'.doc \subseteq Materialised'
    BY <1>2, <1>3, <1>9 DEF IInv, KeptInv
  <2>3. ASSUME NEW r \in Readable', r.id <= tx.next.foldedThrough PROVE r.edits \subseteq tx.next.row
    <3>1. r \in log' /\ ~r.rejected /\ Applies(r)
      BY DEF Readable, Tail, Applies
    <3>2. r \notin tx.rows
      <4>1. tx.next.foldedThrough \in Nat
        BY <1>1, <1>5
      <4> QED
        BY <1>1, <1>5, <2>3, <4>1
    <3>3. PICK s \in log : r.id = s.id /\ r.edits = s.edits /\ r.rejected = (s.rejected \/ s.id \in tx.rejects)
      BY <1>2, <1>4, <3>1, <3>2
    <3>4. s \in Readable
      BY <1>1, <3>1, <3>3 DEF Readable, Tail, Applies, LogPastSnapshot
    <3> QED
      BY <2>1, <2>3, <3>3, <3>4 DEF Shows
  <2>4. Accounts(Materialised', tx.next.base, tx.next.foldedSeq, tx.next)
    BY <1>3, <2>1, <2>2, AccountsFacts
  <2> QED
    BY <1>2, <2>3, <2>4
<1>10. ~Held'
  BY <1>3 DEF Held
<1> QED
  BY <1>2, <1>3, <1>7, <1>8, <1>9, <1>10 DEF RowInv, Refused, Based, Shows, Accounts

\* The row's invariant holds at first and through every step.
LEMMA RowInit == Init => RowInv
<1> SUFFICES ASSUME Init PROVE RowInv
  OBVIOUS
<1>1. Readable = {} /\ tx.phase = "idle" /\ ~Held /\ \A u \in Typing : ~Drawn(u)
  BY DEF Init, Readable, Tail, NoTx, Held, Drawn, Idle
<1>2. db.row = {} /\ db.base = {} /\ db.seq = 1 /\ db.foldedSeq = 1 /\ db.foldedThrough = 0 /\ nextId = 1
  BY DEF Init, NewNote
<1> QED
  BY <1>1, <1>2 DEF RowInv, Refused, Based, Shows, Accounts

\* Every step keeps it, given what the types, the ids and the kept text promise.
LEMMA RowStep == IInv /\ RowInv /\ [Next]_vars => RowInv'
<1> SUFFICES ASSUME IInv, RowInv, [Next]_vars PROVE RowInv'
  OBVIOUS
<1>1. IInv'
  BY InvStep
<1>2. ASSUME NEW u \in Typing, LogDraw(u) \/ LogCommit(u) \/ LogOrphan(u) \/ Reject(u) PROVE RowInv'
  BY <1>2, RowLog
<1>3. ASSUME NEW o \in Outside, ChangeOutside(o) PROVE RowInv'
  BY <1>3, RowOutside
<1>4. (Compute /\ ~Refuse => RowInv') /\ (Commit => RowInv') /\ (PurgeRevision => RowInv') /\ (ReadTail => RowInv')
  BY <1>1, RowCompute, RowCommit, RowPurge, RowRead
<1>5. ASSUME NEW u \in Typing, Send(u) \/ AppendFails(u) \/ Apply(u) PROVE RowInv'
  BY <1>5, RowQuiet
<1>6. Unload \/ Opened \/ Boot \/ Reconcile \/ Crash \/ Abort \/ Begin \/ Moved \/ Refuse \/ Finish \/ FinishLoad \/ UNCHANGED vars => RowInv'
  BY RowQuiet
<1> QED
  BY <1>2, <1>3, <1>4, <1>5, <1>6 DEF Next, Relay

\* The row and its boundaries stay as described, whatever is folded, written, rejected, compacted or lost.
LEMMA RowInvariance == Spec => []RowInv
<1>1. Spec => []IInv
  BY Invariance
<1> QED
  BY <1>1, RowInit, RowStep, PTL DEF Spec

\* Whatever is folded, written, rebased, kept or changed behind the store, the row never takes a text the store refuses.
THEOREM RowStaysAccepted == Spec => []RowAccepted
<1>1. RowInv => RowAccepted
  BY DEF RowInv, RowAccepted
<1> QED
  BY <1>1, RowInvariance, PTL

\* folded_through never passes a row of the log whose text the note's row does not show, as long as no transaction took
\* a stale clone for the stored state: a fold that is refused, rolled back or overtaken by new rows leaves them pending.
THEOREM FoldBoundaryHolds == Spec => []FoldBoundary
<1>1. RowInv => FoldBoundary
  BY DEF RowInv, Shows, FoldBoundary
<1> QED
  BY <1>1, RowInvariance, PTL

\* No step takes typed or server-written text from the row: only a commit and a change behind the store touch it, and a
\* commit's text was computed from a document that accounts for the row.  A change behind the store leaves the row only
\* for an edit at its place that the row then shows or because its base had no revision, and a revision keeps it.
THEOREM RowNeverLoses == Spec => RowKeepsText
<1> DEFINE Kept == ~staleRead' => \A e \in db.row \ db'.row :
                     /\ e \in Outside /\ db.seq \in db'.revised
                     /\ (e \in db'.unmerged \/ \E u \in db'.row : <<e, u>> \in Overlaps)
<1>1. ASSUME IInv, RowInv, [Next]_vars, ~staleRead' PROVE Accounts(db'.row, db.row, db.seq, db')
  <2>1. db \in Notes
    BY <1>1 DEF IInv, TypeOK
  <2>2. CASE Commit
    <3>1. tx.phase = "computed" /\ db' = tx.next /\ UNCHANGED staleRead
      BY <2>2 DEF Commit
    <3> QED
      BY <1>1, <3>1 DEF RowInv, NextInv
  <2>3. CASE ~Commit
    <3>1. db.row \subseteq db'.row
      <4>1. CASE \E o \in Outside : ChangeOutside(o)
        BY <2>1, <4>1 DEF ChangeOutside, Notes
      <4>2. CASE PurgeRevision \/ Abort \/ Reconcile
        BY <2>1, <4>2 DEF PurgeRevision, Compact, Abort, Reconcile, Notes
      <4>3. CASE UNCHANGED db
        BY <4>3
      <4>4. CASE \/ \E u \in Typing : \/ Send(u) \/ LogDraw(u) \/ LogCommit(u) \/ AppendFails(u) \/ LogOrphan(u)
                                      \/ Apply(u) \/ Reject(u)
                 \/ Unload \/ Begin \/ Moved \/ ReadTail \/ Compute \/ Finish \/ FinishLoad \/ Opened \/ Crash \/ Boot
                 \/ UNCHANGED vars
        BY <4>3, <4>4 DEF Send, LogDraw, LogCommit, AppendFails, LogOrphan, Apply, Reject, Unload, Begin, StartStore,
           StartKeep, StartUnload, StartRead, StartLoad, StartBoot, StartWrite, Start, Moved, ReadTail, Compute,
           ComputeFold, ComputeRebase, ComputeWrite, ComputeStore, ComputeKeep, Computed, Refuse, Finish, FinishLoad,
           Opened, Crash, Boot, vars
      <4> QED
        BY <1>1, <2>3, <4>1, <4>2, <4>4 DEF Next, Relay
    <3> QED
      BY <3>1, AccountsFacts
  <2> QED
    BY <2>2, <2>3
<1>2. IInv /\ RowInv /\ [Next]_vars => [Kept]_vars
  BY <1>1 DEF Accounts
<1>3. Spec => [][Kept]_vars
  BY <1>2, Invariance, RowInvariance, PTL DEF Spec
<1> QED
  BY <1>3 DEF RowKeepsText
=============================================================================
