--------------------------- MODULE ProjectorProofs ---------------------------
(***************************************************************************)
(* For any number of notes, paths, processes, faults and power losses:     *)
(* types, one live note per path, no projection ahead of its note, and     *)
(* that no text people put into a file is lost to the projector.  With one *)
(* process projecting: files mirror the notes.                             *)
(***************************************************************************)
EXTENDS Projector, TLAPS

RowsOK ==
  /\ rows \in [Notes -> [at : {"none", "live", "trashed", "purged"}, path : Paths \cup {"none"}, seq : Nat, text : Nat]]
  /\ changes \in 0 .. MaxChanges
  /\ \A n \in Notes : rows[n].seq <= changes /\ rows[n].text <= rows[n].seq
  /\ \A n \in Notes : rows[n].at # "none" => rows[n].path \in Paths /\ rows[n].text >= 1
  /\ \A p \in Paths, m, n \in Notes : Live(m, p) /\ Live(n, p) => m = n

ClaimsOK == leased \subseteq Notes /\ removals \subseteq Notes

\* No projection is ahead of its note.
AppliedOK == applied \in [Notes -> Nat] /\ \A n \in Notes : applied[n] <= rows[n].seq

WorkerRecord ==
  [at : {"idle", "next", "seen", "check", "removed", "writing", "written"}, claims : SUBSET Notes, job : BOOLEAN,
   note : Notes \cup {"none"}, loc : Locations \cup {"none"}, rel : Locations \cup {"none"}, todo : SUBSET Locations,
   owned : BOOLEAN, seq : Nat, text : Nat, hash : NoteBytes \cup {Absent}]

\* What a process works on is a note and a location; what it renders is a state its note has had.
WorkersOK ==
  /\ worker \in [Workers -> WorkerRecord]
  /\ \A w \in Workers :
       /\ worker[w].at \notin {"idle", "next"} => worker[w].note \in Notes
       /\ worker[w].at \in {"check", "removed", "writing", "written"} => worker[w].loc \in Locations
       /\ worker[w].at \notin {"idle", "next"} /\ ~worker[w].job => worker[w].rel \in Locations
       /\ worker[w].at \in {"writing", "written"} =>
            worker[w].text \in 1 .. MaxChanges /\ worker[w].seq <= rows[worker[w].note].seq
       /\ worker[w].at = "written" => worker[w].hash \in NoteBytes

Record1 == [owner : Notes \cup {"nobody"}, hash : NoteBytes \cup {Absent}]
FilesOK ==
  /\ files \in [Locations -> Record1]
  /\ \A l \in Locations : files[l] = Unrecorded \/ (files[l].owner \in Notes /\ files[l].hash \in NoteBytes)

Content == NoteBytes \cup {Absent, Torn} \cup {Foreign(e) : e \in Edits}
DiskOK == disk \in [Locations -> Content]

TInv == RowsOK /\ ClaimsOK /\ AppliedOK /\ WorkersOK /\ FilesOK /\ DiskOK

LEMMA TInvTypes == TInv => TypeOK
BY DEF TInv, TypeOK, RowsOK, ClaimsOK, AppliedOK, FilesOK, DiskOK, Content

LEMMA IdleTypes == Idle \in WorkerRecord /\ Idle.at = "idle"
BY DEF Idle, WorkerRecord

LEMMA TInit == Init => TInv
<1> SUFFICES ASSUME Init PROVE TInv
  OBVIOUS
<1>1. RowsOK
  BY BoundsAssumption DEF Init, RowsOK, Live
<1>2. ClaimsOK /\ AppliedOK
  BY DEF Init, ClaimsOK, AppliedOK
<1>3. WorkersOK
  BY IdleTypes DEF Init, WorkersOK
<1>4. FilesOK /\ DiskOK
  BY DEF Init, FilesOK, DiskOK, Content, Record1, Unrecorded
<1> QED
  BY <1>1, <1>2, <1>3, <1>4 DEF TInv
-----------------------------------------------------------------------------
(* The rows *)

LEMMA ChangeRows ==
  ASSUME RowsOK, NEW n \in Notes, NEW at \in {"live", "trashed", "purged"}, NEW path \in Paths, NEW newText \in BOOLEAN,
         Change(n, at, path, newText), newText \/ rows[n].at # "none",
         at = "live" => \A m \in Notes \ {n} : ~Live(m, path)
  PROVE  RowsOK' /\ (\A m \in Notes : rows'[m].seq >= rows[m].seq)
<1> DEFINE seq == rows[n].seq + 1
           row == [at |-> at, path |-> path, seq |-> seq, text |-> IF newText THEN seq ELSE rows[n].text]
<1>1. seq \in Nat /\ rows[n].text \in Nat /\ row \in [at : {"none", "live", "trashed", "purged"}, path : Paths \cup {"none"}, seq : Nat, text : Nat]
  BY DEF RowsOK
<1>2. rows' = [rows EXCEPT ![n] = row] /\ changes' = changes + 1 /\ changes < MaxChanges
  BY DEF Change
<1>3. /\ rows' \in [Notes -> [at : {"none", "live", "trashed", "purged"}, path : Paths \cup {"none"}, seq : Nat, text : Nat]]
      /\ rows'[n] = row /\ \A m \in Notes \ {n} : rows'[m] = rows[m]
  BY <1>1, <1>2 DEF RowsOK
<1>4. changes' \in 0 .. MaxChanges
  BY <1>2, BoundsAssumption DEF RowsOK
<1>5. \A m \in Notes : rows'[m].seq <= changes' /\ rows'[m].text <= rows'[m].seq /\ rows'[m].seq >= rows[m].seq
  <2>1. row.seq <= changes' /\ row.text <= row.seq /\ row.seq >= rows[n].seq
    BY <1>1, <1>2 DEF RowsOK
  <2>2. \A m \in Notes : rows[m] \in [at : {"none", "live", "trashed", "purged"}, path : Paths \cup {"none"}, seq : Nat, text : Nat]
    BY DEF RowsOK
  <2>3. changes \in Nat /\ \A m \in Notes : rows[m].seq <= changes /\ rows[m].text <= rows[m].seq
    BY DEF RowsOK
  <2> QED
    BY <1>2, <1>3, <2>1, <2>2, <2>3
<1>6. \A m \in Notes : rows'[m].at # "none" => rows'[m].path \in Paths /\ rows'[m].text >= 1
  <2>1. row.path \in Paths /\ row.text >= 1
    BY <1>1 DEF RowsOK
  <2> QED
    BY <1>3, <2>1 DEF RowsOK
<1>7. \A p \in Paths, m, k \in Notes : Live(m, p)' /\ Live(k, p)' => m = k
  <2>1. \A m \in Notes, p \in Paths : m # n => (Live(m, p)' <=> Live(m, p))
    BY <1>3 DEF Live
  <2>2. \A p \in Paths : Live(n, p)' => at = "live" /\ p = path
    BY <1>3 DEF Live
  <2> QED
    BY <2>1, <2>2 DEF RowsOK
<1> QED
  BY <1>3, <1>4, <1>5, <1>6, <1>7 DEF RowsOK

StoreStep ==
  \/ \E n \in Notes, p \in Paths : Create(n, p) \/ Move(n, p)
  \/ \E n \in Notes : Write(n) \/ SoftDelete(n) \/ Restore(n) \/ Purge(n)

LEMMA StoreRows ==
  ASSUME RowsOK, StoreStep
  PROVE  RowsOK' /\ (\A m \in Notes : rows'[m].seq >= rows[m].seq)
<1>0. \A n \in Notes : rows[n].at # "none" => rows[n].path \in Paths
  BY DEF RowsOK
<1>1. ASSUME NEW n \in Notes, NEW p \in Paths, Create(n, p)
      PROVE  RowsOK' /\ (\A m \in Notes : rows'[m].seq >= rows[m].seq)
  BY <1>1, ChangeRows DEF Create, Free
<1>2. ASSUME NEW n \in Notes, NEW p \in Paths, Move(n, p)
      PROVE  RowsOK' /\ (\A m \in Notes : rows'[m].seq >= rows[m].seq)
  <2>1. PICK typed \in BOOLEAN : Change(n, "live", p, typed)
    BY <1>2 DEF Move
  <2> QED
    BY <1>2, <2>1, ChangeRows DEF Move, Free
<1>3. ASSUME NEW n \in Notes, Write(n)
      PROVE  RowsOK' /\ (\A m \in Notes : rows'[m].seq >= rows[m].seq)
  <2>1. \A m \in Notes \ {n} : ~Live(m, rows[n].path)
    BY <1>0, <1>3 DEF RowsOK, Live, Write
  <2> QED
    BY <1>0, <1>3, <2>1, ChangeRows DEF Write
<1>4. ASSUME NEW n \in Notes, SoftDelete(n)
      PROVE  RowsOK' /\ (\A m \in Notes : rows'[m].seq >= rows[m].seq)
  <2>1. PICK typed \in BOOLEAN : Change(n, "trashed", rows[n].path, typed)
    BY <1>4 DEF SoftDelete
  <2> QED
    BY <1>0, <1>4, <2>1, ChangeRows DEF SoftDelete
<1>5. ASSUME NEW n \in Notes, Restore(n)
      PROVE  RowsOK' /\ (\A m \in Notes : rows'[m].seq >= rows[m].seq)
  BY <1>0, <1>5, ChangeRows DEF Restore, Free
<1>6. ASSUME NEW n \in Notes, Purge(n)
      PROVE  RowsOK' /\ (\A m \in Notes : rows'[m].seq >= rows[m].seq)
  BY <1>0, <1>6, ChangeRows DEF Purge
<1> QED
  BY <1>1, <1>2, <1>3, <1>4, <1>5, <1>6 DEF StoreStep
-----------------------------------------------------------------------------
(* The processes *)

\* Work in flight is not disturbed while the notes' numbers only grow.
LEMMA WorkKept ==
  ASSUME RowsOK, WorkersOK, UNCHANGED worker, \A n \in Notes : rows'[n].seq \in Nat /\ rows'[n].seq >= rows[n].seq
  PROVE  WorkersOK'
<1>1. \A w \in Workers : worker[w].at \in {"writing", "written"} => worker[w].seq <= rows'[worker[w].note].seq
  <2> SUFFICES ASSUME NEW w \in Workers, worker[w].at \in {"writing", "written"}
               PROVE  worker[w].seq <= rows'[worker[w].note].seq
    OBVIOUS
  <2>1. worker[w].note \in Notes /\ worker[w].seq <= rows[worker[w].note].seq /\ worker[w].seq \in Nat
    BY DEF WorkersOK, WorkerRecord
  <2>2. rows[worker[w].note].seq \in Nat
    BY <2>1 DEF RowsOK
  <2> QED
    BY <2>1, <2>2
<1> QED
  BY <1>1 DEF WorkersOK

\* What WorkersOK says of one process.
WorkOK(w) ==
  /\ worker[w].at \notin {"idle", "next"} => worker[w].note \in Notes
  /\ worker[w].at \in {"check", "removed", "writing", "written"} => worker[w].loc \in Locations
  /\ worker[w].at \notin {"idle", "next"} /\ ~worker[w].job => worker[w].rel \in Locations
  /\ worker[w].at \in {"writing", "written"} =>
       worker[w].text \in 1 .. MaxChanges /\ worker[w].seq <= rows[worker[w].note].seq
  /\ worker[w].at = "written" => worker[w].hash \in NoteBytes

\* A step of one process: the others' work is kept.
LEMMA OneWorks ==
  ASSUME WorkersOK, NEW w \in Workers, NEW r \in WorkerRecord, UNCHANGED rows, worker' = [worker EXCEPT ![w] = r],
         WorkOK(w)'
  PROVE  WorkersOK'
<1>1. worker' \in [Workers -> WorkerRecord] /\ \A v \in Workers \ {w} : worker'[v] = worker[v]
  BY DEF WorkersOK
<1> QED
  BY <1>1 DEF WorkersOK, WorkOK

LEMMA HomeTypes ==
  ASSUME RowsOK, NEW n \in Notes, Exists(n)
  PROVE  Home(n) \in Locations
BY DEF RowsOK, Exists, Home, Locations

\* A write puts a rendered text into the file: the note's own bytes, or a new rendering.
LEMMA WrittenBytes ==
  ASSUME TInv, NEW w \in Workers, WriteFile(w)
  PROVE  \E bytes \in NoteBytes :
           /\ worker' = [worker EXCEPT ![w] = [worker[w] EXCEPT !.at = "written", !.hash = bytes]]
           /\ disk' = [disk EXCEPT ![worker[w].loc] = bytes]
<1> DEFINE n == worker[w].note
           l == worker[w].loc
           sameText == disk[l].of = n /\ disk[l].text = worker[w].text
           bytes == IF sameText THEN disk[l] ELSE Bytes(n, worker[w].text, FALSE)
<1>1. n \in Notes /\ l \in Locations /\ worker[w].text \in 1 .. MaxChanges /\ disk[l] \in Content
  BY DEF TInv, WorkersOK, DiskOK, WriteFile
<1>2. ASSUME disk[l].of = n PROVE disk[l] \in NoteBytes
  <2>1. Absent.of = "nothing" /\ Torn.of = "torn" /\ \A e \in Edits : Foreign(e).of = e
    BY DEF Absent, Torn, Foreign, Bytes
  <2>2. disk[l] # Absent /\ disk[l] # Torn /\ \A e \in Edits : disk[l] # Foreign(e)
    BY <1>1, <1>2, <2>1, NamesAssumption
  <2> QED
    BY <1>1, <2>2 DEF Content
<1>3. Bytes(n, worker[w].text, FALSE) \in NoteBytes
  BY <1>1 DEF Bytes, NoteBytes
<1>4. bytes \in NoteBytes
  BY <1>2, <1>3
<1>5. /\ worker' = [worker EXCEPT ![w] = [worker[w] EXCEPT !.at = "written", !.hash = bytes]]
      /\ disk' = [disk EXCEPT ![l] = bytes]
  BY DEF WriteFile, Step
<1> QED
  BY <1>4, <1>5

Writing(r, l, k, t) == [r EXCEPT !.at = "writing", !.loc = l, !.seq = k, !.text = t]

LEMMA WritingRecord ==
  ASSUME NEW r \in WorkerRecord, NEW l \in Locations, NEW k \in Nat, NEW t \in Nat
  PROVE  /\ Writing(r, l, k, t) \in WorkerRecord /\ Writing(r, l, k, t).at = "writing"
         /\ Writing(r, l, k, t).note = r.note /\ Writing(r, l, k, t).loc = l /\ Writing(r, l, k, t).rel = r.rel
         /\ Writing(r, l, k, t).seq = k /\ Writing(r, l, k, t).text = t
BY DEF WorkerRecord, Writing

LEMMA DrainWorks ==
  ASSUME TInv, NEW w \in Workers, Drain(w) \/ Fail(w)
  PROVE  WorkersOK'
<1> DEFINE old == worker[w]
<1>0. old \in WorkerRecord /\ WorkOK(w) /\ worker \in [Workers -> WorkerRecord] /\ RowsOK /\ WorkersOK
  BY DEF TInv, WorkersOK, WorkOK
<1>1. CASE Claim(w)
  <2> DEFINE claims == {n \in Notes : Pending(n) /\ n \notin leased}
             r == [old EXCEPT !.at = "next", !.claims = claims]
  <2>1. r \in WorkerRecord /\ r.at = "next"
    BY <1>0 DEF WorkerRecord
  <2>2. worker' = [worker EXCEPT ![w] = r] /\ UNCHANGED rows
    BY <1>1 DEF Claim, Step, store
  <2>3. WorkOK(w)'
    BY <1>0, <2>1, <2>2 DEF WorkOK
  <2> QED
    BY <1>0, <2>1, <2>2, <2>3, OneWorks
<1>2. ASSUME NEW n \in Notes, ReadNote(w, n) PROVE WorkersOK'
  <2> DEFINE r == [old EXCEPT !.at = "seen", !.claims = @ \ {n}, !.job = FALSE, !.note = n, !.rel = Home(n),
                              !.todo = {l \in Locations : files[l].owner = n} \ {Home(n)}]
             s == [old EXCEPT !.claims = @ \ {n}]
  <2>0. UNCHANGED rows /\ old.at = "next"
    BY <1>2 DEF ReadNote, store
  <2>1. CASE Exists(n)
    <3>1. Home(n) \in Locations
      BY <1>0, <2>1, HomeTypes
    <3>2. r \in WorkerRecord /\ r.at = "seen" /\ r.note = n /\ r.rel = Home(n)
      BY <1>0, <3>1 DEF WorkerRecord
    <3>3. worker' = [worker EXCEPT ![w] = r]
      BY <1>2, <2>1 DEF ReadNote, Step
    <3>4. WorkOK(w)'
      BY <1>0, <3>1, <3>2, <3>3 DEF WorkOK
    <3> QED
      BY <1>0, <2>0, <3>2, <3>3, <3>4, OneWorks
  <2>2. CASE ~Exists(n)
    <3>1. s \in WorkerRecord /\ s.at = "next"
      BY <1>0, <2>0 DEF WorkerRecord
    <3>2. worker' = [worker EXCEPT ![w] = s]
      BY <1>2, <2>2 DEF ReadNote, Step
    <3>3. WorkOK(w)'
      BY <1>0, <3>1, <3>2 DEF WorkOK
    <3> QED
      BY <1>0, <2>0, <3>1, <3>2, <3>3, OneWorks
  <2> QED
    BY <2>1, <2>2
<1>3. ASSUME NEW n \in Notes, ClaimRemoval(w, n) PROVE WorkersOK'
  <2> DEFINE r == [old EXCEPT !.at = "seen", !.job = TRUE, !.note = n,
                              !.todo = {l \in Locations : files[l].owner = n} \cup {Trash(n)}]
  <2>1. Trash(n) \in Locations
    BY DEF Locations
  <2>2. r \in WorkerRecord /\ r.at = "seen" /\ r.note = n /\ r.job
    BY <1>0, <2>1 DEF WorkerRecord
  <2>3. worker' = [worker EXCEPT ![w] = r] /\ UNCHANGED rows
    BY <1>3 DEF ClaimRemoval, Step, store
  <2>4. WorkOK(w)'
    BY <1>0, <2>2, <2>3 DEF WorkOK
  <2> QED
    BY <1>0, <2>2, <2>3, <2>4, OneWorks
<1>4. CASE RoundEnds(w)
  <2>1. worker' = [worker EXCEPT ![w] = Idle] /\ UNCHANGED rows
    BY <1>4 DEF RoundEnds, Step, store
  <2>2. WorkOK(w)'
    BY <1>0, <2>1, IdleTypes DEF WorkOK
  <2> QED
    BY <1>0, <2>1, <2>2, IdleTypes, OneWorks
<1>5. ASSUME NEW l \in Locations, Check(w, l) PROVE WorkersOK'
  <2> DEFINE owned == LiveOwner(l, old.note)
             r == [old EXCEPT !.at = "check", !.loc = l, !.todo = @ \ {l}, !.owned = owned]
  <2>1. owned \in BOOLEAN
    BY DEF LiveOwner
  <2> HIDE DEF owned
  <2>2. r \in WorkerRecord /\ r.at = "check" /\ r.note = old.note /\ r.loc = l
    BY <1>0, <2>1 DEF WorkerRecord
  <2>3. worker' = [worker EXCEPT ![w] = r] /\ UNCHANGED rows /\ old.at = "seen"
    BY <1>5 DEF Check, Step, store, owned
  <2>4. WorkOK(w)'
    BY <1>0, <2>2, <2>3 DEF WorkOK
  <2> QED
    BY <1>0, <2>2, <2>3, <2>4, OneWorks
<1>6. ASSUME NEW at \in {"next", "seen", "removed"}, old.at \notin {"idle", "next"}, UNCHANGED rows,
             worker' = [worker EXCEPT ![w] = [old EXCEPT !.at = at]], at = "removed" => old.at = "check"
      PROVE  WorkersOK'
  <2> DEFINE r == [old EXCEPT !.at = at]
  <2>1. r \in WorkerRecord /\ r.at = at /\ r.note = old.note /\ r.loc = old.loc /\ r.job = old.job /\ r.rel = old.rel
    BY <1>0 DEF WorkerRecord
  <2>2. WorkOK(w)'
    BY <1>0, <1>6, <2>1 DEF WorkOK
  <2> QED
    BY <1>0, <1>6, <2>1, <2>2, OneWorks
<1>7. CASE Remove(w)
  <2>1. old.at = "check" /\ UNCHANGED rows
    BY <1>7 DEF Remove, store
  <2>2. CASE Removes(w)
    BY <1>6, <1>7, <2>1, <2>2 DEF Remove, Step
  <2>3. CASE ~Removes(w)
    BY <1>6, <1>7, <2>1, <2>3 DEF Remove, Step
  <2> QED
    BY <2>2, <2>3
<1>8. CASE Unrecord(w)
  BY <1>6, <1>8 DEF Unrecord, Step, store
<1>9. CASE RemovalDone(w)
  BY <1>6, <1>9 DEF RemovalDone, Step
<1>10. CASE Reread(w)
  <2>0. old.at = "seen" /\ ~old.job /\ UNCHANGED rows
    BY <1>10 DEF Reread, store
  <2>1. CASE ~Exists(old.note) \/ HasMoved(old.note, old.rel)
    BY <1>6, <1>10, <2>0, <2>1 DEF Reread, Step
  <2>2. CASE ~(~Exists(old.note) \/ HasMoved(old.note, old.rel))
    <3> DEFINE r == Writing(old, old.rel, rows[old.note].seq, rows[old.note].text)
    <3>1. old.note \in Notes /\ old.rel \in Locations
      BY <1>0, <2>0 DEF WorkOK
    <3>2. rows[old.note].seq \in Nat /\ rows[old.note].text \in 1 .. MaxChanges
      <4>1. rows[old.note] \in [at : {"none", "live", "trashed", "purged"}, path : Paths \cup {"none"}, seq : Nat, text : Nat]
        BY <1>0, <3>1 DEF RowsOK
      <4>2. rows[old.note].text >= 1
        BY <1>0, <2>2, <3>1 DEF RowsOK, Exists
      <4>3. changes \in 0 .. MaxChanges /\ rows[old.note].text <= rows[old.note].seq /\ rows[old.note].seq <= changes
        BY <1>0, <3>1 DEF RowsOK
      <4> QED
        BY <4>1, <4>2, <4>3, BoundsAssumption
    <3>3. /\ r \in WorkerRecord /\ r.at = "writing" /\ r.note = old.note /\ r.loc = old.rel /\ r.rel = old.rel
          /\ r.seq = rows[old.note].seq /\ r.text = rows[old.note].text
      <4>1. rows[old.note].text \in Nat
        BY <3>2
      <4> QED
        BY <1>0, <3>1, <3>2, <4>1, WritingRecord, Z3
    <3>4. worker' = [worker EXCEPT ![w] = r]
      BY <1>10, <2>2 DEF Reread, Step, Writing
    <3>5. WorkOK(w)'
      BY <1>0, <2>0, <3>1, <3>2, <3>3, <3>4 DEF WorkOK
    <3> QED
      BY <1>0, <2>0, <3>3, <3>4, <3>5, OneWorks
  <2> QED
    BY <2>1, <2>2
<1>11. CASE WriteFile(w)
  <2>0. old.at = "writing" /\ UNCHANGED rows
    BY <1>11 DEF WriteFile, store
  <2>1. PICK bytes \in NoteBytes : worker' = [worker EXCEPT ![w] = [old EXCEPT !.at = "written", !.hash = bytes]]
    BY <1>11, WrittenBytes
  <2> DEFINE r == [old EXCEPT !.at = "written", !.hash = bytes]
  <2>2. /\ r \in WorkerRecord /\ r.at = "written" /\ r.hash = bytes /\ r.note = old.note /\ r.loc = old.loc
        /\ r.rel = old.rel /\ r.job = old.job /\ r.seq = old.seq /\ r.text = old.text
    BY <1>0 DEF WorkerRecord
  <2>3. WorkOK(w)'
    BY <1>0, <2>0, <2>1, <2>2 DEF WorkOK
  <2> QED
    BY <1>0, <2>0, <2>1, <2>2, <2>3, OneWorks
<1>12. CASE Record(w)
  BY <1>6, <1>12 DEF Record, Step
<1>13. CASE Fail(w)
  <2> DEFINE r == [old EXCEPT !.at = "next", !.todo = {}]
  <2>1. worker' = [worker EXCEPT ![w] = r] /\ UNCHANGED rows
    BY <1>13 DEF Fail, Step, store
  <2>2. r \in WorkerRecord /\ r.at = "next"
    BY <1>0 DEF WorkerRecord
  <2>3. WorkOK(w)'
    BY <1>0, <2>1, <2>2 DEF WorkOK
  <2> QED
    BY <1>0, <2>1, <2>2, <2>3, OneWorks
<1> QED
  BY <1>1, <1>2, <1>3, <1>4, <1>5, <1>7, <1>8, <1>9, <1>10, <1>11, <1>12, <1>13 DEF Drain
-----------------------------------------------------------------------------
(* What the steps do to the claims, the projections and the files *)

LEMMA DrainKeepsRows ==
  ASSUME NEW w \in Workers, Drain(w) \/ Fail(w)
  PROVE  UNCHANGED <<rows, changes>>
BY DEF Drain, Fail, Claim, ReadNote, ClaimRemoval, RoundEnds, Check, Remove, Unrecord, RemovalDone, Reread, WriteFile,
       Record, store

LEMMA DrainClaims ==
  ASSUME TInv, NEW w \in Workers, Drain(w) \/ Fail(w)
  PROVE  ClaimsOK'
<1>1. ClaimsOK /\ (worker[w].at \notin {"idle", "next"} => worker[w].note \in Notes)
  BY DEF TInv, WorkersOK
<1>2. CASE Claim(w) \/ RoundEnds(w) \/ Remove(w) \/ Unrecord(w) \/ WriteFile(w)
  BY <1>1, <1>2 DEF ClaimsOK, Claim, RoundEnds, Remove, Unrecord, WriteFile, store
<1>3. ASSUME NEW n \in Notes, ReadNote(w, n) \/ ClaimRemoval(w, n) PROVE ClaimsOK'
  BY <1>1, <1>3 DEF ClaimsOK, ReadNote, ClaimRemoval, store
<1>4. ASSUME NEW l \in Locations, Check(w, l) PROVE ClaimsOK'
  BY <1>1, <1>4 DEF ClaimsOK, Check, store
<1>5. CASE RemovalDone(w) \/ Reread(w) \/ Record(w)
  BY <1>1, <1>5 DEF ClaimsOK, RemovalDone, Reread, Record, Released, store
<1>6. CASE Fail(w)
  BY <1>1, <1>6 DEF ClaimsOK, Fail, store
<1> QED
  BY <1>2, <1>3, <1>4, <1>5, <1>6 DEF Drain

LEMMA DrainApplied ==
  ASSUME TInv, NEW w \in Workers, Drain(w) \/ Fail(w)
  PROVE  AppliedOK'
<1>1. AppliedOK /\ RowsOK /\ UNCHANGED rows
  BY DrainKeepsRows DEF TInv
<1>2. CASE Record(w)
  <2> DEFINE n == worker[w].note
             seq == worker[w].seq
  <2>1. n \in Notes /\ seq \in Nat /\ seq <= rows[n].seq
    BY <1>2 DEF TInv, WorkersOK, WorkerRecord, Record
  <2>2. applied[n] \in Nat /\ applied[n] <= rows[n].seq
    BY <1>1, <2>1 DEF AppliedOK
  <2>3. Larger(applied[n], seq) \in Nat /\ Larger(applied[n], seq) <= rows[n].seq
    BY <2>1, <2>2 DEF Larger
  <2>4. applied' = applied \/ applied' = [applied EXCEPT ![n] = Larger(applied[n], seq)]
    BY <1>2 DEF Record
  <2> QED
    BY <1>1, <2>1, <2>3, <2>4 DEF AppliedOK
<1>3. CASE ~Record(w)
  <2>1. UNCHANGED applied
    BY <1>3 DEF Drain, Fail, Claim, ReadNote, ClaimRemoval, RoundEnds, Check, Remove, Unrecord, RemovalDone, Reread,
                WriteFile, store
  <2> QED
    BY <1>1, <2>1 DEF AppliedOK
<1> QED
  BY <1>2, <1>3

LEMMA DrainFiles ==
  ASSUME TInv, NEW w \in Workers, Drain(w) \/ Fail(w)
  PROVE  FilesOK'
<1>1. FilesOK
  BY DEF TInv
<1>2. CASE Record(w)
  <2> DEFINE new == [owner |-> worker[w].note, hash |-> worker[w].hash]
  <2>1. worker[w].note \in Notes /\ worker[w].hash \in NoteBytes /\ worker[w].loc \in Locations
    BY <1>2 DEF TInv, WorkersOK, Record
  <2>2. new \in Record1 /\ new.owner \in Notes /\ new.hash \in NoteBytes
    BY <2>1 DEF Record1
  <2>3. files' = [files EXCEPT ![worker[w].loc] = new]
    BY <1>2 DEF Record
  <2> HIDE DEF new
  <2> QED
    BY <1>1, <2>1, <2>2, <2>3 DEF FilesOK
<1>3. CASE Unrecord(w)
  <2>1. Unrecorded \in Record1
    BY DEF Unrecorded, Record1
  <2>2. worker[w].loc \in Locations /\ files' = [files EXCEPT ![worker[w].loc] = Unrecorded]
    BY <1>3 DEF TInv, WorkersOK, Unrecord
  <2> QED
    BY <1>1, <2>1, <2>2 DEF FilesOK
<1>4. CASE ~Record(w) /\ ~Unrecord(w)
  <2>1. UNCHANGED files
    BY <1>4 DEF Drain, Fail, Claim, ReadNote, ClaimRemoval, RoundEnds, Check, Remove, RemovalDone, Reread, WriteFile
  <2> QED
    BY <1>1, <2>1 DEF FilesOK
<1> QED
  BY <1>2, <1>3, <1>4

LEMMA DrainDisk ==
  ASSUME TInv, NEW w \in Workers, Drain(w) \/ Fail(w)
  PROVE  DiskOK'
<1>1. DiskOK /\ Absent \in Content /\ NoteBytes \subseteq Content
  BY DEF TInv, Content
<1>2. CASE WriteFile(w)
  <2>1. PICK bytes \in NoteBytes : disk' = [disk EXCEPT ![worker[w].loc] = bytes]
    BY <1>2, WrittenBytes
  <2> QED
    BY <1>1, <2>1 DEF DiskOK
<1>3. CASE Remove(w)
  <2>1. disk' = disk \/ disk' = [disk EXCEPT ![worker[w].loc] = Absent]
    BY <1>3 DEF Remove
  <2> QED
    BY <1>1, <2>1 DEF DiskOK
<1>4. CASE ~WriteFile(w) /\ ~Remove(w)
  <2>1. UNCHANGED disk
    BY <1>4 DEF Drain, Fail, Claim, ReadNote, ClaimRemoval, RoundEnds, Check, Unrecord, RemovalDone, Reread, Record
  <2> QED
    BY <1>1, <2>1 DEF DiskOK
<1> QED
  BY <1>2, <1>3, <1>4
-----------------------------------------------------------------------------
(* The step *)

LEMMA StoreTypes ==
  ASSUME TInv, StoreStep
  PROVE  TInv'
<1>1. RowsOK' /\ \A n \in Notes : rows'[n].seq >= rows[n].seq
  BY StoreRows DEF TInv
<1>2. UNCHANGED <<applied, worker, files, disk>> /\ leased' \subseteq leased
  BY DEF StoreStep, Create, Write, Move, SoftDelete, Restore, Purge, Change
<1>3. \A n \in Notes : rows[n].seq \in Nat /\ rows'[n].seq \in Nat
  BY <1>1 DEF TInv, RowsOK
<1>4. removals' \subseteq Notes
  BY DEF TInv, ClaimsOK, StoreStep, Create, Write, Move, SoftDelete, Restore, Purge, Change
<1>5. AppliedOK'
  <2>1. \A n \in Notes : applied[n] \in Nat /\ applied[n] <= rows[n].seq
    BY DEF TInv, AppliedOK
  <2>2. \A n \in Notes : applied[n] <= rows'[n].seq
    BY <1>1, <1>3, <2>1
  <2> QED
    BY <1>2, <2>2 DEF TInv, AppliedOK
<1>6. WorkersOK'
  BY <1>1, <1>2, <1>3, WorkKept DEF TInv
<1>7. FilesOK' /\ DiskOK' /\ ClaimsOK'
  BY <1>2, <1>4 DEF TInv, FilesOK, DiskOK, ClaimsOK
<1> QED
  BY <1>1, <1>5, <1>6, <1>7 DEF TInv

\* A step that leaves the notes and the processes alone.
LEMMA DiskTypes ==
  ASSUME TInv, UNCHANGED <<rows, changes, removals, applied, files, worker>>, leased' \subseteq leased, DiskOK'
  PROVE  TInv'
<1>1. RowsOK' /\ AppliedOK' /\ FilesOK'
  BY DEF TInv, RowsOK, AppliedOK, FilesOK, Live
<1>2. WorkersOK' /\ ClaimsOK'
  BY DEF TInv, WorkersOK, ClaimsOK
<1> QED
  BY <1>1, <1>2 DEF TInv

LEMMA TStep ==
  ASSUME TInv, [Next]_vars
  PROVE  TInv'
<1>0. /\ disk \in [Locations -> Content] /\ Absent \in Content /\ Torn \in Content /\ Paths \subseteq Locations
      /\ \A e \in Edits : Foreign(e) \in Content
  BY DEF TInv, DiskOK, Content, Locations
<1>1. CASE StoreStep
  BY <1>1, StoreTypes
<1>2. ASSUME NEW w \in Workers, Drain(w) \/ Fail(w) PROVE TInv'
  <2>1. RowsOK'
    BY <1>2, DrainKeepsRows DEF TInv, RowsOK, Live
  <2> QED
    BY <1>2, <2>1, DrainClaims, DrainApplied, DrainWorks, DrainFiles, DrainDisk DEF TInv
<1>3. ASSUME NEW n \in Notes, LeaseEnds(n) PROVE TInv'
  <2>1. DiskOK'
    BY <1>0, <1>3 DEF DiskOK, LeaseEnds
  <2> QED
    BY <1>3, <2>1, DiskTypes DEF LeaseEnds, store
<1>4. CASE PowerLoss
  <2>1. DiskOK'
    BY <1>0, <1>4 DEF PowerLoss, DiskOK
  <2>2. WorkersOK'
    BY <1>4, IdleTypes DEF PowerLoss, WorkersOK
  <2>3. RowsOK' /\ ClaimsOK' /\ AppliedOK' /\ FilesOK'
    BY <1>4 DEF PowerLoss, store, TInv, RowsOK, ClaimsOK, AppliedOK, FilesOK, Live
  <2> QED
    BY <2>1, <2>2, <2>3 DEF TInv
<1>5. CASE Boot
  <2>1. RowsOK' /\ FilesOK' /\ DiskOK'
    BY <1>5 DEF Boot, TInv, RowsOK, FilesOK, DiskOK, Live
  <2>2. ClaimsOK'
    BY <1>5 DEF Boot, TInv, ClaimsOK
  <2>3. AppliedOK'
    <3>1. \A n \in Notes : rows[n].seq \in Nat
      BY DEF TInv, RowsOK
    <3> QED
      BY <1>5, <3>1 DEF Boot, AppliedOK
  <2>4. WorkersOK'
    BY <1>5 DEF Boot, TInv, WorkersOK
  <2> QED
    BY <2>1, <2>2, <2>3, <2>4 DEF TInv
<1>6. ASSUME NEW l \in Paths, Sweep(l) PROVE TInv'
  <2>1. DiskOK'
    BY <1>0, <1>6 DEF DiskOK, Sweep
  <2> QED
    BY <1>6, <2>1, DiskTypes DEF Sweep, store
<1>7. ASSUME NEW l \in Paths, NEW e \in Edits, EditFile(l, e) PROVE TInv'
  <2>1. DiskOK'
    BY <1>0, <1>7 DEF DiskOK, EditFile
  <2> QED
    BY <1>7, <2>1, DiskTypes DEF EditFile, store
<1>8. ASSUME NEW l \in Paths, Reformat(l) PROVE TInv'
  <2>1. disk[l] \in NoteBytes
    <3>1. Absent.of = "nothing" /\ Torn.of = "torn" /\ \A e \in Edits : Foreign(e).of = e
      BY DEF Absent, Torn, Foreign, Bytes
    <3>2. disk[l].of \in Notes
      BY <1>8 DEF Reformat
    <3>3. disk[l] # Absent /\ disk[l] # Torn /\ \A e \in Edits : disk[l] # Foreign(e)
      BY <3>1, <3>2, NamesAssumption
    <3> QED
      BY <1>0, <3>3 DEF Content
  <2>2. [disk[l] EXCEPT !.hand = TRUE] \in NoteBytes
    BY <2>1 DEF NoteBytes
  <2>3. DiskOK'
    BY <1>0, <1>8, <2>2 DEF DiskOK, Reformat, Content
  <2> QED
    BY <1>8, <2>3, DiskTypes DEF Reformat, store
<1>9. CASE UNCHANGED vars
  <2>1. DiskOK'
    BY <1>0, <1>9 DEF DiskOK, vars
  <2> QED
    BY <1>9, <2>1, DiskTypes DEF vars
<1> QED
  BY <1>1, <1>2, <1>3, <1>4, <1>5, <1>6, <1>7, <1>8, <1>9 DEF Next, StoreStep

\* TInv holds in every reachable state (what the code keeps: the unique index on live paths, applied_seq <= target_seq).
THEOREM TypesInvariance == Spec => []TInv
<1>1. Init => TInv
  BY TInit
<1>2. TInv /\ [Next]_vars => TInv'
  BY TStep
<1> QED
  BY <1>1, <1>2, PTL DEF Spec

\* Types, at most one live note per path, and no projection ahead of its note, however many processes project.
THEOREM ProjectorTypes == Spec => []TypeOK
BY TypesInvariance, TInvTypes, PTL
-----------------------------------------------------------------------------
(* Texts people put into files *)

\* Removing a purged note's trash file without a copy needs that people leave .trash alone.
TrashUntouched == made \subseteq Edits /\ \A n \in Notes, e \in Edits : disk[Trash(n)] # Foreign(e)

EInv == TInv /\ EditsKept /\ TrashUntouched

LEMMA ForeignBytes ==
  ASSUME NEW e \in Edits
  PROVE  Foreign(e) # Absent /\ Foreign(e) # Torn /\ Foreign(e) \notin NoteBytes
<1>1. Foreign(e).of = e /\ Absent.of = "nothing" /\ Torn.of = "torn" /\ \A b \in NoteBytes : b.of \in Notes
  BY DEF Foreign, Absent, Torn, Bytes, NoteBytes
<1> QED
  BY <1>1, NamesAssumption

LEMMA OwnNotForeign ==
  ASSUME TInv, NEW l \in Locations, OwnBytes(l), NEW e \in Edits
  PROVE  disk[l] # Foreign(e)
BY ForeignBytes DEF TInv, FilesOK, OwnBytes

\* A step that changes one file keeps the texts if it copies a text it replaces.
LEMMA OneFile ==
  ASSUME EInv, NEW l \in Locations, NEW b, disk' = [disk EXCEPT ![l] = b], UNCHANGED <<made, lost>>,
         copies \subseteq copies', \A e \in made : disk[l] = Foreign(e) => Foreign(e) \in copies' \/ b = Foreign(e)
  PROVE  EditsKept'
<1>1. disk \in [Locations -> Content]
  BY DEF EInv, TInv, DiskOK
<1> SUFFICES ASSUME NEW e \in made \ lost
             PROVE  Foreign(e) \in copies' \/ \E k \in Locations : disk'[k] = Foreign(e)
  BY DEF EditsKept
<1>2. Foreign(e) \in copies \/ \E k \in Locations : disk[k] = Foreign(e)
  BY DEF EInv, EditsKept
<1> QED
  BY <1>1, <1>2

LEMMA RemoveKeeps ==
  ASSUME EInv, NEW w \in Workers, Remove(w)
  PROVE  EditsKept' /\ TrashUntouched'
<1> DEFINE l == worker[w].loc
<1>0. l \in Locations /\ worker[w].note \in Notes /\ made \subseteq Edits /\ UNCHANGED <<made, lost>>
  BY DEF EInv, TInv, WorkersOK, TrashUntouched, Remove, people
<1>1. CASE Removes(w)
  <2>1. disk' = [disk EXCEPT ![l] = Absent]
    BY <1>1 DEF Remove
  <2>2. copies' = IF disk[l] = Absent \/ OwnBytes(l) \/ files[l] = Unrecorded THEN copies ELSE copies \cup {disk[l]}
    BY <1>1 DEF Remove
  <2>3. ASSUME NEW e \in made, disk[l] = Foreign(e) PROVE Foreign(e) \in copies'
    <3>1. disk[l] # Absent /\ ~OwnBytes(l)
      BY <1>0, <2>3, ForeignBytes, OwnNotForeign DEF EInv
    <3>2. files[l] # Unrecorded
      <4>1. ASSUME files[l] = Unrecorded PROVE l = Trash(worker[w].note)
        BY <1>0, <1>1, <4>1, NamesAssumption DEF Removes, Unrecorded
      <4> QED
        BY <1>0, <2>3, <4>1 DEF EInv, TrashUntouched
    <3> QED
      BY <2>2, <2>3, <3>1, <3>2
  <2>4. EditsKept'
    <3>1. copies \subseteq copies'
      BY <2>2
    <3> QED
      BY <1>0, <2>1, <2>3, <3>1, OneFile
  <2>5. TrashUntouched'
    BY <1>0, <2>1, ForeignBytes DEF EInv, TrashUntouched, TInv, DiskOK, Locations
  <2> QED
    BY <2>4, <2>5
<1>2. CASE ~Removes(w)
  BY <1>0, <1>2 DEF EInv, EditsKept, TrashUntouched, Remove
<1> QED
  BY <1>1, <1>2

LEMMA WriteKeeps ==
  ASSUME EInv, NEW w \in Workers, WriteFile(w)
  PROVE  EditsKept' /\ TrashUntouched'
<1> DEFINE l == worker[w].loc
           sameText == disk[l].of = worker[w].note /\ disk[l].text = worker[w].text
<1>0. l \in Locations /\ worker[w].note \in Notes /\ made \subseteq Edits /\ UNCHANGED <<made, lost>>
  BY DEF EInv, TInv, WorkersOK, TrashUntouched, WriteFile, people
<1>1. PICK bytes \in NoteBytes : disk' = [disk EXCEPT ![l] = bytes]
  BY WrittenBytes DEF EInv
<1>2. copies' = IF sameText \/ disk[l] = Absent \/ OwnBytes(l) THEN copies ELSE copies \cup {disk[l]}
  BY DEF WriteFile
<1>3. ASSUME NEW e \in made, disk[l] = Foreign(e) PROVE Foreign(e) \in copies'
  <2>1. disk[l].of = e
    BY <1>3 DEF Foreign, Bytes
  <2>2. ~sameText
    BY <1>0, <2>1, NamesAssumption
  <2>3. disk[l] # Absent /\ ~OwnBytes(l)
    BY <1>0, <1>3, ForeignBytes, OwnNotForeign DEF EInv
  <2> QED
    BY <1>2, <1>3, <2>2, <2>3
<1>4. EditsKept'
  <2>1. copies \subseteq copies'
    BY <1>2
  <2> QED
    BY <1>0, <1>1, <1>3, <2>1, OneFile
<1>5. TrashUntouched'
  BY <1>0, <1>1, ForeignBytes DEF EInv, TrashUntouched, TInv, DiskOK, Locations
<1> QED
  BY <1>4, <1>5

LEMMA EStep ==
  ASSUME EInv, [Next]_vars
  PROVE  EInv'
<1>0. /\ TInv' /\ made \subseteq Edits /\ disk \in [Locations -> Content] /\ Paths \subseteq Locations
      /\ \A n \in Notes, p \in Paths : Trash(n) # p
  BY TStep, NamesAssumption DEF EInv, TInv, DiskOK, TrashUntouched, Locations, Trash
<1> SUFFICES EditsKept' /\ TrashUntouched'
  BY <1>0 DEF EInv
<1>1. ASSUME UNCHANGED <<made, lost, disk, copies>> PROVE EditsKept' /\ TrashUntouched'
  BY <1>1 DEF EInv, EditsKept, TrashUntouched
<1>2. CASE StoreStep
  BY <1>1, <1>2 DEF StoreStep, Create, Write, Move, SoftDelete, Restore, Purge, Change, people
<1>3. ASSUME NEW w \in Workers, Drain(w) \/ Fail(w) PROVE EditsKept' /\ TrashUntouched'
  <2>1. CASE ~Remove(w) /\ ~WriteFile(w)
    BY <1>1, <1>3, <2>1 DEF Drain, Fail, Claim, ReadNote, ClaimRemoval, RoundEnds, Check, Unrecord, RemovalDone, Reread,
                            Record, people
  <2> QED
    BY <2>1, RemoveKeeps, WriteKeeps
<1>4. ASSUME NEW n \in Notes, LeaseEnds(n) PROVE EditsKept' /\ TrashUntouched'
  BY <1>1, <1>4 DEF LeaseEnds, people
<1>5. CASE PowerLoss
  <2>1. EditsKept'
    <3> SUFFICES ASSUME NEW e \in made \ lost'
                 PROVE  Foreign(e) \in copies' \/ \E l \in Locations : disk'[l] = Foreign(e)
      BY <1>5 DEF PowerLoss, EditsKept
    <3>1. lost \subseteq lost'
      BY <1>5 DEF PowerLoss
    <3>2. Foreign(e) \in copies \/ \E l \in Locations : disk[l] = Foreign(e)
      BY <3>1 DEF EInv, EditsKept
    <3>3. CASE UNCHANGED <<disk, copies, lost>>
      BY <3>2, <3>3
    <3>4. ASSUME NEW l \in Locations, disk' = [disk EXCEPT ![l] = Torn], lost' = lost \cup Texts(disk[l]), UNCHANGED copies
          PROVE  Foreign(e) \in copies' \/ \E k \in Locations : disk'[k] = Foreign(e)
      BY <1>0, <3>2, <3>4 DEF Texts
    <3>5. ASSUME NEW c \in copies, copies' = copies \ {c}, lost' = lost \cup Texts(c), UNCHANGED disk
          PROVE  Foreign(e) \in copies' \/ \E k \in Locations : disk'[k] = Foreign(e)
      BY <3>2, <3>5 DEF Texts
    <3> QED
      BY <1>5, <3>3, <3>4, <3>5 DEF PowerLoss
  <2>2. TrashUntouched'
    BY <1>0, <1>5, ForeignBytes DEF EInv, TrashUntouched, PowerLoss, Locations
  <2> QED
    BY <2>1, <2>2
<1>6. CASE Boot
  BY <1>1, <1>6 DEF Boot, people
<1>7. ASSUME NEW l \in Paths, Sweep(l) PROVE EditsKept' /\ TrashUntouched'
  <2>1. EditsKept'
    BY <1>0, <1>7, OneFile DEF Sweep, people
  <2>2. TrashUntouched'
    BY <1>0, <1>7 DEF EInv, TrashUntouched, Sweep, people, Locations
  <2> QED
    BY <2>1, <2>2
<1>8. ASSUME NEW l \in Paths, NEW x \in Edits, EditFile(l, x) PROVE EditsKept' /\ TrashUntouched'
  <2>1. EditsKept'
    <3> SUFFICES ASSUME NEW e \in made' \ lost'
                 PROVE  Foreign(e) \in copies' \/ \E k \in Locations : disk'[k] = Foreign(e)
      BY DEF EditsKept
    <3>1. /\ disk' = [disk EXCEPT ![l] = Foreign(x)] /\ lost' = lost \cup Texts(disk[l]) /\ made' = made \cup {x}
          /\ UNCHANGED copies
      BY <1>8 DEF EditFile
    <3>2. CASE e = x
      BY <1>0, <3>1, <3>2
    <3>3. CASE e # x
      <4>1. e \in made \ lost /\ disk[l] # Foreign(e)
        BY <3>1, <3>3 DEF Texts
      <4>2. Foreign(e) \in copies \/ \E k \in Locations : disk[k] = Foreign(e)
        BY <4>1 DEF EInv, EditsKept
      <4> QED
        BY <1>0, <3>1, <4>1, <4>2
    <3> QED
      BY <3>2, <3>3
  <2>2. TrashUntouched'
    BY <1>0, <1>8 DEF EInv, TrashUntouched, EditFile, Locations
  <2> QED
    BY <2>1, <2>2
<1>9. ASSUME NEW l \in Paths, Reformat(l) PROVE EditsKept' /\ TrashUntouched'
  <2>1. disk[l].of \in Notes /\ disk' = [disk EXCEPT ![l] = [disk[l] EXCEPT !.hand = TRUE]]
    BY <1>9 DEF Reformat
  <2>2. \A e \in Edits : disk[l] # Foreign(e)
    BY <2>1, NamesAssumption DEF Foreign, Bytes
  <2>3. EditsKept'
    BY <1>0, <1>9, <2>1, <2>2, OneFile DEF Reformat, people
  <2>4. TrashUntouched'
    BY <1>0, <1>9, <2>1 DEF EInv, TrashUntouched, Reformat, people, Locations
  <2> QED
    BY <2>3, <2>4
<1>10. CASE UNCHANGED vars
  BY <1>1, <1>10 DEF vars
<1> QED
  BY <1>2, <1>3, <1>4, <1>5, <1>6, <1>7, <1>8, <1>9, <1>10 DEF Next, StoreStep

\* No step of the projector, its removal jobs or the orphan sweep loses a text people put into a note's file, with any
\* number of processes projecting at once and however often they fail or the machine stops.
THEOREM EditsAreKept == Spec => []EditsKept
<1>1. Init => EInv
  <2> SUFFICES ASSUME Init PROVE EInv
    OBVIOUS
  <2>1. TrashUntouched
    BY ForeignBytes DEF Init, TrashUntouched, Locations
  <2>2. EditsKept
    BY DEF Init, EditsKept
  <2> QED
    BY <2>1, <2>2, TInit DEF EInv
<1>2. EInv /\ [Next]_vars => EInv'
  BY EStep
<1>3. EInv => EditsKept
  BY DEF EInv
<1> QED
  BY <1>1, <1>2, <1>3, PTL DEF Spec
-----------------------------------------------------------------------------
(* Notes and their files, with one process projecting *)

Settled(n) == Exists(n) /\ ~Pending(n)

Holds(r) == r.at \in {"writing", "written"}

\* What the work in flight knows of the notes: a path to release is not the note's own again, a path found without an
\* owner has no settled one, and a note whose number is still the one that was read is still where it is being written.
WorkKnows(w) ==
  LET r == worker[w]  n == r.note IN
  /\ r.at \in {"seen", "check", "removed"} => IF r.job THEN rows[n].at = "purged" ELSE Settled(n) => Home(n) \notin r.todo
  /\ r.at = "check" /\ ~r.owned => \A m \in Notes : Settled(m) => Home(m) # r.loc
  /\ Holds(r) => \A m \in Notes : Settled(m) /\ Home(m) = r.loc => m = n
  /\ Holds(r) /\ Settled(n) => r.seq = rows[n].seq
  /\ Holds(r) /\ Exists(n) /\ r.seq = rows[n].seq => Home(n) = r.loc /\ r.text = rows[n].text
  /\ r.at = "written" /\ r.loc \notin touched => disk[r.loc].of = n /\ disk[r.loc].text = r.text

MInv ==
  /\ TInv /\ Mirror
  /\ \A n \in removals : rows[n].at = "purged"
  /\ ~up => \A w \in Workers : worker[w].at = "idle"
  /\ \A w \in Workers : WorkKnows(w)

LEMMA HomesApart ==
  ASSUME RowsOK, NEW m \in Notes, NEW n \in Notes, Exists(m), Exists(n), Home(m) = Home(n)
  PROVE  m = n
<1>1. \A k \in Notes : rows[k].at = "live" => rows[k].path \in Paths /\ Live(k, rows[k].path)
  BY DEF RowsOK, Live
<1>2. \A k \in Notes, p \in Paths : Trash(k) # p
  BY NamesAssumption DEF Trash
<1>3. CASE rows[m].at = "live" /\ rows[n].at = "live"
  BY <1>1, <1>3 DEF RowsOK, Home
<1>4. CASE rows[m].at = "trashed" /\ rows[n].at = "trashed"
  BY <1>4 DEF Home, Trash
<1> QED
  BY <1>1, <1>2, <1>3, <1>4 DEF Exists, Home

\* A note that exists has changed at least once: one whose projection was reset is pending.
LEMMA ChangedOnce ==
  ASSUME RowsOK, NEW n \in Notes, Exists(n)
  PROVE  rows[n].seq \in Nat /\ rows[n].seq >= 1
<1>1. rows[n].seq \in Nat /\ rows[n].text \in Nat /\ rows[n].text <= rows[n].seq /\ rows[n].text >= 1
  BY DEF RowsOK, Exists
<1> QED
  BY <1>1

\* A change of the store is one note's: its number grows by one, so it is pending, and it is not one already purged.
LEMMA StoreStepFacts ==
  ASSUME TInv, StoreStep
  PROVE  /\ UNCHANGED <<applied, files, disk, worker, up, touched>>
         /\ \E n \in Notes : /\ \A m \in Notes \ {n} : rows'[m] = rows[m]
                             /\ rows'[n].seq = rows[n].seq + 1 /\ rows[n].at # "purged"
                             /\ \A m \in removals' : m \in removals \/ (m = n /\ rows'[n].at = "purged")
<1>0. rows \in [Notes -> [at : {"none", "live", "trashed", "purged"}, path : Paths \cup {"none"}, seq : Nat, text : Nat]]
  BY DEF TInv, RowsOK
<1>1. UNCHANGED <<applied, files, disk, worker, up, touched>>
  BY DEF StoreStep, Create, Write, Move, SoftDelete, Restore, Purge, Change
<1>2. ASSUME NEW n \in Notes, NEW at, NEW path, NEW newText \in BOOLEAN, Change(n, at, path, newText)
      PROVE  /\ \A m \in Notes \ {n} : rows'[m] = rows[m]
             /\ rows'[n].seq = rows[n].seq + 1 /\ rows'[n].at = at
  BY <1>0, <1>2 DEF Change
<1>3. ASSUME NEW n \in Notes, rows[n].at # "purged", UNCHANGED removals,
             \E at \in {"live", "trashed"}, path \in Paths \cup {"none"}, newText \in BOOLEAN : Change(n, at, path, newText)
      PROVE  \E k \in Notes : /\ \A m \in Notes \ {k} : rows'[m] = rows[m]
                              /\ rows'[k].seq = rows[k].seq + 1 /\ rows[k].at # "purged"
                              /\ \A m \in removals' : m \in removals \/ (m = k /\ rows'[k].at = "purged")
  BY <1>2, <1>3
<1>4. \A n \in Notes : rows[n].path \in Paths \cup {"none"}
  BY <1>0
<1>5. ASSUME NEW n \in Notes, Purge(n)
      PROVE  \E k \in Notes : /\ \A m \in Notes \ {k} : rows'[m] = rows[m]
                              /\ rows'[k].seq = rows[k].seq + 1 /\ rows[k].at # "purged"
                              /\ \A m \in removals' : m \in removals \/ (m = k /\ rows'[k].at = "purged")
  <2>1. Change(n, "purged", rows[n].path, FALSE) /\ removals' = removals \cup {n} /\ rows[n].at = "trashed"
    BY <1>5 DEF Purge
  <2>2. /\ \A m \in Notes \ {n} : rows'[m] = rows[m]
        /\ rows'[n].seq = rows[n].seq + 1 /\ rows'[n].at = "purged"
    BY <1>2, <2>1
  <2> QED
    BY <2>1, <2>2
<1>6. CASE ~\E n \in Notes : Purge(n)
  <2>1. PICK n \in Notes : (\E p \in Paths : Create(n, p) \/ Move(n, p)) \/ Write(n) \/ SoftDelete(n) \/ Restore(n)
    BY <1>6 DEF StoreStep
  <2>2. rows[n].at # "purged" /\ UNCHANGED removals
    BY <2>1 DEF Create, Move, Write, SoftDelete, Restore
  <2>3. \E at \in {"live", "trashed"}, path \in Paths \cup {"none"}, newText \in BOOLEAN : Change(n, at, path, newText)
    BY <1>4, <2>1 DEF Create, Move, Write, SoftDelete, Restore
  <2> QED
    BY <1>1, <1>3, <2>2, <2>3
<1> QED
  BY <1>1, <1>5, <1>6

\* Work in flight and the notes it knows of, while no process moves: nothing becomes settled, changed notes are pending.
LEMMA KnowsKept ==
  ASSUME MInv, TInv', UNCHANGED worker,
         \A m \in Notes : Settled(m)' => Settled(m),
         \A m \in Notes : \/ rows'[m] = rows[m]
                          \/ rows'[m].seq = rows[m].seq + 1 /\ rows[m].at # "purged" /\ ~Settled(m)',
         \A w \in Workers : worker[w].at = "written" /\ worker[w].loc \notin touched' =>
           disk'[worker[w].loc].of = worker[w].note /\ disk'[worker[w].loc].text = worker[w].text
  PROVE  \A w \in Workers : WorkKnows(w)'
<1> SUFFICES ASSUME NEW w \in Workers PROVE WorkKnows(w)'
  OBVIOUS
<1> PICK r \in WorkerRecord : r = worker[w] /\ worker'[w] = r
  BY DEF MInv, TInv, WorkersOK
<1>1. WorkKnows(w) /\ (r.at \notin {"idle", "next"} => r.note \in Notes)
  BY DEF MInv, TInv, WorkersOK
<1>2. \A m \in Notes : Settled(m)' => rows'[m] = rows[m]
  OBVIOUS
<1>3. \A m \in Notes : rows[m].seq \in Nat /\ rows'[m].seq \in Nat
  BY DEF MInv, TInv, RowsOK
<1>4. Holds(r) => r.seq \in Nat /\ r.seq <= rows[r.note].seq
  BY DEF MInv, TInv, WorkersOK, WorkerRecord, Holds
<1>5. \A m \in Notes : rows'[m] = rows[m] => (Home(m)' = Home(m) /\ (Exists(m)' <=> Exists(m)))
  BY DEF Home, Exists
<1>6. r.at \in {"seen", "check", "removed"} =>
        IF r.job THEN rows'[r.note].at = "purged" ELSE Settled(r.note)' => Home(r.note)' \notin r.todo
  BY <1>1, <1>2, <1>5 DEF WorkKnows
<1>7. r.at = "check" /\ ~r.owned => \A m \in Notes : Settled(m)' => Home(m)' # r.loc
  BY <1>1, <1>2, <1>5 DEF WorkKnows
<1>8. Holds(r) => \A m \in Notes : Settled(m)' /\ Home(m)' = r.loc => m = r.note
  BY <1>1, <1>2, <1>5 DEF WorkKnows
<1>9. Holds(r) /\ Settled(r.note)' => r.seq = rows'[r.note].seq
  BY <1>1, <1>2 DEF WorkKnows, Holds
<1>10. Holds(r) /\ Exists(r.note)' /\ r.seq = rows'[r.note].seq => Home(r.note)' = r.loc /\ r.text = rows'[r.note].text
  <2> SUFFICES ASSUME Holds(r), Exists(r.note)', r.seq = rows'[r.note].seq
               PROVE  Home(r.note)' = r.loc /\ r.text = rows'[r.note].text
    OBVIOUS
  <2>1. r.note \in Notes
    BY <1>1 DEF Holds
  <2>2. rows'[r.note] = rows[r.note]
    BY <1>3, <1>4, <2>1
  <2> QED
    BY <1>1, <1>5, <2>1, <2>2 DEF WorkKnows
<1>11. r.at = "written" /\ r.loc \notin touched' => disk'[r.loc].of = r.note /\ disk'[r.loc].text = r.text
  OBVIOUS
<1> QED
  BY <1>6, <1>7, <1>8, <1>9, <1>10, <1>11 DEF WorkKnows

LEMMA StoreMirror ==
  ASSUME MInv, TInv', StoreStep
  PROVE  MInv'
<1>1. UNCHANGED <<applied, disk, worker, up, touched>>
  BY StoreStepFacts DEF MInv
<1>2. PICK n \in Notes : /\ \A m \in Notes \ {n} : rows'[m] = rows[m]
                         /\ rows'[n].seq = rows[n].seq + 1 /\ rows[n].at # "purged"
                         /\ \A m \in removals' : m \in removals \/ (m = n /\ rows'[n].at = "purged")
  BY StoreStepFacts DEF MInv
<1>3. \A m \in Notes : rows[m].seq \in Nat /\ applied[m] \in Nat /\ applied[m] <= rows[m].seq
  BY DEF MInv, TInv, RowsOK, AppliedOK
<1>4. ~Settled(n)'
  BY <1>1, <1>2, <1>3 DEF Settled, Pending
<1>5. \A m \in Notes : Settled(m)' => rows'[m] = rows[m] /\ Settled(m)
  BY <1>1, <1>2, <1>4 DEF Settled, Pending, Exists
<1>6. \A w \in Workers : WorkKnows(w)'
  <2>1. \A w \in Workers : worker[w].at = "written" /\ worker[w].loc \notin touched =>
          disk[worker[w].loc].of = worker[w].note /\ disk[worker[w].loc].text = worker[w].text
    BY DEF MInv, WorkKnows
  <2> QED
    BY <1>1, <1>2, <1>4, <1>5, <2>1, KnowsKept
<1>7. Mirror'
  BY <1>1, <1>5 DEF MInv, Mirror, Settled, Exists, Pending, Home, Trash
<1>8. \A m \in removals' : rows'[m].at = "purged"
  BY <1>2 DEF MInv, TInv, ClaimsOK
<1> QED
  BY <1>1, <1>6, <1>7, <1>8 DEF MInv

\* The store's rows, the projections and the processes rest; one file may change.
LEMMA FileMirror ==
  ASSUME MInv, TInv', UNCHANGED <<rows, applied, removals, worker, up>>,
         \A n \in Notes : up /\ Settled(n) /\ Home(n) \notin touched' =>
           Home(n) \notin touched /\ disk'[Home(n)].of = disk[Home(n)].of /\ disk'[Home(n)].text = disk[Home(n)].text,
         \A w \in Workers : worker[w].at = "written" /\ worker[w].loc \notin touched' =>
           worker[w].loc \notin touched /\ disk'[worker[w].loc].of = disk[worker[w].loc].of
             /\ disk'[worker[w].loc].text = disk[worker[w].loc].text
  PROVE  MInv'
<1>1. \A n \in Notes : (Settled(n)' <=> Settled(n)) /\ Home(n)' = Home(n)
  BY DEF Settled, Exists, Pending, Home
<1>2. Mirror'
  <2> SUFFICES ASSUME up, NEW n \in Notes, Settled(n), Home(n) \notin touched'
               PROVE  disk'[Home(n)].of = n /\ disk'[Home(n)].text = rows[n].text
    BY DEF Mirror, Settled, Exists, Pending, Home
  <2> QED
    BY DEF MInv, Mirror, Settled
<1>3. \A w \in Workers : worker[w].at = "written" /\ worker[w].loc \notin touched' =>
        disk'[worker[w].loc].of = worker[w].note /\ disk'[worker[w].loc].text = worker[w].text
  BY DEF MInv, WorkKnows
<1>4. \A w \in Workers : WorkKnows(w)'
  BY <1>1, <1>3, KnowsKept
<1> QED
  BY <1>2, <1>4 DEF MInv

LEMMA RestKnows ==
  ASSUME NEW w \in Workers, worker'[w].at \in {"idle", "next"}
  PROVE  WorkKnows(w)'
BY DEF WorkKnows, Holds

\* A path that was found without a live owner while its own note was elsewhere is no settled note's home.
LEMMA NoOwner ==
  ASSUME RowsOK, NEW l \in Locations, NEW n \in Notes, ~LiveOwner(l, n), Settled(n) => Home(n) # l,
         NEW m \in Notes, Settled(m)
  PROVE  Home(m) # l
<1>1. CASE rows[m].at = "live"
  BY <1>1 DEF LiveOwner, Live, Home
<1>2. CASE rows[m].at = "trashed"
  BY <1>2 DEF LiveOwner, Home
<1> QED
  BY <1>1, <1>2 DEF Settled, Exists

LEMMA DrainKnows ==
  ASSUME MInv, NEW w \in Workers, Drain(w) \/ Fail(w), ~Record(w)
  PROVE  WorkKnows(w)'
<1> PICK r \in WorkerRecord : r = worker[w]
  BY DEF MInv, TInv, WorkersOK
<1>0. worker \in [Workers -> WorkerRecord] /\ RowsOK /\ disk \in [Locations -> Content] /\ UNCHANGED <<rows, applied>>
  <2>1. UNCHANGED rows
    BY DrainKeepsRows
  <2>2. UNCHANGED applied
    BY DEF Drain, Fail, Claim, ReadNote, ClaimRemoval, RoundEnds, Check, Remove, Unrecord, RemovalDone, Reread, WriteFile,
           store
  <2> QED
    BY <2>1, <2>2 DEF MInv, TInv, WorkersOK, DiskOK
<1>1. \A m \in Notes : (Settled(m)' <=> Settled(m)) /\ Home(m)' = Home(m) /\ (Exists(m)' <=> Exists(m)) /\ rows'[m] = rows[m]
  BY <1>0 DEF Settled, Exists, Pending, Home
<1>2. WorkKnows(w) /\ (r.at \notin {"idle", "next"} => r.note \in Notes)
  BY DEF MInv, TInv, WorkersOK
<1>3. CASE Claim(w) \/ RoundEnds(w) \/ RemovalDone(w) \/ Fail(w)
  <2>1. ASSUME NEW s \in WorkerRecord, s.at = "next", worker' = [worker EXCEPT ![w] = s] PROVE WorkKnows(w)'
    BY <1>0, <2>1, RestKnows
  <2>2. CASE Claim(w)
    <3> DEFINE s == [r EXCEPT !.at = "next", !.claims = {n \in Notes : Pending(n) /\ n \notin leased}]
    <3>1. s \in WorkerRecord /\ s.at = "next"
      BY DEF WorkerRecord
    <3>2. worker' = [worker EXCEPT ![w] = s]
      BY <2>2 DEF Claim, Step
    <3> QED
      BY <2>1, <3>1, <3>2
  <2>3. CASE RoundEnds(w)
    BY <1>0, <2>3, IdleTypes, RestKnows DEF RoundEnds, Step
  <2>4. CASE RemovalDone(w)
    <3> DEFINE s == [r EXCEPT !.at = "next"]
    <3>1. s \in WorkerRecord /\ s.at = "next"
      BY DEF WorkerRecord
    <3>2. worker' = [worker EXCEPT ![w] = s]
      BY <2>4 DEF RemovalDone, Step
    <3> QED
      BY <2>1, <3>1, <3>2
  <2>5. CASE Fail(w)
    <3> DEFINE s == [r EXCEPT !.at = "next", !.todo = {}]
    <3>1. s \in WorkerRecord /\ s.at = "next"
      BY DEF WorkerRecord
    <3>2. worker' = [worker EXCEPT ![w] = s]
      BY <2>5 DEF Fail, Step
    <3> QED
      BY <2>1, <3>1, <3>2
  <2> QED
    BY <1>3, <2>2, <2>3, <2>4, <2>5
<1>4. ASSUME NEW n \in Notes, ReadNote(w, n) PROVE WorkKnows(w)'
  <2>1. CASE Exists(n)
    <3> DEFINE others == {l \in Locations : files[l].owner = n} \ {Home(n)}
               new == [r EXCEPT !.at = "seen", !.claims = @ \ {n}, !.job = FALSE, !.note = n, !.rel = Home(n), !.todo = others]
    <3>a. worker'[w] = new
      BY <1>0, <1>4, <2>1 DEF ReadNote, Step
    <3>b. new.at = "seen" /\ new.job = FALSE /\ new.note = n /\ new.todo = others
      BY DEF WorkerRecord
    <3>1. PICK s : s = worker'[w] /\ s.at = "seen" /\ ~s.job /\ s.note = n /\ s.todo = others
      BY <3>a, <3>b
    <3>2. Home(n)' \notin s.todo
      BY <1>1, <3>1
    <3> QED
      BY <3>1, <3>2 DEF WorkKnows, Holds
  <2>2. CASE ~Exists(n)
    <3>a. worker'[w] = [r EXCEPT !.claims = @ \ {n}] /\ r.at = "next"
      BY <1>0, <1>4, <2>2 DEF ReadNote, Step
    <3>1. worker'[w].at = "next"
      BY <3>a DEF WorkerRecord
    <3> QED
      BY <3>1, RestKnows
  <2> QED
    BY <2>1, <2>2
<1>5. ASSUME NEW n \in Notes, ClaimRemoval(w, n) PROVE WorkKnows(w)'
  <2> DEFINE new == [r EXCEPT !.at = "seen", !.job = TRUE, !.note = n,
                              !.todo = {l \in Locations : files[l].owner = n} \cup {Trash(n)}]
  <2>a. worker'[w] = new
    BY <1>0, <1>5 DEF ClaimRemoval, Step
  <2>b. new.at = "seen" /\ new.job /\ new.note = n
    BY DEF WorkerRecord
  <2>1. PICK s : s = worker'[w] /\ s.at = "seen" /\ s.job /\ s.note = n
    BY <2>a, <2>b
  <2>2. rows'[n].at = "purged"
    BY <1>0, <1>5 DEF ClaimRemoval, MInv
  <2> QED
    BY <2>1, <2>2 DEF WorkKnows, Holds
<1>6. ASSUME NEW l \in Locations, Check(w, l) PROVE WorkKnows(w)'
  <2> DEFINE owned == LiveOwner(l, r.note)
  <2>1. r.at = "seen" /\ l \in r.todo /\ r.note \in Notes
    BY <1>2, <1>6 DEF Check
  <2> DEFINE new == [r EXCEPT !.at = "check", !.loc = l, !.todo = @ \ {l}, !.owned = owned]
  <2>a. worker'[w] = new
    BY <1>0, <1>6 DEF Check, Step
  <2>b. /\ new.at = "check" /\ new.loc = l /\ new.owned = owned /\ new.todo = r.todo \ {l}
        /\ new.job = r.job /\ new.note = r.note
    BY DEF WorkerRecord
  <2>2. PICK s : s = worker'[w] /\ s.at = "check" /\ s.loc = l /\ s.owned = owned /\ s.todo = r.todo \ {l}
                   /\ s.job = r.job /\ s.note = r.note
    BY <2>a, <2>b
  <2>3. IF r.job THEN rows[r.note].at = "purged" ELSE Settled(r.note) => Home(r.note) \notin r.todo
    BY <1>2, <2>1 DEF WorkKnows
  <2>4. Settled(r.note) => Home(r.note) # l
    BY <2>1, <2>3 DEF Settled, Exists
  <2>5. ~owned => \A m \in Notes : Settled(m) => Home(m) # l
    BY <1>0, <2>1, <2>4, NoOwner
  <2> HIDE DEF owned
  <2>6. IF s.job THEN rows'[s.note].at = "purged" ELSE Settled(s.note)' => Home(s.note)' \notin s.todo
    BY <1>1, <2>1, <2>2, <2>3
  <2>7. ~s.owned => \A m \in Notes : Settled(m)' => Home(m)' # s.loc
    BY <1>1, <2>2, <2>5
  <2> QED
    BY <2>2, <2>6, <2>7 DEF WorkKnows, Holds
<1>7. CASE Remove(w) \/ Unrecord(w)
  <2>1. r.at \in {"check", "removed"}
    BY <1>7 DEF Remove, Unrecord
  <2>2. PICK s : /\ s = worker'[w] /\ s.at \in {"removed", "seen"}
                 /\ s.job = r.job /\ s.note = r.note /\ s.todo = r.todo
    <3>1. \E at \in {"removed", "seen"} : worker'[w] = [r EXCEPT !.at = at]
      BY <1>0, <1>7 DEF Remove, Unrecord, Step
    <3> QED
      BY <3>1 DEF WorkerRecord
  <2>3. IF r.job THEN rows[r.note].at = "purged" ELSE Settled(r.note) => Home(r.note) \notin r.todo
    BY <1>2, <2>1 DEF WorkKnows
  <2>4. IF s.job THEN rows'[s.note].at = "purged" ELSE Settled(s.note)' => Home(s.note)' \notin s.todo
    BY <1>1, <1>2, <2>1, <2>2, <2>3
  <2> QED
    BY <2>2, <2>4 DEF WorkKnows, Holds
<1>8. CASE Reread(w)
  <2>0. r.at = "seen" /\ r.note \in Notes
    BY <1>2, <1>8 DEF Reread
  <2>1. CASE ~Exists(r.note) \/ HasMoved(r.note, r.rel)
    <3>a. worker'[w] = [r EXCEPT !.at = "next"]
      BY <1>0, <1>8, <2>1 DEF Reread, Step
    <3>1. worker'[w].at = "next"
      BY <3>a DEF WorkerRecord
    <3> QED
      BY <3>1, RestKnows
  <2>2. CASE Exists(r.note) /\ ~HasMoved(r.note, r.rel)
    <3>1. PICK s : /\ s = worker'[w] /\ s.at = "writing" /\ s.note = r.note /\ s.loc = r.rel
                   /\ s.seq = rows[r.note].seq /\ s.text = rows[r.note].text
      <4>1. worker'[w] = Writing(r, r.rel, rows[r.note].seq, rows[r.note].text)
        BY <1>0, <1>8, <2>2 DEF Reread, Step, Writing
      <4>2. r.rel \in Locations /\ rows[r.note].seq \in Nat /\ rows[r.note].text \in Nat
        BY <1>0, <1>8, <2>0 DEF RowsOK, MInv, TInv, WorkersOK, Reread
      <4>3. PICK l \in Locations, k \in Nat, t \in Nat : l = r.rel /\ k = rows[r.note].seq /\ t = rows[r.note].text
        BY <4>2
      <4> DEFINE new == Writing(r, l, k, t)
      <4>4. new.at = "writing" /\ new.note = r.note /\ new.loc = l /\ new.seq = k /\ new.text = t
        BY WritingRecord
      <4> HIDE DEF new
      <4>5. worker'[w] = new
        BY <4>1, <4>3 DEF new
      <4> QED
        BY <4>3, <4>4, <4>5
    <3>2. Home(r.note) = s.loc
      BY <2>2, <3>1 DEF HasMoved
    <3>3. \A m \in Notes : Settled(m)' /\ Home(m)' = s.loc => m = s.note
      BY <1>0, <1>1, <2>0, <2>2, <3>1, <3>2, HomesApart DEF Settled
    <3>4. s.seq = rows'[s.note].seq /\ Home(s.note)' = s.loc /\ s.text = rows'[s.note].text
      BY <1>1, <2>0, <3>1, <3>2
    <3> QED
      BY <3>1, <3>3, <3>4 DEF WorkKnows
  <2> QED
    BY <2>1, <2>2
<1>9. CASE WriteFile(w)
  <2>0. r.at = "writing" /\ r.note \in Notes /\ r.loc \in Locations
    BY <1>2, <1>9 DEF WriteFile, MInv, TInv, WorkersOK
  <2>1. PICK s : /\ s = worker'[w] /\ s.at = "written" /\ s.note = r.note /\ s.loc = r.loc /\ s.seq = r.seq /\ s.text = r.text
    <3>1. \E bytes \in NoteBytes : worker'[w] = [r EXCEPT !.at = "written", !.hash = bytes]
      BY <1>0, <1>9, WrittenBytes DEF MInv
    <3> QED
      BY <3>1 DEF WorkerRecord
  <2>2. disk'[r.loc].of = r.note /\ disk'[r.loc].text = r.text
    BY <1>0, <1>9, <2>0 DEF WriteFile, Bytes
  <2>3. \A m \in Notes : Settled(m)' /\ Home(m)' = s.loc => m = s.note
    BY <1>1, <1>2, <2>0, <2>1 DEF WorkKnows, Holds
  <2>4. Settled(s.note)' => s.seq = rows'[s.note].seq
    BY <1>1, <1>2, <2>0, <2>1 DEF WorkKnows, Holds
  <2>5. Exists(s.note)' /\ s.seq = rows'[s.note].seq => Home(s.note)' = s.loc /\ s.text = rows'[s.note].text
    BY <1>1, <1>2, <2>0, <2>1 DEF WorkKnows, Holds
  <2> QED
    BY <2>1, <2>2, <2>3, <2>4, <2>5 DEF WorkKnows
<1> QED
  BY <1>3, <1>4, <1>5, <1>6, <1>7, <1>8, <1>9 DEF Drain

\* The one process's step keeps the settled notes' files; what it records is the file it has just written.
LEMMA DrainMirrors ==
  ASSUME MInv, NEW w \in Workers, Drain(w) \/ Fail(w)
  PROVE  Mirror'
<1> PICK r \in WorkerRecord : r = worker[w]
  BY DEF MInv, TInv, WorkersOK
<1>0. WorkKnows(w) /\ UNCHANGED rows /\ disk \in [Locations -> Content] /\ applied \in [Notes -> Nat]
  BY DrainKeepsRows DEF MInv, TInv, DiskOK, AppliedOK
<1>1. \A n \in Notes : Home(n)' = Home(n) /\ (Exists(n)' <=> Exists(n)) /\ rows'[n] = rows[n]
  BY <1>0 DEF Home, Exists
<1>2. up /\ UNCHANGED up
  <2>1. UNCHANGED up /\ (worker[w].at # "idle" \/ up)
    BY DEF Drain, Fail, Claim, ReadNote, ClaimRemoval, RoundEnds, Check, Remove, Unrecord, RemovalDone, Reread, WriteFile,
           Record
  <2> QED
    BY <2>1 DEF MInv
<1>3. \A n \in Notes : Settled(n) /\ Home(n) \notin touched => disk[Home(n)].of = n /\ disk[Home(n)].text = rows[n].text
  BY <1>2 DEF MInv, Mirror, Settled
<1> SUFFICES ASSUME NEW n \in Notes, Settled(n)', Home(n) \notin touched'
             PROVE  disk'[Home(n)].of = n /\ disk'[Home(n)].text = rows[n].text
  BY <1>1 DEF Mirror, Settled
<1>4. CASE Remove(w)
  <2>1. Settled(n) /\ UNCHANGED touched /\ r.at = "check"
    BY <1>1, <1>4 DEF Remove, store, Settled, Pending
  <2>2. Removes(w) => Home(n) # r.loc
    BY <1>0, <2>1 DEF WorkKnows, Removes
  <2>3. disk'[Home(n)] = disk[Home(n)]
    <3>1. Home(n) \in Locations
      BY <2>1, HomeTypes DEF MInv, TInv, Settled
    <3>2. disk' = disk \/ (Removes(w) /\ disk' = [disk EXCEPT ![r.loc] = Absent])
      BY <1>4 DEF Remove
    <3> QED
      BY <1>0, <2>2, <3>1, <3>2
  <2> QED
    BY <1>3, <2>1, <2>3
<1>5. CASE WriteFile(w)
  <2>1. Settled(n) /\ touched' = touched \ {r.loc} /\ r.at = "writing" /\ r.loc \in Locations
    BY <1>1, <1>5 DEF WriteFile, store, Settled, Pending, MInv, TInv, WorkersOK
  <2>2. CASE Home(n) = r.loc
    <3>1. n = r.note /\ r.seq = rows[n].seq /\ r.text = rows[n].text
      BY <1>0, <2>1, <2>2 DEF WorkKnows, Holds, Settled
    <3>2. disk'[r.loc].of = r.note /\ disk'[r.loc].text = r.text
      BY <1>0, <1>5, <2>1 DEF WriteFile, Bytes
    <3> QED
      BY <2>2, <3>1, <3>2
  <2>3. CASE Home(n) # r.loc
    BY <1>0, <1>3, <1>5, <2>1, <2>3 DEF WriteFile
  <2> QED
    BY <2>2, <2>3
<1>6. CASE Record(w)
  <2>1. UNCHANGED <<disk, touched>> /\ r.at = "written" /\ r.note \in Notes /\ r.seq \in Nat
    BY <1>6 DEF Record, MInv, TInv, WorkersOK, WorkerRecord
  <2>2. CASE Settled(n)
    BY <1>3, <2>1, <2>2
  <2>3. CASE ~Settled(n)
    <3>1. n = r.note /\ Exists(n) /\ applied'[n] = Larger(applied[n], r.seq)
      BY <1>0, <1>1, <1>6, <2>3 DEF Record, Settled, Pending
    <3>2. applied'[n] >= rows[n].seq /\ applied[n] < rows[n].seq /\ rows[n].seq \in Nat /\ applied[n] \in Nat
          /\ r.seq <= rows[n].seq
      <4>1. rows[n].seq \in Nat /\ applied'[n] \in Nat
        BY <1>0, <2>1, <3>1 DEF MInv, TInv, RowsOK, Larger
      <4> QED
        BY <1>0, <1>1, <2>1, <2>3, <3>1, <4>1 DEF Settled, Pending, MInv, TInv, WorkersOK
    <3>3. r.seq = rows[n].seq
      BY <2>1, <3>1, <3>2 DEF Larger
    <3>4. Home(n) = r.loc /\ r.text = rows[n].text
      BY <1>0, <2>1, <3>1, <3>3 DEF WorkKnows, Holds
    <3> QED
      BY <1>0, <2>1, <3>1, <3>4 DEF WorkKnows
  <2> QED
    BY <2>2, <2>3
<1>7. CASE ~Remove(w) /\ ~WriteFile(w) /\ ~Record(w)
  <2>1. UNCHANGED <<disk, touched, applied>>
    BY <1>7 DEF Drain, Fail, Claim, ReadNote, ClaimRemoval, RoundEnds, Check, Unrecord, RemovalDone, Reread, store
  <2> QED
    BY <1>1, <1>3, <2>1 DEF Settled, Pending
<1> QED
  BY <1>4, <1>5, <1>6, <1>7

LEMMA DrainMInv ==
  ASSUME MInv, TInv', NEW w \in Workers, \A v \in Workers : v = w, Drain(w) \/ Fail(w)
  PROVE  MInv'
<1>1. WorkKnows(w)'
  <2>1. CASE Record(w)
    <3>1. worker'[w].at = "next"
      BY <2>1 DEF Record, Step, MInv, TInv, WorkersOK
    <3> QED
      BY <3>1, RestKnows
  <2> QED
    BY <2>1, DrainKnows
<1>2. up /\ UNCHANGED up
  <2>1. UNCHANGED up /\ (worker[w].at # "idle" \/ up)
    BY DEF Drain, Fail, Claim, ReadNote, ClaimRemoval, RoundEnds, Check, Remove, Unrecord, RemovalDone, Reread, WriteFile,
           Record
  <2> QED
    BY <2>1 DEF MInv
<1>3. UNCHANGED rows /\ removals' \subseteq removals
  <2>1. removals' \subseteq removals
    BY DEF Drain, Fail, Claim, ReadNote, ClaimRemoval, RoundEnds, Check, Remove, Unrecord, RemovalDone, Reread, WriteFile,
           Record, store
  <2> QED
    BY <2>1, DrainKeepsRows
<1> QED
  BY <1>1, <1>2, <1>3, DrainMirrors DEF MInv

LEMMA MStep ==
  ASSUME MInv, \A v, w \in Workers : v = w, [Next]_vars
  PROVE  MInv'
<1>0. TInv' /\ disk \in [Locations -> Content] /\ Paths \subseteq Locations
  BY TStep DEF MInv, TInv, DiskOK, Locations
<1>1. CASE StoreStep
  BY <1>0, <1>1, StoreMirror
<1>2. ASSUME NEW w \in Workers, Drain(w) \/ Fail(w) PROVE MInv'
  BY <1>0, <1>2, DrainMInv
<1>3. CASE UNCHANGED <<rows, applied, removals, worker, up, disk, touched>>
  BY <1>0, <1>3, FileMirror
<1>4. ASSUME NEW l \in Paths, Sweep(l) PROVE MInv'
  <2>1. \A n \in Notes : Settled(n) => Home(n) # l
    BY <1>4, NamesAssumption DEF Sweep, Free, Live, Settled, Exists, Home, Trash
  <2>2. \A w \in Workers : worker[w].at = "written" => worker[w].loc # l
    BY <1>4 DEF Sweep, LockFree
  <2>3. UNCHANGED <<rows, applied, removals, worker, up, touched>> /\ disk' = [disk EXCEPT ![l] = Absent]
    BY <1>4 DEF Sweep, store
  <2>4. \A k \in Locations : k # l => disk'[k] = disk[k]
    BY <1>0, <2>3
  <2>5. \A n \in Notes : Settled(n) => Home(n) \in Locations
    BY HomeTypes DEF MInv, TInv, Settled
  <2>6. \A w \in Workers : worker[w].at = "written" => worker[w].loc \in Locations
    BY DEF MInv, TInv, WorkersOK
  <2> QED
    BY <1>0, <2>1, <2>2, <2>3, <2>4, <2>5, <2>6, FileMirror
<1>5. ASSUME NEW l \in Paths, NEW e \in Edits, EditFile(l, e) PROVE MInv'
  <2>1. /\ UNCHANGED <<rows, applied, removals, worker, up>> /\ disk' = [disk EXCEPT ![l] = Foreign(e)]
        /\ touched' = touched \cup {l}
    BY <1>5 DEF EditFile, store
  <2>2. \A k \in Locations : k # l => disk'[k] = disk[k]
    BY <1>0, <2>1
  <2>5. \A n \in Notes : Settled(n) => Home(n) \in Locations
    BY HomeTypes DEF MInv, TInv, Settled
  <2>6. \A w \in Workers : worker[w].at = "written" => worker[w].loc \in Locations
    BY DEF MInv, TInv, WorkersOK
  <2> QED
    BY <1>0, <2>1, <2>2, <2>5, <2>6, FileMirror
<1>6. ASSUME NEW l \in Paths, Reformat(l) PROVE MInv'
  <2>1. /\ UNCHANGED <<rows, applied, removals, worker, up, touched>> /\ disk' = [disk EXCEPT ![l].hand = TRUE]
        /\ disk[l].of \in Notes
    BY <1>6 DEF Reformat, store, people
  <2>2. disk[l] \in NoteBytes
    <3>1. disk[l] \in Content /\ disk[l].of \in Notes
      BY <1>0, <2>1
    <3>2. Absent.of = "nothing" /\ Torn.of = "torn" /\ \A e \in Edits : Foreign(e).of = e
      BY DEF Absent, Torn, Foreign, Bytes
    <3>3. disk[l] # Absent /\ disk[l] # Torn /\ \A e \in Edits : disk[l] # Foreign(e)
      BY <3>1, <3>2, NamesAssumption
    <3> QED
      BY <3>1, <3>3 DEF Content
  <2>3. \A k \in Locations : disk'[k].of = disk[k].of /\ disk'[k].text = disk[k].text
    BY <1>0, <2>1, <2>2 DEF NoteBytes
  <2>5. \A n \in Notes : Settled(n) => Home(n) \in Locations
    BY HomeTypes DEF MInv, TInv, Settled
  <2>6. \A w \in Workers : worker[w].at = "written" => worker[w].loc \in Locations
    BY DEF MInv, TInv, WorkersOK
  <2> QED
    BY <1>0, <2>1, <2>3, <2>5, <2>6, FileMirror
<1>7. CASE PowerLoss
  <2>1. ~up' /\ UNCHANGED <<rows, removals>> /\ \A w \in Workers : worker'[w].at = "idle"
    BY <1>7, IdleTypes DEF PowerLoss, store
  <2>2. \A w \in Workers : WorkKnows(w)'
    BY <2>1, RestKnows
  <2> QED
    BY <1>0, <2>1, <2>2 DEF MInv, Mirror
<1>8. CASE Boot
  <2>1. UNCHANGED <<rows, removals, worker>> /\ up' /\ applied' = [n \in Notes |-> 0] /\ \A w \in Workers : worker[w].at = "idle"
    BY <1>8 DEF Boot, MInv
  <2>2. \A w \in Workers : WorkKnows(w)'
    BY <2>1, RestKnows
  <2>3. \A n \in Notes : Exists(n) => Pending(n)'
    BY <2>1, ChangedOnce DEF MInv, TInv, Pending, Exists
  <2>4. Mirror'
    BY <2>1, <2>3 DEF Mirror, Exists, Pending
  <2> QED
    BY <1>0, <2>1, <2>2, <2>4 DEF MInv
<1>9. ASSUME NEW n \in Notes, LeaseEnds(n) PROVE MInv'
  BY <1>3, <1>9 DEF LeaseEnds, store
<1>10. CASE UNCHANGED vars
  BY <1>3, <1>10 DEF vars
<1> QED
  BY <1>1, <1>2, <1>4, <1>5, <1>6, <1>7, <1>8, <1>9, <1>10 DEF Next, StoreStep

\* With one process projecting, every note whose projection counts as applied has its text in its file, for any number of
\* notes, paths, faults and power losses: what a drain releases or overwrites is never a settled note's file, though
\* notes move, swap paths and come back between its statements.
THEOREM OneProcessMirrors ==
  ASSUME \A v, w \in Workers : v = w
  PROVE  Spec => []Mirror
<1>1. Init => MInv
  <2> SUFFICES ASSUME Init PROVE MInv
    OBVIOUS
  <2>1. Mirror
    BY DEF Init, Mirror, Exists
  <2>2. \A w \in Workers : WorkKnows(w)
    BY DEF Init, Idle, WorkKnows, Holds
  <2> QED
    BY <2>1, <2>2, TInit DEF MInv, Init
<1>2. MInv /\ [Next]_vars => MInv'
  BY MStep
<1>3. MInv => Mirror
  BY DEF MInv
<1> QED
  BY <1>1, <1>2, <1>3, PTL DEF Spec
=============================================================================
