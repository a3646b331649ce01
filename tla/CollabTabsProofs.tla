-------------------------- MODULE CollabTabsProofs --------------------------
(***************************************************************************)
(* For any number of tabs, copies, edits and faults of one browser: types, *)
(* that text it stored is on the relay or stays stored, that nothing       *)
(* reaches the relay twice, and that an editor that says it is synced, or  *)
(* asks nothing before it is left, has nothing the relay lacks.            *)
(***************************************************************************)
EXTENDS CollabTabs, FiniteSetTheorems, WellFoundedInduction, TLAPS

(* What a tab and a copy are.  `cuts` are the edits that may be cut in a document. *)

Docs(cuts) == {d \in Documents : \A i \in d.cut : i[1] \in cuts}
TabRec(cuts) ==
  [at : {"closed", "open", "refused", "stopped"}, doc : Docs(cuts), net : {"down", "synced"}, acked : Docs(cuts),
   synced : BOOLEAN, unsynced : BOOLEAN, live : Copies \cup {0}, restore : Seq(Copies), shown : Copies \cup {0},
   offered : SUBSET Copies, due : BOOLEAN, looked : BOOLEAN, watch : SUBSET Copies]
CopyRec(cuts) ==
  [by : {{}} \cup {{t} : t \in Tabs}, live : BOOLEAN, mem : Docs(cuts), disk : {{}} \cup {{d} : d \in Docs(cuts)},
   unsaved : BOOLEAN, stored : BOOLEAN, end : {"none", "close", "release"}, awaits : Copies \cup {0}]
World(cuts) == [tab : TabRec(cuts), copies : [Copies -> CopyRec(cuts)]]

\* What a copy's next write stores: the document `d` of its tab while it follows it, else what it held when it stopped.
Body(d, k) == IF k.live THEN d ELSE k.mem

\* A copy under nobody's lock is what is on disk of it.
Loose(cs) == \A c \in Copies : cs[c].by = {} => cs[c] = [NoCopy EXCEPT !.disk = cs[c].disk]

\* The copies of tab t, whose live copy is l and whose document is d: disks are behind their copies, a copy waits for
\* one that has all of its text, and one with nothing queued and no failed write is on disk as it is.
OwnCopy(t, l, d, cs, cuts, c) ==
  /\ cs[c].live => l = c /\ cs[c].end = "none" /\ cs[c].awaits = 0
  /\ cs[c].end # "none" => cs[c].awaits = 0
  /\ cs[c].awaits # 0 => /\ cs[c].awaits # c /\ cs[cs[c].awaits].by = {t} /\ cs[cs[c].awaits].unsaved
                         /\ Text(cs[c].mem) \subseteq Text(Body(d, cs[cs[c].awaits])) \cup cuts
  /\ \A x \in cs[c].disk : x.has \subseteq Body(d, cs[c]).has
  /\ ~cs[c].unsaved /\ cs[c].stored => cs[c].disk = {Body(d, cs[c])}
Own(t, l, d, cs, cuts) ==
  /\ l # 0 => cs[l].by = {t} /\ cs[l].live
  /\ \A c \in Copies : cs[c].by = {t} => OwnCopy(t, l, d, cs, cuts, c)

\* The same of all copies that follow no document.
Backed(cs, cuts) ==
  \A c \in Copies : cs[c].by # {} =>
    /\ cs[c].live => cs[c].end = "none" /\ cs[c].awaits = 0
    /\ cs[c].awaits # 0 => cs[cs[c].awaits].by = cs[c].by
    /\ ~cs[c].live =>
         /\ \A x \in cs[c].disk : x.has \subseteq cs[c].mem.has
         /\ cs[c].awaits # 0 /\ ~cs[cs[c].awaits].live => Text(cs[c].mem) \subseteq Text(cs[cs[c].awaits].mem) \cup cuts

Good(t, l, d, cs, cuts) ==
  /\ cs \in [Copies -> CopyRec(cuts)] /\ l \in Copies \cup {0} /\ d \in Docs(cuts)
  /\ Loose(cs) /\ Own(t, l, d, cs, cuts) /\ Backed(cs, cuts)

\* Copies a tab has found or offers: held, following no document, with nothing said of their end.
Hand(cs, t, P) == \A c \in P : cs[c].by = {t} /\ ~cs[c].live /\ cs[c].end = "none" /\ cs[c].awaits = 0

\* A step on tab t leaves the copies of the other tabs alone.
Touches(t, cs, ds) == \A c \in Copies : ds[c] = cs[c] \/ (cs[c].by \subseteq {t} /\ ds[c].by \subseteq {t})
-----------------------------------------------------------------------------
(* Copies and numbers *)

LEMMA NoCopyZero == 0 \notin Copies /\ Copies \subseteq Nat
BY CopiesAssumption DEF Copies

\* A set of numbers has a least one.
LEMMA Least ==
  ASSUME NEW S \in SUBSET Nat, S # {}
  PROVE  \E m \in S : \A n \in S : m <= n
<1>1. PICK m \in S : \A n \in S : ~(<<n, m>> \in OpToRel(<, Nat))
  BY NatLessThanWellFounded, WFMin
<1>2. ASSUME NEW n \in S, ~(m <= n) PROVE FALSE
  <2>1. n < m
    BY <1>2
  <2>2. <<n, m>> \in OpToRel(<, Nat)
    BY <2>1 DEF OpToRel
  <2> QED
    BY <1>1, <2>2
<1> QED
  BY <1>2

\* With a name left, the one a step takes is of no copy.
LEMMA FreeName ==
  ASSUME NEW cs, Free(cs) # {}
  PROVE  FirstFree(cs) \in Copies /\ cs[FirstFree(cs)] = NoCopy
<1>1. Free(cs) \in SUBSET Nat /\ Free(cs) \subseteq Copies /\ \A c \in Free(cs) : cs[c] = NoCopy
  BY NoCopyZero DEF Free
<1>2. \E c \in Free(cs) : \A d \in Free(cs) : c <= d
  BY <1>1, Least
<1> QED
  BY <1>1, <1>2 DEF FirstFree
-----------------------------------------------------------------------------
(* Documents and their text *)

LEMMA DocFields ==
  ASSUME NEW cuts, NEW d \in Docs(cuts)
  PROVE  /\ d = [has |-> d.has, cut |-> d.cut] /\ d \in Documents
         /\ d.has \subseteq Texts \X {"typed", "rebased", "offered"} /\ d.cut \subseteq Large \X {"typed"}
         /\ \A i \in d.cut : i[1] \in cuts
BY DEF Docs, Documents

LEMMA DocMade ==
  ASSUME NEW cuts, NEW has, NEW cut, has \subseteq Texts \X {"typed", "rebased", "offered"}, cut \subseteq Large \X {"typed"},
         \A i \in cut : i[1] \in cuts
  PROVE  [has |-> has, cut |-> cut] \in Docs(cuts)
BY DEF Docs, Documents

LEMMA DocsGrow ==
  ASSUME NEW cuts, NEW more, cuts \subseteq more
  PROVE  Docs(cuts) \subseteq Docs(more)
BY DEF Docs

LEMMA EmptyDoc ==
  ASSUME NEW cuts
  PROVE  Empty \in Docs(cuts) /\ Empty.has = {} /\ Empty.cut = {} /\ Text(Empty) = {}
<1>1. Empty \in Docs(cuts)
  BY DocMade DEF Empty
<1> QED
  BY <1>1 DEF Empty, Text

LEMMA JoinDoc ==
  ASSUME NEW cuts, NEW a \in Docs(cuts), NEW b \in Docs(cuts)
  PROVE  /\ Join(a, b) \in Docs(cuts) /\ Join(a, b).has = a.has \cup b.has /\ Join(a, b).cut = a.cut \cup b.cut
<1>1. Join(a, b).has = a.has \cup b.has /\ Join(a, b).cut = a.cut \cup b.cut
  BY DEF Join
<1>2. Join(a, b) \in Docs(cuts)
  BY DocFields, DocMade DEF Join
<1> QED
  BY <1>1, <1>2

LEMMA TextIs ==
  ASSUME NEW d, NEW e
  PROVE  e \in Text(d) <=> \E i \in d.has \ d.cut : i[1] = e
BY DEF Text

\* A document that has the items of another shows its text, but for what was cut.
LEMMA TextGrows ==
  ASSUME NEW cuts, NEW a \in Docs(cuts), NEW b \in Docs(cuts), a.has \subseteq b.has
  PROVE  Text(a) \subseteq Text(b) \cup cuts
<1> SUFFICES ASSUME NEW e \in Text(a), e \notin cuts PROVE e \in Text(b)
  OBVIOUS
<1>1. PICK i \in a.has \ a.cut : i[1] = e
  BY TextIs
<1>2. i \notin b.cut
  BY <1>1, DocFields
<1> QED
  BY <1>1, <1>2, TextIs

LEMMA TextOfJoin ==
  ASSUME NEW cuts, NEW a \in Docs(cuts), NEW b \in Docs(cuts)
  PROVE  /\ Text(Join(a, b)) \subseteq Text(a) \cup Text(b)
         /\ Text(a) \subseteq Text(Join(a, b)) \cup cuts /\ Text(b) \subseteq Text(Join(a, b)) \cup cuts
<1>1. Text(a) \subseteq Text(Join(a, b)) \cup cuts /\ Text(b) \subseteq Text(Join(a, b)) \cup cuts
  BY JoinDoc, TextGrows
<1>2. ASSUME NEW e \in Text(Join(a, b)) PROVE e \in Text(a) \cup Text(b)
  <2>1. PICK i \in Join(a, b).has \ Join(a, b).cut : i[1] = e
    BY TextIs
  <2> QED
    BY <2>1, JoinDoc, TextIs
<1> QED
  BY <1>1, <1>2

LEMMA TextIsText ==
  ASSUME NEW cuts, NEW d \in Docs(cuts)
  PROVE  Text(d) \subseteq Texts
BY DocFields DEF Text

\* A plain document shows the texts it is made of.
LEMMA PlainDoc ==
  ASSUME NEW cuts, NEW S \in SUBSET Texts, NEW how \in {"typed", "rebased", "offered"}
  PROVE  /\ Plain(S, how) \in Docs(cuts) /\ Plain(S, how).has = S \X {how} /\ Plain(S, how).cut = {}
         /\ Text(Plain(S, how)) = S
<1>1. Plain(S, how).has = S \X {how} /\ Plain(S, how).cut = {}
  BY DEF Plain
<1>2. Plain(S, how) \in Docs(cuts)
  BY DocMade DEF Plain
<1>3. \A e \in S : <<e, how>> \in S \X {how} /\ <<e, how>>[1] = e
  OBVIOUS
<1>4. ASSUME NEW e \in S PROVE e \in Text(Plain(S, how))
  <2>1. <<e, how>> \in Plain(S, how).has \ Plain(S, how).cut /\ <<e, how>>[1] = e
    BY <1>1, <1>3
  <2> QED
    BY <2>1, TextIs
<1>5. ASSUME NEW e \in Text(Plain(S, how)) PROVE e \in S
  <2>1. PICK i \in Plain(S, how).has \ Plain(S, how).cut : i[1] = e
    BY TextIs
  <2> QED
    BY <1>1, <2>1
<1> QED
  BY <1>1, <1>2, <1>4, <1>5
-----------------------------------------------------------------------------
(* A step on one tab and the copies of the others *)

LEMMA CopyFields ==
  ASSUME NEW cuts, NEW k \in CopyRec(cuts)
  PROVE  /\ k.by = {} \/ \E t \in Tabs : k.by = {t}
         /\ k.live \in BOOLEAN /\ k.mem \in Docs(cuts) /\ k.unsaved \in BOOLEAN /\ k.stored \in BOOLEAN
         /\ k.disk = {} \/ \E d \in Docs(cuts) : k.disk = {d}
         /\ \A d \in k.disk : d \in Docs(cuts)
         /\ k.end \in {"none", "close", "release"} /\ k.awaits \in Copies \cup {0}
BY DEF CopyRec

LEMMA CopyMade ==
  ASSUME NEW cuts, NEW k \in CopyRec(cuts), NEW t \in Tabs, NEW d \in Docs(cuts), NEW how \in {"none", "close", "release"},
         NEW o \in Copies \cup {0}, NEW b \in BOOLEAN
  PROVE  /\ [k EXCEPT !.unsaved = TRUE] \in CopyRec(cuts)
         /\ [k EXCEPT !.awaits = o] \in CopyRec(cuts)
         /\ [k EXCEPT !.awaits = 0, !.end = how] \in CopyRec(cuts)
         /\ [k EXCEPT !.end = how] \in CopyRec(cuts)
         /\ [k EXCEPT !.mem = d, !.live = FALSE, !.end = how] \in CopyRec(cuts)
         /\ [k EXCEPT !.mem = d, !.unsaved = TRUE] \in CopyRec(cuts)
         /\ [k EXCEPT !.by = {t}, !.mem = d, !.end = how] \in CopyRec(cuts)
         /\ [k EXCEPT !.disk = {d}, !.unsaved = FALSE, !.stored = b] \in CopyRec(cuts)
         /\ [k EXCEPT !.disk = k.disk, !.unsaved = FALSE, !.stored = b] \in CopyRec(cuts)
BY DEF CopyRec

LEMMA NoCopyFields ==
  ASSUME NEW cuts
  PROVE  /\ NoCopy \in CopyRec(cuts)
         /\ NoCopy.by = {} /\ ~NoCopy.live /\ NoCopy.mem = Empty /\ NoCopy.disk = {} /\ ~NoCopy.unsaved /\ NoCopy.stored
         /\ NoCopy.end = "none" /\ NoCopy.awaits = 0
BY EmptyDoc DEF CopyRec, NoCopy

\* What is left of a copy under nobody's lock.
Left(disk) == [NoCopy EXCEPT !.disk = disk]
LEMMA LeftFields ==
  ASSUME NEW cuts, NEW disk, disk = {} \/ \E d \in Docs(cuts) : disk = {d}
  PROVE  /\ Left(disk) \in CopyRec(cuts) /\ Left(disk).by = {} /\ ~Left(disk).live /\ Left(disk).mem = Empty
         /\ Left(disk).disk = disk /\ ~Left(disk).unsaved /\ Left(disk).stored /\ Left(disk).end = "none"
         /\ Left(disk).awaits = 0
BY NoCopyFields, EmptyDoc DEF CopyRec, NoCopy, Left

LEMMA LooseFields ==
  ASSUME NEW cuts, NEW cs \in [Copies -> CopyRec(cuts)], Loose(cs), NEW c \in Copies, cs[c].by = {}
  PROVE  ~cs[c].live /\ cs[c].mem = Empty /\ ~cs[c].unsaved /\ cs[c].end = "none" /\ cs[c].awaits = 0
<1> DEFINE x == [NoCopy EXCEPT !.disk = cs[c].disk]
<1>1. cs[c].disk = {} \/ \E d \in Docs(cuts) : cs[c].disk = {d}
  BY CopyFields
<1>2. ~x.live /\ x.mem = Empty /\ ~x.unsaved /\ x.end = "none" /\ x.awaits = 0
  BY <1>1, NoCopyFields DEF CopyRec
<1>3. cs[c] = x
  BY DEF Loose
<1> HIDE DEF x
<1> QED
  BY <1>2, <1>3

LEMMA TouchesTwice ==
  ASSUME NEW t, NEW cs, NEW ds, NEW es, Touches(t, cs, ds), Touches(t, ds, es)
  PROVE  Touches(t, cs, es)
BY DEF Touches

LEMMA OthersOwn ==
  ASSUME NEW cuts, NEW t \in Tabs, NEW u \in Tabs, u # t, NEW cs \in [Copies -> CopyRec(cuts)], NEW ds, Touches(t, cs, ds),
         NEW l \in Copies \cup {0}, NEW d, Own(u, l, d, cs, cuts)
  PROVE  Own(u, l, d, ds, cuts)
<1>1. \A c \in Copies : cs[c].by = {u} \/ ds[c].by = {u} => ds[c] = cs[c]
  BY DEF Touches
<1>2. ASSUME l # 0 PROVE ds[l].by = {u} /\ ds[l].live
  BY <1>1, <1>2 DEF Own
<1>3. ASSUME NEW c \in Copies, ds[c].by = {u} PROVE OwnCopy(u, l, d, ds, cuts, c)
  <2>1. OwnCopy(u, l, d, cs, cuts, c) /\ ds[c] = cs[c]
    BY <1>1, <1>3 DEF Own
  <2>2. ASSUME cs[c].awaits # 0
        PROVE  cs[c].awaits \in Copies /\ ds[cs[c].awaits] = cs[cs[c].awaits]
    BY <1>1, <2>1, <2>2, CopyFields DEF OwnCopy
  <2> QED
    BY <2>1, <2>2 DEF OwnCopy
<1> QED
  BY <1>2, <1>3 DEF Own

LEMMA BackedKept ==
  ASSUME NEW cuts, NEW t \in Tabs, NEW cs \in [Copies -> CopyRec(cuts)], NEW ds \in [Copies -> CopyRec(cuts)],
         Touches(t, cs, ds), NEW l, NEW d, Own(t, l, d, ds, cuts), Backed(cs, cuts)
  PROVE  Backed(ds, cuts)
<1> DEFINE Ok(xs, c) == /\ xs[c].live => xs[c].end = "none" /\ xs[c].awaits = 0
                        /\ xs[c].awaits # 0 => xs[xs[c].awaits].by = xs[c].by
                        /\ ~xs[c].live =>
                             /\ \A x \in xs[c].disk : x.has \subseteq xs[c].mem.has
                             /\ xs[c].awaits # 0 /\ ~xs[xs[c].awaits].live =>
                                  Text(xs[c].mem) \subseteq Text(xs[xs[c].awaits].mem) \cup cuts
<1>1. ASSUME NEW c \in Copies, ds[c].by # {} PROVE Ok(ds, c)
  <2>1. CASE ds[c].by = {t}
    <3>1. OwnCopy(t, l, d, ds, cuts, c)
      BY <2>1 DEF Own
    <3> QED
      BY <2>1, <3>1 DEF OwnCopy, Body
  <2>2. CASE ds[c].by # {t}
    <3>1. ds[c] = cs[c] /\ Ok(cs, c)
      <4>1. ds[c] = cs[c]
        BY <1>1, <2>2, CopyFields DEF Touches
      <4> QED
        BY <1>1, <4>1 DEF Backed
    <3>2. ASSUME cs[c].awaits # 0 PROVE ds[cs[c].awaits] = cs[cs[c].awaits]
      <4>1. cs[c].awaits \in Copies /\ cs[cs[c].awaits].by = cs[c].by
        BY <3>1, <3>2, CopyFields
      <4>2. ~(cs[c].by \subseteq {t})
        BY <1>1, <2>2, <3>1, CopyFields
      <4> QED
        BY <4>1, <4>2 DEF Touches
    <3> QED
      BY <3>1, <3>2
  <2> QED
    BY <2>1, <2>2
<1> QED
  BY <1>1 DEF Backed

LEMMA GoodMade ==
  ASSUME NEW cuts, NEW t \in Tabs, NEW cs \in [Copies -> CopyRec(cuts)], NEW ds \in [Copies -> CopyRec(cuts)],
         Touches(t, cs, ds), NEW l \in Copies \cup {0}, NEW d \in Docs(cuts), Own(t, l, d, ds, cuts), Backed(cs, cuts), Loose(ds)
  PROVE  Good(t, l, d, ds, cuts)
<1>1. Backed(ds, cuts)
  BY BackedKept
<1> QED
  BY <1>1 DEF Good
-----------------------------------------------------------------------------
(* What the hook's functions do to the copies of their tab *)

LEMMA OwnCopyKept ==
  ASSUME NEW cuts, NEW t \in Tabs, NEW cs \in [Copies -> CopyRec(cuts)], NEW ds \in [Copies -> CopyRec(cuts)],
         NEW l, NEW d, NEW l2, NEW d2, NEW c \in Copies, OwnCopy(t, l, d, cs, cuts, c), ds[c] = cs[c],
         cs[c].live => l2 = c /\ d2 = d,
         cs[c].awaits # 0 => LET a == cs[c].awaits
                             IN ds[a].by = {t} /\ ds[a].unsaved /\ Text(Body(d, cs[a])) \subseteq Text(Body(d2, ds[a])) \cup cuts
  PROVE  OwnCopy(t, l2, d2, ds, cuts, c)
<1>1. Body(d2, ds[c]) = Body(d, cs[c])
  BY DEF Body
<1>2. ASSUME cs[c].awaits # 0
      PROVE  cs[c].awaits # c /\ Text(cs[c].mem) \subseteq Text(Body(d2, ds[cs[c].awaits])) \cup cuts
  BY <1>2 DEF OwnCopy
<1>3. ds[c].live => l2 = c /\ ds[c].end = "none" /\ ds[c].awaits = 0
  BY DEF OwnCopy
<1>4. ds[c].end # "none" => ds[c].awaits = 0
  BY DEF OwnCopy
<1>5. \A x \in ds[c].disk : x.has \subseteq Body(d2, ds[c]).has
  BY <1>1 DEF OwnCopy
<1>6. ~ds[c].unsaved /\ ds[c].stored => ds[c].disk = {Body(d2, ds[c])}
  BY <1>1 DEF OwnCopy
<1> QED
  BY <1>2, <1>3, <1>4, <1>5, <1>6 DEF OwnCopy

\* What a good collection of copies says of one.
LEMMA GoodTypes ==
  ASSUME NEW cuts, NEW t \in Tabs, NEW l, NEW d, NEW cs, Good(t, l, d, cs, cuts)
  PROVE  /\ cs \in [Copies -> CopyRec(cuts)] /\ l \in Copies \cup {0} /\ d \in Docs(cuts) /\ Loose(cs) /\ Backed(cs, cuts)
         /\ Own(t, l, d, cs, cuts)
BY DEF Good

LEMMA GoodLive ==
  ASSUME NEW cuts, NEW t \in Tabs, NEW l, NEW d, NEW cs, Good(t, l, d, cs, cuts), l \in Copies
  PROVE  l \in Copies /\ cs[l].by = {t} /\ cs[l].live /\ cs[l].end = "none" /\ cs[l].awaits = 0
<1>1. Own(t, l, d, cs, cuts) /\ l # 0
  BY GoodTypes, NoCopyZero
<1>2. cs[l].by = {t} /\ cs[l].live
  BY <1>1 DEF Own
<1>3. OwnCopy(t, l, d, cs, cuts, l)
  BY <1>1, <1>2 DEF Own
<1> QED
  BY <1>1, <1>2, <1>3 DEF OwnCopy

LEMMA GoodCopy ==
  ASSUME NEW cuts, NEW t \in Tabs, NEW l, NEW d, NEW cs, Good(t, l, d, cs, cuts), NEW c \in Copies, cs[c].by = {t}
  PROVE  /\ OwnCopy(t, l, d, cs, cuts, c)
         /\ cs[c].live => l = c
         /\ cs[c].awaits # 0 =>
              cs[c].awaits \in Copies \ {c} /\ cs[cs[c].awaits].by = {t} /\ cs[cs[c].awaits].unsaved
<1>1. cs \in [Copies -> CopyRec(cuts)] /\ OwnCopy(t, l, d, cs, cuts, c)
  BY GoodTypes DEF Own
<1> QED
  BY <1>1, CopyFields DEF OwnCopy

Fresh(t) == [NoCopy EXCEPT !.by = {t}, !.live = TRUE, !.unsaved = TRUE]
Offer(t, x) == [NoCopy EXCEPT !.by = {t}, !.unsaved = TRUE, !.mem = x]

LEMMA NewFields ==
  ASSUME NEW cuts, NEW t \in Tabs, NEW x \in Docs(cuts)
  PROVE  /\ Fresh(t) \in CopyRec(cuts) /\ Fresh(t).by = {t} /\ Fresh(t).live /\ Fresh(t).mem = Empty /\ Fresh(t).disk = {}
         /\ Fresh(t).unsaved /\ Fresh(t).end = "none" /\ Fresh(t).awaits = 0
         /\ Offer(t, x) \in CopyRec(cuts) /\ Offer(t, x).by = {t} /\ ~Offer(t, x).live /\ Offer(t, x).mem = x
         /\ Offer(t, x).disk = {} /\ Offer(t, x).unsaved /\ Offer(t, x).end = "none" /\ Offer(t, x).awaits = 0
BY NoCopyFields, EmptyDoc DEF Fresh, Offer, CopyRec, NoCopy

\* keep: a new copy that follows the document.
LEMMA KeepGood ==
  ASSUME NEW cuts, NEW t \in Tabs, NEW l, l \notin Copies, NEW d, NEW cs, Good(t, l, d, cs, cuts), NEW c \in Copies, cs[c] = NoCopy
  PROVE  LET ds == [cs EXCEPT ![c] = Fresh(t)] IN Good(t, c, d, ds, cuts) /\ Touches(t, cs, ds)
<1> DEFINE ds == [cs EXCEPT ![c] = Fresh(t)]
<1>0. /\ \A k \in Copies : cs[k].by = {t} => OwnCopy(t, l, d, cs, cuts, k)
      /\ \A k \in Copies : cs[k].by = {t} /\ cs[k].live => l = k
      /\ \A k \in Copies : cs[k].by = {t} /\ cs[k].awaits # 0 =>
           cs[k].awaits \in Copies /\ cs[cs[k].awaits].by = {t} /\ cs[cs[k].awaits].unsaved
  <2>1. ASSUME NEW k \in Copies, cs[k].by = {t}
        PROVE  /\ OwnCopy(t, l, d, cs, cuts, k) /\ (cs[k].live => l = k)
               /\ cs[k].awaits # 0 => cs[k].awaits \in Copies /\ cs[cs[k].awaits].by = {t} /\ cs[cs[k].awaits].unsaved
    BY <2>1, GoodCopy
  <2> QED
    BY <2>1
<1>1. d \in Docs(cuts) /\ cs \in [Copies -> CopyRec(cuts)] /\ Loose(cs) /\ Backed(cs, cuts)
  BY GoodTypes
<1>2. ds \in [Copies -> CopyRec(cuts)] /\ ds[c] = Fresh(t) /\ (\A k \in Copies : k # c => ds[k] = cs[k]) /\ cs[c].by = {}
  BY <1>1, NewFields, NoCopyFields
<1> HIDE DEF ds
<1>3. Touches(t, cs, ds)
  BY <1>2, NewFields, <1>1 DEF Touches
<1>4. Loose(ds)
  BY <1>1, <1>2, NewFields DEF Loose
<1>5. ASSUME NEW k \in Copies, ds[k].by = {t} PROVE OwnCopy(t, c, d, ds, cuts, k)
  <2>1. CASE k = c
    BY <1>1, <1>2, <2>1, NewFields DEF OwnCopy
  <2>2. CASE k # c
    <3>1. ds[k] = cs[k] /\ OwnCopy(t, l, d, cs, cuts, k) /\ ~cs[k].live
      BY <1>0, <1>2, <1>5, <2>2
    <3>2. cs[k].awaits # 0 => cs[k].awaits \in Copies /\ cs[cs[k].awaits].by = {t} /\ cs[cs[k].awaits].unsaved
      BY <1>0, <1>5, <3>1
    <3>3. cs[k].awaits # 0 => ds[cs[k].awaits] = cs[cs[k].awaits]
      BY <1>2, <3>2
    <3> QED
      BY <1>1, <1>2, <3>1, <3>2, <3>3, OwnCopyKept
  <2> QED
    BY <2>1, <2>2
<1>6. Own(t, c, d, ds, cuts)
  BY <1>2, <1>5, NewFields, <1>1 DEF Own
<1>7. Good(t, c, d, ds, cuts)
  BY <1>1, <1>2, <1>3, <1>4, <1>6, GoodMade
<1> QED
  BY <1>3, <1>7 DEF ds

\* The old document of a note that was rebased: a copy of its own.
LEMMA OfferGood ==
  ASSUME NEW cuts, NEW t \in Tabs, NEW l, NEW d, NEW cs, Good(t, l, d, cs, cuts), NEW c \in Copies, cs[c] = NoCopy,
         NEW x \in Docs(cuts)
  PROVE  LET ds == [cs EXCEPT ![c] = Offer(t, x)] IN Good(t, l, d, ds, cuts) /\ Touches(t, cs, ds)
<1> DEFINE ds == [cs EXCEPT ![c] = Offer(t, x)]
<1>0. /\ l # 0 => l \in Copies /\ cs[l].by = {t} /\ cs[l].live
      /\ \A k \in Copies : cs[k].by = {t} => OwnCopy(t, l, d, cs, cuts, k)
      /\ \A k \in Copies : cs[k].by = {t} /\ cs[k].live => l = k
      /\ \A k \in Copies : cs[k].by = {t} /\ cs[k].awaits # 0 =>
           cs[k].awaits \in Copies /\ cs[cs[k].awaits].by = {t} /\ cs[cs[k].awaits].unsaved
  <2>1. ASSUME NEW k \in Copies, cs[k].by = {t}
        PROVE  /\ OwnCopy(t, l, d, cs, cuts, k) /\ (cs[k].live => l = k)
               /\ cs[k].awaits # 0 => cs[k].awaits \in Copies /\ cs[cs[k].awaits].by = {t} /\ cs[cs[k].awaits].unsaved
    BY <2>1, GoodCopy
  <2>2. l # 0 => l \in Copies
    BY GoodTypes
  <2> QED
    BY <2>1, <2>2, GoodLive
<1>1. d \in Docs(cuts) /\ cs \in [Copies -> CopyRec(cuts)] /\ Loose(cs) /\ Backed(cs, cuts) /\ l \in Copies \cup {0}
  BY GoodTypes
<1>2. ds \in [Copies -> CopyRec(cuts)] /\ ds[c] = Offer(t, x) /\ (\A k \in Copies : k # c => ds[k] = cs[k]) /\ cs[c].by = {}
  BY <1>1, NewFields, NoCopyFields
<1>c. /\ ds[c].by = {t} /\ ~ds[c].live /\ ds[c].disk = {} /\ ds[c].unsaved /\ ds[c].end = "none" /\ ds[c].awaits = 0
  BY <1>2, NewFields
<1> HIDE DEF ds
<1>3. Touches(t, cs, ds)
  BY <1>2, NewFields, <1>1 DEF Touches
<1>4. Loose(ds)
  BY <1>1, <1>2, <1>c DEF Loose
<1>5. ASSUME NEW k \in Copies, ds[k].by = {t} PROVE OwnCopy(t, l, d, ds, cuts, k)
  <2>1. CASE k = c
    BY <1>c, <2>1 DEF OwnCopy
  <2>2. CASE k # c
    <3>1. ds[k] = cs[k] /\ OwnCopy(t, l, d, cs, cuts, k) /\ (cs[k].live => l = k)
      BY <1>0, <1>2, <1>5, <2>2
    <3>2. cs[k].awaits # 0 => cs[k].awaits \in Copies /\ cs[cs[k].awaits].by = {t} /\ cs[cs[k].awaits].unsaved
      BY <1>0, <1>5, <3>1
    <3>3. cs[k].awaits # 0 => ds[cs[k].awaits] = cs[cs[k].awaits]
      BY <1>2, <3>2
    <3> QED
      BY <1>1, <1>2, <3>1, <3>2, <3>3, OwnCopyKept
  <2> QED
    BY <2>1, <2>2
<1>6. Own(t, l, d, ds, cuts)
  <2>1. l # 0 => l # c /\ cs[l].by = {t} /\ cs[l].live /\ l \in Copies
    BY <1>0, <1>2
  <2> QED
    BY <1>2, <1>5, <2>1 DEF Own
<1>7. Good(t, l, d, ds, cuts)
  BY <1>1, <1>2, <1>3, <1>4, <1>6, GoodMade
<1> QED
  BY <1>3, <1>7 DEF ds

\* The document changes, by more items: its copy is behind.
LEMMA ChangeGood ==
  ASSUME NEW cuts, NEW t \in Tabs, NEW l, NEW d, NEW cs, Good(t, l, d, cs, cuts), NEW d2 \in Docs(cuts), d.has \subseteq d2.has
  PROVE  LET ds == IF d2 # d /\ l # 0 THEN [cs EXCEPT ![l] = [@ EXCEPT !.unsaved = TRUE]] ELSE cs
         IN Good(t, l, d2, ds, cuts) /\ Touches(t, cs, ds)
<1>0. /\ l # 0 => l \in Copies /\ cs[l].by = {t} /\ cs[l].live /\ cs[l].end = "none" /\ cs[l].awaits = 0
      /\ \A k \in Copies : cs[k].by = {t} => OwnCopy(t, l, d, cs, cuts, k)
      /\ \A k \in Copies : cs[k].by = {t} /\ cs[k].live => l = k
      /\ \A k \in Copies : cs[k].by = {t} /\ cs[k].awaits # 0 =>
           cs[k].awaits \in Copies /\ cs[cs[k].awaits].by = {t} /\ cs[cs[k].awaits].unsaved
  <2>1. ASSUME NEW k \in Copies, cs[k].by = {t}
        PROVE  /\ OwnCopy(t, l, d, cs, cuts, k) /\ (cs[k].live => l = k)
               /\ cs[k].awaits # 0 => cs[k].awaits \in Copies /\ cs[cs[k].awaits].by = {t} /\ cs[cs[k].awaits].unsaved
    BY <2>1, GoodCopy
  <2>2. ASSUME l # 0 PROVE l \in Copies /\ cs[l].by = {t} /\ cs[l].live /\ cs[l].end = "none" /\ cs[l].awaits = 0
    <3>1. l \in Copies
      BY <2>2, GoodTypes
    <3> QED
      BY <3>1, GoodLive
  <2> QED
    BY <2>1, <2>2
<1>1. d \in Docs(cuts) /\ cs \in [Copies -> CopyRec(cuts)] /\ Loose(cs) /\ Backed(cs, cuts) /\ l \in Copies \cup {0}
      /\ Own(t, l, d, cs, cuts)
  BY GoodTypes
<1>2. CASE d2 = d
  BY <1>2 DEF Touches
<1>3. CASE l = 0
  <2>1. ASSUME NEW k \in Copies, cs[k].by = {t} PROVE OwnCopy(t, l, d2, cs, cuts, k)
    <3>1. OwnCopy(t, l, d, cs, cuts, k) /\ ~cs[k].live
      BY <1>0, <1>3, <2>1, NoCopyZero
    <3>2. cs[k].awaits # 0 => cs[k].awaits \in Copies /\ cs[cs[k].awaits].by = {t} /\ cs[cs[k].awaits].unsaved
      BY <1>0, <2>1
    <3>3. cs[k].awaits # 0 => ~cs[cs[k].awaits].live
      BY <1>0, <1>3, <3>2, NoCopyZero
    <3> QED
      BY <1>1, <3>1, <3>2, <3>3, OwnCopyKept DEF Body
  <2>2. Own(t, l, d2, cs, cuts)
    BY <1>3, <2>1 DEF Own
  <2> QED
    BY <1>1, <1>3, <2>2 DEF Good, Touches
<1>4. CASE d2 # d /\ l # 0
  <2> DEFINE ds == [cs EXCEPT ![l] = [@ EXCEPT !.unsaved = TRUE]]
  <2>1. l \in Copies /\ cs[l].by = {t} /\ cs[l].live /\ cs[l].end = "none" /\ cs[l].awaits = 0
    BY <1>0, <1>4
  <2>2. /\ ds \in [Copies -> CopyRec(cuts)] /\ \A k \in Copies : k # l => ds[k] = cs[k]
        /\ ds[l] = [cs[l] EXCEPT !.unsaved = TRUE]
    <3>1. [cs[l] EXCEPT !.unsaved = TRUE] \in CopyRec(cuts)
      BY <1>1, <2>1 DEF CopyRec
    <3> QED
      BY <1>1, <2>1, <3>1
  <2>3. ds[l].by = {t} /\ ds[l].live /\ ds[l].unsaved /\ ds[l].end = "none" /\ ds[l].awaits = 0 /\ ds[l].disk = cs[l].disk
    <3>1. cs[l] \in CopyRec(cuts)
      BY <1>1, <2>1
    <3> QED
      BY <2>1, <2>2, <3>1 DEF CopyRec
  <2> HIDE DEF ds
  <2>4. Touches(t, cs, ds)
    BY <2>1, <2>2, <2>3 DEF Touches
  <2>5. Loose(ds)
    BY <1>1, <2>2, <2>3 DEF Loose
  <2>6. ASSUME NEW k \in Copies, ds[k].by = {t} PROVE OwnCopy(t, l, d2, ds, cuts, k)
    <3>1. CASE k = l
      <4>1. \A x \in cs[l].disk : x.has \subseteq d2.has
        BY <1>0, <2>1 DEF OwnCopy, Body
      <4> QED
        BY <2>3, <3>1, <4>1 DEF OwnCopy, Body
    <3>2. CASE k # l
      <4>1. ds[k] = cs[k] /\ OwnCopy(t, l, d, cs, cuts, k) /\ ~cs[k].live
        BY <1>0, <2>2, <2>6, <3>2
      <4>2. cs[k].awaits # 0 => cs[k].awaits \in Copies /\ cs[cs[k].awaits].by = {t} /\ cs[cs[k].awaits].unsaved
        BY <1>0, <2>6, <4>1
      <4>3. cs[k].awaits # 0 /\ cs[k].awaits # l => ds[cs[k].awaits] = cs[cs[k].awaits] /\ ~cs[cs[k].awaits].live
        BY <1>0, <2>2, <4>2
      <4>4. Text(d) \subseteq Text(d2) \cup cuts
        BY <1>1, TextGrows
      <4>5. cs[k].awaits # 0 => /\ ds[cs[k].awaits].by = {t} /\ ds[cs[k].awaits].unsaved
                                /\ Text(Body(d, cs[cs[k].awaits])) \subseteq Text(Body(d2, ds[cs[k].awaits])) \cup cuts
        BY <2>1, <2>3, <4>2, <4>3, <4>4 DEF Body
      <4> QED
        BY <1>1, <2>2, <4>1, <4>5, OwnCopyKept
    <3> QED
      BY <3>1, <3>2
  <2>7. Own(t, l, d2, ds, cuts)
    BY <2>3, <2>6 DEF Own
  <2>8. Good(t, l, d2, ds, cuts)
    BY <1>1, <2>2, <2>4, <2>5, <2>7, GoodMade
  <2> QED
    BY <1>4, <2>4, <2>8 DEF ds
<1> QED
  BY <1>2, <1>3, <1>4

\* What is said of the end of copies that follow no document, and what they wait for.
SameBody(k, x) ==
  x.by = k.by /\ x.live = k.live /\ x.mem = k.mem /\ x.disk = k.disk /\ x.unsaved = k.unsaved /\ x.stored = k.stored
LEMMA MarkGood ==
  ASSUME NEW cuts, NEW t \in Tabs, NEW l, NEW d, NEW cs, Good(t, l, d, cs, cuts), NEW ds \in [Copies -> CopyRec(cuts)],
         \A k \in Copies : SameBody(cs[k], ds[k]),
         \A k \in Copies : ds[k] # cs[k] =>
           /\ cs[k].by = {t} /\ ~cs[k].live /\ (ds[k].end # "none" => ds[k].awaits = 0)
           /\ ds[k].awaits # 0 => /\ ds[k].awaits # k /\ cs[ds[k].awaits].by = {t} /\ cs[ds[k].awaits].unsaved
                                  /\ Text(cs[k].mem) \subseteq Text(Body(d, cs[ds[k].awaits])) \cup cuts
  PROVE  Good(t, l, d, ds, cuts) /\ Touches(t, cs, ds)
<1>1. d \in Docs(cuts) /\ cs \in [Copies -> CopyRec(cuts)] /\ Loose(cs) /\ Backed(cs, cuts) /\ l \in Copies \cup {0}
      /\ Own(t, l, d, cs, cuts)
  BY GoodTypes
<1>2. \A k \in Copies : Body(d, ds[k]) = Body(d, cs[k])
  BY DEF SameBody, Body
<1>3. Touches(t, cs, ds)
  BY DEF Touches, SameBody
<1>4. Loose(ds)
  <2>1. \A k \in Copies : ds[k].by = {} => ds[k] = cs[k]
    BY DEF SameBody
  <2> QED
    BY <1>1, <2>1 DEF Loose
<1>5. ASSUME NEW k \in Copies, ds[k].by = {t} PROVE OwnCopy(t, l, d, ds, cuts, k)
  <2>1. SameBody(cs[k], ds[k]) /\ OwnCopy(t, l, d, cs, cuts, k)
    BY <1>5, GoodCopy DEF SameBody
  <2>2. CASE ds[k] = cs[k]
    <3>1. cs[k].awaits # 0 => cs[k].awaits \in Copies \ {k} /\ cs[cs[k].awaits].by = {t} /\ cs[cs[k].awaits].unsaved
      <4>1. cs[k].by = {t}
        BY <1>5, <2>2
      <4>2. cs[k].awaits \in Copies \cup {0}
        BY <1>1, CopyFields
      <4> QED
        BY <2>1, <4>1, <4>2 DEF OwnCopy
    <3>2. cs[k].awaits # 0 => SameBody(cs[cs[k].awaits], ds[cs[k].awaits])
      BY <3>1
    <3>3. cs[k].live => l = k
      BY <2>1 DEF OwnCopy
    <3>4. cs[k].awaits # 0 => Body(d, ds[cs[k].awaits]) = Body(d, cs[cs[k].awaits])
      BY <1>2, <3>1
    <3>5. cs[k].awaits # 0 => ds[cs[k].awaits].by = {t} /\ ds[cs[k].awaits].unsaved
      BY <3>1, <3>2 DEF SameBody
    <3> QED
      BY <1>1, <2>1, <2>2, <3>3, <3>4, <3>5, OwnCopyKept
  <2>3. CASE ds[k] # cs[k]
    <3>1. ds[k].awaits # 0 => ds[k].awaits \in Copies
      BY CopyFields
    <3>2. ds[k].awaits # 0 => SameBody(cs[ds[k].awaits], ds[ds[k].awaits]) /\ Body(d, ds[ds[k].awaits]) = Body(d, cs[ds[k].awaits])
      BY <1>2, <3>1
    <3>3. /\ ~ds[k].live /\ (ds[k].end # "none" => ds[k].awaits = 0)
          /\ ds[k].awaits # 0 => /\ ds[k].awaits # k /\ ds[ds[k].awaits].by = {t} /\ ds[ds[k].awaits].unsaved
                                 /\ Text(ds[k].mem) \subseteq Text(Body(d, ds[ds[k].awaits])) \cup cuts
      BY <2>1, <2>3, <3>2 DEF SameBody
    <3>4. /\ \A x \in ds[k].disk : x.has \subseteq Body(d, ds[k]).has
          /\ ~ds[k].unsaved /\ ds[k].stored => ds[k].disk = {Body(d, ds[k])}
      BY <1>2, <2>1 DEF SameBody, OwnCopy
    <3> QED
      BY <3>3, <3>4 DEF OwnCopy
  <2> QED
    BY <2>2, <2>3
<1>6. Own(t, l, d, ds, cuts)
  BY <1>1, <1>5 DEF Own, SameBody
<1>7. Good(t, l, d, ds, cuts)
  BY <1>1, <1>3, <1>4, <1>6, GoodMade
<1> QED
  BY <1>3, <1>7

\* The live copy stops following the document.
LEMMA DetachGood ==
  ASSUME NEW cuts, NEW t \in Tabs, NEW l \in Copies, NEW d, NEW cs, Good(t, l, d, cs, cuts), NEW d2 \in Docs(cuts),
         NEW how \in {"none", "close", "release"}
  PROVE  LET ds == [cs EXCEPT ![l] = [@ EXCEPT !.mem = d, !.live = FALSE, !.end = how]]
         IN Good(t, 0, d2, ds, cuts) /\ Touches(t, cs, ds)
<1> DEFINE ds == [cs EXCEPT ![l] = [@ EXCEPT !.mem = d, !.live = FALSE, !.end = how]]
<1>1. d \in Docs(cuts) /\ cs \in [Copies -> CopyRec(cuts)] /\ Loose(cs) /\ Backed(cs, cuts) /\ Own(t, l, d, cs, cuts)
  BY GoodTypes
<1>2. cs[l].by = {t} /\ cs[l].live /\ cs[l].end = "none" /\ cs[l].awaits = 0
  BY GoodLive
<1>3. /\ ds \in [Copies -> CopyRec(cuts)] /\ \A k \in Copies : k # l => ds[k] = cs[k]
      /\ ds[l] = [cs[l] EXCEPT !.mem = d, !.live = FALSE, !.end = how]
  BY <1>1, CopyMade
<1>4. /\ ds[l].by = {t} /\ ~ds[l].live /\ ds[l].mem = d /\ ds[l].awaits = 0 /\ ds[l].disk = cs[l].disk
      /\ ds[l].unsaved = cs[l].unsaved /\ ds[l].stored = cs[l].stored
  <2>1. cs[l] \in CopyRec(cuts)
    BY <1>1
  <2> QED
    BY <1>2, <1>3, <2>1 DEF CopyRec
<1> HIDE DEF ds
<1>5. Touches(t, cs, ds)
  BY <1>2, <1>3, <1>4 DEF Touches
<1>6. Loose(ds)
  BY <1>1, <1>3, <1>4 DEF Loose
<1>7. ASSUME NEW k \in Copies, ds[k].by = {t} PROVE OwnCopy(t, 0, d2, ds, cuts, k)
  <2>1. CASE k = l
    <3>1. OwnCopy(t, l, d, cs, cuts, l) /\ Body(d, cs[l]) = d /\ Body(d2, ds[l]) = d
      BY <1>2, <1>4, GoodCopy DEF Body
    <3>2. /\ \A x \in ds[l].disk : x.has \subseteq Body(d2, ds[l]).has
          /\ ~ds[l].unsaved /\ ds[l].stored => ds[l].disk = {Body(d2, ds[l])}
      BY <1>4, <3>1 DEF OwnCopy
    <3> QED
      BY <1>4, <2>1, <3>2 DEF OwnCopy
  <2>2. CASE k # l
    <3>1. ds[k] = cs[k] /\ OwnCopy(t, l, d, cs, cuts, k) /\ ~cs[k].live
      BY <1>3, <1>7, <2>2, GoodCopy
    <3>2. cs[k].awaits # 0 => cs[k].awaits \in Copies \ {k} /\ cs[cs[k].awaits].by = {t} /\ cs[cs[k].awaits].unsaved
      BY <1>7, <3>1, GoodCopy
    <3>3. cs[k].awaits # 0 /\ cs[k].awaits # l => ds[cs[k].awaits] = cs[cs[k].awaits] /\ ~cs[cs[k].awaits].live
      BY <1>3, <3>2, GoodCopy
    <3>4. cs[k].awaits # 0 => /\ ds[cs[k].awaits].by = {t} /\ ds[cs[k].awaits].unsaved
                              /\ Body(d2, ds[cs[k].awaits]) = Body(d, cs[cs[k].awaits])
      BY <1>2, <1>4, <3>2, <3>3 DEF Body
    <3> QED
      BY <1>1, <1>3, <3>1, <3>4, OwnCopyKept
  <2> QED
    BY <2>1, <2>2
<1>8. Own(t, 0, d2, ds, cuts)
  BY <1>7 DEF Own
<1>9. Good(t, 0, d2, ds, cuts)
  BY <1>1, <1>3, <1>5, <1>6, <1>8, GoodMade
<1> QED
  BY <1>5, <1>9 DEF ds

\* A person types into a copy that was found.
LEMMA TypeGood ==
  ASSUME NEW cuts, NEW t \in Tabs, NEW l, NEW d, NEW cs, Good(t, l, d, cs, cuts), NEW c \in Copies, Hand(cs, t, {c}),
         NEW x \in Docs(cuts), cs[c].mem.has \subseteq x.has
  PROVE  LET ds == [cs EXCEPT ![c] = [@ EXCEPT !.mem = x, !.unsaved = TRUE]]
         IN Good(t, l, d, ds, cuts) /\ Touches(t, cs, ds)
<1> DEFINE ds == [cs EXCEPT ![c] = [@ EXCEPT !.mem = x, !.unsaved = TRUE]]
<1>1. d \in Docs(cuts) /\ cs \in [Copies -> CopyRec(cuts)] /\ Loose(cs) /\ Backed(cs, cuts) /\ Own(t, l, d, cs, cuts)
      /\ l \in Copies \cup {0}
  BY GoodTypes
<1>2. cs[c].by = {t} /\ ~cs[c].live /\ cs[c].end = "none" /\ cs[c].awaits = 0 /\ cs[c].mem \in Docs(cuts)
  BY <1>1, CopyFields DEF Hand
<1>3. /\ ds \in [Copies -> CopyRec(cuts)] /\ \A k \in Copies : k # c => ds[k] = cs[k]
      /\ ds[c] = [cs[c] EXCEPT !.mem = x, !.unsaved = TRUE]
  BY <1>1, CopyMade
<1>4. ds[c].by = {t} /\ ~ds[c].live /\ ds[c].mem = x /\ ds[c].awaits = 0 /\ ds[c].disk = cs[c].disk /\ ds[c].unsaved
  <2>1. cs[c] \in CopyRec(cuts)
    BY <1>1
  <2> QED
    BY <1>2, <1>3, <2>1 DEF CopyRec
<1> HIDE DEF ds
<1>5. Touches(t, cs, ds)
  BY <1>2, <1>3, <1>4 DEF Touches
<1>6. Loose(ds)
  BY <1>1, <1>3, <1>4 DEF Loose
<1>7. ASSUME NEW k \in Copies, ds[k].by = {t} PROVE OwnCopy(t, l, d, ds, cuts, k)
  <2>1. CASE k = c
    <3>1. OwnCopy(t, l, d, cs, cuts, c) /\ Body(d, cs[c]) = cs[c].mem /\ Body(d, ds[c]) = x
      BY <1>2, <1>4, GoodCopy DEF Body
    <3>2. \A y \in ds[c].disk : y.has \subseteq Body(d, ds[c]).has
      BY <1>4, <3>1 DEF OwnCopy
    <3> QED
      BY <1>4, <2>1, <3>2 DEF OwnCopy
  <2>2. CASE k # c
    <3>1. ds[k] = cs[k] /\ OwnCopy(t, l, d, cs, cuts, k) /\ (cs[k].live => l = k)
      BY <1>3, <1>7, <2>2, GoodCopy
    <3>2. cs[k].awaits # 0 => cs[k].awaits \in Copies \ {k} /\ cs[cs[k].awaits].by = {t} /\ cs[cs[k].awaits].unsaved
      BY <1>7, <3>1, GoodCopy
    <3>3. cs[k].awaits # 0 /\ cs[k].awaits # c => ds[cs[k].awaits] = cs[cs[k].awaits]
      BY <1>3, <3>2
    <3>4. Text(cs[c].mem) \subseteq Text(x) \cup cuts
      BY <1>2, TextGrows
    <3>5. cs[k].awaits # 0 => /\ ds[cs[k].awaits].by = {t} /\ ds[cs[k].awaits].unsaved
                              /\ Text(Body(d, cs[cs[k].awaits])) \subseteq Text(Body(d, ds[cs[k].awaits])) \cup cuts
      BY <1>2, <1>4, <3>2, <3>3, <3>4 DEF Body
    <3> QED
      BY <1>1, <1>3, <3>1, <3>5, OwnCopyKept
  <2> QED
    BY <2>1, <2>2
<1>8. Own(t, l, d, ds, cuts)
  <2>1. ASSUME l # 0 PROVE l # c /\ cs[l].by = {t} /\ cs[l].live /\ l \in Copies
    <3>1. l \in Copies
      BY <1>1, <2>1
    <3> QED
      BY <1>2, <3>1, GoodLive
  <2> QED
    BY <1>3, <1>7, <2>1 DEF Own
<1>9. Good(t, l, d, ds, cuts)
  BY <1>1, <1>3, <1>5, <1>6, <1>8, GoodMade
<1> QED
  BY <1>5, <1>9 DEF ds

\* Copies left by tabs that are gone are read under their locks.
ClaimedCopy(t, k) ==
  LET d == CHOOSE d \in k.disk : TRUE IN [k EXCEPT !.by = {t}, !.mem = d, !.end = IF d.has = {} THEN "release" ELSE "none"]
LEMMA ClaimedIs ==
  ASSUME NEW cuts, NEW t \in Tabs, NEW k \in CopyRec(cuts), k = [NoCopy EXCEPT !.disk = k.disk], k.disk # {}
  PROVE  LET x == ClaimedCopy(t, k)
         IN /\ x \in CopyRec(cuts) /\ x.by = {t} /\ ~x.live /\ x.disk = k.disk /\ x.disk = {x.mem} /\ ~x.unsaved /\ x.stored
            /\ x.awaits = 0 /\ x.end = IF x.mem.has = {} THEN "release" ELSE "none"
<1> DEFINE x == ClaimedCopy(t, k)
           d == CHOOSE d \in k.disk : TRUE
           how == IF d.has = {} THEN "release" ELSE "none"
<1>1. d \in Docs(cuts) /\ k.disk = {d}
  BY CopyFields
<1>2. ~k.live /\ ~k.unsaved /\ k.stored /\ k.awaits = 0
  <2>1. k.disk = {} \/ \E y \in Docs(cuts) : k.disk = {y}
    BY CopyFields
  <2>2. LET y == [NoCopy EXCEPT !.disk = k.disk] IN ~y.live /\ ~y.unsaved /\ y.stored /\ y.awaits = 0
    BY <2>1, NoCopyFields DEF CopyRec
  <2> QED
    BY <2>2
<1>3. x = [k EXCEPT !.by = {t}, !.mem = d, !.end = how] /\ how \in {"none", "close", "release"}
  BY DEF ClaimedCopy
<1> HIDE DEF x, how, d
<1>4. x \in CopyRec(cuts)
  BY <1>1, <1>3, CopyMade
<1>5. x.by = {t} /\ x.live = k.live /\ x.disk = k.disk /\ x.mem = d /\ x.unsaved = k.unsaved /\ x.stored = k.stored
      /\ x.awaits = k.awaits /\ x.end = how
  BY <1>3 DEF CopyRec
<1>6. x.end = IF x.mem.has = {} THEN "release" ELSE "none"
  BY <1>5 DEF how
<1> QED
  BY <1>1, <1>2, <1>4, <1>5, <1>6 DEF x

LEMMA ClaimGood ==
  ASSUME NEW cuts, NEW t \in Tabs, NEW l, NEW d, NEW cs, Good(t, l, d, cs, cuts), NEW S \in SUBSET Copies,
         \A c \in S : cs[c].by = {} /\ cs[c].disk # {}, NEW ds,
         ds = [c \in Copies |-> IF c \notin S THEN cs[c] ELSE ClaimedCopy(t, cs[c])]
  PROVE  Good(t, l, d, ds, cuts) /\ Touches(t, cs, ds)
<1>1. d \in Docs(cuts) /\ cs \in [Copies -> CopyRec(cuts)] /\ Loose(cs) /\ Backed(cs, cuts) /\ Own(t, l, d, cs, cuts)
      /\ l \in Copies \cup {0}
  BY GoodTypes
<1>2. \A c \in Copies : ds[c] = IF c \notin S THEN cs[c] ELSE ClaimedCopy(t, cs[c])
  OBVIOUS
<1>3. ASSUME NEW c \in S
      PROVE  /\ ds[c] \in CopyRec(cuts) /\ ds[c].by = {t} /\ ~ds[c].live /\ ds[c].disk = {ds[c].mem} /\ ds[c].awaits = 0
             /\ ~ds[c].unsaved /\ ds[c].stored
  <2>1. cs[c] \in CopyRec(cuts) /\ cs[c] = [NoCopy EXCEPT !.disk = cs[c].disk] /\ cs[c].disk # {} /\ ds[c] = ClaimedCopy(t, cs[c])
    BY <1>1, <1>2 DEF Loose
  <2> HIDE <1>2
  <2> QED
    BY <2>1, ClaimedIs
<1>4. ds \in [Copies -> CopyRec(cuts)]
  BY <1>1, <1>2, <1>3
<1>5. Touches(t, cs, ds)
  BY <1>2, <1>3 DEF Touches
<1>6. Loose(ds)
  <2>1. \A c \in Copies : ds[c].by = {} => ds[c] = cs[c]
    BY <1>2, <1>3
  <2> QED
    BY <1>1, <2>1 DEF Loose
<1>7. ASSUME NEW k \in Copies, ds[k].by = {t} PROVE OwnCopy(t, l, d, ds, cuts, k)
  <2>1. CASE k \in S
    <3>1. Body(d, ds[k]) = ds[k].mem
      BY <1>3, <2>1 DEF Body
    <3>2. ds[k].end # "none" => ds[k].awaits = 0
      BY <1>3, <2>1
    <3> QED
      BY <1>3, <2>1, <3>1, <3>2 DEF OwnCopy
  <2>2. CASE k \notin S
    <3>0. ds[k] = cs[k] /\ cs[k].by = {t}
      BY <1>2, <1>7, <2>2
    <3>1. OwnCopy(t, l, d, cs, cuts, k) /\ (cs[k].live => l = k)
      BY <3>0, GoodCopy
    <3>2. cs[k].awaits # 0 => cs[k].awaits \in Copies \ {k} /\ cs[cs[k].awaits].by = {t} /\ cs[cs[k].awaits].unsaved
      BY <3>0, GoodCopy
    <3>3. cs[k].awaits # 0 => ds[cs[k].awaits] = cs[cs[k].awaits]
      BY <1>2, <3>2
    <3> QED
      BY <1>1, <1>4, <3>0, <3>1, <3>2, <3>3, OwnCopyKept
  <2> QED
    BY <2>1, <2>2
<1>8. Own(t, l, d, ds, cuts)
  <2>1. ASSUME l # 0 PROVE l \notin S /\ cs[l].by = {t} /\ cs[l].live /\ l \in Copies
    <3>1. l \in Copies
      BY <1>1, <2>1
    <3>2. cs[l].by = {t} /\ cs[l].live
      BY <3>1, GoodLive
    <3> QED
      BY <3>1, <3>2
  <2> QED
    BY <1>2, <1>7, <2>1 DEF Own
<1>9. Good(t, l, d, ds, cuts)
  BY <1>1, <1>4, <1>5, <1>6, <1>8, GoodMade
<1> QED
  BY <1>5, <1>9

\* A copy's queued write ran: it is stored, or it failed; what waited for it ends.
Flushed(cs, ds, d, c, ok) ==
  /\ ds[c] = [cs[c] EXCEPT !.disk = IF ok THEN {Body(d, cs[c])} ELSE cs[c].disk, !.unsaved = FALSE, !.stored = ok]
  /\ \A k \in Copies : k # c /\ cs[k].awaits = c => ds[k] = [cs[k] EXCEPT !.awaits = 0, !.end = AfterFlush(ok)]
  /\ \A k \in Copies : k # c /\ cs[k].awaits # c => ds[k] = cs[k]
LEMMA WriteGood ==
  ASSUME NEW cuts, NEW t \in Tabs, NEW l, NEW d, NEW cs, Good(t, l, d, cs, cuts), NEW c \in Copies, cs[c].by = {t},
         cs[c].unsaved, NEW ok \in BOOLEAN, NEW ds \in [Copies -> CopyRec(cuts)],
         Flushed(cs, ds, d, c, ok)
  PROVE  Good(t, l, d, ds, cuts) /\ Touches(t, cs, ds)
<1>w. /\ ds[c] = [cs[c] EXCEPT !.disk = IF ok THEN {Body(d, cs[c])} ELSE cs[c].disk, !.unsaved = FALSE, !.stored = ok]
      /\ \A k \in Copies : k # c /\ cs[k].awaits = c => ds[k] = [cs[k] EXCEPT !.awaits = 0, !.end = AfterFlush(ok)]
      /\ \A k \in Copies : k # c /\ cs[k].awaits # c => ds[k] = cs[k]
  BY DEF Flushed
<1>1. d \in Docs(cuts) /\ cs \in [Copies -> CopyRec(cuts)] /\ Loose(cs) /\ Backed(cs, cuts) /\ Own(t, l, d, cs, cuts)
      /\ l \in Copies \cup {0}
  BY GoodTypes
<1>2. cs[c] \in CopyRec(cuts) /\ OwnCopy(t, l, d, cs, cuts, c)
  BY <1>1, GoodCopy
<1>3. /\ ds[c].by = {t} /\ ds[c].live = cs[c].live /\ ds[c].mem = cs[c].mem /\ ds[c].end = cs[c].end
      /\ ds[c].awaits = cs[c].awaits /\ ~ds[c].unsaved /\ ds[c].stored = ok
      /\ ds[c].disk = IF ok THEN {Body(d, cs[c])} ELSE cs[c].disk
  BY <1>w, <1>2 DEF CopyRec
<1>4. ASSUME NEW k \in Copies, k # c, cs[k].awaits = c
      PROVE  /\ cs[k].by = {t} /\ ds[k].by = {t} /\ ~cs[k].live /\ ~ds[k].live /\ ds[k].mem = cs[k].mem /\ ds[k].awaits = 0
             /\ ds[k].disk = cs[k].disk /\ ds[k].unsaved = cs[k].unsaved /\ ds[k].stored = cs[k].stored
  <2>1. cs[k] \in CopyRec(cuts) /\ c # 0
    BY <1>1, NoCopyZero
  <2>2. cs[k].by # {}
    BY <1>1, <1>4, <2>1, LooseFields
  <2>3. cs[k].by = {t} /\ ~cs[k].live
    BY <1>1, <1>4, <2>1, <2>2 DEF Backed
  <2>5. ds[k] = [cs[k] EXCEPT !.awaits = 0, !.end = AfterFlush(ok)]
    BY <1>w, <1>4
  <2>4. /\ ds[k].by = cs[k].by /\ ds[k].live = cs[k].live /\ ds[k].mem = cs[k].mem /\ ds[k].awaits = 0
        /\ ds[k].disk = cs[k].disk /\ ds[k].unsaved = cs[k].unsaved /\ ds[k].stored = cs[k].stored
    BY <2>1, <2>5 DEF CopyRec
  <2> QED
    BY <2>3, <2>4
<1>5. Touches(t, cs, ds)
  BY <1>w, <1>3, <1>4 DEF Touches
<1>6. Loose(ds)
  <2>1. \A k \in Copies : ds[k].by = {} => ds[k] = cs[k]
    BY <1>w, <1>3, <1>4
  <2> QED
    BY <1>1, <2>1 DEF Loose
<1>7. \A k \in Copies : cs[k].by = {t} => Body(d, ds[k]) = Body(d, cs[k]) /\ ds[k].by = {t}
  BY <1>w, <1>3, <1>4 DEF Body
<1>8. ASSUME NEW k \in Copies, ds[k].by = {t} PROVE OwnCopy(t, l, d, ds, cuts, k)
  <2>0. cs[k].by = {t}
    BY <1>w, <1>3, <1>4, <1>8
  <2>1. OwnCopy(t, l, d, cs, cuts, k)
    BY <2>0, GoodCopy
  <2>2. cs[k].awaits # 0 => cs[k].awaits \in Copies \ {k} /\ cs[cs[k].awaits].by = {t} /\ cs[cs[k].awaits].unsaved
    BY <2>0, GoodCopy
  <2>3. cs[k].awaits # 0 /\ cs[k].awaits # c =>
          /\ ds[cs[k].awaits].by = {t} /\ ds[cs[k].awaits].unsaved
          /\ Body(d, ds[cs[k].awaits]) = Body(d, cs[cs[k].awaits])
    BY <1>w, <1>4, <1>7, <2>2
  <2>4. CASE k = c
    <3>1. Body(d, ds[c]) = Body(d, cs[c])
      BY <1>7
    <3>2. /\ \A x \in ds[c].disk : x.has \subseteq Body(d, ds[c]).has
          /\ ~ds[c].unsaved /\ ds[c].stored => ds[c].disk = {Body(d, ds[c])}
      <4>1. \A x \in cs[c].disk : x.has \subseteq Body(d, cs[c]).has
        BY <1>2 DEF OwnCopy
      <4>2. CASE ok
        <5>1. ds[c].disk = {Body(d, ds[c])}
          BY <1>3, <3>1, <4>2
        <5> QED
          BY <5>1
      <4>3. CASE ~ok
        BY <1>3, <3>1, <4>1, <4>3
      <4> QED
        BY <4>2, <4>3
    <3>3. ds[c].awaits # 0 => /\ ds[c].awaits # c /\ ds[ds[c].awaits].by = {t} /\ ds[ds[c].awaits].unsaved
                              /\ Text(ds[c].mem) \subseteq Text(Body(d, ds[ds[c].awaits])) \cup cuts
      BY <1>3, <2>1, <2>2, <2>3, <2>4 DEF OwnCopy
    <3>4. /\ ds[c].live => l = c /\ ds[c].end = "none" /\ ds[c].awaits = 0
          /\ ds[c].end # "none" => ds[c].awaits = 0
      BY <1>2, <1>3 DEF OwnCopy
    <3> QED
      BY <2>4, <3>2, <3>3, <3>4 DEF OwnCopy
  <2>5. CASE k # c /\ cs[k].awaits = c
    <3>1. Body(d, ds[k]) = Body(d, cs[k])
      BY <1>7, <2>0
    <3>2. /\ \A x \in ds[k].disk : x.has \subseteq Body(d, ds[k]).has
          /\ ~ds[k].unsaved /\ ds[k].stored => ds[k].disk = {Body(d, ds[k])}
      BY <1>4, <2>1, <2>5, <3>1 DEF OwnCopy
    <3> QED
      BY <1>4, <2>5, <3>2 DEF OwnCopy
  <2>6. CASE k # c /\ cs[k].awaits # c
    <3>1. ds[k] = cs[k] /\ (cs[k].live => l = k)
      BY <1>w, <2>1, <2>6 DEF OwnCopy
    <3> QED
      BY <1>1, <2>1, <2>2, <2>3, <2>6, <3>1, OwnCopyKept
  <2> QED
    BY <2>4, <2>5, <2>6
<1>9. Own(t, l, d, ds, cuts)
  <2>1. ASSUME l # 0 PROVE ds[l].by = {t} /\ ds[l].live
    <3>1. l \in Copies
      BY <1>1, <2>1
    <3>2. cs[l].by = {t} /\ cs[l].live
      BY <3>1, GoodLive
    <3> QED
      BY <1>w, <1>3, <1>4, <3>1, <3>2
  <2> QED
    BY <1>8, <2>1 DEF Own
<1>10. Good(t, l, d, ds, cuts)
  BY <1>1, <1>5, <1>6, <1>9, GoodMade
<1> QED
  BY <1>5, <1>10

\* Copies of the tab that go, leaving what is on disk of them; nothing that stays waits for them.
Leaves(t, l, d, l2, d2, cs, ds, S) ==
  /\ \A c \in S : cs[c].by = {t}
  /\ \A c \in Copies \ S : cs[c].by = {t} => (cs[c].awaits = 0 \/ cs[c].awaits \notin S) /\ l2 = l /\ d2 = d
  /\ l2 \in Copies => l2 = l /\ l \notin S
  /\ \A c \in S : ds[c] = [NoCopy EXCEPT !.disk = ds[c].disk]
  /\ \A c \in Copies \ S : ds[c] = cs[c]
LEMMA GoneGood ==
  ASSUME NEW cuts, NEW t \in Tabs, NEW l, NEW d, NEW cs, Good(t, l, d, cs, cuts), NEW S \in SUBSET Copies,
         NEW l2 \in Copies \cup {0}, NEW d2 \in Docs(cuts), NEW ds \in [Copies -> CopyRec(cuts)],
         Leaves(t, l, d, l2, d2, cs, ds, S)
  PROVE  Good(t, l2, d2, ds, cuts) /\ Touches(t, cs, ds)
<1> USE DEF Leaves
<1>1. d \in Docs(cuts) /\ cs \in [Copies -> CopyRec(cuts)] /\ Loose(cs) /\ Backed(cs, cuts) /\ Own(t, l, d, cs, cuts)
      /\ l \in Copies \cup {0}
  BY GoodTypes
<1>2. ASSUME NEW c \in S PROVE ds[c].by = {}
  <2>1. ds[c].disk = {} \/ \E y \in Docs(cuts) : ds[c].disk = {y}
    BY CopyFields
  <2>2. [NoCopy EXCEPT !.disk = ds[c].disk].by = {}
    BY <2>1, NoCopyFields DEF CopyRec
  <2> QED
    BY <2>2
<1>3. Touches(t, cs, ds)
  BY <1>2 DEF Touches
<1>4. Loose(ds)
  BY <1>1 DEF Loose
<1>5. ASSUME NEW k \in Copies, ds[k].by = {t} PROVE OwnCopy(t, l2, d2, ds, cuts, k)
  <2>1. k \notin S /\ ds[k] = cs[k] /\ cs[k].by = {t}
    BY <1>2, <1>5
  <2>0. OwnCopy(t, l, d, cs, cuts, k) /\ (cs[k].live => l = k)
    <3>1. OwnCopy(t, l, d, cs, cuts, k)
      BY <1>1, <2>1 DEF Own
    <3> QED
      BY <3>1 DEF OwnCopy
  <2>2. (cs[k].live => l2 = k) /\ l2 = l /\ d2 = d
    BY <2>0, <2>1
  <2>3. cs[k].awaits # 0 => cs[k].awaits \in Copies \ {k} /\ cs[cs[k].awaits].by = {t} /\ cs[cs[k].awaits].unsaved
    BY <2>1, GoodCopy
  <2>4. cs[k].awaits # 0 => ds[cs[k].awaits] = cs[cs[k].awaits]
    BY <2>1, <2>3
  <2> QED
    BY <1>1, <2>0, <2>1, <2>2, <2>3, <2>4, OwnCopyKept
<1>6. Own(t, l2, d2, ds, cuts)
  <2>1. ASSUME l2 # 0 PROVE ds[l2].by = {t} /\ ds[l2].live
    <3>1. l \in Copies /\ l # 0
      BY <1>1, <2>1
    <3>2. cs[l].by = {t} /\ cs[l].live
      BY <1>1, <3>1 DEF Own
    <3> QED
      BY <2>1, <3>1, <3>2
  <2> QED
    BY <1>5, <2>1 DEF Own
<1>7. Good(t, l2, d2, ds, cuts)
  BY <1>1, <1>3, <1>4, <1>6, GoodMade
<1> QED
  BY <1>3, <1>7
-----------------------------------------------------------------------------
(***************************************************************************)
(* What is sure to stay stored.  A copy is doomed when it is released, or  *)
(* waits for one that is: whatever is written next, its records go.  Text  *)
(* is covered if it is in R (on the relay, or given up), or on disk of a   *)
(* copy that is not doomed; and so is all that doomed copies hold.         *)
(***************************************************************************)
Closes(cs, Z) == \A k \in Z : cs[k].end = "release" \/ cs[k].awaits \in Z
Doomed(cs) == {k \in Copies : \E Z \in SUBSET Copies : k \in Z /\ Closes(cs, Z)}
Cover(cs, R) == R \cup UNION {Text(d) : d \in UNION {cs[k].disk : k \in Copies \ Doomed(cs)}}
DoomedOK(cs, R) == \A k \in Doomed(cs) : Text(cs[k].mem) \subseteq Cover(cs, R)

LEMMA InCover ==
  ASSUME NEW cs, NEW R, NEW e
  PROVE  e \in Cover(cs, R) <=> (e \in R \/ \E k \in Copies \ Doomed(cs) : \E d \in cs[k].disk : e \in Text(d))
BY DEF Cover

LEMMA DoomedCloses ==
  ASSUME NEW cs, NEW k \in Doomed(cs)
  PROVE  k \in Copies /\ (cs[k].end = "release" \/ cs[k].awaits \in Doomed(cs))
<1>1. PICK Z \in SUBSET Copies : k \in Z /\ Closes(cs, Z)
  BY DEF Doomed
<1>2. Z \subseteq Doomed(cs)
  BY <1>1 DEF Doomed
<1> QED
  BY <1>1, <1>2 DEF Closes, Doomed

LEMMA DoomedIs ==
  ASSUME NEW cuts, NEW cs \in [Copies -> CopyRec(cuts)], Loose(cs), Backed(cs, cuts), NEW k \in Doomed(cs)
  PROVE  k \in Copies /\ cs[k].by # {} /\ ~cs[k].live
<1>1. k \in Copies /\ (cs[k].end = "release" \/ cs[k].awaits \in Copies)
  BY DoomedCloses DEF Doomed
<1>2. cs[k].by # {}
  BY <1>1, LooseFields, NoCopyZero
<1>3. ~cs[k].live
  BY <1>1, <1>2, NoCopyZero DEF Backed
<1> QED
  BY <1>1, <1>2, <1>3

\* What a copy that is not doomed has on disk is covered.
LEMMA StaysCovered ==
  ASSUME NEW cs, NEW R, NEW k \in Copies, k \notin Doomed(cs), NEW d \in cs[k].disk
  PROVE  Text(d) \subseteq Cover(cs, R)
BY InCover

\* A step loses nothing of the cover if what it does not doom keeps its text, and what it dooms is covered otherwise.
Holds(cs, R, k, e) == e \in R \/ \E d \in cs[k].disk : e \in Text(d)
Alive(cs, o) == cs[o].end # "release" /\ cs[o].awaits \notin Copies
Stays(cs, ds, S) == \A k \in Copies \ Doomed(cs) : \A x \in cs[k].disk : \A e \in Text(x) : Holds(ds, S, k, e)
Releases(cs, ds, S) ==
  \A k \in Copies : ds[k].end = "release" =>
    \/ Text(ds[k].mem) \subseteq S
    \/ cs[k].end = "release" /\ cs[k].mem = ds[k].mem
    \/ \E o \in Copies : /\ \A e \in Text(ds[k].mem) : Holds(ds, S, o, e)
                         /\ \/ Alive(ds, o)
                            \/ cs[k].awaits = o /\ cs[k].mem = ds[k].mem /\ (~ds[o].live => ds[o].disk = {ds[o].mem})
Waits(cs, ds) ==
  \A k \in Copies : ds[k].awaits \in Copies => (cs[k].awaits = ds[k].awaits /\ cs[k].mem = ds[k].mem) \/ Alive(ds, ds[k].awaits)
LEMMA CoverStep ==
  ASSUME NEW cuts, NEW cs, NEW ds \in [Copies -> CopyRec(cuts)], Loose(ds), Backed(ds, cuts),
         NEW R, NEW S, R \subseteq S, cuts \subseteq S, DoomedOK(cs, R),
         Stays(cs, ds, S), Releases(cs, ds, S), Waits(cs, ds)
  PROVE  Cover(cs, R) \subseteq Cover(ds, S) /\ DoomedOK(ds, S)
<1> DEFINE Bad == {k \in Doomed(ds) : ~(Text(ds[k].mem) \subseteq Cover(ds, S))}
<1>1. \A o \in Copies : Alive(ds, o) => o \notin Doomed(ds)
  <2>1. ASSUME NEW o \in Doomed(ds), Alive(ds, o) PROVE FALSE
    BY <2>1, DoomedCloses DEF Alive
  <2> QED
    BY <2>1
<1>2. \A o \in Copies \ Doomed(ds) : \A e : Holds(ds, S, o, e) => e \in Cover(ds, S)
  BY InCover DEF Holds
<1>3. ASSUME NEW k \in Bad
      PROVE  k \in Copies /\ cs[k].mem = ds[k].mem /\ (cs[k].end = "release" \/ cs[k].awaits \in Bad)
  <2>1. k \in Copies /\ k \in Doomed(ds) /\ ds[k].by # {} /\ ~ds[k].live
    BY DoomedIs
  <2>2. PICK e \in Text(ds[k].mem) : e \notin Cover(ds, S)
    OBVIOUS
  <2>3. S \subseteq Cover(ds, S)
    BY InCover
  <2>4. ASSUME NEW o \in Doomed(ds), Text(ds[k].mem) \subseteq Text(ds[o].mem) \cup S
        PROVE  o \in Bad
    BY <2>2, <2>3, <2>4
  <2>5. CASE ds[k].end = "release"
    <3>1. CASE cs[k].end = "release" /\ cs[k].mem = ds[k].mem
      BY <2>1, <3>1
    <3>2. CASE Text(ds[k].mem) \subseteq S
      BY <2>2, <2>3, <3>2
    <3>3. ASSUME NEW o \in Copies, \A x \in Text(ds[k].mem) : Holds(ds, S, o, x), Alive(ds, o) PROVE FALSE
      BY <1>1, <1>2, <2>2, <3>3
    <3>4. ASSUME NEW o \in Copies, \A x \in Text(ds[k].mem) : Holds(ds, S, o, x), ~ds[o].live => ds[o].disk = {ds[o].mem}
          PROVE  o \in Bad
      <4>1. o \in Doomed(ds)
        BY <1>2, <2>2, <3>4
      <4>2. ds[o].disk = {ds[o].mem}
        BY <3>4, <4>1, DoomedIs
      <4>3. Text(ds[k].mem) \subseteq Text(ds[o].mem) \cup S
        BY <3>4, <4>2 DEF Holds
      <4> QED
        BY <2>4, <4>1, <4>3
    <3> QED
      BY <2>1, <2>5, <3>1, <3>2, <3>3, <3>4 DEF Releases
  <2>6. CASE ds[k].awaits \in Doomed(ds)
    <3>1. ds[k].awaits \in Copies /\ ds[k].awaits # 0 /\ ~Alive(ds, ds[k].awaits) /\ ~ds[ds[k].awaits].live
      BY <1>1, <2>6, DoomedIs, NoCopyZero
    <3>2. cs[k].awaits = ds[k].awaits /\ cs[k].mem = ds[k].mem
      BY <2>1, <3>1 DEF Waits
    <3>3. Text(ds[k].mem) \subseteq Text(ds[ds[k].awaits].mem) \cup cuts
      BY <2>1, <3>1 DEF Backed
    <3>4. ds[k].awaits \in Bad
      BY <2>4, <2>6, <3>3
    <3> QED
      BY <2>1, <3>2, <3>4
  <2> QED
    BY <2>1, <2>5, <2>6, DoomedCloses
<1>4. Bad \subseteq Doomed(cs)
  <2>1. Bad \in SUBSET Copies /\ Closes(cs, Bad)
    BY <1>3 DEF Closes
  <2> QED
    BY <2>1 DEF Doomed
<1>5. Cover(cs, R) \subseteq Cover(ds, S)
  <2>1. SUFFICES ASSUME NEW e \in Cover(cs, R), e \notin R PROVE e \in Cover(ds, S)
    BY InCover
  <2>2. PICK k \in Copies \ Doomed(cs) : \E x \in cs[k].disk : e \in Text(x)
    BY <2>1, InCover
  <2>3. Holds(ds, S, k, e)
    BY <2>2 DEF Stays
  <2>4. CASE k \notin Doomed(ds)
    BY <1>2, <2>3, <2>4
  <2>5. CASE k \in Doomed(ds)
    <3>1. Text(ds[k].mem) \subseteq Cover(ds, S)
      BY <1>4, <2>2, <2>5
    <3>2. ds[k].by # {} /\ ~ds[k].live
      BY <2>5, DoomedIs
    <3>3. \A d \in ds[k].disk : Text(d) \subseteq Text(ds[k].mem) \cup cuts
      <4>1. \A d \in ds[k].disk : d \in Docs(cuts) /\ d.has \subseteq ds[k].mem.has
        BY <3>2, CopyFields DEF Backed
      <4>2. ds[k].mem \in Docs(cuts)
        BY CopyFields
      <4> QED
        BY <4>1, <4>2, TextGrows
    <3>4. e \in S \/ e \in Text(ds[k].mem)
      BY <2>3, <3>3 DEF Holds
    <3> QED
      BY <3>1, <3>4, InCover
  <2> QED
    BY <2>4, <2>5
<1>6. Bad = {}
  <2>1. ASSUME NEW k \in Bad PROVE FALSE
    <3>1. Text(cs[k].mem) \subseteq Cover(cs, R) /\ cs[k].mem = ds[k].mem
      BY <1>3, <1>4 DEF DoomedOK
    <3> QED
      BY <1>5, <3>1
  <2> QED
    BY <2>1
<1> QED
  BY <1>5, <1>6 DEF DoomedOK

\* From a state to a later one nothing that is covered is lost, and what is doomed is covered.
Sure(cs, R, ds, S) == DoomedOK(cs, R) => Cover(cs, R) \subseteq Cover(ds, S) /\ DoomedOK(ds, S)

LEMMA SureTwice ==
  ASSUME NEW cs, NEW R, NEW ds, NEW S, NEW es, NEW T, Sure(cs, R, ds, S), Sure(ds, S, es, T)
  PROVE  Sure(cs, R, es, T)
BY DEF Sure

LEMMA SureStays ==
  ASSUME NEW cs, NEW R
  PROVE  Sure(cs, R, cs, R)
BY DEF Sure

\* Nothing starts to wait or to be released, and disks stay.
LEMMA SureKept ==
  ASSUME NEW cuts, NEW cs, NEW ds \in [Copies -> CopyRec(cuts)], Loose(ds), Backed(ds, cuts),
         NEW R, NEW S, R \subseteq S, cuts \subseteq S,
         \A k \in Copies : /\ cs[k].disk \subseteq ds[k].disk
                           /\ ds[k].end = "release" => cs[k].end = "release" /\ cs[k].mem = ds[k].mem
                           /\ ds[k].awaits \in Copies => cs[k].awaits = ds[k].awaits /\ cs[k].mem = ds[k].mem
  PROVE  Sure(cs, R, ds, S)
<1> SUFFICES ASSUME DoomedOK(cs, R) PROVE Cover(cs, R) \subseteq Cover(ds, S) /\ DoomedOK(ds, S)
  BY DEF Sure
<1>1. Stays(cs, ds, S)
  BY DEF Stays, Holds
<1> QED
  <2>1. Releases(cs, ds, S) /\ Waits(cs, ds)
    BY DEF Releases, Waits
  <2> QED
    BY <1>1, <2>1, CoverStep

\* Unchanged copies, and one that is alive.
LEMMA SureOne ==
  ASSUME NEW cuts, NEW t \in Tabs, NEW l, NEW d, NEW cs, NEW ds, NEW l2, NEW d2, Good(t, l2, d2, ds, cuts), NEW R, cuts \subseteq R,
         NEW c \in Copies, \A k \in Copies : k # c => ds[k] = cs[k], Alive(ds, c), cs[c].disk \subseteq ds[c].disk
  PROVE  Sure(cs, R, ds, R)
<1>1. ds \in [Copies -> CopyRec(cuts)] /\ Loose(ds) /\ Backed(ds, cuts)
  BY GoodTypes
<1>2. ASSUME NEW k \in Copies
      PROVE  /\ cs[k].disk \subseteq ds[k].disk
             /\ ds[k].end = "release" => cs[k].end = "release" /\ cs[k].mem = ds[k].mem
             /\ ds[k].awaits \in Copies => cs[k].awaits = ds[k].awaits /\ cs[k].mem = ds[k].mem
  BY DEF Alive
<1> QED
  BY <1>1, <1>2, SureKept

LEMMA KeepStep ==
  ASSUME NEW cuts, NEW t \in Tabs, NEW l, l \notin Copies, NEW d, NEW cs, Good(t, l, d, cs, cuts), NEW c \in Copies, cs[c] = NoCopy,
         NEW R, cuts \subseteq R
  PROVE  LET ds == [cs EXCEPT ![c] = Fresh(t)]
         IN Good(t, c, d, ds, cuts) /\ Touches(t, cs, ds) /\ Sure(cs, R, ds, R) /\ Alive(ds, c)
<1> DEFINE ds == [cs EXCEPT ![c] = Fresh(t)]
<1>1. Good(t, c, d, ds, cuts) /\ Touches(t, cs, ds)
  BY KeepGood
<1>2. cs \in [Copies -> CopyRec(cuts)] /\ d \in Docs(cuts)
  BY GoodTypes
<1>3. ds[c] = Fresh(t) /\ (\A k \in Copies : k # c => ds[k] = cs[k])
  BY <1>2
<1> HIDE DEF ds
<1>4. Alive(ds, c) /\ cs[c].disk \subseteq ds[c].disk
  BY <1>2, <1>3, NewFields, NoCopyFields, NoCopyZero DEF Alive
<1>5. Sure(cs, R, ds, R)
  BY <1>1, <1>3, <1>4, SureOne
<1> QED
  BY <1>1, <1>4, <1>5 DEF ds

LEMMA OfferStep ==
  ASSUME NEW cuts, NEW t \in Tabs, NEW l, NEW d, NEW cs, Good(t, l, d, cs, cuts), NEW c \in Copies, cs[c] = NoCopy,
         NEW x \in Docs(cuts), NEW R, cuts \subseteq R
  PROVE  LET ds == [cs EXCEPT ![c] = Offer(t, x)]
         IN Good(t, l, d, ds, cuts) /\ Touches(t, cs, ds) /\ Sure(cs, R, ds, R) /\ Alive(ds, c)
<1> DEFINE ds == [cs EXCEPT ![c] = Offer(t, x)]
<1>1. Good(t, l, d, ds, cuts) /\ Touches(t, cs, ds)
  BY OfferGood
<1>2. cs \in [Copies -> CopyRec(cuts)]
  BY GoodTypes
<1>3. ds[c] = Offer(t, x) /\ (\A k \in Copies : k # c => ds[k] = cs[k])
  BY <1>2
<1> HIDE DEF ds
<1>4. Alive(ds, c) /\ cs[c].disk \subseteq ds[c].disk
  BY <1>3, NewFields, NoCopyFields, NoCopyZero DEF Alive
<1>5. Sure(cs, R, ds, R)
  BY <1>1, <1>3, <1>4, SureOne
<1> QED
  BY <1>1, <1>4, <1>5 DEF ds

LEMMA ChangeStep ==
  ASSUME NEW cuts, NEW t \in Tabs, NEW l, NEW d, NEW cs, Good(t, l, d, cs, cuts), NEW d2 \in Docs(cuts), d.has \subseteq d2.has,
         NEW R, cuts \subseteq R, NEW ds,
         ds = IF d2 # d /\ l # 0 THEN [cs EXCEPT ![l] = [@ EXCEPT !.unsaved = TRUE]] ELSE cs
  PROVE  /\ Good(t, l, d2, ds, cuts) /\ Touches(t, cs, ds) /\ Sure(cs, R, ds, R)
         /\ \A k \in Copies : k # l => ds[k] = cs[k]
<1>1. Good(t, l, d2, ds, cuts) /\ Touches(t, cs, ds)
  BY ChangeGood
<1>2. cs \in [Copies -> CopyRec(cuts)] /\ l \in Copies \cup {0}
  BY GoodTypes
<1>3. \A k \in Copies : k # l => ds[k] = cs[k]
  BY <1>2
<1>4. CASE ds = cs
  BY <1>1, <1>3, <1>4, SureStays
<1>5. CASE ds # cs
  <2>1. l \in Copies /\ ds[l] = [cs[l] EXCEPT !.unsaved = TRUE] /\ cs[l] \in CopyRec(cuts)
    BY <1>2, <1>5
  <2>2. Alive(ds, l)
    <3>1. ds[l].end = "none" /\ ds[l].awaits = 0
      BY <1>1, <2>1, GoodLive
    <3> QED
      BY <3>1, NoCopyZero DEF Alive
  <2>3. ds[l].disk = cs[l].disk
    BY <2>1 DEF CopyRec
  <2>4. Sure(cs, R, ds, R)
    BY <1>1, <1>3, <2>1, <2>2, <2>3, SureOne
  <2> QED
    BY <1>1, <1>3, <2>4
<1> QED
  BY <1>4, <1>5

LEMMA TypeStep ==
  ASSUME NEW cuts, NEW t \in Tabs, NEW l, NEW d, NEW cs, Good(t, l, d, cs, cuts), NEW c \in Copies, Hand(cs, t, {c}),
         NEW x \in Docs(cuts), cs[c].mem.has \subseteq x.has, NEW R, cuts \subseteq R
  PROVE  LET ds == [cs EXCEPT ![c] = [@ EXCEPT !.mem = x, !.unsaved = TRUE]]
         IN Good(t, l, d, ds, cuts) /\ Touches(t, cs, ds) /\ Sure(cs, R, ds, R)
<1> DEFINE ds == [cs EXCEPT ![c] = [@ EXCEPT !.mem = x, !.unsaved = TRUE]]
<1>1. Good(t, l, d, ds, cuts) /\ Touches(t, cs, ds)
  BY TypeGood
<1>2. cs \in [Copies -> CopyRec(cuts)]
  BY GoodTypes
<1>3. ds[c] = [cs[c] EXCEPT !.mem = x, !.unsaved = TRUE] /\ (\A k \in Copies : k # c => ds[k] = cs[k]) /\ cs[c] \in CopyRec(cuts)
  BY <1>2
<1> HIDE DEF ds
<1>4. ds[c].end = "none" /\ ds[c].awaits = 0 /\ ds[c].disk = cs[c].disk
  BY <1>3 DEF Hand, CopyRec
<1>5. Sure(cs, R, ds, R)
  BY <1>1, <1>3, <1>4, SureOne, NoCopyZero DEF Alive
<1> QED
  BY <1>1, <1>5 DEF ds

\* The live copy stops following: kept, or released when all of its text is covered.
\* The live copy l of tab t holds the document d from now on.
Stopped(cs, l, d, how) == [cs EXCEPT ![l] = [@ EXCEPT !.mem = d, !.live = FALSE, !.end = how]]
Halted(t, l, d, cs, d2, how, ds, cuts, R) ==
  /\ Good(t, 0, d2, ds, cuts) /\ Touches(t, cs, ds) /\ Sure(cs, R, ds, R)
  /\ ds[l].by = {t} /\ ~ds[l].live /\ ds[l].mem = d /\ ds[l].end = how /\ ds[l].awaits = 0
  /\ ds[l].disk = cs[l].disk /\ ds[l].unsaved = cs[l].unsaved /\ ds[l].stored = cs[l].stored
  /\ \A k \in Copies : k # l => ds[k] = cs[k]
LEMMA DetachStep ==
  ASSUME NEW cuts, NEW t \in Tabs, NEW l \in Copies, NEW d, NEW cs, Good(t, l, d, cs, cuts), NEW d2 \in Docs(cuts),
         NEW how \in {"none", "close", "release"}, NEW R, cuts \subseteq R, how = "release" => Text(d) \subseteq R
  PROVE  Halted(t, l, d, cs, d2, how, Stopped(cs, l, d, how), cuts, R)
<1> DEFINE ds == [cs EXCEPT ![l] = [@ EXCEPT !.mem = d, !.live = FALSE, !.end = how]]
<1>1. Good(t, 0, d2, ds, cuts) /\ Touches(t, cs, ds)
  BY DetachGood
<1>2. cs \in [Copies -> CopyRec(cuts)] /\ d \in Docs(cuts)
  BY GoodTypes
<1>3. ds[l] = [cs[l] EXCEPT !.mem = d, !.live = FALSE, !.end = how] /\ (\A k \in Copies : k # l => ds[k] = cs[k])
      /\ cs[l] \in CopyRec(cuts) /\ cs[l].by = {t} /\ cs[l].awaits = 0
  BY <1>2, GoodLive
<1> HIDE DEF ds
<1>4. ds[l].by = {t} /\ ~ds[l].live /\ ds[l].mem = d /\ ds[l].end = how /\ ds[l].awaits = 0 /\ ds[l].disk = cs[l].disk
      /\ ds[l].unsaved = cs[l].unsaved /\ ds[l].stored = cs[l].stored
  BY <1>3 DEF CopyRec
<1>5. ASSUME how # "release" PROVE Sure(cs, R, ds, R)
  <2>1. Alive(ds, l)
    BY <1>4, <1>5, NoCopyZero DEF Alive
  <2> QED
    BY <1>1, <1>3, <1>4, <2>1, SureOne DEF ds
<1>6. ASSUME how = "release" PROVE Sure(cs, R, ds, R)
  <2>1. ds \in [Copies -> CopyRec(cuts)] /\ Loose(ds) /\ Backed(ds, cuts)
    BY <1>1, GoodTypes
  <2>2. SUFFICES ASSUME DoomedOK(cs, R) PROVE Cover(cs, R) \subseteq Cover(ds, R) /\ DoomedOK(ds, R)
    BY <1>1, <1>3, <1>4 DEF Sure, ds
  <2>3. Stays(cs, ds, R)
    BY <1>3, <1>4 DEF Stays, Holds
  <2>4. \A k \in Copies : ds[k].end = "release" => Text(ds[k].mem) \subseteq R \/ (cs[k].end = "release" /\ cs[k].mem = ds[k].mem)
    BY <1>3, <1>4, <1>6
  <2>5. \A k \in Copies : ds[k].awaits \in Copies => cs[k].awaits = ds[k].awaits /\ cs[k].mem = ds[k].mem
    BY <1>3, <1>4, NoCopyZero
  <2> QED
    <3>1. Releases(cs, ds, R) /\ Waits(cs, ds)
      BY <2>4, <2>5 DEF Releases, Waits
    <3> QED
      BY <2>1, <2>2, <2>3, <3>1, CoverStep
<1>7. Sure(cs, R, ds, R)
  BY <1>5, <1>6
<1>8. Halted(t, l, d, cs, d2, how, ds, cuts, R)
  BY <1>1, <1>3, <1>4, <1>7 DEF Halted, ds
<1> QED
  BY <1>8 DEF ds, Stopped

\* A copy that goes once another is stored, which is alive and has all of its text.
AwaitAs(cs, c, o) ==
  IF cs[o].unsaved THEN [cs EXCEPT ![c] = [@ EXCEPT !.awaits = o]] ELSE [cs EXCEPT ![c] = [@ EXCEPT !.end = AfterFlush(cs[o].stored)]]
\* The copies but for copy c, of which the end is said, are as before.
Followed(t, l, d, cs, c, ds, R, cuts) ==
  /\ Good(t, l, d, ds, cuts) /\ Touches(t, cs, ds) /\ Sure(cs, R, ds, R)
  /\ \A k \in Copies : k # c => ds[k] = cs[k]
  /\ SameBody(cs[c], ds[c])
LEMMA AwaitStep ==
  ASSUME NEW cuts, NEW t \in Tabs, NEW l, NEW d, NEW cs, Good(t, l, d, cs, cuts), NEW c \in Copies, NEW o \in Copies, c # o,
         Hand(cs, t, {c}), cs[o].by = {t}, Alive(cs, o), Text(cs[c].mem) \subseteq Text(Body(d, cs[o])) \cup cuts,
         NEW R, cuts \subseteq R, NEW ds, ds = AwaitAs(cs, c, o)
  PROVE  Followed(t, l, d, cs, c, ds, R, cuts)
<1>1. cs \in [Copies -> CopyRec(cuts)] /\ cs[c] \in CopyRec(cuts) /\ cs[o] \in CopyRec(cuts) /\ d \in Docs(cuts)
  BY GoodTypes
<1>2. cs[c].by = {t} /\ ~cs[c].live /\ cs[c].end = "none" /\ cs[c].awaits = 0
  BY DEF Hand
<1>3. /\ ds \in [Copies -> CopyRec(cuts)] /\ \A k \in Copies : k # c => ds[k] = cs[k]
      /\ SameBody(cs[c], ds[c])
      /\ cs[o].unsaved => ds[c].awaits = o /\ ds[c].end = "none"
      /\ ~cs[o].unsaved => ds[c].awaits = 0 /\ ds[c].end = AfterFlush(cs[o].stored)
  <2>1. CASE cs[o].unsaved
    <3> DEFINE x == [cs[c] EXCEPT !.awaits = o]
    <3>1. ds = [cs EXCEPT ![c] = x] /\ x \in CopyRec(cuts)
      BY <1>1, <2>1 DEF AwaitAs, CopyRec
    <3>2. SameBody(cs[c], x) /\ x.awaits = o /\ x.end = "none"
      BY <1>1, <1>2 DEF SameBody, CopyRec
    <3> QED
      BY <1>1, <2>1, <3>1, <3>2
  <2>2. CASE ~cs[o].unsaved
    <3> DEFINE x == [cs[c] EXCEPT !.end = AfterFlush(cs[o].stored)]
    <3>1. ds = [cs EXCEPT ![c] = x] /\ x \in CopyRec(cuts)
      BY <1>1, <2>2 DEF AwaitAs, CopyRec, AfterFlush
    <3>2. SameBody(cs[c], x) /\ x.awaits = 0 /\ x.end = AfterFlush(cs[o].stored)
      BY <1>1, <1>2 DEF SameBody, CopyRec
    <3> QED
      BY <1>1, <2>2, <3>1, <3>2
  <2> QED
    BY <2>1, <2>2
<1>4. \A k \in Copies : SameBody(cs[k], ds[k])
  BY <1>3 DEF SameBody
<1>5. \A k \in Copies : ds[k] # cs[k] =>
        /\ cs[k].by = {t} /\ ~cs[k].live /\ (ds[k].end # "none" => ds[k].awaits = 0)
        /\ ds[k].awaits # 0 => /\ ds[k].awaits # k /\ cs[ds[k].awaits].by = {t} /\ cs[ds[k].awaits].unsaved
                               /\ Text(cs[k].mem) \subseteq Text(Body(d, cs[ds[k].awaits])) \cup cuts
  BY <1>2, <1>3
<1>6. Good(t, l, d, ds, cuts) /\ Touches(t, cs, ds)
  BY <1>3, <1>4, <1>5, MarkGood
<1>7. Sure(cs, R, ds, R)
  <2>1. SUFFICES ASSUME DoomedOK(cs, R) PROVE Cover(cs, R) \subseteq Cover(ds, R) /\ DoomedOK(ds, R)
    BY DEF Sure
  <2>2. Stays(cs, ds, R)
    BY <1>4 DEF Stays, Holds, SameBody
  <2>3. Alive(ds, o)
    BY <1>3 DEF Alive
  <2>4. ASSUME NEW k \in Copies, ds[k].end = "release"
        PROVE  \/ Text(ds[k].mem) \subseteq R
               \/ cs[k].end = "release" /\ cs[k].mem = ds[k].mem
               \/ \E p \in Copies : /\ \A e \in Text(ds[k].mem) : Holds(ds, R, p, e)
                                    /\ \/ Alive(ds, p)
                                       \/ cs[k].awaits = p /\ cs[k].mem = ds[k].mem /\ (~ds[p].live => ds[p].disk = {ds[p].mem})
    <3>1. CASE k # c
      BY <1>3, <2>4, <3>1
    <3>2. CASE k = c
      <4>1. ~cs[o].unsaved /\ cs[o].stored
        BY <1>1, <1>3, <2>4, <3>2, CopyFields DEF AfterFlush
      <4>2. ds[o].disk = {Body(d, cs[o])}
        <5>1. OwnCopy(t, l, d, cs, cuts, o)
          BY GoodCopy
        <5>2. ds[o] = cs[o]
          BY <1>3
        <5> QED
          BY <4>1, <5>1, <5>2 DEF OwnCopy
      <4>3. \A e \in Text(ds[c].mem) : Holds(ds, R, o, e)
        BY <1>4, <4>2 DEF Holds, SameBody
      <4> QED
        BY <2>3, <3>2, <4>3
    <3> QED
      BY <3>1, <3>2
  <2>5. \A k \in Copies : ds[k].awaits \in Copies =>
          (cs[k].awaits = ds[k].awaits /\ cs[k].mem = ds[k].mem) \/ Alive(ds, ds[k].awaits)
    BY <1>3, <2>3, NoCopyZero
  <2>6. ds \in [Copies -> CopyRec(cuts)] /\ Loose(ds) /\ Backed(ds, cuts)
    BY <1>6, GoodTypes
  <2> QED
    <3>1. Releases(cs, ds, R) /\ Waits(cs, ds)
      BY <2>4, <2>5 DEF Releases, Waits
    <3> QED
      BY <2>1, <2>2, <2>6, <3>1, CoverStep
<1> QED
  BY <1>3, <1>6, <1>7 DEF Followed

\* Copies the tab found or offers are kept for the next visit, or released when a person discards their text.
MayEnd(cs, P, how, R) == how = "release" => \A c \in P : Text(cs[c].mem) \subseteq R
Ended(cs, P, how) == [c \in Copies |-> IF c \in P THEN [cs[c] EXCEPT !.end = how] ELSE cs[c]]
Ends(t, l, d, cs, P, ds, R, cuts) ==
  /\ Good(t, l, d, ds, cuts) /\ Touches(t, cs, ds) /\ Sure(cs, R, ds, R)
  /\ \A k \in Copies : SameBody(cs[k], ds[k]) /\ (k \notin P => ds[k] = cs[k])
LEMMA EndsStep ==
  ASSUME NEW cuts, NEW t \in Tabs, NEW l, NEW d, NEW cs, Good(t, l, d, cs, cuts), NEW P \in SUBSET Copies, Hand(cs, t, P),
         NEW how \in {"close", "release"}, NEW R, cuts \subseteq R,
         MayEnd(cs, P, how, R)
  PROVE  Ends(t, l, d, cs, P, Ended(cs, P, how), R, cuts)
<1> DEFINE ds == Ended(cs, P, how)
<1>0. ds = [c \in Copies |-> IF c \in P THEN [cs[c] EXCEPT !.end = how] ELSE cs[c]]
  BY DEF Ended
<1> HIDE DEF ds
<1>1. cs \in [Copies -> CopyRec(cuts)] /\ d \in Docs(cuts)
  BY GoodTypes
<1>2. ASSUME NEW c \in P
      PROVE  /\ ds[c] \in CopyRec(cuts) /\ SameBody(cs[c], ds[c]) /\ ds[c].end = how /\ ds[c].awaits = 0
             /\ cs[c].by = {t} /\ ~cs[c].live
  <2>1. cs[c] \in CopyRec(cuts) /\ ds[c] = [cs[c] EXCEPT !.end = how] /\ cs[c].awaits = 0 /\ cs[c].by = {t} /\ ~cs[c].live
    BY <1>0, <1>1 DEF Hand
  <2> QED
    BY <2>1 DEF CopyRec, SameBody
<1>3. \A k \in Copies : k \notin P => ds[k] = cs[k]
  BY <1>0
<1>4. ds \in [Copies -> CopyRec(cuts)]
  BY <1>0, <1>1, <1>2, <1>3
<1>5. \A k \in Copies : SameBody(cs[k], ds[k])
  BY <1>2, <1>3 DEF SameBody
<1>6. \A k \in Copies : ds[k] # cs[k] => cs[k].by = {t} /\ ~cs[k].live /\ ds[k].awaits = 0
  BY <1>2, <1>3
<1>7. Good(t, l, d, ds, cuts) /\ Touches(t, cs, ds)
  BY <1>4, <1>5, <1>6, MarkGood
<1>8. Sure(cs, R, ds, R)
  <2>1. SUFFICES ASSUME DoomedOK(cs, R) PROVE Cover(cs, R) \subseteq Cover(ds, R) /\ DoomedOK(ds, R)
    BY DEF Sure
  <2>2. Stays(cs, ds, R)
    BY <1>5 DEF Stays, Holds, SameBody
  <2>3. \A k \in Copies : ds[k].end = "release" => Text(ds[k].mem) \subseteq R \/ (cs[k].end = "release" /\ cs[k].mem = ds[k].mem)
    <3>1. ASSUME NEW k \in Copies, ds[k].end = "release"
          PROVE  Text(ds[k].mem) \subseteq R \/ (cs[k].end = "release" /\ cs[k].mem = ds[k].mem)
      <4>1. CASE k \in P
        <5>1. ds[k].end = how /\ SameBody(cs[k], ds[k])
          BY <1>2, <4>1
        <5>2. Text(cs[k].mem) \subseteq R /\ ds[k].mem = cs[k].mem
          BY <3>1, <4>1, <5>1 DEF SameBody, MayEnd
        <5> QED
          BY <5>2
      <4> QED
        BY <1>3, <3>1, <4>1
    <3> QED
      BY <3>1
  <2>4. \A k \in Copies : ds[k].awaits \in Copies => cs[k].awaits = ds[k].awaits /\ cs[k].mem = ds[k].mem
    <3>1. \A k \in P : ds[k].awaits \notin Copies
      BY <1>2, NoCopyZero
    <3> QED
      BY <1>3, <3>1
  <2>5. ds \in [Copies -> CopyRec(cuts)] /\ Loose(ds) /\ Backed(ds, cuts)
    BY <1>7, GoodTypes
  <2> QED
    <3>1. Releases(cs, ds, R) /\ Waits(cs, ds)
      BY <2>3, <2>4 DEF Releases, Waits
    <3> QED
      BY <2>1, <2>2, <2>5, <3>1, CoverStep
<1>9. Ends(t, l, d, cs, P, ds, R, cuts)
  BY <1>3, <1>5, <1>7, <1>8 DEF Ends
<1> QED
  BY <1>9 DEF ds

\* Copies under nobody's lock are claimed: those worth a restore are in the tab's hands.
Taken(cs, t, S) == [c \in Copies |-> IF c \notin S THEN cs[c] ELSE ClaimedCopy(t, cs[c])]
Idle(cs, S) == \A c \in S : cs[c].by = {} /\ cs[c].disk # {}
Takes(t, l, d, cs, S, ds, R, cuts) ==
  /\ Good(t, l, d, ds, cuts) /\ Touches(t, cs, ds) /\ Sure(cs, R, ds, R)
  /\ \A k \in Copies \ S : ds[k] = cs[k]
  /\ \A k \in S : /\ cs[k].disk = {ds[k].mem} /\ ds[k].disk = cs[k].disk /\ ds[k].by = {t} /\ ~ds[k].live /\ ds[k].awaits = 0
                  /\ ds[k].mem.has # {} => ds[k].end = "none"
LEMMA ClaimStep ==
  ASSUME NEW cuts, NEW t \in Tabs, NEW l, NEW d, NEW cs, Good(t, l, d, cs, cuts), NEW S \in SUBSET Copies, Idle(cs, S),
         NEW R, cuts \subseteq R
  PROVE  Takes(t, l, d, cs, S, Taken(cs, t, S), R, cuts)
<1> DEFINE ds == Taken(cs, t, S)
<1>d. ds = [c \in Copies |-> IF c \notin S THEN cs[c] ELSE ClaimedCopy(t, cs[c])] /\ \A c \in S : cs[c].by = {} /\ cs[c].disk # {}
  BY DEF Taken, Idle
<1> HIDE DEF ds
<1>1. Good(t, l, d, ds, cuts) /\ Touches(t, cs, ds)
  BY <1>d, ClaimGood
<1>2. cs \in [Copies -> CopyRec(cuts)] /\ Loose(cs) /\ ds \in [Copies -> CopyRec(cuts)] /\ Loose(ds) /\ Backed(ds, cuts)
  BY <1>1, GoodTypes
<1>3. ASSUME NEW k \in S
      PROVE  /\ cs[k].disk = {ds[k].mem} /\ ds[k].disk = cs[k].disk /\ ds[k].by = {t} /\ ~ds[k].live /\ ds[k].awaits = 0
             /\ ds[k].end = IF ds[k].mem.has = {} THEN "release" ELSE "none"
  <2>1. cs[k] \in CopyRec(cuts) /\ cs[k] = [NoCopy EXCEPT !.disk = cs[k].disk] /\ cs[k].disk # {} /\ ds[k] = ClaimedCopy(t, cs[k])
    BY <1>d, <1>2 DEF Loose
  <2> QED
    BY <2>1, ClaimedIs
<1>4. \A k \in Copies \ S : ds[k] = cs[k]
  BY <1>d
<1>5. Sure(cs, R, ds, R)
  <2>1. SUFFICES ASSUME DoomedOK(cs, R) PROVE Cover(cs, R) \subseteq Cover(ds, R) /\ DoomedOK(ds, R)
    BY DEF Sure
  <2>2. Stays(cs, ds, R)
    BY <1>3, <1>4 DEF Stays, Holds
  <2>3. \A k \in Copies : ds[k].end = "release" => Text(ds[k].mem) \subseteq R \/ (cs[k].end = "release" /\ cs[k].mem = ds[k].mem)
    <3>1. ASSUME NEW k \in S, ds[k].end = "release" PROVE Text(ds[k].mem) = {}
      <4>1. ds[k].mem.has = {}
        BY <1>3, <3>1
      <4> QED
        BY <4>1 DEF Text
    <3> QED
      BY <1>4, <3>1
  <2>4. \A k \in Copies : ds[k].awaits \in Copies => cs[k].awaits = ds[k].awaits /\ cs[k].mem = ds[k].mem
    BY <1>3, <1>4, NoCopyZero
  <2> QED
    <3>1. Releases(cs, ds, R) /\ Waits(cs, ds)
      BY <2>3, <2>4 DEF Releases, Waits
    <3> QED
      BY <1>2, <2>1, <2>2, <3>1, CoverStep
<1>6. \A k \in S : ds[k].mem.has # {} => ds[k].end = "none"
  BY <1>3
<1> QED
  BY <1>1, <1>3, <1>4, <1>5, <1>6 DEF Takes, ds

LEMMA WriteStep ==
  ASSUME NEW cuts, NEW t \in Tabs, NEW l, NEW d, NEW cs, Good(t, l, d, cs, cuts), NEW c \in Copies, cs[c].by = {t},
         cs[c].unsaved, NEW ok \in BOOLEAN, NEW ds \in [Copies -> CopyRec(cuts)],
         Flushed(cs, ds, d, c, ok),
         NEW R, cuts \subseteq R
  PROVE  Good(t, l, d, ds, cuts) /\ Touches(t, cs, ds) /\ Sure(cs, R, ds, R)
<1>w. /\ ds[c] = [cs[c] EXCEPT !.disk = IF ok THEN {Body(d, cs[c])} ELSE cs[c].disk, !.unsaved = FALSE, !.stored = ok]
      /\ \A k \in Copies : k # c /\ cs[k].awaits = c => ds[k] = [cs[k] EXCEPT !.awaits = 0, !.end = AfterFlush(ok)]
      /\ \A k \in Copies : k # c /\ cs[k].awaits # c => ds[k] = cs[k]
  BY DEF Flushed
<1>1. Good(t, l, d, ds, cuts) /\ Touches(t, cs, ds)
  BY WriteGood
<1>2. cs \in [Copies -> CopyRec(cuts)] /\ Loose(ds) /\ Backed(ds, cuts) /\ Backed(cs, cuts) /\ Loose(cs) /\ d \in Docs(cuts)
  BY <1>1, GoodTypes
<1>3. /\ ds[c].live = cs[c].live /\ ds[c].mem = cs[c].mem /\ ds[c].end = cs[c].end /\ ds[c].awaits = cs[c].awaits
      /\ ds[c].disk = IF ok THEN {Body(d, cs[c])} ELSE cs[c].disk
  <2>1. cs[c] \in CopyRec(cuts)
    BY <1>2
  <2> QED
    BY <1>w, <2>1 DEF CopyRec
<1>4. \A k \in Copies : k # c /\ cs[k].awaits = c =>
        ds[k].mem = cs[k].mem /\ ds[k].awaits = 0 /\ ds[k].disk = cs[k].disk /\ ds[k].end = AfterFlush(ok) /\ ~cs[k].live
  <2>1. ASSUME NEW k \in Copies, k # c, cs[k].awaits = c
        PROVE  ds[k].mem = cs[k].mem /\ ds[k].awaits = 0 /\ ds[k].disk = cs[k].disk /\ ds[k].end = AfterFlush(ok) /\ ~cs[k].live
    <3>1. cs[k] \in CopyRec(cuts) /\ ds[k] = [cs[k] EXCEPT !.awaits = 0, !.end = AfterFlush(ok)]
      BY <1>w, <1>2, <2>1
    <3>2. cs[k].by # {}
      BY <1>2, <2>1, LooseFields, NoCopyZero
    <3>3. ~cs[k].live
      BY <1>2, <2>1, <3>2, NoCopyZero DEF Backed
    <3> QED
      BY <3>1, <3>3 DEF CopyRec
  <2> QED
    BY <2>1
<1>5. SUFFICES ASSUME DoomedOK(cs, R) PROVE Cover(cs, R) \subseteq Cover(ds, R) /\ DoomedOK(ds, R)
  BY <1>1 DEF Sure
<1>6. ASSUME NEW k \in Copies \ Doomed(cs), NEW x \in cs[k].disk, NEW e \in Text(x) PROVE Holds(ds, R, k, e)
  <2>1. CASE k # c
    BY <1>w, <1>4, <2>1 DEF Holds
  <2>2. CASE k = c
    <3>1. x \in Docs(cuts) /\ x.has \subseteq Body(d, cs[c]).has /\ Body(d, cs[c]) \in Docs(cuts)
      <4>1. OwnCopy(t, l, d, cs, cuts, c)
        BY GoodCopy
      <4>2. cs[c] \in CopyRec(cuts)
        BY <1>2
      <4> QED
        BY <1>2, <2>2, <4>1, <4>2, CopyFields DEF OwnCopy, Body
    <3>2. Text(x) \subseteq Text(Body(d, cs[c])) \cup R
      BY <3>1, TextGrows
    <3> QED
      BY <1>3, <2>2, <3>2 DEF Holds
  <2> QED
    BY <2>1, <2>2
<1>7. ASSUME NEW k \in Copies, ds[k].end = "release"
      PROVE  \/ Text(ds[k].mem) \subseteq R
             \/ cs[k].end = "release" /\ cs[k].mem = ds[k].mem
             \/ \E o \in Copies : /\ \A e \in Text(ds[k].mem) : Holds(ds, R, o, e)
                                  /\ \/ Alive(ds, o)
                                     \/ cs[k].awaits = o /\ cs[k].mem = ds[k].mem /\ (~ds[o].live => ds[o].disk = {ds[o].mem})
  <2>1. CASE k = c \/ cs[k].awaits # c
    BY <1>w, <1>3, <1>7, <2>1
  <2>2. CASE k # c /\ cs[k].awaits = c
    <3>1. ok
      BY <1>4, <1>7, <2>2 DEF AfterFlush
    <3>2. ds[c].disk = {Body(d, cs[c])} /\ (~ds[c].live => ds[c].disk = {ds[c].mem})
      BY <1>3, <3>1 DEF Body
    <3>3. cs[k].by = {t}
      <4>1. cs[k].by # {}
        BY <1>2, <2>2, LooseFields, NoCopyZero
      <4> QED
        BY <1>2, <2>2, <4>1, NoCopyZero DEF Backed
    <3>4. Text(cs[k].mem) \subseteq Text(Body(d, cs[c])) \cup cuts
      <4>1. OwnCopy(t, l, d, cs, cuts, k)
        BY <3>3, GoodCopy
      <4> QED
        BY <2>2, <4>1, NoCopyZero DEF OwnCopy
    <3>5. \A e \in Text(ds[k].mem) : Holds(ds, R, c, e)
      BY <1>4, <2>2, <3>2, <3>4 DEF Holds
    <3> QED
      BY <1>4, <2>2, <3>2, <3>5
  <2> QED
    BY <2>1, <2>2
<1>8. \A k \in Copies : ds[k].awaits \in Copies =>
        (cs[k].awaits = ds[k].awaits /\ cs[k].mem = ds[k].mem) \/ Alive(ds, ds[k].awaits)
  BY <1>w, <1>3, <1>4, NoCopyZero
<1>9. Stays(cs, ds, R) /\ Releases(cs, ds, R) /\ Waits(cs, ds)
  BY <1>6, <1>7, <1>8 DEF Stays, Releases, Waits
<1> QED
  BY <1>2, <1>5, <1>9, CoverStep

\* A copy that ends is gone, nothing waits for it, and its records are what closing or releasing it leaves.
Gone(cs, c, disk) == [cs EXCEPT ![c] = [NoCopy EXCEPT !.disk = disk]]
Goes(t, l, d, cs, c, disk, ds, R, cuts) ==
  /\ Good(t, l, d, ds, cuts) /\ Touches(t, cs, ds) /\ Sure(cs, R, ds, R)
  /\ ds[c].disk = disk /\ Alive(ds, c) /\ ds[c].by = {} /\ ds[c].mem = Empty
  /\ \A k \in Copies : k # c => ds[k] = cs[k]
LEMMA EndStep ==
  ASSUME NEW cuts, NEW t \in Tabs, NEW l, NEW d, NEW cs, Good(t, l, d, cs, cuts), NEW c \in Copies, cs[c].by = {t},
         cs[c].end # "none", ~cs[c].unsaved, NEW R, cuts \subseteq R, NEW disk,
         \/ disk = {cs[c].mem}
         \/ disk = cs[c].disk
         \/ disk = {} /\ cs[c].end = "release"
  PROVE  Goes(t, l, d, cs, c, disk, Gone(cs, c, disk), R, cuts)
<1> DEFINE ds == [cs EXCEPT ![c] = [NoCopy EXCEPT !.disk = disk]]
<1>1. d \in Docs(cuts) /\ cs \in [Copies -> CopyRec(cuts)] /\ l \in Copies \cup {0} /\ Own(t, l, d, cs, cuts)
  BY GoodTypes
<1>2. cs[c] \in CopyRec(cuts) /\ OwnCopy(t, l, d, cs, cuts, c)
  BY <1>1 DEF Own
<1>3. ~cs[c].live
  BY <1>2 DEF OwnCopy
<1>4. disk = {} \/ \E x \in Docs(cuts) : disk = {x}
  BY <1>2, CopyFields
<1>0. ds[c] = Left(disk)
  BY <1>1 DEF Left
<1> HIDE DEF ds
<1>5. /\ ds[c] = [NoCopy EXCEPT !.disk = disk] /\ ds[c] \in CopyRec(cuts) /\ ds[c].disk = disk /\ ds[c].end = "none"
      /\ ds[c].awaits = 0 /\ ds[c].by = {} /\ ds[c].mem = Empty
  <2>1. ds[c] = [NoCopy EXCEPT !.disk = disk]
    BY <1>0 DEF Left
  <2>2. /\ ds[c] \in CopyRec(cuts) /\ ds[c].disk = disk /\ ds[c].end = "none"
        /\ ds[c].awaits = 0 /\ ds[c].by = {} /\ ds[c].mem = Empty
    <3>1. /\ Left(disk) \in CopyRec(cuts) /\ Left(disk).disk = disk /\ Left(disk).end = "none"
          /\ Left(disk).awaits = 0 /\ Left(disk).by = {} /\ Left(disk).mem = Empty
      BY <1>4, LeftFields
    <3> QED
      BY <1>0, <3>1
  <2> QED
    BY <2>1, <2>2
<1>6. ds \in [Copies -> CopyRec(cuts)] /\ \A k \in Copies : k # c => ds[k] = cs[k]
  BY <1>1, <1>5 DEF ds
<1>7. Good(t, l, d, ds, cuts) /\ Touches(t, cs, ds)
  <2>1. \A k \in Copies \ {c} : cs[k].by = {t} => (cs[k].awaits = 0 \/ cs[k].awaits \notin {c}) /\ l = l /\ d = d
    <3>1. ASSUME NEW k \in Copies \ {c}, cs[k].by = {t}, cs[k].awaits # 0 PROVE cs[k].awaits # c
      BY <3>1, GoodCopy
    <3> QED
      BY <3>1
  <2>2. l \in Copies => l = l /\ l \notin {c}
    BY <1>3, GoodLive
  <2>3. \A k \in {c} : ds[k] = [NoCopy EXCEPT !.disk = ds[k].disk]
    BY <1>5
  <2>4. \A k \in Copies \ {c} : ds[k] = cs[k]
    BY <1>6
  <2>5. {c} \in SUBSET Copies /\ \A k \in {c} : cs[k].by = {t}
    OBVIOUS
  <2> QED
    <3>1. Leaves(t, l, d, l, d, cs, ds, {c})
      BY <2>1, <2>2, <2>3, <2>4, <2>5 DEF Leaves
    <3> QED
      BY <1>1, <1>6, <3>1, GoneGood
<1>8. Sure(cs, R, ds, R)
  <2>1. SUFFICES ASSUME DoomedOK(cs, R) PROVE Cover(cs, R) \subseteq Cover(ds, R) /\ DoomedOK(ds, R)
    BY DEF Sure
  <2>2. Loose(ds) /\ Backed(ds, cuts)
    BY <1>7, GoodTypes
  <2>3. Stays(cs, ds, R)
    <3>1. ASSUME NEW k \in Copies \ Doomed(cs), NEW x \in cs[k].disk, NEW e \in Text(x) PROVE Holds(ds, R, k, e)
      <4>1. CASE k # c
        BY <1>6, <4>1 DEF Holds
      <4>2. CASE k = c
        <5>1. cs[c].end # "release"
          <6>1. ASSUME cs[c].end = "release" PROVE c \in Doomed(cs)
            <7>1. Closes(cs, {c}) /\ {c} \in SUBSET Copies
              BY <6>1 DEF Closes
            <7> QED
              BY <7>1 DEF Doomed
          <6> QED
            BY <4>2, <6>1
        <5>2. x \in Docs(cuts) /\ cs[c].mem \in Docs(cuts) /\ x.has \subseteq cs[c].mem.has
          BY <1>2, <1>3, <4>2, CopyFields DEF OwnCopy, Body
        <5>3. Text(x) \subseteq Text(cs[c].mem) \cup R
          BY <5>2, TextGrows
        <5> QED
          BY <1>5, <4>2, <5>1, <5>3 DEF Holds
      <4> QED
        BY <4>1, <4>2
    <3> QED
      BY <3>1 DEF Stays
  <2>4. Releases(cs, ds, R) /\ Waits(cs, ds)
    BY <1>5, <1>6, NoCopyZero DEF Releases, Waits
  <2> QED
    BY <1>6, <2>1, <2>2, <2>3, <2>4, CoverStep
<1>9. Alive(ds, c)
  BY <1>5, NoCopyZero DEF Alive
<1> QED
  BY <1>5, <1>6, <1>7, <1>8, <1>9 DEF ds, Gone, Goes

\* A tab's process ends: its locks go, and what is on disk stays.
Survives(cs, ds) == \A k \in Copies : ds[k].disk = cs[k].disk /\ (ds[k].mem = cs[k].mem \/ ds[k].mem = Empty)
Crashed(t, cs, ds) == ds = [c \in Copies |-> IF t \in cs[c].by THEN [NoCopy EXCEPT !.disk = cs[c].disk] ELSE cs[c]]
LEMMA CrashStep ==
  ASSUME NEW cuts, NEW t \in Tabs, NEW l, NEW d, NEW cs, Good(t, l, d, cs, cuts), NEW R, cuts \subseteq R, NEW ds,
         Crashed(t, cs, ds)
  PROVE  Good(t, 0, Empty, ds, cuts) /\ Touches(t, cs, ds) /\ Sure(cs, R, ds, R) /\ Survives(cs, ds)
<1> DEFINE S == {c \in Copies : cs[c].by = {t}}
<1>1. d \in Docs(cuts) /\ cs \in [Copies -> CopyRec(cuts)]
  BY GoodTypes
<1>2. ASSUME NEW k \in Copies PROVE t \in cs[k].by <=> k \in S
  BY <1>1, CopyFields
<1>3. /\ \A k \in S : ds[k] = [NoCopy EXCEPT !.disk = cs[k].disk]
      /\ \A k \in Copies \ S : ds[k] = cs[k]
  BY <1>2 DEF Crashed
<1>4. ASSUME NEW k \in S
      PROVE  /\ ds[k] \in CopyRec(cuts) /\ ds[k].disk = cs[k].disk /\ ds[k].end = "none" /\ ds[k].awaits = 0
             /\ ds[k].mem = Empty /\ ds[k] = [NoCopy EXCEPT !.disk = ds[k].disk]
  <2>1. ds[k] = [NoCopy EXCEPT !.disk = cs[k].disk] /\ cs[k] \in CopyRec(cuts)
    BY <1>1, <1>3
  <2>2. cs[k].disk = {} \/ \E x \in Docs(cuts) : cs[k].disk = {x}
    BY <2>1, CopyFields
  <2>3. ds[k] \in CopyRec(cuts) /\ ds[k].disk = cs[k].disk /\ ds[k].end = "none" /\ ds[k].awaits = 0 /\ ds[k].mem = Empty
    <3> DEFINE disk == cs[k].disk
    <3>1. ds[k] = Left(disk) /\ (disk = {} \/ \E x \in Docs(cuts) : disk = {x})
      BY <2>1, <2>2 DEF Left
    <3> HIDE DEF disk, S
    <3>2. /\ Left(disk) \in CopyRec(cuts) /\ Left(disk).disk = disk /\ Left(disk).end = "none" /\ Left(disk).awaits = 0
          /\ Left(disk).mem = Empty
      BY <3>1, LeftFields
    <3> QED
      BY <3>1, <3>2 DEF disk
  <2>4. ds[k] = [NoCopy EXCEPT !.disk = ds[k].disk]
    <3> DEFINE disk == cs[k].disk
    <3>1. ds[k] = [NoCopy EXCEPT !.disk = disk] /\ ds[k].disk = disk
      BY <2>1, <2>3
    <3> HIDE DEF disk, S
    <3> QED
      BY <3>1
  <2> HIDE DEF S
  <2> QED
    BY <2>3, <2>4
<1>5. ds \in [Copies -> CopyRec(cuts)]
  <2>1. \A k \in Copies : ds[k] \in CopyRec(cuts)
    BY <1>1, <1>3, <1>4
  <2>2. ds = [k \in Copies |-> ds[k]]
    BY DEF Crashed
  <2> QED
    BY <2>1, <2>2
<1>6. Good(t, 0, Empty, ds, cuts) /\ Touches(t, cs, ds)
  <2>1. \A c \in Copies \ S : cs[c].by # {t}
    OBVIOUS
  <2>2. 0 \in Copies => 0 = l /\ l \notin S
    BY NoCopyZero
  <2>3. (\A k \in S : ds[k] = [NoCopy EXCEPT !.disk = ds[k].disk]) /\ S \in SUBSET Copies /\ (\A k \in S : cs[k].by = {t})
    BY <1>4
  <2>4. Empty \in Docs(cuts)
    BY EmptyDoc
  <2> HIDE DEF S
  <2> QED
    <3>1. Leaves(t, l, d, 0, Empty, cs, ds, S)
      BY <1>3, <2>1, <2>2, <2>3 DEF Leaves
    <3> QED
      BY <1>5, <2>3, <2>4, <3>1, GoneGood
<1>7. Sure(cs, R, ds, R)
  <2>1. ASSUME NEW k \in Copies
        PROVE  /\ cs[k].disk \subseteq ds[k].disk
               /\ ds[k].end = "release" => cs[k].end = "release" /\ cs[k].mem = ds[k].mem
               /\ ds[k].awaits \in Copies => cs[k].awaits = ds[k].awaits /\ cs[k].mem = ds[k].mem
    <3>1. CASE k \in S
      BY <1>4, <3>1, NoCopyZero
    <3>2. CASE k \notin S
      BY <1>3, <3>2
    <3> QED
      BY <3>1, <3>2
  <2>2. Loose(ds) /\ Backed(ds, cuts)
    BY <1>6, GoodTypes
  <2> QED
    BY <1>5, <2>1, <2>2, SureKept
<1>8. Survives(cs, ds)
  BY <1>3, <1>4 DEF Survives
<1> QED
  BY <1>6, <1>7, <1>8

(* More may be cut, or is given up *)

LEMMA GoodGrows ==
  ASSUME NEW cuts, NEW more, cuts \subseteq more, NEW t \in Tabs, NEW l, NEW d, NEW cs, Good(t, l, d, cs, cuts)
  PROVE  Good(t, l, d, cs, more)
<1>1. d \in Docs(cuts) /\ cs \in [Copies -> CopyRec(cuts)] /\ Loose(cs) /\ Backed(cs, cuts) /\ Own(t, l, d, cs, cuts)
      /\ l \in Copies \cup {0}
  BY GoodTypes
<1>2. CopyRec(cuts) \subseteq CopyRec(more) /\ Docs(cuts) \subseteq Docs(more)
  BY DocsGrow DEF CopyRec
<1>3. ASSUME NEW c \in Copies, cs[c].by = {t} PROVE OwnCopy(t, l, d, cs, more, c)
  <2>1. OwnCopy(t, l, d, cs, cuts, c)
    BY <1>1, <1>3 DEF Own
  <2> QED
    BY <2>1 DEF OwnCopy
<1>4. Own(t, l, d, cs, more)
  BY <1>1, <1>3 DEF Own
<1>5. Backed(cs, more)
  <2>1. ASSUME NEW c \in Copies, cs[c].by # {}
        PROVE  /\ cs[c].live => cs[c].end = "none" /\ cs[c].awaits = 0
               /\ cs[c].awaits # 0 => cs[cs[c].awaits].by = cs[c].by
               /\ ~cs[c].live =>
                    /\ \A x \in cs[c].disk : x.has \subseteq cs[c].mem.has
                    /\ cs[c].awaits # 0 /\ ~cs[cs[c].awaits].live => Text(cs[c].mem) \subseteq Text(cs[cs[c].awaits].mem) \cup more
    BY <1>1, <2>1 DEF Backed
  <2> QED
    BY <2>1 DEF Backed
<1> QED
  BY <1>1, <1>2, <1>4, <1>5 DEF Good

LEMMA SureGrows ==
  ASSUME NEW cs, NEW R, NEW S, R \subseteq S
  PROVE  Sure(cs, R, cs, S)
<1>1. Cover(cs, R) \subseteq Cover(cs, S)
  BY InCover
<1> QED
  BY <1>1 DEF Sure, DoomedOK
-----------------------------------------------------------------------------
(***************************************************************************)
(* The hook's functions on a world: a tab and the copies.  C is a family   *)
(* of documents that are one history, F that of all documents: the live    *)
(* document stays in C, and what copies hold in F.                         *)
(***************************************************************************)
Family(C, F) ==
  /\ C \subseteq F /\ Empty \in C /\ \A a \in C : \A b \in C : Join(a, b) \in C
  /\ \A a \in F : \A b \in C : SharesHistory(a, b) => a \in C
Held(cs, F) == \A k \in Copies : cs[k].mem \in F /\ cs[k].disk \subseteq F

\* The world of tab t with the copies P found and not merged yet.
Ready(t, w, P, gv, C, F) ==
  /\ w \in World(gv) /\ Good(t, w.tab.live, w.tab.doc, w.copies, gv)
  /\ P \subseteq Copies /\ Hand(w.copies, t, P \cup w.tab.offered) /\ P \cap w.tab.offered = {}
  /\ w.tab.doc \in C /\ Held(w.copies, F)

\* What the functions leave alone of the tab.
Alike(x, y) ==
  /\ y.at = x.at /\ y.net = x.net /\ y.acked = x.acked /\ y.looked = x.looked /\ y.watch = x.watch
  /\ y.restore = x.restore /\ y.shown = x.shown /\ y.synced = x.synced
\* Text stored stays stored, the copies of other tabs are left alone, the document grows, and what is unsent stays so.
Moved(t, w, v, R) ==
  /\ Touches(t, w.copies, v.copies) /\ Sure(w.copies, R, v.copies, R) /\ Alike(w.tab, v.tab)
  /\ w.tab.doc.has \subseteq v.tab.doc.has /\ (w.tab.unsynced => v.tab.unsynced)
\* A document that changed is one that a copy follows.
Follows(x, y) == y.live \in Copies \/ (y.live = x.live /\ y.doc = x.doc)
HasRoom(w) == w.tab.live \in Copies \/ Free(w.copies) # {}

LEMMA MovedTwice ==
  ASSUME NEW t, NEW w, NEW v, NEW z, NEW R, Moved(t, w, v, R), Moved(t, v, z, R)
  PROVE  Moved(t, w, z, R)
<1>1. Touches(t, w.copies, z.copies)
  BY TouchesTwice DEF Moved
<1>2. Sure(w.copies, R, z.copies, R)
  BY SureTwice DEF Moved
<1> QED
  BY <1>1, <1>2 DEF Moved, Alike

LEMMA MovedNot ==
  ASSUME NEW t, NEW w, NEW R
  PROVE  Moved(t, w, w, R)
BY SureStays DEF Moved, Touches, Alike

LEMMA WorldFields ==
  ASSUME NEW gv, NEW w \in World(gv)
  PROVE  /\ w = [tab |-> w.tab, copies |-> w.copies] /\ w.tab \in TabRec(gv) /\ w.copies \in [Copies -> CopyRec(gv)]
         /\ w.tab.doc \in Docs(gv) /\ w.tab.acked \in Docs(gv) /\ w.tab.live \in Copies \cup {0}
         /\ w.tab.restore \in Seq(Copies) /\ w.tab.shown \in Copies \cup {0} /\ w.tab.offered \in SUBSET Copies
         /\ w.tab.watch \in SUBSET Copies /\ w.tab.unsynced \in BOOLEAN
BY DEF World, TabRec

LEMMA ReadyFields ==
  ASSUME NEW t \in Tabs, NEW w, NEW P, NEW gv, NEW C, NEW F, Ready(t, w, P, gv, C, F)
  PROVE  /\ w \in World(gv) /\ w.tab \in TabRec(gv) /\ w.copies \in [Copies -> CopyRec(gv)]
         /\ w.tab.doc \in Docs(gv) /\ w.tab.live \in Copies \cup {0} /\ w.tab.offered \in SUBSET Copies
         /\ Good(t, w.tab.live, w.tab.doc, w.copies, gv) /\ P \subseteq Copies /\ w.tab.doc \in C /\ Held(w.copies, F)
         /\ Hand(w.copies, t, P) /\ Hand(w.copies, t, w.tab.offered) /\ P \cap w.tab.offered = {}
BY WorldFields DEF Ready, Hand

LEMMA ReadyMade ==
  ASSUME NEW t \in Tabs, NEW w, NEW P, NEW gv, NEW C, NEW F, w \in World(gv), Good(t, w.tab.live, w.tab.doc, w.copies, gv),
         P \subseteq Copies, w.tab.doc \in C, Held(w.copies, F), Hand(w.copies, t, P), Hand(w.copies, t, w.tab.offered),
         P \cap w.tab.offered = {}
  PROVE  Ready(t, w, P, gv, C, F)
BY DEF Ready, Hand

\* What a change of the tab alone makes of a world.
LEMMA TabWorld ==
  ASSUME NEW gv, NEW w \in World(gv), NEW x \in TabRec(gv)
  PROVE  LET v == [w EXCEPT !.tab = x] IN v \in World(gv) /\ v.tab = x /\ v.copies = w.copies
BY DEF World

LEMMA LiveAlive ==
  ASSUME NEW cuts, NEW t \in Tabs, NEW l, NEW d, NEW cs, Good(t, l, d, cs, cuts), l \in Copies
  PROVE  Alive(cs, l) /\ cs[l].by = {t} /\ cs[l].live /\ Body(d, cs[l]) = d
BY GoodLive, NoCopyZero DEF Alive, Body

LEMMA UnsentWorld ==
  ASSUME NEW t \in Tabs, NEW w, NEW P, NEW gv, NEW C, NEW F, Ready(t, w, P, gv, C, F), NEW R
  PROVE  LET v == Unsent(w)
         IN /\ Ready(t, v, P, gv, C, F) /\ Moved(t, w, v, R) /\ v.copies = w.copies /\ v.tab.unsynced
            /\ v.tab.live = w.tab.live /\ v.tab.doc = w.tab.doc /\ v.tab.offered = w.tab.offered
<1> DEFINE v == Unsent(w)
<1>1. /\ w \in World(gv) /\ w.tab \in TabRec(gv)
      /\ Good(t, w.tab.live, w.tab.doc, w.copies, gv) /\ P \subseteq Copies /\ w.tab.doc \in C /\ Held(w.copies, F)
      /\ Hand(w.copies, t, P) /\ Hand(w.copies, t, w.tab.offered) /\ P \cap w.tab.offered = {}
  BY ReadyFields
<1>2. v \in World(gv) /\ v.copies = w.copies /\ v.tab = [w.tab EXCEPT !.unsynced = TRUE]
  BY <1>1 DEF Unsent, World, TabRec
<1>3. /\ v.tab.unsynced /\ v.tab.live = w.tab.live /\ v.tab.doc = w.tab.doc /\ v.tab.offered = w.tab.offered
      /\ Alike(w.tab, v.tab)
  BY <1>1, <1>2 DEF TabRec, Alike
<1> HIDE DEF v
<1>4. Ready(t, v, P, gv, C, F)
  BY <1>1, <1>2, <1>3, ReadyMade
<1>5. Moved(t, w, v, R)
  BY <1>2, <1>3, SureStays DEF Moved, Touches
<1> QED
  BY <1>2, <1>3, <1>4, <1>5 DEF v

\* keep, on a world.
LEMMA KeepWorld ==
  ASSUME NEW t \in Tabs, NEW w, NEW P, NEW gv, NEW C, NEW F, Family(C, F), Ready(t, w, P, gv, C, F), HasRoom(w),
         NEW R, gv \subseteq R
  PROVE  LET v == Keep(w, t)
         IN /\ Ready(t, v, P, gv, C, F) /\ Moved(t, w, v, R) /\ v.tab.live \in Copies
            /\ v.tab.doc = w.tab.doc /\ v.tab.offered = w.tab.offered /\ v.tab.unsynced = w.tab.unsynced
            /\ \A k \in P : v.copies[k] = w.copies[k]
<1> DEFINE v == Keep(w, t)
<1>1. /\ w \in World(gv) /\ w.tab \in TabRec(gv) /\ w.copies \in [Copies -> CopyRec(gv)] /\ w.tab.live \in Copies \cup {0}
      /\ Good(t, w.tab.live, w.tab.doc, w.copies, gv) /\ P \subseteq Copies /\ w.tab.doc \in C /\ Held(w.copies, F)
      /\ Hand(w.copies, t, P) /\ Hand(w.copies, t, w.tab.offered) /\ P \cap w.tab.offered = {}
      /\ w.tab.offered \in SUBSET Copies
  BY ReadyFields
<1>2. CASE w.tab.live # 0
  <2>1. v \in World(gv) /\ v.copies = w.copies /\ v.tab = [w.tab EXCEPT !.due = FALSE]
    BY <1>1, <1>2 DEF Keep, World, TabRec
  <2>2. /\ v.tab.live = w.tab.live /\ v.tab.doc = w.tab.doc /\ v.tab.offered = w.tab.offered
        /\ v.tab.unsynced = w.tab.unsynced /\ Alike(w.tab, v.tab)
    BY <1>1, <2>1 DEF TabRec, Alike
  <2> HIDE DEF v
  <2>3. Ready(t, v, P, gv, C, F)
    BY <1>1, <2>1, <2>2, ReadyMade
  <2>4. Moved(t, w, v, R)
    BY <2>1, <2>2, SureStays DEF Moved, Touches
  <2> QED
    BY <1>1, <1>2, <2>1, <2>2, <2>3, <2>4 DEF v
<1>3. CASE w.tab.live = 0
  <2> DEFINE c == FirstFree(w.copies)
             ds == [w.copies EXCEPT ![c] = Fresh(t)]
  <2>1. c \in Copies /\ w.copies[c] = NoCopy /\ w.tab.live \notin Copies
    BY <1>3, FreeName, NoCopyZero DEF HasRoom
  <2>2. v = [w EXCEPT !.tab = [w.tab EXCEPT !.due = FALSE, !.live = c], !.copies = ds]
    BY <1>1, <1>3 DEF Keep, World, Fresh
  <2> HIDE DEF c, v
  <2>3. Good(t, c, w.tab.doc, ds, gv) /\ Touches(t, w.copies, ds) /\ Sure(w.copies, R, ds, R)
    BY <1>1, <2>1, KeepStep
  <2>4. ds[c] = Fresh(t) /\ \A k \in Copies : k # c => ds[k] = w.copies[k]
    BY <1>1, <2>1
  <2> HIDE DEF ds
  <2>5. ds \in [Copies -> CopyRec(gv)]
    BY <2>3, GoodTypes
  <2>6. /\ v \in World(gv) /\ v.copies = ds /\ v.tab = [w.tab EXCEPT !.due = FALSE, !.live = c]
    BY <1>1, <2>1, <2>2, <2>5 DEF World, TabRec
  <2>7. /\ v.tab.live = c /\ v.tab.doc = w.tab.doc /\ v.tab.offered = w.tab.offered
        /\ v.tab.unsynced = w.tab.unsynced /\ Alike(w.tab, v.tab)
    BY <1>1, <2>6 DEF TabRec, Alike
  <2>8. c \notin P /\ c \notin w.tab.offered
    BY <1>1, <2>1, NoCopyFields DEF Hand
  <2>9. Held(ds, F)
    <3>1. Empty \in Docs(gv) /\ Empty \in F
      BY EmptyDoc DEF Family
    <3>2. Fresh(t).mem = Empty /\ Fresh(t).disk = {}
      BY <3>1, NewFields
    <3> QED
      BY <1>1, <2>4, <3>1, <3>2 DEF Held
  <2>10. Hand(ds, t, P) /\ Hand(ds, t, w.tab.offered)
    BY <1>1, <2>4, <2>8 DEF Hand
  <2>11. Ready(t, v, P, gv, C, F)
    BY <1>1, <2>3, <2>6, <2>7, <2>9, <2>10, ReadyMade
  <2>12. Moved(t, w, v, R)
    BY <2>3, <2>6, <2>7 DEF Moved
  <2>13. \A k \in P : v.copies[k] = w.copies[k]
    BY <1>1, <2>4, <2>6, <2>8
  <2> QED
    BY <2>1, <2>7, <2>11, <2>12, <2>13 DEF v
<1> QED
  BY <1>2, <1>3

\* A change of the live document, on a world.
LEMMA SetDocWorld ==
  ASSUME NEW t \in Tabs, NEW w, NEW P, NEW gv, NEW C, NEW F, Ready(t, w, P, gv, C, F), NEW R, gv \subseteq R,
         NEW d \in Docs(gv), w.tab.doc.has \subseteq d.has, d \in C
  PROVE  LET v == SetDoc(w, d)
         IN /\ Ready(t, v, P, gv, C, F) /\ Moved(t, w, v, R) /\ v.tab.live = w.tab.live /\ v.tab.doc = d
            /\ v.tab.offered = w.tab.offered /\ v.tab.unsynced = w.tab.unsynced /\ v.tab.due = w.tab.due
            /\ \A k \in P : v.copies[k] = w.copies[k]
<1> DEFINE v == SetDoc(w, d)
           l == w.tab.live
           ds == IF d # w.tab.doc /\ l # 0 THEN [w.copies EXCEPT ![l] = [@ EXCEPT !.unsaved = TRUE]] ELSE w.copies
<1>1. /\ w \in World(gv) /\ w.tab \in TabRec(gv) /\ w.copies \in [Copies -> CopyRec(gv)] /\ l \in Copies \cup {0}
      /\ Good(t, l, w.tab.doc, w.copies, gv) /\ P \subseteq Copies /\ Held(w.copies, F)
      /\ Hand(w.copies, t, P) /\ Hand(w.copies, t, w.tab.offered) /\ P \cap w.tab.offered = {}
      /\ w.tab.offered \in SUBSET Copies
  BY ReadyFields
<1>2. v = [w EXCEPT !.tab = [w.tab EXCEPT !.doc = d], !.copies = ds]
  BY <1>1 DEF SetDoc, World, TabRec
<1> HIDE DEF v
<1>3. /\ Good(t, l, d, ds, gv) /\ Touches(t, w.copies, ds) /\ Sure(w.copies, R, ds, R)
      /\ \A k \in Copies : k # l => ds[k] = w.copies[k]
  BY <1>1, ChangeStep
<1>4. ds \in [Copies -> CopyRec(gv)]
  BY <1>3, GoodTypes
<1>5. Held(ds, F)
  <2>1. ASSUME l \in Copies PROVE ds[l].mem = w.copies[l].mem /\ ds[l].disk = w.copies[l].disk
    <3>1. w.copies[l] \in CopyRec(gv)
      BY <1>1, <2>1
    <3> QED
      BY <1>1, <2>1, <3>1 DEF CopyRec
  <2> HIDE DEF ds
  <2> QED
    BY <1>1, <1>3, <2>1 DEF Held
<1> HIDE DEF ds
<1>6. v \in World(gv) /\ v.copies = ds /\ v.tab = [w.tab EXCEPT !.doc = d]
  BY <1>1, <1>2, <1>4 DEF World, TabRec
<1>7. /\ v.tab.live = l /\ v.tab.doc = d /\ v.tab.offered = w.tab.offered
      /\ v.tab.unsynced = w.tab.unsynced /\ v.tab.due = w.tab.due /\ Alike(w.tab, v.tab)
  BY <1>1, <1>6 DEF TabRec, Alike
<1>8. \A k \in P \cup w.tab.offered : k # l
  BY <1>1, GoodLive DEF Hand
<1>9. Hand(ds, t, P) /\ Hand(ds, t, w.tab.offered) /\ \A k \in P : ds[k] = w.copies[k]
  BY <1>1, <1>3, <1>8 DEF Hand
<1> HIDE DEF l
<1>10. Ready(t, v, P, gv, C, F)
  BY <1>1, <1>3, <1>5, <1>6, <1>7, <1>9, ReadyMade
<1>11. Moved(t, w, v, R)
  BY <1>3, <1>6, <1>7 DEF Moved
<1> QED
  BY <1>6, <1>7, <1>9, <1>10, <1>11 DEF v, l

\* A copy that goes once the live one is stored, on a world.
LEMMA AwaitWorld ==
  ASSUME NEW t \in Tabs, NEW w, NEW P, NEW gv, NEW C, NEW F, Ready(t, w, P, gv, C, F), NEW R, gv \subseteq R,
         w.tab.live \in Copies, NEW c \in P, Text(w.copies[c].mem) \subseteq Text(w.tab.doc) \cup gv
  PROVE  LET v == Await(w, c, w.tab.live)
         IN Ready(t, v, P \ {c}, gv, C, F) /\ Moved(t, w, v, R) /\ v.tab = w.tab
<1> DEFINE l == w.tab.live
           v == Await(w, c, l)
           ds == AwaitAs(w.copies, c, l)
<1>1. /\ w \in World(gv) /\ w.tab \in TabRec(gv) /\ w.copies \in [Copies -> CopyRec(gv)] /\ l \in Copies
      /\ Good(t, l, w.tab.doc, w.copies, gv) /\ P \subseteq Copies /\ Held(w.copies, F) /\ w.tab.doc \in C
      /\ Hand(w.copies, t, P) /\ Hand(w.copies, t, w.tab.offered) /\ P \cap w.tab.offered = {}
      /\ w.tab.offered \in SUBSET Copies
  BY ReadyFields
<1>g. Good(t, l, w.tab.doc, w.copies, gv) /\ l \in Copies /\ l = w.tab.live
  BY <1>1
<1> HIDE DEF l, v, ds
<1>2. c \in Copies /\ Hand(w.copies, t, {c})
  BY <1>1 DEF Hand
<1> DEFINE cs == w.copies
           d == w.tab.doc
<1>h. cs = w.copies /\ d = w.tab.doc
  OBVIOUS
<1>i. Good(t, l, d, cs, gv) /\ l \in Copies
  BY <1>g
<1> HIDE DEF cs, d
<1>3. Alive(w.copies, l) /\ w.copies[l].by = {t} /\ w.copies[l].live /\ Body(w.tab.doc, w.copies[l]) = w.tab.doc /\ c # l
  <2>1. Alive(cs, l) /\ cs[l].by = {t} /\ cs[l].live /\ Body(d, cs[l]) = d
    BY <1>i, LiveAlive
  <2> QED
    BY <1>2, <1>h, <2>1 DEF Hand
<1>a. Text(w.copies[c].mem) \subseteq Text(Body(w.tab.doc, w.copies[l])) \cup gv
  BY <1>3
<1>4. /\ Good(t, l, w.tab.doc, ds, gv) /\ Touches(t, w.copies, ds) /\ Sure(w.copies, R, ds, R)
      /\ \A k \in Copies : k # c => ds[k] = w.copies[k]
      /\ SameBody(w.copies[c], ds[c])
  <2>0. ds = AwaitAs(cs, c, l)
    BY <1>h DEF ds
  <2>3. c \in Copies
    BY <1>2
  <2>1. Hand(cs, t, {c}) /\ cs[l].by = {t} /\ Alive(cs, l) /\ c # l
        /\ Text(cs[c].mem) \subseteq Text(Body(d, cs[l])) \cup gv
    BY <1>h, <1>2, <1>3, <1>a
  <2>2. /\ Good(t, l, d, ds, gv) /\ Touches(t, cs, ds) /\ Sure(cs, R, ds, R)
        /\ \A k \in Copies : k # c => ds[k] = cs[k]
        /\ SameBody(cs[c], ds[c])
    <3>1. Followed(t, l, d, cs, c, ds, R, gv)
      BY <1>i, <2>0, <2>1, <2>3, AwaitStep
    <3> QED
      BY <3>1 DEF Followed
  <2> QED
    BY <1>h, <2>2
<1>5. ds \in [Copies -> CopyRec(gv)]
  BY <1>4, GoodTypes
<1>6. v = [w EXCEPT !.copies = ds]
  BY <1>1, <1>2 DEF Await, AwaitAs, World, v, ds
<1>7. v \in World(gv) /\ v.tab = w.tab /\ v.copies = ds
  BY <1>1, <1>5, <1>6 DEF World
<1>8. Held(ds, F)
  BY <1>1, <1>2, <1>4 DEF Held, SameBody
<1>9. Hand(ds, t, P \ {c}) /\ Hand(ds, t, w.tab.offered)
  BY <1>1, <1>4 DEF Hand
<1>10. Ready(t, v, P \ {c}, gv, C, F)
  BY <1>g, <1>1, <1>4, <1>7, <1>8, <1>9, ReadyMade
<1>11. Moved(t, w, v, R)
  BY <1>4, <1>7 DEF Moved, Alike
<1> QED
  BY <1>7, <1>10, <1>11 DEF v, l

\* One copy meets the document: it is merged and waits for the live copy, or it is offered.
LEMMA MergeCopyWorld ==
  ASSUME NEW t \in Tabs, NEW w, NEW P, NEW gv, NEW C, NEW F, Family(C, F), Ready(t, w, P, gv, C, F), HasRoom(w),
         NEW R, gv \subseteq R, NEW c \in P
  PROVE  LET v == MergeCopy(w, t, c)
         IN Ready(t, v, P \ {c}, gv, C, F) /\ Moved(t, w, v, R) /\ HasRoom(v) /\ Follows(w.tab, v.tab)
<1> DEFINE own == w.copies[c].mem
           u == Unsent(w)
           k == Keep(u, t)
           joined == SetDoc(k, Join(w.tab.doc, own))
           v == MergeCopy(w, t, c)
<1>1. /\ w \in World(gv) /\ w.tab \in TabRec(gv) /\ w.copies \in [Copies -> CopyRec(gv)]
      /\ P \subseteq Copies /\ Held(w.copies, F) /\ w.tab.doc \in C /\ w.tab.doc \in Docs(gv)
      /\ Good(t, w.tab.live, w.tab.doc, w.copies, gv)
      /\ Hand(w.copies, t, P) /\ Hand(w.copies, t, w.tab.offered) /\ P \cap w.tab.offered = {}
      /\ w.tab.offered \in SUBSET Copies
  BY ReadyFields
<1>2. own \in Docs(gv) /\ own \in F
  BY <1>1, CopyFields DEF Held
<1>3. CASE SharesHistory(own, w.tab.doc)
  <2> DEFINE d == Join(w.tab.doc, own)
  <2>1. /\ Ready(t, u, P, gv, C, F) /\ Moved(t, w, u, R) /\ u.copies = w.copies
        /\ u.tab.live = w.tab.live /\ u.tab.doc = w.tab.doc
    BY UnsentWorld
  <2>2. HasRoom(u)
    BY <2>1 DEF HasRoom
  <2> HIDE DEF u
  <2>3. /\ Ready(t, k, P, gv, C, F) /\ Moved(t, u, k, R) /\ k.tab.live \in Copies
        /\ k.tab.doc = u.tab.doc /\ \A j \in P : k.copies[j] = u.copies[j]
    BY <2>1, <2>2, KeepWorld
  <2> HIDE DEF k
  <2>4. d \in Docs(gv) /\ d \in C /\ w.tab.doc.has \subseteq d.has /\ own.has \subseteq d.has
    BY <1>1, <1>2, <1>3, JoinDoc DEF Family
  <2> HIDE DEF d
  <2>5. /\ Ready(t, joined, P, gv, C, F) /\ Moved(t, k, joined, R) /\ joined.tab.live = k.tab.live /\ joined.tab.doc = d
        /\ \A j \in P : joined.copies[j] = k.copies[j]
    <3>1. k.tab.doc.has \subseteq d.has
      BY <2>1, <2>3, <2>4
    <3>2. joined = SetDoc(k, d)
      BY DEF d
    <3> HIDE DEF joined
    <3> QED
      BY <2>3, <2>4, <3>1, <3>2, SetDocWorld
  <2>6. v = Await(joined, c, joined.tab.live)
    BY <1>3 DEF MergeCopy, k, u
  <2> HIDE DEF joined, v
  <2>7. Text(joined.copies[c].mem) \subseteq Text(joined.tab.doc) \cup gv
    <3>1. joined.copies[c].mem = own
      BY <2>1, <2>3, <2>5
    <3>2. Text(own) \subseteq Text(d) \cup gv
      BY <1>2, <2>4, TextGrows
    <3> QED
      BY <2>5, <3>1, <3>2
  <2>8. Ready(t, v, P \ {c}, gv, C, F) /\ Moved(t, joined, v, R) /\ v.tab = joined.tab
    BY <2>3, <2>5, <2>6, <2>7, AwaitWorld
  <2>9. HasRoom(v) /\ Follows(w.tab, v.tab)
    BY <2>3, <2>5, <2>8 DEF HasRoom, Follows
  <2>10. Moved(t, w, v, R)
    BY <2>1, <2>3, <2>5, <2>8, MovedTwice
  <2> QED
    BY <2>8, <2>9, <2>10 DEF v
<1>4. CASE ~SharesHistory(own, w.tab.doc)
  <2>1. v = [w EXCEPT !.tab = [w.tab EXCEPT !.offered = w.tab.offered \cup {c}]]
    BY <1>1, <1>4 DEF MergeCopy, World, TabRec
  <2> HIDE DEF v
  <2>2. [w.tab EXCEPT !.offered = w.tab.offered \cup {c}] \in TabRec(gv)
    BY <1>1 DEF TabRec
  <2>3. v \in World(gv) /\ v.copies = w.copies /\ v.tab = [w.tab EXCEPT !.offered = w.tab.offered \cup {c}]
    BY <1>1, <2>1, <2>2 DEF World
  <2>4. /\ v.tab.offered = w.tab.offered \cup {c} /\ v.tab.live = w.tab.live /\ v.tab.doc = w.tab.doc
        /\ v.tab.unsynced = w.tab.unsynced /\ Alike(w.tab, v.tab)
    BY <1>1, <2>3 DEF TabRec, Alike
  <2>5. Hand(v.copies, t, P \ {c}) /\ Hand(v.copies, t, v.tab.offered) /\ (P \ {c}) \cap v.tab.offered = {}
    BY <1>1, <2>3, <2>4 DEF Hand
  <2>6. Ready(t, v, P \ {c}, gv, C, F)
    BY <1>1, <2>3, <2>4, <2>5, ReadyMade
  <2>7. Moved(t, w, v, R)
    BY <2>3, <2>4, SureStays DEF Moved, Touches
  <2> QED
    BY <2>3, <2>4, <2>6, <2>7 DEF HasRoom, Follows, v
<1> QED
  BY <1>3, <1>4

\* The merges one after the other: the recursive function of Merge is there.
Meets(w, t, found, f) ==
  f = [n \in 0 .. Len(found) |->
         IF n = 0 THEN [w EXCEPT !.tab.restore = <<>>, !.tab.shown = 0] ELSE MergeCopy(f[n - 1], t, found[n])]
LEMMA MeetsIs ==
  ASSUME NEW w, NEW t, NEW found \in Seq(Copies)
  PROVE  \E f : Meets(w, t, found, f)
<1> DEFINE start == [w EXCEPT !.tab.restore = <<>>, !.tab.shown = 0]
           Up(m, f) == f = [n \in 0 .. m |-> IF n = 0 THEN start ELSE MergeCopy(f[n - 1], t, found[n])]
           Missing == {m \in 0 .. Len(found) : ~\E f : Up(m, f)}
<1>1. Len(found) \in Nat
  OBVIOUS
<1>2. Missing = {}
  <2>1. SUFFICES ASSUME Missing # {} PROVE FALSE
    OBVIOUS
  <2>2. Missing \in SUBSET Nat
    BY <1>1
  <2>3. PICK m \in Missing : \A n \in Missing : m <= n
    BY <2>1, <2>2, Least
  <2>4. m \in 0 .. Len(found) /\ ~\E f : Up(m, f)
    OBVIOUS
  <2>5. CASE m = 0
    <3> DEFINE f == [n \in 0 .. 0 |-> start]
    <3>1. Up(0, f)
      OBVIOUS
    <3> QED
      BY <2>4, <2>5, <3>1
  <2>6. CASE m # 0
    <3>1. m - 1 \in 0 .. Len(found) /\ m \in Nat /\ m - 1 \in Nat /\ ~(m <= m - 1)
      BY <1>1, <2>4, <2>6
    <3>2. m - 1 \notin Missing
      BY <2>3, <3>1
    <3>3. PICK g : Up(m - 1, g)
      BY <3>1, <3>2
    <3> DEFINE f == [n \in 0 .. m |-> IF n = m THEN MergeCopy(g[m - 1], t, found[m]) ELSE g[n]]
    <3>4. \A n \in 0 .. m : f[n] = IF n = 0 THEN start ELSE MergeCopy(f[n - 1], t, found[n])
      <4>1. ASSUME NEW n \in 0 .. m PROVE f[n] = IF n = 0 THEN start ELSE MergeCopy(f[n - 1], t, found[n])
        <5>1. CASE n = m
          <6>1. f[n] = MergeCopy(g[m - 1], t, found[m]) /\ f[n - 1] = g[m - 1] /\ n # 0
            BY <2>6, <3>1, <5>1
          <6> QED
            BY <5>1, <6>1
        <5>2. CASE n # m
          <6>1. n \in 0 .. (m - 1) /\ f[n] = g[n]
            BY <3>1, <5>2
          <6>2. n # 0 => n - 1 \in 0 .. m /\ n - 1 # m
            BY <3>1, <6>1
          <6>3. n # 0 => f[n - 1] = g[n - 1]
            BY <6>2
          <6>4. g[n] = IF n = 0 THEN start ELSE MergeCopy(g[n - 1], t, found[n])
            BY <3>3, <6>1
          <6> QED
            BY <6>1, <6>3, <6>4
        <5> QED
          BY <5>1, <5>2
      <4> QED
        BY <4>1
    <3>5. f = [n \in 0 .. m |-> f[n]]
      OBVIOUS
    <3> HIDE DEF f
    <3>6. Up(m, f)
      BY <3>4, <3>5
    <3> QED
      BY <2>4, <3>6
  <2> QED
    BY <2>5, <2>6
<1>3. \E f : Up(Len(found), f)
  BY <1>1, <1>2
<1> QED
  BY <1>3 DEF Meets

LEMMA MergeIs ==
  ASSUME NEW w, NEW t, w.tab.restore \in Seq(Copies)
  PROVE  \E f : Meets(w, t, w.tab.restore, f) /\ Merge(w, t) = f[Len(w.tab.restore)]
<1> DEFINE f == CHOOSE f : Meets(w, t, w.tab.restore, f)
<1>1. Meets(w, t, w.tab.restore, f)
  BY MeetsIs
<1>2. Merge(w, t) = f[Len(w.tab.restore)]
  BY DEF Merge, Meets
<1> QED
  BY <1>1, <1>2

Distinct(s) == \A i \in 1 .. Len(s) : \A j \in 1 .. Len(s) : s[i] = s[j] => i = j
LEMMA Members ==
  ASSUME NEW s \in Seq(Copies)
  PROVE  /\ Len(s) \in Nat /\ ToSet(s) \subseteq Copies /\ ToSet(s) = {s[i] : i \in 1 .. Len(s)}
         /\ (s = <<>> <=> Len(s) = 0) /\ (s = <<>> => ToSet(s) = {}) /\ \A i \in 1 .. Len(s) : s[i] \in ToSet(s)
<1>1. Len(s) \in Nat /\ DOMAIN s = 1 .. Len(s) /\ \A i \in 1 .. Len(s) : s[i] \in Copies
  OBVIOUS
<1>2. ToSet(s) = {s[i] : i \in 1 .. Len(s)}
  BY <1>1 DEF ToSet
<1> QED
  BY <1>1, <1>2

\* From a world to one with the same connection: text stored stays stored, others' copies stay, the document grows.
Later(t, w, v, R) ==
  /\ Touches(t, w.copies, v.copies) /\ Sure(w.copies, R, v.copies, R) /\ w.tab.doc.has \subseteq v.tab.doc.has
  /\ v.tab.at = w.tab.at /\ v.tab.net = w.tab.net /\ v.tab.acked = w.tab.acked /\ v.tab.looked = w.tab.looked
  /\ v.tab.watch = w.tab.watch /\ Follows(w.tab, v.tab)
Through(t, w, v, gv, C, F, R) ==
  /\ Ready(t, v, {}, gv, C, F) /\ Later(t, w, v, R) /\ v.tab.restore = <<>> /\ v.tab.shown = 0
  /\ (w.tab.unsynced => v.tab.unsynced) /\ v.tab.synced = w.tab.synced

LEMMA MergeWorld ==
  ASSUME NEW t \in Tabs, NEW w, NEW gv, NEW C, NEW F, Family(C, F), Ready(t, w, ToSet(w.tab.restore), gv, C, F),
         Distinct(w.tab.restore), HasRoom(w), NEW R, gv \subseteq R
  PROVE  Through(t, w, Merge(w, t), gv, C, F, R)
<1> DEFINE found == w.tab.restore
           start == [w EXCEPT !.tab.restore = <<>>, !.tab.shown = 0]
           Ahead(n) == {found[j] : j \in (n + 1) .. Len(found)}
           Met(z, n) ==
             Ready(t, z, Ahead(n), gv, C, F) /\ Moved(t, start, z, R) /\ HasRoom(z) /\ Follows(start.tab, z.tab)
<1>1. /\ w \in World(gv) /\ w.tab \in TabRec(gv) /\ found \in Seq(Copies) /\ Len(found) \in Nat
      /\ ToSet(found) = {found[i] : i \in 1 .. Len(found)}
  <2>1. w \in World(gv) /\ w.tab \in TabRec(gv)
    BY ReadyFields
  <2>2. w.tab.restore \in Seq(Copies)
    BY <2>1, WorldFields
  <2>3. found \in Seq(Copies)
    BY <2>2
  <2> HIDE DEF found
  <2>4. Len(found) \in Nat /\ ToSet(found) = {found[i] : i \in 1 .. Len(found)}
    BY <2>3, Members
  <2> QED
    BY <2>1, <2>3, <2>4
<1>2. PICK f : Meets(w, t, found, f) /\ Merge(w, t) = f[Len(found)]
  BY <1>1, MergeIs
<1>3. f[0] = start /\ \A n \in 1 .. Len(found) : f[n] = MergeCopy(f[n - 1], t, found[n])
  <2>1. DOMAIN f = 0 .. Len(found)
        /\ \A n \in 0 .. Len(found) : f[n] = IF n = 0 THEN start ELSE MergeCopy(f[n - 1], t, found[n])
    BY <1>2 DEF Meets
  <2> QED
    BY <1>1, <2>1
<1> DEFINE none == <<>>
           x == w.tab
           zero == 0
           y == [x EXCEPT !.restore = none, !.shown = zero]
<1>a. none \in Seq(Copies) /\ zero \in Copies \cup {0} /\ x \in TabRec(gv)
  BY <1>1
<1>b. start = [w EXCEPT !.tab = y]
  BY <1>1 DEF World, TabRec
<1>c. none = <<>> /\ x = w.tab /\ zero = 0
  OBVIOUS
<1> HIDE DEF none, x, zero, start
<1>d. /\ y \in TabRec(gv) /\ y.restore = none /\ y.shown = zero
      /\ y.live = x.live /\ y.doc = x.doc /\ y.offered = x.offered /\ y.at = x.at /\ y.net = x.net
      /\ y.acked = x.acked /\ y.looked = x.looked /\ y.watch = x.watch /\ y.unsynced = x.unsynced
      /\ y.synced = x.synced
  BY <1>a DEF TabRec
<1> HIDE DEF y
<1>4. start \in World(gv) /\ start.copies = w.copies /\ start.tab = y
  BY <1>1, <1>b, <1>d DEF World
<1>5. /\ start.tab.live = w.tab.live /\ start.tab.doc = w.tab.doc /\ start.tab.offered = w.tab.offered
      /\ start.tab.restore = <<>> /\ start.tab.shown = 0 /\ start.tab.at = w.tab.at /\ start.tab.net = w.tab.net
      /\ start.tab.acked = w.tab.acked /\ start.tab.looked = w.tab.looked /\ start.tab.watch = w.tab.watch
      /\ start.tab.unsynced = w.tab.unsynced /\ start.tab.synced = w.tab.synced
  BY <1>4, <1>c, <1>d
<1>6. Met(f[0], 0)
  <2>1. Ahead(0) = ToSet(found)
    BY <1>1
  <2>2. Ready(t, w, Ahead(0), gv, C, F)
    BY <2>1
  <2> HIDE DEF Ahead
  <2>3. Ready(t, start, Ahead(0), gv, C, F)
    BY <1>4, <1>5, <2>2 DEF Ready
  <2>4. HasRoom(start)
    BY <1>4, <1>5 DEF HasRoom
  <2>5. Follows(start.tab, start.tab)
    BY DEF Follows
  <2> QED
    BY <1>3, <2>3, <2>4, <2>5, MovedNot
<1>7. ASSUME NEW n \in 1 .. Len(found), Met(f[n - 1], n - 1) PROVE Met(f[n], n)
  <2>1. found[n] \in Ahead(n - 1)
    BY <1>1
  <2>2. Ahead(n - 1) \ {found[n]} = Ahead(n)
    <3>1. (n - 1) + 1 = n /\ n \in Nat
      BY <1>1
    <3>2. \A j \in (n + 1) .. Len(found) : found[j] # found[n] /\ j \in n .. Len(found)
      BY <1>1, <3>1 DEF Distinct
    <3>3. \A j \in n .. Len(found) : j = n \/ j \in (n + 1) .. Len(found)
      BY <1>1, <3>1
    <3> QED
      BY <3>1, <3>2, <3>3
  <2> HIDE DEF Ahead
  <2>3. f[n] = MergeCopy(f[n - 1], t, found[n])
    BY <1>3
  <2> DEFINE z == f[n - 1]
             c == found[n]
             A == Ahead(n - 1)
  <2>4. Ready(t, z, A, gv, C, F) /\ Moved(t, start, z, R) /\ HasRoom(z) /\ Follows(start.tab, z.tab) /\ c \in A
    BY <1>7, <2>1
  <2>5. f[n] = MergeCopy(z, t, c) /\ A \ {c} = Ahead(n)
    BY <2>2, <2>3
  <2> HIDE DEF z, c, A
  <2>6. LET v == MergeCopy(z, t, c)
        IN Ready(t, v, A \ {c}, gv, C, F) /\ Moved(t, z, v, R) /\ HasRoom(v) /\ Follows(z.tab, v.tab)
    BY <2>4, MergeCopyWorld
  <2>7. Ready(t, f[n], Ahead(n), gv, C, F) /\ Moved(t, z, f[n], R) /\ HasRoom(f[n]) /\ Follows(z.tab, f[n].tab)
    BY <2>5, <2>6
  <2>8. Follows(start.tab, f[n].tab)
    BY <2>4, <2>7 DEF Follows
  <2>9. Moved(t, start, f[n], R)
    BY <2>4, <2>7, MovedTwice
  <2> QED
    BY <2>7, <2>8, <2>9
<1> DEFINE Fails == {n \in 0 .. Len(found) : ~Met(f[n], n)}
<1>8. Fails = {}
  <2>1. SUFFICES ASSUME Fails # {} PROVE FALSE
    OBVIOUS
  <2>2. Fails \in SUBSET Nat
    BY <1>1
  <2>3. PICK m \in Fails : \A n \in Fails : m <= n
    BY <2>1, <2>2, Least
  <2>4. m \in 0 .. Len(found) /\ ~Met(f[m], m)
    OBVIOUS
  <2> HIDE DEF Met
  <2>5. m # 0
    BY <1>6, <2>4
  <2>6. m \in 1 .. Len(found) /\ m - 1 \in 0 .. Len(found) /\ ~(m <= m - 1)
    BY <1>1, <2>4, <2>5
  <2>7. Met(f[m - 1], m - 1)
    BY <2>3, <2>6
  <2> QED
    BY <1>7, <2>4, <2>6, <2>7
<1>9. Met(f[Len(found)], Len(found))
  <2> HIDE DEF Met
  <2> QED
    BY <1>1, <1>8
<1>10. Ahead(Len(found)) = {}
  BY <1>1
<1> DEFINE v == Merge(w, t)
<1>11. Ready(t, v, {}, gv, C, F) /\ Moved(t, start, v, R) /\ Follows(start.tab, v.tab)
  BY <1>2, <1>9, <1>10
<1> HIDE DEF v
<1>12. Follows(w.tab, v.tab)
  BY <1>5, <1>11 DEF Follows
<1> QED
  BY <1>4, <1>5, <1>11, <1>12 DEF Through, Later, Moved, Alike, v

\* What a tab says of itself goes together, and is true.
Flags(x) ==
  /\ x.at = "closed" => x = Closed
  /\ x.net = "synced" => x.restore = <<>>
  /\ x.restore = <<>> => x.shown = 0
  /\ x.shown # 0 => x.shown = x.restore[1]
  /\ x.restore # <<>> => x.unsynced
  /\ x.synced => x.net = "synced"
  /\ x.at = "refused" => x.net = "down"
  /\ Distinct(x.restore)
Truth(x, rl, gv) ==
  /\ x.net = "synced" => Text(x.acked) \subseteq Text(rl) \cup gv
  /\ x.synced \/ (x.at # "closed" /\ ~x.unsynced) => Text(x.doc) \subseteq Text(rl) \cup gv
Fit(t, w, rl, gv, C, F) ==
  Ready(t, w, ToSet(w.tab.restore), gv, C, F) /\ Flags(w.tab) /\ Truth(w.tab, rl, gv)

\* The same before the tab has said what is acknowledged and merged what it found.
Unsettled(t, w, rl, gv, C, F) ==
  /\ Ready(t, w, ToSet(w.tab.restore), gv, C, F) /\ w.tab.at # "closed"
  /\ w.tab.restore = <<>> => w.tab.shown = 0
  /\ w.tab.shown # 0 => w.tab.shown = w.tab.restore[1]
  /\ w.tab.restore # <<>> => w.tab.unsynced
  /\ w.tab.at = "refused" => w.tab.net = "down"
  /\ Distinct(w.tab.restore)
  /\ w.tab.net = "synced" => Text(w.tab.acked) \subseteq Text(rl) \cup gv
  /\ ~w.tab.unsynced => Text(w.tab.doc) \subseteq Text(rl) \cup gv
Settled(t, w, v, rl, gv, C, F, R) ==
  /\ Fit(t, v, rl, gv, C, F) /\ Later(t, w, v, R)
  /\ (w.tab.net # "synced" \/ w.tab.restore = <<>> => v.tab.doc = w.tab.doc)

\* Everything acknowledged: all text is on the relay, but what was given up.
LEMMA AckedText ==
  ASSUME NEW gv, NEW rl, NEW x \in TabRec(gv), Acked(x), x.net = "synced" => Text(x.acked) \subseteq Text(rl) \cup gv
  PROVE  x.net = "synced" /\ Text(x.doc) \subseteq Text(rl) \cup gv
<1>1. x.doc \in Docs(gv) /\ x.acked \in Docs(gv) /\ x.net = "synced" /\ x.doc.has \subseteq x.acked.has
  BY DEF TabRec, Acked, Within
<1>2. Text(x.doc) \subseteq Text(x.acked) \cup gv
  BY <1>1, TextGrows
<1> QED
  BY <1>1, <1>2

LEMMA SettleWorld ==
  ASSUME NEW t \in Tabs, NEW w, NEW rl, NEW gv, NEW C, NEW F, Family(C, F), Unsettled(t, w, rl, gv, C, F),
         w.tab.net = "synced" /\ w.tab.restore # <<>> => HasRoom(w), NEW R, gv \subseteq R
  PROVE  Settled(t, w, Settle(w, t), rl, gv, C, F, R)
<1> DEFINE m == IF w.tab.net = "synced" /\ w.tab.restore # <<>> THEN Merge(w, t) ELSE w
           v == Settle(w, t)
<1>1. Ready(t, w, ToSet(w.tab.restore), gv, C, F)
  BY DEF Unsettled
<1>2. /\ Ready(t, m, ToSet(m.tab.restore), gv, C, F) /\ Later(t, w, m, R)
      /\ (m.tab.net = "synced" => m.tab.restore = <<>>) /\ (m.tab.restore = <<>> => m.tab.shown = 0)
      /\ (m.tab.shown # 0 => m.tab.shown = m.tab.restore[1]) /\ (m.tab.restore # <<>> => m.tab.unsynced)
      /\ Distinct(m.tab.restore) /\ (~m.tab.unsynced => m.tab.doc = w.tab.doc /\ ~w.tab.unsynced)
      /\ (w.tab.net # "synced" \/ w.tab.restore = <<>> => m.tab.doc = w.tab.doc)
  <2>1. CASE w.tab.net = "synced" /\ w.tab.restore # <<>>
    <3>1. Through(t, w, m, gv, C, F, R)
      BY <1>1, <2>1, MergeWorld DEF Unsettled
    <3>2. w.tab.unsynced
      BY <2>1 DEF Unsettled
    <3> HIDE DEF m
    <3>3. m.tab.restore = <<>> /\ m.tab.shown = 0 /\ m.tab.unsynced /\ Later(t, w, m, R) /\ Ready(t, m, {}, gv, C, F)
      BY <3>1, <3>2 DEF Through
    <3>4. ToSet(m.tab.restore) = {} /\ Distinct(m.tab.restore)
      BY <3>3 DEF ToSet, Distinct
    <3> QED
      BY <2>1, <3>3, <3>4
  <2>2. CASE ~(w.tab.net = "synced" /\ w.tab.restore # <<>>)
    <3>1. m = w
      BY <2>2
    <3>2. Later(t, w, w, R)
      BY SureStays DEF Later, Touches, Follows
    <3> HIDE DEF m
    <3> QED
      BY <1>1, <2>2, <3>1, <3>2 DEF Unsettled
  <2> QED
    BY <2>1, <2>2
<1>3. v = IF Acked(m.tab) /\ m.tab.restore = <<>>
          THEN [m EXCEPT !.tab.synced = TRUE, !.tab.unsynced = FALSE, !.tab.due = m.tab.live # 0]
          ELSE [m EXCEPT !.tab.synced = Acked(m.tab), !.tab.due = FALSE]
  BY DEF Settle
<1> HIDE DEF m, v
<1>4. m \in World(gv) /\ m.tab \in TabRec(gv)
  BY <1>2, ReadyFields
<1>5. m.tab.at = w.tab.at /\ m.tab.net = w.tab.net /\ m.tab.acked = w.tab.acked
  BY <1>2 DEF Later
<1>6. Acked(m.tab) => m.tab.net = "synced" /\ Text(m.tab.doc) \subseteq Text(rl) \cup gv
  <2>1. m.tab.net = "synced" => Text(m.tab.acked) \subseteq Text(rl) \cup gv
    BY <1>5 DEF Unsettled
  <2> QED
    BY <1>4, <2>1, AckedText
<1>7. /\ v \in World(gv) /\ v.copies = m.copies /\ v.tab.live = m.tab.live /\ v.tab.doc = m.tab.doc
      /\ v.tab.offered = m.tab.offered /\ v.tab.restore = m.tab.restore /\ v.tab.shown = m.tab.shown
      /\ v.tab.at = m.tab.at /\ v.tab.net = m.tab.net /\ v.tab.acked = m.tab.acked /\ v.tab.looked = m.tab.looked
      /\ v.tab.watch = m.tab.watch
      /\ (v.tab.synced => Acked(m.tab)) /\ (~v.tab.unsynced => (Acked(m.tab) /\ m.tab.restore = <<>>) \/ ~m.tab.unsynced)
  <2> DEFINE x == m.tab
             done == Acked(m.tab)
             due == m.tab.live # 0
  <2>0. x \in TabRec(gv) /\ done \in BOOLEAN /\ due \in BOOLEAN /\ x = m.tab /\ (done <=> Acked(m.tab))
    BY <1>4 DEF Acked
  <2>1. CASE Acked(m.tab) /\ m.tab.restore = <<>>
    <3> DEFINE y == [x EXCEPT !.synced = TRUE, !.unsynced = FALSE, !.due = due]
    <3>1. v = [m EXCEPT !.tab = y]
      BY <1>3, <1>4, <2>1 DEF World, TabRec
    <3> HIDE DEF x, done, due
    <3>2. /\ y \in TabRec(gv) /\ y.live = x.live /\ y.doc = x.doc /\ y.offered = x.offered /\ y.restore = x.restore
          /\ y.shown = x.shown /\ y.at = x.at /\ y.net = x.net /\ y.acked = x.acked /\ y.looked = x.looked
          /\ y.watch = x.watch
      BY <2>0 DEF TabRec
    <3> HIDE DEF y
    <3>3. v \in World(gv) /\ v.copies = m.copies /\ v.tab = y
      BY <1>4, <3>1, <3>2 DEF World
    <3> QED
      BY <2>0, <2>1, <3>2, <3>3
  <2>2. CASE ~(Acked(m.tab) /\ m.tab.restore = <<>>)
    <3> DEFINE y == [x EXCEPT !.synced = done, !.due = FALSE]
    <3>1. v = [m EXCEPT !.tab = y]
      BY <1>3, <1>4, <2>2 DEF World, TabRec
    <3> HIDE DEF x, done, due
    <3>2. /\ y \in TabRec(gv) /\ y.live = x.live /\ y.doc = x.doc /\ y.offered = x.offered /\ y.restore = x.restore
          /\ y.shown = x.shown /\ y.at = x.at /\ y.net = x.net /\ y.acked = x.acked /\ y.looked = x.looked
          /\ y.watch = x.watch /\ y.unsynced = x.unsynced
      BY <2>0 DEF TabRec
    <3>4. y.synced = done
      BY <2>0 DEF TabRec
    <3> HIDE DEF y
    <3>3. v \in World(gv) /\ v.copies = m.copies /\ v.tab = y
      BY <1>4, <3>1, <3>2 DEF World
    <3> QED
      BY <2>0, <2>2, <3>2, <3>3, <3>4
  <2> QED
    BY <2>1, <2>2
<1>8. Ready(t, v, ToSet(v.tab.restore), gv, C, F)
  BY <1>2, <1>7 DEF Ready
<1>9. Later(t, w, v, R)
  BY <1>2, <1>7 DEF Later, Follows
<1>10. Flags(v.tab)
  <2>1. v.tab.at # "closed"
    BY <1>5, <1>7 DEF Unsettled
  <2>2. v.tab.synced => v.tab.net = "synced"
    BY <1>6, <1>7
  <2>3. v.tab.restore # <<>> => v.tab.unsynced
    BY <1>2, <1>7
  <2>4. v.tab.at = "refused" => v.tab.net = "down"
    BY <1>5, <1>7 DEF Unsettled
  <2> QED
    BY <1>2, <1>7, <2>1, <2>2, <2>3, <2>4 DEF Flags
<1>11. Truth(v.tab, rl, gv)
  <2>1. v.tab.net = "synced" => Text(v.tab.acked) \subseteq Text(rl) \cup gv
    BY <1>5, <1>7 DEF Unsettled
  <2>2. v.tab.synced => Text(v.tab.doc) \subseteq Text(rl) \cup gv
    BY <1>6, <1>7
  <2>3. ~v.tab.unsynced => Text(v.tab.doc) \subseteq Text(rl) \cup gv
    BY <1>2, <1>6, <1>7 DEF Unsettled
  <2> QED
    BY <2>1, <2>2, <2>3 DEF Truth
<1>12. w.tab.net # "synced" \/ w.tab.restore = <<>> => v.tab.doc = w.tab.doc
  BY <1>2, <1>7
<1>13. Settled(t, w, v, rl, gv, C, F, R)
  BY <1>8, <1>9, <1>10, <1>11, <1>12 DEF Settled, Fit
<1> QED
  BY <1>13 DEF v
-----------------------------------------------------------------------------
(***************************************************************************)
(* The families of documents.  M are the items of copies that are apart:   *)
(* offered as text of their own, and what was typed into them.  No other   *)
(* document has one, so that no such copy is taken for the same history.   *)
(***************************************************************************)
Marks(M, ty) ==
  /\ M \subseteq Texts \X {"typed", "offered"} /\ Texts \X {"offered"} \subseteq M
  /\ \A i \in M : i[2] = "typed" => i[1] \in ty
\* Items are of what was typed, and the relay has those a rebase made.
Ours(x, ty, rl) == \A i \in x.has : i[1] \in ty \cup {BaseText} /\ (i[2] = "rebased" => i \in rl.has)
Clean(M, ty, rl) == {x \in Documents : Ours(x, ty, rl) /\ x.has \cap M = {}}
All(M, ty, rl) == {x \in Documents : Ours(x, ty, rl) /\ (x.has \cap M = {} \/ x.has \subseteq M)}

LEMMA IsFamily ==
  ASSUME NEW M, NEW ty, NEW rl
  PROVE  Family(Clean(M, ty, rl), All(M, ty, rl))
<1> DEFINE C == Clean(M, ty, rl)
           F == All(M, ty, rl)
<1>1. C \subseteq F
  BY DEF Clean, All
<1>2. Empty \in C
  <2>1. Empty \in Documents /\ Empty.has = {}
    BY EmptyDoc, DocFields
  <2> QED
    BY <2>1 DEF Clean, Ours
<1>3. ASSUME NEW a \in C, NEW b \in C PROVE Join(a, b) \in C
  <2>1. a \in Documents /\ b \in Documents /\ Ours(a, ty, rl) /\ Ours(b, ty, rl) /\ a.has \cap M = {} /\ b.has \cap M = {}
    BY DEF Clean
  <2>2. a \in Docs(Texts) /\ b \in Docs(Texts)
    <3>1. \A d \in Documents : d \in Docs(Texts)
      BY TextsAssumption DEF Docs, Documents, Texts
    <3> QED
      BY <2>1, <3>1
  <2>3. Join(a, b) \in Documents /\ Join(a, b).has = a.has \cup b.has
    BY <2>2, JoinDoc, DocFields
  <2>4. Ours(Join(a, b), ty, rl) /\ Join(a, b).has \cap M = {}
    BY <2>1, <2>3 DEF Ours
  <2> QED
    BY <2>3, <2>4 DEF Clean
<1>4. ASSUME NEW a \in F, NEW b \in C, SharesHistory(a, b) PROVE a \in C
  BY <1>4 DEF Clean, All, SharesHistory
<1> QED
  BY <1>1, <1>2, <1>3, <1>4 DEF Family

\* More typed, more of a rebase, or one more item apart that no document had.
LEMMA FamilyGrows ==
  ASSUME NEW M, NEW ty, NEW rl, NEW N, NEW more, NEW sl, M \subseteq N, ty \subseteq more,
         \A i \in rl.has : i[2] = "rebased" => i \in sl.has,
         \A i \in N \ M : i[1] \notin ty \cup {BaseText}
  PROVE  Clean(M, ty, rl) \subseteq Clean(N, more, sl) /\ All(M, ty, rl) \subseteq All(N, more, sl)
<1>1. \A x : Ours(x, ty, rl) => Ours(x, more, sl)
  BY DEF Ours
<1>2. \A x : Ours(x, ty, rl) /\ x.has \cap M = {} => x.has \cap N = {}
  BY DEF Ours
<1>3. Clean(M, ty, rl) \subseteq Clean(N, more, sl)
  BY <1>1, <1>2 DEF Clean
<1>4. All(M, ty, rl) \subseteq All(N, more, sl)
  BY <1>1, <1>2 DEF All
<1> QED
  BY <1>3, <1>4

\* The text that needs no copy.
Safe(rl, gv) == Text(rl) \cup gv \cup {BaseText}

LEMMA RecordsGrow ==
  ASSUME NEW cuts, NEW more, cuts \subseteq more
  PROVE  CopyRec(cuts) \subseteq CopyRec(more) /\ TabRec(cuts) \subseteq TabRec(more)
BY DocsGrow DEF CopyRec, TabRec

\* A world as it was, when more is given up, typed or taken in by the relay.
LEMMA ReadyGrows ==
  ASSUME NEW t \in Tabs, NEW w, NEW P, NEW gv, NEW C, NEW F, Ready(t, w, P, gv, C, F), NEW more, gv \subseteq more,
         NEW C2, NEW F2, C \subseteq C2, F \subseteq F2
  PROVE  Ready(t, w, P, more, C2, F2)
<1>1. /\ w \in World(gv) /\ Good(t, w.tab.live, w.tab.doc, w.copies, gv)
      /\ P \subseteq Copies /\ Hand(w.copies, t, P \cup w.tab.offered) /\ P \cap w.tab.offered = {}
      /\ w.tab.doc \in C /\ Held(w.copies, F)
  BY DEF Ready
<1>2. w \in World(more)
  <2>1. CopyRec(gv) \subseteq CopyRec(more) /\ TabRec(gv) \subseteq TabRec(more)
    BY RecordsGrow
  <2> QED
    BY <1>1, <2>1 DEF World
<1>3. Good(t, w.tab.live, w.tab.doc, w.copies, more)
  BY <1>1, GoodGrows
<1>4. Held(w.copies, F2)
  BY <1>1 DEF Held
<1> QED
  BY <1>1, <1>2, <1>3, <1>4 DEF Ready

LEMMA FitGrows ==
  ASSUME NEW t \in Tabs, NEW w, NEW rl, NEW gv, NEW C, NEW F, Fit(t, w, rl, gv, C, F), NEW more, gv \subseteq more,
         NEW C2, NEW F2, C \subseteq C2, F \subseteq F2, NEW sl, Text(rl) \subseteq Text(sl) \cup more
  PROVE  Fit(t, w, sl, more, C2, F2)
<1>1. Ready(t, w, ToSet(w.tab.restore), gv, C, F) /\ Flags(w.tab) /\ Truth(w.tab, rl, gv)
  BY DEF Fit
<1>2. Ready(t, w, ToSet(w.tab.restore), more, C2, F2)
  BY <1>1, ReadyGrows
<1>3. Truth(w.tab, sl, more)
  BY <1>1 DEF Truth
<1> QED
  BY <1>1, <1>2, <1>3 DEF Fit

\* A step on tab t leaves what another tab is as it was.
Of(x, cs) == [tab |-> x, copies |-> cs]
LEMMA OthersFit ==
  ASSUME NEW t \in Tabs, NEW u \in Tabs, u # t, NEW x, NEW cs, NEW rl, NEW gv, NEW C, NEW F, Fit(u, Of(x, cs), rl, gv, C, F),
         NEW ds \in [Copies -> CopyRec(gv)], Touches(t, cs, ds), Loose(ds), Backed(ds, gv), Held(ds, F)
  PROVE  Fit(u, Of(x, ds), rl, gv, C, F)
<1> DEFINE w == Of(x, cs)
           v == Of(x, ds)
           P == ToSet(x.restore)
<1>0. w.tab = x /\ w.copies = cs /\ v.tab = x /\ v.copies = ds
  BY DEF Of
<1>w. Fit(u, w, rl, gv, C, F) /\ Ready(u, w, P, gv, C, F)
  BY <1>0 DEF Fit
<1>v. v = [tab |-> x, copies |-> ds]
  BY DEF Of
<1> HIDE DEF w, v, P
<1>1. /\ w \in World(gv) /\ w.tab \in TabRec(gv) /\ w.copies \in [Copies -> CopyRec(gv)] /\ w.tab.live \in Copies \cup {0}
      /\ w.tab.doc \in Docs(gv)
      /\ Good(u, w.tab.live, w.tab.doc, w.copies, gv) /\ P \subseteq Copies /\ w.tab.doc \in C
      /\ Hand(w.copies, u, P) /\ Hand(w.copies, u, w.tab.offered) /\ P \cap w.tab.offered = {} /\ w.tab.offered \in SUBSET Copies
  BY <1>w, ReadyFields
<1>2. v \in World(gv)
  BY <1>0, <1>1, <1>v DEF World
<1>3. \A k \in Copies : cs[k].by = {u} => ds[k] = cs[k]
  BY DEF Touches
<1> DEFINE l == x.live
           d == x.doc
<1>4. Good(u, l, d, cs, gv) /\ l \in Copies \cup {0} /\ d \in Docs(gv) /\ cs \in [Copies -> CopyRec(gv)]
  BY <1>0, <1>1
<1> HIDE DEF l, d
<1>5. Own(u, l, d, cs, gv)
  BY <1>4, GoodTypes
<1>6. Own(u, l, d, ds, gv)
  BY <1>4, <1>5, OthersOwn
<1>7. Good(u, l, d, ds, gv)
  BY <1>4, <1>6 DEF Good
<1>8. Good(u, v.tab.live, v.tab.doc, v.copies, gv) /\ v.tab.doc \in C /\ Held(v.copies, F)
  BY <1>0, <1>1, <1>7 DEF l, d
<1>9. Hand(v.copies, u, P) /\ Hand(v.copies, u, v.tab.offered) /\ P \cap v.tab.offered = {}
  BY <1>0, <1>1, <1>3 DEF Hand
<1>10. Ready(u, v, P, gv, C, F)
  BY <1>1, <1>2, <1>8, <1>9, ReadyMade
<1>11. Flags(v.tab) /\ Truth(v.tab, rl, gv) /\ P = ToSet(v.tab.restore)
  BY <1>0, <1>w DEF Fit, P
<1>12. Fit(u, v, rl, gv, C, F)
  BY <1>10, <1>11 DEF Fit
<1> QED
  BY <1>12 DEF v
-----------------------------------------------------------------------------
(***************************************************************************)
(* The invariant, on the values of the variables, but for what was brought *)
(* back: every tab is fit, what is stored is sure to stay, and documents   *)
(* are one family.                                                         *)
(***************************************************************************)
Core(M, tb, cs, rl, ty, kp, gv, lg) ==
  /\ tb \in [Tabs -> TabRec(gv)] /\ cs \in [Copies -> CopyRec(gv)] /\ Loose(cs) /\ Backed(cs, gv)
  /\ Held(cs, All(M, ty, rl))
  /\ rl \in Docs(gv) /\ rl \in Clean(M, ty, rl) /\ \A i \in rl.has : i[2] = "rebased" => i[1] \in Edits
  /\ ty \subseteq Edits /\ gv \subseteq Texts /\ lg \subseteq Large /\ Marks(M, ty)
  /\ \A t \in Tabs : Fit(t, Of(tb[t], cs), rl, gv, Clean(M, ty, rl), All(M, ty, rl))
  /\ kp \subseteq Texts \cap Cover(cs, Safe(rl, gv)) /\ DoomedOK(cs, Safe(rl, gv))

\* What a step of tab t makes of it and of the copies.
Turns(t, cs, v, rl, gv, C, F, R) ==
  Fit(t, v, rl, gv, C, F) /\ Touches(t, cs, v.copies) /\ Sure(cs, R, v.copies, Safe(rl, gv))
Grows(M, rl, ty, gv, N, sl, more, given2) ==
  /\ sl \in Docs(given2) /\ sl \in Clean(N, more, sl) /\ \A i \in sl.has : i[2] = "rebased" => i[1] \in Edits
  /\ more \subseteq Edits /\ gv \subseteq given2 /\ given2 \subseteq Texts /\ Marks(N, more)
  /\ Text(rl) \subseteq Text(sl) \cup given2
  /\ Clean(M, ty, rl) \subseteq Clean(N, more, sl) /\ All(M, ty, rl) \subseteq All(N, more, sl)

LEMMA CoreStep ==
  ASSUME NEW M, NEW tb, NEW cs, NEW rl, NEW ty, NEW kp, NEW gv, NEW lg, Core(M, tb, cs, rl, ty, kp, gv, lg),
         NEW N, NEW sl, NEW more, NEW given2, Grows(M, rl, ty, gv, N, sl, more, given2),
         NEW t \in Tabs, NEW v, Turns(t, cs, v, sl, given2, Clean(N, more, sl), All(N, more, sl), Safe(rl, gv)),
         NEW tb2, tb2 = [tb EXCEPT ![t] = v.tab]
  PROVE  Core(N, tb2, v.copies, sl, more, kp, given2, lg)
<1> DEFINE C == Clean(M, ty, rl)
           F == All(M, ty, rl)
           D == Clean(N, more, sl)
           G == All(N, more, sl)
           ds == v.copies
<1>1. Fit(t, v, sl, given2, D, G) /\ Touches(t, cs, ds) /\ Sure(cs, Safe(rl, gv), ds, Safe(sl, given2))
  BY DEF Turns
<1>2. C \subseteq D /\ F \subseteq G /\ gv \subseteq given2 /\ Text(rl) \subseteq Text(sl) \cup given2
  BY DEF Grows
<1>3. v \in World(given2) /\ Ready(t, v, ToSet(v.tab.restore), given2, D, G)
  BY <1>1 DEF Fit, Ready
<1>4. /\ v.tab \in TabRec(given2) /\ ds \in [Copies -> CopyRec(given2)] /\ Held(ds, G)
      /\ Loose(ds) /\ Backed(ds, given2) /\ v = Of(v.tab, ds)
  <2>1. Good(t, v.tab.live, v.tab.doc, v.copies, given2) /\ Held(ds, G)
    BY <1>3 DEF Ready
  <2>2. v.tab \in TabRec(given2) /\ v = Of(v.tab, ds)
    BY <1>3, WorldFields DEF Of
  <2> QED
    BY <2>1, <2>2 DEF Good
<1> HIDE DEF C, D, F, G, ds
<1>5. ASSUME NEW u \in Tabs PROVE tb2[u] \in TabRec(given2) /\ Fit(u, Of(tb2[u], ds), sl, given2, D, G)
  <2>1. CASE u = t
    <3>1. tb2[u] = v.tab
      BY <2>1 DEF Core
    <3> QED
      BY <1>1, <1>4, <2>1, <3>1
  <2>2. CASE u # t
    <3>1. tb2[u] = tb[u] /\ tb[u] \in TabRec(gv)
      BY <2>2 DEF Core
    <3>2. tb[u] \in TabRec(given2)
      BY <1>2, <3>1, RecordsGrow
    <3>3. Fit(u, Of(tb[u], cs), rl, gv, C, F)
      BY DEF Core, C, F
    <3>4. Fit(u, Of(tb[u], cs), sl, given2, D, G)
      BY <1>2, <3>3, FitGrows
    <3> DEFINE x == tb[u]
    <3> HIDE DEF x
    <3>5. Fit(u, Of(x, cs), sl, given2, D, G)
      BY <3>4 DEF x
    <3>6. Fit(u, Of(x, ds), sl, given2, D, G)
      BY <1>1, <1>4, <2>2, <3>5, OthersFit
    <3> QED
      BY <3>1, <3>2, <3>6 DEF x
  <2> QED
    BY <2>1, <2>2
<1>6. tb2 \in [Tabs -> TabRec(given2)]
  <2>1. tb2 = [u \in Tabs |-> tb2[u]]
    BY DEF Core
  <2> QED
    BY <1>5, <2>1
<1>7. kp \subseteq Texts \cap Cover(ds, Safe(sl, given2)) /\ DoomedOK(ds, Safe(sl, given2))
  BY <1>1 DEF Core, Sure
<1>8. lg \subseteq Large
  BY DEF Core
<1> QED
  BY <1>4, <1>5, <1>6, <1>7, <1>8 DEF Core, Grows, D, G, ds

\* Nothing new is typed, given up or taken in.
LEMMA GrowsNot ==
  ASSUME NEW M, NEW tb, NEW cs, NEW rl, NEW ty, NEW kp, NEW gv, NEW lg, Core(M, tb, cs, rl, ty, kp, gv, lg)
  PROVE  Grows(M, rl, ty, gv, M, rl, ty, gv)
BY DEF Core, Grows

LEMMA CoreTab ==
  ASSUME NEW M, NEW tb, NEW cs, NEW rl, NEW ty, NEW kp, NEW gv, NEW lg, Core(M, tb, cs, rl, ty, kp, gv, lg), NEW t \in Tabs
  PROVE  /\ Fit(t, Of(tb[t], cs), rl, gv, Clean(M, ty, rl), All(M, ty, rl)) /\ tb[t] \in TabRec(gv) /\ rl \in Docs(gv)
         /\ cs \in [Copies -> CopyRec(gv)] /\ Loose(cs) /\ Backed(cs, gv) /\ Held(cs, All(M, ty, rl))
         /\ Of(tb[t], cs) \in World(gv) /\ Of(tb[t], cs).tab = tb[t] /\ Of(tb[t], cs).copies = cs
         /\ gv \subseteq Safe(rl, gv)
<1>1. Fit(t, Of(tb[t], cs), rl, gv, Clean(M, ty, rl), All(M, ty, rl)) /\ tb[t] \in TabRec(gv) /\ rl \in Docs(gv)
      /\ cs \in [Copies -> CopyRec(gv)] /\ Loose(cs) /\ Backed(cs, gv) /\ Held(cs, All(M, ty, rl))
  BY DEF Core
<1>2. Of(tb[t], cs) \in World(gv) /\ Of(tb[t], cs).tab = tb[t] /\ Of(tb[t], cs).copies = cs
  BY <1>1 DEF Of, World
<1>3. gv \subseteq Safe(rl, gv)
  BY DEF Safe
<1> QED
  BY <1>1, <1>2, <1>3
-----------------------------------------------------------------------------
(***************************************************************************)
(* The rest of the invariant: what was brought back.  Where a text is both *)
(* as it was typed and as a rebase put it back, it is one of the stale     *)
(* ones; and a large text of a tab without a copy is one the relay has, so *)
(* that a tab that is refused has a copy.                                  *)
(***************************************************************************)
Both(e, a, b) == <<e, "typed">> \in a.has /\ <<e, "rebased">> \in b.has
Big(d, rl, lg) == \A i \in d.has : i[1] \in lg => i \in rl.has
One(x, rl, st, lg) ==
  /\ \A e \in Edits : x.at \in {"open", "refused"} /\ Both(e, x.doc, x.doc) => e \in st
  /\ \A e \in Edits : x.at = "open" /\ x.net = "synced" /\ Both(e, x.doc, rl) => e \in st
  /\ x.at = "refused" => x.live \in Copies
  /\ x.live \in Copies \/ Big(x.doc, rl, lg)
  /\ x.net = "synced" => Big(x.acked, rl, lg)
Once(tb, rl, st, lg) ==
  /\ \A e \in Edits : Both(e, rl, rl) => e \in st
  /\ Text(rl) \cap lg = {}
  /\ \A t \in Tabs : One(tb[t], rl, st, lg)

Whole(M, tb, cs, rl, ty, kp, gv, lg, st) == Core(M, tb, cs, rl, ty, kp, gv, lg) /\ Once(tb, rl, st, lg)

\* What a tab says of itself but for its copies stays, when it settles.
Says(y, z) == z.at = y.at /\ z.net = y.net /\ z.acked = y.acked /\ Follows(y, z) /\ y.doc.has \subseteq z.doc.has

LEMMA OneSays ==
  ASSUME NEW y, NEW z, NEW rl, NEW st, NEW lg, One(y, rl, st, lg), Says(y, z), z.doc = y.doc
  PROVE  One(z, rl, st, lg)
BY DEF One, Says, Follows

\* Merges are of a synced tab, and what they bring back is noted.
LEMMA OneMerged ==
  ASSUME NEW y, NEW z, NEW rl, NEW st, NEW lg, One(y, rl, st, lg), Says(y, z), NEW ty, Ours(z.doc, ty, rl),
         y.net = "synced" \/ z.doc = y.doc, y.at = "refused" => y.net = "down", NEW st2, st \subseteq st2,
         \A e \in Edits : <<e, "typed">> \in z.doc.has \ y.doc.has /\ <<e, "rebased">> \in rl.has => e \in st2
  PROVE  One(z, rl, st2, lg)
<1>1. CASE z.doc = y.doc
  <2>1. One(z, rl, st, lg)
    BY <1>1, OneSays
  <2> QED
    BY <2>1 DEF One
<1>2. CASE y.net = "synced" /\ z.doc # y.doc
  <2>1. y.at = z.at /\ z.net = "synced" /\ z.at # "refused" /\ z.live \in Copies /\ z.acked = y.acked
    BY <1>2 DEF Says, Follows
  <2>2. ASSUME NEW e \in Edits, z.at = "open", Both(e, z.doc, rl) PROVE e \in st2
    BY <1>2, <2>1, <2>2 DEF One, Both
  <2>3. ASSUME NEW e \in Edits, z.at = "open", Both(e, z.doc, z.doc) PROVE e \in st2
    <3>1. <<e, "rebased">> \in rl.has
      BY <2>3 DEF Ours, Both
    <3> QED
      BY <2>2, <2>3, <3>1 DEF Both
  <2>4. Big(z.acked, rl, lg)
    BY <1>2, <2>1 DEF One
  <2> QED
    BY <2>1, <2>2, <2>3, <2>4 DEF One
<1> QED
  BY <1>1, <1>2

\* A step of one tab, with the relay as it was.
LEMMA OnceStep ==
  ASSUME NEW tb, NEW rl, NEW st, NEW lg, Once(tb, rl, st, lg), NEW t \in Tabs, NEW gv, tb \in [Tabs -> TabRec(gv)],
         NEW st2, st \subseteq st2, NEW y, One(y, rl, st2, lg), NEW tb2, tb2 = [tb EXCEPT ![t] = y]
  PROVE  Once(tb2, rl, st2, lg)
<1>1. ASSUME NEW u \in Tabs PROVE One(tb2[u], rl, st2, lg)
  <2>1. CASE u = t
    BY <2>1
  <2>2. CASE u # t
    <3>1. tb2[u] = tb[u] /\ One(tb[u], rl, st, lg)
      BY <2>2 DEF Once
    <3>2. One(tb[u], rl, st2, lg)
      BY <3>1 DEF One
    <3> QED
      BY <3>1, <3>2
  <2> QED
    BY <2>1, <2>2
<1> QED
  BY <1>1 DEF Once

\* What an open and synced tab sends is taken in.
LEMMA OnceRelay ==
  ASSUME NEW tb, NEW rl, NEW st, NEW lg, Once(tb, rl, st, lg), NEW t \in Tabs, tb[t].at = "open", tb[t].net = "synced",
         NEW ty, Ours(tb[t].doc, ty, rl), NEW sl, sl.has = rl.has \cup tb[t].doc.has, Text(sl) \cap lg = {}
  PROVE  Once(tb, sl, st, lg)
<1>1. \A e : <<e, "rebased">> \in sl.has => <<e, "rebased">> \in rl.has
  BY DEF Ours
<1>2. ASSUME NEW e \in Edits, Both(e, sl, sl) PROVE e \in st
  BY <1>1, <1>2 DEF Once, One, Both
<1>3. ASSUME NEW u \in Tabs PROVE One(tb[u], sl, st, lg)
  <2>1. One(tb[u], rl, st, lg)
    BY DEF Once
  <2> QED
    BY <1>1, <2>1 DEF One, Both, Big
<1> QED
  BY <1>2, <1>3 DEF Once
-----------------------------------------------------------------------------
(* The steps of a tab, one lemma for each *)

LEMMA GrowsFields ==
  ASSUME NEW M, NEW rl, NEW ty, NEW gv, NEW N, NEW sl, NEW more, NEW given2, Grows(M, rl, ty, gv, N, sl, more, given2)
  PROVE  /\ sl \in Docs(given2) /\ gv \subseteq given2 /\ Text(rl) \subseteq Text(sl) \cup given2
         /\ Clean(M, ty, rl) \subseteq Clean(N, more, sl) /\ All(M, ty, rl) \subseteq All(N, more, sl)
         /\ Safe(rl, gv) \subseteq Safe(sl, given2) /\ given2 \subseteq Safe(sl, given2) /\ sl \in Clean(N, more, sl)
         /\ Marks(N, more) /\ Family(Clean(N, more, sl), All(N, more, sl))
BY IsFamily DEF Grows, Safe

\* A tab, seen with what is typed, given up and on the relay afterwards.
LEMMA CoreStart ==
  ASSUME NEW M, NEW tb, NEW cs, NEW rl, NEW ty, NEW kp, NEW gv, NEW lg, Core(M, tb, cs, rl, ty, kp, gv, lg),
         NEW N, NEW sl, NEW more, NEW given2, Grows(M, rl, ty, gv, N, sl, more, given2), NEW t \in Tabs
  PROVE  Fit(t, Of(tb[t], cs), sl, given2, Clean(N, more, sl), All(N, more, sl)) /\ tb[t] \in TabRec(given2)
<1>1. Fit(t, Of(tb[t], cs), rl, gv, Clean(M, ty, rl), All(M, ty, rl)) /\ tb[t] \in TabRec(gv)
  BY CoreTab
<1>2. gv \subseteq given2
  BY GrowsFields
<1>3. tb[t] \in TabRec(given2)
  BY <1>1, <1>2, RecordsGrow
<1> DEFINE w == Of(tb[t], cs)
<1>4. Fit(t, w, rl, gv, Clean(M, ty, rl), All(M, ty, rl))
  BY <1>1
<1> HIDE DEF w
<1>5. Fit(t, w, sl, given2, Clean(N, more, sl), All(N, more, sl))
  BY <1>4, GrowsFields, FitGrows
<1> QED
  BY <1>3, <1>5 DEF w

LEMMA CoreTurn ==
  ASSUME NEW M, NEW tb, NEW cs, NEW rl, NEW ty, NEW kp, NEW gv, NEW lg, Core(M, tb, cs, rl, ty, kp, gv, lg),
         NEW N, NEW sl, NEW more, NEW given2, Grows(M, rl, ty, gv, N, sl, more, given2),
         NEW t \in Tabs, NEW v, Fit(t, v, sl, given2, Clean(N, more, sl), All(N, more, sl)), Touches(t, cs, v.copies),
         Sure(cs, Safe(sl, given2), v.copies, Safe(sl, given2)),
         NEW tb2, tb2 = [tb EXCEPT ![t] = v.tab], NEW ds, ds = v.copies
  PROVE  Core(N, tb2, ds, sl, more, kp, given2, lg)
<1>1. Sure(cs, Safe(rl, gv), cs, Safe(sl, given2))
  BY GrowsFields, SureGrows
<1>2. Sure(cs, Safe(rl, gv), v.copies, Safe(sl, given2))
  BY <1>1, SureTwice
<1>3. Turns(t, cs, v, sl, given2, Clean(N, more, sl), All(N, more, sl), Safe(rl, gv))
  BY <1>2 DEF Turns
<1> QED
  BY <1>3, CoreStep

LEMMA CoreSettle ==
  ASSUME NEW M, NEW tb, NEW cs, NEW rl, NEW ty, NEW kp, NEW gv, NEW lg, Core(M, tb, cs, rl, ty, kp, gv, lg),
         NEW N, NEW sl, NEW more, NEW given2, Grows(M, rl, ty, gv, N, sl, more, given2),
         NEW t \in Tabs, NEW w, Unsettled(t, w, sl, given2, Clean(N, more, sl), All(N, more, sl)), Touches(t, cs, w.copies),
         Sure(cs, Safe(sl, given2), w.copies, Safe(sl, given2)),
         w.tab.net = "synced" /\ w.tab.restore # <<>> => HasRoom(w)
  PROVE  LET v == Settle(w, t)
         IN /\ Fit(t, v, sl, given2, Clean(N, more, sl), All(N, more, sl)) /\ Touches(t, cs, v.copies)
            /\ Sure(cs, Safe(sl, given2), v.copies, Safe(sl, given2)) /\ Says(w.tab, v.tab)
            /\ (w.tab.net # "synced" \/ w.tab.restore = <<>> => v.tab.doc = w.tab.doc)
<1> DEFINE v == Settle(w, t)
           S == Safe(sl, given2)
           D == Clean(N, more, sl)
           G == All(N, more, sl)
<1>1. Family(D, G) /\ given2 \subseteq S
  BY GrowsFields
<1>2. Settled(t, w, v, sl, given2, D, G, S)
  BY <1>1, SettleWorld
<1>3. /\ Fit(t, v, sl, given2, D, G) /\ Touches(t, w.copies, v.copies) /\ Sure(w.copies, S, v.copies, S)
      /\ Says(w.tab, v.tab) /\ (w.tab.net # "synced" \/ w.tab.restore = <<>> => v.tab.doc = w.tab.doc)
  BY <1>2 DEF Settled, Later, Says
<1>4. Touches(t, cs, v.copies) /\ Sure(cs, S, v.copies, S)
  BY <1>3, TouchesTwice, SureTwice
<1> QED
  BY <1>3, <1>4

\* A tab that changed in what is not of its copies.
LEMMA TabFit ==
  ASSUME NEW t \in Tabs, NEW x, NEW cs, NEW rl, NEW gv, NEW C, NEW F, Fit(t, Of(x, cs), rl, gv, C, F),
         NEW y \in TabRec(gv), y.live = x.live, y.doc = x.doc, y.offered = x.offered, y.restore = x.restore
  PROVE  /\ Ready(t, Of(y, cs), ToSet(y.restore), gv, C, F) /\ Of(y, cs).tab = y /\ Of(y, cs).copies = cs
         /\ Flags(y) /\ Truth(y, rl, gv) => Fit(t, Of(y, cs), rl, gv, C, F)
<1> DEFINE w == Of(x, cs)
           v == Of(y, cs)
           P == ToSet(x.restore)
<1>1. w.tab = x /\ w.copies = cs /\ v.tab = y /\ v.copies = cs /\ v = [tab |-> y, copies |-> cs]
  BY DEF Of
<1>2. Ready(t, w, P, gv, C, F)
  BY <1>1 DEF Fit
<1> HIDE DEF w, v, P
<1>3. /\ w.copies \in [Copies -> CopyRec(gv)] /\ Good(t, w.tab.live, w.tab.doc, w.copies, gv) /\ P \subseteq Copies
      /\ w.tab.doc \in C /\ Held(w.copies, F) /\ Hand(w.copies, t, P) /\ Hand(w.copies, t, w.tab.offered)
      /\ P \cap w.tab.offered = {}
  BY <1>2, ReadyFields
<1>4. v \in World(gv)
  BY <1>1, <1>3 DEF World
<1>5. /\ Good(t, v.tab.live, v.tab.doc, v.copies, gv) /\ v.tab.doc \in C /\ Held(v.copies, F) /\ Hand(v.copies, t, P)
      /\ Hand(v.copies, t, v.tab.offered) /\ P \cap v.tab.offered = {}
  BY <1>1, <1>3
<1>6. Ready(t, v, P, gv, C, F)
  BY <1>3, <1>4, <1>5, ReadyMade
<1>7. P = ToSet(y.restore) /\ P = ToSet(v.tab.restore)
  BY <1>1 DEF P
<1>8. Flags(y) /\ Truth(y, rl, gv) => Fit(t, v, rl, gv, C, F)
  BY <1>1, <1>6, <1>7 DEF Fit
<1> QED
  BY <1>1, <1>6, <1>7, <1>8 DEF v

\* What a tab is.
LEMMA FitTab ==
  ASSUME NEW t \in Tabs, NEW x, NEW cs, NEW rl, NEW gv, NEW C, NEW F, Fit(t, Of(x, cs), rl, gv, C, F)
  PROVE  Flags(x) /\ Truth(x, rl, gv) /\ Ready(t, Of(x, cs), ToSet(x.restore), gv, C, F) /\ x \in TabRec(gv) /\ x.doc \in C
<1>1. Of(x, cs).tab = x
  BY DEF Of
<1>2. Flags(x) /\ Truth(x, rl, gv) /\ Ready(t, Of(x, cs), ToSet(x.restore), gv, C, F)
  BY <1>1 DEF Fit
<1> QED
  BY <1>1, <1>2, ReadyFields

\* A tab that only says another thing of itself.
LEMMA CoreSay ==
  ASSUME NEW M, NEW tb, NEW cs, NEW rl, NEW ty, NEW kp, NEW gv, NEW lg, Core(M, tb, cs, rl, ty, kp, gv, lg),
         NEW t \in Tabs, NEW y \in TabRec(gv), y.live = tb[t].live, y.doc = tb[t].doc, y.offered = tb[t].offered,
         y.restore = tb[t].restore, Flags(y), Truth(y, rl, gv)
  PROVE  Core(M, [tb EXCEPT ![t] = y], cs, rl, ty, kp, gv, lg)
<1> DEFINE C == Clean(M, ty, rl)
           F == All(M, ty, rl)
           x == tb[t]
           v == Of(y, cs)
           tb2 == [tb EXCEPT ![t] = y]
           ds == cs
<1>1. Fit(t, Of(x, cs), rl, gv, C, F) /\ y.live = x.live /\ y.doc = x.doc /\ y.offered = x.offered /\ y.restore = x.restore
  BY CoreTab
<1> HIDE DEF x
<1>2. Fit(t, v, rl, gv, C, F) /\ v.tab = y /\ v.copies = cs
  BY <1>1, TabFit
<1> HIDE DEF v
<1>3. Touches(t, cs, v.copies) /\ Sure(cs, Safe(rl, gv), v.copies, Safe(rl, gv))
  BY <1>2, SureStays DEF Touches
<1>4. Grows(M, rl, ty, gv, M, rl, ty, gv)
  BY GrowsNot
<1>5. tb2 = [tb EXCEPT ![t] = v.tab] /\ ds = v.copies
  BY <1>2
<1>6. Fit(t, v, rl, gv, Clean(M, ty, rl), All(M, ty, rl))
  BY <1>2
<1> HIDE DEF tb2, ds, C, F
<1>7. Core(M, tb2, ds, rl, ty, kp, gv, lg)
  BY <1>3, <1>4, <1>5, <1>6, CoreTurn
<1> QED
  BY <1>7 DEF tb2, ds

LEMMA OpenNoteCore ==
  ASSUME NEW M, Core(M, tab, copies, relay, typed, kept, given, large), Once(tab, relay, stale, large), NEW t \in Tabs, OpenNote(t)
  PROVE  Core(M, tab', copies', relay', typed', kept', given', large') /\ Once(tab', relay', stale', large')
<1> DEFINE x == tab[t]
           y == [x EXCEPT !.at = "open"]
<1>1. x \in TabRec(given) /\ Flags(x) /\ x.at = "closed"
  BY CoreTab, FitTab DEF OpenNote
<1>2. x = Closed
  BY <1>1 DEF Flags
<1>3. tab' = [tab EXCEPT ![t] = y]
  BY DEF OpenNote
<1> HIDE DEF x
<1>4. /\ y \in TabRec(given) /\ y.live = x.live /\ y.doc = x.doc /\ y.offered = x.offered /\ y.restore = x.restore
      /\ y.at = "open" /\ y.net = x.net /\ y.shown = x.shown /\ y.unsynced = x.unsynced /\ y.synced = x.synced
  BY <1>1 DEF TabRec
<1>5. x.net = "down" /\ x.doc = Empty /\ x.restore = <<>> /\ x.shown = 0 /\ ~x.synced /\ ~x.unsynced
  BY <1>2 DEF Closed
<1>6. Flags(y)
  BY <1>1, <1>4, <1>5 DEF Flags
<1>7. Truth(y, relay, given)
  BY <1>4, <1>5, EmptyDoc DEF Truth
<1>8. Core(M, tab', copies, relay, typed, kept, given, large)
  <2> HIDE DEF y
  <2> QED
    BY <1>3, <1>4, <1>6, <1>7, CoreSay DEF x
<1>9. One(y, relay, stale, large)
  BY <1>4, <1>5, EmptyDoc DEF One, Both, Big
<1>10. Once(tab', relay, stale, large)
  <2>1. tab \in [Tabs -> TabRec(given)]
    BY DEF Core
  <2> QED
    BY <1>3, <1>9, <2>1, OnceStep
<1> QED
  BY <1>8, <1>10 DEF OpenNote

LEMMA StopCore ==
  ASSUME NEW M, Core(M, tab, copies, relay, typed, kept, given, large), Once(tab, relay, stale, large), NEW t \in Tabs, StopForGood(t)
  PROVE  Core(M, tab', copies', relay', typed', kept', given', large') /\ Once(tab', relay', stale', large')
<1> DEFINE x == tab[t]
           y == [x EXCEPT !.at = "stopped"]
<1>1. x \in TabRec(given) /\ Flags(x) /\ Truth(x, relay, given) /\ x.at = "open"
  BY CoreTab, FitTab DEF StopForGood, Open
<1>3. tab' = [tab EXCEPT ![t] = y]
  BY DEF StopForGood
<1> HIDE DEF x
<1>4. /\ y \in TabRec(given) /\ y.live = x.live /\ y.doc = x.doc /\ y.offered = x.offered /\ y.restore = x.restore
      /\ y.at = "stopped" /\ y.net = x.net /\ y.shown = x.shown /\ y.unsynced = x.unsynced /\ y.synced = x.synced
      /\ y.acked = x.acked
  BY <1>1 DEF TabRec
<1>6. Flags(y)
  BY <1>1, <1>4 DEF Flags
<1>7. Truth(y, relay, given)
  BY <1>1, <1>4 DEF Truth
<1>8. Core(M, tab', copies, relay, typed, kept, given, large)
  <2> HIDE DEF y
  <2> QED
    BY <1>3, <1>4, <1>6, <1>7, CoreSay DEF x
<1>9. One(y, relay, stale, large)
  <2>1. One(x, relay, stale, large)
    BY DEF Once, x
  <2> QED
    BY <1>4, <2>1 DEF One, Both, Big
<1>10. Once(tab', relay, stale, large)
  <2>1. tab \in [Tabs -> TabRec(given)]
    BY DEF Core
  <2> QED
    BY <1>3, <1>9, <2>1, OnceStep
<1> QED
  BY <1>8, <1>10 DEF StopForGood

\* A tab before it settles, whose copies are those it had.
LEMMA UnsettledTab ==
  ASSUME NEW t \in Tabs, NEW x, NEW cs, NEW rl, NEW gv, NEW C, NEW F, Fit(t, Of(x, cs), rl, gv, C, F), x.at # "closed",
         NEW y \in TabRec(gv), y.live = x.live, y.doc = x.doc, y.offered = x.offered, y.restore = x.restore,
         y.shown = x.shown, y.unsynced = x.unsynced, y.at # "closed", y.at = "refused" => y.net = "down",
         y.net = "synced" => Text(y.acked) \subseteq Text(rl) \cup gv
  PROVE  Unsettled(t, Of(y, cs), rl, gv, C, F) /\ Of(y, cs).tab = y /\ Of(y, cs).copies = cs
<1>1. Flags(x) /\ Truth(x, rl, gv)
  BY FitTab
<1>2. Ready(t, Of(y, cs), ToSet(y.restore), gv, C, F) /\ Of(y, cs).tab = y /\ Of(y, cs).copies = cs
  BY TabFit
<1> DEFINE v == Of(y, cs)
<1>3. Ready(t, v, ToSet(v.tab.restore), gv, C, F) /\ v.tab = y
  BY <1>2
<1> HIDE DEF v
<1>4. Unsettled(t, v, rl, gv, C, F)
  BY <1>1, <1>3 DEF Unsettled, Flags, Truth
<1> QED
  BY <1>2, <1>4 DEF v

\* A tab without copies to merge that says something else of its connection, and settles.
LEMMA CoreConnection ==
  ASSUME NEW M, NEW tb, NEW cs, NEW rl, NEW ty, NEW kp, NEW gv, NEW lg, Core(M, tb, cs, rl, ty, kp, gv, lg),
         NEW t \in Tabs, tb[t].at # "closed", tb[t].restore = <<>>,
         NEW y \in TabRec(gv), y.live = tb[t].live, y.doc = tb[t].doc, y.offered = tb[t].offered,
         y.restore = tb[t].restore, y.shown = tb[t].shown, y.unsynced = tb[t].unsynced, y.at # "closed",
         y.at = "refused" => y.net = "down", y.net = "synced" => Text(y.acked) \subseteq Text(rl) \cup gv,
         NEW v, v = Settle(Of(y, cs), t), NEW tb2, tb2 = [tb EXCEPT ![t] = v.tab], NEW ds, ds = v.copies,
         NEW st, Once(tb, rl, st, lg), One(y, rl, st, lg)
  PROVE  Whole(M, tb2, ds, rl, ty, kp, gv, lg, st)
<1> DEFINE C == Clean(M, ty, rl)
           F == All(M, ty, rl)
           S == Safe(rl, gv)
           x == tb[t]
           w == Of(y, cs)
<1>0. Grows(M, rl, ty, gv, M, rl, ty, gv)
  BY GrowsNot
<1>1. /\ Fit(t, Of(x, cs), rl, gv, C, F) /\ x.at # "closed" /\ x.restore = <<>>
      /\ y.live = x.live /\ y.doc = x.doc /\ y.offered = x.offered
      /\ y.restore = x.restore /\ y.shown = x.shown /\ y.unsynced = x.unsynced
  BY CoreTab
<1> HIDE DEF x, C, F
<1>2. Unsettled(t, w, rl, gv, C, F) /\ w.tab = y /\ w.copies = cs
  BY <1>1, UnsettledTab
<1>3. v = Settle(w, t)
  OBVIOUS
<1> HIDE DEF w
<1>4. Touches(t, cs, w.copies) /\ Sure(cs, S, w.copies, S) /\ ~(w.tab.net = "synced" /\ w.tab.restore # <<>>)
  BY <1>1, <1>2, SureStays DEF Touches
<1>5. /\ Fit(t, v, rl, gv, C, F) /\ Touches(t, cs, v.copies) /\ Sure(cs, S, v.copies, S) /\ Says(y, v.tab)
      /\ v.tab.doc = y.doc
  <2> DEFINE z == Settle(w, t)
  <2>1. /\ Fit(t, z, rl, gv, C, F) /\ Touches(t, cs, z.copies) /\ Sure(cs, S, z.copies, S) /\ Says(w.tab, z.tab)
        /\ (w.tab.net # "synced" \/ w.tab.restore = <<>> => z.tab.doc = w.tab.doc)
    BY <1>0, <1>2, <1>4, CoreSettle DEF C, F
  <2> QED
    BY <1>1, <1>2, <1>3, <2>1
<1>6. Core(M, tb2, ds, rl, ty, kp, gv, lg)
  BY <1>0, <1>5, CoreTurn DEF C, F
<1>7. Once(tb2, rl, st, lg)
  <2>1. One(v.tab, rl, st, lg)
    BY <1>5, OneSays
  <2>2. tb \in [Tabs -> TabRec(gv)]
    BY DEF Core
  <2> QED
    BY <2>1, <2>2, OnceStep
<1> QED
  BY <1>6, <1>7 DEF Whole

LEMMA SocketDropsCore ==
  ASSUME NEW M, Core(M, tab, copies, relay, typed, kept, given, large), Once(tab, relay, stale, large), NEW t \in Tabs, SocketDrops(t)
  PROVE  Core(M, tab', copies', relay', typed', kept', given', large') /\ Once(tab', relay', stale', large')
<1> DEFINE x == tab[t]
           y == [x EXCEPT !.net = "down"]
           v == Settle(Of(y, copies), t)
<1>1. x \in TabRec(given) /\ Flags(x) /\ x.at = "open" /\ x.net = "synced"
  BY CoreTab, FitTab DEF SocketDrops, Open
<1>2. /\ y \in TabRec(given) /\ y.live = x.live /\ y.doc = x.doc /\ y.offered = x.offered /\ y.restore = x.restore
      /\ y.shown = x.shown /\ y.unsynced = x.unsynced /\ y.at = "open" /\ y.net = "down"
  <2> HIDE DEF x
  <2> QED
    BY <1>1 DEF TabRec
<1>3. x.restore = <<>>
  BY <1>1 DEF Flags
<1>4. tab' = [tab EXCEPT ![t] = v.tab] /\ copies' = v.copies
  <2>1. [Now(t) EXCEPT !.tab.net = "down"] = Of(y, copies)
    BY DEF Now, Of
  <2> QED
    BY <2>1 DEF SocketDrops, Become
<1>o. One(y, relay, stale, large)
  <2>1. One(x, relay, stale, large)
    BY DEF Once
  <2> HIDE DEF x, y
  <2> QED
    BY <1>1, <1>2, <2>1 DEF One, Both, Big
<1> HIDE DEF y, v
<1>5. /\ y \in TabRec(given) /\ y.live = tab[t].live /\ y.doc = tab[t].doc /\ y.offered = tab[t].offered
      /\ y.restore = tab[t].restore /\ y.shown = tab[t].shown /\ y.unsynced = tab[t].unsynced /\ y.at # "closed"
      /\ (y.at = "refused" => y.net = "down") /\ (y.net = "synced" => Text(y.acked) \subseteq Text(relay) \cup given)
  BY <1>2
<1>6. v = Settle(Of(y, copies), t) /\ tab[t].at # "closed" /\ tab[t].restore = <<>>
  BY <1>1, <1>3 DEF v
<1>7. Whole(M, tab', copies', relay, typed, kept, given, large, stale)
  BY <1>4, <1>5, <1>6, <1>o, CoreConnection
<1> QED
  BY <1>7 DEF SocketDrops, Whole

LEMMA RefuseCore ==
  ASSUME NEW M, Core(M, tab, copies, relay, typed, kept, given, large), Once(tab, relay, stale, large), NEW t \in Tabs, Refuse(t)
  PROVE  Core(M, tab', copies', relay', typed', kept', given', large') /\ Once(tab', relay', stale', large')
<1> DEFINE x == tab[t]
           y == [x EXCEPT !.at = "refused", !.net = "down"]
           v == Settle(Of(y, copies), t)
<1>1. x \in TabRec(given) /\ Flags(x) /\ x.at = "open" /\ x.net = "synced"
  BY CoreTab, FitTab DEF Refuse, Open
<1>2. /\ y \in TabRec(given) /\ y.live = x.live /\ y.doc = x.doc /\ y.offered = x.offered /\ y.restore = x.restore
      /\ y.shown = x.shown /\ y.unsynced = x.unsynced /\ y.at = "refused" /\ y.net = "down"
  <2> HIDE DEF x
  <2> QED
    BY <1>1 DEF TabRec
<1>3. x.restore = <<>>
  BY <1>1 DEF Flags
<1>4. tab' = [tab EXCEPT ![t] = v.tab] /\ copies' = v.copies
  <2>1. [Now(t) EXCEPT !.tab.at = "refused", !.tab.net = "down"] = Of(y, copies)
    <3> DEFINE n == Now(t)
               refused == "refused"
               down == "down"
    <3>1. n = [tab |-> x, copies |-> copies] /\ refused \in {"closed", "open", "refused", "stopped"} /\ down \in {"down", "synced"}
      BY DEF Now
    <3> HIDE DEF x, n, refused, down
    <3>2. n \in World(given) /\ n.tab = x /\ n.copies = copies
      BY <1>1, <3>1, CoreTab DEF World
    <3>3. [n EXCEPT !.tab.at = refused, !.tab.net = down] = [n EXCEPT !.tab = [x EXCEPT !.at = refused, !.net = down]]
      BY <1>1, <3>1, <3>2 DEF World, TabRec
    <3>4. [n EXCEPT !.tab = [x EXCEPT !.at = refused, !.net = down]] = [tab |-> [x EXCEPT !.at = refused, !.net = down], copies |-> copies]
      BY <3>1
    <3> QED
      BY <3>3, <3>4 DEF Of, n, refused, down
  <2> QED
    BY <2>1 DEF Refuse, Become
<1>o. One(y, relay, stale, large)
  <2>1. One(x, relay, stale, large) /\ Text(relay) \cap large = {}
    BY DEF Once
  <2>2. ~Fits(Join(relay, x.doc))
    BY DEF Refuse
  <2>3. PICK i \in Join(relay, x.doc).has \ Join(relay, x.doc).cut : i[1] \in large
    BY <2>2 DEF Fits, Text
  <2>4. i \in relay.has \cup x.doc.has /\ i \notin relay.cut
    BY <2>3 DEF Join
  <2>5. i \notin relay.has
    BY <2>1, <2>3, <2>4 DEF Text
  <2>6. x.live \in Copies
    BY <2>1, <2>3, <2>4, <2>5 DEF One, Big
  <2> HIDE DEF x, y
  <2> QED
    BY <1>1, <1>2, <2>1, <2>6 DEF One, Both, Big
<1> HIDE DEF y, v
<1>5. /\ y \in TabRec(given) /\ y.live = tab[t].live /\ y.doc = tab[t].doc /\ y.offered = tab[t].offered
      /\ y.restore = tab[t].restore /\ y.shown = tab[t].shown /\ y.unsynced = tab[t].unsynced /\ y.at # "closed"
      /\ (y.at = "refused" => y.net = "down") /\ (y.net = "synced" => Text(y.acked) \subseteq Text(relay) \cup given)
  BY <1>2
<1>6. v = Settle(Of(y, copies), t) /\ tab[t].at # "closed" /\ tab[t].restore = <<>>
  BY <1>1, <1>3 DEF v
<1>7. Whole(M, tab', copies', relay, typed, kept, given, large, stale)
  BY <1>4, <1>5, <1>6, <1>o, CoreConnection
<1> QED
  BY <1>7 DEF Refuse, Whole

\* What is acknowledged is on the relay.
LEMMA LoggedText ==
  ASSUME NEW gv, NEW d \in Docs(gv), relay \in Docs(gv)
  PROVE  Logged(d) \in Docs(gv) /\ Text(Logged(d)) \subseteq Text(relay) \cup gv
<1>1. Logged(d).has = d.has \cap relay.has /\ Logged(d).cut = d.cut \cap relay.cut
  BY DEF Logged
<1>2. Logged(d) \in Docs(gv)
  BY DocFields, DocMade DEF Logged
<1> QED
  BY <1>1, <1>2, TextGrows

LEMMA AckCore ==
  ASSUME NEW M, Core(M, tab, copies, relay, typed, kept, given, large), Once(tab, relay, stale, large), NEW t \in Tabs, Ack(t)
  PROVE  Core(M, tab', copies', relay', typed', kept', given', large') /\ Once(tab', relay', stale', large')
<1> DEFINE x == tab[t]
           a == Logged(x.doc)
           y == [x EXCEPT !.acked = a]
           v == Settle(Of(y, copies), t)
<1>1. x \in TabRec(given) /\ Flags(x) /\ x.at = "open" /\ x.net = "synced" /\ relay \in Docs(given)
  BY CoreTab, FitTab DEF Ack, Open
<1>a. a \in Docs(given) /\ Text(a) \subseteq Text(relay) \cup given
  <2>1. x.doc \in Docs(given)
    BY <1>1 DEF TabRec
  <2> QED
    BY <1>1, <2>1, LoggedText
<1>4. tab' = [tab EXCEPT ![t] = v.tab] /\ copies' = v.copies
  <2>1. [Now(t) EXCEPT !.tab.acked = Logged(tab[t].doc)] = Of(y, copies)
    BY DEF Now, Of
  <2> QED
    BY <2>1 DEF Ack, Become
<1> HIDE DEF a
<1>2. /\ y \in TabRec(given) /\ y.live = x.live /\ y.doc = x.doc /\ y.offered = x.offered /\ y.restore = x.restore
      /\ y.shown = x.shown /\ y.unsynced = x.unsynced /\ y.at = "open" /\ y.acked = a /\ y.net = x.net
  <2> HIDE DEF x
  <2> QED
    BY <1>1, <1>a DEF TabRec
<1>3. x.restore = <<>>
  BY <1>1 DEF Flags
<1>o. One(y, relay, stale, large)
  <2>1. One(x, relay, stale, large) /\ a.has \subseteq relay.has
    BY DEF Once, Logged, a
  <2> HIDE DEF x, y
  <2> QED
    BY <1>1, <1>2, <2>1 DEF One, Both, Big
<1> HIDE DEF y, v
<1>5. /\ y \in TabRec(given) /\ y.live = tab[t].live /\ y.doc = tab[t].doc /\ y.offered = tab[t].offered
      /\ y.restore = tab[t].restore /\ y.shown = tab[t].shown /\ y.unsynced = tab[t].unsynced /\ y.at # "closed"
      /\ (y.at = "refused" => y.net = "down") /\ (y.net = "synced" => Text(y.acked) \subseteq Text(relay) \cup given)
  BY <1>2, <1>a
<1>6. v = Settle(Of(y, copies), t) /\ tab[t].at # "closed" /\ tab[t].restore = <<>>
  BY <1>1, <1>3 DEF v
<1>7. Whole(M, tab', copies', relay, typed, kept, given, large, stale)
  BY <1>4, <1>5, <1>6, <1>o, CoreConnection
<1> QED
  BY <1>7 DEF Ack, Whole

\* What a tab sends, of the same history, is taken in.
LEMMA RelayJoins ==
  ASSUME NEW M, NEW tb, NEW cs, NEW rl, NEW ty, NEW kp, NEW gv, NEW lg, Core(M, tb, cs, rl, ty, kp, gv, lg), NEW t \in Tabs
  PROVE  Grows(M, rl, ty, gv, M, Join(rl, tb[t].doc), ty, gv)
<1> DEFINE d == tb[t].doc
           sl == Join(rl, d)
<1>1. d \in Docs(gv) /\ d \in Clean(M, ty, rl)
  <2>1. tb[t] \in TabRec(gv) /\ Fit(t, Of(tb[t], cs), rl, gv, Clean(M, ty, rl), All(M, ty, rl))
    BY CoreTab
  <2> DEFINE x == tb[t]
  <2>2. x \in TabRec(gv) /\ Fit(t, Of(x, cs), rl, gv, Clean(M, ty, rl), All(M, ty, rl))
    BY <2>1
  <2> HIDE DEF x
  <2>3. x.doc \in Docs(gv) /\ x.doc \in Clean(M, ty, rl)
    BY <2>2, FitTab DEF TabRec
  <2> QED
    BY <2>3 DEF x
<1>2. /\ rl \in Docs(gv) /\ rl \in Clean(M, ty, rl) /\ \A i \in rl.has : i[2] = "rebased" => i[1] \in Edits
      /\ ty \subseteq Edits /\ gv \subseteq Texts /\ Marks(M, ty)
  BY DEF Core
<1> HIDE DEF d
<1>3. sl \in Docs(gv) /\ sl.has = rl.has \cup d.has /\ Text(rl) \subseteq Text(sl) \cup gv
  <2>1. rl \in Docs(gv) /\ d \in Docs(gv)
    BY <1>1, <1>2
  <2>2. Join(rl, d) \in Docs(gv) /\ Join(rl, d).has = rl.has \cup d.has
    BY <2>1, JoinDoc
  <2>3. Text(rl) \subseteq Text(Join(rl, d)) \cup gv
    BY <2>1, TextOfJoin
  <2> QED
    BY <2>2, <2>3
<1>4. Ours(rl, ty, rl) /\ Ours(d, ty, rl) /\ rl.has \cap M = {} /\ d.has \cap M = {}
  BY <1>1, <1>2 DEF Clean
<1>5. sl \in Clean(M, ty, sl)
  <2>1. Ours(sl, ty, sl) /\ sl.has \cap M = {}
    BY <1>3, <1>4 DEF Ours
  <2> QED
    BY <1>3, <2>1, DocFields DEF Clean
<1>6. \A i \in sl.has : i[2] = "rebased" => i[1] \in Edits
  BY <1>2, <1>3, <1>4 DEF Ours
<1>7. Clean(M, ty, rl) \subseteq Clean(M, ty, sl) /\ All(M, ty, rl) \subseteq All(M, ty, sl)
  BY <1>3, FamilyGrows
<1>8. Grows(M, rl, ty, gv, M, sl, ty, gv)
  BY <1>2, <1>3, <1>5, <1>6, <1>7 DEF Grows
<1> QED
  BY <1>8 DEF d

LEMMA RelayTakesCore ==
  ASSUME NEW M, Core(M, tab, copies, relay, typed, kept, given, large), Once(tab, relay, stale, large), NEW t \in Tabs, RelayTakes(t)
  PROVE  Core(M, tab', copies', relay', typed', kept', given', large') /\ Once(tab', relay', stale', large')
<1> DEFINE sl == Join(relay, tab[t].doc)
           v == Of(tab[t], copies)
<1>1. Grows(M, relay, typed, given, M, sl, typed, given)
  BY RelayJoins
<1>2. tab = [tab EXCEPT ![t] = v.tab] /\ copies = v.copies
  BY DEF Core, Of
<1>3. Touches(t, copies, v.copies) /\ Sure(copies, Safe(sl, given), v.copies, Safe(sl, given))
  BY <1>2, SureStays DEF Touches
<1>s. sl = Join(relay, tab[t].doc)
  OBVIOUS
<1> HIDE DEF sl
<1>4. Fit(t, v, sl, given, Clean(M, typed, sl), All(M, typed, sl))
  BY <1>1, CoreStart
<1> HIDE DEF v
<1>5. Core(M, tab, copies, sl, typed, kept, given, large)
  BY <1>1, <1>2, <1>3, <1>4, CoreTurn
<1>6. Once(tab, sl, stale, large)
  <2>1. tab[t].at = "open" /\ tab[t].net = "synced" /\ Text(Join(relay, tab[t].doc)) \cap large = {}
    BY DEF RelayTakes, Open, Fits
  <2>2. Ours(tab[t].doc, typed, relay)
    <3> DEFINE x == tab[t]
    <3>1. Fit(t, Of(x, copies), relay, given, Clean(M, typed, relay), All(M, typed, relay))
      BY CoreTab
    <3> HIDE DEF x
    <3>2. x.doc \in Clean(M, typed, relay)
      BY <3>1, FitTab
    <3> QED
      BY <3>2 DEF Clean, x
  <2>3. sl.has = relay.has \cup tab[t].doc.has
    BY <1>s DEF Join
  <2> QED
    BY <1>s, <2>1, <2>2, <2>3, OnceRelay
<1> QED
  BY <1>5, <1>6, <1>s DEF RelayTakes

\* What others typed reaches a tab.
LEMMA ReceiveCore ==
  ASSUME NEW M, Core(M, tab, copies, relay, typed, kept, given, large), Once(tab, relay, stale, large), NEW t \in Tabs, Receive(t)
  PROVE  Core(M, tab', copies', relay', typed', kept', given', large') /\ Once(tab', relay', stale', large')
<1> DEFINE x == tab[t]
           C == Clean(M, typed, relay)
           F == All(M, typed, relay)
           S == Safe(relay, given)
           n == Of(x, copies)
           d == Join(x.doc, relay)
           w == SetDoc(n, d)
           a == Join(x.acked, relay)
           y == [w.tab EXCEPT !.acked = a]
           v == Of(y, w.copies)
<1>1. /\ x \in TabRec(given) /\ Flags(x) /\ Truth(x, relay, given) /\ x.at = "open" /\ x.net = "synced"
      /\ relay \in Docs(given) /\ relay \in C /\ x.doc \in C /\ Fit(t, n, relay, given, C, F)
      /\ Ready(t, n, ToSet(x.restore), given, C, F)
  <2>1. relay \in C
    BY DEF Core
  <2> QED
    BY <2>1, CoreTab, FitTab DEF Receive, Open
<1>2. n.tab = x /\ n.copies = copies /\ Now(t) = n
  BY DEF Of, Now
<1>g. Grows(M, relay, typed, given, M, relay, typed, given)
  BY GrowsNot
<1>3. Family(C, F) /\ given \subseteq S
  BY <1>g, GrowsFields
<1>4. /\ x.doc \in Docs(given) /\ x.acked \in Docs(given) /\ d \in Docs(given) /\ x.doc.has \subseteq d.has /\ d \in C
      /\ a \in Docs(given) /\ Text(a) \subseteq Text(x.acked) \cup Text(relay) /\ Text(d) \subseteq Text(x.doc) \cup Text(relay)
  <2>1. x.doc \in Docs(given) /\ x.acked \in Docs(given)
    <3> HIDE DEF x
    <3> QED
      BY <1>1 DEF TabRec
  <2>2. d \in C
    BY <1>1, <1>3 DEF Family
  <2>3. relay \in Docs(given)
    BY <1>1
  <2> DEFINE p == x.doc
             q == x.acked
  <2>4. p \in Docs(given) /\ q \in Docs(given)
    BY <2>1
  <2> HIDE DEF p, q
  <2>5. Join(p, relay) \in Docs(given) /\ Join(p, relay).has = p.has \cup relay.has /\ Join(q, relay) \in Docs(given)
    BY <2>3, <2>4, JoinDoc
  <2>6. Text(Join(p, relay)) \subseteq Text(p) \cup Text(relay) /\ Text(Join(q, relay)) \subseteq Text(q) \cup Text(relay)
    BY <2>3, <2>4, TextOfJoin
  <2> QED
    BY <2>1, <2>2, <2>5, <2>6 DEF p, q
<1>b. tab' = [tab EXCEPT ![t] = y] /\ copies' = w.copies
  <2> DEFINE u == SetDoc(Now(t), Join(tab[t].doc, relay))
  <2>1. u = w
    BY <1>2
  <2>2. tab' = [tab EXCEPT ![t] = [u EXCEPT !.tab.acked = Join(@, relay)].tab]
        /\ copies' = [u EXCEPT !.tab.acked = Join(@, relay)].copies
    BY DEF Receive, Become
  <2>3. Ready(t, w, ToSet(x.restore), given, C, F) /\ w.tab.acked = x.acked
    <3>1. n.tab.doc.has \subseteq d.has
      BY <1>2, <1>4
    <3> HIDE DEF n, w, d, x, C, F, S
    <3>2. Ready(t, w, ToSet(x.restore), given, C, F) /\ Moved(t, n, w, S)
      BY <1>1, <1>3, <1>4, <3>1, SetDocWorld DEF w
    <3> QED
      BY <1>2, <3>2 DEF Moved, Alike
  <2>4. w \in World(given)
    <3> HIDE DEF w
    <3> QED
      BY <2>3, ReadyFields
  <2> HIDE DEF w, u, a, y
  <2>5. w.tab.acked = x.acked /\ Join(w.tab.acked, relay) = Join(x.acked, relay)
    BY <2>3
  <2>6. [w EXCEPT !.tab.acked = Join(@, relay)].tab = y /\ [w EXCEPT !.tab.acked = Join(@, relay)].copies = w.copies
    BY <2>4, <2>5 DEF World, TabRec, y, a
  <2> QED
    BY <2>1, <2>2, <2>6
<1>5. /\ Ready(t, w, ToSet(x.restore), given, C, F) /\ Moved(t, n, w, S) /\ w.tab.live = n.tab.live /\ w.tab.doc = d
      /\ w.tab.offered = n.tab.offered /\ w.tab.unsynced = n.tab.unsynced
  <2>1. n.tab.doc.has \subseteq d.has
    BY <1>2, <1>4
  <2> HIDE DEF n, w, d, x, C, F, S
  <2> QED
    BY <1>1, <1>3, <1>4, <2>1, SetDocWorld DEF w
<1> HIDE DEF w
<1>6. w \in World(given) /\ Alike(x, w.tab) /\ Touches(t, copies, w.copies) /\ Sure(copies, S, w.copies, S) /\ w.tab.unsynced = x.unsynced
  BY <1>2, <1>5, ReadyFields DEF Moved
<1> HIDE DEF n, d, a, x, C, F, S
<1>7. /\ y \in TabRec(given) /\ y.live = w.tab.live /\ y.doc = w.tab.doc /\ y.offered = w.tab.offered
      /\ y.restore = w.tab.restore /\ y.acked = a /\ y.at = w.tab.at /\ y.net = w.tab.net /\ y.synced = w.tab.synced
      /\ y.unsynced = w.tab.unsynced /\ y.shown = w.tab.shown
  BY <1>4, <1>6 DEF World, TabRec
<1> HIDE DEF y
<1>8. Flags(y)
  BY <1>1, <1>6, <1>7 DEF Flags, Alike
<1>9. Truth(y, relay, given)
  BY <1>1, <1>4, <1>5, <1>6, <1>7 DEF Truth, Alike
<1>10. Ready(t, v, ToSet(y.restore), given, C, F) /\ v.tab = y /\ v.copies = w.copies
  <2>1. v = [w EXCEPT !.tab = y]
    BY <1>6 DEF World, Of
  <2>2. v \in World(given) /\ v.tab = y /\ v.copies = w.copies
    BY <1>6, <1>7, <2>1, TabWorld
  <2>3. ToSet(y.restore) = ToSet(x.restore)
    BY <1>6, <1>7 DEF Alike
  <2> HIDE DEF v
  <2>4. Ready(t, v, ToSet(x.restore), given, C, F)
    BY <1>5, <1>7, <2>2 DEF Ready
  <2> QED
    BY <2>2, <2>3, <2>4
<1> HIDE DEF v
<1>11. Fit(t, v, relay, given, C, F) /\ tab' = [tab EXCEPT ![t] = v.tab] /\ copies' = v.copies
       /\ Touches(t, copies, v.copies) /\ Sure(copies, S, v.copies, S)
  BY <1>b, <1>6, <1>8, <1>9, <1>10 DEF Fit
<1>12. Core(M, tab', copies', relay, typed, kept, given, large)
  BY <1>g, <1>11, CoreTurn DEF C, F, S
<1>13. One(y, relay, stale, large)
  <2>1. One(x, relay, stale, large) /\ \A e \in Edits : Both(e, relay, relay) => e \in stale
    BY DEF Once, x
  <2>2. d.has = x.doc.has \cup relay.has /\ a.has = x.acked.has \cup relay.has /\ Ours(x.doc, typed, relay)
    BY <1>1 DEF d, a, Join, Clean, C
  <2>3. y.at = "open" /\ y.net = "synced" /\ y.doc = d /\ y.acked = a /\ y.live = x.live
    BY <1>1, <1>2, <1>5, <1>6, <1>7 DEF Alike
  <2>4. \A e : <<e, "rebased">> \in d.has => <<e, "rebased">> \in relay.has
    BY <2>2 DEF Ours
  <2>5. \A e \in Edits : Both(e, d, relay) => e \in stale
    BY <1>1, <2>1, <2>2 DEF One, Both
  <2>6. Big(a, relay, large) /\ (x.live \in Copies \/ Big(d, relay, large))
    BY <1>1, <2>1, <2>2 DEF One, Big
  <2> QED
    BY <2>3, <2>4, <2>5, <2>6 DEF One, Both
<1>14. Once(tab', relay, stale, large)
  <2>1. tab \in [Tabs -> TabRec(given)]
    BY DEF Core
  <2> QED
    BY <1>b, <1>13, <2>1, OnceStep
<1> QED
  BY <1>12, <1>14 DEF Receive

\* A world with the tab's copies to merge, before it settles.
LEMMA UnsettledWorld ==
  ASSUME NEW t \in Tabs, NEW x, NEW cs, NEW rl, NEW gv, NEW C, NEW F, Fit(t, Of(x, cs), rl, gv, C, F), x.at # "closed",
         NEW w, Ready(t, w, ToSet(x.restore), gv, C, F), w.tab.restore = x.restore, w.tab.shown = x.shown, w.tab.at = x.at,
         x.unsynced => w.tab.unsynced, w.tab.at = "refused" => w.tab.net = "down",
         w.tab.net = "synced" => Text(w.tab.acked) \subseteq Text(rl) \cup gv,
         ~w.tab.unsynced => Text(w.tab.doc) \subseteq Text(rl) \cup gv
  PROVE  Unsettled(t, w, rl, gv, C, F)
<1>1. Flags(x)
  BY FitTab
<1> QED
  BY <1>1 DEF Unsettled, Flags

LEMMA RoomKept ==
  ASSUME NEW t, NEW w, NEW v, HasRoom(w), v.tab.live = w.tab.live, v.copies = w.copies
  PROVE  HasRoom(v)
BY DEF HasRoom

\* A change of the document by the person: unsent, and kept in this browser.
Edited(t, x, cs, w, d, rl, gv, C, F, R) ==
  /\ Ready(t, w, ToSet(x.restore), gv, C, F) /\ Touches(t, cs, w.copies) /\ Sure(cs, R, w.copies, R) /\ Alike(x, w.tab)
  /\ w.tab.live \in Copies /\ w.tab.doc = d /\ w.tab.unsynced /\ w.tab.offered = x.offered
  /\ Unsettled(t, w, rl, gv, C, F)
LEMMA EditWorld ==
  ASSUME NEW t \in Tabs, NEW x, NEW cs, NEW rl, NEW gv, NEW C, NEW F, Family(C, F), Fit(t, Of(x, cs), rl, gv, C, F),
         x.at # "closed", HasRoom(Of(x, cs)), NEW d \in Docs(gv), d \in C, x.doc.has \subseteq d.has, NEW R, gv \subseteq R
  PROVE  Edited(t, x, cs, SetDoc(Keep(Unsent(Of(x, cs)), t), d), d, rl, gv, C, F, R)
<1> DEFINE n == Of(x, cs)
           P == ToSet(x.restore)
           u == Unsent(n)
           k == Keep(u, t)
           w == SetDoc(k, d)
<1>1. Ready(t, n, P, gv, C, F) /\ n.tab = x /\ n.copies = cs /\ Flags(x) /\ Truth(x, rl, gv) /\ HasRoom(n)
  BY FitTab DEF Of
<1> HIDE DEF n, P
<1>2. Ready(t, u, P, gv, C, F) /\ Moved(t, n, u, R) /\ u.copies = n.copies /\ u.tab.unsynced
      /\ u.tab.live = n.tab.live /\ u.tab.doc = n.tab.doc /\ u.tab.offered = n.tab.offered
  BY <1>1, UnsentWorld
<1> HIDE DEF u
<1>3. HasRoom(u)
  BY <1>1, <1>2, RoomKept
<1>4. Ready(t, k, P, gv, C, F) /\ Moved(t, u, k, R) /\ k.tab.live \in Copies
      /\ k.tab.doc = u.tab.doc /\ k.tab.offered = u.tab.offered /\ k.tab.unsynced = u.tab.unsynced
  BY <1>2, <1>3, KeepWorld
<1> HIDE DEF k
<1>5. k.tab.doc.has \subseteq d.has
  BY <1>1, <1>2, <1>4
<1>6. Ready(t, w, P, gv, C, F) /\ Moved(t, k, w, R) /\ w.tab.live = k.tab.live /\ w.tab.doc = d
      /\ w.tab.offered = k.tab.offered /\ w.tab.unsynced = k.tab.unsynced
  <2>1. Ready(t, k, P, gv, C, F)
    BY <1>4
  <2> QED
    BY <1>5, <2>1, SetDocWorld
<1> HIDE DEF w
<1>7. Moved(t, n, w, R)
  BY <1>2, <1>4, <1>6, MovedTwice
<1>8. Touches(t, cs, w.copies) /\ Sure(cs, R, w.copies, R) /\ Alike(x, w.tab) /\ w.tab.live \in Copies /\ w.tab.doc = d
      /\ w.tab.unsynced /\ w.tab.offered = x.offered
  BY <1>1, <1>2, <1>4, <1>6, <1>7 DEF Moved
<1>9. Unsettled(t, w, rl, gv, C, F)
  <2>1. w.tab.restore = x.restore /\ w.tab.shown = x.shown /\ w.tab.at = x.at
        /\ (w.tab.at = "refused" => w.tab.net = "down")
        /\ (w.tab.net = "synced" => Text(w.tab.acked) \subseteq Text(rl) \cup gv)
    BY <1>1, <1>8 DEF Alike, Flags, Truth
  <2> QED
    BY <1>6, <1>8, <2>1, UnsettledWorld DEF P
<1>10. Edited(t, x, cs, w, d, rl, gv, C, F, R)
  BY <1>6, <1>8, <1>9 DEF Edited, P
<1> QED
  BY <1>10 DEF w, k, u, n

\* The tab settles after such a change.
LEMMA CoreEdited ==
  ASSUME NEW M, NEW tb, NEW cs, NEW rl, NEW ty, NEW kp, NEW gv, NEW lg, Core(M, tb, cs, rl, ty, kp, gv, lg),
         NEW N, NEW sl, NEW more, NEW given2, Grows(M, rl, ty, gv, N, sl, more, given2),
         NEW t \in Tabs, NEW x, NEW w, NEW d,
         Edited(t, x, cs, w, d, sl, given2, Clean(N, more, sl), All(N, more, sl), Safe(sl, given2))
  PROVE  LET v == Settle(w, t)
         IN /\ Fit(t, v, sl, given2, Clean(N, more, sl), All(N, more, sl)) /\ Touches(t, cs, v.copies)
            /\ Sure(cs, Safe(sl, given2), v.copies, Safe(sl, given2)) /\ Says(w.tab, v.tab)
            /\ (w.tab.net # "synced" \/ w.tab.restore = <<>> => v.tab.doc = w.tab.doc)
<1>1. /\ Unsettled(t, w, sl, given2, Clean(N, more, sl), All(N, more, sl)) /\ Touches(t, cs, w.copies)
      /\ Sure(cs, Safe(sl, given2), w.copies, Safe(sl, given2)) /\ HasRoom(w)
  BY DEF Edited, HasRoom
<1> QED
  BY <1>1, CoreSettle

\* More is typed.
LEMMA TypedGrows ==
  ASSUME NEW M, NEW tb, NEW cs, NEW rl, NEW ty, NEW kp, NEW gv, NEW lg, Core(M, tb, cs, rl, ty, kp, gv, lg),
         NEW e \in Edits \ ty, NEW N, N = M \/ N = M \cup {<<e, "typed">>}
  PROVE  Grows(M, rl, ty, gv, N, rl, ty \cup {e}, gv)
<1>1. /\ rl \in Docs(gv) /\ rl \in Clean(M, ty, rl) /\ \A i \in rl.has : i[2] = "rebased" => i[1] \in Edits
      /\ ty \subseteq Edits /\ gv \subseteq Texts /\ Marks(M, ty)
  BY DEF Core
<1>2. \A i \in N \ M : i[1] \notin ty \cup {BaseText}
  BY TextsAssumption
<1>3. Marks(N, ty \cup {e})
  BY <1>1 DEF Marks, Texts
<1>4. Clean(M, ty, rl) \subseteq Clean(N, ty \cup {e}, rl) /\ All(M, ty, rl) \subseteq All(N, ty \cup {e}, rl)
  BY <1>2, FamilyGrows
<1> QED
  BY <1>1, <1>3, <1>4 DEF Grows

\* An edit is in the family of what it is typed into.
Into(M, ty, rl, gv, e, d, x) ==
  /\ x \in Docs(gv) /\ x.has = d.has \cup {<<e, "typed">>} /\ Text(x) \subseteq Text(d) \cup {e}
  /\ (d \in Clean(M, ty, rl) => x \in Clean(M, ty \cup {e}, rl))
  /\ (d \in All(M, ty, rl) => x \in All(M, ty \cup {e}, rl) \/ x \in All(M \cup {<<e, "typed">>}, ty \cup {e}, rl))
LEMMA TypedInto ==
  ASSUME NEW M, NEW ty, NEW rl, NEW gv, Marks(M, ty), NEW e \in Edits \ ty, NEW d \in Docs(gv), ty \subseteq Edits
  PROVE  Into(M, ty, rl, gv, e, d, Join(d, Plain({e}, "typed")))
<1> DEFINE x == Join(d, Plain({e}, "typed"))
           N == M \cup {<<e, "typed">>}
<1>1. Plain({e}, "typed") \in Docs(gv) /\ Plain({e}, "typed").has = {<<e, "typed">>} /\ Text(Plain({e}, "typed")) = {e}
  BY PlainDoc DEF Texts
<1>2. x \in Docs(gv) /\ x.has = d.has \cup {<<e, "typed">>} /\ Text(x) \subseteq Text(d) \cup {e}
  <2> DEFINE p == Plain({e}, "typed")
  <2>1. p \in Docs(gv) /\ p.has = {<<e, "typed">>} /\ Text(p) = {e} /\ x = Join(d, p)
    BY <1>1
  <2> HIDE DEF p, x
  <2>2. Join(d, p) \in Docs(gv) /\ Join(d, p).has = d.has \cup p.has
    BY <2>1, JoinDoc
  <2>3. Text(Join(d, p)) \subseteq Text(d) \cup Text(p)
    BY <2>1, TextOfJoin
  <2> QED
    BY <2>1, <2>2, <2>3
<1> HIDE DEF x
<1>3. <<e, "typed">> \notin M
  BY DEF Marks
<1>4. x \in Documents
  BY <1>2, DocFields
<1>5. Ours(d, ty, rl) => Ours(x, ty \cup {e}, rl)
  BY <1>2 DEF Ours
<1>6. d \in Clean(M, ty, rl) => x \in Clean(M, ty \cup {e}, rl)
  BY <1>2, <1>3, <1>4, <1>5 DEF Clean
<1>7. d \in All(M, ty, rl) => x \in All(M, ty \cup {e}, rl) \/ x \in All(N, ty \cup {e}, rl)
  BY <1>2, <1>3, <1>4, <1>5 DEF All
<1> QED
  BY <1>2, <1>6, <1>7 DEF x, Into

LEMMA HandshakeCore ==
  ASSUME NEW M, Core(M, tab, copies, relay, typed, kept, given, large), Once(tab, relay, stale, large), NEW t \in Tabs, Handshake(t)
  PROVE  Core(M, tab', copies', relay', typed', kept', given', large') /\ Once(tab', relay', stale', large')
<1> DEFINE x == tab[t]
           C == Clean(M, typed, relay)
           F == All(M, typed, relay)
           S == Safe(relay, given)
           y == [x EXCEPT !.net = "synced", !.acked = Empty]
           n == Of(y, copies)
           d == Join(x.doc, relay)
           w == SetDoc(n, d)
           v == Settle(w, t)
<1>1. /\ x \in TabRec(given) /\ Flags(x) /\ Truth(x, relay, given) /\ x.at = "open" /\ x.net = "down"
      /\ relay \in Docs(given) /\ relay \in C /\ x.doc \in C /\ Fit(t, Of(x, copies), relay, given, C, F)
  <2>1. relay \in C
    BY DEF Core
  <2> QED
    BY <2>1, CoreTab, FitTab DEF Handshake, Open
<1>g. Grows(M, relay, typed, given, M, relay, typed, given)
  BY GrowsNot
<1>3. Family(C, F) /\ given \subseteq S
  BY <1>g, GrowsFields
<1>4. /\ x.doc \in Docs(given) /\ d \in Docs(given) /\ x.doc.has \subseteq d.has /\ d \in C
      /\ Text(d) \subseteq Text(x.doc) \cup Text(relay)
  <2>1. x.doc \in Docs(given)
    <3> HIDE DEF x
    <3> QED
      BY <1>1 DEF TabRec
  <2>2. d \in C
    BY <1>1, <1>3 DEF Family
  <2>3. relay \in Docs(given)
    BY <1>1
  <2> DEFINE p == x.doc
  <2>4. p \in Docs(given)
    BY <2>1
  <2> HIDE DEF p
  <2>5. Join(p, relay) \in Docs(given) /\ Join(p, relay).has = p.has \cup relay.has
    BY <2>3, <2>4, JoinDoc
  <2>6. Text(Join(p, relay)) \subseteq Text(p) \cup Text(relay)
    BY <2>3, <2>4, TextOfJoin
  <2> QED
    BY <2>1, <2>2, <2>5, <2>6 DEF p
<1>5. /\ y \in TabRec(given) /\ y.live = x.live /\ y.doc = x.doc /\ y.offered = x.offered /\ y.restore = x.restore
      /\ y.shown = x.shown /\ y.unsynced = x.unsynced /\ y.at = "open" /\ y.net = "synced" /\ y.acked = Empty
  <2> HIDE DEF x
  <2>1. Empty \in Docs(given)
    BY EmptyDoc
  <2> QED
    BY <1>1, <2>1 DEF TabRec
<1>n. [Now(t) EXCEPT !.tab.net = "synced", !.tab.acked = Empty] = n
  <2> DEFINE m == Now(t)
             synced == "synced"
  <2>1. m = [tab |-> x, copies |-> copies] /\ synced \in {"down", "synced"} /\ Empty \in Docs(given)
    BY EmptyDoc DEF Now
  <2> HIDE DEF x, m, synced
  <2>2. m \in World(given) /\ m.tab = x /\ m.copies = copies
    BY <1>1, <2>1, CoreTab DEF World
  <2>3. [m EXCEPT !.tab.net = synced, !.tab.acked = Empty] = [m EXCEPT !.tab = [x EXCEPT !.net = synced, !.acked = Empty]]
    BY <1>1, <2>1, <2>2 DEF World, TabRec
  <2>4. [m EXCEPT !.tab = [x EXCEPT !.net = synced, !.acked = Empty]] = [tab |-> [x EXCEPT !.net = synced, !.acked = Empty], copies |-> copies]
    BY <2>1
  <2> QED
    BY <2>3, <2>4 DEF Of, m, synced
<1>6. tab' = [tab EXCEPT ![t] = v.tab] /\ copies' = v.copies
  BY <1>n DEF Handshake, Become
<1>7. n.tab = y /\ n.copies = copies /\ Ready(t, n, ToSet(x.restore), given, C, F)
  <2> HIDE DEF x, y, C, F
  <2>1. Ready(t, Of(y, copies), ToSet(y.restore), given, C, F) /\ Of(y, copies).tab = y /\ Of(y, copies).copies = copies
    BY <1>1, <1>5, TabFit
  <2> QED
    BY <1>5, <2>1
<1>q. stale' = stale \cup Back(w.tab.doc, tab'[t].doc)
  <2>1. [Now(t) EXCEPT !.tab.net = "synced", !.tab.acked = Empty] = n
    BY <1>n
  <2> QED
    BY <2>1 DEF Handshake
<1> HIDE DEF y, n
<1>8. /\ Ready(t, w, ToSet(x.restore), given, C, F) /\ Moved(t, n, w, S) /\ w.tab.live = n.tab.live /\ w.tab.doc = d
      /\ w.tab.offered = n.tab.offered /\ w.tab.unsynced = n.tab.unsynced
  <2>1. n.tab.doc.has \subseteq d.has
    BY <1>4, <1>5, <1>7
  <2> HIDE DEF d, x, C, F, S
  <2>2. Ready(t, n, ToSet(x.restore), given, C, F)
    BY <1>7
  <2> QED
    BY <1>3, <1>4, <2>1, <2>2, SetDocWorld
<1>9. HasRoom(w)
  <2>1. Free(copies) # {}
    BY DEF Handshake, Room
  <2>2. CASE n.tab.live \in Copies
    BY <1>8, <2>2 DEF HasRoom
  <2>3. CASE n.tab.live \notin Copies
    <3>1. n.tab.live = 0
      BY <1>7, <2>3, ReadyFields
    <3>2. w.copies = n.copies
      <4>1. n \in World(given)
        BY <1>7, ReadyFields
      <4>2. w = [n EXCEPT !.tab.doc = d]
        BY <3>1 DEF SetDoc
      <4> HIDE DEF w, d
      <4> QED
        BY <4>1, <4>2 DEF World
    <3> QED
      BY <1>7, <2>1, <3>2 DEF HasRoom
  <2> QED
    BY <2>2, <2>3
<1> HIDE DEF w, d
<1>10. Touches(t, copies, w.copies) /\ Sure(copies, S, w.copies, S) /\ Alike(y, w.tab) /\ w.tab.unsynced = x.unsynced
  BY <1>5, <1>7, <1>8 DEF Moved
<1>11. Unsettled(t, w, relay, given, C, F)
  <2>1. w.tab.restore = x.restore /\ w.tab.shown = x.shown /\ w.tab.at = x.at /\ w.tab.at = "open" /\ w.tab.net = "synced"
        /\ Text(w.tab.acked) \subseteq Text(relay) \cup given
    BY <1>1, <1>5, <1>10, EmptyDoc DEF Alike
  <2>2. ~w.tab.unsynced => Text(w.tab.doc) \subseteq Text(relay) \cup given
    BY <1>1, <1>4, <1>8, <1>10 DEF Truth
  <2> HIDE DEF x, C, F
  <2> QED
    BY <1>1, <1>8, <1>10, <2>1, <2>2, UnsettledWorld
<1>12. /\ Fit(t, v, relay, given, C, F) /\ Touches(t, copies, v.copies) /\ Sure(copies, S, v.copies, S)
       /\ Says(w.tab, v.tab)
  BY <1>g, <1>9, <1>10, <1>11, CoreSettle
<1> HIDE DEF v
<1>13. Core(M, tab', copies', relay, typed, kept, given, large)
  BY <1>g, <1>6, <1>12, CoreTurn
<1>14. One(w.tab, relay, stale, large)
  <2>1. One(x, relay, stale, large) /\ \A e \in Edits : Both(e, relay, relay) => e \in stale
    BY DEF Once, x
  <2>2. d.has = x.doc.has \cup relay.has /\ Ours(x.doc, typed, relay)
    BY <1>1 DEF d, Join, Clean, C
  <2>3. w.tab.at = "open" /\ w.tab.net = "synced" /\ w.tab.doc = d /\ w.tab.acked = Empty /\ w.tab.live = x.live
    BY <1>5, <1>7, <1>8, <1>10 DEF Alike
  <2>4. \A e : <<e, "rebased">> \in d.has => <<e, "rebased">> \in relay.has
    BY <2>2 DEF Ours
  <2>5. ASSUME NEW e \in Edits, Both(e, d, relay) PROVE e \in stale
    <3>1. CASE <<e, "typed">> \in relay.has
      BY <2>1, <2>5, <3>1 DEF Both
    <3>2. CASE <<e, "typed">> \in x.doc.has \ relay.has
      <4>1. ~MissedRebase(x.doc)
        BY DEF Handshake, x
      <4>2. <<e, "rebased">> \in relay.has
        BY <2>5 DEF Both
      <4>3. <<e, "rebased">> \in x.doc.has
        <5>1. <<e, "rebased">> \in {i \in relay.has : i[2] = "rebased"}
          BY <4>2
        <5> QED
          BY <3>2, <4>1, <5>1 DEF MissedRebase
      <4> QED
        BY <1>1, <2>1, <3>2, <4>3 DEF One, Both
    <3> QED
      BY <2>2, <2>5, <3>1, <3>2 DEF Both
  <2>6. x.live \in Copies \/ Big(d, relay, large)
    BY <2>1, <2>2 DEF One, Big
  <2>7. Empty.has = {}
    BY EmptyDoc
  <2> QED
    BY <2>3, <2>4, <2>5, <2>6, <2>7 DEF One, Both, Big
<1>15. Once(tab', relay, stale', large)
  <2>1. tab \in [Tabs -> TabRec(given)]
    BY DEF Core
  <2>2. tab'[t] = v.tab
    BY <1>6, <2>1
  <2>3. stale' = stale \cup Back(w.tab.doc, v.tab.doc)
    BY <1>q, <2>2
  <2>4. \A e \in Edits : <<e, "typed">> \in v.tab.doc.has \ w.tab.doc.has /\ <<e, "rebased">> \in relay.has => e \in stale'
    BY <2>3 DEF Back
  <2>5. Ours(v.tab.doc, typed, relay)
    <3>1. Ready(t, v, ToSet(v.tab.restore), given, C, F)
      BY <1>12 DEF Fit
    <3>2. v.tab.doc \in C
      BY <3>1 DEF Ready
    <3> QED
      BY <3>2 DEF C, Clean
  <2>6. w.tab.net = "synced" /\ w.tab.at = "open"
    BY <1>5, <1>10 DEF Alike
  <2> DEFINE y1 == w.tab
             z1 == v.tab
             st2 == stale'
  <2>7. /\ One(y1, relay, stale, large) /\ Says(y1, z1) /\ Ours(z1.doc, typed, relay) /\ (y1.net = "synced" \/ z1.doc = y1.doc)
        /\ (y1.at = "refused" => y1.net = "down") /\ stale \subseteq st2
        /\ \A e \in Edits : <<e, "typed">> \in z1.doc.has \ y1.doc.has /\ <<e, "rebased">> \in relay.has => e \in st2
    BY <1>12, <1>14, <2>3, <2>4, <2>5, <2>6
  <2> HIDE DEF y1, z1, st2
  <2>8. One(z1, relay, st2, large)
    BY <2>7, OneMerged
  <2>9. tab' = [tab EXCEPT ![t] = z1]
    BY <1>6 DEF z1
  <2>10. Once(tab', relay, st2, large)
    BY <2>1, <2>7, <2>8, <2>9, OnceStep
  <2> QED
    BY <2>10 DEF st2
<1> QED
  BY <1>13, <1>15 DEF Handshake

\* A person types into the document.
LEMMA TypeDocCore ==
  ASSUME NEW M, Core(M, tab, copies, relay, typed, kept, given, large), Once(tab, relay, stale, large), NEW t \in Tabs, NEW e \in Edits, Type(t, e),
         tab[t].shown = 0
  PROVE  Core(M, tab', copies', relay', typed', kept', given', large') /\ Once(tab', relay', stale', large')
<1> DEFINE x == tab[t]
           more == typed \cup {e}
           C == Clean(M, more, relay)
           F == All(M, more, relay)
           S == Safe(relay, given)
           n == Of(x, copies)
           d == Join(x.doc, Plain({e}, "typed"))
           w == SetDoc(Keep(Unsent(n), t), d)
           v == Settle(w, t)
<1>0. e \in Edits \ typed /\ x.at # "closed" /\ Free(copies) # {} /\ typed' = more
  BY DEF Type, Room
<1>g. Grows(M, relay, typed, given, M, relay, more, given)
  BY <1>0, TypedGrows
<1> HIDE DEF more
<1>1. x \in TabRec(given) /\ Fit(t, n, relay, given, C, F)
  BY <1>g, CoreStart
<1>2. Family(C, F) /\ given \subseteq S
  BY <1>g, GrowsFields
<1>3. d \in Docs(given) /\ d \in C /\ x.doc.has \subseteq d.has
  <2>1. x.doc \in Docs(given) /\ x.doc \in Clean(M, typed, relay)
    <3>1. x \in TabRec(given) /\ Fit(t, n, relay, given, Clean(M, typed, relay), All(M, typed, relay))
      BY CoreTab
    <3> HIDE DEF x
    <3> QED
      BY <3>1, FitTab DEF TabRec
  <2>2. Marks(M, typed) /\ typed \subseteq Edits
    BY DEF Core
  <2> DEFINE p == x.doc
  <2>3. p \in Docs(given) /\ p \in Clean(M, typed, relay)
    BY <2>1
  <2> HIDE DEF p
  <2>4. Into(M, typed, relay, given, e, p, Join(p, Plain({e}, "typed")))
    <3>1. e \in Edits \ typed
      BY <1>0
    <3> QED
      BY <2>2, <2>3, <3>1, TypedInto
  <2> QED
    BY <2>3, <2>4 DEF p, more, Into
<1>4. HasRoom(n)
  BY <1>0 DEF HasRoom, Of
<1>5. tab' = [tab EXCEPT ![t] = v.tab] /\ copies' = v.copies
  <2>1. Now(t) = n
    BY DEF Now, Of
  <2> QED
    BY <2>1 DEF Type, Become
<1>6. Edited(t, x, copies, w, d, relay, given, C, F, S)
  <2> HIDE DEF d, x, C, F, S
  <2> QED
    BY <1>0, <1>1, <1>2, <1>3, <1>4, EditWorld
<1> HIDE DEF w
<1>7. /\ Fit(t, v, relay, given, C, F) /\ Touches(t, copies, v.copies) /\ Sure(copies, S, v.copies, S)
      /\ Says(w.tab, v.tab) /\ v.tab.doc = w.tab.doc
  <2>1. Flags(x)
    <3> HIDE DEF x, C, F
    <3> QED
      BY <1>1, FitTab
  <2> HIDE DEF d, x
  <2>2. w.tab.net # "synced" \/ w.tab.restore = <<>>
    BY <1>6, <2>1 DEF Edited, Alike, Flags
  <2> QED
    BY <1>g, <1>6, <2>2, CoreEdited
<1> HIDE DEF v
<1>8. Core(M, tab', copies', relay, more, kept, given, large)
  BY <1>g, <1>5, <1>7, CoreTurn
<1>9. One(w.tab, relay, stale, large)
  <2>1. One(x, relay, stale, large)
    BY DEF Once, x
  <2>2. Ours(x.doc, typed, relay) /\ Ours(relay, typed, relay)
    <3>1. Fit(t, n, relay, given, Clean(M, typed, relay), All(M, typed, relay))
      BY CoreTab
    <3> HIDE DEF x
    <3>2. x.doc \in Clean(M, typed, relay) /\ relay \in Clean(M, typed, relay)
      BY <3>1, FitTab DEF Core
    <3> QED
      BY <3>2 DEF Clean
  <2>3. d.has = x.doc.has \cup {<<e, "typed">>}
    BY DEF Join, Plain
  <2>4. e # BaseText
    BY <1>0, TextsAssumption
  <2>5. w.tab.live \in Copies /\ w.tab.doc = d /\ Alike(x, w.tab)
    BY <1>6 DEF Edited
  <2>6. <<e, "rebased">> \notin relay.has /\ <<e, "rebased">> \notin x.doc.has
    BY <1>0, <2>2, <2>4 DEF Ours
  <2> HIDE DEF x, d
  <2>7. \A f \in Edits : Both(f, d, d) => Both(f, x.doc, x.doc)
    BY <2>3, <2>6 DEF Both
  <2>8. \A f \in Edits : Both(f, d, relay) => Both(f, x.doc, relay)
    BY <2>3, <2>6 DEF Both
  <2> QED
    BY <2>1, <2>5, <2>7, <2>8 DEF One, Alike
<1>10. Once(tab', relay, stale, large)
  <2>1. tab \in [Tabs -> TabRec(given)]
    BY DEF Core
  <2>2. One(v.tab, relay, stale, large)
    BY <1>7, <1>9, OneSays
  <2> QED
    BY <1>5, <2>1, <2>2, OnceStep
<1> QED
  BY <1>0, <1>8, <1>10 DEF Type

\* A tab and copies it has.
LEMMA MadeFit ==
  ASSUME NEW t \in Tabs, NEW y, NEW ds, NEW rl, NEW gv, NEW C, NEW F, y \in TabRec(gv), Good(t, y.live, y.doc, ds, gv),
         y.doc \in C, Held(ds, F), Hand(ds, t, ToSet(y.restore)), Hand(ds, t, y.offered),
         ToSet(y.restore) \cap y.offered = {}, Flags(y), Truth(y, rl, gv)
  PROVE  Fit(t, Of(y, ds), rl, gv, C, F) /\ Of(y, ds).tab = y /\ Of(y, ds).copies = ds
<1> DEFINE v == Of(y, ds)
           P == ToSet(y.restore)
<1>1. v.tab = y /\ v.copies = ds /\ v = [tab |-> y, copies |-> ds]
  BY DEF Of
<1>2. P \subseteq Copies
  <2>1. y.restore \in Seq(Copies)
    BY DEF TabRec
  <2> QED
    BY <2>1, Members
<1>3. ds \in [Copies -> CopyRec(gv)]
  BY DEF Good
<1> HIDE DEF v, P
<1>4. v \in World(gv)
  BY <1>1, <1>3 DEF World
<1>5. Good(t, v.tab.live, v.tab.doc, v.copies, gv) /\ v.tab.doc \in C /\ Held(v.copies, F) /\ Hand(v.copies, t, P)
      /\ Hand(v.copies, t, v.tab.offered) /\ P \cap v.tab.offered = {} /\ P = ToSet(v.tab.restore)
  BY <1>1 DEF P
<1>6. Ready(t, v, P, gv, C, F)
  BY <1>2, <1>4, <1>5, ReadyMade
<1>7. Fit(t, v, rl, gv, C, F)
  BY <1>1, <1>5, <1>6 DEF Fit
<1> QED
  BY <1>1, <1>7 DEF v

\* What a fit tab is made of.
LEMMA FitMade ==
  ASSUME NEW t \in Tabs, NEW x, NEW cs, NEW rl, NEW gv, NEW C, NEW F, Fit(t, Of(x, cs), rl, gv, C, F)
  PROVE  /\ x \in TabRec(gv) /\ Good(t, x.live, x.doc, cs, gv) /\ x.doc \in C /\ Held(cs, F) /\ Hand(cs, t, ToSet(x.restore))
         /\ Hand(cs, t, x.offered) /\ ToSet(x.restore) \cap x.offered = {} /\ Flags(x) /\ Truth(x, rl, gv)
         /\ cs \in [Copies -> CopyRec(gv)] /\ ToSet(x.restore) \subseteq Copies /\ x.offered \subseteq Copies
         /\ x.live \in Copies \cup {0} /\ x.doc \in Docs(gv)
<1> DEFINE w == Of(x, cs)
<1>1. w.tab = x /\ w.copies = cs /\ Flags(x) /\ Truth(x, rl, gv) /\ Ready(t, w, ToSet(x.restore), gv, C, F)
  BY FitTab DEF Of
<1> HIDE DEF w
<1>2. /\ w \in World(gv) /\ w.tab \in TabRec(gv) /\ w.copies \in [Copies -> CopyRec(gv)]
      /\ w.tab.doc \in Docs(gv) /\ w.tab.live \in Copies \cup {0} /\ w.tab.offered \in SUBSET Copies
      /\ Good(t, w.tab.live, w.tab.doc, w.copies, gv) /\ ToSet(x.restore) \subseteq Copies /\ w.tab.doc \in C /\ Held(w.copies, F)
      /\ Hand(w.copies, t, ToSet(x.restore)) /\ Hand(w.copies, t, w.tab.offered) /\ ToSet(x.restore) \cap w.tab.offered = {}
  BY <1>1, ReadyFields
<1> QED
  BY <1>1, <1>2

\* The copy that is shown is the first the tab has found.
LEMMA ShownCopy ==
  ASSUME NEW gv, NEW x \in TabRec(gv), Flags(x), x.shown # 0
  PROVE  x.shown \in Copies /\ x.shown \in ToSet(x.restore) /\ x.net # "synced"
<1>1. x.restore # <<>> /\ x.shown = x.restore[1] /\ x.restore \in Seq(Copies) /\ x.net # "synced"
  BY DEF TabRec, Flags
<1> QED
  BY <1>1, Members

LEMMA TypeCopyCore ==
  ASSUME NEW M, Core(M, tab, copies, relay, typed, kept, given, large), Once(tab, relay, stale, large), NEW t \in Tabs, NEW e \in Edits, Type(t, e),
         tab[t].shown # 0
  PROVE  (\E N : Core(N, tab', copies', relay', typed', kept', given', large')) /\ Once(tab', relay', stale', large')
<1> DEFINE x == tab[t]
           c == x.shown
           k == copies[c]
           m == Join(k.mem, Plain({e}, "typed"))
           more == typed \cup {e}
           S == Safe(relay, given)
           ds == [copies EXCEPT ![c] = [@ EXCEPT !.mem = m, !.unsaved = TRUE]]
           v == Of(x, ds)
<1>0. e \in Edits \ typed /\ typed' = more /\ Marks(M, typed) /\ typed \subseteq Edits
  BY DEF Type, Core
<1>1. /\ Fit(t, Of(x, copies), relay, given, Clean(M, typed, relay), All(M, typed, relay))
      /\ copies \in [Copies -> CopyRec(given)]
  BY CoreTab
<1>2. /\ x \in TabRec(given) /\ Flags(x) /\ Good(t, x.live, x.doc, copies, given) /\ Hand(copies, t, ToSet(x.restore))
      /\ Hand(copies, t, x.offered) /\ ToSet(x.restore) \cap x.offered = {}
  <2> HIDE DEF x
  <2> QED
    BY <1>1, FitMade
<1>3. c \in Copies /\ c \in ToSet(x.restore)
  <2>1. x.shown # 0
    OBVIOUS
  <2> HIDE DEF x
  <2> QED
    BY <1>2, <2>1, ShownCopy
<1> HIDE DEF c
<1>4. k \in CopyRec(given) /\ k.mem \in Docs(given) /\ k.mem \in All(M, typed, relay) /\ k.disk \subseteq All(M, typed, relay)
  BY <1>1, <1>3, CopyFields DEF Core, Held
<1> DEFINE p == k.mem
<1>5. Into(M, typed, relay, given, e, p, m)
  <2>1. p \in Docs(given)
    BY <1>4
  <2> HIDE DEF p
  <2>2. Into(M, typed, relay, given, e, p, Join(p, Plain({e}, "typed")))
    BY <1>0, <2>1, TypedInto
  <2> QED
    BY <2>2 DEF p
<1>6. PICK N : (N = M \/ N = M \cup {<<e, "typed">>}) /\ m \in All(N, more, relay)
  BY <1>4, <1>5 DEF Into
<1> DEFINE C == Clean(N, more, relay)
           F == All(N, more, relay)
<1>m. m \in Docs(given) /\ p.has \subseteq m.has
  BY <1>5 DEF Into
<1>g. Grows(M, relay, typed, given, N, relay, more, given)
  BY <1>0, <1>6, TypedGrows
<1> HIDE DEF more
<1>7. Fit(t, Of(x, copies), relay, given, C, F)
  BY <1>g, CoreStart
<1>8. /\ x \in TabRec(given) /\ Good(t, x.live, x.doc, copies, given) /\ x.doc \in C /\ Held(copies, F)
      /\ Flags(x) /\ Truth(x, relay, given)
  <2> HIDE DEF x, C, F
  <2> QED
    BY <1>7, FitMade
<1> HIDE DEF m, p
<1>9. Good(t, x.live, x.doc, ds, given) /\ Touches(t, copies, ds) /\ Sure(copies, S, ds, S)
  <2>1. given \subseteq S
    BY CoreTab
  <2>2. Hand(copies, t, {c})
    BY <1>2, <1>3 DEF Hand
  <2>3. copies[c].mem.has \subseteq m.has
    BY <1>m DEF p
  <2> DEFINE l == x.live
             d == x.doc
  <2>4. Good(t, l, d, copies, given)
    BY <1>8
  <2> HIDE DEF l, d, S
  <2>5. Good(t, l, d, ds, given) /\ Touches(t, copies, ds) /\ Sure(copies, S, ds, S)
    BY <1>3, <1>m, <2>1, <2>2, <2>3, <2>4, TypeStep
  <2> QED
    BY <2>5 DEF l, d
<1>10. /\ \A j \in Copies : j # c => ds[j] = copies[j]
       /\ ds[c].mem = m /\ ds[c].disk = k.disk /\ ds[c].by = k.by /\ ds[c].live = k.live /\ ds[c].end = k.end
       /\ ds[c].awaits = k.awaits
  <2>1. ds[c] = [k EXCEPT !.mem = m, !.unsaved = TRUE] /\ \A j \in Copies : j # c => ds[j] = copies[j]
    BY <1>1, <1>3
  <2> HIDE DEF ds, k
  <2> QED
    BY <1>4, <2>1 DEF CopyRec
<1>11. tab' = [tab EXCEPT ![t] = x] /\ copies' = ds
  <2>1. Now(t) = [tab |-> x, copies |-> copies]
    BY DEF Now
  <2> DEFINE n == Now(t)
             y == [n EXCEPT !.copies[c].mem = Join(@, Plain({e}, "typed")), !.copies[c].unsaved = TRUE]
  <2>2. tab' = [tab EXCEPT ![t] = y.tab] /\ copies' = y.copies
    BY DEF Type, Become, c
  <2>3. y.tab = x /\ y.copies = ds
    <3> HIDE DEF n
    <3>1. n \in World(given) /\ n.tab = x /\ n.copies = copies
      BY <1>1, <1>2, <2>1 DEF World, n
    <3> DEFINE y1 == [n EXCEPT !.copies[c].mem = Join(@, Plain({e}, "typed"))]
               ds1 == [copies EXCEPT ![c] = [k EXCEPT !.mem = m]]
    <3>2. y1 = [n EXCEPT !.copies = ds1]
      BY <3>1 DEF m, p, World
    <3>3. ds1 \in [Copies -> CopyRec(given)] /\ ds1[c] = [k EXCEPT !.mem = m]
      <4>1. [k EXCEPT !.mem = m] \in CopyRec(given)
        <5> HIDE DEF k
        <5> QED
          BY <1>4, <1>m DEF CopyRec
      <4> QED
        BY <1>1, <1>3, <4>1
    <3>4. y1 \in World(given) /\ y1.tab = x /\ y1.copies = ds1
      <4> HIDE DEF y1, ds1
      <4> QED
        BY <3>1, <3>2, <3>3 DEF World
    <3>5. y = [y1 EXCEPT !.copies[c].unsaved = TRUE]
      OBVIOUS
    <3> HIDE DEF y1
    <3>6. y.tab = x /\ y.copies = [ds1 EXCEPT ![c].unsaved = TRUE]
      <4> HIDE DEF ds1, x
      <4> QED
        BY <3>4, <3>5 DEF World
    <3>7. [ds1 EXCEPT ![c].unsaved = TRUE] = ds
      <4>1. [[k EXCEPT !.mem = m] EXCEPT !.unsaved = TRUE] = [k EXCEPT !.mem = m, !.unsaved = TRUE]
        OBVIOUS
      <4> QED
        BY <1>1, <1>3, <3>3
    <3> QED
      BY <3>6, <3>7
  <2> QED
    BY <2>2, <2>3
<1> HIDE DEF ds, k
<1>12. Held(ds, F)
  BY <1>6, <1>8, <1>10, <1>3 DEF Held, k
<1>13. Hand(ds, t, ToSet(x.restore)) /\ Hand(ds, t, x.offered)
  <2>1. ToSet(x.restore) \subseteq Copies /\ x.offered \subseteq Copies
    <3> HIDE DEF x, C, F
    <3> QED
      BY <1>7, FitMade
  <2> QED
    BY <1>2, <1>10, <2>1 DEF Hand, k
<1>14. Fit(t, v, relay, given, C, F) /\ v.tab = x /\ v.copies = ds
  <2> HIDE DEF x, C, F
  <2> QED
    BY <1>2, <1>8, <1>9, <1>12, <1>13, MadeFit
<1> HIDE DEF v
<1>15. tab' = [tab EXCEPT ![t] = v.tab] /\ copies' = v.copies /\ Touches(t, copies, v.copies) /\ Sure(copies, S, v.copies, S)
  BY <1>9, <1>11, <1>14
<1>16. Core(N, tab', copies', relay, more, kept, given, large)
  BY <1>g, <1>14, <1>15, CoreTurn
<1>17. Once(tab', relay, stale, large)
  <2>1. tab' = tab
    BY <1>11 DEF Core, x
  <2> QED
    BY <2>1
<1> QED
  BY <1>0, <1>16, <1>17 DEF Type

\* A step that leaves the tab t as y and the copies as ds.
LEMMA CoreMade ==
  ASSUME NEW M, NEW tb, NEW cs, NEW rl, NEW ty, NEW kp, NEW gv, NEW lg, Core(M, tb, cs, rl, ty, kp, gv, lg),
         NEW N, NEW sl, NEW more, NEW given2, Grows(M, rl, ty, gv, N, sl, more, given2),
         NEW t \in Tabs, NEW y \in TabRec(given2), NEW ds, Good(t, y.live, y.doc, ds, given2), Touches(t, cs, ds),
         Sure(cs, Safe(sl, given2), ds, Safe(sl, given2)), y.doc \in Clean(N, more, sl), Held(ds, All(N, more, sl)),
         Hand(ds, t, ToSet(y.restore)), Hand(ds, t, y.offered), ToSet(y.restore) \cap y.offered = {},
         Flags(y), Truth(y, sl, given2), NEW tb2, tb2 = [tb EXCEPT ![t] = y]
  PROVE  Core(N, tb2, ds, sl, more, kp, given2, lg)
<1> DEFINE v == Of(y, ds)
           C == Clean(N, more, sl)
           F == All(N, more, sl)
<1>1. y.doc \in C /\ Held(ds, F)
  OBVIOUS
<1> HIDE DEF C, F
<1>2. Fit(t, v, sl, given2, C, F) /\ v.tab = y /\ v.copies = ds
  BY <1>1, MadeFit
<1> HIDE DEF v
<1>3. tb2 = [tb EXCEPT ![t] = v.tab] /\ ds = v.copies /\ Touches(t, cs, v.copies)
      /\ Sure(cs, Safe(sl, given2), v.copies, Safe(sl, given2)) /\ Fit(t, v, sl, given2, Clean(N, more, sl), All(N, more, sl))
  BY <1>2 DEF C, F
<1> QED
  BY <1>3, CoreTurn

\* A tab that has left the note.
LEMMA ClosedTab ==
  ASSUME NEW rl, NEW gv, NEW st, NEW lg
  PROVE  /\ Closed \in TabRec(gv) /\ Flags(Closed) /\ Truth(Closed, rl, gv) /\ One(Closed, rl, st, lg)
         /\ Closed.doc = Empty /\ Closed.live = 0 /\ Closed.restore = <<>> /\ Closed.offered = {} /\ ToSet(Closed.restore) = {}
<1>1. Closed \in TabRec(gv)
  BY EmptyDoc DEF Closed, TabRec
<1>2. /\ Closed.at = "closed" /\ Closed.doc = Empty /\ Closed.net = "down" /\ Closed.acked = Empty /\ ~Closed.synced
      /\ Closed.live = 0 /\ Closed.restore = <<>> /\ Closed.shown = 0 /\ Closed.offered = {}
  BY DEF Closed
<1>3. ToSet(Closed.restore) = {} /\ Distinct(Closed.restore)
  <2>1. <<>> \in Seq(Copies) /\ Len(<<>>) = 0
    OBVIOUS
  <2>2. ToSet(<<>>) = {}
    BY <2>1, Members
  <2> QED
    BY <1>2, <2>1, <2>2 DEF Distinct
<1>4. Flags(Closed)
  BY <1>2, <1>3 DEF Flags
<1>5. Truth(Closed, rl, gv)
  BY <1>2 DEF Truth
<1>6. One(Closed, rl, st, lg)
  BY <1>2, EmptyDoc DEF One, Big
<1> QED
  BY <1>1, <1>2, <1>3, <1>4, <1>5, <1>6

\* The copies of a tab whose document no copy follows do not depend on it.
LEMMA GoodNoLive ==
  ASSUME NEW cuts, NEW t \in Tabs, NEW l, l \notin Copies, NEW d, NEW cs, Good(t, l, d, cs, cuts), NEW d2 \in Docs(cuts)
  PROVE  Good(t, 0, d2, cs, cuts)
<1>1. /\ cs \in [Copies -> CopyRec(cuts)] /\ l = 0 /\ d \in Docs(cuts) /\ Loose(cs) /\ Backed(cs, cuts) /\ Own(t, l, d, cs, cuts)
  BY GoodTypes
<1>2. ASSUME NEW c \in Copies, cs[c].by = {t}
      PROVE  OwnCopy(t, 0, d2, cs, cuts, c)
  <2>1. OwnCopy(t, l, d, cs, cuts, c) /\ ~cs[c].live
    BY <1>2, GoodCopy
  <2>2. cs[c].awaits # 0 => cs[c].awaits \in Copies /\ cs[cs[c].awaits].by = {t} /\ ~cs[cs[c].awaits].live
    <3>1. cs[c].awaits # 0 => cs[c].awaits \in Copies /\ cs[cs[c].awaits].by = {t}
      BY <1>2, GoodCopy
    <3> DEFINE a == cs[c].awaits
    <3>2. a \in Copies /\ cs[a].by = {t} => (cs[a].live => l = a)
      <4> HIDE DEF a
      <4> QED
        BY GoodCopy
    <3> QED
      BY <3>1, <3>2
  <2> QED
    BY <2>1, <2>2 DEF OwnCopy, Body
<1>3. Own(t, 0, d2, cs, cuts)
  BY <1>2 DEF Own
<1> QED
  BY <1>1, <1>3 DEF Good

LEMMA CleanIsAll ==
  ASSUME NEW N, NEW more, NEW sl
  PROVE  Clean(N, more, sl) \subseteq All(N, more, sl) /\ Empty \in Clean(N, more, sl) /\ Empty \in All(N, more, sl)
BY IsFamily DEF Family

LEMMA CrashCore ==
  ASSUME NEW M, Core(M, tab, copies, relay, typed, kept, given, large), Once(tab, relay, stale, large), NEW t \in Tabs, Crash(t)
  PROVE  Core(M, tab', copies', relay', typed', kept', given', large') /\ Once(tab', relay', stale', large')
<1> DEFINE x == tab[t]
           C == Clean(M, typed, relay)
           F == All(M, typed, relay)
           S == Safe(relay, given)
           ds == [c \in Copies |-> IF t \in copies[c].by THEN [NoCopy EXCEPT !.disk = copies[c].disk] ELSE copies[c]]
<1>1. Fit(t, Of(x, copies), relay, given, C, F) /\ given \subseteq S
  BY CoreTab
<1>2. Good(t, x.live, x.doc, copies, given) /\ Held(copies, F)
  <2> HIDE DEF x, C, F
  <2> QED
    BY <1>1, FitMade
<1>3. Good(t, 0, Empty, ds, given) /\ Touches(t, copies, ds) /\ Sure(copies, S, ds, S) /\ Survives(copies, ds)
  <2> DEFINE l == x.live
             d == x.doc
  <2>1. given \subseteq S /\ Good(t, l, d, copies, given)
    BY <1>1, <1>2
  <2>2. ds = [c \in Copies |-> IF t \in copies[c].by THEN [NoCopy EXCEPT !.disk = copies[c].disk] ELSE copies[c]]
    OBVIOUS
  <2> HIDE DEF S, l, d, ds, C, F, x
  <2> QED
    BY <2>1, <2>2, CrashStep DEF Crashed
<1>4. tab' = [tab EXCEPT ![t] = Closed] /\ copies' = ds
  BY DEF Crash
<1> HIDE DEF ds
<1>5. Held(ds, F)
  BY <1>2, <1>3, CleanIsAll DEF Held, Survives
<1>6. Hand(ds, t, {})
  BY DEF Hand
<1>7. Core(M, tab', copies', relay, typed, kept, given, large)
  <2> DEFINE y == Closed
             tb2 == tab'
  <2>1. /\ y \in TabRec(given) /\ Good(t, y.live, y.doc, ds, given) /\ y.doc \in C /\ Hand(ds, t, ToSet(y.restore))
        /\ Hand(ds, t, y.offered) /\ ToSet(y.restore) \cap y.offered = {} /\ Flags(y) /\ Truth(y, relay, given)
    BY <1>3, <1>6, ClosedTab, CleanIsAll
  <2>2. tb2 = [tab EXCEPT ![t] = y]
    BY <1>4
  <2>3. Grows(M, relay, typed, given, M, relay, typed, given)
    BY GrowsNot
  <2> HIDE DEF y, tb2
  <2>4. Core(M, tb2, ds, relay, typed, kept, given, large)
    BY <1>3, <1>5, <2>1, <2>2, <2>3, CoreMade
  <2> QED
    BY <1>4, <2>4 DEF tb2
<1>8. Once(tab', relay, stale, large)
  <2>1. tab \in [Tabs -> TabRec(given)]
    BY DEF Core
  <2> QED
    BY <1>4, <2>1, ClosedTab, OnceStep
<1> QED
  BY <1>7, <1>8 DEF Crash

\* The live copy of tab x stops following the document.
LEMMA DetachIs ==
  ASSUME NEW gv, NEW x \in TabRec(gv), NEW cs \in [Copies -> CopyRec(gv)], x.live \in Copies, NEW how
  PROVE  Detach(Of(x, cs), x.live, how) = Of(x, Stopped(cs, x.live, x.doc, how))
<1> DEFINE w == Of(x, cs)
           l == x.live
           k == cs[l]
           d == x.doc
           off == FALSE
<1>1. w.tab = x /\ w.copies = cs /\ w \in World(gv)
  BY DEF Of, World
<1>2. Detach(w, l, how) = [w EXCEPT !.copies[l].mem = d, !.copies[l].live = off, !.copies[l].end = how]
  BY <1>1 DEF Detach
<1>k. k \in CopyRec(gv) /\ l \in Copies
  OBVIOUS
<1> HIDE DEF w, d, off, l, k
<1>3. [w EXCEPT !.copies[l].mem = d, !.copies[l].live = off, !.copies[l].end = how]
      = [w EXCEPT !.copies = [[[w.copies EXCEPT ![l].mem = d] EXCEPT ![l].live = off] EXCEPT ![l].end = how]]
  BY <1>1 DEF World
<1>4. [[[cs EXCEPT ![l].mem = d] EXCEPT ![l].live = off] EXCEPT ![l].end = how]
      = [cs EXCEPT ![l] = [[[cs[l] EXCEPT !.mem = d] EXCEPT !.live = off] EXCEPT !.end = how]]
  BY <1>k
<1>5. [[[cs[l] EXCEPT !.mem = d] EXCEPT !.live = off] EXCEPT !.end = how] = [cs[l] EXCEPT !.mem = d, !.live = off, !.end = how]
  OBVIOUS
<1>6. [w EXCEPT !.copies = Stopped(cs, x.live, x.doc, how)] = Of(x, Stopped(cs, x.live, x.doc, how))
  <2> DEFINE e == Stopped(cs, x.live, x.doc, how)
  <2> HIDE DEF e
  <2> QED
    BY <1>1 DEF World, Of
<1>7. Stopped(cs, x.live, x.doc, how) = [cs EXCEPT ![l] = [cs[l] EXCEPT !.mem = d, !.live = off, !.end = how]]
  BY DEF Stopped, l, d, off
<1> QED
  BY <1>1, <1>2, <1>3, <1>4, <1>5, <1>6, <1>7 DEF w, l

LEMMA DropNot ==
  ASSUME NEW gv, NEW x \in TabRec(gv), x.live \notin Copies, NEW cs, NEW unsent
  PROVE  Drop(Of(x, cs), unsent) = Of(x, cs)
<1>1. Of(x, cs).tab = x /\ x.live \in Copies \cup {0}
  BY DEF Of, TabRec
<1> QED
  BY <1>1 DEF Drop

LEMMA DropLive ==
  ASSUME NEW gv, NEW x \in TabRec(gv), x.live \in Copies, NEW cs \in [Copies -> CopyRec(gv)], NEW unsent
  PROVE  Drop(Of(x, cs), unsent) = Of([x EXCEPT !.live = 0], Stopped(cs, x.live, x.doc, IF unsent THEN "close" ELSE "release"))
<1> DEFINE how == IF unsent THEN "close" ELSE "release"
           e == Stopped(cs, x.live, x.doc, how)
<1>1. Of(x, cs).tab = x
  BY DEF Of
<1>2. Drop(Of(x, cs), unsent) = [Detach(Of(x, cs), x.live, how) EXCEPT !.tab.live = 0]
  BY <1>1, NoCopyZero DEF Drop
<1> HIDE DEF how
<1>3. Detach(Of(x, cs), x.live, how) = Of(x, e)
  BY DetachIs
<1> HIDE DEF e
<1>4. [Of(x, e) EXCEPT !.tab.live = 0] = Of([x EXCEPT !.live = 0], e)
  BY DEF Of
<1> QED
  BY <1>2, <1>3, <1>4 DEF how, e

LEMMA ReleaseDueCore ==
  ASSUME NEW M, Core(M, tab, copies, relay, typed, kept, given, large), Once(tab, relay, stale, large), NEW t \in Tabs, ReleaseDue(t)
  PROVE  Core(M, tab', copies', relay', typed', kept', given', large') /\ Once(tab', relay', stale', large')
<1> DEFINE x == tab[t]
           C == Clean(M, typed, relay)
           F == All(M, typed, relay)
           S == Safe(relay, given)
           n == Of(x, copies)
           w == IF Acked(x) THEN Drop(n, FALSE) ELSE n
           y == [w.tab EXCEPT !.due = FALSE]
<1>1. /\ x \in TabRec(given) /\ Flags(x) /\ Truth(x, relay, given) /\ Fit(t, n, relay, given, C, F) /\ given \subseteq S
      /\ copies \in [Copies -> CopyRec(given)] /\ tab \in [Tabs -> TabRec(given)]
  <2>1. Fit(t, n, relay, given, C, F) /\ tab \in [Tabs -> TabRec(given)]
    BY CoreTab DEF Core
  <2> HIDE DEF C, F
  <2> QED
    BY <2>1, CoreTab, FitTab
<1>2. x.due /\ x.at # "closed"
  <2>1. x.due
    BY DEF ReleaseDue
  <2> HIDE DEF x
  <2> QED
    BY <1>1, <2>1 DEF Flags, Closed
<1>3. tab' = [tab EXCEPT ![t] = y] /\ copies' = w.copies
  <2>1. Now(t) = n /\ n.tab = x
    BY DEF Now, Of
  <2> DEFINE z == [w EXCEPT !.tab.due = FALSE]
  <2>2. tab' = [tab EXCEPT ![t] = z.tab] /\ copies' = z.copies
    BY <2>1 DEF ReleaseDue, Become
  <2>3. w = Of(w.tab, w.copies)
    <3>1. n = Of(n.tab, n.copies)
      BY DEF Of
    <3>2. Drop(n, FALSE) = Of(Drop(n, FALSE).tab, Drop(n, FALSE).copies)
      <4> DEFINE a == [x EXCEPT !.live = 0]
                 b == Stopped(copies, x.live, x.doc, "release")
      <4>1. Drop(n, FALSE) = n \/ Drop(n, FALSE) = Of(a, b)
        <5> DEFINE u == FALSE
        <5>1. b = Stopped(copies, x.live, x.doc, IF u THEN "close" ELSE "release")
          OBVIOUS
        <5> HIDE DEF x, u, b
        <5>2. x.live \notin Copies => Drop(n, u) = n
          BY <1>1, DropNot
        <5>3. x.live \in Copies => Drop(n, u) = Of(a, Stopped(copies, x.live, x.doc, IF u THEN "close" ELSE "release"))
          BY <1>1, DropLive
        <5> QED
          BY <5>1, <5>2, <5>3 DEF u
      <4>2. Of(a, b) = Of(Of(a, b).tab, Of(a, b).copies)
        <5> HIDE DEF a, b
        <5> QED
          BY DEF Of
      <4> HIDE DEF n, a, b
      <4> QED
        BY <3>1, <4>1, <4>2
    <3> HIDE DEF n, x
    <3> QED
      BY <3>1, <3>2
  <2> HIDE DEF w
  <2>4. z.tab = y /\ z.copies = w.copies
    BY <2>3 DEF Of
  <2> QED
    BY <2>2, <2>4
<1>4. CASE ~Acked(x) \/ x.live \notin Copies
  <2>1. w = n
    <3> DEFINE u == FALSE
    <3>1. x.live \notin Copies => Drop(n, u) = n
      <4> HIDE DEF x, u
      <4> QED
        BY <1>1, DropNot
    <3> QED
      BY <1>4, <3>1
  <2> HIDE DEF w
  <2>2. w.tab = x /\ w.copies = copies
    BY <2>1 DEF Of
  <2>3. y = [x EXCEPT !.due = FALSE] /\ tab' = [tab EXCEPT ![t] = y]
    BY <1>3, <2>2
  <2>4. /\ y \in TabRec(given) /\ y.live = x.live /\ y.doc = x.doc /\ y.offered = x.offered /\ y.restore = x.restore
        /\ y.at = x.at /\ y.net = x.net /\ y.shown = x.shown /\ y.unsynced = x.unsynced /\ y.synced = x.synced
        /\ y.acked = x.acked
    <3> HIDE DEF x, y
    <3> QED
      BY <1>1, <2>3 DEF TabRec
  <2> HIDE DEF y
  <2>5. Flags(y)
    <3> HIDE DEF x
    <3> QED
      BY <1>1, <1>2, <2>4 DEF Flags
  <2>6. Truth(y, relay, given)
    <3> HIDE DEF x
    <3> QED
      BY <1>1, <2>4 DEF Truth
  <2>7. Core(M, tab', copies, relay, typed, kept, given, large)
    BY <2>3, <2>4, <2>5, <2>6, CoreSay
  <2>8. One(y, relay, stale, large)
    <3>1. One(x, relay, stale, large)
      BY DEF Once
    <3> HIDE DEF x
    <3> QED
      BY <2>4, <3>1 DEF One, Both, Big
  <2>9. Once(tab', relay, stale, large)
    BY <1>1, <2>3, <2>8, OnceStep
  <2> QED
    BY <1>3, <2>2, <2>7, <2>9 DEF ReleaseDue
<1>5. CASE Acked(x) /\ x.live \in Copies
  <2> DEFINE ds == Stopped(copies, x.live, x.doc, "release")
             a == [x EXCEPT !.live = 0]
  <2>1. w = Of(a, ds)
    <3>1. w = Drop(n, FALSE)
      BY <1>5
    <3>2. Drop(n, FALSE) = Of(a, ds)
      <4> DEFINE u == FALSE
      <4>1. ds = Stopped(copies, x.live, x.doc, IF u THEN "close" ELSE "release")
        OBVIOUS
      <4> HIDE DEF x, u, ds
      <4>2. Drop(n, u) = Of(a, Stopped(copies, x.live, x.doc, IF u THEN "close" ELSE "release"))
        BY <1>1, <1>5, DropLive
      <4> QED
        BY <4>1, <4>2 DEF u
    <3> QED
      BY <3>1, <3>2
  <2> HIDE DEF w, ds
  <2>2. w.tab = a /\ w.copies = ds
    <3> HIDE DEF a
    <3> QED
      BY <2>1 DEF Of
  <2>3. y = [a EXCEPT !.due = FALSE] /\ tab' = [tab EXCEPT ![t] = y] /\ copies' = ds
    BY <1>3, <2>2
  <2>4. /\ y \in TabRec(given) /\ y.live = 0 /\ y.doc = x.doc /\ y.offered = x.offered /\ y.restore = x.restore
        /\ y.at = x.at /\ y.net = x.net /\ y.shown = x.shown /\ y.unsynced = x.unsynced /\ y.synced = x.synced
        /\ y.acked = x.acked
    <3>1. y = [[x EXCEPT !.live = 0] EXCEPT !.due = FALSE]
      BY <2>3
    <3> HIDE DEF x, y, a
    <3> QED
      BY <1>1, <3>1 DEF TabRec
  <2> HIDE DEF y
  <2>5. Flags(y)
    <3> HIDE DEF x
    <3> QED
      BY <1>1, <1>2, <2>4 DEF Flags
  <2>6. Truth(y, relay, given)
    <3> HIDE DEF x
    <3> QED
      BY <1>1, <2>4 DEF Truth
  <2>7. /\ Good(t, x.live, x.doc, copies, given) /\ x.doc \in C /\ Held(copies, F) /\ Hand(copies, t, ToSet(x.restore))
        /\ Hand(copies, t, x.offered) /\ ToSet(x.restore) \cap x.offered = {} /\ x.doc \in Docs(given)
        /\ ToSet(x.restore) \subseteq Copies /\ x.offered \subseteq Copies
    <3> HIDE DEF x, C, F
    <3> QED
      BY <1>1, FitMade
  <2>8. x.net = "synced" /\ Text(x.doc) \subseteq Text(relay) \cup given /\ x.doc.has \subseteq x.acked.has
    <3>1. x.net = "synced" => Text(x.acked) \subseteq Text(relay) \cup given
      BY <1>1 DEF Truth
    <3> HIDE DEF x
    <3>2. x.net = "synced" /\ Text(x.doc) \subseteq Text(relay) \cup given
      BY <1>1, <1>5, <3>1, AckedText
    <3> QED
      BY <1>5, <3>2 DEF Acked, Within
  <2>9. Halted(t, x.live, x.doc, copies, x.doc, "release", ds, given, S)
    <3>1. Text(x.doc) \subseteq S /\ given \subseteq S
      BY <1>1, <2>8 DEF Safe
    <3> DEFINE how == "release"
               d == x.doc
               l == x.live
    <3>2. d \in Docs(given) /\ how \in {"none", "close", "release"} /\ l \in Copies /\ Good(t, l, d, copies, given)
          /\ Text(d) \subseteq S
      BY <1>5, <2>7, <3>1
    <3> HIDE DEF x, S, how, d, l
    <3>3. Halted(t, l, d, copies, d, how, Stopped(copies, l, d, how), given, S)
      BY <3>1, <3>2, DetachStep
    <3> QED
      BY <3>3 DEF how, d, l, ds
  <2>10. Held(ds, F) /\ Hand(ds, t, ToSet(y.restore)) /\ Hand(ds, t, y.offered)
    <3>1. copies[x.live].live
      <4> DEFINE l == x.live
                 d == x.doc
      <4>1. Good(t, l, d, copies, given) /\ l \in Copies
        BY <1>5, <2>7
      <4> HIDE DEF l, d
      <4>2. copies[l].live
        BY <4>1, GoodLive
      <4> QED
        BY <4>2 DEF l
    <3>2. x.live \notin ToSet(x.restore) /\ x.live \notin x.offered
      BY <2>7, <3>1 DEF Hand
    <3>3. C \subseteq F
      BY CleanIsAll
    <3>4. Held(ds, F)
      <4> HIDE DEF x, C, F
      <4> QED
        BY <1>5, <2>7, <2>9, <3>3 DEF Held, Halted
    <3> HIDE DEF x, C, F
    <3> QED
      BY <2>4, <2>7, <2>9, <3>2, <3>4 DEF Hand, Halted
  <2>11. Core(M, tab', copies', relay, typed, kept, given, large)
    <3>1. Grows(M, relay, typed, given, M, relay, typed, given)
      BY GrowsNot
    <3> DEFINE tb2 == tab'
    <3>2. tb2 = [tab EXCEPT ![t] = y] /\ Good(t, y.live, y.doc, ds, given) /\ Touches(t, copies, ds) /\ Sure(copies, S, ds, S)
          /\ ToSet(y.restore) \cap y.offered = {} /\ y.doc \in C
      BY <2>3, <2>4, <2>7, <2>9 DEF Halted
    <3> HIDE DEF tb2, x
    <3>3. Core(M, tb2, ds, relay, typed, kept, given, large)
      BY <2>4, <2>5, <2>6, <2>10, <3>1, <3>2, CoreMade
    <3> QED
      BY <2>3, <3>3 DEF tb2
  <2>12. Once(tab', relay, stale, large)
    <3>1. One(x, relay, stale, large)
      BY DEF Once
    <3>2. One(y, relay, stale, large)
      <4> HIDE DEF x
      <4>1. Big(x.doc, relay, large) /\ x.at # "refused"
        BY <1>1, <2>8, <3>1 DEF One, Big, Flags
      <4> QED
        BY <2>4, <3>1, <4>1 DEF One
    <3> QED
      BY <1>1, <2>3, <3>2, OnceStep
  <2> QED
    BY <2>11, <2>12 DEF ReleaseDue
<1> QED
  BY <1>4, <1>5

\* The copies a tab leaves or gives up.
LEMMA PutBackIs ==
  ASSUME NEW x, NEW cs, NEW P
  PROVE  PutBack(Of(x, cs), P) = Of(x, [c \in Copies |-> IF c \in P THEN [cs[c] EXCEPT !.end = "close"] ELSE cs[c]])
BY DEF PutBack, Of

\* A tab that is left: its copies follow no document, and none is offered or found.
Closing(cs, ds, t, gv, S) ==
  Good(t, 0, Empty, ds, gv) /\ Touches(t, cs, ds) /\ Sure(cs, S, ds, S) /\ \A k \in Copies : ds[k].disk = cs[k].disk
LEMMA DropStep ==
  ASSUME NEW gv, NEW t \in Tabs, NEW x, NEW cs, NEW rl, NEW C, NEW F, Fit(t, Of(x, cs), rl, gv, C, F), C \subseteq F,
         NEW S, gv \subseteq S, ~x.unsynced => Text(x.doc) \subseteq S
  PROVE  /\ Closing(cs, Drop(Of(x, cs), x.unsynced).copies, t, gv, S) /\ Held(Drop(Of(x, cs), x.unsynced).copies, F)
         /\ Hand(Drop(Of(x, cs), x.unsynced).copies, t, ToSet(x.restore) \cup x.offered)
<1> DEFINE w == Drop(Of(x, cs), x.unsynced)
           P == ToSet(x.restore) \cup x.offered
           l == x.live
           d == x.doc
<1>1. /\ x \in TabRec(gv) /\ Good(t, l, d, cs, gv) /\ d \in C /\ Held(cs, F) /\ Hand(cs, t, P)
      /\ cs \in [Copies -> CopyRec(gv)] /\ P \subseteq Copies /\ l \in Copies \cup {0} /\ d \in Docs(gv)
  <2>1. Hand(cs, t, ToSet(x.restore)) /\ Hand(cs, t, x.offered)
    BY FitMade
  <2> QED
    BY <2>1, FitMade DEF Hand
<1>2. CASE l \notin Copies
  <2>1. w.copies = cs
    <3>1. Drop(Of(x, cs), x.unsynced) = Of(x, cs)
      BY <1>1, <1>2, DropNot
    <3> QED
      BY <3>1 DEF Of
  <2>2. Good(t, 0, Empty, cs, gv)
    <3> HIDE DEF l, d
    <3> QED
      BY <1>1, <1>2, EmptyDoc, GoodNoLive
  <2>3. Closing(cs, cs, t, gv, S)
    BY <2>2, SureStays DEF Closing, Touches
  <2> QED
    BY <1>1, <2>1, <2>3
<1>3. CASE l \in Copies
  <2> DEFINE how == IF x.unsynced THEN "close" ELSE "release"
             a == [x EXCEPT !.live = 0]
             ds == Stopped(cs, l, d, how)
  <2>1. w = Of(a, ds)
    BY <1>1, <1>3, DropLive
  <2>2. w.copies = ds
    <3> HIDE DEF w, a, ds
    <3> QED
      BY <2>1 DEF Of
  <2>3. how \in {"none", "close", "release"} /\ (how = "release" => Text(d) \subseteq S)
    OBVIOUS
  <2>4. Halted(t, l, d, cs, Empty, how, ds, gv, S)
    <3> HIDE DEF how, l, d
    <3>1. Empty \in Docs(gv)
      BY EmptyDoc
    <3> QED
      BY <1>1, <1>3, <2>3, <3>1, DetachStep
  <2> HIDE DEF ds, how, w
  <2>5. cs[l].live
    <3> HIDE DEF l, d
    <3> QED
      BY <1>1, <1>3, GoodLive
  <2>6. l \notin P
    BY <1>1, <2>5 DEF Hand
  <2> HIDE DEF l, d, P
  <2>7. Held(ds, F)
    BY <1>1, <1>3, <2>4 DEF Held, Halted
  <2>8. Hand(ds, t, P)
    BY <1>1, <2>4, <2>6 DEF Hand, Halted
  <2>9. Closing(cs, ds, t, gv, S)
    BY <2>4 DEF Halted, Closing
  <2> QED
    BY <2>2, <2>7, <2>8, <2>9 DEF P, w
<1> QED
  BY <1>2, <1>3

\* The end of a tab's visit, with the relay as sl.
LEMMA LeaveStep ==
  ASSUME NEW gv, NEW t \in Tabs, NEW x, NEW cs, NEW rl, NEW C, NEW F, Fit(t, Of(x, cs), rl, gv, C, F), C \subseteq F,
         NEW S, gv \subseteq S, ~x.unsynced => Text(x.doc) \subseteq S
  PROVE  LET w == PutBack(Drop(Of(x, cs), x.unsynced), ToSet(x.restore) \cup x.offered)
         IN Good(t, 0, Empty, w.copies, gv) /\ Touches(t, cs, w.copies) /\ Sure(cs, S, w.copies, S) /\ Held(w.copies, F)
<1> DEFINE m == Drop(Of(x, cs), x.unsynced)
           es == m.copies
           P == ToSet(x.restore) \cup x.offered
           ds == [c \in Copies |-> IF c \in P THEN [es[c] EXCEPT !.end = "close"] ELSE es[c]]
<1>1. Good(t, 0, Empty, es, gv) /\ Touches(t, cs, es) /\ Sure(cs, S, es, S) /\ Held(es, F) /\ Hand(es, t, P)
  BY DropStep DEF Closing
<1>2. P \in SUBSET Copies /\ x \in TabRec(gv) /\ cs \in [Copies -> CopyRec(gv)]
  BY FitMade
<1>3. PutBack(m, P).copies = ds
  <2>1. PutBack(m, P) = [m EXCEPT !.copies = ds]
    BY DEF PutBack
  <2>2. m = Of(m.tab, m.copies)
    <3> DEFINE a == [x EXCEPT !.live = 0]
               e == Stopped(cs, x.live, x.doc, IF x.unsynced THEN "close" ELSE "release")
    <3>1. m = Of(x, cs) \/ m = Of(a, e)
      <4>1. x.live \notin Copies => m = Of(x, cs)
        BY <1>2, DropNot
      <4>2. x.live \in Copies => m = Of(a, e)
        BY <1>2, DropLive
      <4> QED
        BY <4>1, <4>2
    <3> HIDE DEF m, a, e
    <3> QED
      BY <3>1 DEF Of
  <2> HIDE DEF m, ds
  <2> QED
    BY <2>1, <2>2 DEF Of
<1> HIDE DEF es, m, P
<1>4. /\ Good(t, 0, Empty, ds, gv) /\ Touches(t, es, ds) /\ Sure(es, S, ds, S)
      /\ \A k \in Copies : SameBody(es[k], ds[k])
  <2> DEFINE how == "close"
             l == 0
  <2>1. how \in {"close", "release"} /\ MayEnd(es, P, how, S) /\ ds = Ended(es, P, how) /\ Good(t, l, Empty, es, gv)
    BY <1>1 DEF MayEnd, Ended
  <2> HIDE DEF how, l, ds
  <2>2. Ends(t, l, Empty, es, P, Ended(es, P, how), S, gv)
    BY <1>1, <1>2, <2>1, EndsStep
  <2> QED
    BY <2>1, <2>2 DEF l, Ends
<1> HIDE DEF ds
<1>5. Held(ds, F)
  BY <1>1, <1>4 DEF Held, SameBody
<1>6. Touches(t, cs, ds) /\ Sure(cs, S, ds, S)
  BY <1>1, <1>4, TouchesTwice, SureTwice
<1> QED
  BY <1>3, <1>4, <1>5, <1>6 DEF m, P

LEMMA CloseNoteCore ==
  ASSUME NEW M, Core(M, tab, copies, relay, typed, kept, given, large), Once(tab, relay, stale, large), NEW t \in Tabs, CloseNote(t)
  PROVE  Core(M, tab', copies', relay', typed', kept', given', large') /\ Once(tab', relay', stale', large')
<1> DEFINE x == tab[t]
           n == Of(x, copies)
           w == PutBack(Drop(n, x.unsynced), ToSet(x.restore) \cup x.offered)
           sl == relay'
           C == Clean(M, typed, sl)
           F == All(M, typed, sl)
           S == Safe(sl, given)
           ds == w.copies
<1>1. x.at # "closed" /\ tab' = [tab EXCEPT ![t] = Closed] /\ copies' = ds
  <2>1. Now(t) = n
    BY DEF Now, Of
  <2> DEFINE z == [w EXCEPT !.tab = Closed]
  <2>2. tab' = [tab EXCEPT ![t] = z.tab] /\ copies' = z.copies /\ x.at # "closed"
    BY <2>1 DEF CloseNote, Become
  <2>3. w = Of(w.tab, w.copies)
    <3> DEFINE m == Drop(n, x.unsynced)
               P == ToSet(x.restore) \cup x.offered
    <3>1. m = Of(m.tab, m.copies)
      <4> DEFINE a == [x EXCEPT !.live = 0]
                 e == Stopped(copies, x.live, x.doc, IF x.unsynced THEN "close" ELSE "release")
      <4>0. x \in TabRec(given) /\ copies \in [Copies -> CopyRec(given)]
        BY CoreTab
      <4>1. m = n \/ m = Of(a, e)
        <5> HIDE DEF x
        <5>1. x.live \notin Copies => m = n
          BY <4>0, DropNot
        <5>2. x.live \in Copies => m = Of(a, e)
          BY <4>0, DropLive
        <5> QED
          BY <5>1, <5>2
      <4> HIDE DEF m, a, e, x
      <4> QED
        BY <4>1 DEF Of
    <3>2. w = PutBack(m, P)
      OBVIOUS
    <3> HIDE DEF m, P, w
    <3>3. PutBack(m, P) = Of(m.tab, PutBack(m, P).copies)
      <4> DEFINE fs == [c \in Copies |-> IF c \in P THEN [m.copies[c] EXCEPT !.end = "close"] ELSE m.copies[c]]
      <4>1. PutBack(m, P) = [m EXCEPT !.copies = fs]
        BY DEF PutBack
      <4> HIDE DEF fs
      <4>2. PutBack(m, P) = Of(m.tab, fs)
        BY <3>1, <4>1 DEF Of
      <4> QED
        BY <4>2 DEF Of
    <3> DEFINE y == m.tab
               fs == PutBack(m, P).copies
    <3>4. w = Of(y, fs)
      BY <3>2, <3>3
    <3> HIDE DEF y, fs
    <3> QED
      BY <3>4 DEF Of
  <2> HIDE DEF w
  <2>4. z.tab = Closed /\ z.copies = w.copies
    BY <2>3 DEF Of
  <2> QED
    BY <2>2, <2>4
<1>2. Grows(M, relay, typed, given, M, sl, typed, given) /\ Once(tab, sl, stale, large)
  <2>1. CASE sl = relay
    <3>1. Grows(M, relay, typed, given, M, relay, typed, given)
      BY GrowsNot
    <3> QED
      BY <2>1, <3>1
  <2>2. CASE sl # relay
    <3>1. x.at = "open" /\ x.net = "synced" /\ Fits(Join(relay, x.doc)) /\ sl = Join(relay, x.doc)
      BY <2>2 DEF CloseNote, Open
    <3>2. Grows(M, relay, typed, given, M, Join(relay, x.doc), typed, given)
      BY RelayJoins
    <3>3. Ours(x.doc, typed, relay)
      <4>1. Fit(t, n, relay, given, Clean(M, typed, relay), All(M, typed, relay))
        BY CoreTab
      <4> HIDE DEF x
      <4>2. x.doc \in Clean(M, typed, relay)
        BY <4>1, FitTab
      <4> QED
        BY <4>2 DEF Clean
    <3> DEFINE j == Join(relay, x.doc)
    <3>4. j.has = relay.has \cup x.doc.has /\ Text(j) \cap large = {}
      BY <3>1 DEF Join, Fits
    <3> HIDE DEF j
    <3>5. Once(tab, j, stale, large)
      BY <3>1, <3>3, <3>4, OnceRelay
    <3> QED
      BY <3>1, <3>2, <3>5 DEF j
  <2> QED
    BY <2>1, <2>2
<1> HIDE DEF sl
<1>3. Fit(t, n, sl, given, C, F) /\ tab \in [Tabs -> TabRec(given)]
  <2>1. Fit(t, n, sl, given, C, F)
    BY <1>2, CoreStart
  <2> QED
    BY <2>1 DEF Core
<1>4. C \subseteq F /\ given \subseteq S
  BY CleanIsAll DEF Safe
<1>5. ~x.unsynced => Text(x.doc) \subseteq S
  <2> HIDE DEF x, C, F
  <2>1. Truth(x, sl, given)
    BY <1>3, FitTab
  <2> QED
    BY <1>1, <2>1 DEF Truth, Safe
<1>6. Good(t, 0, Empty, ds, given) /\ Touches(t, copies, ds) /\ Sure(copies, S, ds, S) /\ Held(ds, F)
  <2> HIDE DEF x, C, F, S
  <2> QED
    BY <1>3, <1>4, <1>5, LeaveStep
<1> HIDE DEF ds
<1>7. Core(M, tab', copies', sl, typed, kept, given, large)
  <2> DEFINE y == Closed
             tb2 == tab'
  <2>0. Hand(ds, t, {})
    BY DEF Hand
  <2>1. /\ y \in TabRec(given) /\ Good(t, y.live, y.doc, ds, given) /\ y.doc \in C /\ Hand(ds, t, ToSet(y.restore))
        /\ Hand(ds, t, y.offered) /\ ToSet(y.restore) \cap y.offered = {} /\ Flags(y) /\ Truth(y, sl, given)
    BY <1>6, <2>0, ClosedTab, CleanIsAll
  <2>2. tb2 = [tab EXCEPT ![t] = y]
    BY <1>1
  <2> HIDE DEF y, tb2
  <2>4. Core(M, tb2, ds, sl, typed, kept, given, large)
    BY <1>2, <1>6, <2>1, <2>2, CoreMade
  <2> QED
    BY <1>1, <2>4 DEF tb2
<1>8. Once(tab', sl, stale, large)
  BY <1>1, <1>2, <1>3, ClosedTab, OnceStep
<1> QED
  BY <1>7, <1>8 DEF CloseNote, sl

\* A person gives text up.
LEMMA GivenGrows ==
  ASSUME NEW M, NEW tb, NEW cs, NEW rl, NEW ty, NEW kp, NEW gv, NEW lg, Core(M, tb, cs, rl, ty, kp, gv, lg),
         NEW S \in SUBSET Texts, NEW given2, given2 = gv \cup S
  PROVE  Grows(M, rl, ty, gv, M, rl, ty, given2)
<1>1. Grows(M, rl, ty, gv, M, rl, ty, gv)
  BY GrowsNot
<1>2. gv \subseteq given2 /\ gv \subseteq Texts
  BY DEF Core
<1>3. rl \in Docs(given2)
  BY <1>1, <1>2, DocsGrow DEF Grows
<1> QED
  BY <1>1, <1>2, <1>3 DEF Grows

LEMMA DiscardCore ==
  ASSUME NEW M, Core(M, tab, copies, relay, typed, kept, given, large), Once(tab, relay, stale, large), NEW t \in Tabs, Discard(t)
  PROVE  Core(M, tab', copies', relay', typed', kept', given', large') /\ Once(tab', relay', stale', large')
<1> DEFINE x == tab[t]
           n == Of(x, copies)
           gave == UNION {Text(copies[c].mem) : c \in x.offered}
           given2 == given \cup gave
           C == Clean(M, typed, relay)
           F == All(M, typed, relay)
           S == Safe(relay, given2)
           y == [x EXCEPT !.offered = {}]
           ds == [c \in Copies |-> IF c \in x.offered THEN [copies[c] EXCEPT !.end = "release"] ELSE copies[c]]
<1>1. /\ x.offered # {} /\ given' = given2 /\ tab' = [tab EXCEPT ![t] = y] /\ copies' = ds
  <2>1. Now(t) = n
    BY DEF Now, Of
  <2> DEFINE z == [n EXCEPT !.tab.offered = {}, !.copies = ds]
  <2>2. z.tab = y /\ z.copies = ds
    <3> HIDE DEF ds, x
    <3> QED
      BY DEF Of
  <2>3. tab' = [tab EXCEPT ![t] = z.tab] /\ copies' = z.copies /\ x.offered # {} /\ given' = given2
    BY <2>1 DEF Discard, Become, Of
  <2> QED
    BY <2>2, <2>3
<1>2. gave \in SUBSET Texts
  <2>1. copies \in [Copies -> CopyRec(given)] /\ x.offered \subseteq Copies
    <3>1. x \in TabRec(given) /\ copies \in [Copies -> CopyRec(given)]
      BY CoreTab
    <3> HIDE DEF x
    <3> QED
      BY <3>1 DEF TabRec
  <2>2. ASSUME NEW c \in Copies PROVE Text(copies[c].mem) \subseteq Texts
    BY <2>1, CopyFields, TextIsText
  <2> QED
    BY <2>1, <2>2
<1>3. \A c \in x.offered : Text(copies[c].mem) \subseteq S
  BY DEF Safe
<1> HIDE DEF gave
<1>4. Grows(M, relay, typed, given, M, relay, typed, given2)
  BY <1>2, GivenGrows
<1> HIDE DEF given2
<1>5. Fit(t, n, relay, given2, C, F) /\ tab \in [Tabs -> TabRec(given)] /\ given2 \subseteq S
  <2>1. Fit(t, n, relay, given2, C, F)
    BY <1>4, CoreStart
  <2> QED
    BY <2>1 DEF Core, Safe
<1>6. /\ x \in TabRec(given2) /\ Good(t, x.live, x.doc, copies, given2) /\ x.doc \in C /\ Held(copies, F) /\ Hand(copies, t, ToSet(x.restore))
      /\ Hand(copies, t, x.offered) /\ ToSet(x.restore) \cap x.offered = {} /\ Flags(x) /\ Truth(x, relay, given2)
      /\ x.offered \subseteq Copies /\ ToSet(x.restore) \subseteq Copies
  <2> HIDE DEF x, C, F
  <2> QED
    BY <1>5, FitMade
<1>7. /\ Good(t, x.live, x.doc, ds, given2) /\ Touches(t, copies, ds) /\ Sure(copies, S, ds, S)
      /\ \A k \in Copies : SameBody(copies[k], ds[k]) /\ (k \notin x.offered => ds[k] = copies[k])
  <2> DEFINE how == "release"
             P == x.offered
             l == x.live
             d == x.doc
  <2>1. how \in {"close", "release"} /\ Good(t, l, d, copies, given2) /\ P \in SUBSET Copies /\ Hand(copies, t, P)
        /\ MayEnd(copies, P, how, S) /\ ds = Ended(copies, P, how)
    BY <1>3, <1>6 DEF MayEnd, Ended
  <2> HIDE DEF how, l, d, ds, P, S
  <2>2. Ends(t, l, d, copies, P, Ended(copies, P, how), S, given2)
    BY <1>5, <2>1, EndsStep
  <2> QED
    BY <2>1, <2>2 DEF l, d, P, Ends
<1> HIDE DEF ds
<1>8. Held(ds, F)
  BY <1>6, <1>7 DEF Held, SameBody
<1>9. Hand(ds, t, ToSet(x.restore)) /\ Hand(ds, t, {})
  BY <1>6, <1>7 DEF Hand
<1>10. /\ y \in TabRec(given2) /\ y.live = x.live /\ y.doc = x.doc /\ y.offered = {} /\ y.restore = x.restore
       /\ y.at = x.at /\ y.net = x.net /\ y.shown = x.shown /\ y.unsynced = x.unsynced /\ y.synced = x.synced
       /\ y.acked = x.acked
  <2> HIDE DEF x
  <2> QED
    BY <1>6 DEF TabRec
<1>11. x.at # "closed"
  BY <1>1, <1>6 DEF Flags, Closed
<1> HIDE DEF y
<1>12. Flags(y) /\ Truth(y, relay, given2)
  <2> HIDE DEF x
  <2> QED
    BY <1>6, <1>10, <1>11 DEF Flags, Truth
<1>13. Core(M, tab', copies', relay, typed, kept, given2, large)
  <2> DEFINE tb2 == tab'
  <2>2. tb2 = [tab EXCEPT ![t] = y] /\ Good(t, y.live, y.doc, ds, given2) /\ y.doc \in C /\ Hand(ds, t, ToSet(y.restore))
        /\ Hand(ds, t, y.offered) /\ ToSet(y.restore) \cap y.offered = {}
    BY <1>1, <1>6, <1>7, <1>9, <1>10
  <2> HIDE DEF tb2, x
  <2>4. Core(M, tb2, ds, relay, typed, kept, given2, large)
    BY <1>4, <1>7, <1>8, <1>10, <1>12, <2>2, CoreMade
  <2> QED
    BY <1>1, <2>4 DEF tb2
<1>14. Once(tab', relay, stale, large)
  <2>1. One(x, relay, stale, large)
    BY DEF Once
  <2>2. One(y, relay, stale, large)
    <3> HIDE DEF x
    <3> QED
      BY <1>10, <2>1 DEF One, Both, Big
  <2> QED
    BY <1>1, <1>5, <2>2, OnceStep
<1> QED
  BY <1>1, <1>13, <1>14 DEF Discard

LEMMA AwaitIs ==
  ASSUME NEW x, NEW cs, NEW c \in Copies, NEW o \in Copies, NEW gv, cs \in [Copies -> CopyRec(gv)]
  PROVE  Await(Of(x, cs), c, o) = Of(x, AwaitAs(cs, c, o))
<1> DEFINE w == Of(x, cs)
           y == "release"
           how == AfterFlush(cs[o].stored)
<1>1. w.tab = x /\ w.copies = cs /\ w = [tab |-> x, copies |-> cs]
  BY DEF Of
<1>2. CASE cs[o].unsaved
  <2>1. Await(w, c, o) = [w EXCEPT !.copies[c].awaits = o]
    BY <1>1, <1>2 DEF Await
  <2> HIDE DEF w
  <2> QED
    BY <1>1, <1>2, <2>1 DEF AwaitAs, Of, w
<1>3. CASE ~cs[o].unsaved
  <2>1. Await(w, c, o) = [w EXCEPT !.copies[c].end = how]
    BY <1>1, <1>3 DEF Await
  <2>2. AwaitAs(cs, c, o) = [cs EXCEPT ![c] = [@ EXCEPT !.end = how]]
    BY <1>3 DEF AwaitAs
  <2> HIDE DEF w, how
  <2> QED
    BY <1>1, <2>1, <2>2 DEF Of, w
<1> QED
  BY <1>2, <1>3

\* The text of the old document, offered as a copy of its own, and the old copy waiting for that.
Handed(cs, t, l, d, c) ==
  LET ds == [cs EXCEPT ![c] = Offer(t, Plain(Text(d), "offered"))]
  IN IF l = 0 THEN ds ELSE AwaitAs(Stopped(ds, l, d, "none"), l, c)
Offers(t, cs, ds, c, R, gv, F) ==
  /\ Good(t, 0, Empty, ds, gv) /\ Touches(t, cs, ds) /\ Sure(cs, R, ds, R) /\ Held(ds, F) /\ Hand(ds, t, {c})
  /\ \A k \in Copies : cs[k].by = {t} /\ ~cs[k].live => ds[k] = cs[k]
LEMMA OldOffered ==
  ASSUME NEW gv, NEW t \in Tabs, NEW l, NEW d, NEW cs, Good(t, l, d, cs, gv), NEW c \in Copies, cs[c] = NoCopy,
         NEW R, gv \subseteq R, NEW F, Held(cs, F), d \in F, Plain(Text(d), "offered") \in F, Empty \in F
  PROVE  Offers(t, cs, Handed(cs, t, l, d, c), c, R, gv, F)
<1> DEFINE o == Plain(Text(d), "offered")
           es == [cs EXCEPT ![c] = Offer(t, o)]
           ds == Handed(cs, t, l, d, c)
<1>1. /\ cs \in [Copies -> CopyRec(gv)] /\ l \in Copies \cup {0} /\ d \in Docs(gv) /\ o \in F
  BY GoodTypes
<1>2. o \in Docs(gv) /\ Text(o) = Text(d)
  <2> DEFINE S == Text(d)
             how == "offered"
  <2>1. S \in SUBSET Texts /\ how \in {"typed", "rebased", "offered"}
    BY <1>1, TextIsText
  <2> HIDE DEF S, how
  <2>2. Plain(S, how) \in Docs(gv) /\ Text(Plain(S, how)) = S
    BY <2>1, PlainDoc
  <2> QED
    BY <2>2 DEF S, how
<1>3. ds = IF l = 0 THEN es ELSE AwaitAs(Stopped(es, l, d, "none"), l, c)
  BY DEF Handed
<1> HIDE DEF o, ds
<1>4. Good(t, l, d, es, gv) /\ Touches(t, cs, es) /\ Sure(cs, R, es, R) /\ Alive(es, c)
  BY <1>2, OfferStep
<1>5. es[c] = Offer(t, o) /\ \A k \in Copies : k # c => es[k] = cs[k]
  BY <1>1
<1>6. /\ es[c].by = {t} /\ ~es[c].live /\ es[c].mem = o /\ es[c].disk = {} /\ es[c].end = "none" /\ es[c].awaits = 0
  BY <1>2, <1>5, NewFields
<1>7. cs[c].by = {}
  BY NoCopyFields
<1> HIDE DEF es
<1>8. Held(es, F)
  BY <1>1, <1>5, <1>6 DEF Held
<1>9. CASE l = 0
  <2>1. Good(t, 0, Empty, es, gv)
    BY <1>4, <1>9, EmptyDoc, GoodNoLive, NoCopyZero
  <2>2. Hand(es, t, {c})
    BY <1>6 DEF Hand
  <2>3. \A k \in Copies : cs[k].by = {t} /\ ~cs[k].live => es[k] = cs[k]
    BY <1>5, <1>7
  <2>4. Offers(t, cs, es, c, R, gv, F)
    BY <1>4, <1>8, <2>1, <2>2, <2>3 DEF Offers
  <2>5. ds = es
    BY <1>3, <1>9
  <2> QED
    BY <2>4, <2>5 DEF ds
<1>10. CASE l \in Copies
  <2> DEFINE how == "none"
             fs == Stopped(es, l, d, how)
             ls == AwaitAs(fs, l, c)
  <2>1. how \in {"none", "close", "release"} /\ how # "release" /\ Empty \in Docs(gv)
    BY EmptyDoc
  <2>2. Halted(t, l, d, es, Empty, how, fs, gv, R)
    <3> HIDE DEF how
    <3> QED
      BY <1>4, <1>10, <2>1, DetachStep
  <2> HIDE DEF fs
  <2>3. es[l].live /\ l # c
    <3>1. es[l].live
      BY <1>4, <1>10, GoodLive
    <3> QED
      BY <1>6, <3>1
  <2>4. /\ Good(t, 0, Empty, fs, gv) /\ fs[c] = es[c] /\ Hand(fs, t, {l}) /\ fs[l].mem = d /\ fs[l].disk = es[l].disk
        /\ Touches(t, es, fs) /\ Sure(es, R, fs, R) /\ \A k \in Copies : k # l => fs[k] = es[k]
    BY <2>2, <2>3 DEF Halted, Hand
  <2>5. Alive(fs, c) /\ fs[c].by = {t} /\ Text(fs[l].mem) \subseteq Text(Body(Empty, fs[c])) \cup gv
    BY <1>2, <1>4, <1>6, <2>4 DEF Alive, Body
  <2>6. Followed(t, 0, Empty, fs, l, ls, R, gv)
    <3> DEFINE z == 0
               x == Empty
    <3>1. Good(t, z, x, fs, gv) /\ Text(fs[l].mem) \subseteq Text(Body(x, fs[c])) \cup gv /\ l # c /\ ls = AwaitAs(fs, l, c)
      BY <2>3, <2>4, <2>5
    <3> HIDE DEF z, x, ls
    <3>2. Followed(t, z, x, fs, l, ls, R, gv)
      BY <1>10, <2>4, <2>5, <3>1, AwaitStep
    <3> QED
      BY <3>2 DEF z, x
  <2>7. ds = ls
    BY <1>3, <1>10, NoCopyZero DEF fs
  <2> HIDE DEF ls
  <2>8. Held(ls, F)
    <3>1. Held(fs, F)
      BY <1>8, <1>10, <2>4 DEF Held
    <3> QED
      BY <1>10, <2>6, <3>1 DEF Held, Followed, SameBody
  <2>9. Hand(ls, t, {c})
    BY <1>6, <2>3, <2>4, <2>6 DEF Hand, Followed
  <2>10. Good(t, 0, Empty, ls, gv) /\ Touches(t, cs, ls) /\ Sure(cs, R, ls, R)
    <3>1. Good(t, 0, Empty, ls, gv) /\ Touches(t, fs, ls) /\ Sure(fs, R, ls, R)
      BY <2>6 DEF Followed
    <3>2. Touches(t, cs, fs) /\ Sure(cs, R, fs, R)
      BY <1>4, <2>4, TouchesTwice, SureTwice
    <3> QED
      BY <3>1, <3>2, TouchesTwice, SureTwice
  <2>11. ASSUME NEW k \in Copies, cs[k].by = {t}, ~cs[k].live PROVE ls[k] = cs[k]
    <3>1. k # c /\ es[k] = cs[k]
      BY <1>5, <1>7, <2>11
    <3>2. k # l
      BY <2>3, <2>11, <3>1
    <3> QED
      BY <2>4, <2>6, <3>1, <3>2 DEF Followed
  <2>12. Offers(t, cs, ls, c, R, gv, F)
    BY <2>8, <2>9, <2>10, <2>11 DEF Offers
  <2> QED
    BY <2>7, <2>12 DEF ds
<1> QED
  BY <1>1, <1>9, <1>10

\* What of the document's text was typed, is of what this browser may hold.
LEMMA OfferedText ==
  ASSUME NEW M, NEW ty, NEW rl, NEW gv, Marks(M, ty), NEW d \in Docs(gv), Ours(d, ty, rl)
  PROVE  Plain(Text(d), "offered") \in All(M, ty, rl)
<1> DEFINE o == Plain(Text(d), "offered")
<1>1. Text(d) \subseteq Texts /\ \A e \in Text(d) : e \in ty \cup {BaseText}
  BY TextIsText DEF Text, Ours
<1>2. o.has = Text(d) \X {"offered"} /\ o.cut = {}
  BY DEF Plain
<1>3. o \in Documents
  <2> DEFINE S == Text(d)
             how == "offered"
  <2>1. S \in SUBSET Texts /\ how \in {"typed", "rebased", "offered"}
    BY <1>1
  <2> HIDE DEF S, how
  <2>2. Plain(S, how) \in Docs(gv)
    BY <2>1, PlainDoc
  <2>3. Plain(S, how) \in Documents
    BY <2>2, DocFields
  <2> QED
    BY <2>3 DEF S, how
<1> HIDE DEF o
<1>4. Ours(o, ty, rl)
  BY <1>1, <1>2 DEF Ours
<1>5. o.has \subseteq M
  BY <1>1, <1>2 DEF Marks
<1> QED
  BY <1>3, <1>4, <1>5 DEF All, o

LEMMA StartOverCore ==
  ASSUME NEW M, Core(M, tab, copies, relay, typed, kept, given, large), Once(tab, relay, stale, large), NEW t \in Tabs, StartOver(t)
  PROVE  Core(M, tab', copies', relay', typed', kept', given', large') /\ Once(tab', relay', stale', large')
<1> DEFINE x == tab[t]
           n == Of(x, copies)
           l == x.live
           d == x.doc
           c == FirstFree(copies)
           P == ToSet(x.restore)
           C == Clean(M, typed, relay)
           F == All(M, typed, relay)
           S == Safe(relay, given)
           y == [Closed EXCEPT !.at = "open", !.offered = x.offered \cup {c}]
           es == Handed(copies, t, l, d, c)
           ds == Ended(es, P, "close")
<1>1. /\ Fit(t, n, relay, given, C, F) /\ given \subseteq S /\ copies \in [Copies -> CopyRec(given)] /\ Marks(M, typed)
      /\ Grows(M, relay, typed, given, M, relay, typed, given) /\ tab \in [Tabs -> TabRec(given)]
  BY CoreTab, GrowsNot DEF Core
<1>2. /\ x \in TabRec(given) /\ Good(t, l, d, copies, given) /\ d \in C /\ Held(copies, F) /\ Hand(copies, t, P)
      /\ Hand(copies, t, x.offered) /\ Flags(x) /\ P \subseteq Copies /\ x.offered \subseteq Copies /\ l \in Copies \cup {0} /\ d \in Docs(given)
  <2> HIDE DEF x, C, F
  <2> QED
    BY <1>1, FitMade
<1>3. c \in Copies /\ copies[c] = NoCopy
  BY FreeName DEF StartOver, Room
<1> HIDE DEF c
<1>4. tab' = [tab EXCEPT ![t] = y] /\ copies' = ds
  <2> DEFINE o == Plain(Text(d), "offered")
             os == [copies EXCEPT ![c] = Offer(t, o)]
             offer == [Now(t) EXCEPT !.copies[c] = [NoCopy EXCEPT !.by = {t}, !.unsaved = TRUE, !.mem = o]]
             handed == IF l = 0 THEN offer ELSE Await(Detach(offer, l, "none"), l, c)
             z == [PutBack(handed, P) EXCEPT !.tab = y]
  <2>1. tab' = [tab EXCEPT ![t] = z.tab] /\ copies' = z.copies
    BY DEF StartOver, Become, c
  <2>2. Now(t) = n /\ n.copies = copies /\ n.tab = x
    BY DEF Now, Of
  <2>3. offer = Of(x, os)
    <3>1. [NoCopy EXCEPT !.by = {t}, !.unsaved = TRUE, !.mem = o] = Offer(t, o)
      BY DEF Offer
    <3>2. offer = [n EXCEPT !.copies = [copies EXCEPT ![c] = Offer(t, o)]]
      BY <2>2, <3>1 DEF Of
    <3> HIDE DEF offer, x
    <3> QED
      BY <3>2 DEF Of
  <2>4. os \in [Copies -> CopyRec(given)]
    <3>1. o \in Docs(given)
      <4> DEFINE T == Text(d)
                 how == "offered"
      <4>1. T \in SUBSET Texts /\ how \in {"typed", "rebased", "offered"}
        <5> HIDE DEF d
        <5> QED
          BY <1>2, TextIsText
      <4> HIDE DEF T, how
      <4>2. Plain(T, how) \in Docs(given)
        BY <4>1, PlainDoc
      <4> QED
        BY <4>2 DEF T, how
    <3> HIDE DEF o
    <3>2. Offer(t, o) \in CopyRec(given)
      BY <3>1, NewFields
    <3> QED
      BY <1>1, <3>2
  <2> HIDE DEF offer, o
  <2>5. handed = Of(x, es)
    <3>1. es = IF l = 0 THEN os ELSE AwaitAs(Stopped(os, l, d, "none"), l, c)
      BY DEF Handed, o
    <3>2. CASE l = 0
      BY <2>3, <3>1, <3>2
    <3>3. CASE l # 0
      <4> DEFINE how == "none"
                 fs == Stopped(os, l, d, how)
      <4>1. l \in Copies /\ how \in {"none", "close", "release"}
        BY <1>2, <3>3
      <4> HIDE DEF how
      <4>2. Detach(Of(x, os), l, how) = Of(x, fs)
        <5> HIDE DEF os, x
        <5> QED
          BY <1>2, <2>4, <4>1, DetachIs
      <4>3. fs \in [Copies -> CopyRec(given)]
        <5>1. os[l] \in CopyRec(given)
          BY <2>4, <4>1
        <5> DEFINE k == os[l]
        <5>2. [k EXCEPT !.mem = d, !.live = FALSE, !.end = how] \in CopyRec(given)
          <6> HIDE DEF k, d
          <6> QED
            BY <1>2, <4>1, <5>1 DEF CopyRec, k
        <5> HIDE DEF os, l, d
        <5> QED
          BY <2>4, <4>1, <5>2 DEF Stopped
      <4> HIDE DEF fs
      <4>4. Await(Of(x, fs), l, c) = Of(x, AwaitAs(fs, l, c))
        <5> HIDE DEF x, l
        <5> QED
          BY <1>3, <4>1, <4>3, AwaitIs
      <4>5. handed = Await(Detach(Of(x, os), l, how), l, c) /\ es = AwaitAs(fs, l, c)
        BY <2>3, <3>1, <3>3 DEF how, fs
      <4> HIDE DEF handed, es, os, x
      <4> QED
        BY <4>2, <4>4, <4>5
    <3> QED
      BY <3>2, <3>3
  <2> HIDE DEF handed, es
  <2>6. PutBack(handed, P) = Of(x, ds)
    <3> HIDE DEF x, P
    <3> QED
      BY <2>5, PutBackIs DEF Ended
  <2>7. z.tab = y /\ z.copies = ds
    <3> HIDE DEF ds, x, y, P
    <3> QED
      BY <2>6 DEF Of
  <2> QED
    BY <2>1, <2>7
<1>5. Offers(t, copies, es, c, S, given, F)
  <2>1. Plain(Text(d), "offered") \in F
    <3>1. Ours(d, typed, relay)
      BY <1>2 DEF Clean
    <3> HIDE DEF d
    <3> QED
      BY <1>1, <1>2, <3>1, OfferedText
  <2>2. d \in F /\ Empty \in F
    BY <1>2, CleanIsAll
  <2> HIDE DEF F, S, l, d
  <2> QED
    BY <1>1, <1>2, <1>3, <2>1, <2>2, OldOffered
<1> HIDE DEF es
<1>6. Hand(es, t, P) /\ Hand(es, t, x.offered \cup {c}) /\ c \notin P
  <2>1. \A k \in Copies : copies[k].by = {t} /\ ~copies[k].live => es[k] = copies[k]
    BY <1>5 DEF Offers
  <2>2. copies[c].by = {}
    BY <1>3, NoCopyFields
  <2>3. Hand(es, t, {c})
    BY <1>5 DEF Offers
  <2> QED
    BY <1>2, <2>1, <2>2, <2>3 DEF Hand
<1>7. Ends(t, 0, Empty, es, P, ds, S, given)
  <2> DEFINE how == "close"
             a == 0
             b == Empty
  <2>1. how \in {"close", "release"} /\ Good(t, a, b, es, given) /\ P \in SUBSET Copies /\ MayEnd(es, P, how, S) /\ ds = Ended(es, P, how)
    BY <1>2, <1>5 DEF MayEnd, Offers
  <2> HIDE DEF how, a, b, P, S, ds
  <2>2. Ends(t, a, b, es, P, Ended(es, P, how), S, given)
    BY <1>1, <1>6, <2>1, EndsStep
  <2> QED
    BY <2>1, <2>2 DEF a, b
<1> HIDE DEF ds
<1>8. /\ Good(t, 0, Empty, ds, given) /\ Touches(t, copies, ds) /\ Sure(copies, S, ds, S) /\ Held(ds, F)
      /\ Hand(ds, t, x.offered \cup {c}) /\ Hand(ds, t, {})
  <2>1. Touches(t, es, ds) /\ Sure(es, S, ds, S) /\ Good(t, 0, Empty, ds, given)
        /\ \A k \in Copies : SameBody(es[k], ds[k]) /\ (k \notin P => ds[k] = es[k])
    BY <1>7 DEF Ends
  <2>2. Touches(t, copies, es) /\ Sure(copies, S, es, S) /\ Held(es, F)
    BY <1>5 DEF Offers
  <2>3. Touches(t, copies, ds) /\ Sure(copies, S, ds, S)
    BY <2>1, <2>2, TouchesTwice, SureTwice
  <2>4. Held(ds, F)
    BY <2>1, <2>2 DEF Held, SameBody
  <2>5. \A k \in x.offered \cup {c} : k \notin P /\ k \in Copies
    <3>1. P \cap x.offered = {}
      <4> HIDE DEF x, C, F
      <4>1. ToSet(x.restore) \cap x.offered = {}
        BY <1>1, FitMade
      <4> QED
        BY <4>1
    <3> QED
      BY <1>2, <1>3, <1>6, <3>1
  <2>6. Hand(ds, t, x.offered \cup {c}) /\ Hand(ds, t, {})
    BY <1>6, <2>1, <2>5 DEF Hand
  <2> QED
    BY <2>1, <2>3, <2>4, <2>6
<1>9. /\ y \in TabRec(given) /\ y.live = 0 /\ y.doc = Empty /\ y.offered = x.offered \cup {c} /\ y.restore = <<>>
      /\ y.at = "open" /\ y.net = "down" /\ y.shown = 0 /\ ~y.synced /\ ToSet(y.restore) = {}
  <2> DEFINE q == x.offered \cup {c}
             a == "open"
             u == Closed
  <2>1. q \in SUBSET Copies /\ a \in {"closed", "open", "refused", "stopped"} /\ u \in TabRec(given)
    BY <1>2, <1>3, ClosedTab
  <2>2. u.live = 0 /\ u.doc = Empty /\ u.restore = <<>> /\ u.net = "down" /\ u.shown = 0 /\ ~u.synced /\ ToSet(u.restore) = {}
    BY ClosedTab DEF Closed
  <2> HIDE DEF q, a, u
  <2>3. y = [u EXCEPT !.at = a, !.offered = q]
    BY DEF q, a, u
  <2> HIDE DEF y
  <2>4. y \in TabRec(given) /\ y.live = u.live /\ y.doc = u.doc /\ y.offered = q /\ y.restore = u.restore
        /\ y.at = a /\ y.net = u.net /\ y.shown = u.shown /\ y.synced = u.synced
    BY <2>1, <2>3 DEF TabRec
  <2> QED
    BY <2>2, <2>4 DEF q, a
<1> HIDE DEF y
<1>10. Flags(y) /\ Truth(y, relay, given)
  <2>1. Flags(Closed) /\ Closed.restore = <<>>
    BY ClosedTab
  <2>2. Distinct(<<>>)
    BY <2>1 DEF Flags
  <2>3. Text(y.doc) = {}
    BY <1>9, EmptyDoc
  <2> QED
    BY <1>9, <2>2, <2>3 DEF Flags, Truth
<1>11. Core(M, tab', copies', relay, typed, kept, given, large)
  <2> DEFINE tb2 == tab'
  <2>2. tb2 = [tab EXCEPT ![t] = y] /\ Good(t, y.live, y.doc, ds, given) /\ y.doc \in C /\ Hand(ds, t, ToSet(y.restore))
        /\ Hand(ds, t, y.offered) /\ ToSet(y.restore) \cap y.offered = {}
    BY <1>4, <1>8, <1>9, CleanIsAll
  <2> HIDE DEF tb2, x
  <2>4. Core(M, tb2, ds, relay, typed, kept, given, large)
    BY <1>1, <1>8, <1>9, <1>10, <2>2, CoreMade
  <2> QED
    BY <1>4, <2>4 DEF tb2
<1>12. Once(tab', relay, stale, large)
  <2>1. One(y, relay, stale, large)
    BY <1>9, EmptyDoc DEF One, Both, Big
  <2> QED
    BY <1>1, <1>4, <2>1, OnceStep
<1> QED
  BY <1>11, <1>12 DEF StartOver

\* The copy of the rebuilt document, and the old copy waiting for it.
Rebuilding(cs, t, l, d, c) == AwaitAs([Stopped(cs, l, d, "none") EXCEPT ![c] = Fresh(t)], l, c)
Rebuilds(t, cs, ds, d, c, R, gv, F) ==
  /\ Good(t, c, d, ds, gv) /\ Touches(t, cs, ds) /\ Sure(cs, R, ds, R) /\ Held(ds, F)
  /\ \A k \in Copies : cs[k].by = {t} /\ ~cs[k].live => ds[k] = cs[k]
LEMMA RebuiltStep ==
  ASSUME NEW gv, NEW t \in Tabs, NEW l \in Copies, NEW d, NEW cs, Good(t, l, d, cs, gv), NEW c \in Copies, cs[c] = NoCopy,
         NEW R, gv \subseteq R, NEW F, Held(cs, F), d \in F, Empty \in F
  PROVE  Rebuilds(t, cs, Rebuilding(cs, t, l, d, c), d, c, R, gv, F)
<1> DEFINE how == "none"
           es == Stopped(cs, l, d, how)
           fs == [es EXCEPT ![c] = Fresh(t)]
           ds == AwaitAs(fs, l, c)
<1>1. how \in {"none", "close", "release"} /\ how # "release" /\ d \in Docs(gv)
  BY GoodTypes
<1>2. Halted(t, l, d, cs, d, how, es, gv, R)
  <2> HIDE DEF how
  <2> QED
    BY <1>1, DetachStep
<1>3. cs[l].live /\ cs[l].by = {t} /\ cs[c].by = {} /\ l # c
  <2>1. cs[l].live /\ cs[l].by = {t}
    BY LiveAlive
  <2>2. cs[c].by = {}
    BY NoCopyFields
  <2> QED
    BY <2>1, <2>2
<1> HIDE DEF es
<1>4. Good(t, 0, d, es, gv) /\ es[c] = NoCopy /\ Touches(t, cs, es) /\ Sure(cs, R, es, R)
      /\ es \in [Copies -> CopyRec(gv)]
  <2>1. Good(t, 0, d, es, gv) /\ es[c] = NoCopy /\ Touches(t, cs, es) /\ Sure(cs, R, es, R)
    BY <1>2, <1>3 DEF Halted
  <2> QED
    BY <2>1, GoodTypes
<1>5. Good(t, c, d, fs, gv) /\ Touches(t, es, fs) /\ Sure(es, R, fs, R) /\ Alive(fs, c)
  <2> DEFINE z == 0
  <2>1. Good(t, z, d, es, gv) /\ z \notin Copies
    BY <1>4, NoCopyZero
  <2> HIDE DEF z
  <2> QED
    BY <1>4, <2>1, KeepStep
<1>6. fs[c] = Fresh(t) /\ \A k \in Copies : k # c => fs[k] = es[k]
  BY <1>4
<1>7. fs[c].by = {t} /\ fs[c].live /\ fs[c].mem = Empty /\ fs[c].disk = {}
  <2>1. Empty \in Docs(gv)
    BY EmptyDoc
  <2> QED
    BY <1>6, <2>1, NewFields
<1> HIDE DEF fs
<1>8. Hand(fs, t, {l}) /\ fs[l].mem = d /\ fs[l].disk = cs[l].disk
  BY <1>2, <1>3, <1>6 DEF Halted, Hand, how
<1>9. Followed(t, c, d, fs, l, ds, R, gv)
  <2>1. Text(fs[l].mem) \subseteq Text(Body(d, fs[c])) \cup gv
    BY <1>7, <1>8 DEF Body
  <2>2. ds = AwaitAs(fs, l, c)
    OBVIOUS
  <2> HIDE DEF ds
  <2> QED
    BY <1>3, <1>5, <1>7, <1>8, <2>1, <2>2, AwaitStep
<1>10. ds = Rebuilding(cs, t, l, d, c)
  BY DEF Rebuilding, es, fs
<1> HIDE DEF ds
<1>11. Held(ds, F)
  <2>1. Held(fs, F)
    BY <1>2, <1>6, <1>7, <1>8 DEF Held, Halted
  <2> QED
    BY <1>9, <2>1 DEF Held, Followed, SameBody
<1>12. Good(t, c, d, ds, gv) /\ Touches(t, cs, ds) /\ Sure(cs, R, ds, R)
  <2>1. Good(t, c, d, ds, gv) /\ Touches(t, fs, ds) /\ Sure(fs, R, ds, R)
    BY <1>9 DEF Followed
  <2>2. Touches(t, cs, fs) /\ Sure(cs, R, fs, R)
    BY <1>4, <1>5, TouchesTwice, SureTwice
  <2> QED
    BY <2>1, <2>2, TouchesTwice, SureTwice
<1>13. ASSUME NEW k \in Copies, cs[k].by = {t}, ~cs[k].live PROVE ds[k] = cs[k]
  <2>1. k # l /\ k # c
    BY <1>3, <1>13
  <2> QED
    BY <1>2, <1>6, <1>9, <2>1 DEF Halted, Followed
<1>14. Rebuilds(t, cs, ds, d, c, R, gv, F)
  BY <1>11, <1>12, <1>13 DEF Rebuilds
<1> QED
  BY <1>10, <1>14

\* An edit of a document that a copy follows leaves the other copies as they are.
LEMMA EditedCopies ==
  ASSUME NEW gv, NEW x \in TabRec(gv), NEW cs \in [Copies -> CopyRec(gv)], x.live \in Copies, NEW d, NEW t
  PROVE  LET w == SetDoc(Keep(Unsent(Of(x, cs)), t), d)
         IN w.tab.live = x.live /\ \A k \in Copies : k # x.live => w.copies[k] = cs[k]
<1> DEFINE x1 == [x EXCEPT !.unsynced = TRUE]
           x2 == [x1 EXCEPT !.due = FALSE]
           x3 == [x2 EXCEPT !.doc = d]
           w == SetDoc(Keep(Unsent(Of(x, cs)), t), d)
           l == x.live
           es == [cs EXCEPT ![l].unsaved = TRUE]
<1>1. Unsent(Of(x, cs)) = Of(x1, cs)
  <2> DEFINE u == TRUE
             m == Of(x, cs)
  <2>1. Unsent(m) = [m EXCEPT !.tab.unsynced = u] /\ x1 = [x EXCEPT !.unsynced = u]
    BY DEF Unsent
  <2>2. m = [tab |-> x, copies |-> cs]
    BY DEF Of
  <2> HIDE DEF u, m, x1
  <2>3. [m EXCEPT !.tab.unsynced = u] = [tab |-> x1, copies |-> cs]
    BY <2>1, <2>2
  <2> QED
    BY <2>1, <2>3 DEF m, Of
<1>2. x1 \in TabRec(gv) /\ x1.live = l /\ x2 \in TabRec(gv) /\ x2.live = l /\ x3.live = l
  BY DEF TabRec
<1> HIDE DEF x1
<1>3. Keep(Of(x1, cs), t) = Of(x2, cs)
  <2>1. Of(x1, cs).tab = x1
    BY DEF Of
  <2>2. Keep(Of(x1, cs), t) = [Of(x1, cs) EXCEPT !.tab.due = FALSE]
    BY <1>2, <2>1, NoCopyZero DEF Keep
  <2> QED
    BY <2>2 DEF Of
<1> HIDE DEF x2, es
<1>4. w = Of(x3, es) \/ w = Of(x3, cs)
  <2> DEFINE m == Of(x2, cs)
             changed == [m EXCEPT !.tab.doc = d]
  <2>1. changed = Of(x3, cs) /\ m.tab = x2
    BY DEF Of
  <2>2. w = SetDoc(m, d)
    BY <1>1, <1>3
  <2> HIDE DEF x3
  <2>3. [changed EXCEPT !.copies[l].unsaved = TRUE] = Of(x3, es)
    <3> DEFINE u == TRUE
               r == changed
    <3>1. r = [tab |-> x3, copies |-> cs] /\ es = [cs EXCEPT ![l].unsaved = u]
      BY <2>1 DEF Of, es
    <3>2. [changed EXCEPT !.copies[l].unsaved = TRUE] = [r EXCEPT !.copies[l].unsaved = u]
      OBVIOUS
    <3> HIDE DEF u, r
    <3>3. [r EXCEPT !.copies[l].unsaved = u] = [tab |-> x3, copies |-> es]
      BY <3>1
    <3> QED
      BY <3>2, <3>3 DEF Of
  <2> HIDE DEF changed, w, m
  <2>4. SetDoc(m, d) = changed \/ SetDoc(m, d) = [changed EXCEPT !.copies[l].unsaved = TRUE]
    BY <1>2, <2>1 DEF SetDoc, changed
  <2> QED
    BY <2>1, <2>2, <2>3, <2>4
<1>5. \A k \in Copies : k # l => es[k] = cs[k]
  BY DEF es
<1> HIDE DEF w, x3
<1> QED
  BY <1>2, <1>4, <1>5 DEF Of, w

\* What cutting text of a document makes of it and of the tab.
Trimmed(d, e) == [d EXCEPT !.cut = @ \cup ({e} \X {"typed"})]
LEMMA TrimmedDoc ==
  ASSUME NEW M, NEW ty, NEW rl, NEW gv, NEW e \in Large, NEW given2, given2 = gv \cup {e}, NEW d \in Docs(gv),
         d \in Clean(M, ty, rl)
  PROVE  Trimmed(d, e) \in Docs(given2) /\ Trimmed(d, e).has = d.has /\ Trimmed(d, e) \in Clean(M, ty, rl)
<1> DEFINE x == Trimmed(d, e)
           cut == d.cut \cup ({e} \X {"typed"})
           has == d.has
<1>1. /\ d = [has |-> d.has, cut |-> d.cut] /\ has \subseteq Texts \X {"typed", "rebased", "offered"} /\ d.cut \subseteq Large \X {"typed"}
      /\ \A i \in d.cut : i[1] \in gv
  BY DocFields
<1>2. x = [has |-> has, cut |-> cut]
  <2> HIDE DEF cut, has
  <2>1. x = [d EXCEPT !.cut = cut]
    BY DEF Trimmed, cut
  <2> QED
    BY <1>1, <2>1 DEF has
<1>3. cut \subseteq Large \X {"typed"} /\ \A i \in cut : i[1] \in given2
  BY <1>1
<1> HIDE DEF cut, has, x
<1>4. [has |-> has, cut |-> cut] \in Docs(given2)
  BY <1>1, <1>3, DocMade
<1>5. x \in Docs(given2) /\ x.has = has
  BY <1>2, <1>4
<1>6. x \in Documents
  BY <1>5, DocFields
<1>7. x \in Clean(M, ty, rl)
  BY <1>5, <1>6 DEF Clean, Ours, has
<1> QED
  BY <1>5, <1>7 DEF x, has

\* The tab before it settles, with text cut.
Trims(M, t, e, given2, d, w) ==
  /\ Grows(M, relay, typed, given, M, relay, typed, given2)
  /\ Fit(t, Of(tab[t], copies), relay, given2, Clean(M, typed, relay), All(M, typed, relay))
  /\ Edited(t, tab[t], copies, w, d, relay, given2, Clean(M, typed, relay), All(M, typed, relay), Safe(relay, given2))
  /\ d.has = tab[t].doc.has /\ d \in Docs(given2)
LEMMA CutTrims ==
  ASSUME NEW M, Core(M, tab, copies, relay, typed, kept, given, large), NEW t \in Tabs, NEW e \in Large, Cut(t, e),
         NEW given2, given2 = given \cup {e}, NEW d, d = Trimmed(tab[t].doc, e)
  PROVE  Trims(M, t, e, given2, d, SetDoc(Keep(Unsent(Of(tab[t], copies)), t), d))
<1> DEFINE x == tab[t]
           n == Of(x, copies)
           C == Clean(M, typed, relay)
           F == All(M, typed, relay)
           S == Safe(relay, given2)
           w == SetDoc(Keep(Unsent(n), t), d)
<1>0. x.at # "closed" /\ Free(copies) # {}
  BY DEF Cut, Room
<1>g. Grows(M, relay, typed, given, M, relay, typed, given2)
  <2> DEFINE T == {e}
  <2>1. T \in SUBSET Texts /\ given2 = given \cup T
    BY TextsAssumption DEF Texts
  <2> HIDE DEF T
  <2> QED
    BY <2>1, GivenGrows
<1>1. x \in TabRec(given2) /\ Fit(t, n, relay, given2, C, F)
  BY <1>g, CoreStart
<1>2. Family(C, F) /\ given2 \subseteq S
  BY <1>g, GrowsFields
<1>3. d \in Docs(given2) /\ d \in C /\ d.has = x.doc.has
  <2>1. x.doc \in Docs(given) /\ x.doc \in C
    <3>1. x \in TabRec(given) /\ Fit(t, n, relay, given, C, F)
      BY CoreTab
    <3> HIDE DEF x, C, F
    <3> QED
      BY <3>1, FitTab DEF TabRec
  <2> DEFINE p == x.doc
  <2>2. p \in Docs(given) /\ p \in C /\ d = Trimmed(p, e)
    BY <2>1
  <2> HIDE DEF p
  <2>3. Trimmed(p, e) \in Docs(given2) /\ Trimmed(p, e).has = p.has /\ Trimmed(p, e) \in C
    BY <2>2, TrimmedDoc
  <2> QED
    BY <2>2, <2>3 DEF p
<1>4. HasRoom(n)
  BY <1>0 DEF HasRoom, Of
<1>6. Edited(t, x, copies, w, d, relay, given2, C, F, S)
  <2>1. x.doc.has \subseteq d.has
    BY <1>3
  <2> HIDE DEF x, C, F, S
  <2> QED
    BY <1>0, <1>1, <1>2, <1>3, <1>4, <2>1, EditWorld
<1> QED
  BY <1>g, <1>1, <1>3, <1>6 DEF Trims

\* A cut of a document that is sent again as it is.
CutGoesOn(t, v, y) == y = [v.tab EXCEPT !.at = "open"] /\ tab[t].at = "refused"
LEMMA CutSettles ==
  ASSUME NEW M, Core(M, tab, copies, relay, typed, kept, given, large), Once(tab, relay, stale, large), NEW t \in Tabs,
         NEW e, NEW given2, NEW d, NEW w, Trims(M, t, e, given2, d, w),
         NEW v, v = Settle(w, t), NEW y, y = v.tab \/ CutGoesOn(t, v, y), NEW tb2, tb2 = [tab EXCEPT ![t] = y], NEW ds, ds = v.copies
  PROVE  Whole(M, tb2, ds, relay, typed, kept, given2, large, stale)
<1> DEFINE x == tab[t]
           C == Clean(M, typed, relay)
           F == All(M, typed, relay)
           S == Safe(relay, given2)
<1>1. /\ Grows(M, relay, typed, given, M, relay, typed, given2) /\ Fit(t, Of(x, copies), relay, given2, C, F)
      /\ Edited(t, x, copies, w, d, relay, given2, C, F, S) /\ d.has = x.doc.has
  BY DEF Trims
<1>2. Flags(x)
  <2> HIDE DEF x, C, F
  <2> QED
    BY <1>1, FitTab
<1>3. /\ Fit(t, v, relay, given2, C, F) /\ Touches(t, copies, v.copies) /\ Sure(copies, S, v.copies, S)
      /\ Says(w.tab, v.tab) /\ v.tab.doc = w.tab.doc
  <2> HIDE DEF x
  <2>2. w.tab.net # "synced" \/ w.tab.restore = <<>>
    BY <1>1, <1>2 DEF Edited, Alike, Flags
  <2> QED
    BY <1>1, <2>2, CoreEdited
<1>4. One(v.tab, relay, stale, large)
  <2>1. One(x, relay, stale, large)
    BY DEF Once
  <2>2. w.tab.live \in Copies /\ w.tab.doc = d /\ Alike(x, w.tab)
    BY <1>1 DEF Edited
  <2> HIDE DEF x
  <2>3. One(w.tab, relay, stale, large)
    BY <1>1, <2>1, <2>2 DEF One, Alike, Both, Big
  <2> QED
    BY <1>3, <2>3, OneSays
<1>5. CASE y = v.tab
  <2>1. Core(M, tb2, ds, relay, typed, kept, given2, large)
    BY <1>1, <1>3, <1>5, CoreTurn
  <2>2. Once(tb2, relay, stale, large)
    <3>1. tab \in [Tabs -> TabRec(given)] /\ One(y, relay, stale, large)
      BY <1>4, <1>5 DEF Core
    <3> QED
      BY <3>1, OnceStep
  <2> QED
    BY <2>1, <2>2 DEF Whole
<1>6. CASE CutGoesOn(t, v, y)
  <2> DEFINE u == v.tab
             open == "open"
  <2>1. y = [u EXCEPT !.at = open] /\ x.at = "refused"
    BY <1>6 DEF CutGoesOn
  <2>2. u.at = "refused" /\ u.net = "down" /\ x.net = "down" /\ u.live \in Copies
    <3>1. w.tab.at = x.at /\ w.tab.net = x.net /\ w.tab.live \in Copies
      BY <1>1 DEF Edited, Alike
    <3> HIDE DEF x
    <3> QED
      BY <1>2, <1>3, <2>1, <3>1 DEF Flags, Says, Follows
  <2>3. v = Of(u, ds) /\ u \in TabRec(given2)
    <3>1. v \in World(given2)
      <4> HIDE DEF C, F
      <4> QED
        BY <1>3 DEF Fit, Ready
    <3> QED
      BY <3>1 DEF World, Of
  <2> HIDE DEF u, x
  <2>4. Fit(t, Of(u, ds), relay, given2, C, F) /\ Flags(u) /\ Truth(u, relay, given2)
    <3>1. Fit(t, Of(u, ds), relay, given2, C, F)
      BY <1>3, <2>3
    <3> HIDE DEF C, F
    <3> QED
      BY <3>1, FitTab
  <2>5. /\ y \in TabRec(given2) /\ y.live = u.live /\ y.doc = u.doc /\ y.offered = u.offered /\ y.restore = u.restore
        /\ y.at = "open" /\ y.net = u.net /\ y.shown = u.shown /\ y.unsynced = u.unsynced /\ y.synced = u.synced
        /\ y.acked = u.acked
    <3>1. open \in {"closed", "open", "refused", "stopped"}
      OBVIOUS
    <3> HIDE DEF open
    <3>2. y \in TabRec(given2) /\ y.at = open /\ y.live = u.live /\ y.doc = u.doc /\ y.offered = u.offered /\ y.restore = u.restore
          /\ y.net = u.net /\ y.shown = u.shown /\ y.unsynced = u.unsynced /\ y.synced = u.synced /\ y.acked = u.acked
      BY <2>1, <2>3, <3>1 DEF TabRec
    <3> QED
      BY <3>2 DEF open
  <2>6. Flags(y) /\ Truth(y, relay, given2)
    BY <2>2, <2>4, <2>5 DEF Flags, Truth
  <2>7. Fit(t, Of(y, ds), relay, given2, C, F) /\ Of(y, ds).tab = y /\ Of(y, ds).copies = ds
    <3> HIDE DEF C, F
    <3> QED
      BY <2>4, <2>5, <2>6, TabFit
  <2>8. Core(M, tb2, ds, relay, typed, kept, given2, large)
    <3> DEFINE z == Of(y, ds)
    <3>1. Fit(t, z, relay, given2, C, F) /\ tb2 = [tab EXCEPT ![t] = z.tab] /\ ds = z.copies /\ Touches(t, copies, z.copies)
          /\ Sure(copies, S, z.copies, S)
      BY <1>3, <2>7
    <3> HIDE DEF z
    <3>2. ASSUME NEW a, NEW b, a = [tab EXCEPT ![t] = z.tab], b = z.copies
          PROVE  Core(M, a, b, relay, typed, kept, given2, large)
      BY <1>1, <3>1, <3>2, CoreTurn
    <3> QED
      BY <3>1, <3>2
  <2>9. Once(tb2, relay, stale, large)
    <3>1. tab \in [Tabs -> TabRec(given)]
      BY DEF Core
    <3>2. One(u, relay, stale, large)
      BY <1>4 DEF u
    <3>3. One(y, relay, stale, large)
      BY <2>2, <2>5, <3>2 DEF One, Both, Big
    <3> QED
      BY <3>1, <3>3, OnceStep
  <2> QED
    BY <2>8, <2>9 DEF Whole
<1> QED
  BY <1>5, <1>6

\* What a rebuild makes of a tab that holds a document's text under another name.
LEMMA RebuiltIs ==
  ASSUME NEW gv, NEW w \in World(gv), w.tab.live \in Copies, NEW t \in Tabs, NEW c, c = FirstFree(w.copies), c \in Copies
  PROVE  LET v == Rebuilt(w, t)
         IN /\ v.tab = [Closed EXCEPT !.at = "open", !.doc = w.tab.doc, !.unsynced = TRUE, !.live = c, !.offered = w.tab.offered]
            /\ v.copies = Ended(Rebuilding(w.copies, t, w.tab.live, w.tab.doc, c), ToSet(w.tab.restore), "close")
<1> DEFINE x == w.tab
           cs == w.copies
           l == w.tab.live
           d == w.tab.doc
           how == "none"
           k == [NoCopy EXCEPT !.by = {t}, !.live = TRUE, !.unsaved = TRUE]
           es == Stopped(cs, l, d, how)
           fs == [es EXCEPT ![c] = Fresh(t)]
           fresh == [Detach(w, l, how) EXCEPT !.copies[c] = k]
           P == ToSet(w.tab.restore)
           y == [Closed EXCEPT !.at = "open", !.doc = d, !.unsynced = TRUE, !.live = c, !.offered = x.offered]
           ds == Ended(Rebuilding(cs, t, l, d, c), P, "close")
<1>1. /\ w = Of(x, cs) /\ x \in TabRec(gv) /\ cs \in [Copies -> CopyRec(gv)] /\ l \in Copies /\ d \in Docs(gv) /\ l = x.live
      /\ d = x.doc
  <2>1. w = [tab |-> w.tab, copies |-> w.copies] /\ w.tab \in TabRec(gv) /\ w.copies \in [Copies -> CopyRec(gv)] /\ w.tab.doc \in Docs(gv)
    BY WorldFields
  <2> QED
    BY <2>1 DEF Of
<1>2. Rebuilt(w, t) = [PutBack(Await(fresh, l, c), P) EXCEPT !.tab = y]
  BY DEF Rebuilt
<1>3. k = Fresh(t)
  BY DEF Fresh
<1> HIDE DEF k, y, P, x, cs, l, d
<1>4. Detach(w, l, how) = Of(x, es)
  <2> HIDE DEF how
  <2>1. Detach(Of(x, cs), x.live, how) = Of(x, Stopped(cs, x.live, x.doc, how))
    BY <1>1, DetachIs
  <2> QED
    BY <1>1, <2>1
<1>5. es \in [Copies -> CopyRec(gv)]
  <2> DEFINE a == cs[l]
  <2>1. a \in CopyRec(gv) /\ how \in {"none", "close", "release"}
    BY <1>1
  <2> HIDE DEF a, how
  <2>2. [a EXCEPT !.mem = d, !.live = FALSE, !.end = how] \in CopyRec(gv)
    BY <1>1, <2>1 DEF CopyRec
  <2> QED
    BY <1>1, <2>2 DEF Stopped, a
<1> HIDE DEF es
<1>6. fresh = Of(x, fs)
  <2> HIDE DEF k
  <2> DEFINE m == Detach(w, l, how)
  <2>1. m = [tab |-> x, copies |-> es]
    BY <1>4 DEF Of
  <2>2. fresh = [m EXCEPT !.copies[c] = k]
    OBVIOUS
  <2> HIDE DEF m
  <2>3. [m EXCEPT !.copies[c] = k] = [tab |-> x, copies |-> [es EXCEPT ![c] = k]]
    BY <2>1
  <2> QED
    BY <1>3, <2>2, <2>3 DEF Of
<1>7. fs \in [Copies -> CopyRec(gv)]
  <2>1. Fresh(t) \in CopyRec(gv)
    <3>1. Empty \in Docs(gv)
      BY EmptyDoc
    <3> QED
      BY <3>1, NewFields
  <2> QED
    BY <1>5, <2>1
<1>8. Rebuilding(cs, t, l, d, c) = AwaitAs(fs, l, c)
  BY DEF Rebuilding, es
<1> HIDE DEF fs, fresh
<1> DEFINE gs == AwaitAs(fs, l, c)
<1>9. Await(fresh, l, c) = Of(x, gs)
  BY <1>1, <1>6, <1>7, AwaitIs
<1> HIDE DEF gs
<1>10. PutBack(Of(x, gs), P) = Of(x, Ended(gs, P, "close"))
  BY PutBackIs DEF Ended
<1>11. Rebuilt(w, t) = Of(y, ds)
  <2> DEFINE hs == Ended(gs, P, "close")
  <2>1. Rebuilt(w, t) = [Of(x, hs) EXCEPT !.tab = y] /\ hs = ds
    BY <1>2, <1>8, <1>9, <1>10 DEF gs
  <2> HIDE DEF hs, ds
  <2> QED
    BY <2>1 DEF Of
<1> HIDE DEF ds
<1>12. Rebuilt(w, t).tab = y /\ Rebuilt(w, t).copies = ds
  BY <1>11 DEF Of
<1> QED
  BY <1>12 DEF y, ds, x, cs, l, d, P

\* The document d comes into a tab that gets a copy; and tabs and copies that a world replaces.
Comes(t, d, w) == w = SetDoc(Keep(Unsent(Of(tab[t], copies)), t), d)
Replaced(t, v, tb2, ds) == tb2 = [tab EXCEPT ![t] = v.tab] /\ ds = v.copies

LEMMA CutRebuilds ==
  ASSUME NEW M, Core(M, tab, copies, relay, typed, kept, given, large), Once(tab, relay, stale, large), NEW t \in Tabs,
         tab[t].at = "refused", Free(copies) # {},
         NEW e, NEW given2, NEW d, NEW w, Trims(M, t, e, given2, d, w), Comes(t, d, w),
         NEW v, v = Rebuilt(w, t), NEW tb2, NEW ds, Replaced(t, v, tb2, ds)
  PROVE  Whole(M, tb2, ds, relay, typed, kept, given2, large, stale)
<1> DEFINE x == tab[t]
           C == Clean(M, typed, relay)
           F == All(M, typed, relay)
           S == Safe(relay, given2)
           cs == w.copies
           l == w.tab.live
           c == FirstFree(cs)
           P == ToSet(x.restore)
           es == Rebuilding(cs, t, l, d, c)
           y == [Closed EXCEPT !.at = "open", !.doc = d, !.unsynced = TRUE, !.live = c, !.offered = x.offered]
<1>1. /\ Grows(M, relay, typed, given, M, relay, typed, given2) /\ Fit(t, Of(x, copies), relay, given2, C, F)
      /\ Edited(t, x, copies, w, d, relay, given2, C, F, S) /\ d.has = x.doc.has /\ d \in Docs(given2)
      /\ tab \in [Tabs -> TabRec(given)]
  BY DEF Trims, Core
<1>2. One(x, relay, stale, large) /\ x.live \in Copies /\ x \in TabRec(given) /\ copies \in [Copies -> CopyRec(given)]
      /\ given2 \subseteq S
  <2>1. One(x, relay, stale, large)
    BY DEF Once
  <2> QED
    BY <2>1, CoreTab DEF One, Safe
<1>3. l = x.live /\ \A k \in Copies : k # l => cs[k] = copies[k]
  <2> HIDE DEF x
  <2> QED
    BY <1>2, EditedCopies DEF x, Comes
<1>4. /\ w \in World(given2) /\ Good(t, l, d, cs, given2) /\ Hand(cs, t, P) /\ Hand(cs, t, x.offered) /\ d \in C
      /\ P \cap x.offered = {} /\ Held(cs, F) /\ Touches(t, copies, cs) /\ Sure(copies, S, cs, S)
      /\ l \in Copies /\ w.tab.doc = d /\ w.tab.offered = x.offered /\ w.tab.restore = x.restore /\ P \subseteq Copies
      /\ x.offered \subseteq Copies
  <2>1. /\ Ready(t, w, P, given2, C, F) /\ Touches(t, copies, cs) /\ Sure(copies, S, cs, S) /\ Alike(x, w.tab)
        /\ l \in Copies /\ w.tab.doc = d /\ w.tab.offered = x.offered
    BY <1>1 DEF Edited
  <2> HIDE DEF x, P, C, F, S
  <2>2. /\ w \in World(given2) /\ Good(t, w.tab.live, w.tab.doc, w.copies, given2) /\ Held(w.copies, F)
        /\ Hand(w.copies, t, P) /\ Hand(w.copies, t, w.tab.offered) /\ P \cap w.tab.offered = {} /\ P \subseteq Copies
        /\ w.tab.doc \in C /\ w.tab.offered \in SUBSET Copies
    BY <2>1, ReadyFields
  <2> QED
    BY <2>1, <2>2 DEF Alike
<1> HIDE DEF l, cs
<1>5. c \in Copies /\ cs[c] = NoCopy
  <2>1. PICK f \in Copies : copies[f] = NoCopy /\ \A u \in Tabs : f \notin tab[u].watch
    BY DEF Free
  <2>2. copies[x.live].by = {t} /\ NoCopy.by = {}
    <3> DEFINE a == x.live
               b == x.doc
    <3>1. Good(t, a, b, copies, given2) /\ a \in Copies
      <4> HIDE DEF C, F, x
      <4> QED
        BY <1>1, <1>2, FitMade DEF a, b
    <3> HIDE DEF a, b
    <3>2. copies[a].by = {t}
      BY <3>1, LiveAlive
    <3> QED
      BY <3>2, NoCopyFields DEF a
  <2>3. f # l
    BY <1>3, <2>1, <2>2
  <2>4. f \in Free(cs)
    BY <1>3, <2>1, <2>3 DEF Free
  <2> QED
    BY <2>4, FreeName
<1>6. v.tab = y /\ v.copies = Ended(es, P, "close")
  <2> DEFINE f == FirstFree(w.copies)
  <2>1. f = c /\ f \in Copies /\ w.tab.live \in Copies
    BY <1>4, <1>5 DEF cs, l
  <2>2. LET r == Rebuilt(w, t)
        IN /\ r.tab = [Closed EXCEPT !.at = "open", !.doc = w.tab.doc, !.unsynced = TRUE, !.live = f, !.offered = w.tab.offered]
           /\ r.copies = Ended(Rebuilding(w.copies, t, w.tab.live, w.tab.doc, f), ToSet(w.tab.restore), "close")
    <3>1. f = FirstFree(w.copies)
      OBVIOUS
    <3> HIDE DEF f
    <3> QED
      BY <1>4, <2>1, <3>1, RebuiltIs
  <2> HIDE DEF f, c
  <2> QED
    BY <1>4, <2>1, <2>2 DEF cs, l
<1> HIDE DEF c
<1>7. Rebuilds(t, cs, es, d, c, S, given2, F)
  <2>1. d \in F /\ Empty \in F
    BY <1>4, CleanIsAll
  <2> HIDE DEF F, S
  <2> QED
    BY <1>2, <1>4, <1>5, <2>1, RebuiltStep
<1> HIDE DEF es
<1> DEFINE gs == Ended(es, P, "close")
<1>8. /\ Hand(es, t, P) /\ Hand(es, t, x.offered) /\ Good(t, c, d, es, given2) /\ Touches(t, cs, es) /\ Sure(cs, S, es, S)
      /\ Held(es, F)
  BY <1>4, <1>7 DEF Rebuilds, Hand
<1>9. Ends(t, c, d, es, P, gs, S, given2)
  <2> DEFINE how == "close"
  <2>1. how \in {"close", "release"} /\ P \in SUBSET Copies /\ MayEnd(es, P, how, S) /\ gs = Ended(es, P, how)
    BY <1>4 DEF MayEnd
  <2> HIDE DEF how, P, S, gs
  <2>2. Ends(t, c, d, es, P, Ended(es, P, how), S, given2)
    BY <1>2, <1>8, <2>1, EndsStep
  <2> QED
    BY <2>1, <2>2
<1> HIDE DEF gs
<1>10. /\ Good(t, c, d, gs, given2) /\ Touches(t, copies, gs) /\ Sure(copies, S, gs, S) /\ Held(gs, F)
       /\ Hand(gs, t, x.offered) /\ Hand(gs, t, {})
  <2>1. Touches(t, es, gs) /\ Sure(es, S, gs, S) /\ Good(t, c, d, gs, given2)
        /\ \A k \in Copies : SameBody(es[k], gs[k]) /\ (k \notin P => gs[k] = es[k])
    BY <1>9 DEF Ends
  <2>2. Touches(t, copies, es) /\ Sure(copies, S, es, S)
    BY <1>4, <1>8, TouchesTwice, SureTwice
  <2>3. Touches(t, copies, gs) /\ Sure(copies, S, gs, S)
    BY <2>1, <2>2, TouchesTwice, SureTwice
  <2>4. Held(gs, F)
    BY <1>8, <2>1 DEF Held, SameBody
  <2>5. Hand(gs, t, x.offered) /\ Hand(gs, t, {})
    BY <1>4, <1>8, <2>1 DEF Hand
  <2> QED
    BY <2>1, <2>3, <2>4, <2>5
<1>11. /\ y \in TabRec(given2) /\ y.live = c /\ y.doc = d /\ y.offered = x.offered /\ y.restore = <<>>
       /\ y.at = "open" /\ y.net = "down" /\ y.shown = 0 /\ ~y.synced /\ y.unsynced /\ ToSet(y.restore) = {}
  <2> DEFINE q == x.offered
             a == "open"
             b == TRUE
             u == Closed
  <2>1. q \in SUBSET Copies /\ a \in {"closed", "open", "refused", "stopped"} /\ u \in TabRec(given2) /\ b \in BOOLEAN
    BY <1>4, ClosedTab
  <2>2. u.restore = <<>> /\ u.net = "down" /\ u.shown = 0 /\ ~u.synced /\ ToSet(u.restore) = {}
    BY ClosedTab DEF Closed
  <2> HIDE DEF q, a, u, b
  <2>3. y = [u EXCEPT !.at = a, !.doc = d, !.unsynced = b, !.live = c, !.offered = q]
    BY DEF q, a, u, b
  <2> HIDE DEF y
  <2>4. y \in TabRec(given2) /\ y.live = c /\ y.doc = d /\ y.offered = q /\ y.restore = u.restore
        /\ y.at = a /\ y.net = u.net /\ y.shown = u.shown /\ y.synced = u.synced /\ y.unsynced = b
    BY <1>1, <1>5, <2>1, <2>3 DEF TabRec
  <2> QED
    BY <2>2, <2>4 DEF q, a, b
<1> HIDE DEF y
<1>12. Flags(y) /\ Truth(y, relay, given2)
  <2>1. Flags(Closed) /\ Closed.restore = <<>>
    BY ClosedTab
  <2>2. Distinct(<<>>)
    BY <2>1 DEF Flags
  <2> QED
    BY <1>11, <2>2 DEF Flags, Truth
<1>13. ds = gs /\ tb2 = [tab EXCEPT ![t] = y]
  BY <1>6 DEF gs, Replaced
<1>14. Core(M, tb2, gs, relay, typed, kept, given2, large)
  <2>1. tb2 = [tab EXCEPT ![t] = y] /\ Good(t, y.live, y.doc, gs, given2) /\ y.doc \in C /\ Hand(gs, t, ToSet(y.restore))
        /\ Hand(gs, t, y.offered) /\ ToSet(y.restore) \cap y.offered = {}
    BY <1>4, <1>10, <1>11, <1>13
  <2> HIDE DEF x
  <2> QED
    BY <1>1, <1>10, <1>11, <1>12, <2>1, CoreMade
<1>15. Once(tb2, relay, stale, large)
  <2>1. One(y, relay, stale, large)
    <3> HIDE DEF x
    <3> QED
      BY <1>1, <1>2, <1>5, <1>11 DEF One, Both, Big, x
  <2> QED
    BY <1>1, <1>13, <2>1, OnceStep
<1> QED
  BY <1>13, <1>14, <1>15 DEF Whole

LEMMA CutCore ==
  ASSUME NEW M, Core(M, tab, copies, relay, typed, kept, given, large), Once(tab, relay, stale, large), NEW t \in Tabs,
         NEW e \in Large, Cut(t, e)
  PROVE  Core(M, tab', copies', relay', typed', kept', given', large') /\ Once(tab', relay', stale', large')
<1> DEFINE given2 == given \cup {e}
           d == Trimmed(tab[t].doc, e)
           w == SetDoc(Keep(Unsent(Of(tab[t], copies)), t), d)
           v == Settle(w, t)
           tb2 == tab'
           ds == copies'
<1>1. Trims(M, t, e, given2, d, w)
  BY CutTrims
<1>2. Now(t) = Of(tab[t], copies)
  BY DEF Now, Of
<1>3. /\ given' = given2 /\ Free(copies) # {}
      /\ \/ Become(t, v)
         \/ tab[t].at = "refused" /\ \E again \in {[v EXCEPT !.tab.at = "open"], Rebuilt(w, t)} : Become(t, again)
  BY <1>2 DEF Cut, Trimmed, Room
<1> HIDE DEF given2, d, w
<1>4. Whole(M, tb2, ds, relay, typed, kept, given2, large, stale)
  <2>1. CASE Become(t, v)
    <3> DEFINE y == v.tab
    <3>1. tb2 = [tab EXCEPT ![t] = y] /\ ds = v.copies /\ v = Settle(w, t) /\ (y = v.tab \/ CutGoesOn(t, v, y))
      BY <2>1 DEF Become
    <3> HIDE DEF y, v, tb2, ds
    <3> QED
      BY <1>1, <3>1, CutSettles
  <2>2. CASE tab[t].at = "refused" /\ Become(t, [v EXCEPT !.tab.at = "open"])
    <3> DEFINE y == [v.tab EXCEPT !.at = "open"]
    <3>1. v = Of(v.tab, v.copies)
      <4> DEFINE C == Clean(M, typed, relay)
                 F == All(M, typed, relay)
                 S == Safe(relay, given2)
                 x == tab[t]
      <4>1. Edited(t, x, copies, w, d, relay, given2, C, F, S) /\ Family(C, F) /\ given2 \subseteq S
        BY <1>1, GrowsFields DEF Trims
      <4>2. Unsettled(t, w, relay, given2, C, F) /\ w.tab.live \in Copies
        BY <4>1 DEF Edited
      <4>3. HasRoom(w)
        BY <4>2 DEF HasRoom
      <4> HIDE DEF C, F, S
      <4>4. Settled(t, w, v, relay, given2, C, F, S)
        BY <4>1, <4>2, <4>3, SettleWorld
      <4> HIDE DEF v
      <4>5. v \in World(given2)
        BY <4>4 DEF Settled, Fit, Ready
      <4> QED
        BY <4>5 DEF World, Of
    <3>2. CutGoesOn(t, v, y)
      BY <2>2 DEF CutGoesOn
    <3> DEFINE z == [v EXCEPT !.tab.at = "open"]
    <3>3. tb2 = [tab EXCEPT ![t] = z.tab] /\ ds = z.copies
      BY <2>2 DEF Become
    <3>4. z.tab = y /\ z.copies = v.copies
      <4> HIDE DEF v
      <4> QED
        BY <3>1 DEF Of
    <3>5. tb2 = [tab EXCEPT ![t] = y] /\ ds = v.copies /\ v = Settle(w, t) /\ (y = v.tab \/ CutGoesOn(t, v, y))
      BY <3>2, <3>3, <3>4
    <3> HIDE DEF y, v, tb2, ds
    <3> QED
      BY <1>1, <3>5, CutSettles
  <2>3. CASE tab[t].at = "refused" /\ Become(t, Rebuilt(w, t))
    <3> DEFINE r == Rebuilt(w, t)
    <3>1. tb2 = [tab EXCEPT ![t] = r.tab] /\ ds = r.copies /\ r = Rebuilt(w, t) /\ tab[t].at = "refused"
      BY <2>3 DEF Become
    <3>2. w = SetDoc(Keep(Unsent(Of(tab[t], copies)), t), d)
      BY DEF w
    <3> HIDE DEF r, tb2, ds
    <3> QED
      BY <1>1, <1>3, <3>1, <3>2, CutRebuilds DEF Comes, Replaced
  <2> QED
    BY <1>3, <2>1, <2>2, <2>3
<1> HIDE DEF tb2, ds
<1>5. Core(M, tb2, ds, relay, typed, kept, given2, large) /\ Once(tb2, relay, stale, large)
  BY <1>4 DEF Whole
<1> QED
  BY <1>3, <1>5 DEF Cut, tb2, ds

\* The copies that a claim finds worth a restore, and what they are to the tab.
Found(cs, S) == {c \in S : \E d \in cs[c].disk : d.has # {}}
Laid(t, x, cs, S, ds, R, gv, F) ==
  /\ Good(t, x.live, x.doc, ds, gv) /\ Touches(t, cs, ds) /\ Sure(cs, R, ds, R) /\ Held(ds, F)
  /\ Hand(ds, t, ToSet(x.restore)) /\ Hand(ds, t, x.offered) /\ Hand(ds, t, Found(cs, S))
  /\ Found(cs, S) \cap x.offered = {} /\ Found(cs, S) \cap ToSet(x.restore) = {}
  /\ \A k \in Copies \ S : ds[k] = cs[k]

LEMMA TakenLaid ==
  ASSUME NEW t \in Tabs, NEW x, NEW cs, NEW rl, NEW gv, NEW C, NEW F, Fit(t, Of(x, cs), rl, gv, C, F),
         NEW S \in SUBSET Copies, Idle(cs, S), NEW R, gv \subseteq R
  PROVE  Laid(t, x, cs, S, Taken(cs, t, S), R, gv, F)
<1> DEFINE l == x.live
           d == x.doc
           ds == Taken(cs, t, S)
<1>1. /\ Good(t, l, d, cs, gv) /\ Held(cs, F) /\ Hand(cs, t, ToSet(x.restore)) /\ Hand(cs, t, x.offered)
      /\ ToSet(x.restore) \subseteq Copies /\ x.offered \subseteq Copies
  BY FitMade
<1> HIDE DEF l, d, ds
<1>3. /\ Good(t, l, d, ds, gv) /\ Touches(t, cs, ds) /\ Sure(cs, R, ds, R)
      /\ \A k \in Copies \ S : ds[k] = cs[k]
      /\ \A k \in S : /\ cs[k].disk = {ds[k].mem} /\ ds[k].disk = cs[k].disk /\ ds[k].by = {t} /\ ~ds[k].live /\ ds[k].awaits = 0
                      /\ ds[k].mem.has # {} => ds[k].end = "none"
  <2>1. Takes(t, l, d, cs, S, Taken(cs, t, S), R, gv)
    BY <1>1, ClaimStep
  <2> QED
    BY <2>1 DEF Takes, ds
<1>4. Held(ds, F)
  BY <1>1, <1>3 DEF Held
<1>5. \A c \in S : c \notin ToSet(x.restore) /\ c \notin x.offered
  BY <1>1 DEF Hand, Idle
<1>6. Hand(ds, t, ToSet(x.restore)) /\ Hand(ds, t, x.offered)
  BY <1>1, <1>3, <1>5 DEF Hand
<1>7. Hand(ds, t, Found(cs, S))
  BY <1>3 DEF Hand, Found
<1>8. Found(cs, S) \cap x.offered = {} /\ Found(cs, S) \cap ToSet(x.restore) = {}
  BY <1>5 DEF Found
<1> QED
  BY <1>3, <1>4, <1>6, <1>7, <1>8 DEF Laid, l, d, ds

\* A tab that differs from another in what it has looked for alone.
Alone(x, z) ==
  /\ z.at = x.at /\ z.doc = x.doc /\ z.net = x.net /\ z.acked = x.acked /\ z.synced = x.synced /\ z.unsynced = x.unsynced
  /\ z.live = x.live /\ z.restore = x.restore /\ z.shown = x.shown /\ z.offered = x.offered

LEMMA AloneFlags ==
  ASSUME NEW x, NEW z, Alone(x, z), x.at # "closed", Flags(x), NEW rl, NEW gv, Truth(x, rl, gv)
  PROVE  Flags(z) /\ Truth(z, rl, gv)
<1>1. Flags(z)
  BY DEF Alone, Flags
<1>2. Truth(z, rl, gv)
  BY DEF Alone, Truth
<1> QED
  BY <1>1, <1>2

LEMMA AloneOne ==
  ASSUME NEW x, NEW z, Alone(x, z), NEW rl, NEW st, NEW lg, One(x, rl, st, lg), NEW st2, st \subseteq st2
  PROVE  One(z, rl, st2, lg)
BY DEF Alone, One, Big, Both

\* What a claim finds is nothing to restore.
LEMMA TakenCore ==
  ASSUME NEW M, NEW tb, NEW cs, NEW rl, NEW ty, NEW kp, NEW gv, NEW lg, Core(M, tb, cs, rl, ty, kp, gv, lg),
         NEW st, Once(tb, rl, st, lg), NEW t \in Tabs, tb[t].at # "closed", NEW S \in SUBSET Copies, Idle(cs, S),
         NEW ds, ds = Taken(cs, t, S), NEW z \in TabRec(gv), Alone(tb[t], z), NEW tb2, tb2 = [tb EXCEPT ![t] = z],
         NEW st2, st \subseteq st2
  PROVE  Whole(M, tb2, ds, rl, ty, kp, gv, lg, st2)
<1> DEFINE x == tb[t]
           C == Clean(M, ty, rl)
           F == All(M, ty, rl)
           R == Safe(rl, gv)
<1>1. Fit(t, Of(x, cs), rl, gv, C, F) /\ gv \subseteq R
  BY CoreTab
<1>2. x.at # "closed" /\ Alone(x, z) /\ Grows(M, rl, ty, gv, M, rl, ty, gv) /\ tb \in [Tabs -> TabRec(gv)]
      /\ One(x, rl, st, lg)
  BY GrowsNot DEF Core, Once
<1> HIDE DEF x, C, F, R
<1>3. Laid(t, x, cs, S, Taken(cs, t, S), R, gv, F)
  BY <1>1, TakenLaid
<1>4. Laid(t, x, cs, S, ds, R, gv, F)
  BY <1>3
<1>5. /\ x.doc \in C /\ Flags(x) /\ Truth(x, rl, gv) /\ ToSet(x.restore) \cap x.offered = {}
  BY <1>1, FitMade
<1>6. Flags(z) /\ Truth(z, rl, gv)
  BY <1>2, <1>5, AloneFlags
<1>7. /\ Good(t, z.live, z.doc, ds, gv) /\ Touches(t, cs, ds) /\ Sure(cs, R, ds, R) /\ Held(ds, F) /\ z.doc \in C
      /\ Hand(ds, t, ToSet(z.restore)) /\ Hand(ds, t, z.offered) /\ ToSet(z.restore) \cap z.offered = {}
  BY <1>2, <1>4, <1>5 DEF Laid, Alone
<1>8. Core(M, tb2, ds, rl, ty, kp, gv, lg)
  <2>1. Sure(cs, Safe(rl, gv), ds, Safe(rl, gv)) /\ z.doc \in Clean(M, ty, rl) /\ Held(ds, All(M, ty, rl))
    BY <1>7 DEF C, F, R
  <2> QED
    BY <1>2, <1>6, <1>7, <2>1, CoreMade
<1>9. One(z, rl, st2, lg)
  BY <1>2, AloneOne
<1>10. Once(tb2, rl, st2, lg)
  BY <1>2, <1>9, OnceStep
<1> QED
  BY <1>8, <1>10 DEF Whole

\* What a claim finds is to be restored: y is the tab before it settles, z what becomes of it.
Restores(x, y, S) ==
  /\ y.live = x.live /\ y.doc = x.doc /\ y.offered = x.offered /\ y.at = x.at /\ y.net = x.net /\ y.acked = x.acked
  /\ y.unsynced /\ y.restore # <<>> /\ Distinct(y.restore) /\ ToSet(y.restore) \subseteq ToSet(x.restore) \cup S
  /\ y.shown # 0 => y.shown = y.restore[1]
Brings(x, z, rl, st, st2) ==
  st \subseteq st2 /\ \A e \in Edits : <<e, "typed">> \in z.doc.has \ x.doc.has /\ <<e, "rebased">> \in rl.has => e \in st2

LEMMA FoundUnsettled ==
  ASSUME NEW t \in Tabs, NEW x, NEW cs, NEW rl, NEW gv, NEW C, NEW F, Fit(t, Of(x, cs), rl, gv, C, F), x.at # "closed",
         NEW S \in SUBSET Copies, NEW ds, NEW R, Laid(t, x, cs, S, ds, R, gv, F), NEW y \in TabRec(gv),
         Restores(x, y, Found(cs, S))
  PROVE  Unsettled(t, Of(y, ds), rl, gv, C, F) /\ Of(y, ds).tab = y /\ Of(y, ds).copies = ds
<1> DEFINE w == Of(y, ds)
<1>1. w.tab = y /\ w.copies = ds /\ w = [tab |-> y, copies |-> ds]
  BY DEF Of
<1> HIDE DEF w
<1>2. /\ x.doc \in C /\ Flags(x) /\ Truth(x, rl, gv) /\ ToSet(x.restore) \cap x.offered = {}
      /\ ToSet(x.restore) \subseteq Copies
  BY FitMade
<1>3. Good(t, x.live, x.doc, ds, gv) /\ Held(ds, F)
  BY DEF Laid
<1>4. ds \in [Copies -> CopyRec(gv)]
  BY <1>3 DEF Good
<1>5. w \in World(gv)
  BY <1>1, <1>4 DEF World
<1>6. ToSet(y.restore) \subseteq Copies
  BY <1>2 DEF Restores, Found
<1>7. Hand(ds, t, ToSet(y.restore)) /\ Hand(ds, t, y.offered) /\ ToSet(y.restore) \cap y.offered = {}
  BY <1>2 DEF Restores, Laid, Hand
<1>8. Good(t, y.live, y.doc, ds, gv) /\ y.doc \in C
  BY <1>2, <1>3 DEF Restores
<1>9. Ready(t, w, ToSet(w.tab.restore), gv, C, F)
  <2> DEFINE P == ToSet(y.restore)
  <2>1. P \subseteq Copies /\ Hand(w.copies, t, P) /\ Hand(w.copies, t, w.tab.offered) /\ P \cap w.tab.offered = {}
        /\ Good(t, w.tab.live, w.tab.doc, w.copies, gv) /\ w.tab.doc \in C /\ Held(w.copies, F) /\ P = ToSet(w.tab.restore)
    BY <1>1, <1>3, <1>6, <1>7, <1>8
  <2> HIDE DEF P
  <2>2. Ready(t, w, P, gv, C, F)
    BY <1>5, <2>1, ReadyMade
  <2> QED
    BY <2>1, <2>2
<1>10. (y.at = "refused" => y.net = "down") /\ y.at # "closed" /\ (y.net = "synced" => Text(y.acked) \subseteq Text(rl) \cup gv)
  BY <1>2 DEF Restores, Flags, Truth
<1>11. Unsettled(t, w, rl, gv, C, F)
  BY <1>1, <1>9, <1>10 DEF Unsettled, Restores
<1> QED
  BY <1>1, <1>11 DEF w

\* What became of the tab when it has settled.
Restored(t, cs, y, v, rl, gv, C, F, R) ==
  /\ v \in World(gv) /\ Fit(t, v, rl, gv, C, F) /\ Touches(t, cs, v.copies) /\ Sure(cs, R, v.copies, R) /\ Says(y, v.tab)
  /\ y.net # "synced" => v.tab.doc = y.doc

LEMMA FoundSettles ==
  ASSUME NEW M, NEW tb, NEW cs, NEW rl, NEW ty, NEW kp, NEW gv, NEW lg, Core(M, tb, cs, rl, ty, kp, gv, lg),
         NEW t \in Tabs, tb[t].at # "closed", NEW S \in SUBSET Copies, Idle(cs, S), Free(cs) # {},
         NEW y \in TabRec(gv), Restores(tb[t], y, Found(cs, S)), NEW v, v = Settle(Of(y, Taken(cs, t, S)), t)
  PROVE  Restored(t, cs, y, v, rl, gv, Clean(M, ty, rl), All(M, ty, rl), Safe(rl, gv))
<1> DEFINE x == tb[t]
           C == Clean(M, ty, rl)
           F == All(M, ty, rl)
           R == Safe(rl, gv)
           cs1 == Taken(cs, t, S)
           w == Of(y, cs1)
<1>1. Fit(t, Of(x, cs), rl, gv, C, F) /\ gv \subseteq R
  BY CoreTab
<1>2. x.at # "closed" /\ Restores(x, y, Found(cs, S)) /\ Grows(M, rl, ty, gv, M, rl, ty, gv)
  BY GrowsNot
<1>a. v = Settle(w, t)
  OBVIOUS
<1> HIDE DEF x, C, F, R
<1>3. Laid(t, x, cs, S, cs1, R, gv, F)
  BY <1>1, TakenLaid
<1> HIDE DEF cs1
<1>4. Unsettled(t, w, rl, gv, C, F) /\ w.tab = y /\ w.copies = cs1
  BY <1>1, <1>2, <1>3, FoundUnsettled
<1> HIDE DEF w
<1>5. HasRoom(w)
  <2>1. PICK c \in Free(cs) : TRUE
    OBVIOUS
  <2>2. c \in Copies /\ cs[c] = NoCopy /\ \A u \in Tabs : c \notin tab[u].watch
    BY <2>1 DEF Free
  <2>3. c \notin S
    BY <2>2, NoCopyFields DEF Idle
  <2>4. cs1[c] = NoCopy
    BY <1>3, <2>2, <2>3 DEF Laid
  <2> QED
    BY <1>4, <2>2, <2>4 DEF HasRoom, Free
<1>6. Touches(t, cs, w.copies) /\ Sure(cs, R, w.copies, R)
  BY <1>3, <1>4 DEF Laid
<1>7. /\ Fit(t, v, rl, gv, C, F) /\ Touches(t, cs, v.copies) /\ Sure(cs, R, v.copies, R) /\ Says(y, v.tab)
      /\ (y.net # "synced" => v.tab.doc = y.doc)
  <2> DEFINE p == Settle(w, t)
  <2>1. /\ Fit(t, p, rl, gv, C, F) /\ Touches(t, cs, p.copies) /\ Sure(cs, R, p.copies, R) /\ Says(w.tab, p.tab)
        /\ (w.tab.net # "synced" \/ w.tab.restore = <<>> => p.tab.doc = w.tab.doc)
    BY <1>2, <1>4, <1>5, <1>6, CoreSettle DEF C, F, R
  <2> QED
    BY <1>4, <1>a, <2>1
<1>8. v \in World(gv)
  <2>1. Ready(t, v, ToSet(v.tab.restore), gv, C, F)
    BY <1>7 DEF Fit
  <2> QED
    BY <2>1 DEF Ready
<1> QED
  BY <1>7, <1>8 DEF Restored, C, F, R

LEMMA FoundCore ==
  ASSUME NEW M, NEW tb, NEW cs, NEW rl, NEW ty, NEW kp, NEW gv, NEW lg, Core(M, tb, cs, rl, ty, kp, gv, lg),
         NEW st, Once(tb, rl, st, lg), NEW t \in Tabs, tb[t].at # "closed",
         NEW S, NEW y, Restores(tb[t], y, S), NEW v,
         Restored(t, cs, y, v, rl, gv, Clean(M, ty, rl), All(M, ty, rl), Safe(rl, gv)),
         NEW ds, ds = v.copies, NEW z \in TabRec(gv), Alone(v.tab, z), NEW tb2, tb2 = [tb EXCEPT ![t] = z],
         NEW st2, Brings(tb[t], z, rl, st, st2)
  PROVE  Whole(M, tb2, ds, rl, ty, kp, gv, lg, st2)
<1> DEFINE x == tb[t]
           C == Clean(M, ty, rl)
           F == All(M, ty, rl)
           R == Safe(rl, gv)
<1>1. Fit(t, Of(x, cs), rl, gv, C, F) /\ gv \subseteq R
  BY CoreTab
<1>2. x.at # "closed" /\ Restores(x, y, S) /\ Grows(M, rl, ty, gv, M, rl, ty, gv) /\ tb \in [Tabs -> TabRec(gv)]
      /\ One(x, rl, st, lg) /\ Brings(x, z, rl, st, st2)
  BY GrowsNot DEF Core, Once
<1>7. /\ v \in World(gv) /\ Fit(t, v, rl, gv, C, F) /\ Touches(t, cs, v.copies) /\ Sure(cs, R, v.copies, R) /\ Says(y, v.tab)
      /\ (y.net # "synced" => v.tab.doc = y.doc)
  BY DEF Restored
<1> HIDE DEF x, C, F, R
<1> DEFINE u == v.tab
           q == Of(z, ds)
<1>8. Fit(t, Of(u, ds), rl, gv, C, F)
  <2>1. v = Of(u, ds)
    BY <1>7, WorldFields DEF Of
  <2> QED
    BY <1>7, <2>1
<1>9. Alone(u, z) /\ Says(y, u) /\ (y.net # "synced" => u.doc = y.doc)
  BY <1>7
<1> HIDE DEF u
<1>10. u.at # "closed" /\ Flags(u) /\ Truth(u, rl, gv) /\ u.doc \in C
  BY <1>2, <1>8, <1>9, FitMade DEF Says, Restores
<1>11. Flags(z) /\ Truth(z, rl, gv)
  BY <1>9, <1>10, AloneFlags
<1>12. Fit(t, q, rl, gv, C, F) /\ q.tab = z /\ q.copies = ds
  <2>1. z.live = u.live /\ z.doc = u.doc /\ z.offered = u.offered /\ z.restore = u.restore
    BY <1>9 DEF Alone
  <2> QED
    BY <1>8, <1>11, <2>1, TabFit
<1> HIDE DEF q
<1>13. Core(M, tb2, ds, rl, ty, kp, gv, lg)
  <2>1. /\ Fit(t, q, rl, gv, Clean(M, ty, rl), All(M, ty, rl)) /\ Touches(t, cs, q.copies)
        /\ Sure(cs, Safe(rl, gv), q.copies, Safe(rl, gv)) /\ tb2 = [tb EXCEPT ![t] = q.tab] /\ ds = q.copies
    BY <1>7, <1>12 DEF C, F, R
  <2>2. ASSUME NEW a, NEW b, a = [tb EXCEPT ![t] = q.tab], b = q.copies
        PROVE  Core(M, a, b, rl, ty, kp, gv, lg)
    BY <1>2, <2>1, <2>2, CoreTurn
  <2> QED
    BY <2>1, <2>2
<1>14. Once(tb2, rl, st2, lg)
  <2>1. One(y, rl, st, lg)
    BY <1>2 DEF One, Restores, Big, Both
  <2>2. Ours(u.doc, ty, rl)
    BY <1>10 DEF C, Clean
  <2>3. (y.net = "synced" \/ u.doc = y.doc) /\ (y.at = "refused" => y.net = "down")
    <3>1. Flags(x) /\ (y.net = "synced" \/ y.net # "synced")
      BY <1>1, FitTab
    <3> QED
      BY <1>2, <1>9, <3>1 DEF Flags, Restores
  <2>4. st \subseteq st2 /\ \A e \in Edits : <<e, "typed">> \in u.doc.has \ y.doc.has /\ <<e, "rebased">> \in rl.has => e \in st2
    BY <1>2, <1>9 DEF Brings, Restores, Alone
  <2>5. One(u, rl, st2, lg)
    BY <1>9, <2>1, <2>2, <2>3, <2>4, OneMerged
  <2>6. One(z, rl, st2, lg)
    BY <1>9, <2>5, AloneOne
  <2> QED
    BY <1>2, <2>4, <2>6, OnceStep
<1> QED
  BY <1>13, <1>14 DEF Whole

LEMMA ClaimedOf ==
  ASSUME NEW x, NEW cs, NEW t, NEW S
  PROVE  Claimed(Of(x, cs), t, S) = Of(x, Taken(cs, t, S))
<1> DEFINE w == Of(x, cs)
           ds == [c \in Copies |-> IF c \notin S THEN w.copies[c]
                    ELSE LET d == CHOOSE d \in w.copies[c].disk : TRUE
                         IN [w.copies[c] EXCEPT !.by = {t}, !.mem = d, !.end = IF d.has = {} THEN "release" ELSE "none"]]
<1>1. Claimed(w, t, S) = [w EXCEPT !.copies = ds]
  BY DEF Claimed
<1>2. w = [tab |-> x, copies |-> cs] /\ w.copies = cs
  BY DEF Of
<1>3. ds = Taken(cs, t, S)
  <2> HIDE DEF w
  <2> QED
    BY <1>2 DEF Taken, ClaimedCopy
<1> HIDE DEF ds
<1>4. [w EXCEPT !.copies = ds] = [tab |-> x, copies |-> ds]
  BY <1>2
<1> QED
  BY <1>1, <1>3, <1>4 DEF Of

\* One after the other, of different copies.
LEMMA Joined ==
  ASSUME NEW a \in Seq(Copies), NEW b \in Seq(Copies), Distinct(a), Distinct(b), ToSet(a) \cap ToSet(b) = {}, a # <<>> \/ b # <<>>
  PROVE  /\ a \o b \in Seq(Copies) /\ a \o b # <<>> /\ Distinct(a \o b) /\ ToSet(a \o b) = ToSet(a) \cup ToSet(b)
         /\ (a \o b)[1] = IF a # <<>> THEN a[1] ELSE b[1]
<1> DEFINE s == a \o b
<1>1. /\ s \in Seq(Copies) /\ Len(s) = Len(a) + Len(b) /\ Len(a) \in Nat /\ Len(b) \in Nat
      /\ \A i \in 1 .. Len(a) : s[i] = a[i]
      /\ \A i \in (Len(a) + 1) .. (Len(a) + Len(b)) : s[i] = b[i - Len(a)]
  OBVIOUS
<1>2. (Len(a) = 0 <=> a = <<>>) /\ (Len(b) = 0 <=> b = <<>>)
  BY Members
<1>3. \A i \in 1 .. Len(s) : IF i <= Len(a) THEN i \in 1 .. Len(a) /\ s[i] = a[i]
                             ELSE i - Len(a) \in 1 .. Len(b) /\ s[i] = b[i - Len(a)]
  <2>1. ASSUME NEW i \in 1 .. Len(s), i <= Len(a) PROVE i \in 1 .. Len(a) /\ s[i] = a[i]
    BY <1>1, <2>1
  <2>2. ASSUME NEW i \in 1 .. Len(s), ~(i <= Len(a)) PROVE i - Len(a) \in 1 .. Len(b) /\ s[i] = b[i - Len(a)]
    <3>1. i \in (Len(a) + 1) .. (Len(a) + Len(b)) /\ i - Len(a) \in 1 .. Len(b)
      BY <1>1, <2>2
    <3> QED
      BY <1>1, <3>1
  <2> QED
    BY <2>1, <2>2
<1>4. \A i \in 1 .. Len(a) : i \in 1 .. Len(s) /\ s[i] = a[i]
  BY <1>1
<1>5. ASSUME NEW j \in 1 .. Len(b) PROVE Len(a) + j \in 1 .. Len(s) /\ s[Len(a) + j] = b[j]
  <2>1. Len(a) + j \in (Len(a) + 1) .. (Len(a) + Len(b)) /\ (Len(a) + j) - Len(a) = j /\ Len(a) + j \in 1 .. Len(s)
    BY <1>1
  <2> QED
    BY <1>1, <2>1
<1> HIDE DEF s
<1>6. ToSet(s) = {s[i] : i \in 1 .. Len(s)} /\ ToSet(a) = {a[i] : i \in 1 .. Len(a)} /\ ToSet(b) = {b[i] : i \in 1 .. Len(b)}
  BY <1>1, Members
<1>7. ToSet(s) = ToSet(a) \cup ToSet(b)
  <2>1. ToSet(s) \subseteq ToSet(a) \cup ToSet(b)
    BY <1>3, <1>6
  <2>2. ToSet(a) \subseteq ToSet(s) /\ ToSet(b) \subseteq ToSet(s)
    BY <1>4, <1>5, <1>6
  <2> QED
    BY <2>1, <2>2
<1>8. Distinct(s)
  <2>1. SUFFICES ASSUME NEW i \in 1 .. Len(s), NEW j \in 1 .. Len(s), s[i] = s[j] PROVE i = j
    BY DEF Distinct
  <2>2. CASE i <= Len(a) /\ j <= Len(a)
    BY <1>3, <2>1, <2>2 DEF Distinct
  <2>3. CASE ~(i <= Len(a)) /\ ~(j <= Len(a))
    <3>1. i - Len(a) = j - Len(a)
      BY <1>3, <2>1, <2>3 DEF Distinct
    <3> QED
      BY <1>1, <3>1
  <2>4. CASE i <= Len(a) /\ ~(j <= Len(a))
    <3>1. s[i] \in ToSet(a) /\ s[j] \in ToSet(b)
      BY <1>3, <1>6, <2>4
    <3> QED
      BY <2>1, <3>1
  <2>5. CASE ~(i <= Len(a)) /\ j <= Len(a)
    <3>1. s[j] \in ToSet(a) /\ s[i] \in ToSet(b)
      BY <1>3, <1>6, <2>5
    <3> QED
      BY <2>1, <3>1
  <2> QED
    BY <2>2, <2>3, <2>4, <2>5
<1>9. s # <<>>
  BY <1>1, <1>2, Members
<1>10. s[1] = IF a # <<>> THEN a[1] ELSE b[1]
  <2>1. CASE a # <<>>
    <3>1. 1 \in 1 .. Len(a)
      BY <1>1, <1>2, <2>1
    <3> QED
      BY <1>4, <2>1, <3>1
  <2>2. CASE a = <<>>
    <3>1. 1 \in 1 .. Len(b) /\ Len(a) = 0
      BY <1>1, <1>2, <2>2
    <3> QED
      BY <1>5, <2>2, <3>1
  <2> QED
    BY <2>1, <2>2
<1> QED
  BY <1>1, <1>7, <1>8, <1>9, <1>10 DEF s

LEMMA OrderOf ==
  ASSUME NEW S \in SUBSET Copies, NEW order \in SetToSeqs(S)
  PROVE  /\ order \in Seq(Copies) /\ ToSet(order) \subseteq S /\ Distinct(order)
         /\ (S # {} => order # <<>> /\ order[1] \in S)
<1>1. IsFiniteSet(S)
  <2>1. IsFiniteSet(1 .. MaxCopies)
    BY CopiesAssumption, FS_Interval
  <2> QED
    BY <2>1, FS_Subset DEF Copies
<1>2. Cardinality(S) \in Nat /\ (Cardinality(S) = 0 <=> S = {})
  BY <1>1, FS_CardinalityType, FS_EmptySet
<1> DEFINE n == Cardinality(S)
<1>3. n \in Nat /\ order \in [1 .. n -> S] /\ \A i \in 1 .. n : \A j \in 1 .. n : i # j => order[i] # order[j]
  BY <1>2 DEF SetToSeqs
<1>4. n = 0 <=> S = {}
  BY <1>2
<1> HIDE DEF n
<1>5. order \in Seq(Copies) /\ Len(order) = n
  <2>1. order \in [1 .. n -> Copies]
    BY <1>3
  <2> QED
    BY <1>3, <2>1
<1>6. ToSet(order) = {order[i] : i \in 1 .. Len(order)} /\ (order = <<>> <=> Len(order) = 0)
  BY <1>5, Members
<1>7. Distinct(order)
  BY <1>3, <1>5 DEF Distinct
<1>8. S # {} => order # <<>> /\ order[1] \in S
  BY <1>3, <1>4, <1>5, <1>6
<1> QED
  BY <1>3, <1>5, <1>6, <1>7, <1>8

\* Changes of a world's tab, one after the other.
LEMMA LookedWorld ==
  ASSUME NEW gv, NEW m \in World(gv), NEW watch
  PROVE  [m EXCEPT !.tab.looked = TRUE, !.tab.watch = watch] = Of([m.tab EXCEPT !.looked = TRUE, !.watch = watch], m.copies)
<1> DEFINE x == m.tab
           cs == m.copies
           yes == TRUE
<1>1. m = [tab |-> x, copies |-> cs] /\ x \in TabRec(gv) /\ m.tab = x /\ m \in World(gv)
  BY WorldFields
<1> HIDE DEF x, cs, yes
<1>2. [m EXCEPT !.tab.looked = yes, !.tab.watch = watch] = [m EXCEPT !.tab = [x EXCEPT !.looked = yes, !.watch = watch]]
  BY <1>1 DEF World, TabRec
<1>3. [m EXCEPT !.tab = [x EXCEPT !.looked = yes, !.watch = watch]] = [tab |-> [x EXCEPT !.looked = yes, !.watch = watch], copies |-> cs]
  BY <1>1
<1> QED
  BY <1>2, <1>3 DEF Of, x, cs, yes

Restoring(m, order, f) == [Unsent(m) EXCEPT !.tab.restore = order \o @, !.tab.shown = f]
ToRestore(m, order, f) == Of([m.tab EXCEPT !.unsynced = TRUE, !.restore = order \o m.tab.restore, !.shown = f], m.copies)
LEMMA RestoreWorld ==
  ASSUME NEW gv, NEW m \in World(gv), NEW order, NEW f
  PROVE  /\ Restoring(m, order, f) = ToRestore(m, order, f)
         /\ [Unsent(m) EXCEPT !.tab.restore = Append(@, f)]
              = Of([m.tab EXCEPT !.unsynced = TRUE, !.restore = Append(m.tab.restore, f)], m.copies)
<1> DEFINE x == m.tab
           cs == m.copies
           yes == TRUE
           y == [x EXCEPT !.unsynced = yes]
           n == Unsent(m)
           a == order \o y.restore
           b == Append(y.restore, f)
<1>1. m = [tab |-> x, copies |-> cs] /\ x \in TabRec(gv) /\ m.tab = x /\ m \in World(gv) /\ yes \in BOOLEAN
  BY WorldFields
<1>2. n = [m EXCEPT !.tab.unsynced = yes]
  BY DEF Unsent
<1> HIDE DEF x, cs, yes, n
<1>3. n = [m EXCEPT !.tab = y]
  BY <1>1, <1>2 DEF World, TabRec
<1>4. y \in TabRec(gv) /\ y.restore = x.restore
  BY <1>1 DEF TabRec
<1>z. \A z : [x EXCEPT !.unsynced = yes, !.restore = z] = [y EXCEPT !.restore = z]
  BY <1>1 DEF TabRec
<1>y. \A z : [x EXCEPT !.unsynced = yes, !.restore = z, !.shown = f] = [y EXCEPT !.restore = z, !.shown = f]
  BY <1>1 DEF TabRec
<1> HIDE DEF y
<1>5. n = [tab |-> y, copies |-> cs]
  BY <1>1, <1>3
<1>6. n \in World(gv) /\ n.tab = y /\ n.copies = cs
  BY <1>1, <1>4, <1>5 DEF World
<1>7. n.tab.restore = y.restore /\ order \o n.tab.restore = a /\ Append(n.tab.restore, f) = b
  BY <1>6
<1> HIDE DEF a, b
<1>8. [n EXCEPT !.tab.restore = a, !.tab.shown = f] = [n EXCEPT !.tab = [y EXCEPT !.restore = a, !.shown = f]]
  BY <1>4, <1>6 DEF World, TabRec
<1>9. [n EXCEPT !.tab.restore = b] = [n EXCEPT !.tab = [y EXCEPT !.restore = b]]
  BY <1>4, <1>6 DEF World, TabRec
<1>10. [n EXCEPT !.tab = [y EXCEPT !.restore = a, !.shown = f]] = Of([y EXCEPT !.restore = a, !.shown = f], cs)
       /\ [n EXCEPT !.tab = [y EXCEPT !.restore = b]] = Of([y EXCEPT !.restore = b], cs)
  BY <1>5 DEF Of
<1>11. [n EXCEPT !.tab.restore = order \o @, !.tab.shown = f] = [n EXCEPT !.tab.restore = a, !.tab.shown = f]
       /\ [n EXCEPT !.tab.restore = Append(@, f)] = [n EXCEPT !.tab.restore = b]
  BY <1>7
<1>12. a = order \o x.restore /\ b = Append(x.restore, f)
  BY <1>4 DEF a, b
<1>13. [n EXCEPT !.tab.restore = order \o @, !.tab.shown = f] = Of([x EXCEPT !.unsynced = yes, !.restore = a, !.shown = f], cs)
       /\ [n EXCEPT !.tab.restore = Append(@, f)] = Of([x EXCEPT !.unsynced = yes, !.restore = b], cs)
  BY <1>8, <1>9, <1>10, <1>11, <1>z, <1>y
<1> QED
  BY <1>12, <1>13 DEF n, x, cs, yes, Restoring, ToRestore

LEMMA LookCore ==
  ASSUME NEW M, Core(M, tab, copies, relay, typed, kept, given, large), Once(tab, relay, stale, large), NEW t \in Tabs, LookForCopies(t)
  PROVE  Core(M, tab', copies', relay', typed', kept', given', large') /\ Once(tab', relay', stale', large')
<1> DEFINE x == tab[t]
           left == {c \in Copies : copies[c].disk # {} /\ copies[c].by = {}}
           found == {c \in left : Worth(c)}
           cs == Taken(copies, t, left)
           w == Claimed(Now(t), t, left)
           watched == {c \in Copies : copies[c].disk # {} /\ copies[c].by # {}}
           Meeting(order) == Settle([Unsent(w) EXCEPT !.tab.restore = order \o @, !.tab.shown = order[1]], t)
           yes == TRUE
<1>1. PICK order \in SetToSeqs(found) :
        LET met == IF found = {} THEN w ELSE Meeting(order)
        IN Become(t, [met EXCEPT !.tab.looked = TRUE, !.tab.watch = watched])
  BY DEF LookForCopies
<1>2. w = Of(x, cs)
  <2> DEFINE n == Now(t)
  <2>1. n = Of(x, copies)
    BY DEF Now, Of
  <2> HIDE DEF n, x, left
  <2>2. Claimed(n, t, left) = Of(x, Taken(copies, t, left))
    BY <2>1, ClaimedOf
  <2> QED
    BY <2>2 DEF n
<1>3. left \in SUBSET Copies /\ Idle(copies, left) /\ found = Found(copies, left) /\ found \in SUBSET Copies /\ watched \in SUBSET Copies
      /\ yes \in BOOLEAN /\ yes = TRUE
  BY DEF Idle, Found, Worth
<1>4. /\ x \in TabRec(given) /\ Flags(x) /\ Fit(t, Of(x, copies), relay, given, Clean(M, typed, relay), All(M, typed, relay))
      /\ tab \in [Tabs -> TabRec(given)] /\ x.at # "closed" /\ Free(copies) # {}
  <2>1. tab \in [Tabs -> TabRec(given)]
    BY DEF Core
  <2>2. x.at # "closed" /\ Free(copies) # {}
    BY DEF LookForCopies, Room
  <2> QED
    BY <2>1, <2>2, CoreTab, FitTab
<1>5. stale' = stale \cup Back(x.doc, tab'[t].doc)
  BY DEF LookForCopies
<1>w. w = [tab |-> x, copies |-> cs]
  BY <1>2 DEF Of
<1>l. Laid(t, x, copies, left, cs, Safe(relay, given), given, All(M, typed, relay))
  <2> HIDE DEF x, left
  <2>1. given \subseteq Safe(relay, given)
    BY CoreTab
  <2> QED
    BY <1>3, <1>4, <2>1, TakenLaid
<1> HIDE DEF w, left, found, watched, cs
<1>v. w \in World(given) /\ w.tab = x /\ w.copies = cs
  <2>1. cs \in [Copies -> CopyRec(given)]
    BY <1>l DEF Laid, Good
  <2> HIDE DEF x
  <2> QED
    BY <1>w, <1>4, <2>1 DEF World
<1>6. CASE found = {}
  <2> DEFINE z == [x EXCEPT !.looked = yes, !.watch = watched]
  <2>1. [w EXCEPT !.tab.looked = TRUE, !.tab.watch = watched] = Of(z, cs)
    <3> HIDE DEF x
    <3> QED
      BY <1>v, LookedWorld
  <2>2. tab' = [tab EXCEPT ![t] = z] /\ copies' = cs
    BY <1>1, <1>6, <2>1 DEF Become, Of
  <2>3. z \in TabRec(given) /\ Alone(x, z)
    <3> HIDE DEF x, yes
    <3> QED
      BY <1>3, <1>4 DEF TabRec, Alone
  <2> DEFINE tb2 == tab'
             st2 == stale'
             ds == cs
  <2>4. /\ tb2 = [tab EXCEPT ![t] = z] /\ ds = Taken(copies, t, left) /\ stale \subseteq st2 /\ tab[t].at # "closed" /\ Alone(tab[t], z)
    BY <1>4, <1>5, <2>2, <2>3 DEF cs
  <2> HIDE DEF tb2, st2, ds, z, x
  <2>5. Whole(M, tb2, ds, relay, typed, kept, given, large, st2)
    BY <1>3, <2>3, <2>4, TakenCore
  <2> QED
    BY <2>2, <2>5 DEF LookForCopies, Whole, tb2, st2, ds
<1>7. CASE found # {}
  <2> DEFINE a == order \o x.restore
             f == order[1]
             y == [x EXCEPT !.unsynced = yes, !.restore = a, !.shown = f]
             u == Of(y, cs)
             v == Settle(u, t)
  <2>1. order \in Seq(Copies) /\ ToSet(order) \subseteq found /\ Distinct(order) /\ order # <<>> /\ f \in found
    BY <1>3, <1>7, OrderOf
  <2>2. x.restore \in Seq(Copies) /\ Distinct(x.restore)
    <3> HIDE DEF x
    <3> QED
      BY <1>4 DEF TabRec, Flags
  <2>3. a \in Seq(Copies) /\ a # <<>> /\ Distinct(a) /\ ToSet(a) = ToSet(order) \cup ToSet(x.restore) /\ a[1] = f
    <3>1. ToSet(order) \cap ToSet(x.restore) = {}
      BY <1>3, <1>l, <2>1 DEF Laid
    <3> DEFINE b == x.restore
    <3>2. b \in Seq(Copies) /\ Distinct(b) /\ ToSet(order) \cap ToSet(b) = {} /\ (order # <<>> \/ b # <<>>)
      BY <2>1, <2>2, <3>1
    <3> HIDE DEF b
    <3>3. /\ order \o b \in Seq(Copies) /\ order \o b # <<>> /\ Distinct(order \o b) /\ ToSet(order \o b) = ToSet(order) \cup ToSet(b)
          /\ (order \o b)[1] = IF order # <<>> THEN order[1] ELSE b[1]
      BY <2>1, <3>2, Joined
    <3> QED
      BY <2>1, <3>3 DEF b
  <2>m. [Unsent(w) EXCEPT !.tab.restore = order \o @, !.tab.shown = order[1]] = u
    <3> HIDE DEF x, f
    <3>1. Restoring(w, order, f) = ToRestore(w, order, f)
      BY <1>v, RestoreWorld
    <3>2. ToRestore(w, order, f) = u
      BY <1>v DEF ToRestore
    <3> QED
      BY <3>1, <3>2 DEF f, Restoring
  <2>4. /\ y \in TabRec(given) /\ y.live = x.live /\ y.doc = x.doc /\ y.offered = x.offered /\ y.at = x.at /\ y.net = x.net
        /\ y.acked = x.acked /\ y.unsynced /\ y.restore = a /\ y.shown = f
    <3>1. f \in Copies \cup {0}
      BY <1>3, <2>1
    <3> HIDE DEF x, a, f
    <3> QED
      BY <1>3, <1>4, <2>3, <3>1 DEF TabRec
  <2>5. Restores(x, y, Found(copies, left))
    <3> HIDE DEF x, y, a, f
    <3> QED
      BY <1>3, <2>1, <2>3, <2>4 DEF Restores
  <2> HIDE DEF y
  <2> DEFINE z == [v.tab EXCEPT !.looked = yes, !.watch = watched]
  <2>6. Become(t, [v EXCEPT !.tab.looked = yes, !.tab.watch = watched])
    BY <1>1, <1>7, <2>m
  <2>7. Restored(t, copies, y, v, relay, given, Clean(M, typed, relay), All(M, typed, relay), Safe(relay, given))
    <3>1. Restores(tab[t], y, Found(copies, left)) /\ tab[t].at # "closed" /\ v = Settle(Of(y, Taken(copies, t, left)), t)
      BY <1>4, <2>5 DEF cs
    <3> HIDE DEF v, x
    <3> QED
      BY <1>3, <1>4, <2>4, <3>1, FoundSettles
  <2> HIDE DEF v
  <2>8. v \in World(given) /\ v.tab \in TabRec(given) /\ v = [tab |-> v.tab, copies |-> v.copies]
    BY <2>7, WorldFields DEF Restored
  <2> DEFINE p == v.tab
             es == v.copies
  <2>9. z \in TabRec(given) /\ Alone(p, z) /\ z.doc = p.doc
    <3>1. p \in TabRec(given) /\ z = [p EXCEPT !.looked = yes, !.watch = watched]
      BY <2>8
    <3> HIDE DEF p, z, yes
    <3> QED
      BY <1>3, <3>1 DEF TabRec, Alone
  <2>10. tab' = [tab EXCEPT ![t] = z] /\ copies' = es
    <3>1. [v EXCEPT !.tab.looked = TRUE, !.tab.watch = watched] = Of(z, es)
      BY <2>8, LookedWorld
    <3> QED
      BY <2>6, <3>1 DEF Become, Of
  <2> HIDE DEF z
  <2> DEFINE tb2 == tab'
             st2 == stale'
             ds == es
  <2>11. Brings(tab[t], z, relay, stale, st2) /\ tb2 = [tab EXCEPT ![t] = z] /\ ds = v.copies /\ Alone(v.tab, z)
         /\ Restores(tab[t], y, Found(copies, left)) /\ tab[t].at # "closed"
    <3>1. tab'[t] = z
      BY <1>4, <2>10
    <3>2. Brings(tab[t], z, relay, stale, st2)
      BY <1>5, <3>1 DEF Brings, Back
    <3> QED
      BY <1>4, <2>5, <2>9, <2>10, <3>2
  <2> HIDE DEF tb2, st2, ds, x
  <2>12. Whole(M, tb2, ds, relay, typed, kept, given, large, st2)
    BY <2>7, <2>9, <2>11, FoundCore
  <2> QED
    BY <2>10, <2>12 DEF LookForCopies, Whole, tb2, st2, ds
<1> QED
  BY <1>6, <1>7

LEMMA ClaimLateCore ==
  ASSUME NEW M, Core(M, tab, copies, relay, typed, kept, given, large), Once(tab, relay, stale, large), NEW t \in Tabs, NEW c \in Copies,
         ClaimLate(t, c)
  PROVE  Core(M, tab', copies', relay', typed', kept', given', large') /\ Once(tab', relay', stale', large')
<1> DEFINE o == tab[t]
           less == o.watch \ {c}
           x == [o EXCEPT !.watch = less]
           w == [Now(t) EXCEPT !.tab.watch = @ \ {c}]
           S == IF copies[c].disk = {} THEN {} ELSE {c}
           cs == Taken(copies, t, S)
           claimed == Claimed(w, t, {c})
<1>1. Become(t, IF copies[c].disk = {} THEN w
                ELSE IF ~Worth(c) THEN claimed
                ELSE Settle([Unsent(claimed) EXCEPT !.tab.restore = Append(@, c)], t))
  BY DEF ClaimLate
<1>4. /\ o \in TabRec(given) /\ Flags(o) /\ Fit(t, Of(o, copies), relay, given, Clean(M, typed, relay), All(M, typed, relay))
      /\ tab \in [Tabs -> TabRec(given)] /\ o.at # "closed" /\ Free(copies) # {} /\ copies[c].by = {}
      /\ copies \in [Copies -> CopyRec(given)]
  <2>1. tab \in [Tabs -> TabRec(given)]
    BY DEF Core
  <2>2. o.at # "closed" /\ Free(copies) # {} /\ copies[c].by = {}
    BY DEF ClaimLate, Room
  <2> QED
    BY <2>1, <2>2, CoreTab, FitTab
<1>5. stale' = stale \cup Back(o.doc, tab'[t].doc)
  BY DEF ClaimLate
<1>w. w = Of(x, copies)
  BY DEF Now, Of
<1>x. x \in TabRec(given) /\ Alone(o, x) /\ x.restore = o.restore /\ x.watch = less
  <2>1. less \subseteq Copies
    <3> HIDE DEF o
    <3> QED
      BY <1>4 DEF TabRec
  <2> HIDE DEF o, less
  <2> QED
    BY <1>4, <2>1 DEF TabRec, Alone
<1>3. S \in SUBSET Copies /\ Idle(copies, S) /\ Found(copies, S) = IF Worth(c) THEN {c} ELSE {}
  BY <1>4 DEF Idle, Found, Worth
<1>6. CASE ~Worth(c)
  <2>1. tab' = [tab EXCEPT ![t] = x] /\ copies' = cs
    <3>1. CASE copies[c].disk = {}
      <4>1. cs = copies
        <5>1. cs = [k \in Copies |-> copies[k]]
          BY <3>1 DEF Taken
        <5> QED
          BY <1>4, <5>1
      <4>2. Become(t, w)
        BY <1>1, <3>1
      <4> HIDE DEF cs, w, x
      <4> QED
        BY <1>w, <4>1, <4>2 DEF Become, Of
    <3>2. CASE copies[c].disk # {}
      <4>1. claimed = Of(x, Taken(copies, t, {c})) /\ S = {c}
        <5>1. claimed = Claimed(w, t, {c}) /\ S = {c}
          BY <3>2
        <5> HIDE DEF claimed, w, x, S
        <5> QED
          BY <1>w, <5>1, ClaimedOf
      <4>2. Become(t, claimed)
        BY <1>1, <1>6, <3>2
      <4> HIDE DEF claimed, x, S, w
      <4> QED
        BY <4>1, <4>2 DEF Become, Of
    <3> QED
      BY <3>1, <3>2
  <2> DEFINE tb2 == tab'
             st2 == stale'
             ds == cs
  <2>4. /\ tb2 = [tab EXCEPT ![t] = x] /\ ds = Taken(copies, t, S) /\ stale \subseteq st2 /\ tab[t].at # "closed" /\ Alone(tab[t], x)
    BY <1>4, <1>5, <1>x, <2>1 DEF cs
  <2> HIDE DEF tb2, st2, ds, x, S
  <2>5. Whole(M, tb2, ds, relay, typed, kept, given, large, st2)
    BY <1>3, <1>x, <2>4, TakenCore
  <2> QED
    BY <2>1, <2>5 DEF ClaimLate, Whole, tb2, st2, ds
<1>7. CASE Worth(c)
  <2> DEFINE yes == TRUE
             a == Append(x.restore, c)
             y == [x EXCEPT !.unsynced = yes, !.restore = a]
             u == Of(y, cs)
             v == Settle(u, t)
  <2>0. S = {c} /\ copies[c].disk # {} /\ Found(copies, S) = {c} /\ yes \in BOOLEAN /\ yes = TRUE
    BY <1>3, <1>7 DEF Worth
  <2>l. Laid(t, o, copies, S, cs, Safe(relay, given), given, All(M, typed, relay))
    <3> HIDE DEF o, S
    <3>1. given \subseteq Safe(relay, given)
      BY CoreTab
    <3> QED
      BY <1>3, <1>4, <3>1, TakenLaid
  <2>m. [Unsent(claimed) EXCEPT !.tab.restore = Append(@, c)] = u
    <3>1. claimed = Of(x, cs)
      <4>1. claimed = Claimed(w, t, {c}) /\ cs = Taken(copies, t, {c})
        BY <2>0
      <4> HIDE DEF claimed, w, x, cs
      <4> QED
        BY <1>w, <4>1, ClaimedOf
    <3> HIDE DEF claimed, x, cs
    <3>2. claimed \in World(given) /\ claimed.tab = x /\ claimed.copies = cs
      <4>1. cs \in [Copies -> CopyRec(given)]
        BY <2>l DEF Laid, Good
      <4> QED
        BY <1>x, <3>1, <4>1 DEF World, Of
    <3>3. [Unsent(claimed) EXCEPT !.tab.restore = Append(@, c)]
            = Of([claimed.tab EXCEPT !.unsynced = TRUE, !.restore = Append(claimed.tab.restore, c)], claimed.copies)
      BY <3>2, RestoreWorld
    <3> QED
      BY <3>2, <3>3
  <2>2. x.restore \in Seq(Copies) /\ Distinct(x.restore) /\ (x.restore = <<>> => x.shown = 0) /\ (x.shown # 0 => x.shown = x.restore[1])
    <3> HIDE DEF x, o
    <3> QED
      BY <1>4, <1>x DEF TabRec, Flags, Alone
  <2>3. a \in Seq(Copies) /\ a # <<>> /\ Distinct(a) /\ ToSet(a) = ToSet(x.restore) \cup {c} /\ (x.restore # <<>> => a[1] = x.restore[1])
    <3> DEFINE b == x.restore
               e == <<c>>
    <3>1. b \in Seq(Copies) /\ Distinct(b) /\ a = b \o e /\ e # <<>>
      BY <2>2
    <3>2. e \in Seq(Copies) /\ Len(e) = 1 /\ e[1] = c
      OBVIOUS
    <3>3. c \notin ToSet(b)
      <4>1. Found(copies, S) \cap ToSet(o.restore) = {}
        BY <2>l DEF Laid
      <4> HIDE DEF x, o, S
      <4> QED
        BY <1>x, <2>0, <4>1
    <3> HIDE DEF a, b, e
    <3>4. ToSet(e) = {c} /\ Distinct(e)
      <4>1. ToSet(e) = {e[i] : i \in 1 .. Len(e)}
        BY <3>2, Members
      <4>2. 1 .. Len(e) = {1}
        BY <3>2
      <4> QED
        BY <3>2, <4>1, <4>2 DEF Distinct
    <3>5. ToSet(b) \cap ToSet(e) = {}
      BY <3>3, <3>4
    <3>6. /\ b \o e \in Seq(Copies) /\ b \o e # <<>> /\ Distinct(b \o e) /\ ToSet(b \o e) = ToSet(b) \cup ToSet(e)
          /\ (b \o e)[1] = IF b # <<>> THEN b[1] ELSE e[1]
      BY <3>1, <3>2, <3>4, <3>5, Joined
    <3> QED
      BY <3>1, <3>4, <3>6 DEF b
  <2>4. /\ y \in TabRec(given) /\ y.live = x.live /\ y.doc = x.doc /\ y.offered = x.offered /\ y.at = x.at /\ y.net = x.net
        /\ y.acked = x.acked /\ y.unsynced /\ y.restore = a /\ y.shown = x.shown
    <3> HIDE DEF x, a
    <3> QED
      BY <1>x, <2>0, <2>3 DEF TabRec
  <2>5. Restores(o, y, Found(copies, S))
    <3>1. y.shown # 0 => y.shown = y.restore[1]
      <4> HIDE DEF x, y, a
      <4> QED
        BY <2>2, <2>3, <2>4
    <3> HIDE DEF x, y, a, o, S
    <3> QED
      BY <1>x, <2>0, <2>3, <2>4, <3>1 DEF Restores, Alone
  <2> HIDE DEF y
  <2>6. Become(t, v)
    BY <1>1, <1>7, <2>0, <2>m
  <2>7. Restored(t, copies, y, v, relay, given, Clean(M, typed, relay), All(M, typed, relay), Safe(relay, given))
    <3>1. Restores(tab[t], y, Found(copies, S)) /\ tab[t].at # "closed" /\ v = Settle(Of(y, Taken(copies, t, S)), t)
      BY <1>4, <2>5
    <3> HIDE DEF v, x, S, o
    <3> QED
      BY <1>3, <1>4, <2>4, <3>1, FoundSettles
  <2> HIDE DEF v
  <2> DEFINE z == v.tab
             es == v.copies
             tb2 == tab'
             st2 == stale'
             ds == es
  <2>9. z \in TabRec(given) /\ Alone(v.tab, z)
    BY <2>7, WorldFields DEF Restored, Alone
  <2>10. tab' = [tab EXCEPT ![t] = z] /\ copies' = es
    BY <2>6 DEF Become
  <2> HIDE DEF z
  <2>11. Brings(tab[t], z, relay, stale, st2) /\ tb2 = [tab EXCEPT ![t] = z] /\ ds = v.copies
         /\ Restores(tab[t], y, Found(copies, S)) /\ tab[t].at # "closed"
    <3>1. tab'[t] = z
      BY <1>4, <2>10
    <3>2. Brings(tab[t], z, relay, stale, st2)
      BY <1>5, <3>1 DEF Brings, Back
    <3> QED
      BY <1>4, <2>5, <2>10, <3>2
  <2> DEFINE S1 == Found(copies, S)
  <2> HIDE DEF tb2, st2, ds, x, o, S1
  <2>12. Restores(tab[t], y, S1)
    BY <2>11 DEF S1
  <2>13. Whole(M, tb2, ds, relay, typed, kept, given, large, st2)
    BY <2>7, <2>9, <2>11, <2>12, FoundCore
  <2> QED
    BY <2>10, <2>13 DEF ClaimLate, Whole, tb2, st2, ds
<1> QED
  BY <1>6, <1>7

\* The relay after a rebase: the same text, of other items.
Rebased(rl, sl, es) ==
  /\ es \subseteq {e \in Edits : <<e, "typed">> \in rl.has \ rl.cut}
  /\ sl.has = (rl.has \ (es \X {"typed"})) \cup (es \X {"rebased"}) /\ sl.cut = rl.cut

LEMMA RebasedText ==
  ASSUME NEW gv, NEW rl \in Docs(gv), NEW sl, NEW es, Rebased(rl, sl, es)
  PROVE  Text(sl) = Text(rl) /\ es \subseteq Text(rl)
<1>1. /\ es \subseteq {e \in Edits : <<e, "typed">> \in rl.has \ rl.cut} /\ rl.cut \subseteq Large \X {"typed"}
      /\ sl.has = (rl.has \ (es \X {"typed"})) \cup (es \X {"rebased"}) /\ sl.cut = rl.cut
  BY DocFields DEF Rebased
<1>2. \A e \in es : e \in Text(rl)
  <2>1. ASSUME NEW e \in es PROVE e \in Text(rl)
    <3>1. <<e, "typed">> \in rl.has \ rl.cut /\ <<e, "typed">>[1] = e
      BY <1>1
    <3> QED
      BY <3>1, TextIs
  <2> QED
    BY <2>1
<1>3. ASSUME NEW e \in Text(sl) PROVE e \in Text(rl)
  <2>1. PICK i \in sl.has \ sl.cut : i[1] = e
    BY TextIs
  <2>2. CASE i \in es \X {"rebased"}
    BY <1>2, <2>1, <2>2
  <2>3. CASE i \in rl.has
    BY <1>1, <2>1, <2>3, TextIs
  <2> QED
    BY <1>1, <2>1, <2>2, <2>3
<1>4. ASSUME NEW e \in Text(rl) PROVE e \in Text(sl)
  <2>1. PICK i \in rl.has \ rl.cut : i[1] = e
    BY TextIs
  <2>2. CASE i \in es \X {"typed"}
    <3>1. e \in es
      BY <2>1, <2>2
    <3>2. <<e, "rebased">> \in es \X {"rebased"} /\ <<e, "rebased">>[1] = e /\ <<e, "rebased">> \notin Large \X {"typed"}
      BY <3>1
    <3> QED
      BY <1>1, <3>2, TextIs
  <2>3. CASE i \notin es \X {"typed"}
    BY <1>1, <2>1, <2>3, TextIs
  <2> QED
    BY <2>2, <2>3
<1> QED
  BY <1>2, <1>3, <1>4

LEMMA RebasedGrows ==
  ASSUME NEW M, NEW tb, NEW cs, NEW rl, NEW ty, NEW kp, NEW gv, NEW lg, Core(M, tb, cs, rl, ty, kp, gv, lg),
         NEW sl, sl = [has |-> sl.has, cut |-> sl.cut], NEW es, Rebased(rl, sl, es)
  PROVE  Grows(M, rl, ty, gv, M, sl, ty, gv)
<1>1. /\ rl \in Docs(gv) /\ rl \in Clean(M, ty, rl) /\ (\A i \in rl.has : i[2] = "rebased" => i[1] \in Edits)
      /\ ty \subseteq Edits /\ gv \subseteq Texts /\ Marks(M, ty)
  BY DEF Core
<1>2. /\ es \subseteq {e \in Edits : <<e, "typed">> \in rl.has \ rl.cut} /\ rl.cut \subseteq Large \X {"typed"}
      /\ sl.has = (rl.has \ (es \X {"typed"})) \cup (es \X {"rebased"}) /\ sl.cut = rl.cut
      /\ rl.has \subseteq Texts \X {"typed", "rebased", "offered"} /\ \A i \in rl.cut : i[1] \in gv
  BY <1>1, DocFields DEF Rebased
<1>3. sl.has \subseteq Texts \X {"typed", "rebased", "offered"}
  BY <1>2 DEF Texts
<1>4. sl \in Docs(gv)
  <2> DEFINE h == sl.has
             k == sl.cut
  <2>1. h \subseteq Texts \X {"typed", "rebased", "offered"} /\ k \subseteq Large \X {"typed"} /\ \A i \in k : i[1] \in gv
    BY <1>2, <1>3
  <2> HIDE DEF h, k
  <2>2. [has |-> h, cut |-> k] \in Docs(gv)
    BY <2>1, DocMade
  <2> QED
    BY <2>2 DEF h, k
<1>5. sl \in Clean(M, ty, sl)
  <2>1. Ours(rl, ty, rl) /\ rl.has \cap M = {}
    BY <1>1 DEF Clean
  <2>2. \A i \in rl.has : i[1] \in ty \cup {BaseText}
    BY <2>1 DEF Ours
  <2>3. ASSUME NEW i \in sl.has PROVE i[1] \in ty \cup {BaseText} /\ i \notin M
    <3>1. CASE i \in rl.has
      BY <2>1, <2>2, <3>1
    <3>2. CASE i \in es \X {"rebased"}
      <4>1. i[1] \in es /\ i[2] = "rebased"
        BY <3>2
      <4>2. <<i[1], "typed">> \in rl.has /\ <<i[1], "typed">>[1] = i[1]
        BY <1>2, <4>1
      <4>3. i[1] \in ty \cup {BaseText}
        BY <2>2, <4>2
      <4>4. i \notin M
        BY <1>1, <4>1 DEF Marks
      <4> QED
        BY <4>3, <4>4
    <3> QED
      BY <1>2, <3>1, <3>2
  <2>4. sl \in Documents
    BY <1>4, DocFields
  <2> QED
    BY <2>3, <2>4 DEF Clean, Ours
<1>6. \A i \in sl.has : i[2] = "rebased" => i[1] \in Edits
  <2>1. ASSUME NEW i \in sl.has, i[2] = "rebased" PROVE i[1] \in Edits
    <3>1. i \in rl.has \/ i \in es \X {"rebased"}
      BY <1>2
    <3> QED
      BY <1>1, <1>2, <2>1, <3>1
  <2> QED
    BY <2>1
<1>7. Text(rl) \subseteq Text(sl) \cup gv
  BY <1>1, RebasedText
<1>8. Clean(M, ty, rl) \subseteq Clean(M, ty, sl) /\ All(M, ty, rl) \subseteq All(M, ty, sl)
  <2>1. \A i \in rl.has : i[2] = "rebased" => i \in sl.has
    BY <1>2
  <2>2. M \subseteq M /\ ty \subseteq ty /\ \A i \in M \ M : i[1] \notin ty \cup {BaseText}
    OBVIOUS
  <2> QED
    BY <2>1, <2>2, FamilyGrows
<1> QED
  BY <1>1, <1>4, <1>5, <1>6, <1>7, <1>8 DEF Grows

\* What a rebase makes of a tab.
Lost(x) == IF x.at = "open" THEN [x EXCEPT !.net = "down", !.synced = FALSE, !.due = FALSE] ELSE x

LEMMA LostTab ==
  ASSUME NEW gv, NEW x \in TabRec(gv)
  PROVE  LET y == Lost(x)
         IN /\ y \in TabRec(gv) /\ y.live = x.live /\ y.doc = x.doc /\ y.offered = x.offered /\ y.restore = x.restore
            /\ y.at = x.at /\ y.unsynced = x.unsynced /\ y.shown = x.shown /\ y.acked = x.acked
            /\ (x.at = "open" => y.net = "down" /\ ~y.synced) /\ (x.at # "open" => y = x)
<1> DEFINE down == "down"
           no == FALSE
<1>1. down \in {"down", "synced"} /\ no \in BOOLEAN /\ down = "down" /\ ~no
  OBVIOUS
<1> HIDE DEF down, no
<1>2. CASE x.at = "open"
  <2> DEFINE y == [x EXCEPT !.net = down, !.synced = no, !.due = no]
  <2>1. /\ y \in TabRec(gv) /\ y.live = x.live /\ y.doc = x.doc /\ y.offered = x.offered /\ y.restore = x.restore
        /\ y.at = x.at /\ y.unsynced = x.unsynced /\ y.shown = x.shown /\ y.acked = x.acked /\ y.net = down /\ y.synced = no
    BY <1>1 DEF TabRec
  <2>2. y = Lost(x)
    BY <1>2 DEF Lost, down, no
  <2> HIDE DEF y
  <2> QED
    BY <1>1, <1>2, <2>1, <2>2
<1>3. CASE x.at # "open"
  BY <1>3 DEF Lost
<1> QED
  BY <1>2, <1>3

LEMMA RebaseCore ==
  ASSUME NEW M, Core(M, tab, copies, relay, typed, kept, given, large), Once(tab, relay, stale, large), Rebase
  PROVE  Core(M, tab', copies', relay', typed', kept', given', large') /\ Once(tab', relay', stale', large')
<1>1. PICK es : es \in SUBSET {e \in Edits : <<e, "typed">> \in relay.has \ relay.cut}
                /\ relay' = [relay EXCEPT !.has = (@ \ (es \X {"typed"})) \cup (es \X {"rebased"})]
  BY DEF Rebase
<1>2. /\ tab \in [Tabs -> TabRec(given)] /\ copies \in [Copies -> CopyRec(given)] /\ Loose(copies) /\ Backed(copies, given)
      /\ Held(copies, All(M, typed, relay)) /\ large \subseteq Large /\ relay \in Docs(given)
      /\ kept \subseteq Texts \cap Cover(copies, Safe(relay, given)) /\ DoomedOK(copies, Safe(relay, given))
  BY DEF Core
<1>3. tab' = [u \in Tabs |-> Lost(tab[u])]
  BY DEF Rebase, Lost, Open
<1> DEFINE sl == relay'
           tb2 == tab'
<1>4. sl = [has |-> sl.has, cut |-> sl.cut] /\ Rebased(relay, sl, es)
  <2>1. relay = [has |-> relay.has, cut |-> relay.cut]
    BY <1>2, DocFields
  <2> QED
    BY <1>1, <2>1 DEF Rebased
<1>5. tb2 = [u \in Tabs |-> Lost(tab[u])]
  BY <1>3
<1> HIDE DEF sl, tb2
<1>6. Grows(M, relay, typed, given, M, sl, typed, given)
  BY <1>4, RebasedGrows
<1>7. /\ sl \in Docs(given) /\ Safe(relay, given) \subseteq Safe(sl, given)
      /\ Clean(M, typed, relay) \subseteq Clean(M, typed, sl) /\ All(M, typed, relay) \subseteq All(M, typed, sl)
  BY <1>6, GrowsFields
<1> DEFINE C == Clean(M, typed, sl)
           F == All(M, typed, sl)
<1>8. ASSUME NEW u \in Tabs
      PROVE  tb2[u] \in TabRec(given) /\ Fit(u, Of(tb2[u], copies), sl, given, C, F)
  <2> DEFINE x == tab[u]
             y == tb2[u]
  <2>1. x \in TabRec(given) /\ y = Lost(x)
    BY <1>2, <1>5
  <2>2. Fit(u, Of(x, copies), sl, given, C, F)
    BY <1>6, CoreStart
  <2> HIDE DEF x, y, C, F
  <2>3. /\ y \in TabRec(given) /\ y.live = x.live /\ y.doc = x.doc /\ y.offered = x.offered /\ y.restore = x.restore
        /\ y.at = x.at /\ y.unsynced = x.unsynced /\ y.shown = x.shown /\ y.acked = x.acked
        /\ (x.at = "open" => y.net = "down" /\ ~y.synced) /\ (x.at # "open" => y = x)
    BY <2>1, LostTab
  <2>4. Flags(x) /\ Truth(x, sl, given)
    BY <2>2, FitTab
  <2>5. Flags(y) /\ Truth(y, sl, given)
    <3>1. CASE x.at = "open"
      BY <2>3, <2>4, <3>1 DEF Flags, Truth
    <3>2. CASE x.at # "open"
      BY <2>3, <2>4, <3>2
    <3> QED
      BY <3>1, <3>2
  <2>6. Fit(u, Of(y, copies), sl, given, C, F)
    BY <2>2, <2>3, <2>5, TabFit
  <2> QED
    BY <2>3, <2>6 DEF y
<1>9. tb2 \in [Tabs -> TabRec(given)]
  BY <1>5, <1>8
<1>10. kept \subseteq Texts \cap Cover(copies, Safe(sl, given)) /\ DoomedOK(copies, Safe(sl, given))
  <2>1. Sure(copies, Safe(relay, given), copies, Safe(sl, given))
    BY <1>7, SureGrows
  <2> QED
    BY <1>2, <2>1 DEF Sure
<1>11. Held(copies, F)
  BY <1>2, <1>7 DEF Held
<1>12. Core(M, tb2, copies, sl, typed, kept, given, large)
  BY <1>2, <1>6, <1>8, <1>9, <1>10, <1>11 DEF Core, Grows
<1>13. Once(tb2, sl, stale, large)
  <2>1. /\ (\A e \in Edits : Both(e, relay, relay) => e \in stale) /\ Text(relay) \cap large = {}
        /\ \A u \in Tabs : One(tab[u], relay, stale, large)
    BY DEF Once
  <2>2. Text(sl) = Text(relay) /\ es \subseteq Text(relay)
    BY <1>2, <1>4, RebasedText
  <2>3. sl.has = (relay.has \ (es \X {"typed"})) \cup (es \X {"rebased"})
    BY <1>4 DEF Rebased
  <2>4. ASSUME NEW e \in Edits, Both(e, sl, sl) PROVE e \in stale
    BY <2>1, <2>3, <2>4 DEF Both
  <2>5. ASSUME NEW i \in relay.has, i[1] \in large PROVE i \in sl.has
    BY <2>1, <2>2, <2>3, <2>5
  <2>6. ASSUME NEW d, Big(d, relay, large) PROVE Big(d, sl, large)
    BY <2>5, <2>6 DEF Big
  <2>7. ASSUME NEW u \in Tabs PROVE One(tb2[u], sl, stale, large)
    <3> DEFINE x == tab[u]
               y == tb2[u]
    <3>1. x \in TabRec(given) /\ y = Lost(x) /\ One(x, relay, stale, large) /\ Flags(x)
      <4>1. x \in TabRec(given) /\ y = Lost(x) /\ One(x, relay, stale, large)
        BY <1>2, <1>5, <2>1
      <4> QED
        BY <4>1, CoreTab, FitTab
    <3> HIDE DEF x, y
    <3>2. /\ y.live = x.live /\ y.doc = x.doc /\ y.at = x.at /\ y.acked = x.acked
          /\ (x.at = "open" => y.net = "down" /\ ~y.synced) /\ (x.at # "open" => y = x)
      BY <3>1, LostTab
    <3> QED
      BY <2>6, <3>1, <3>2 DEF One, y
  <2> QED
    BY <2>1, <2>2, <2>4, <2>7 DEF Once
<1> QED
  BY <1>12, <1>13 DEF Rebase, sl, tb2

\* What is stored from now on is covered.
LEMMA KeptGrows ==
  ASSUME NEW M, NEW tb, NEW cs, NEW rl, NEW ty, NEW kp, NEW gv, NEW lg, Core(M, tb, cs, rl, ty, kp, gv, lg),
         NEW T, T \subseteq Texts, T \subseteq Cover(cs, Safe(rl, gv)), NEW kp2, kp2 = kp \cup T
  PROVE  Core(M, tb, cs, rl, ty, kp2, gv, lg)
BY DEF Core

\* The tab of a copy that is held.
LEMMA Holder ==
  ASSUME NEW M, NEW tb, NEW cs, NEW rl, NEW ty, NEW kp, NEW gv, NEW lg, Core(M, tb, cs, rl, ty, kp, gv, lg),
         NEW c \in Copies, cs[c].unsaved \/ cs[c].end # "none"
  PROVE  \E t \in Tabs : cs[c].by = {t}
<1>1. cs \in [Copies -> CopyRec(gv)] /\ Loose(cs)
  BY DEF Core
<1>2. cs[c].by # {}
  BY <1>1, LooseFields
<1> QED
  BY <1>1, <1>2, CopyFields

\* A step on a copy that leaves its tab, and the copies in that tab's hands, as they are.
Handles(t, x, cs, ds, F) ==
  Held(ds, F) /\ (Hand(cs, t, ToSet(x.restore)) => Hand(ds, t, ToSet(x.restore))) /\ (Hand(cs, t, x.offered) => Hand(ds, t, x.offered))
LEMMA CoreCopy ==
  ASSUME NEW M, NEW tb, NEW cs, NEW rl, NEW ty, NEW kp, NEW gv, NEW lg, Core(M, tb, cs, rl, ty, kp, gv, lg),
         NEW t \in Tabs, NEW ds, Good(t, tb[t].live, tb[t].doc, ds, gv), Touches(t, cs, ds), Sure(cs, Safe(rl, gv), ds, Safe(rl, gv)),
         Handles(t, tb[t], cs, ds, All(M, ty, rl))
  PROVE  Core(M, tb, ds, rl, ty, kp, gv, lg)
<1> DEFINE y == tb[t]
           C == Clean(M, ty, rl)
           F == All(M, ty, rl)
<1>1. Fit(t, Of(y, cs), rl, gv, C, F)
  BY CoreTab
<1>2. Good(t, y.live, y.doc, ds, gv) /\ Handles(t, y, cs, ds, F) /\ tb = [tb EXCEPT ![t] = y] /\ Grows(M, rl, ty, gv, M, rl, ty, gv)
  <2>1. tb = [tb EXCEPT ![t] = y]
    BY DEF Core
  <2> QED
    BY <2>1, GrowsNot
<1> HIDE DEF y, C, F
<1>3. /\ y \in TabRec(gv) /\ y.doc \in C /\ Hand(cs, t, ToSet(y.restore))
      /\ Hand(cs, t, y.offered) /\ ToSet(y.restore) \cap y.offered = {} /\ Flags(y) /\ Truth(y, rl, gv)
  BY <1>1, FitMade
<1>4. Held(ds, F) /\ Hand(ds, t, ToSet(y.restore)) /\ Hand(ds, t, y.offered)
  BY <1>2, <1>3 DEF Handles
<1>5. y.doc \in Clean(M, ty, rl) /\ Held(ds, All(M, ty, rl))
  BY <1>3, <1>4 DEF C, F
<1> QED
  BY <1>2, <1>3, <1>4, <1>5, CoreMade

LEMMA WriteCore ==
  ASSUME NEW M, Core(M, tab, copies, relay, typed, kept, given, large), Once(tab, relay, stale, large), NEW c \in Copies, Write(c)
  PROVE  Core(M, tab', copies', relay', typed', kept', given', large') /\ Once(tab', relay', stale', large')
<1>1. copies[c].unsaved
  BY DEF Write
<1>2. PICK t \in Tabs : copies[c].by = {t}
  BY <1>1, Holder
<1> DEFINE x == tab[t]
           l == x.live
           d == x.doc
           F == All(M, typed, relay)
           S == Safe(relay, given)
           text == Body(d, copies[c])
<1>3. /\ Good(t, l, d, copies, given) /\ Held(copies, F) /\ d \in F
      /\ copies \in [Copies -> CopyRec(given)] /\ d \in Docs(given) /\ given \subseteq S
  <2>1. Fit(t, Of(x, copies), relay, given, Clean(M, typed, relay), F) /\ given \subseteq S
    BY CoreTab
  <2> HIDE DEF x, F, S
  <2>2. /\ Good(t, x.live, x.doc, copies, given) /\ Held(copies, F) /\ x.doc \in Clean(M, typed, relay)
        /\ copies \in [Copies -> CopyRec(given)] /\ x.doc \in Docs(given)
    BY <2>1, FitMade
  <2> QED
    BY <2>1, <2>2, CleanIsAll DEF F
<1>4. Content(c) = text
  BY <1>2 DEF Content, Body
<1>5. PICK ok \in BOOLEAN : copies' = Written(c, ok) /\ kept' = IF ok THEN kept \cup Text(text) ELSE kept
  <2> HIDE DEF text
  <2> QED
    BY <1>4 DEF Write
<1>6. text \in Docs(given) /\ text \in F /\ copies[c] \in CopyRec(given)
  <2>1. copies[c] \in CopyRec(given)
    BY <1>3
  <2> HIDE DEF l, d, x, F, S
  <2> QED
    BY <1>3, <2>1, CopyFields DEF Body, Held
<1> DEFINE ds == copies'
<1>7. /\ ds[c] = [copies[c] EXCEPT !.disk = IF ok THEN {text} ELSE copies[c].disk, !.unsaved = FALSE, !.stored = ok]
      /\ \A k \in Copies : k # c /\ copies[k].awaits = c => ds[k] = [copies[k] EXCEPT !.awaits = 0, !.end = AfterFlush(ok)]
      /\ \A k \in Copies : k # c /\ copies[k].awaits # c => ds[k] = copies[k]
      /\ ds = [k \in Copies |-> ds[k]]
  <2> HIDE DEF text
  <2> QED
    BY <1>4, <1>5 DEF Written
<1>8. Flushed(copies, ds, d, c, ok)
  <2> HIDE DEF ds, d
  <2> QED
    BY <1>7 DEF Flushed
<1> HIDE DEF text, ds
<1>9. ds \in [Copies -> CopyRec(given)]
  <2>1. ASSUME NEW k \in Copies PROVE ds[k] \in CopyRec(given)
    <3>1. copies[k] \in CopyRec(given)
      BY <1>3
    <3>2. CASE k = c
      <4> DEFINE disk == IF ok THEN {text} ELSE copies[k].disk
                 no == FALSE
      <4>1. ds[k] = [copies[k] EXCEPT !.disk = disk, !.unsaved = no, !.stored = ok] /\ no \in BOOLEAN
        BY <1>7, <3>2
      <4>2. disk \in {{}} \cup {{z} : z \in Docs(given)}
        <5>1. {text} \in {{z} : z \in Docs(given)}
          BY <1>6
        <5>2. copies[k].disk \in {{}} \cup {{z} : z \in Docs(given)}
          BY <3>1 DEF CopyRec
        <5> QED
          BY <5>1, <5>2
      <4> HIDE DEF disk, no
      <4> QED
        BY <3>1, <4>1, <4>2 DEF CopyRec
    <3>3. CASE k # c /\ copies[k].awaits = c
      <4> DEFINE how == AfterFlush(ok)
      <4>1. how \in {"none", "close", "release"} /\ ds[k] = [copies[k] EXCEPT !.awaits = 0, !.end = how]
        BY <1>7, <3>3 DEF AfterFlush
      <4> HIDE DEF how
      <4> QED
        BY <3>1, <4>1 DEF CopyRec
    <3>4. CASE k # c /\ copies[k].awaits # c
      BY <1>7, <3>1, <3>4
    <3> QED
      BY <3>2, <3>3, <3>4
  <2> QED
    BY <1>7, <2>1
<1>10. Good(t, l, d, ds, given) /\ Touches(t, copies, ds) /\ Sure(copies, S, ds, S)
  <2> HIDE DEF l, d, S
  <2> QED
    BY <1>1, <1>2, <1>3, <1>8, <1>9, WriteStep
<1>11. /\ ds[c].by = copies[c].by /\ ds[c].live = copies[c].live /\ ds[c].mem = copies[c].mem /\ ds[c].end = copies[c].end
       /\ ds[c].awaits = copies[c].awaits /\ ds[c].disk = IF ok THEN {text} ELSE copies[c].disk
  BY <1>6, <1>7 DEF CopyRec
<1>12. \A k \in Copies : k # c => ds[k].mem = copies[k].mem /\ ds[k].disk = copies[k].disk
  <2>1. ASSUME NEW k \in Copies, k # c PROVE ds[k].mem = copies[k].mem /\ ds[k].disk = copies[k].disk
    <3>1. copies[k] \in CopyRec(given)
      BY <1>3
    <3>2. CASE copies[k].awaits = c
      <4> DEFINE how == AfterFlush(ok)
                 none == 0
      <4>1. ds[k] = [copies[k] EXCEPT !.awaits = none, !.end = how]
        BY <1>7, <2>1, <3>2
      <4> HIDE DEF how, none
      <4> QED
        BY <3>1, <4>1 DEF CopyRec
    <3>3. CASE copies[k].awaits # c
      BY <1>7, <2>1, <3>3
    <3> QED
      BY <3>2, <3>3
  <2> QED
    BY <2>1
<1>13. Held(ds, F)
  <2> HIDE DEF F
  <2> QED
    BY <1>3, <1>6, <1>11, <1>12 DEF Held
<1>14. ASSUME NEW P, P \subseteq Copies, Hand(copies, t, P) PROVE Hand(ds, t, P)
  <2>1. ASSUME NEW k \in P PROVE ds[k].by = {t} /\ ~ds[k].live /\ ds[k].end = "none" /\ ds[k].awaits = 0
    <3>1. k \in Copies /\ copies[k].by = {t} /\ ~copies[k].live /\ copies[k].end = "none" /\ copies[k].awaits = 0
      BY <1>14 DEF Hand
    <3>2. CASE k = c
      BY <1>11, <3>1, <3>2
    <3>3. CASE k # c
      BY <1>7, <3>1, <3>3, NoCopyZero
    <3> QED
      BY <3>2, <3>3
  <2> QED
    BY <2>1 DEF Hand
<1>15. Handles(t, x, copies, ds, F)
  <2>1. ToSet(x.restore) \subseteq Copies /\ x.offered \subseteq Copies
    <3>1. Fit(t, Of(x, copies), relay, given, Clean(M, typed, relay), F)
      BY CoreTab
    <3> HIDE DEF x, F
    <3> QED
      BY <3>1, FitMade
  <2> HIDE DEF x, F
  <2> QED
    BY <1>13, <1>14, <2>1 DEF Handles
<1>16. Core(M, tab, ds, relay, typed, kept, given, large)
  <2>1. /\ Good(t, tab[t].live, tab[t].doc, ds, given) /\ Sure(copies, Safe(relay, given), ds, Safe(relay, given))
        /\ Handles(t, tab[t], copies, ds, All(M, typed, relay))
    BY <1>10, <1>15
  <2> QED
    BY <1>10, <2>1, CoreCopy
<1>17. ok => Text(text) \subseteq Texts /\ Text(text) \subseteq Cover(ds, S)
  <2>1. SUFFICES ASSUME ok PROVE Text(text) \subseteq Texts /\ Text(text) \subseteq Cover(ds, S)
    OBVIOUS
  <2>2. Text(text) \subseteq Texts
    BY <1>6, TextIsText
  <2> HIDE DEF S, l, d
  <2>3. CASE c \notin Doomed(ds)
    <3>1. text \in ds[c].disk
      BY <1>11, <2>1
    <3> QED
      BY <2>2, <2>3, <3>1, StaysCovered
  <2>4. CASE c \in Doomed(ds)
    <3>1. ds \in [Copies -> CopyRec(given)] /\ Loose(ds) /\ Backed(ds, given)
      BY <1>10, GoodTypes
    <3>2. ~ds[c].live
      BY <2>4, <3>1, DoomedIs
    <3>3. text = ds[c].mem
      BY <1>11, <3>2 DEF text, Body
    <3>4. DoomedOK(ds, S)
      BY <1>16 DEF Core, S
    <3> QED
      BY <2>2, <2>4, <3>3, <3>4 DEF DoomedOK
  <2> QED
    BY <2>3, <2>4
<1>18. Core(M, tab, ds, relay, typed, kept', given, large)
  <2>1. CASE ok
    <3> DEFINE T == Text(text)
               kp2 == kept'
    <3>1. T \subseteq Texts /\ T \subseteq Cover(ds, Safe(relay, given)) /\ kp2 = kept \cup T
      BY <1>5, <1>17, <2>1
    <3> HIDE DEF T, kp2
    <3>2. Core(M, tab, ds, relay, typed, kp2, given, large)
      BY <1>16, <3>1, KeptGrows
    <3> QED
      BY <3>2 DEF kp2
  <2>2. CASE ~ok
    BY <1>5, <1>16, <2>2
  <2> QED
    BY <2>1, <2>2
<1> QED
  BY <1>18 DEF Write, ds

LEMMA EndCore ==
  ASSUME NEW M, Core(M, tab, copies, relay, typed, kept, given, large), Once(tab, relay, stale, large), NEW c \in Copies, End(c)
  PROVE  Core(M, tab', copies', relay', typed', kept', given', large') /\ Once(tab', relay', stale', large')
<1>1. copies[c].end # "none" /\ ~copies[c].unsaved
  BY DEF End
<1>2. PICK t \in Tabs : copies[c].by = {t}
  BY <1>1, Holder
<1> DEFINE x == tab[t]
           l == x.live
           d == x.doc
           F == All(M, typed, relay)
           S == Safe(relay, given)
           own == copies[c].mem
<1>3. /\ Good(t, l, d, copies, given) /\ Held(copies, F)
      /\ copies \in [Copies -> CopyRec(given)] /\ d \in Docs(given) /\ given \subseteq S
      /\ ToSet(x.restore) \subseteq Copies /\ x.offered \subseteq Copies
  <2>1. Fit(t, Of(x, copies), relay, given, Clean(M, typed, relay), F) /\ given \subseteq S
    BY CoreTab
  <2> HIDE DEF x, F, S
  <2>2. /\ Good(t, x.live, x.doc, copies, given) /\ Held(copies, F)
        /\ copies \in [Copies -> CopyRec(given)] /\ x.doc \in Docs(given) /\ ToSet(x.restore) \subseteq Copies /\ x.offered \subseteq Copies
    BY <2>1, FitMade
  <2> QED
    BY <2>1, <2>2
<1>4. \E disk :
        /\ copies' = Gone(copies, c, disk)
        /\ disk = {own} \/ disk = copies[c].disk \/ (disk = {} /\ copies[c].end = "release")
        /\ kept' = kept \/ (disk = {own} /\ kept' = kept \cup Text(own))
  <2>1. CASE /\ copies[c].end = "close"
             /\ copies' = Gone(copies, c, IF copies[c].stored THEN copies[c].disk ELSE {own})
             /\ kept' = IF copies[c].stored THEN kept ELSE kept \cup Text(own)
    <3> HIDE DEF own
    <3>1. CASE copies[c].stored
      BY <2>1, <3>1
    <3>2. CASE ~copies[c].stored
      BY <2>1, <3>2
    <3> QED
      BY <3>1, <3>2
  <2>2. CASE copies[c].end = "release" /\ copies' = Gone(copies, c, {}) /\ kept' = kept
    BY <2>2
  <2>3. CASE copies' = Gone(copies, c, copies[c].disk) /\ kept' = kept
    BY <2>3
  <2> QED
    BY <2>1, <2>2, <2>3 DEF End, Gone
<1>5. PICK disk :
        /\ copies' = Gone(copies, c, disk)
        /\ disk = {own} \/ disk = copies[c].disk \/ (disk = {} /\ copies[c].end = "release")
        /\ kept' = kept \/ (disk = {own} /\ kept' = kept \cup Text(own))
  BY <1>4
<1>6. own \in Docs(given) /\ own \in F
  <2>1. copies[c] \in CopyRec(given)
    BY <1>3
  <2> HIDE DEF F
  <2> QED
    BY <1>3, <2>1, CopyFields DEF Held
<1> DEFINE ds == copies'
<1>7. Goes(t, l, d, copies, c, disk, ds, S, given)
  <2>1. disk = {copies[c].mem} \/ disk = copies[c].disk \/ (disk = {} /\ copies[c].end = "release")
    BY <1>5
  <2> HIDE DEF l, d, S
  <2>2. Goes(t, l, d, copies, c, disk, Gone(copies, c, disk), S, given)
    BY <1>1, <1>2, <1>3, <2>1, EndStep
  <2> QED
    BY <1>5, <2>2
<1> HIDE DEF ds
<1>8. /\ Good(t, l, d, ds, given) /\ Touches(t, copies, ds) /\ Sure(copies, S, ds, S)
      /\ ds[c].disk = disk /\ Alive(ds, c) /\ ds[c].mem = Empty /\ \A k \in Copies : k # c => ds[k] = copies[k]
  BY <1>7 DEF Goes
<1>9. Held(ds, F)
  <2>1. Empty \in F /\ disk \subseteq F
    <3>1. Empty \in F
      BY CleanIsAll
    <3> HIDE DEF F, own
    <3> QED
      BY <1>3, <1>5, <1>6, <3>1 DEF Held
  <2> HIDE DEF F
  <2> QED
    BY <1>3, <1>8, <2>1 DEF Held
<1>10. ASSUME NEW P, P \subseteq Copies, Hand(copies, t, P) PROVE Hand(ds, t, P)
  BY <1>1, <1>8, <1>10 DEF Hand
<1>11. Handles(t, x, copies, ds, F)
  <2> HIDE DEF x, F
  <2> QED
    BY <1>3, <1>9, <1>10 DEF Handles
<1>12. Core(M, tab, ds, relay, typed, kept, given, large)
  <2>1. /\ Good(t, tab[t].live, tab[t].doc, ds, given) /\ Sure(copies, Safe(relay, given), ds, Safe(relay, given))
        /\ Handles(t, tab[t], copies, ds, All(M, typed, relay))
    BY <1>8, <1>11
  <2> QED
    BY <1>8, <2>1, CoreCopy
<1>13. Core(M, tab, ds, relay, typed, kept', given, large)
  <2>1. CASE kept' = kept
    BY <1>12, <2>1
  <2>2. CASE disk = {own} /\ kept' = kept \cup Text(own)
    <3> DEFINE T == Text(own)
               kp2 == kept'
    <3>1. T \subseteq Texts
      <4> HIDE DEF own
      <4> QED
        BY <1>6, TextIsText
    <3>2. c \notin Doomed(ds)
      BY <1>8, DoomedCloses DEF Alive, Doomed
    <3>3. T \subseteq Cover(ds, S)
      <4> HIDE DEF own, S
      <4>1. own \in ds[c].disk
        BY <1>8, <2>2
      <4> QED
        BY <3>2, <4>1, StaysCovered
    <3>4. kp2 = kept \cup T /\ T \subseteq Cover(ds, Safe(relay, given))
      BY <2>2, <3>3
    <3> HIDE DEF T, kp2
    <3>5. Core(M, tab, ds, relay, typed, kp2, given, large)
      BY <1>12, <3>1, <3>4, KeptGrows
    <3> QED
      BY <3>5 DEF kp2
  <2> QED
    BY <1>5, <2>1, <2>2
<1> QED
  BY <1>13 DEF End, ds
-----------------------------------------------------------------------------
(* The inductive invariant, and the four of the runs from it *)

IInv == (\E M : Core(M, tab, copies, relay, typed, kept, given, large)) /\ Once(tab, relay, stale, large)

LEMMA Starts ==
  ASSUME Init
  PROVE  IInv
<1> DEFINE M == Texts \X {"offered"}
           C == Clean(M, {}, relay)
           F == All(M, {}, relay)
<1>1. /\ relay \in Docs({}) /\ relay \in Documents /\ relay.has = {BaseText} \X {"typed"} /\ Text(relay) = {BaseText}
  <2>1. {BaseText} \in SUBSET Texts /\ relay = Plain({BaseText}, "typed")
    BY DEF Init, Texts
  <2> DEFINE S == {BaseText}
             how == "typed"
  <2>2. S \in SUBSET Texts /\ how \in {"typed", "rebased", "offered"} /\ relay = Plain(S, how)
    BY <2>1
  <2> HIDE DEF S, how
  <2>3. relay \in Docs({}) /\ relay.has = S \X {how} /\ Text(relay) = S
    BY <2>2, PlainDoc
  <2> QED
    BY <2>3, DocFields DEF S, how
<1>2. \A i \in relay.has : i[1] = BaseText /\ i[2] = "typed"
  BY <1>1
<1>3. relay \in C
  BY <1>1, <1>2 DEF Clean, Ours
<1>4. Marks(M, {})
  BY DEF Marks
<1>5. Empty \in C /\ Empty \in F
  BY CleanIsAll
<1>6. /\ copies \in [Copies -> CopyRec({})] /\ \A c \in Copies : copies[c] = NoCopy
  BY NoCopyFields DEF Init
<1>7. Loose(copies)
  <2>1. NoCopy = [NoCopy EXCEPT !.disk = NoCopy.disk]
    BY DEF NoCopy
  <2> QED
    BY <1>6, <2>1 DEF Loose
<1>8. \A c \in Copies : copies[c].by = {} /\ copies[c].mem = Empty /\ copies[c].disk = {} /\ copies[c].end = "none" /\ copies[c].awaits = 0
  BY <1>6, NoCopyFields
<1>9. Backed(copies, {}) /\ Held(copies, F)
  BY <1>5, <1>8 DEF Backed, Held
<1>10. ASSUME NEW t \in Tabs PROVE Fit(t, Of(Closed, copies), relay, {}, C, F)
  <2> DEFINE y == Closed
  <2>1. /\ y \in TabRec({}) /\ Flags(y) /\ Truth(y, relay, {}) /\ y.doc = Empty /\ y.live = 0 /\ y.offered = {} /\ ToSet(y.restore) = {}
    BY ClosedTab
  <2>2. Good(t, 0, Empty, copies, {})
    <3>1. Own(t, 0, Empty, copies, {})
      BY <1>8 DEF Own
    <3> QED
      BY <1>6, <1>7, <1>9, <3>1, EmptyDoc DEF Good
  <2>3. Hand(copies, t, ToSet(y.restore)) /\ Hand(copies, t, y.offered) /\ ToSet(y.restore) \cap y.offered = {}
    BY <2>1 DEF Hand
  <2> HIDE DEF y, C, F
  <2>4. Fit(t, Of(y, copies), relay, {}, C, F)
    BY <1>5, <1>9, <2>1, <2>2, <2>3, MadeFit
  <2> QED
    BY <2>4 DEF y
<1>11. \A t \in Tabs : tab[t] = Closed
  BY DEF Init
<1>12. tab \in [Tabs -> TabRec({})]
  BY ClosedTab DEF Init
<1>13. DoomedOK(copies, Safe(relay, {}))
  <2>1. ASSUME NEW k \in Doomed(copies) PROVE FALSE
    BY <1>6, <1>7, <1>8, <1>9, DoomedIs
  <2> QED
    BY <2>1 DEF DoomedOK
<1>14. typed = {} /\ kept = {} /\ given = {} /\ stale = {} /\ large \subseteq Large
  BY DEF Init
<1>15. Core(M, tab, copies, relay, {}, {}, {}, large)
  <2> HIDE DEF M
  <2>1. \A t \in Tabs : Fit(t, Of(tab[t], copies), relay, {}, C, F)
    BY <1>10, <1>11
  <2>2. \A i \in relay.has : i[2] = "rebased" => i[1] \in Edits
    BY <1>2
  <2> QED
    BY <1>1, <1>3, <1>4, <1>6, <1>7, <1>9, <1>12, <1>13, <1>14, <2>1, <2>2 DEF Core
<1>16. Once(tab, relay, stale, large)
  <2>1. \A e \in Edits : ~Both(e, relay, relay)
    BY <1>2 DEF Both
  <2>2. Text(relay) \cap large = {}
    BY <1>1, <1>14, TextsAssumption
  <2>3. \A t \in Tabs : One(tab[t], relay, stale, large)
    BY <1>11, ClosedTab
  <2> QED
    BY <2>1, <2>2, <2>3 DEF Once
<1> QED
  BY <1>14, <1>15, <1>16 DEF IInv

\* A step of a copy or of the log.
LEMMA StorageKeeps ==
  ASSUME IInv, Rebase \/ \E c \in Copies : Write(c) \/ End(c)
  PROVE  IInv'
<1>1. PICK M : Core(M, tab, copies, relay, typed, kept, given, large)
  BY DEF IInv
<1>2. Once(tab, relay, stale, large)
  BY DEF IInv
<1>3. Core(M, tab', copies', relay', typed', kept', given', large') /\ Once(tab', relay', stale', large')
  <2>1. CASE Rebase
    BY <1>1, <1>2, <2>1, RebaseCore
  <2>2. ASSUME NEW c \in Copies, Write(c) PROVE <1>3
    BY <1>1, <1>2, <2>2, WriteCore
  <2>3. ASSUME NEW c \in Copies, End(c) PROVE <1>3
    BY <1>1, <1>2, <2>3, EndCore
  <2> QED
    BY <2>1, <2>2, <2>3
<1> QED
  BY <1>3 DEF IInv

\* A step of a tab.
TabStep(t) ==
  \/ OpenNote(t) \/ LookForCopies(t) \/ SocketDrops(t) \/ StopForGood(t)
  \/ Handshake(t) \/ StartOver(t) \/ RelayTakes(t) \/ Ack(t) \/ Receive(t) \/ Refuse(t)
  \/ Discard(t) \/ CloseNote(t) \/ Crash(t) \/ ReleaseDue(t)
  \/ (\E c \in Copies : ClaimLate(t, c)) \/ (\E e \in Edits : Type(t, e)) \/ (\E e \in Large : Cut(t, e))
LEMMA TabKeeps ==
  ASSUME IInv, NEW t \in Tabs, TabStep(t)
  PROVE  IInv'
<1>1. PICK M : Core(M, tab, copies, relay, typed, kept, given, large)
  BY DEF IInv
<1>2. Once(tab, relay, stale, large)
  BY DEF IInv
<1>3. ASSUME \E c \in Copies : ClaimLate(t, c)
      PROVE  Core(M, tab', copies', relay', typed', kept', given', large') /\ Once(tab', relay', stale', large')
  <2>1. PICK c \in Copies : ClaimLate(t, c)
    BY <1>3
  <2> QED
    BY <1>1, <1>2, <2>1, ClaimLateCore
<1>4. ASSUME \E e \in Large : Cut(t, e)
      PROVE  Core(M, tab', copies', relay', typed', kept', given', large') /\ Once(tab', relay', stale', large')
  <2>1. PICK e \in Large : Cut(t, e)
    BY <1>4
  <2> QED
    BY <1>1, <1>2, <2>1, CutCore
<1>5. ASSUME \E e \in Edits : Type(t, e)
      PROVE  (\E N : Core(N, tab', copies', relay', typed', kept', given', large')) /\ Once(tab', relay', stale', large')
  <2>1. PICK e \in Edits : Type(t, e)
    BY <1>5
  <2>2. CASE tab[t].shown = 0
    <3>1. Core(M, tab', copies', relay', typed', kept', given', large') /\ Once(tab', relay', stale', large')
      BY <1>1, <1>2, <2>1, <2>2, TypeDocCore
    <3> QED
      BY <3>1
  <2>3. CASE tab[t].shown # 0
    BY <1>1, <1>2, <2>1, <2>3, TypeCopyCore
  <2> QED
    BY <2>2, <2>3
<1>6. ASSUME \/ OpenNote(t) \/ LookForCopies(t) \/ SocketDrops(t) \/ StopForGood(t)
             \/ Handshake(t) \/ StartOver(t) \/ RelayTakes(t) \/ Ack(t) \/ Receive(t) \/ Refuse(t)
             \/ Discard(t) \/ CloseNote(t) \/ Crash(t) \/ ReleaseDue(t)
      PROVE  Core(M, tab', copies', relay', typed', kept', given', large') /\ Once(tab', relay', stale', large')
  <2>1. CASE OpenNote(t) \/ LookForCopies(t) \/ SocketDrops(t) \/ StopForGood(t)
    BY <1>1, <1>2, <2>1, OpenNoteCore, LookCore, SocketDropsCore, StopCore
  <2>2. CASE Handshake(t) \/ StartOver(t) \/ RelayTakes(t) \/ Ack(t) \/ Receive(t) \/ Refuse(t)
    BY <1>1, <1>2, <2>2, HandshakeCore, StartOverCore, RelayTakesCore, AckCore, ReceiveCore, RefuseCore
  <2>3. CASE Discard(t) \/ CloseNote(t) \/ Crash(t) \/ ReleaseDue(t)
    BY <1>1, <1>2, <2>3, DiscardCore, CloseNoteCore, CrashCore, ReleaseDueCore
  <2> QED
    BY <1>6, <2>1, <2>2, <2>3
<1>7. (\E N : Core(N, tab', copies', relay', typed', kept', given', large')) /\ Once(tab', relay', stale', large')
  BY <1>3, <1>4, <1>5, <1>6 DEF TabStep
<1> QED
  BY <1>7 DEF IInv

LEMMA Invariance == Spec => []IInv
<1>1. Init => IInv
  BY Starts
<1>2. IInv /\ [Next]_vars => IInv'
  <2> SUFFICES ASSUME IInv, [Next]_vars PROVE IInv'
    OBVIOUS
  <2>1. CASE Rebase \/ \E c \in Copies : Write(c) \/ End(c)
    BY <2>1, StorageKeeps
  <2>2. ASSUME NEW t \in Tabs, TabStep(t) PROVE IInv'
    BY <2>2, TabKeeps
  <2>3. CASE UNCHANGED vars
    <3>1. tab' = tab /\ copies' = copies /\ relay' = relay /\ typed' = typed /\ kept' = kept /\ given' = given
          /\ stale' = stale /\ large' = large
      BY <2>3 DEF vars
    <3> QED
      BY <3>1 DEF IInv
  <2> QED
    BY <2>1, <2>2, <2>3 DEF Next, TabStep
<1> QED
  BY <1>1, <1>2, PTL DEF Spec

LEMMA DocIs ==
  ASSUME NEW cuts, NEW d \in Docs(cuts)
  PROVE  IsDocument(d)
<1>1. d = [has |-> d.has, cut |-> d.cut] /\ d.has \subseteq Texts \X {"typed", "rebased", "offered"}
      /\ d.cut \subseteq Large \X {"typed"}
  BY DocFields
<1>2. DOMAIN d = {"has", "cut"}
  BY <1>1
<1> QED
  BY <1>1, <1>2 DEF IsDocument

\* Every tab is fit, in whatever family of documents.
LEMMA EachFits ==
  ASSUME IInv, NEW t \in Tabs
  PROVE  \E M : Fit(t, Of(tab[t], copies), relay, given, Clean(M, typed, relay), All(M, typed, relay))
BY DEF IInv, Core

LEMMA EachTab ==
  ASSUME IInv, NEW t \in Tabs
  PROVE  /\ tab[t] \in TabRec(given) /\ Good(t, tab[t].live, tab[t].doc, copies, given)
         /\ Hand(copies, t, ToSet(tab[t].restore)) /\ Hand(copies, t, tab[t].offered)
         /\ Flags(tab[t]) /\ Truth(tab[t], relay, given) /\ tab[t].doc \in Docs(given)
<1>1. PICK M : Fit(t, Of(tab[t], copies), relay, given, Clean(M, typed, relay), All(M, typed, relay))
  BY EachFits
<1> DEFINE x == tab[t]
           C == Clean(M, typed, relay)
           F == All(M, typed, relay)
<1>2. Fit(t, Of(x, copies), relay, given, C, F)
  BY <1>1
<1> HIDE DEF x, C, F
<1>3. /\ x \in TabRec(given) /\ Good(t, x.live, x.doc, copies, given) /\ Hand(copies, t, ToSet(x.restore))
      /\ Hand(copies, t, x.offered) /\ Flags(x) /\ Truth(x, relay, given) /\ x.doc \in Docs(given)
  BY <1>2, FitMade
<1> QED
  BY <1>3 DEF x

LEMMA HeldCopy ==
  ASSUME NEW cuts, NEW t \in Tabs, NEW l, NEW d, NEW cs, Good(t, l, d, cs, cuts), NEW c \in Copies, cs[c].by = {t}
  PROVE  /\ cs[c].live <=> l = c
         /\ cs[c].awaits # 0 => cs[cs[c].awaits].by = {t} /\ cs[cs[c].awaits].unsaved
<1>1. cs[c].live => l = c
  BY GoodCopy
<1>2. l = c => cs[c].live
  BY GoodLive
<1>3. cs[c].awaits # 0 => cs[cs[c].awaits].by = {t} /\ cs[cs[c].awaits].unsaved
  BY GoodCopy
<1>4. cs[c].live \in BOOLEAN
  BY GoodTypes, CopyFields
<1> QED
  BY <1>1, <1>2, <1>3, <1>4

\* Types of the copies.
LEMMA CopyTypes ==
  ASSUME IInv, NEW c \in Copies
  PROVE  /\ copies[c].by = {} => copies[c] = [NoCopy EXCEPT !.disk = copies[c].disk]
         /\ Cardinality(copies[c].by) <= 1 /\ Cardinality(copies[c].disk) <= 1
         /\ copies[c].live <=> \E t \in copies[c].by : tab[t].live = c
         /\ copies[c].awaits # 0 => copies[copies[c].awaits].by = copies[c].by /\ copies[copies[c].awaits].unsaved
         /\ IsDocument(copies[c].mem) /\ \A d \in copies[c].disk : IsDocument(d)
<1> DEFINE k == copies[c]
<1>1. copies \in [Copies -> CopyRec(given)] /\ Loose(copies)
  BY DEF IInv, Core
<1>2. k \in CopyRec(given)
  BY <1>1
<1>3. k.by = {} \/ \E t \in Tabs : k.by = {t}
  BY <1>2, CopyFields
<1>4. k.mem \in Docs(given) /\ (k.disk = {} \/ \E d \in Docs(given) : k.disk = {d}) /\ \A d \in k.disk : d \in Docs(given)
  BY <1>2, CopyFields
<1>5. Cardinality(k.by) <= 1 /\ Cardinality(k.disk) <= 1
  <2>1. Cardinality({}) = 0 /\ \A z : Cardinality({z}) = 1
    BY FS_EmptySet, FS_Singleton
  <2> HIDE DEF k
  <2>2. Cardinality(k.by) \in {0, 1}
    BY <1>3, <2>1
  <2>3. Cardinality(k.disk) \in {0, 1}
    BY <1>4, <2>1
  <2> QED
    BY <2>2, <2>3
<1>6. IsDocument(k.mem) /\ \A d \in k.disk : IsDocument(d)
  BY <1>4, DocIs
<1>7. k.by = {} => k = [NoCopy EXCEPT !.disk = k.disk] /\ ~k.live /\ k.awaits = 0
  BY <1>1, LooseFields DEF Loose
<1>8. ASSUME NEW t \in Tabs, k.by = {t}
      PROVE  /\ k.live <=> tab[t].live = c
             /\ k.awaits # 0 => copies[k.awaits].by = {t} /\ copies[k.awaits].unsaved
  <2> DEFINE l == tab[t].live
             d == tab[t].doc
  <2>1. Good(t, l, d, copies, given)
    BY EachTab
  <2> HIDE DEF l, d
  <2>2. copies[c].by = {t}
    BY <1>8
  <2> HIDE DEF k
  <2>3. /\ copies[c].live <=> l = c
        /\ copies[c].awaits # 0 => copies[copies[c].awaits].by = {t} /\ copies[copies[c].awaits].unsaved
    BY <2>1, <2>2, HeldCopy
  <2> QED
    BY <2>3 DEF l, k
<1>9. k.live <=> \E t \in k.by : tab[t].live = c
  <2> HIDE DEF k
  <2>1. CASE k.by = {}
    BY <1>7, <2>1
  <2>2. ASSUME NEW t \in Tabs, k.by = {t} PROVE k.live <=> \E u \in k.by : tab[u].live = c
    BY <1>8, <2>2
  <2> QED
    BY <1>3, <2>1, <2>2
<1>10. k.awaits # 0 => copies[k.awaits].by = k.by /\ copies[k.awaits].unsaved
  <2> HIDE DEF k
  <2> QED
    BY <1>3, <1>7, <1>8
<1> HIDE DEF k
<1>11. /\ k.by = {} => k = [NoCopy EXCEPT !.disk = k.disk]
       /\ Cardinality(k.by) <= 1 /\ Cardinality(k.disk) <= 1
       /\ k.live <=> \E t \in k.by : tab[t].live = c
       /\ k.awaits # 0 => copies[k.awaits].by = k.by /\ copies[k.awaits].unsaved
       /\ IsDocument(k.mem) /\ \A d \in k.disk : IsDocument(d)
  BY <1>5, <1>6, <1>7, <1>9, <1>10
<1> QED
  BY <1>11 DEF k

\* A copy is nobody's or one tab's, follows that tab's document only if it is its live one, waits only for a queued one
\* of the same tab, and is on disk at most once.
THEOREM TabsTypeCorrect == Spec => []TabsTypeOK
<1>1. IInv => TabsTypeOK
  <2> SUFFICES ASSUME IInv PROVE TabsTypeOK
    OBVIOUS
  <2>1. ASSUME NEW t \in Tabs
        PROVE  /\ \A c \in ToSet(tab[t].restore) \cup tab[t].offered : copies[c].by = {t} /\ copies[c].end = "none"
               /\ tab[t].shown # 0 => tab[t].shown = tab[t].restore[1]
               /\ IsDocument(tab[t].doc)
    <3>1. Hand(copies, t, ToSet(tab[t].restore)) /\ Hand(copies, t, tab[t].offered) /\ Flags(tab[t]) /\ tab[t].doc \in Docs(given)
      BY EachTab
    <3> QED
      BY <3>1, DocIs DEF Hand, Flags
  <2>2. kept \subseteq Texts
    BY DEF IInv, Core
  <2> QED
    BY <2>1, <2>2, CopyTypes DEF TabsTypeOK
<1> QED
  BY <1>1, Invariance, PTL

\* What this browser has stored is on the relay or still stored, until a person cuts or discards it.
THEOREM StoredStaysKept == Spec => []StoredIsKept
<1>1. IInv => StoredIsKept
  <2> SUFFICES ASSUME IInv, NEW e \in kept, e # BaseText PROVE e \in Text(relay) \cup OnDisk \cup given
    BY DEF StoredIsKept
  <2>1. e \in Cover(copies, Safe(relay, given))
    BY DEF IInv, Core
  <2>2. e \in Safe(relay, given) \/ \E k \in Copies : \E d \in copies[k].disk : e \in Text(d)
    BY <2>1, InCover
  <2> QED
    BY <2>2 DEF Safe, OnDisk
<1> QED
  BY <1>1, Invariance, PTL

\* A text shown on the relay is shown by one item.
LEMMA ShownOnce ==
  ASSUME IInv, NEW e \in Texts \ stale, NEW i \in Shown(e), NEW j \in Shown(e)
  PROVE  i = j
<1>1. PICK M : Core(M, tab, copies, relay, typed, kept, given, large)
  BY DEF IInv
<1>2. relay \in Docs(given) /\ relay.has \cap M = {} /\ Texts \X {"offered"} \subseteq M
      /\ \A k \in relay.has : k[2] = "rebased" => k[1] \in Edits
  BY <1>1 DEF Core, Clean, Marks
<1>3. relay.has \subseteq Texts \X {"typed", "rebased", "offered"}
  BY <1>2, DocFields
<1>4. ASSUME NEW k \in Shown(e)
      PROVE  k \in relay.has /\ (k = <<e, "typed">> \/ (k = <<e, "rebased">> /\ e \in Edits))
  <2>1. k \in relay.has /\ k[1] = e /\ k \in Texts \X {"typed", "rebased", "offered"}
    BY <1>3 DEF Shown
  <2>2. k = <<e, k[2]>> /\ k[2] \in {"typed", "rebased", "offered"}
    BY <2>1
  <2>3. k[2] # "offered"
    BY <1>2, <2>1, <2>2
  <2> QED
    BY <1>2, <2>1, <2>2, <2>3
<1>5. ASSUME <<e, "typed">> \in relay.has, <<e, "rebased">> \in relay.has, e \in Edits PROVE FALSE
  BY <1>5 DEF IInv, Once, Both
<1> QED
  BY <1>4, <1>5

\* Nothing reaches the relay twice, except what a copy from before a rebase brings back.
THEOREM NothingTwice == Spec => []NeverTwice
<1>1. IInv => NeverTwice
  <2> SUFFICES ASSUME IInv, NEW e \in Texts \ stale PROVE Cardinality(Shown(e)) <= 1
    BY DEF NeverTwice
  <2>1. \A i \in Shown(e) : \A j \in Shown(e) : i = j
    BY ShownOnce
  <2> DEFINE S == Shown(e)
  <2> HIDE DEF S
  <2>2. S = {} \/ \E i : S = {i}
    BY <2>1 DEF S
  <2>3. Cardinality({}) = 0 /\ \A z : Cardinality({z}) = 1
    BY FS_EmptySet, FS_Singleton
  <2>4. Cardinality(S) \in {0, 1}
    BY <2>2, <2>3
  <2> QED
    BY <2>4 DEF S
<1> QED
  BY <1>1, Invariance, PTL

\* An editor that says it is synced, or asks nothing before it is left, has no text the relay lacks, but what was cut or
\* discarded.
THEOREM EditorIsHonest == Spec => []Honest
<1>1. IInv => Honest
  <2> SUFFICES ASSUME IInv, NEW t \in Tabs, tab[t].synced \/ (tab[t].at # "closed" /\ ~tab[t].unsynced)
               PROVE  tab[t].shown = 0 /\ Text(tab[t].doc) \subseteq Text(relay) \cup given
    BY DEF Honest
  <2>1. Flags(tab[t]) /\ Truth(tab[t], relay, given)
    BY EachTab
  <2>2. tab[t].shown = 0
    BY <2>1 DEF Flags
  <2>3. Text(tab[t].doc) \subseteq Text(relay) \cup given
    BY <2>1 DEF Truth
  <2> QED
    BY <2>2, <2>3
<1> QED
  BY <1>1, Invariance, PTL
=============================================================================
