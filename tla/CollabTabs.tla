----------------------------- MODULE CollabTabs -----------------------------
(***************************************************************************)
(* One note open in the tabs of one browser: the document of each tab      *)
(* (client hooks/useCollabDoc.ts), the copies the browser keeps of what    *)
(* the relay has not acknowledged (lib/collabStash.ts), and the relay as   *)
(* an editor sees it.  A Yjs document is a set of items, some of them cut  *)
(* (deleted); an item is a text and how it came to be, and texts are told  *)
(* apart, so a text that two items show is a text doubled.                 *)
(***************************************************************************)
EXTENDS Integers, Sequences, FiniteSets, SequencesExt

CONSTANTS
  Tabs,        \* tabs of one browser that have Web Locks and IndexedDB
  Edits,       \* what people type, each once
  Large,       \* those of Edits that may take the note over the size cap
  BaseText,    \* the note's text as the server seeded it
  MaxCopies,   \* bound: copies in existence at once
  MaxCloses,   \* bound: tabs closed or crashed
  MaxDrops,    \* bound: sockets dropped, refused as busy or stopped for good
  MaxRebases,  \* bound: texts put back by a rebase after a manual restore
  MaxFull,     \* bound: failed writes of the browser's storage
  MaxFaults    \* bound: all of these together

ASSUME TextsAssumption == Large \subseteq Edits /\ BaseText \notin Edits
ASSUME CopiesAssumption == MaxCopies \in Nat

VARIABLES
  tab,      \* each tab: its document, its connection and the hook's variables
  copies,   \* each copy: who holds its lock, its document, its records (disk), its queue
  relay,    \* the relay's document, which is logged before it is acknowledged
  typed,    \* the edits typed so far
  kept,     \* ghost: the edits that ever were on disk
  given,    \* ghost: the edits a person cut or discarded
  stale,    \* ghost: the edits a copy from before a rebase brought back
  large,    \* those of Large that do, for good
  faults    \* how often each bounded event happened

vars == <<tab, copies, relay, typed, kept, given, stale, large, faults>>

Copies == 1 .. MaxCopies
Texts == Edits \cup {BaseText}
Empty == [has |-> {}, cut |-> {}]
Join(a, b) == [has |-> a.has \cup b.has, cut |-> a.cut \cup b.cut]
Within(a, b) == a.has \subseteq b.has /\ a.cut \subseteq b.cut
Text(d) == {i[1] : i \in d.has \ d.cut}
Plain(ts, how) == [has |-> ts \X {how}, cut |-> {}]
\* Mutant: any two documents are taken for one history.
AlwaysShares(a, b) == TRUE
SharesHistory(a, b) == a.has \cap b.has # {}

NoCopy == [by |-> {}, live |-> FALSE, mem |-> Empty, disk |-> {}, unsaved |-> FALSE, stored |-> TRUE, end |-> "none", awaits |-> 0]
Closed == [at |-> "closed", doc |-> Empty, net |-> "down", acked |-> Empty, synced |-> FALSE, unsynced |-> FALSE, live |-> 0, restore |-> <<>>, shown |-> 0, offered |-> {},
           due |-> FALSE, looked |-> FALSE, watch |-> {}]

Init ==
  /\ tab = [t \in Tabs |-> Closed]
  /\ copies = [c \in Copies |-> NoCopy]
  /\ relay = Plain({BaseText}, "typed")
  /\ typed = {} /\ kept = {} /\ given = {} /\ stale = {}
  /\ large \in SUBSET Large
  /\ faults = [closes |-> 0, drops |-> 0, rebases |-> 0, full |-> 0]

Bounded(kind, max) ==
  /\ faults[kind] < max /\ faults.closes + faults.drops + faults.rebases + faults.full < MaxFaults
  /\ faults' = [faults EXCEPT ![kind] = @ + 1]
Open(t) == tab[t].at = "open"
Content(c) == IF copies[c].live THEN tab[CHOOSE t \in copies[c].by : TRUE].doc ELSE copies[c].mem
-----------------------------------------------------------------------------
(* The hook's functions, on a tab and the copies *)

Now(t) == [tab |-> tab[t], copies |-> copies]
Become(t, w) == tab' = [tab EXCEPT ![t] = w.tab] /\ copies' = w.copies

Free(cs) == {c \in Copies : cs[c] = NoCopy /\ \A t \in Tabs : c \notin tab[t].watch}
FirstFree(cs) == CHOOSE c \in Free(cs) : \A d \in Free(cs) : c <= d
\* There is a name left for the copy a step may begin.
Room == Free(copies) # {}

\* keep: the live document gets a copy in this browser; its release is off.
Keep(w, t) ==
  IF w.tab.live # 0 THEN [w EXCEPT !.tab.due = FALSE]
  ELSE LET c == FirstFree(w.copies)
       IN [w EXCEPT !.tab.due = FALSE, !.tab.live = c, !.copies[c] = [NoCopy EXCEPT !.by = {t}, !.live = TRUE, !.unsaved = TRUE]]

\* A change of the live document is queued for its copy, wherever it came from.
SetDoc(w, d) ==
  LET changed == [w EXCEPT !.tab.doc = d]
  IN IF d # w.tab.doc /\ w.tab.live # 0 THEN [changed EXCEPT !.copies[w.tab.live].unsaved = TRUE] ELSE changed

\* `dirty` and the state `unsynced`, which go together.
Unsent(w) == [w EXCEPT !.tab.unsynced = TRUE]

\* The copy stops following the tab's document; `how` it ends when what is queued before has run.
Detach(w, c, how) == [w EXCEPT !.copies[c].mem = w.tab.doc, !.copies[c].live = FALSE, !.copies[c].end = how]
Drop(w, unsent) ==
  IF w.tab.live = 0 THEN w ELSE [Detach(w, w.tab.live, IF unsent THEN "close" ELSE "release") EXCEPT !.tab.live = 0]

\* Mutant: deleted whether or not the other was stored.
AfterAnyFlush(ok) == "release"
\* A copy that is deleted only once another holds the same: stored, it is released, else kept.
AfterFlush(ok) == IF ok THEN "release" ELSE "close"
\* Mutant: it waits for a write also when none is queued.
AwaitsAnyway(w, c, other) == [w EXCEPT !.copies[c].awaits = other]
Await(w, c, other) ==
  IF w.copies[other].unsaved THEN [w EXCEPT !.copies[c].awaits = other]
  ELSE [w EXCEPT !.copies[c].end = AfterFlush(w.copies[other].stored)]

MergeCopy(w, t, c) ==
  LET own == w.copies[c].mem
      joined == SetDoc(Keep(Unsent(w), t), Join(w.tab.doc, own))
  IN IF SharesHistory(own, w.tab.doc) THEN Await(joined, c, joined.tab.live)
     ELSE [w EXCEPT !.tab.offered = @ \cup {c}]

\* The copies are merged in their order, each into what the ones before it left.
Merge(w, t) ==
  LET found == w.tab.restore
      met[n \in 0 .. Len(found)] ==
        IF n = 0 THEN [w EXCEPT !.tab.restore = <<>>, !.tab.shown = 0] ELSE MergeCopy(met[n - 1], t, found[n])
  IN met[Len(found)]

\* Mutant: a handshake counts as acknowledgement.
AckedByHandshake(r) == r.net = "synced"
\* acked: the relay's state is here and it has everything of this document.
Acked(r) == r.net = "synced" /\ Within(r.doc, r.acked)

Settle(w, t) ==
  LET m == IF w.tab.net = "synced" /\ w.tab.restore # <<>> THEN Merge(w, t) ELSE w
      done == Acked(m.tab)
  IN IF done /\ m.tab.restore = <<>>
     THEN [m EXCEPT !.tab.synced = TRUE, !.tab.unsynced = FALSE, !.tab.due = m.tab.live # 0]
     ELSE [m EXCEPT !.tab.synced = done, !.tab.due = FALSE]

\* The effect's cleanup: copies not merged, and those offered when the tab leaves the note, are kept for the next visit.
PutBack(w, cs) == [w EXCEPT !.copies = [c \in Copies |-> IF c \in cs THEN [@[c] EXCEPT !.end = "close"] ELSE @[c]]]

\* The texts a merge brings back under the item they had before a rebase put them back as new ones.
Back(before, after) == {e \in Edits : <<e, "typed">> \in after.has \ before.has /\ <<e, "rebased">> \in relay.has}
-----------------------------------------------------------------------------
(* Mounting, and the copies left by tabs that are gone *)

OpenNote(t) ==
  /\ tab[t].at = "closed" /\ tab' = [tab EXCEPT ![t].at = "open"]
  /\ UNCHANGED <<copies, relay, typed, kept, given, stale, large, faults>>

\* The claimed copies are read under their locks; an empty one is not worth a restore.
Claimed(w, t, cs) ==
  [w EXCEPT !.copies = [c \in Copies |-> IF c \notin cs THEN @[c]
     ELSE LET d == CHOOSE d \in @[c].disk : TRUE
          IN [@[c] EXCEPT !.by = {t}, !.mem = d, !.end = IF d.has = {} THEN "release" ELSE "none"]]]
Worth(c) == \E d \in copies[c].disk : d.has # {}

LookForCopies(t) ==
  LET left == {c \in Copies : copies[c].disk # {} /\ copies[c].by = {}}
      found == {c \in left : Worth(c)}
      w == Claimed(Now(t), t, left)
  IN /\ tab[t].at # "closed" /\ ~tab[t].looked /\ Room
     /\ \E order \in SetToSeqs(found) :
          LET met == IF found = {} THEN w
                     ELSE Settle([Unsent(w) EXCEPT !.tab.restore = order \o @, !.tab.shown = order[1]], t)
          IN Become(t, [met EXCEPT !.tab.looked = TRUE, !.tab.watch = {c \in Copies : copies[c].disk # {} /\ copies[c].by # {}}])
     /\ stale' = stale \cup Back(tab[t].doc, tab'[t].doc)
     /\ UNCHANGED <<relay, typed, kept, given, large, faults>>

\* A copy this tab saw held is free: what is left of it is claimed, unless its owner sent it or another tab was first.
ClaimLate(t, c) ==
  /\ tab[t].at # "closed" /\ c \in tab[t].watch /\ copies[c].by = {} /\ Room
  /\ LET w == [Now(t) EXCEPT !.tab.watch = @ \ {c}]
         claimed == Claimed(w, t, {c})
     IN Become(t, IF copies[c].disk = {} THEN w
                  ELSE IF ~Worth(c) THEN claimed
                  ELSE Settle([Unsent(claimed) EXCEPT !.tab.restore = Append(@, c)], t))
  /\ stale' = stale \cup Back(tab[t].doc, tab'[t].doc)
  /\ UNCHANGED <<relay, typed, kept, given, large, faults>>
-----------------------------------------------------------------------------
(* The relay *)

\* The socket drops, or the relay refuses for a moment (store-busy): what is unacknowledged is sent again later.
SocketDrops(t) ==
  /\ Open(t) /\ tab[t].net = "synced" /\ Bounded("drops", MaxDrops)
  /\ Become(t, Settle([Now(t) EXCEPT !.tab.net = "down"], t))
  /\ UNCHANGED <<relay, typed, kept, given, stale, large>>

\* Access was pulled, the session ended or the note is gone: the first reason stands, and nothing is read any more.
StopForGood(t) ==
  /\ Open(t) /\ Bounded("drops", MaxDrops) /\ tab' = [tab EXCEPT ![t].at = "stopped"]
  /\ UNCHANGED <<copies, relay, typed, kept, given, stale, large>>

\* Mutant: the relay takes any document in.
NeverMissed(d) == FALSE
\* The document holds items the relay has not, and lacks the note's latest rebase.
MissedRebase(d) ==
  LET marks == {i \in relay.has : i[2] = "rebased"} IN d.has \ relay.has # {} /\ marks \ d.has # {}

\* A ticket, an open socket and the first sync, at first or again, also of a new provider with the same document: the
\* relay's document arrives and meets the copies found so far.
Handshake(t) ==
  LET w == SetDoc([Now(t) EXCEPT !.tab.net = "synced", !.tab.acked = Empty], Join(tab[t].doc, relay))
  IN /\ Open(t) /\ tab[t].net = "down" /\ ~MissedRebase(tab[t].doc) /\ Room
     /\ Become(t, Settle(w, t)) /\ stale' = stale \cup Back(w.tab.doc, tab'[t].doc)
     /\ UNCHANGED <<relay, typed, kept, given, large, faults>>

\* First sync refused (note-rebased): a new document, and the old one's text is offered as a copy of its own.
StartOver(t) ==
  LET c == FirstFree(copies)
      old == tab[t].live
      offer == [Now(t) EXCEPT !.copies[c] = [NoCopy EXCEPT !.by = {t}, !.unsaved = TRUE,
                                                           !.mem = Plain(Text(tab[t].doc), "offered")]]
      handed == IF old = 0 THEN offer ELSE Await(Detach(offer, old, "none"), old, c)
  IN /\ Open(t) /\ tab[t].net = "down" /\ MissedRebase(tab[t].doc) /\ Room
     /\ Become(t, [PutBack(handed, ToSet(tab[t].restore)) EXCEPT
                     !.tab = [Closed EXCEPT !.at = "open", !.offered = tab[t].offered \cup {c}]])
     /\ UNCHANGED <<relay, typed, kept, given, stale, large, faults>>

\* The cap: a document that shows a large text does not fit.
Fits(d) == Text(d) \cap large = {}

\* What the tab sends is logged and applied.
RelayTakes(t) ==
  /\ Open(t) /\ tab[t].net = "synced" /\ ~Within(tab[t].doc, relay) /\ Fits(Join(relay, tab[t].doc))
  /\ relay' = Join(relay, tab[t].doc)
  /\ UNCHANGED <<tab, copies, typed, kept, given, stale, large, faults>>

Logged(d) == [has |-> d.has \cap relay.has, cut |-> d.cut \cap relay.cut]
Ack(t) ==
  /\ Open(t) /\ tab[t].net = "synced" /\ ~Within(Logged(tab[t].doc), tab[t].acked)
  /\ Become(t, Settle([Now(t) EXCEPT !.tab.acked = Logged(tab[t].doc)], t))
  /\ UNCHANGED <<relay, typed, kept, given, stale, large, faults>>

\* What others typed; nothing of it is this tab's to send.
Receive(t) ==
  /\ Open(t) /\ tab[t].net = "synced" /\ ~Within(relay, tab[t].doc)
  /\ LET w == SetDoc(Now(t), Join(tab[t].doc, relay))
     IN Become(t, [w EXCEPT !.tab.acked = Join(@, relay)])
  /\ UNCHANGED <<relay, typed, kept, given, stale, large, faults>>

\* Too large: no reconnect until the person has cut the note down.
Refuse(t) ==
  /\ Open(t) /\ tab[t].net = "synced" /\ ~Fits(Join(relay, tab[t].doc))
  /\ Become(t, Settle([Now(t) EXCEPT !.tab.at = "refused", !.tab.net = "down"], t))
  /\ UNCHANGED <<relay, typed, kept, given, stale, large, faults>>

\* A manual restore takes items out of the log and the server restarts; a rebase puts their text back as new items.
Rebase ==
  /\ Bounded("rebases", MaxRebases)
  /\ \E es \in SUBSET {e \in Edits : <<e, "typed">> \in relay.has \ relay.cut} \ {{}} :
       relay' = [relay EXCEPT !.has = (@ \ (es \X {"typed"})) \cup (es \X {"rebased"})]
  /\ LET lost == [t \in Tabs |-> IF Open(t) THEN [tab[t] EXCEPT !.net = "down", !.synced = FALSE, !.due = FALSE] ELSE tab[t]]
     IN tab' = lost
  /\ UNCHANGED <<copies, typed, kept, given, stale, large>>
-----------------------------------------------------------------------------
(* The person *)

\* A restored copy is what the person types into until it is merged.
Type(t, e) ==
  LET w == Now(t)
      item == Plain({e}, "typed")
  IN /\ tab[t].at \in {"open", "refused"} /\ e \notin typed /\ Room
     /\ typed' = typed \cup {e}
     /\ IF tab[t].shown # 0
        THEN Become(t, [w EXCEPT !.copies[tab[t].shown].mem = Join(@, item), !.copies[tab[t].shown].unsaved = TRUE])
        ELSE Become(t, Settle(SetDoc(Keep(Unsent(w), t), Join(tab[t].doc, item)), t))
     /\ UNCHANGED <<relay, kept, given, stale, large, faults>>

\* The document rebuilt without the deleted text, and its copy: the old copy goes once the new one is stored.
Rebuilt(w, t) ==
  LET c == FirstFree(w.copies)
      fresh == [Detach(w, w.tab.live, "none") EXCEPT !.copies[c] = [NoCopy EXCEPT !.by = {t}, !.live = TRUE, !.unsaved = TRUE]]
  IN [PutBack(Await(fresh, w.tab.live, c), ToSet(w.tab.restore)) EXCEPT
       !.tab = [Closed EXCEPT !.at = "open", !.doc = w.tab.doc, !.unsynced = TRUE, !.live = c,
                              !.offered = w.tab.offered]]

\* Cutting a large text; once the document fits it is sent again, on a new provider or, past the frame limit, rebuilt.
Cut(t, e) ==
  LET cut == SetDoc(Keep(Unsent(Now(t)), t), [tab[t].doc EXCEPT !.cut = @ \cup ({e} \X {"typed"})])
  IN /\ tab[t].at \in {"open", "refused"} /\ tab[t].shown = 0 /\ e \in large \cap Text(tab[t].doc) /\ Room
     /\ given' = given \cup {e}
     /\ \/ /\ tab[t].at = "open" \/ ~Fits(cut.tab.doc)
           /\ Become(t, Settle(cut, t))
        \/ /\ tab[t].at = "refused" /\ Fits(cut.tab.doc)
           /\ \E again \in {[Settle(cut, t) EXCEPT !.tab.at = "open"], Rebuilt(cut, t)} : Become(t, again)
     /\ UNCHANGED <<relay, typed, kept, stale, large, faults>>

Discard(t) ==
  /\ tab[t].offered # {}
  /\ given' = given \cup UNION {Text(copies[c].mem) : c \in tab[t].offered}
  /\ Become(t, [Now(t) EXCEPT !.tab.offered = {},
       !.copies = [c \in Copies |-> IF c \in tab[t].offered THEN [@[c] EXCEPT !.end = "release"] ELSE @[c]]])
  /\ UNCHANGED <<relay, typed, kept, stale, large, faults>>

\* Leaving the note: what is unsent stays in this browser, and the provider may still get it across.
CloseNote(t) ==
  LET w == PutBack(Drop(Now(t), tab[t].unsynced), ToSet(tab[t].restore) \cup tab[t].offered)
  IN /\ tab[t].at # "closed" /\ Bounded("closes", MaxCloses)
     /\ Become(t, [w EXCEPT !.tab = Closed])
     /\ \/ relay' = relay
        \/ Open(t) /\ tab[t].net = "synced" /\ Fits(Join(relay, tab[t].doc)) /\ relay' = Join(relay, tab[t].doc)
     /\ UNCHANGED <<typed, kept, given, stale, large>>

\* The tab's process ends, also while copies of a note it left are being closed: its locks go with it.
Crash(t) ==
  /\ tab[t].at # "closed" \/ \E c \in Copies : t \in copies[c].by
  /\ Bounded("closes", MaxCloses)
  /\ tab' = [tab EXCEPT ![t] = Closed]
  /\ copies' = [c \in Copies |-> IF t \in copies[c].by THEN [NoCopy EXCEPT !.disk = copies[c].disk] ELSE copies[c]]
  /\ UNCHANGED <<relay, typed, kept, given, stale, large>>
-----------------------------------------------------------------------------
(* The browser's storage *)

\* The copy's queued write; what waited for it ends.
Written(c, ok) ==
  [k \in Copies |->
     IF k = c THEN [copies[c] EXCEPT !.disk = IF ok THEN {Content(c)} ELSE @, !.unsaved = FALSE, !.stored = ok]
     ELSE IF copies[k].awaits = c THEN [copies[k] EXCEPT !.awaits = 0, !.end = AfterFlush(ok)]
     ELSE copies[k]]
Write(c) ==
  /\ copies[c].unsaved
  /\ \/ copies' = Written(c, TRUE) /\ kept' = kept \cup Text(Content(c)) /\ UNCHANGED faults
     \/ Bounded("full", MaxFull) /\ copies' = Written(c, FALSE) /\ UNCHANGED kept
  /\ UNCHANGED <<tab, relay, typed, given, stale, large>>

\* close: what is not stored yet is written once more, then the lock goes; release: the records are deleted.
End(c) ==
  LET left(disk) == copies' = [copies EXCEPT ![c] = [NoCopy EXCEPT !.disk = disk]]
  IN /\ copies[c].end # "none" /\ ~copies[c].unsaved
     /\ \/ /\ copies[c].end = "close" /\ left(IF copies[c].stored THEN copies[c].disk ELSE {copies[c].mem})
           /\ kept' = IF copies[c].stored THEN kept ELSE kept \cup Text(copies[c].mem)
           /\ UNCHANGED faults
        \/ copies[c].end = "release" /\ left({}) /\ UNCHANGED <<kept, faults>>
        \/ /\ (copies[c].end = "release" \/ ~copies[c].stored) /\ Bounded("full", MaxFull)
           /\ left(copies[c].disk) /\ UNCHANGED kept
     /\ UNCHANGED <<tab, relay, typed, given, stale, large>>

\* RELEASE_MS after everything was acknowledged, and still is: the live copy goes.
ReleaseDue(t) ==
  /\ tab[t].due
  /\ Become(t, [(IF Acked(tab[t]) THEN Drop(Now(t), FALSE) ELSE Now(t)) EXCEPT !.tab.due = FALSE])
  /\ UNCHANGED <<relay, typed, kept, given, stale, large, faults>>
-----------------------------------------------------------------------------
Next ==
  \/ Rebase
  \/ \E c \in Copies : Write(c) \/ End(c)
  \/ \E t \in Tabs : \/ OpenNote(t) \/ LookForCopies(t) \/ SocketDrops(t) \/ StopForGood(t)
                     \/ Handshake(t) \/ StartOver(t) \/ RelayTakes(t) \/ Ack(t) \/ Receive(t) \/ Refuse(t)
                     \/ Discard(t) \/ CloseNote(t) \/ Crash(t) \/ ReleaseDue(t)
                     \/ (\E c \in Copies : ClaimLate(t, c)) \/ (\E e \in Edits : Type(t, e)) \/ (\E e \in Large : Cut(t, e))

Spec == Init /\ [][Next]_vars
\* Providers retry, the relay answers, promises and timers of an open page go on; nobody has to type, close or discard.
Fairness ==
  /\ \A t \in Tabs : /\ WF_vars(LookForCopies(t)) /\ WF_vars(Handshake(t)) /\ WF_vars(StartOver(t))
                     /\ WF_vars(RelayTakes(t)) /\ WF_vars(Refuse(t)) /\ WF_vars(Ack(t)) /\ \A c \in Copies : WF_vars(ClaimLate(t, c))
  /\ \A c \in Copies : WF_vars(Write(c)) /\ WF_vars(End(c))
FairSpec == Spec /\ Fairness
-----------------------------------------------------------------------------
Documents == [has : SUBSET (Texts \X {"typed", "rebased", "offered"}), cut : SUBSET (Large \X {"typed"})]
IsDocument(d) == DOMAIN d = {"has", "cut"} /\ d.cut \subseteq Large \X {"typed"}
                 /\ d.has \subseteq Texts \X {"typed", "rebased", "offered"}

\* What a copy is: a copy that is on disk under nobody's lock has no queue, one that follows a live document is that
\* tab's only one, and a copy waits only for one of the same tab that has a write queued.
TabsTypeOK ==
  /\ \A c \in Copies :
       /\ copies[c].by = {} => copies[c] = [NoCopy EXCEPT !.disk = copies[c].disk]
       /\ Cardinality(copies[c].by) <= 1 /\ Cardinality(copies[c].disk) <= 1
       /\ copies[c].live <=> \E t \in copies[c].by : tab[t].live = c
       /\ copies[c].awaits # 0 => copies[copies[c].awaits].by = copies[c].by /\ copies[copies[c].awaits].unsaved
       /\ IsDocument(copies[c].mem) /\ \A d \in copies[c].disk : IsDocument(d)
  /\ \A t \in Tabs :
       /\ \A c \in ToSet(tab[t].restore) \cup tab[t].offered : copies[c].by = {t} /\ copies[c].end = "none"
       /\ tab[t].shown # 0 => tab[t].shown = tab[t].restore[1]
       /\ IsDocument(tab[t].doc)
  /\ kept \subseteq Texts

OnDisk == UNION {Text(d) : d \in UNION {copies[c].disk : c \in Copies}}
\* Text this browser has stored is on the relay, or still stored, until a person cuts or discards it: whatever closes,
\* crashes, fails to write, merges, is rebuilt or starts over.
StoredIsKept == kept \ {BaseText} \subseteq Text(relay) \cup OnDisk \cup given

Shown(e) == {i \in relay.has \ relay.cut : i[1] = e}
\* Nothing reaches the relay twice, whichever tabs restore and send what; except what a copy from before a rebase holds.
NeverTwice == \A e \in Texts \ stale : Cardinality(Shown(e)) <= 1

\* What the hook says of a restored copy: "whatever the relay already has is not applied twice".
MergedOnce == \A e \in Texts : Cardinality(Shown(e)) <= 1

\* What the editor says of itself: "synced", or asking nothing before it is left, means the relay has all of its text.
Honest ==
  \A t \in Tabs : tab[t].synced \/ (tab[t].at # "closed" /\ ~tab[t].unsynced) =>
                   /\ tab[t].shown = 0 /\ Text(tab[t].doc) \subseteq Text(relay) \cup given

\* "Leaving the page then loses it unless this browser's copy survives, so the hook asks before unload": text whose
\* only place is a tab that has tried to store it is not left without being asked.
Queued == UNION {Text(Content(c)) : c \in {c \in Copies : copies[c].unsaved \/ copies[c].end = "close"}}
AsksFirst ==
  \A t \in Tabs : ~tab[t].unsynced => \A c \in tab[t].offered :
    Text(copies[c].mem) \subseteq Text(relay) \cup OnDisk \cup Queued \cup given

\* A copy with text the relay lacks that a tab has found or waits for, and nobody is asked about.
Seen(t, e) ==
  /\ Open(t) /\ e \notin Text(relay) \cup given
  /\ \E c \in tab[t].watch \cup ToSet(tab[t].restore) :
       /\ \E d \in copies[c].disk : e \in Text(d)
       /\ \A u \in copies[c].by : Open(u) /\ c \notin tab[u].offered
\* What a tab left or has not sent yet is sent or offered, by itself or by a tab that saw its copy, also one that waited
\* for its lock.
CopiesMeet == \A t \in Tabs, e \in Edits : Seen(t, e) ~> ~Seen(t, e)
=============================================================================
