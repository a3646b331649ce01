----------------------------- MODULE TextMerge ------------------------------
(***************************************************************************)
(* The three-way merge of an edit made from an older revision              *)
(* (sync/three-way-merge.ts): the line hunks of both sides' diffs from the *)
(* base, grouped where they touch, a group of both sides merged per        *)
(* character or refused.  The merged text is then written into the live    *)
(* one by its diff (TextDiff).                                             *)
(***************************************************************************)
EXTENDS TextDiff

CONSTANTS
  Inputs,        \* the base, the text now and the edit's text, of each merge
  Later,         \* what may be typed at the end before an edit is sent again
  Deadlines,     \* rounds of search until a deadline passes
  Typed, Wanted  \* code points found in the text now only, and in the edit's text only

VARIABLES base, theirs, mine, result
textVars == <<base, theirs, mine, result>>

NoResult == [by |-> "none", text |-> <<>>, overlaps |-> 0, edits |-> <<>>, time |-> 0]
TextInit == \E i \in Inputs : base = i[1] /\ theirs = i[2] /\ mine = i[3] /\ result = NoResult
-----------------------------------------------------------------------------
(* Hunks of both sides: `start` to `end` of the base become `new` *)

Sided(hunks, isMine) ==
  {[start |-> h.start, end |-> h.end, new |-> h.new, mine |-> isMine] : h \in ToSet(hunks)}
\* By start; at one start an insertion first.
Earlier(g, h) ==
  \/ g.start < h.start
  \/ g.start = h.start /\ (g.end < h.end \/ (g.end = h.end /\ ~g.mine /\ h.mine))

\* Mutant: a change that starts in the other side's is a group of its own.
Apart(group, h) == FALSE
\* A hunk belongs to a group it starts in, or where both only insert at one point.
Touches(group, h) == h.start < group.end \/ (h.start = group.end /\ h.end = h.start /\ group.start = group.end)
Groups(theirHunks, myHunks) ==
  LET add(out, h) ==
        IF out # <<>> /\ Touches(Last(out), h)
        THEN Append(Front(out), [Last(out) EXCEPT !.end = Larger(@, h.end), !.hunks = Append(@, h)])
        ELSE Append(out, [start |-> h.start, end |-> h.end, hunks |-> <<h>>])
  IN FoldLeft(add, <<>>, SetToSortSeq(Sided(theirHunks, FALSE) \cup Sided(myHunks, TRUE), Earlier))

\* sideLines, sideText: a group's part of the base with one side's hunks applied.
Side(from, group, isMine) ==
  LET put(s, h) == IF h.mine # isMine THEN s
                   ELSE [out |-> s.out \o Cut(from, s.at, h.start) \o h.new, at |-> h.end]
      all == FoldLeft(put, [out |-> <<>>, at |-> group.start], group.hunks)
  IN all.out \o Cut(from, all.at, group.end)
Has(group, isMine) == \E i \in DOMAIN group.hunks : group.hunks[i].mine = isMine

\* The groups of the two sides put into the base; made[i] is what the i-th becomes: [new, overlap].
Merged(from, groups, made) ==
  LET put(s, i) == LET m == made[i]
                   IN [out |-> s.out \o Cut(from, s.at, groups[i].start) \o m.new, at |-> groups[i].end,
                       overlaps |-> s.overlaps + (IF m.overlap THEN 1 ELSE 0)]
      all == FoldLeft(put, [out |-> <<>>, at |-> 0, overlaps |-> 0], [i \in DOMAIN groups |-> i])
  IN [text |-> all.out \o Cut(from, all.at, Len(from)), overlaps |-> all.overlaps]

\* Mutant: where both sides changed the characters, the edit's stay.
MineOf(theirText, myText) == myText
TheirsOf(theirText, myText) == theirText
\* mergeCharacters: theirs stays where both changed the same characters.
MergeCharacters(from, theirText, myText, time) ==
  LET hunks(edits) == [i \in DOMAIN edits |->
                         [start |-> edits[i].at, end |-> edits[i].at + edits[i].remove, new |-> edits[i].insert]]
      merge(group) == LET t == Side(from, group, FALSE)
                          m == Side(from, group, TRUE)
                      IN IF Has(group, TRUE) /\ Has(group, FALSE) THEN [new |-> TheirsOf(t, m), overlap |-> m # t]
                         ELSE [new |-> IF Has(group, TRUE) THEN m ELSE t, overlap |-> FALSE]
      all(groups) == Merged(from, groups, [i \in DOMAIN groups |-> merge(groups[i])])
  IN all(Groups(hunks(DiffText(from, theirText, time)), hunks(DiffText(from, myText, time))))

Content(line) == IF line # <<>> /\ Last(line) = NL THEN Front(line) ELSE line
\* Mutant: an appended line that the text has elsewhere is added again.
NeverPresent(rest, theirLines) == FALSE
\* An appended line that is not blank is among their lines, not at their end.
Present(rest, theirLines) ==
  \E i \in DOMAIN rest, j \in DOMAIN theirLines : ~Blank(rest[i]) /\ Content(rest[i]) = Content(theirLines[j])

\* appendedAtEnd: the lines the edit added after the base's last one go after theirs, once; <<>> where they may not.
AppendedAtEnd(from, theirLines, myText) ==
  LET ended == from = <<>> \/ Last(from) = NL
      added == Cut(myText, Len(from) + (IF ended THEN 0 ELSE 1), Len(myText))
      lines == Lines(added)
      held == Max({n \in 0 .. Least(Len(lines), Len(theirLines)) :
                     Cut(lines, 0, n) = Cut(theirLines, Len(theirLines) - n, Len(theirLines))})
      rest == Cut(lines, held, Len(lines))
      closed == IF rest # <<>> /\ theirLines # <<>> /\ Last(Last(theirLines)) # NL
                THEN Append(Front(theirLines), Append(Last(theirLines), NL)) ELSE theirLines
  IN IF ~IsPrefix(from, myText) \/ (~ended /\ (Len(myText) = Len(from) \/ myText[Len(from) + 1] # NL)) \/ Present(rest, theirLines)
     THEN [ok |-> FALSE, lines |-> <<>>] ELSE [ok |-> TRUE, lines |-> closed \o rest]

\* A group of lines, with an overlap that refuses the merge (mergeText) or keeps theirs (mergeTextKeepingTheirs).
MergeGroup(lines, group, keepTheirs, time) ==
  LET t == FlattenSeq(Side(lines, group, FALSE))
      m == FlattenSeq(Side(lines, group, TRUE))
      before == FlattenSeq(Cut(lines, group.start, group.end))
      appended == AppendedAtEnd(before, Side(lines, group, FALSE), m)
      characters(chars) == [new |-> <<chars.text>>, overlap |-> chars.overlaps > 0]
  IN CASE ~Has(group, TRUE) -> [new |-> <<t>>, overlap |-> FALSE]
       [] Has(group, TRUE) /\ (~Has(group, FALSE) \/ m = t) -> [new |-> <<m>>, overlap |-> FALSE]
       [] Has(group, TRUE) /\ Has(group, FALSE) /\ m # t ->
            IF group.end = Len(lines) /\ appended.ok THEN [new |-> appended.lines, overlap |-> FALSE]
            ELSE IF keepTheirs THEN characters(MergeCharacters(before, t, m, time))
            ELSE [new |-> <<m>>, overlap |-> TRUE]
MergeLines(from, now, wanted, keepTheirs, time) ==
  LET lines == Lines(from)
      groups == Groups(DiffLines(from, now, time), DiffLines(from, wanted, time))
      flat(all) == [text |-> FlattenSeq(all.text), overlaps |-> all.overlaps]
  IN flat(Merged(lines, groups, [i \in DOMAIN groups |-> MergeGroup(lines, groups[i], keepTheirs, time)]))
-----------------------------------------------------------------------------
(* The writes that merge *)

\* The merged text is diffed with the text now; a refused merge writes nothing.
Answer(by, now, m, keepTheirs, time) ==
  LET refused == m.overlaps > 0 /\ ~keepTheirs
  IN [by |-> by, text |-> IF refused THEN now ELSE m.text, overlaps |-> m.overlaps,
      edits |-> IF refused THEN <<>> ELSE DiffText(now, m.text, time), time |-> time]
Merge(by, now, keepTheirs, time) ==
  result' = Answer(by, now, MergeLines(base, now, mine, keepTheirs, time), keepTheirs, time)

\* edit_note with a base_rev.
EditFromBase == result = NoResult /\ UNCHANGED <<base, theirs, mine>> /\ \E t \in Deadlines : Merge("edit", theirs, FALSE, t)

\* A row changed behind the store is merged into the acked text.
RebaseRow == result = NoResult /\ UNCHANGED <<base, theirs, mine>> /\ \E t \in Deadlines : Merge("rebase", theirs, TRUE, t)

\* The answer is lost: more is typed, and the same edit is sent again from the same base.
SendAgain ==
  /\ result.by = "edit" /\ result.overlaps = 0
  /\ \E more \in Later : theirs' = result.text \o more /\ Merge("again", theirs', FALSE, result.time)
  /\ UNCHANGED <<base, mine>>

TextNext == EditFromBase \/ RebaseRow \/ SendAgain
TextSpec == TextInit /\ [][TextNext]_textVars
-----------------------------------------------------------------------------
(* Properties *)

Only(points, text) == SelectSeq(CodePoints(text), LAMBDA c : c \in points)
\* Code points of the base, each once.
Kept == {c \in ToSet(CodePoints(base)) : c # <<NL>>}
In(c, text) == c \in ToSet(CodePoints(text))

\* "Applying only the characters that differ keeps every untouched character's identity" (text-diff.ts): the edits turn
\* the text into the merged one, are apart, part no surrogate pair, and are the fewest when the change is small.
DiffExact ==
  LET e == result.edits
      changed == Distance(CodePoints(theirs), CodePoints(result.text))
      points(s) == Len(CodePoints(s))
      ends == CommonEnds(theirs, result.text)
      small == Len(theirs) + Len(result.text) - 2 * (ends[1] + ends[2]) <= ExactUnits
      cost(i) == points(Cut(theirs, e[i].at, e[i].at + e[i].remove)) + points(e[i].insert)
  IN result.by # "none" =>
       /\ Applied(theirs, e) = result.text
       /\ \A i \in DOMAIN e : Whole(theirs, e[i].at) /\ Whole(theirs, e[i].at + e[i].remove)
       /\ \A i \in 1 .. Len(e) - 1 : e[i].at + e[i].remove < e[i + 1].at
       /\ small /\ result.time = Max(Deadlines) => FoldLeft(LAMBDA n, i : n + cost(i), 0, [i \in DOMAIN e |-> i]) = changed

\* "text changed since the base is never overwritten": a merge that is not refused has all that either side typed, in
\* its order, and of the base what both left.
BothKept ==
  result.by = "edit" /\ result.overlaps = 0 =>
    /\ Only(Typed, result.text) = Only(Typed, theirs) /\ Only(Wanted, result.text) = Only(Wanted, mine)
    /\ \A c \in Kept : In(c, result.text) <=> In(c, theirs) /\ In(c, mine)

\* Both diffs from the base were exact: small, and in time.
Exact == result.time = Max(Deadlines) /\ \A to \in {theirs, mine} : Len(base) + Len(to) <= ExactUnits
\* "acked typing, theirs, stays in the text": a rebase loses nothing that was typed, whatever the deadline does; what it
\* leaves out of the row it reports; and where the diffs are exact it brings back nothing that was deleted.
TypingStays ==
  result.by = "rebase" =>
    /\ Only(Typed, result.text) = Only(Typed, theirs)
    /\ result.overlaps = 0 => Only(Wanted, result.text) = Only(Wanted, mine)
    /\ Exact => \A c \in Kept : /\ In(c, result.text) => In(c, theirs)
                               /\ result.overlaps = 0 => (In(c, result.text) <=> In(c, theirs) /\ In(c, mine))

\* The edit only added whole lines after the base's last one.
Appended == Cut(mine, Len(base), Len(mine))
WholeLines == IsPrefix(base, mine) /\ (base = <<>> \/ Last(base) = NL \/ (Appended # <<>> /\ Appended[1] = NL))
Contents(text) == {Content(l) : l \in ToSet(Lines(text))}
Doubled == result.by = "again" /\ WholeLines /\ Contents(Appended) \subseteq Contents(theirs) /\ Only(Wanted, result.text) # Only(Wanted, mine)
\* An append sent again from the same base adds nothing twice, also when more lines follow it: as long as its lines and
\* the one they were added after stand and the diffs are in time, it is merged as done or refused.
SentAgainOnce ==
  Doubled => \/ result.time # Max(Deadlines)
             \/ base # <<>> /\ Last(Lines(base)) \notin ToSet(Lines(theirs))

\* What the code says of it: "appended lines `theirs` already ends with (the same append sent again from the same base)
\* are not added twice" (three-way-merge.ts).
NeverTwice == Doubled => ~IsSuffix(Appended, theirs)
=============================================================================
