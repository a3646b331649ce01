---------------------------- MODULE MCTextMerge -----------------------------
(* Bases of up to four units with every one-range edit of either side: an edit that deletes any code points and types  *)
(* a marked one there, alone, ending or starting a line, or with the letter both sides type.                           *)
EXTENDS TextMerge

\* Base letters are 1..4 and the pair <<10, 20>>; both sides type 5.  The pairs share a half with the base's.
MCTyped == {<<10, 21>>}
MCWanted == {<<11, 20>>}
Typing(points) ==
  {<<>>, <<5, NL>>} \cup UNION {{p, Append(p, NL), <<NL>> \o p, <<5>> \o p} : p \in points}
Edits(text, points) ==
  {Cut(text, 0, i) \o new \o Cut(text, j, Len(text)) :
     <<i, j, new>> \in {e \in (0 .. Len(text)) \X (0 .. Len(text)) \X Typing(points) :
                          e[1] <= e[2] /\ Whole(text, e[1]) /\ Whole(text, e[2])}}
Bases == {<<>>, <<1, NL>>, <<1, NL, 2>>, <<1, 10, 20, NL>>}
\* Several changes to four lines, so that hunks of both sides alternate and the longer texts take the coarser ways.
LongBase == <<1, NL, 2, 10, 20, NL, 3, NL, 4, NL>>
LongTheirs ==
  {LongBase, <<10, 21, NL, 2, 10, 20, NL, 3, 10, 21, NL, 4, NL>>, <<1, NL, 10, 21, NL, 10, 21, 5, NL, 10, 21, NL, 5, NL, 4, NL>>,
   <<4, NL, 2, 10, 20, NL, 3, NL, 1, NL, 10, 21>>, <<1, 10, 21, NL, 10, 20, NL, 4, NL, 10, 21, NL>>}
LongMine ==
  {LongBase, <<1, NL, 2, 11, 20, 10, 20, NL, 3, NL, 4, NL, 11, 20, NL>>, <<1, NL, 4, NL, 11, 20>>,
   <<11, 20, NL, 5, NL, 5, NL, 2, 10, 20, NL, 3, 11, 20, NL, 4, NL>>, <<1, NL, 2, NL, 11, 20, 3, NL, 11, 20, NL>>}
MCInputs == {LongBase} \X LongTheirs \X LongMine \cup UNION {{b} \X Edits(b, MCTyped) \X Edits(b, MCWanted) : b \in Bases}
MCLater == {<<>>, <<NL, 10, 21>>}
MCDeadlines == {1, 99}
=============================================================================
