------------------------------ MODULE TextDiff ------------------------------
(***************************************************************************)
(* The text changes of a write (sync/text-diff.ts): Myers' O(ND) search    *)
(* with its linear-space middle snake over characters or lines, and the    *)
(* coarser ways a text takes that is too large or too unlike.  A text is a *)
(* sequence of UTF-16 units; the code's limits are constants, so that a    *)
(* short text can pass them.  `time` counts the rounds of search until the *)
(* deadline passes.                                                        *)
(***************************************************************************)
EXTENDS Integers, Sequences, FiniteSets, SequencesExt

CONSTANTS
  ExactUnits, RegionUnits,      \* EXACT_UNITS, REGION_UNITS
  MaxUnlike, MaxLine,       \* UNLIKE_EDITS, LINE_EDITS
  Samples, KeptSamples,         \* SAMPLES, KEPT_SAMPLES
  SampleUnits, ShortSample,     \* SAMPLE_UNITS, and the 4 under which a sample says nothing
  PairingCells                  \* PAIRING_CELLS

NL == 0
High(unit) == unit \in 10 .. 19
Low(unit) == unit \in 20 .. 29
Least(m, n) == IF m < n THEN m ELSE n
Larger(m, n) == IF m > n THEN m ELSE n
Half(n) == (n + 1) \div 2

Cut(s, from, to) == SubSeq(s, from + 1, to)
\* A text in parts that end at `ends`.
Parts(s, ends) ==
  LET add(out, i) == IF i = 1 \/ i - 1 \in ends THEN Append(out, <<s[i]>>) ELSE Append(Front(out), Append(Last(out), s[i]))
  IN FoldLeft(add, <<>>, [i \in DOMAIN s |-> i])
CodePoints(s) == Parts(s, {i \in 1 .. Len(s) - 1 : ~(High(s[i]) /\ Low(s[i + 1]))})
Lines(s) == Parts(s, {i \in DOMAIN s : s[i] = NL})
Blank(line) == \A i \in DOMAIN line : line[i] = NL

\* How far two sequences agree from their starts.
Agree(a, b) ==
  LET shorter == Least(Len(a), Len(b))
      differ == {i \in 1 .. shorter : a[i] # b[i]}
  IN IF differ = {} THEN shorter ELSE Min(differ) - 1
AgreeFromEnd(a, b) == Agree(Reverse(a), Reverse(b))
\* The common start and end that do not overlap.
TokenEnds(a, b) ==
  LET start == Agree(a, b)
  IN <<start, AgreeFromEnd(Cut(a, start, Len(a)), Cut(b, start, Len(b)))>>
\* Mutant: the common ends may part the two units of a code point.
AnyEnds(a, b) == TokenEnds(a, b)
CommonEnds(a, b) ==
  LET same == Agree(a, b)
      start == IF same > 0 /\ High(a[same]) THEN same - 1 ELSE same
      tail == Least(AgreeFromEnd(a, b), Least(Len(a), Len(b)) - start)
      end == IF tail > 0 /\ Low(a[Len(a) - tail + 1]) THEN tail - 1 ELSE tail
  IN <<start, end>>
-----------------------------------------------------------------------------
(* Myers' search: which tokens of `a` and `b` are kept *)

\* The furthest x on each diagonal, NotReached where no path came yet.
NotReached == -1
Reached(reach, k) == k \in DOMAIN reach /\ reach[k] # NotReached

\* One direction's step to d edits, on diagonals from k; `low` and `high` leave out those that left the grid.  It
\* stops on a diagonal where the other direction has come as far (`meets`).
RECURSIVE Extended(_, _, _, _, _, _, _, _)
Extended(a, b, own, other, d, k, meets, side) ==
  IF k > d - own.high THEN [side |-> own, at |-> <<>>]
  ELSE LET r == own.reach
           from == IF k = -d \/ (k # d /\ r[k - 1] < r[k + 1]) THEN r[k + 1] ELSE r[k - 1] + 1
           x == from + Agree(Cut(a, from, Len(a)), Cut(b, from - k, Len(b)))
           now == [own EXCEPT !.reach[k] = x]
           back == Len(a) - Len(b) - k
           next(s) == Extended(a, b, s, other, d, k + 2, meets, side)
       IN CASE x > Len(a) -> next([now EXCEPT !.high = @ + 2])
            [] x <= Len(a) /\ x - k > Len(b) -> next([now EXCEPT !.low = @ + 2])
            [] OTHER -> IF meets /\ Reached(other.reach, back) /\ x >= Len(a) - other.reach[back]
                        THEN [side |-> now, at |-> IF side = "forward" THEN <<x, x - k>>
                                                   ELSE <<other.reach[back], other.reach[back] - back>>]
                        ELSE next(now)

\* middleSnake: each direction goes at most half the edits of the limit.
RECURSIVE Rounds(_, _, _, _, _, _, _)
Rounds(a, b, d, last, f, g, time) ==
  LET odd == (Len(a) - Len(b)) % 2 = 1
      round(forth, back) ==
        CASE forth.at # <<>> -> [at |-> forth.at, time |-> time - 1]
          [] forth.at = <<>> /\ back.at # <<>> -> [at |-> back.at, time |-> time - 1]
          [] OTHER -> Rounds(a, b, d + 1, last, forth.side, back.side, time - 1)
      both(forth) == round(forth, Extended(Reverse(a), Reverse(b), g, forth.side, d, -d + g.low, ~odd, "backward"))
  IN IF d > last \/ time = 0 THEN [at |-> <<>>, time |-> time]
     ELSE both(Extended(a, b, f, g, d, -d + f.low, odd, "forward"))
MiddleSnake(a, b, limit, time) ==
  LET last == Least(Half(Len(a) + Len(b)), Half(limit))
      side == [reach |-> [k \in -(last + 1) .. last + 1 |-> IF k = 1 THEN 0 ELSE NotReached], low |-> 0, high |-> 0]
  IN Rounds(a, b, 0, last, side, side, time)

\* diffTokens: a script of "=", "-" and "+", one for each token.  Past the limit or the deadline a part is replaced whole.
Unlimited == 1000000
Times(op, n) == [i \in 1 .. n |-> op]
RECURSIVE Script(_, _, _, _)
\* solve: where no end is common.
Solved(x, y, limit, time) ==
  LET replaced(complete, left) == [ops |-> Times("-", Len(x)) \o Times("+", Len(y)), complete |-> complete, time |-> left]
      joined(first, second) ==
        [ops |-> first.ops \o second.ops, complete |-> first.complete /\ second.complete, time |-> second.time]
      after(snake, first) ==
        joined(first, Script(Cut(x, snake.at[1], Len(x)), Cut(y, snake.at[2], Len(y)), limit, first.time))
      split(snake) ==
        IF snake.at = <<>> THEN replaced(FALSE, snake.time)
        ELSE after(snake, Script(Cut(x, 0, snake.at[1]), Cut(y, 0, snake.at[2]), limit, snake.time))
  IN IF x = <<>> \/ y = <<>> THEN replaced(TRUE, time) ELSE split(MiddleSnake(x, y, limit, time))
Script(a, b, limit, time) ==
  LET ends == TokenEnds(a, b)
  IN [Solved(Cut(a, ends[1], Len(a) - ends[2]), Cut(b, ends[1], Len(b) - ends[2]), limit, time)
        EXCEPT !.ops = Times("=", ends[1]) \o @ \o Times("=", ends[2])]

\* The stretches of a script between kept tokens: a's a0 to a1 become b's b0 to b1.
Stretches(ops) ==
  LET step(s, op) ==
        LET a1 == s.a + (IF op = "+" THEN 0 ELSE 1)
            b1 == s.b + (IF op = "-" THEN 0 ELSE 1)
        IN CASE op = "=" -> [s EXCEPT !.a = a1, !.b = b1, !.open = FALSE]
             [] op # "=" /\ s.open ->
                  [s EXCEPT !.a = a1, !.b = b1, !.out = Append(Front(@), [Last(@) EXCEPT !.a1 = a1, !.b1 = b1])]
             [] OTHER -> [a |-> a1, b |-> b1, open |-> TRUE,
                          out |-> Append(s.out, [a0 |-> s.a, a1 |-> a1, b0 |-> s.b, b1 |-> b1])]
  IN FoldLeft(step, [a |-> 0, b |-> 0, open |-> FALSE, out |-> <<>>], ops).out

\* diffLines: the lines of the old text, and the hunks that a diff changes.
DiffLines(from, to, time) ==
  LET b == Lines(to)
      hunk(s) == [start |-> s.a0, end |-> s.a1, new |-> Cut(b, s.b0, s.b1)]
      hunks(changed) == [i \in DOMAIN changed |-> hunk(changed[i])]
  IN hunks(Stretches(Script(Lines(from), b, Unlimited, time).ops))
-----------------------------------------------------------------------------
(* Edits: at an offset of the old text `remove` units go and `insert` comes *)

Edit(at, remove, insert) == [at |-> at, remove |-> remove, insert |-> insert]
\* pushEdit: edits that touch are one.
Pushed(out, e) ==
  CASE e.remove = 0 /\ e.insert = <<>> -> out
    [] out # <<>> /\ Last(out).at + Last(out).remove = e.at ->
         Append(Front(out), Edit(Last(out).at, Last(out).remove + e.remove, Last(out).insert \o e.insert))
    [] OTHER -> Append(out, e)

Occurs(part, text) == \E i \in 0 .. Len(text) - Len(part) : Cut(text, i, i + Len(part)) = part

\* Alike enough: the share of it that changes, or what one side has more of when samples of the other are found in it.
Alike(x, y) ==
  LET size == Len(x) + Len(y)
      shorter == Least(Len(x), Len(y))
      rest == IF Len(x) < Len(y) THEN x ELSE y
      longer == IF Len(x) < Len(y) THEN y ELSE x
      share == size \div 4
      loose == Larger(Len(x), Len(y)) - shorter + (shorter \div 5)
      length == Least(SampleUnits, Len(rest) \div 4)
      place(i) == ((Len(rest) - length) * (2 * i + 1)) \div (2 * Samples)
      found == Cardinality({i \in 0 .. Samples - 1 : Occurs(Cut(rest, place(i), place(i) + length), longer)}) >= KeptSamples
  IN [share |-> share, edits |-> IF loose > share /\ (length < ShortSample \/ found) THEN loose ELSE share,
      kept |-> loose > share /\ length = SampleUnits /\ found]

\* characterEditsWithin: `scope` is the whole change to a text, a changed run of lines, or one line of a pair.
CharacterEdits(from, to, ends, at, time, scope, out) ==
  LET x == Cut(from, ends[1], Len(from) - ends[2])
      y == Cut(to, ends[1], Len(to) - ends[2])
      size == Len(x) + Len(y)
      alike == Alike(x, y)
      exact == scope = "text" /\ size <= ExactUnits
      limit == IF exact THEN Unlimited ELSE Least(alike.edits, IF scope = "line" THEN MaxLine ELSE MaxUnlike)
      a == CodePoints(x)
      b == CodePoints(y)
      scattered(ops, changed) ==
        /\ ~exact /\ Cardinality({i \in DOMAIN ops : ops[i] # "="}) > alike.share
        /\ ~alike.kept /\ Len(changed) > 2 + Least(Len(x), Len(y)) \div 16
      units(codes, n) == Len(FlattenSeq(Cut(codes, 0, n)))
      edit(s) == Edit(at + ends[1] + units(a, s.a0), units(a, s.a1) - units(a, s.a0), FlattenSeq(Cut(b, s.b0, s.b1)))
      failed(left) == [ok |-> FALSE, out |-> out, time |-> left]
      judged(script, changed) ==
        IF ~script.complete \/ scattered(script.ops, changed) THEN failed(script.time)
        ELSE [ok |-> TRUE, out |-> FoldLeft(LAMBDA o, s : Pushed(o, edit(s)), out, changed), time |-> script.time]
      searched(script) == judged(script, Stretches(script.ops))
  IN CASE x = <<>> \/ y = <<>> -> [ok |-> TRUE, out |-> Pushed(out, Edit(at + ends[1], Len(x), y)), time |-> time]
       [] x # <<>> /\ y # <<>> /\ ((scope # "line" /\ size > RegionUnits) \/ time = 0) -> failed(time)
       [] OTHER -> searched(Script(a, b, limit, time))
-----------------------------------------------------------------------------
(* Lines first: runs of lines that changed, and pairs of their lines *)

\* lineRuns: lines of one side only, and blank ones, are never kept.
LineScript(a, b, time) ==
  LET common(line) == ~Blank(line) /\ line \in ToSet(a) \cap ToSet(b)
      index(s) == SelectSeq([i \in DOMAIN s |-> i], LAMBDA i : common(s[i]))
      ia == index(a)
      ib == index(b)
      upTo(s, i, j) == s.ops \o Times("-", i - 1 - s.a) \o Times("+", j - 1 - s.b)
      step(s, op) ==
        CASE op = "-" -> [s EXCEPT !.ka = @ + 1]
          [] op = "+" -> [s EXCEPT !.kb = @ + 1]
          [] OTHER -> [ka |-> s.ka + 1, kb |-> s.kb + 1, a |-> ia[s.ka], b |-> ib[s.kb],
                       ops |-> Append(upTo(s, ia[s.ka], ib[s.kb]), "=")]
      full(script) ==
        LET all == FoldLeft(step, [ka |-> 1, kb |-> 1, a |-> 0, b |-> 0, ops |-> <<>>], script.ops)
        IN [ops |-> upTo(all, Len(a) + 1, Len(b) + 1), time |-> script.time]
  IN full(Script([i \in DOMAIN ia |-> a[ia[i]]], [i \in DOMAIN ib |-> b[ib[i]]], Unlimited, time))

\* The units two lines share at their start and end (word triples, which count for lines of five words and more, left out).
Likeness(a, b) == LET same == Agree(a, b) IN same + Least(AgreeFromEnd(a, b), Least(Len(a), Len(b)) - same)

\* alignedShifts: never decreasing, the most likeness in all; on a tie the smaller shift, the last line's first.
AlignedShifts(short, long, shifts) ==
  LET n == Len(short)
      total(f) == FoldLeft(LAMBDA sum, i : sum + Likeness(short[i], long[i + f[i]]), 0, [i \in 1 .. n |-> i])
      ascending == {f \in [1 .. n -> shifts] : \A i \in 1 .. n - 1 : f[i] <= f[i + 1]}
      best == {f \in ascending : \A g \in ascending : total(g) <= total(f)}
      before(f, g) == \E i \in 1 .. n : f[i] < g[i] /\ \A j \in i + 1 .. n : f[j] = g[j]
  IN CHOOSE f \in best : \A g \in best : f = g \/ before(f, g)

\* A line of the shorter side and the next of the longer: their characters, else all between their common ends.
PairEdits(s, line, long, fromLonger) ==
  LET old == IF fromLonger THEN long[s.next + 1] ELSE line
      new == IF fromLonger THEN line ELSE long[s.next + 1]
      ends == CommonEnds(old, new)
      coarse == Edit(s.offset + ends[1], Len(old) - ends[1] - ends[2], Cut(new, ends[1], Len(new) - ends[2]))
      taken(chars) == [out |-> IF chars.ok THEN chars.out ELSE Pushed(s.out, coarse),
                       next |-> s.next + 1, offset |-> s.offset + Len(old), time |-> chars.time]
  IN taken(CharacterEdits(old, new, ends, s.offset, s.time, "line", s.out))

\* pairedLineEdits, where the characters were `tried` without success: the lines of the shorter side each with one of
\* the longer's, the others inserted or deleted between.
PairedLineEdits(tried, from, to, at, out) ==
  LET fromLonger == Len(from) > Len(to)
      short == IF fromLonger THEN to ELSE from
      long == IF fromLonger THEN from ELSE to
      spare == Len(long) - Len(short)
      every == spare > 1 /\ (spare + 1) * Len(short) <= PairingCells /\ tried.time # 0
      aligned == AlignedShifts(short, long, IF every THEN 0 .. spare ELSE {0, spare})
      leftover(s, until) ==
        LET rest == FlattenSeq(Cut(long, s.next, until))
            moved == [s EXCEPT !.next = until]
        IN IF fromLonger THEN [moved EXCEPT !.out = Pushed(@, Edit(s.offset, Len(rest), <<>>)), !.offset = @ + Len(rest)]
           ELSE [moved EXCEPT !.out = Pushed(@, Edit(s.offset, 0, rest))]
      first == [out |-> out, next |-> 0, offset |-> at, time |-> tried.time]
  IN IF tried.ok THEN tried
     ELSE leftover(FoldLeft(LAMBDA s, i : PairEdits(leftover(s, i - 1 + aligned[i]), short[i], long, fromLonger), first,
                            [i \in DOMAIN short |-> i]), Len(long))

\* A run of lines that changed: its characters, unless it is the `whole` text that was tried before, has as many lines
\* as it had, or is too large; else its lines in pairs.
RunEdits(s, x, y, whole, at) ==
  LET old == FlattenSeq(x)
      new == FlattenSeq(y)
      paired == whole \/ Len(x) = Len(y) \/ Len(old) + Len(new) > RegionUnits
  IN PairedLineEdits(IF paired THEN [ok |-> FALSE, time |-> s.time]
                     ELSE CharacterEdits(old, new, CommonEnds(old, new), at, s.time, "run", s.out), x, y, at, s.out)
LineEdits(from, to, at, time) ==
  LET a == Lines(from)
      b == Lines(to)
      script == LineScript(a, b, time)
      x(r) == Cut(a, r.a0, r.a1)
      y(r) == Cut(b, r.b0, r.b1)
      place(r) == at + Len(FlattenSeq(Cut(a, 0, r.a0)))
  IN FoldLeft(LAMBDA s, r : RunEdits(s, x(r), y(r), x(r) = a /\ y(r) = b, place(r)),
              [out |-> <<>>, time |-> script.time], Stretches(script.ops)).out

\* diffText: the change as a whole, else the whole lines around it.
LinesAround(tried, from, to, ends) ==
  LET before == {i \in 1 .. ends[1] : from[i] = NL}
      after == {i \in Len(from) - ends[2] + 1 .. Len(from) : from[i] = NL}
      start == IF before = {} THEN 0 ELSE Max(before)
      kept == IF after = {} THEN 0 ELSE Len(from) - Min(after)
  IN IF tried.ok THEN tried.out
     ELSE LineEdits(Cut(from, start, Len(from) - kept), Cut(to, start, Len(to) - kept), start, tried.time)
DiffText(from, to, time) ==
  LET ends == CommonEnds(from, to)
  IN IF from = to THEN <<>> ELSE LinesAround(CharacterEdits(from, to, ends, 0, time, "text", <<>>), from, to, ends)
-----------------------------------------------------------------------------
(* What the edits are for *)

\* applyTextDiff: the last change first, so that each one's offset still holds.
RECURSIVE Applied(_, _)
Applied(text, edits) ==
  IF edits = <<>> THEN text
  ELSE LET e == Last(edits)
       IN Applied(Cut(text, 0, e.at) \o e.insert \o Cut(text, e.at + e.remove, Len(text)), Front(edits))

\* Where no code point is parted.
Whole(text, at) == ~(at \in 1 .. Len(text) - 1 /\ High(text[at]) /\ Low(text[at + 1]))

\* The reference: the tokens two sequences must lose and gain, by the longest common subsequence.
Distance(a, b) ==
  LET lcs[i \in 0 .. Len(a), j \in 0 .. Len(b)] ==
        CASE i = 0 \/ j = 0 -> 0
          [] i # 0 /\ j # 0 /\ a[i] = b[j] -> lcs[i - 1, j - 1] + 1
          [] OTHER -> Larger(lcs[i - 1, j], lcs[i, j - 1])
  IN Len(a) + Len(b) - 2 * lcs[Len(a), Len(b)]
=============================================================================
