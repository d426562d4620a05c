------------------------------- MODULE Diffs -------------------------------
(* The unified diff of `zhi export --diff` and `zhi drift`                  *)
(* (internal/core/diff.go) as operators on sequences of lines.  A line of   *)
(* the edit script has the operation, the line, and its 1-based number in   *)
(* the old and in the new text, 0 where it is not part of that text.        *)
EXTENDS Integers, SequencesExt

\* lcsMatrix: its row of `a`, from the row above it.
Row(above, a, new) ==
    FoldLeft(LAMBDA row, j :
                 Append(row, IF a = new[j] THEN above[j] + 1
                             ELSE IF above[j + 1] >= Last(row) THEN above[j + 1] ELSE Last(row)),
             <<0>>, [j \in 1..Len(new) |-> j])

\* Entry i, j of the code's table is entry i + 1, j + 1 here.
LcsMatrix(old, new) ==
    FoldLeft(LAMBDA dp, a : Append(dp, Row(Last(dp), a, new)),
             <<[j \in 1..Len(new) + 1 |-> 0]>>, old)

\* One turn of backtrack's loop.
StepBack(dp, old, new, i, j) ==
    IF i > 0 /\ j > 0 /\ old[i] = new[j] THEN "="
    ELSE IF j > 0 /\ (i = 0 \/ dp[i + 1][j] >= dp[i][j + 1]) THEN "+"
    ELSE "-"

\* With the numbers computeHunks gives the lines.
Edit(old, new, op, i, j) ==
    [op |-> op, line |-> IF op = "+" THEN new[j] ELSE old[i],
     old |-> IF op = "+" THEN 0 ELSE i, new |-> IF op = "-" THEN 0 ELSE j]

Turn(dp, old, new, s) ==
    LET op == StepBack(dp, old, new, s.i, s.j)
    IN  IF s.i = 0 /\ s.j = 0 THEN s
        ELSE [i |-> IF op = "+" THEN s.i ELSE s.i - 1, j |-> IF op = "-" THEN s.j ELSE s.j - 1,
              edits |-> <<Edit(old, new, op, s.i, s.j)>> \o s.edits]

\* backtrack.
Backtrack(dp, old, new) ==
    LET back[turn \in 0 .. Len(old) + Len(new)] ==
            IF turn = 0 THEN [i |-> Len(old), j |-> Len(new), edits |-> <<>>]
            ELSE Turn(dp, old, new, back[turn - 1])
    IN  back[Len(old) + Len(new)].edits

\* The edit script with which computeHunks begins.
Edits(old, new) == Backtrack(LcsMatrix(old, new), old, new)

\* Mutant of Closes: a gap closes a hunk that is as long as the context.
ClosesEarly(gap, context) == gap >= context

\* A gap of unchanged lines closes a hunk if the context after the last change
\* and the one before the next do not touch.
Closes(gap, context) == gap > 2 * context

\* An edit is none, one of the last hunk, or the first of another one.
Joined(groups, edits, context, k) ==
    IF edits[k].op = "=" THEN groups
    ELSE IF groups = <<>> \/ Closes(k - groups[Len(groups)].last - 1, context)
         THEN Append(groups, [first |-> k, last |-> k])
    ELSE [groups EXCEPT ![Len(groups)].last = k]

\* The changes a hunk is made of: from one on, all up to a gap that closes it.
Groups(edits, context) ==
    LET groups[k \in 0 .. Len(edits)] ==
            IF k = 0 THEN <<>> ELSE Joined(groups[k - 1], edits, context, k)
    IN  groups[Len(edits)]

\* The lines that are not `op`: all but "+" are lines of the old text.
Kept(lines, op) ==
    LET kept[k \in 0 .. Len(lines)] ==
            IF k = 0 THEN <<>>
            ELSE IF lines[k].op = op THEN kept[k - 1] ELSE Append(kept[k - 1], lines[k])
    IN  kept[Len(lines)]

\* The number in a header is that of the first line of the hunk that has one,
\* and 1 if none has.
Hunk(lines) ==
    LET ofOld == Kept(lines, "+")
        ofNew == Kept(lines, "-")
    IN  [oldStart |-> IF ofOld = <<>> THEN 1 ELSE ofOld[1].old, oldCount |-> Len(ofOld),
         newStart |-> IF ofNew = <<>> THEN 1 ELSE ofNew[1].new, newCount |-> Len(ofNew),
         lines |-> lines]

\* A group has context lines on either side.
From(group, context) == IF group.first > context THEN group.first - context ELSE 1
To(edits, group, context) ==
    IF group.last + context < Len(edits) THEN group.last + context ELSE Len(edits)

\* computeHunks, from the edits on.
HunksOf(edits, groups, context) ==
    [k \in 1 .. Len(groups) |->
        Hunk(SubSeq(edits, From(groups[k], context), To(edits, groups[k], context)))]

\* computeHunks.
Hunks(edits, context) == HunksOf(edits, Groups(edits, context), context)

----------------------------------------------------------------------------

Side(lines, op) ==
    [k \in 1 .. Len(Kept(lines, op)) |-> Kept(lines, op)[k].line]

\* What a program makes of a text and a hunk: the lines at its place must be
\* those it expects, and are replaced.
Applies(text, h) ==
    Side(h.lines, "+") = SubSeq(text, h.oldStart, h.oldStart + h.oldCount - 1)
Apply(text, h) ==
    SubSeq(text, 1, h.oldStart - 1) \o Side(h.lines, "-")
        \o SubSeq(text, h.oldStart + h.oldCount, Len(text))

\* From the last to the first, so that the numbers of the rest stay right.
Patched(old, hunks) ==
    LET text[n \in 0 .. Len(hunks)] ==
            IF n = 0 THEN old
            ELSE LET h == hunks[Len(hunks) - n + 1]
                 IN  IF Applies(text[n - 1], h) THEN Apply(text[n - 1], h) ELSE <<"refused">>
    IN  text[Len(hunks)]

\* A program that takes the unified format makes the new text of the old one,
\* and finds the hunks where they say in the new text as well; no line is in
\* two of them, and each is about a change.  The headers of an empty text
\* should say 0.
DiffRight(old, new, hunks) ==
    /\ old # <<>> => Patched(old, hunks) = new
    /\ \A k \in 1..Len(hunks) :
          /\ new # <<>> => Side(hunks[k].lines, "-") =
                              SubSeq(new, hunks[k].newStart, hunks[k].newStart + hunks[k].newCount - 1)
          /\ \E i \in 1..Len(hunks[k].lines) : hunks[k].lines[i].op # "="
          /\ k > 1 => hunks[k - 1].oldStart + hunks[k - 1].oldCount <= hunks[k].oldStart
=============================================================================
