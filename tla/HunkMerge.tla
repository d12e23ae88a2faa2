----------------------------- MODULE HunkMerge -----------------------------
(* The contents of one file on the two sides, and merge --hunks, which takes *)
(* the selected hunks of the left into the right: the script of a diff, its  *)
(* hunks, what is written, and the conflicts with a reference that keep it   *)
(* from being written.  A content is a sequence of lines; a line is what it  *)
(* reads as, whether it has ended, and how its bytes write it, which is not  *)
(* the same thing in an encoding that has two ways.                          *)
EXTENDS Integers, FiniteSets, Sequences, FiniteSetsExt, SequencesExt

CONSTANTS
  Starts,          \* what the sides may hold
  DisplayContext,  \* the lines of context around a hunk that is shown; 3 in the code
  MaxMerges        \* bound: how many merges are made

ASSUME BoundsAreNumbers == DisplayContext \in Nat /\ MaxMerges \in Nat

VARIABLES
  left, right, reference,  \* what the sides hold
  merges,                  \* the merges that are left
  last                     \* the last command, its outcome and what it was about

vars == <<left, right, reference, merges, last>>

Line(text, ended, raw) == [text |-> text, ended |-> ended, raw |-> raw]
TextOf(encoding, bom, lines) ==
  [kind |-> "text", encoding |-> encoding, bom |-> bom, lines |-> lines]
Holding(kind) == [kind |-> kind, encoding |-> "utf8", bom |-> FALSE, lines |-> <<>>]

(* An absent side, or one that is no file, counts as an empty text.          *)
LinesOf(side) == IF side.kind = "text" THEN side.lines ELSE <<>>

Same(a, b) == a.text = b.text /\ a.ended = b.ended
SameText(a, b) == Len(a) = Len(b) /\ \A i \in DOMAIN a : Same(a[i], b[i])

(***************************************************************************)
(* The script of a diff.                                                   *)
(***************************************************************************)
(* Which lines `similar` takes for the same: as many as can be.              *)
Ordered(S) ==
  [k \in 1 .. Cardinality(S) |-> CHOOSE n \in S : Cardinality({m \in S : m < n}) = k - 1]
Matches(old, new) ==
  LET pairs == UNION {kSubset(k, DOMAIN old) \X kSubset(k, DOMAIN new) :
                        k \in 0 .. Min({Len(old), Len(new)})}
      valid == {p \in pairs : LET a == Ordered(p[1]) b == Ordered(p[2])
                              IN  \A i \in DOMAIN a : Same(old[a[i]], new[b[i]])}
      most == Max({Cardinality(p[1]) : p \in valid})
  IN  {p \in valid : Cardinality(p[1]) = most}

(* Between two lines that are the same, the lines of the old text are        *)
(* deleted and then those of the new one inserted.                           *)
Script(old, new, match) ==
  LET a == <<0>> \o Ordered(match[1]) \o <<Len(old) + 1>>
      b == <<0>> \o Ordered(match[2]) \o <<Len(new) + 1>>
      Between(k) ==
        [i \in 1 .. a[k + 1] - a[k] - 1 |-> [tag |-> "delete", old |-> a[k] + i, new |-> 0]]
          \o [i \in 1 .. b[k + 1] - b[k] - 1 |-> [tag |-> "insert", old |-> 0, new |-> b[k] + i]]
      Then(k) == IF k = Len(a) - 1 THEN <<>>
                 ELSE <<[tag |-> "equal", old |-> a[k + 1], new |-> b[k + 1]]>>
  IN  FlattenSeq([k \in 1 .. Len(a) - 1 |-> Between(k) \o Then(k)])

Scripts(old, new) == {Script(old, new, m) : m \in Matches(old, new)}

Changed(script) == {i \in DOMAIN script : script[i].tag # "equal"}

(***************************************************************************)
(* Hunks: a range of the script, from 0 and without its end, and how many  *)
(* lines of the two texts come before it.                                  *)
(***************************************************************************)
Header(script, from, to) ==
  [from |-> from, to |-> to,
   old |-> Cardinality({i \in 1 .. from : script[i].tag # "insert"}),
   new |-> Cardinality({i \in 1 .. from : script[i].tag # "delete"})]

BuildHunks(script, context) ==
  LET Extend(ranges, change) ==
        LET from == Max({change - context, 0})
            to == Min({change + context + 1, Len(script)})
        IN  IF ranges # <<>> /\ from <= Last(ranges).to
            THEN [ranges EXCEPT ![Len(ranges)].to = to]
            ELSE Append(ranges, [from |-> from, to |-> to])
      ranges == FoldLeft(Extend, <<>>, Ordered({i - 1 : i \in Changed(script)}))
  IN  [k \in DOMAIN ranges |-> Header(script, ranges[k].from, ranges[k].to)]

DisplayHunks(script) == BuildHunks(script, DisplayContext)
MergeHunks(script) == BuildHunks(script, 0)

(* A hunk that is shown stands for the changes in it.                        *)
\* (mutant of MergeHunksIn: the numbers of the hunks shown are taken for those of the changes)
MergeHunksByNumber(display, merge, selected) == selected \cap DOMAIN merge
MergeHunksIn(display, merge, selected) ==
  {m \in DOMAIN merge : \E d \in selected \cap DOMAIN display :
                          display[d].from <= merge[m].from /\ merge[m].to <= display[d].to}

(* The lines of the selected changes are the left's, and all others, also    *)
(* those that are the same, are the right's with their bytes.                *)
\* (mutant of Applied: a line that is the same is written as the left writes it)
AppliedFromLeft(old, new, script, chosen) ==
  LET Taken(i) == CASE script[i].tag = "equal" -> TRUE
                    [] script[i].tag = "delete" -> i \in chosen
                    [] script[i].tag = "insert" -> i \notin chosen
      kept == Ordered({i \in DOMAIN script : Taken(i)})
  IN  [k \in DOMAIN kept |->
         LET line == script[kept[k]] IN IF line.old # 0 THEN old[line.old] ELSE new[line.new]]
Applied(old, new, script, chosen) ==
  LET Taken(i) == CASE script[i].tag = "equal" -> TRUE
                    [] script[i].tag = "delete" -> i \in chosen
                    [] script[i].tag = "insert" -> i \notin chosen
      kept == Ordered({i \in DOMAIN script : Taken(i)})
  IN  [k \in DOMAIN kept |->
         LET line == script[kept[k]] IN IF line.new # 0 THEN new[line.new] ELSE old[line.old]]

Apply(old, new, script, selected) ==
  LET hunks == MergeHunks(script)
      chosen == UNION {hunks[m].from + 1 .. hunks[m].to :
                         m \in MergeHunksIn(DisplayHunks(script), hunks, selected)}
  IN  Applied(old, new, script, chosen)

(* What is written is read again as bytes: two lines of which the first has  *)
(* not ended are one.                                                        *)
Reread(lines) ==
  IF \E i \in 1 .. Len(lines) - 1 : ~lines[i].ended THEN <<Line("joined", TRUE, 1)>> ELSE lines

(***************************************************************************)
(* Conflicts: the changes of the two sides to the reference, where they    *)
(* meet and do not come to the same.                                       *)
(***************************************************************************)
(* A run of changed lines changes a range of the reference, or, where it     *)
(* deletes nothing, the place before a line.                                 *)
Changes(script, new) ==
  LET runs == {r \in (DOMAIN script) \X (DOMAIN script) :
                 /\ r[1] <= r[2] /\ r[1] .. r[2] \subseteq Changed(script)
                 /\ {r[1] - 1, r[2] + 1} \cap Changed(script) = {}}
      Change(r) ==
        LET before == Header(script, r[1] - 1, r[2])
            inserted == {i \in r[1] .. r[2] : script[i].tag = "insert"}
            taken == Ordered({script[i].new : i \in inserted})
        IN  [from |-> before.old,
             to |-> before.old + (r[2] - r[1] + 1) - Cardinality(inserted),
             lines |-> Range(taken),
             replacement |-> [k \in DOMAIN taken |->
                                <<new[taken[k]].text, new[taken[k]].ended>>]]
  IN  {Change(r) : r \in runs}

Overlaps(l, r) ==
  CASE l.from = l.to /\ r.from = r.to -> l.from = r.from
    [] l.from = l.to /\ r.from # r.to -> l.from >= r.from /\ l.from < r.to
    [] l.from # l.to /\ r.from = r.to -> r.from >= l.from /\ r.from < l.to
    [] OTHER -> l.from < r.to /\ r.from < l.to

Meetings(leftChanges, rightChanges) ==
  {[from |-> Min({p[1].from, p[2].from}), to |-> Max({p[1].to, p[2].to}),
    left |-> p[1].lines, right |-> p[2].lines] :
     p \in {q \in leftChanges \X rightChanges :
              Overlaps(q[1], q[2]) /\ q[1].replacement # q[2].replacement}}

\* (mutant of MergeOverlapping: conflicts that touch are one)
MergeTouching(sorted) ==
  LET Extend(regions, one) ==
        IF regions # <<>> /\ one.from <= Last(regions).to
        THEN [regions EXCEPT ![Len(regions)] =
                [from |-> @.from, to |-> Max({@.to, one.to}),
                 left |-> @.left \cup one.left, right |-> @.right \cup one.right]]
        ELSE Append(regions, one)
  IN  FoldLeft(Extend, <<>>, sorted)
MergeOverlapping(sorted) ==
  LET Extend(regions, one) ==
        IF regions # <<>> /\ one.from < Last(regions).to
        THEN [regions EXCEPT ![Len(regions)] =
                [from |-> @.from, to |-> Max({@.to, one.to}),
                 left |-> @.left \cup one.left, right |-> @.right \cup one.right]]
        ELSE Append(regions, one)
  IN  FoldLeft(Extend, <<>>, sorted)

Before(a, b) == a.from < b.from \/ (a.from = b.from /\ a.to < b.to)
TextConflicts(meetings) == MergeOverlapping(SetToSortSeq(meetings, Before))

AllAreTexts == {left.kind, right.kind, reference.kind} = {"text"}
WholeFile == [from |-> 0, to |-> 0, left |-> {}, right |-> {}]
Bytes(side) == IF side.kind = "text" THEN <<side.bom, side.lines>> ELSE <<side.kind>>

(* Texts conflict by their lines, other contents as a whole.                 *)
Conflicts(meetings) ==
  IF {left.kind, right.kind, reference.kind} \cap {"invalid", "unavailable", "nonFile"} # {}
  THEN <<>>
  ELSE IF AllAreTexts THEN TextConflicts(meetings)
  ELSE IF Cardinality({Bytes(left), Bytes(right), Bytes(reference)}) = 3 THEN <<WholeFile>>
  ELSE <<>>

(***************************************************************************)
(* The commands.                                                           *)
(***************************************************************************)
Nothing == [outcome |-> "none", script |-> <<>>, selected |-> {}, meetings |-> {}, regions |-> <<>>]

Init ==
  /\ \E s \in Starts : left = s.left /\ right = s.right /\ reference = s.reference
  /\ merges = MaxMerges
  /\ last = Nothing

MeetingsOf(leftScript, rightScript) ==
  IF ~AllAreTexts THEN {}
  ELSE Meetings(Changes(leftScript, LinesOf(left)), Changes(rightScript, LinesOf(right)))

(* diff --ref shows the conflicts.                                           *)
ShowConflicts ==
  /\ reference.kind # "none"
  /\ \E l \in Scripts(LinesOf(reference), LinesOf(left)),
        r \in Scripts(LinesOf(reference), LinesOf(right)) :
       LET meetings == MeetingsOf(l, r)
       IN  last' = [Nothing EXCEPT !.outcome = "shown", !.meetings = meetings,
                                   !.regions = Conflicts(meetings)]
  /\ UNCHANGED <<left, right, reference, merges>>

(* What keeps a merge from being made, in the order it is looked at.         *)
Refusal(checked, conflicts) ==
  CASE left.kind = "invalid" \/ right.kind = "invalid" -> "invalid"
    [] left.kind = "binary" \/ right.kind = "binary" -> "binary"
    [] {left.kind, right.kind} \cap {"nonFile", "unavailable"} # {} -> "notRegular"
    [] checked /\ reference.kind = "invalid" -> "invalid"
    [] left.kind # "absent" /\ right.kind # "absent" /\ left.encoding # right.encoding -> "invalid"
    [] checked /\ reference.kind = "unavailable" -> "invalid"
    [] checked /\ conflicts # <<>> -> "conflict"
    [] SameText(LinesOf(left), LinesOf(right)) -> "noChanges"
    [] OTHER -> "none"

(* A file that is made anew is in the encoding of the left, with its mark.   *)
Written(lines) ==
  LET shape == IF right.kind = "absent" THEN left ELSE right
  IN  TextOf(shape.encoding, shape.bom, Reread(lines))

MergePrepared ==
  /\ merges > 0 /\ merges' = merges - 1
  /\ \E checked \in IF reference.kind = "none" THEN {FALSE} ELSE BOOLEAN,
        l \in Scripts(LinesOf(reference), LinesOf(left)),
        r \in Scripts(LinesOf(reference), LinesOf(right)),
        script \in Scripts(LinesOf(left), LinesOf(right)) :
       LET refusal == Refusal(checked, Conflicts(MeetingsOf(l, r)))
           total == Len(DisplayHunks(script))
       IN  \E selected \in SUBSET (1 .. total + 1) \ {{}} :
             LET done == [Nothing EXCEPT !.script = script, !.selected = selected]
             IN  \/ /\ refusal # "none"
                    /\ last' = [Nothing EXCEPT !.outcome = refusal] /\ UNCHANGED right
                 \/ /\ refusal = "none" /\ total + 1 \in selected
                    /\ last' = [Nothing EXCEPT !.outcome = "outOfRange"] /\ UNCHANGED right
                 \/ /\ refusal = "none" /\ total + 1 \notin selected
                    /\ last' = [done EXCEPT !.outcome = "written"]
                    /\ right' = Written(Apply(LinesOf(left), LinesOf(right), script, selected))
  /\ UNCHANGED <<left, reference>>

Next == ShowConflicts \/ MergePrepared

Spec == Init /\ [][Next]_vars

(***************************************************************************)
(* Properties.                                                             *)
(***************************************************************************)
(* Splices the selected hunks into the lines, from the last to the first, at *)
(* the place that their heads name: what one who reads the diff would do.    *)
Patched(old, new, script, selected) ==
  LET hunks == DisplayHunks(script)
      Part(h) ==
        LET inside == SelectSeq(SubSeq(script, h.from + 1, h.to), LAMBDA line : line.tag # "insert")
        IN  [k \in DOMAIN inside |->
               IF inside[k].tag = "equal" THEN new[inside[k].new] ELSE old[h.old + k]]
      Length(h) == Cardinality({i \in h.from + 1 .. h.to : script[i].tag # "delete"})
      Splice(lines, k) ==
        LET h == hunks[k]
        IN  IF k \notin selected THEN lines
            ELSE SubSeq(lines, 1, h.new) \o Part(h)
                   \o SubSeq(lines, h.new + Length(h) + 1, Len(lines))
  IN  FoldLeft(Splice, new, Reverse([k \in DOMAIN hunks |-> k]))

(* A merge by hunks replaces the hunks that were selected and nothing else:  *)
(* every other line, and the lines around a change, keep the bytes that the  *)
(* right has for them, and no line runs into the next one.                   *)
OnlyTheSelectionIsReplaced ==
  [][last'.outcome = "written" /\ merges' # merges
       => right'.lines = Patched(LinesOf(left), LinesOf(right), last'.script, last'.selected)]_vars

(* Each merge by hunks brings the right closer to the left, and one of all   *)
(* hunks makes it the same: hunk by hunk, whatever the numbers of the hunks  *)
(* that remain, the file is merged.                                          *)
Distance(a, b) ==
  LET match == CHOOSE m \in Matches(a, b) : TRUE
  IN  Len(a) + Len(b) - 2 * Cardinality(match[1])
EachMergeIsCloser ==
  [][last'.outcome = "written" /\ merges' # merges
       => LET before == Distance(LinesOf(left), LinesOf(right))
              after == Distance(LinesOf(left), LinesOf(right'))
          IN  /\ after < before
              /\ last'.selected = 1 .. Len(DisplayHunks(last'.script)) => after = 0]_vars

(* Changes that meet are one conflict, however many of them there are, and   *)
(* conflicts that only touch are two: each meeting is in one region, with    *)
(* its lines, and no region can be parted without parting a meeting.         *)
ConflictsAreApart ==
  LET regions == last.regions
  IN  last.meetings # {} =>
        /\ \A m \in last.meetings :
             Cardinality({i \in DOMAIN regions :
                            /\ regions[i].from <= m.from /\ m.to <= regions[i].to
                            /\ m.left \subseteq regions[i].left
                            /\ m.right \subseteq regions[i].right}) = 1
        /\ \A i \in 1 .. Len(regions) - 1 : regions[i].to <= regions[i + 1].from
        /\ \A i \in DOMAIN regions : \A cut \in regions[i].from + 1 .. regions[i].to - 1 :
             \E m \in last.meetings : m.from < cut /\ cut < m.to
=============================================================================
