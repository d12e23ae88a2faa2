------------------------------ MODULE Verdicts ------------------------------
(* How two or three sides of a path are compared, without the requests that  *)
(* fetch what is compared: the table of states made of the listings, the     *)
(* verdict on two states, which contents a verdict still needs, and what     *)
(* the answers, or their failures, make of it.  A path is the sequence of    *)
(* its names.  A content, and the text of a link, is any value; a time is a  *)
(* number of units of the finest precision, known to some digits.            *)
EXTENDS Integers, FiniteSets, Sequences

Roles == {"left", "right", "ref"}

(* The pairs of roles in the order in which they are judged.                 *)
Pairs == {<<"left", "right">>, <<"left", "ref">>, <<"right", "ref">>}
LeftRight == <<"left", "right">>

Ancestors(p) == {SubSeq(p, 1, n) : n \in 1 .. Len(p) - 1}

(***************************************************************************)
(* The states of a path on a side.                                         *)
(***************************************************************************)
Absent == [kind |-> "absent"]
File(size, at, digits) ==
  [kind |-> "file", size |-> size, at |-> at, digits |-> digits]
Link(target, to) == [kind |-> "link", target |-> target, to |-> to]
Garbled == "garbled"          \* the text of a link that is not UTF-8
UnknownSize == -1
UnknownFile == File(UnknownSize, 0, 0)

(* What a listing shows of something that is in a directory.                 *)
OfEntry(thing) ==
  CASE thing.kind = "file" -> File(thing.size, thing.at, thing.digits)
    [] thing.kind = "link" -> Link(thing.target, thing.to)
    [] OTHER -> [kind |-> thing.kind]

(* What a link leads to, as the state it is compared by when it is followed. *)
FollowedState(to) ==
  CASE to = "directory" -> [kind |-> "dir"]
    [] to = "missing" -> Absent
    [] to \in {"other", "unresolvable"} -> [kind |-> "other"]
    [] to = "notDirectory" -> UnknownFile

(* The states of every path that some listing has.  What is below a link     *)
(* that leads outside was not collected, nor was what a cut or cyclic        *)
(* listing does not have: only a whole listing says that a path is absent.   *)
StateTable(listings, outside) ==
  LET sides == DOMAIN listings
      lists(r, p) == p \in DOMAIN listings[r].entries
      collected(r, p) ==
        IF lists(r, p) THEN Ancestors(p) \cap outside[r] = {}
        ELSE ~(listings[r].truncated \/ listings[r].cycle)
      of(p) == {r \in sides : collected(r, p)}
  IN  [p \in UNION {DOMAIN listings[r].entries : r \in sides} |->
        [states |-> [r \in of(p) |->
                       IF lists(r, p) THEN listings[r].entries[p] ELSE Absent],
         outside |-> {r \in of(p) : lists(r, p) /\ p \in outside[r]},
         notCollected |-> sides \ of(p)]]

StateOf(states, role) ==
  IF role \in DOMAIN states.states THEN states.states[role]
  ELSE [kind |-> "notCollected"]

HasContent(state) ==
  state.kind = "file" \/ (state.kind = "link" /\ state.to = "notDirectory")

(***************************************************************************)
(* The verdict on two states.                                              *)
(***************************************************************************)
V(v) == [v |-> v]
ByContent == V("byContent")
Undecidable(why, of) == [v |-> "undecidable", why |-> why, of |-> of]
SameOrDiffers(same) == V(IF same THEN "same" ELSE "differs")

ChooseMethod(command, checksum, named) ==
  IF command = "diff" \/ checksum \/ (command \in {"merge", "sync"} /\ named)
  THEN "content" ELSE "metadata"

Finest == 2
LesserOf(m, n) == IF m < n THEN m ELSE n

(* Two times agree when they do to the digits that both are known to; a time *)
(* without digits says nothing.                                              *)
SameTime(a, b) ==
  LET unit == 10 ^ (Finest - LesserOf(LesserOf(a.digits, b.digits), Finest))
  IN  a.digits > 0 /\ b.digits > 0 /\ a.at \div unit = b.at \div unit

JudgeFiles(a, b, method) ==
  LET known == a.size # UnknownSize /\ b.size # UnknownSize
  IN  IF known /\ a.size # b.size THEN V("differs")
      ELSE IF method = "metadata" /\ known /\ SameTime(a, b) THEN V("same")
      ELSE ByContent

Unfollowable(state) == state.kind = "link" /\ state.to = "unresolvable"

JudgeStates(pair, a, b, method) ==
  LET both == <<a, b>>
      where(P(_)) == {pair[i] : i \in {j \in 1 .. 2 : P(both[j])}}
      some(kind) == a.kind = kind \/ b.kind = kind
      special(s) == s.kind = "other"
  IN  IF a.kind = "absent" /\ b.kind = "absent" THEN V("bothAbsent")
      ELSE IF some("unreadable") THEN Undecidable("name", {})
      ELSE IF some("other") THEN Undecidable("notRegular", where(special))
      ELSE IF Unfollowable(a) \/ Unfollowable(b)
        THEN Undecidable("unfollowable", where(Unfollowable))
      ELSE IF b.kind = "absent" THEN V("onlyFirst")
      ELSE IF a.kind = "absent" THEN V("onlySecond")
      ELSE IF a.kind # b.kind THEN V("kindDiffers")
      ELSE CASE a.kind = "link" -> SameOrDiffers(a.target = b.target)
             [] a.kind = "dir" -> V("same")
             [] a.kind = "file" -> JudgeFiles(a, b, method)

(***************************************************************************)
(* The pairs of a path, and whose hash they need.  Links are followed only *)
(* when both sides have one that stays inside the root.                    *)
(***************************************************************************)
NotFollowed == V("notFollowed")

JudgePairs(states, method, follow) ==
  LET at == states.states
      followed(pair) ==
        IF /\ follow
           /\ at[pair[1]].kind = "link" /\ at[pair[2]].kind = "link"
           /\ {pair[1], pair[2]} \cap states.outside = {}
        THEN JudgeStates(pair, FollowedState(at[pair[1]].to),
                         FollowedState(at[pair[2]].to), "content")
        ELSE NotFollowed
  IN  [pair \in {q \in Pairs : q[1] \in DOMAIN at /\ q[2] \in DOMAIN at} |->
        [verdict |-> JudgeStates(pair, at[pair[1]], at[pair[2]], method),
         followed |-> followed(pair)]]

HashRoles(judged) ==
  UNION {{pair[1], pair[2]} : pair \in
           {q \in DOMAIN judged : ByContent \in {judged[q].verdict, judged[q].followed}}}

(* Two links of the same text are compared by what they lead to.             *)
\* (mutant of CombineLinkPair: links of one text are the same)
CombineTexts(link, followed) == link
CombineLinkPair(link, followed) ==
  IF followed = NotFollowed THEN link
  ELSE IF link.v \in {"same", "differs"} /\ followed.v = "undecidable" THEN followed
  ELSE IF link.v = "same" /\ followed.v \notin {"same", "bothAbsent"} THEN V("differs")
  ELSE link

(***************************************************************************)
(* The answers.  An answer holds a content, or the failure to read it.     *)
(***************************************************************************)
Answer(body) == [ok |-> TRUE, body |-> body]
Failure(failure) == [ok |-> FALSE, failure |-> failure]
NoAnswer == Failure("disconnected")

OfPathOnly ==
  {"notFound", "notADirectory", "permissionDenied", "tooLarge", "io"}

(* A failure of one path makes its pairs undecidable; a lost connection, or  *)
(* a root that is gone, is of the side and ends the reading of it.           *)
FailureHandling(failure) ==
  CASE failure \in OfPathOnly -> "undecidable"
    [] failure = "disconnected" -> "byReconnection"
    [] failure = "rootGone" -> "stopSide"

ReadFailed(failures) == Undecidable("readFailed", failures)
Stopped(failure) == [v |-> "stopped", failure |-> failure]

(* failures is a set of roles with their failures.                           *)
ReadOutcome(failures) ==
  LET ends == {f \in failures : FailureHandling(f[2]) # "undecidable"}
  IN  IF ends # {} THEN Stopped(CHOOSE f \in ends : TRUE)
      ELSE IF failures # {} THEN ReadFailed(failures)
      ELSE V("read")

FailuresOf(answers, roles) ==
  {<<r, answers[r].failure>> :
     r \in {q \in roles \cap DOMAIN answers : ~answers[q].ok}}

JudgeHashes(pair, hashes) ==
  LET missing == {<<r, NoAnswer.failure>> : r \in {pair[1], pair[2]} \ DOMAIN hashes}
      read == ReadOutcome(missing \cup FailuresOf(hashes, {pair[1], pair[2]}))
  IN  IF read.v = "read"
      THEN SameOrDiffers(hashes[pair[1]].body = hashes[pair[2]].body)
      ELSE read

Settled(judgement, pair, hashes) ==
  IF judgement = ByContent THEN JudgeHashes(pair, hashes) ELSE judgement

SettlePair(pair, judged, hashes) ==
  LET link == Settled(judged.verdict, pair, hashes)
      followed == Settled(judged.followed, pair, hashes)
  IN  IF followed.v = "stopped" /\ link.v # "stopped" THEN followed
      ELSE CombineLinkPair(link, followed)

NoneLost == <<>>

(* The pairs of a side that was lost cannot be decided; lost is NoneLost or  *)
(* the role and its failure.                                                 *)
LosePairs(verdicts, lost) ==
  [pair \in DOMAIN verdicts |->
     IF lost # NoneLost /\ lost[1] \in {pair[1], pair[2]} THEN ReadFailed({lost})
     ELSE verdicts[pair]]

SettlePairs(judged, hashes, lost) ==
  LosePairs([pair \in DOMAIN judged |-> SettlePair(pair, judged[pair], hashes)], lost)

(* A content that could not be read makes the pairs of its side undecidable. *)
ApplyReads(verdicts, contents) ==
  [pair \in DOMAIN verdicts |->
     LET read == ReadOutcome(FailuresOf(contents, {pair[1], pair[2]}))
     IN  IF read.v = "stopped" \/ (read.v = "undecidable"
                                     /\ verdicts[pair].v # "undecidable")
         THEN read ELSE verdicts[pair]]

(***************************************************************************)
(* What is known of the destination, for the check before its change.      *)
(***************************************************************************)
NotObserved == [kind |-> "notObserved"]

Observed(states, hashes, role) ==
  LET state == StateOf(states, role)
  IN  CASE state.kind \in {"absent", "other", "dir"} -> [kind |-> state.kind]
        [] state.kind = "link" -> [kind |-> "link", target |-> state.target]
        [] state.kind = "file" /\ role \in DOMAIN hashes /\ hashes[role].ok ->
             [kind |-> "file", body |-> hashes[role].body]
        [] OTHER -> NotObserved
=============================================================================
