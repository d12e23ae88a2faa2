----------------------------- MODULE Treatment -----------------------------
(* What each command makes of compared paths: the reads it asks for beyond   *)
(* the ones a verdict needs, the plan of a merge with its check against a    *)
(* reference, what diff and status list, and the exit codes.  A compared     *)
(* path is a record of its states, the verdicts on its pairs, and the        *)
(* hashes and contents that were read.                                       *)
EXTENDS Verdicts

StateIn(compared, role) == StateOf(compared.states, role)
Present(state) == state.kind \notin {"absent", "notCollected"}
IsFile(states, role) == StateOf(states, role).kind = "file"
LinkToDirectory(state) == state.kind = "link" /\ state.to = "directory"

NotCompared == V("notCompared")
VerdictOn(compared, pair) ==
  IF pair \in DOMAIN compared.verdicts THEN compared.verdicts[pair] ELSE NotCompared

(* The kinds a path can be written as; every other state is of one kind.     *)
KindOf(state) == IF state.kind \in {"file", "dir", "link"} THEN state.kind ELSE "other"

(***************************************************************************)
(* What is merged: all that is named and all that is below it.  With no    *)
(* names, or where names cannot be scanned one by one, the whole root is   *)
(* scanned.                                                                *)
(***************************************************************************)
ManyPaths == 21

ParentOf(p) == SubSeq(p, 1, Len(p) - 1)

(* paths are what was typed: the name, and whether it ends with a slash or   *)
(* holds a wildcard.                                                         *)
MergeTargets(paths, delete) ==
  LET names == {p.name : p \in paths}
      slashed == {p \in paths : p.slash}
      below == {IF slashed = paths THEN p.name ELSE ParentOf(p.name) : p \in paths}
      whole == \/ delete \/ \E p \in paths : p.glob
               \/ slashed \notin {{}, paths}
               \/ Cardinality(paths) >= ManyPaths
               \/ <<>> \in below
  IN  IF <<>> \in names THEN [named |-> {}, below |-> {<<>>}]
      ELSE [named |-> names, below |-> IF whole THEN {<<>>} ELSE below]

Selects(targets, p) ==
  targets.named = {} \/ ({p} \cup Ancestors(p)) \cap targets.named # {}

(***************************************************************************)
(* The reads of each command.                                              *)
(***************************************************************************)
FilesAmong(states, roles) == {r \in roles : IsFile(states, r)}
FilesOrAbsent(states) ==
  \A r \in {"left", "right"} : StateOf(states, r).kind \in {"file", "absent"}

(* The hash of a destination that will be changed, so that it can be told    *)
(* unchanged just before, and all three when a reference is checked.         *)
\* (mutant of MergeHashes: the reference is compared by the listings alone)
MergeHashesOfTwo(states, judged, options) ==
  IF LeftRight \in DOMAIN judged THEN FilesAmong(states, {"right"}) ELSE {}
MergeHashes(states, judged, options) ==
  LET verdict == IF LeftRight \in DOMAIN judged THEN judged[LeftRight].verdict
                 ELSE NotCompared
      writes == verdict \in {ByContent, V("differs"), V("onlyFirst")}
      changes == \/ verdict \in {ByContent, V("differs")}
                 \/ verdict = V("onlySecond") /\ options.delete
  IN  FilesAmong(states, (IF changes THEN {"right"} ELSE {})
                           \cup (IF options.check /\ writes THEN Roles ELSE {}))

MergeContents(states, verdicts, options) ==
  IF options.dryRun \/ LeftRight \notin DOMAIN verdicts THEN {}
  ELSE IF verdicts[LeftRight] \in {V("differs"), V("onlyFirst")}
  THEN FilesAmong(states, {"left"}) ELSE {}

ReferenceIsCompared(states) == IsFile(states, "ref") /\ FilesOrAbsent(states)

DiffContents(states, verdicts) ==
  LET changed == /\ LeftRight \in DOMAIN verdicts
                 /\ verdicts[LeftRight].v \in {"differs", "onlyFirst", "onlySecond", "kindDiffers"}
      inside == {"left", "right"} \cap states.outside = {}
  IN  IF ~changed THEN {}
      ELSE ({"left", "right"} \cup (IF inside /\ ReferenceIsCompared(states)
                                    THEN {"ref"} ELSE {})) \ states.outside

HashesUsed(command, states, judged, options) ==
  CASE command \in {"merge", "sync"} -> MergeHashes(states, judged, options)
    [] command = "hunks" -> FilesAmong(states, {"right"})
    [] OTHER -> {}

ContentsUsed(command, states, verdicts, options) ==
  CASE command \in {"merge", "sync"} -> MergeContents(states, verdicts, options)
    [] command = "hunks" ->
         FilesAmong(states, {"left", "right"} \cup (IF options.check THEN {"ref"} ELSE {}))
    [] command = "diff" -> DiffContents(states, verdicts)
    [] OTHER -> {}

(* Where the pairs with the reference are judged at all.                     *)
JudgesReference(command, states) ==
  CASE command = "status" ->
         /\ KindOf(StateOf(states, "left")) # "other"
         /\ KindOf(StateOf(states, "left")) = KindOf(StateOf(states, "right"))
    [] command = "diff" -> FilesOrAbsent(states)
    [] OTHER -> TRUE

(***************************************************************************)
(* One path of a merge.                                                    *)
(***************************************************************************)
Entry(e) == [e |-> e]
Skip(reason) == [e |-> "skip", reason |-> reason]
Fail(why) == [e |-> "fail", why |-> why]
Writes == {Entry("writeFile"), Entry("writeLink")}
Changes == Writes \cup {Entry("delete")}
KindMismatch == Skip("kindMismatch")

Written(source) ==
  CASE source.kind = "file" -> Entry("writeFile")
    [] source.kind = "link" -> Entry("writeLink")
    [] OTHER -> Entry("nothing")

\* (mutant of DestinationOnly: links are removed like files)
DestinationOnlyAny(destination, delete) ==
  IF delete /\ destination.kind \in {"file", "link"} THEN Entry("delete")
  ELSE Entry("nothing")
DestinationOnly(destination, delete) ==
  CASE destination.kind = "file" /\ delete -> Entry("delete")
    [] destination.kind = "link" /\ delete -> Skip("linkNotDeleted")
    [] destination.kind \in {"file", "link"} /\ ~delete -> Skip("destinationOnly")
    [] OTHER -> Entry("nothing")

MergeEntry(compared, delete) ==
  LET source == StateIn(compared, "left")
      destination == StateIn(compared, "right")
      verdict == VerdictOn(compared, LeftRight)
      directories == \/ source.kind = "dir" /\ LinkToDirectory(destination)
                     \/ destination.kind = "dir" /\ LinkToDirectory(source)
  IN  CASE verdict.v = "bothAbsent" -> Entry("absent")
        [] verdict.v = "undecidable" -> Fail(verdict.why)
        [] verdict.v \in {"onlyFirst", "differs"} -> Written(source)
        [] verdict.v = "onlySecond" -> DestinationOnly(destination, delete)
        [] verdict.v = "kindDiffers" /\ ~directories -> KindMismatch
        [] OTHER -> Entry("nothing")

(* A destination whose hash could not be read cannot be told unchanged.      *)
WithReadFailure(entry, compared) ==
  LET failures == FailuresOf(compared.hashes, {"right"})
      verdict == VerdictOn(compared, LeftRight)
      ofReads == verdict.v = "undecidable" /\ verdict.why = "readFailed"
  IN  IF ReadOutcome(failures).v = "undecidable" /\ (entry \in Changes \/ ofReads)
      THEN Fail("readFailed") ELSE entry

(* A link that would be replaced must be told unchanged by its text, and one *)
(* that would be made must be made of text.                                  *)
WithLinkText(entry, compared) ==
  LET garbled(role) == /\ StateIn(compared, role).kind = "link"
                       /\ StateIn(compared, role).target = Garbled
  IN  IF entry # Entry("writeLink") THEN entry
      ELSE IF garbled("right") THEN Fail("linkUnverifiable")
      ELSE IF garbled("left") THEN Fail("linkNotText") ELSE entry

(***************************************************************************)
(* The check against the reference: only a destination that is still as    *)
(* the reference has it may be written.                                    *)
(***************************************************************************)
Same(compared, role) ==
  LET ours == StateIn(compared, role)
      reference == StateIn(compared, "ref")
      hashes == compared.hashes
      byVerdict == IF VerdictOn(compared, <<role, "ref">>) = V("same")
                   THEN "same" ELSE "changed"
      equal(a, b) == IF a = b THEN "same" ELSE "changed"
  IN  IF ours.kind = "file" /\ reference.kind = "file"
      THEN IF FailuresOf(hashes, {role, "ref"}) # {} THEN "unknown"
           ELSE IF {role, "ref"} \subseteq DOMAIN hashes
           THEN equal(hashes[role], hashes["ref"])
           ELSE byVerdict
      ELSE IF ours.kind = "link" /\ reference.kind = "link"
      THEN equal(ours.target, reference.target)
      ELSE byVerdict

ReferenceCheck(compared) ==
  LET at(role) == StateIn(compared, role)
      there == Present(at("right"))
      inReference == Present(at("ref"))
      real(role) == KindOf(at(role)) # "other"
      otherKind == /\ real("left") /\ real("ref")
                   /\ KindOf(at("left")) = KindOf(at("right"))
                   /\ KindOf(at("left")) # KindOf(at("ref"))
      verdicts == {VerdictOn(compared, pair) : pair \in Pairs}
      undecided == {v \in verdicts : v.v = "undecidable"}
      unread == NotCompared \in verdicts \/ \E v \in undecided : v.why = "readFailed"
  IN  IF ~there /\ ~inReference THEN "write"
      ELSE IF ~there THEN "destinationChanged"
      ELSE IF ~inReference THEN "notInReference"
      ELSE IF otherKind THEN "conflict"
      ELSE IF unread THEN "incomplete"
      ELSE IF undecided # {} THEN "undecidable"
      ELSE IF "unknown" \in {Same(compared, "left"), Same(compared, "right")} THEN "incomplete"
      ELSE IF Same(compared, "right") = "same" THEN "write"
      ELSE IF Same(compared, "left") = "same" THEN "destinationChanged"
      ELSE "conflict"

WithReference(entry, compared) ==
  LET check == ReferenceCheck(compared)
  IN  IF entry \in Writes /\ check # "write" THEN Fail(check) ELSE entry

(***************************************************************************)
(* The plan of a merge.                                                    *)
(***************************************************************************)
NamesMissing(compared, targets, options) ==
  {p \in targets.named :
     p \notin DOMAIN compared \/ MergeEntry(compared[p], options.delete) = Entry("absent")}

(* Nothing below a path that is skipped for its kind is touched.             *)
WithoutSkippedSubtrees(entries) ==
  LET below(p) == \E q \in Ancestors(p) \cap DOMAIN entries : entries[q] = KindMismatch
  IN  [p \in {q \in DOMAIN entries : ~below(q)} |-> entries[p]]

MergePlan(compared, targets, options) ==
  LET missing == NamesMissing(compared, targets, options)
      above == UNION {Ancestors(p) : p \in targets.named \ missing}
      plain(p) == MergeEntry(compared[p], options.delete)
      overDirectory(p) ==
        /\ plain(p) = KindMismatch
        /\ \/ StateIn(compared[p], "right").kind = "dir"
           \/ LinkToDirectory(StateIn(compared[p], "right"))
      considered(p) == \/ Selects(targets, p)
                       \/ <<>> \in targets.below /\ p \in above /\ overDirectory(p)
      read(p) == WithLinkText(WithReadFailure(plain(p), compared[p]), compared[p])
      checked(p) == IF options.check THEN WithReference(read(p), compared[p]) ELSE read(p)
      kept == {p \in DOMAIN compared \ missing :
                 considered(p) /\ read(p) \notin {Entry("absent"), Entry("nothing")}}
      entries == WithoutSkippedSubtrees([p \in kept |-> checked(p)])
  IN  [p \in DOMAIN entries \cup missing |->
         IF p \in missing THEN Entry("notFound") ELSE entries[p]]

Planned(plan, kinds) == {p \in DOMAIN plan : plan[p] \in kinds}
MismatchesIn(plan) == Planned(plan, {KindMismatch})

(* Names that neither side has stop the command when no plan has any other.  *)
AllMissing(plans, named) ==
  /\ named # {}
  /\ \A i \in DOMAIN plans : Planned(plans[i], {Entry("notFound")}) = named

\* (mutant of MergeExit: a skipped path is no failure)
MergeExitIfFailed(failed, plan) == IF failed THEN 2 ELSE 0
MergeExit(failed, plan) == IF failed \/ MismatchesIn(plan) # {} THEN 2 ELSE 0

(* The status of one destination of a sync.                                  *)
TargetStatus(changed, failed) ==
  IF ~failed THEN "success" ELSE IF changed THEN "partial" ELSE "failed"

SyncExit(statuses) == IF statuses \subseteq {"success"} THEN 0 ELSE 2

(***************************************************************************)
(* What status and diff list.                                              *)
(***************************************************************************)
OnlyDirectories(compared) ==
  LET there == {StateIn(compared, r) : r \in {"left", "right"}}
               \ {Absent, [kind |-> "notCollected"]}
  IN  there # {} /\ \A s \in there : s.kind = "dir"

Listing(compared) ==
  LET verdict == VerdictOn(compared, LeftRight)
  IN  IF verdict = NotCompared \/ OnlyDirectories(compared) THEN "notListed"
      ELSE CASE verdict.v = "bothAbsent" -> "notListed"
             [] verdict.v = "undecidable" -> "unreadable"
             [] verdict.v = "same" -> "equal"
             [] verdict.v = "onlyFirst" -> "leftOnly"
             [] verdict.v = "onlySecond" -> "rightOnly"
             [] OTHER -> "modified"

RefMark(compared) ==
  LET there(role) == Present(StateIn(compared, role))
      verdicts == {compared.verdicts[pair] : pair \in DOMAIN compared.verdicts}
      withRef == {VerdictOn(compared, <<r, "ref">>) : r \in {"left", "right"}}
  IN  IF ~there("ref") THEN "missingInRef"
      ELSE IF ~(there("left") /\ there("right")) THEN "differs"
      ELSE IF V("kindDiffers") \in verdicts THEN "differs"
      ELSE IF \E v \in withRef : v.v = "undecidable" THEN "unreadable"
      ELSE IF verdicts = {V("same")} THEN "allEqual" ELSE "differs"

StatusErrors(compared, withRef) ==
  {p \in DOMAIN compared :
     \/ Listing(compared[p]) = "unreadable"
     \/ withRef /\ Listing(compared[p]) # "notListed" /\ RefMark(compared[p]) = "unreadable"}

StatusChanged(compared) ==
  {p \in DOMAIN compared : Listing(compared[p]) \in {"leftOnly", "rightOnly", "modified"}}

ListExit(changed, errors) == IF errors THEN 2 ELSE IF changed THEN 1 ELSE 0

(* What diff says of a path beside its differences.                          *)
NotComparedBecause(states) ==
  LET sides == {"left", "right"}
      broken == \E r \in sides :
                  StateOf(states, r).kind = "link" /\ StateOf(states, r).to = "missing"
  IN  IF sides \cap states.outside # {} THEN {"outside"}
      ELSE IF broken THEN {"targetMissing"} ELSE {}

(* incomplete has the roles whose listing was cut or cyclic.                 *)
ThroughOutside(states, incomplete) ==
  ({"left", "right"} \cap states.notCollected) \ incomplete # {}

ReferenceOutside(states, incomplete) ==
  /\ {"left", "right"} \cap states.outside = {}
  /\ "ref" \in states.outside \/ "ref" \in states.notCollected \ incomplete

ComparedElsewhere(states) ==
  \E r \in {"left", "right"} :
    StateOf(states, r).kind \notin {"absent", "dir", "notCollected"}

UndecidedReference(compared) ==
  \E r \in {"left", "right"} : VerdictOn(compared, <<r, "ref">>).v = "undecidable"

DiffErrors(compared, named, incomplete, withRef) ==
  LET states(p) == compared[p].states
      through(p) == ThroughOutside(states(p), incomplete)
      listed(p) == ~through(p) /\ Listing(compared[p]) \notin {"notListed", "unreadable"}
  IN  {p \in DOMAIN compared :
         \/ through(p) /\ (p \in named \/ ComparedElsewhere(states(p)))
         \/ ~through(p) /\ Listing(compared[p]) = "unreadable"
         \/ /\ listed(p)
            /\ \/ NotComparedBecause(states(p)) # {}
               \/ withRef /\ (UndecidedReference(compared[p])
                                \/ ReferenceOutside(states(p), incomplete))}

DiffChanged(compared, incomplete) ==
  {p \in StatusChanged(compared) : ~ThroughOutside(compared[p].states, incomplete)}

(* The names neither side has, when both listings are whole.                 *)
DiffMissing(compared, named, incomplete) ==
  LET found(p) == /\ p \in DOMAIN compared
                  /\ \E r \in {"left", "right"} :
                       StateIn(compared[p], r) # Absent
  IN  IF {"left", "right"} \cap incomplete # {} THEN {} ELSE {p \in named : ~found(p)}
=============================================================================
