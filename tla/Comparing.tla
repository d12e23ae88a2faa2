----------------------------- MODULE Comparing -----------------------------
(* One run of status, diff, merge, merge --hunks or sync, from the listings  *)
(* of the sides to the exit code.  The left side is compared with one right  *)
(* side after the other (one, but for sync), and with the reference if there *)
(* is one.  A side answers one request at a time: a listing, the hashes of a *)
(* batch of paths, their contents.  Between two requests others may change   *)
(* any side, and a request may end with the connection lost for good or the  *)
(* root gone.  How a planned change is made and reported is in MergeApply;   *)
(* here it is a step that compares the path once more and changes it.        *)
EXTENDS Treatment

CONSTANTS
  Paths,        \* the paths that may be there, with their ancestors
  Sides,        \* the source, the reference and the right sides
  Starts,       \* the options of a run with the world it may find
  OthersMay,    \* the triples of side, path and thing others may put there
  MaxMoves,     \* bound: how often others change something
  MaxFailures,  \* bound: how many requests end without an answer
  MaxEntries,   \* the limit on the entries of a listing
  Filtered,     \* the paths the filter keeps out of a listing of directories
  Unreadable,   \* the pairs of side and path whose content cannot be read
  TooLarge,     \* the contents over the size limit
  Sizes         \* the size of each content

NoWorld == [kind |-> "absent"]
Left == "source"
Ref == "reference"

(* What is below a path is only where it is a directory, or a link to one.   *)
IsDirectory(thing) == thing.kind = "dir" \/ LinkToDirectory(thing)
Kinds == {"absent", "file", "dir", "link", "other", "unreadable"}
Proper(thing) == thing.kind \in Kinds /\ (thing.kind = "absent" => thing = NoWorld)
IsTree(tree) ==
  /\ DOMAIN tree = Paths
  /\ \A p \in Paths :
       /\ Proper(tree[p])
       /\ tree[p] # NoWorld => \A q \in Ancestors(p) : IsDirectory(tree[q])

ASSUME PathsClosed ==
  \A p \in Paths : p \in Seq({p[i] : i \in DOMAIN p}) /\ Ancestors(p) \subseteq Paths
\* Sides begin as trees; merge and sync refuse to run without a path.
ASSUME StartsAreProper ==
  /\ {Left, Ref} \subseteq Sides
  /\ \A s \in Starts :
       /\ s.opts.rights \in Seq(Sides)
       /\ s.opts.command \in {"merge", "sync"} => s.opts.paths # {}
       /\ DOMAIN s.world = Sides /\ \A side \in Sides : IsTree(s.world[side])
ASSUME MovesAreCounted == MaxMoves \in Nat
ASSUME OthersPutThings == \A m \in OthersMay : m[2] \in Paths /\ Proper(m[3])

VARIABLES
  world,      \* what is at each path of each side
  budget,     \* the moves and failures that are left
  stops,      \* for each side: "no", "lost" or "rootGone"
  opts,       \* the options of this run
  pc,         \* what the command does next
  right,      \* the number of the right side it compares
  role,       \* the number of the role it asks
  names,      \* {} for the scan of the directories, or the names asked for
  listings,   \* the listing of each role asked so far
  outside,    \* for each of them, the links that lead outside the root
  table,      \* the states and the judged pairs of each path that was listed
  answers,    \* the hashes, or the contents, of each role asked so far
  lost,       \* the right side that was lost while a batch was read
  hashed,     \* the hashes and verdicts of each path, while contents are read
  compared,   \* the paths compared with this right side
  incomplete, \* the roles whose listing is not whole
  cache,      \* what sync keeps of the source
  plans,      \* the plan of each right side so far
  results,    \* for each right side, what became of the changes
  exit,       \* the exit code
  had         \* what the source had when it was scanned, and when it was
              \* last listed for each right side

asking == <<role, names, listings, outside, table, answers, lost, hashed>>
vars == <<world, budget, stops, opts, pc, right, asking, compared, incomplete,
          cache, plans, results, exit, had>>

(* f, and g where f says nothing.                                            *)
Extended(f, g) == [x \in DOMAIN f \cup DOMAIN g |-> IF x \in DOMAIN f THEN f[x] ELSE g[x]]
Only(x, y) == [z \in {x} |-> y]

\* The right sides in the order they were given, and the roles of a comparison.
Rights == opts.rights
WithRef == opts.withRef
RoleSeq == IF WithRef THEN <<"left", "right", "ref">> ELSE <<"left", "right">>
Used == {Left} \cup {Rights[i] : i \in DOMAIN Rights} \cup (IF WithRef THEN {Ref} ELSE {})

Merging == opts.command \in {"merge", "sync", "hunks"}
SideOf(r) == CASE r = "left" -> Left [] r = "right" -> Rights[right] [] r = "ref" -> Ref
Asked == RoleSeq[role]
Targets == MergeTargets(opts.paths, opts.delete)
Named == IF opts.command = "status" THEN {} ELSE Targets.named
NoCache == [listing |-> <<>>, hashes |-> <<>>, contents |-> <<>>]

(* Only sync has several right sides, and no reference; no side is compared  *)
(* with itself.                                                              *)
SidesAccepted(o) ==
  LET to == {o.rights[i] : i \in DOMAIN o.rights}
  IN  /\ to # {} /\ Left \notin to /\ Cardinality(to) = Len(o.rights)
      /\ IF o.command = "sync" THEN ~o.withRef
         ELSE Len(o.rights) = 1 /\ (o.withRef => Ref \notin to)

Init ==
  /\ \E start \in {s \in Starts : SidesAccepted(s.opts)} : world = start.world /\ opts = start.opts
  /\ budget = [moves |-> MaxMoves, failures |-> MaxFailures]
  /\ stops = [s \in Sides |-> "no"]
  /\ pc = "connect" /\ right = 1
  /\ role = 1 /\ names = {} /\ listings = <<>> /\ outside = <<>>
  /\ table = <<>> /\ answers = <<>> /\ lost = NoneLost /\ hashed = <<>>
  /\ compared = <<>> /\ incomplete = {} /\ cache = NoCache
  /\ plans = <<>> /\ results = <<>> /\ exit = 0
  /\ had = [scan |-> {}, of |-> [i \in DOMAIN Rights |-> {}]]

(***************************************************************************)
(* What others do.                                                         *)
(***************************************************************************)
(* What was below a path goes when it is no directory any more.              *)
Put(side, p, thing) ==
  [world EXCEPT ![side] =
     [q \in Paths |-> IF q = p THEN thing
                      ELSE IF p \in Ancestors(q) /\ ~IsDirectory(thing) THEN NoWorld
                      ELSE world[side][q]]]

OthersStep ==
  /\ budget.moves > 0 /\ pc # "ended"
  /\ \E m \in OthersMay :
       /\ m[1] \in Sides /\ world[m[1]][m[2]] # m[3]
       /\ \A q \in Ancestors(m[2]) : IsDirectory(world[m[1]][q])
       /\ world' = Put(m[1], m[2], m[3])
  /\ budget' = [budget EXCEPT !.moves = @ - 1]
  /\ UNCHANGED <<stops, opts, pc, right, asking, compared, incomplete, cache, plans,
                 results, exit, had>>

(***************************************************************************)
(* How the comparison of a right side ends.                                *)
(***************************************************************************)
EndWith(code) == pc' = "ended" /\ exit' = code

NewRound(of) == /\ role' = 1 /\ names' = of /\ listings' = <<>> /\ outside' = <<>>
                /\ table' = <<>> /\ answers' = <<>> /\ lost' = NoneLost /\ hashed' = <<>>

(* The next right side of a sync, or the changes.                            *)
NextRight(plan) ==
  /\ NewRound({}) /\ compared' = <<>> /\ incomplete' = {}
  /\ plans' = Append(plans, plan)
  /\ IF right < Len(Rights) THEN right' = right + 1 /\ pc' = "connect" /\ UNCHANGED exit
     ELSE /\ right' = 1
          /\ IF AllMissing([i \in DOMAIN plans' |-> plans'[i].plan], Named)
             THEN EndWith(2) ELSE pc' = "confirm" /\ UNCHANGED exit

FailedTarget == [failed |-> TRUE, plan |-> <<>>, compared |-> <<>>]

(* What a scan of directories would list, and what is listed of names that   *)
(* are asked for themselves, where no filter applies.                        *)
Dirs == IF Merging THEN Targets.below
        ELSE IF Named # {} THEN Named ELSE {<<>>}
Below(p) == \E d \in Dirs : d = <<>> \/ p = d \/ d \in Ancestors(p)
There(side) == {p \in Paths : world[side][p] # NoWorld}
InDirectories(side) == {p \in There(side) : Below(p) /\ (p \in Filtered => p \in Dirs)}
Seen(side) == IF names # {} THEN There(side) \cap names ELSE InDirectories(side)

(* Before the failure of a comparison is laid on the right side of a sync,   *)
(* the source is listed once more to see whether it is the source that fails.*)
SourceFails(stopsNow) ==
  \/ stopsNow[Left] # "no"
  \/ \E p \in InDirectories(Left) : Unfollowable(OfEntry(world[Left][p]))

(* An error in the comparison ends the command; that of one right side of a  *)
(* sync ends only the comparison of that side.                               *)
FailComparison(stopsNow) ==
  IF opts.command = "sync" /\ ~SourceFails(stopsNow)
  THEN NextRight(FailedTarget)
  ELSE EndWith(2) /\ UNCHANGED <<right, asking, compared, incomplete, plans>>

ErrorInComparison(stopsNow) ==
  /\ FailComparison(stopsNow)
  /\ stops' = stopsNow
  /\ UNCHANGED <<world, opts, cache, results, had>>

(* A request that ends without an answer, after the one reconnection.        *)
NoAnswerFrom(side) ==
  /\ budget.failures > 0 /\ stops[side] = "no"
  /\ budget' = [budget EXCEPT !.failures = @ - 1]

Connect ==
  /\ pc = "connect"
  /\ pc' = "list"
  /\ UNCHANGED <<world, budget, stops, opts, right, asking, compared, incomplete, cache,
                 plans, results, exit, had>>

(* A side that cannot be connected to.  The source of a sync is connected to *)
(* before the first right side.                                              *)
ConnectFails ==
  /\ pc = "connect" /\ budget.failures > 0
  /\ budget' = [budget EXCEPT !.failures = @ - 1]
  /\ \E side \in Used :
       IF opts.command = "sync" /\ side # Left
       THEN side = Rights[right] /\ NextRight(FailedTarget)
       ELSE /\ right = 1 /\ EndWith(2) /\ UNCHANGED <<right, asking, compared, incomplete, plans>>
  /\ UNCHANGED <<world, stops, opts, cache, results, had>>

(***************************************************************************)
(* The listings.                                                           *)
(***************************************************************************)
Loops(thing) == thing.kind = "link" /\ thing.loop
ToCycle(seen, side) == {p \in seen : Loops(world[side][p])}

(* The scan of a directory stops at the limit with any entries it got; the   *)
(* limit of a merge is that of each directory named.                         *)
Groups == IF Merging THEN Dirs ELSE {<<>>}
InGroup(g, ps) == {p \in ps : p = g \/ g = <<>> \/ g \in Ancestors(p)}

Kept(seen) ==
  {k \in SUBSET seen :
     \A g \in Groups : Cardinality(InGroup(g, k))
                         = LesserOf(MaxEntries, Cardinality(InGroup(g, seen)))}

ListingOf(side, kept, seen) ==
  [entries |-> [p \in kept |-> OfEntry(world[side][p])],
   truncated |-> kept # seen, cycle |-> ToCycle(kept, side) # {}]

HasUnfollowable(listing) ==
  \E p \in DOMAIN listing.entries : Unfollowable(listing.entries[p])

StopsAtLinks == opts.command = "diff" /\ ~opts.followExternal
FromCache == opts.command = "sync" /\ Asked = "left" /\ names = {} /\ cache.listing # <<>>

AfterListing(listing) ==
  IF Merging /\ HasUnfollowable(listing)
  THEN FailComparison(stops)
  ELSE /\ listings' = Extended(listings, Only(Asked, listing))
       /\ outside' = Extended(outside, Only(Asked, {}))
       /\ incomplete' = incomplete \cup
            (IF listing.truncated \/ listing.cycle THEN {Asked} ELSE {})
       /\ IF StopsAtLinks THEN pc' = "facts" /\ UNCHANGED role
          ELSE IF role = Len(RoleSeq) THEN pc' = "collected" /\ role' = 1
          ELSE role' = role + 1 /\ UNCHANGED pc
       /\ UNCHANGED <<right, names, table, answers, lost, hashed, compared, plans, exit>>

List ==
  /\ pc = "list" /\ (FromCache \/ stops[SideOf(Asked)] = "no")
  /\ LET side == SideOf(Asked)
         seen == Seen(side)
     IN  IF FromCache
         THEN /\ AfterListing(cache.listing)
              /\ UNCHANGED cache
              /\ had' = [had EXCEPT !.of[right] = had.scan]
         ELSE \E kept \in Kept(seen) :
                LET listing == ListingOf(side, kept, seen)
                IN  /\ AfterListing(listing)
                    /\ cache' = IF opts.command = "sync" /\ side = Left /\ names = {}
                                THEN [cache EXCEPT !.listing = listing] ELSE cache
                    /\ had' = CASE side # Left -> had
                                [] side = Left /\ names = {} ->
                                     [scan |-> There(side),
                                      of |-> [had.of EXCEPT ![right] = There(side)]]
                                [] side = Left /\ names # {} ->
                                     [had EXCEPT !.of[right] =
                                        (@ \ names) \cup (There(side) \cap names)]
  /\ UNCHANGED <<world, budget, stops, opts, results>>

(* Where the listed links, and the names on the way, lead is asked for after *)
(* the scan.                                                                 *)
OnTheWay == UNION {Ancestors(p) \cup {p} : p \in names}

Facts ==
  /\ pc = "facts" /\ stops[SideOf(Asked)] = "no"
  /\ LET links == DOMAIN listings[Asked].entries \cup OnTheWay
         side == SideOf(Asked)
     IN  outside' = [outside EXCEPT ![Asked] =
           {p \in links : world[side][p].kind = "link" /\ world[side][p].out}]
  /\ IF role = Len(RoleSeq) THEN pc' = "collected" /\ role' = 1
     ELSE pc' = "list" /\ role' = role + 1
  /\ UNCHANGED <<world, budget, stops, opts, right, names, listings, table, answers, lost, hashed,
                 compared, incomplete, cache, plans, results, exit, had>>

(* A listing, or the facts, that are not answered: the side was stopped      *)
(* before, or is now.                                                        *)
ListFails ==
  /\ pc \in {"list", "facts"}
  /\ ~(pc = "list" /\ FromCache)
  /\ LET side == SideOf(Asked)
     IN  \/ /\ stops[side] # "no" /\ UNCHANGED budget
            /\ ErrorInComparison(stops)
         \/ \E how \in {"lost", "rootGone"} :
              /\ NoAnswerFrom(side)
              /\ ErrorInComparison([stops EXCEPT ![side] = how])

(***************************************************************************)
(* The hashes and the contents.                                            *)
(***************************************************************************)
MethodFor(p) == ChooseMethod(opts.command, opts.checksum, p \in Named)

Judged(p, states) ==
  LET judged == JudgePairs(states, MethodFor(p), opts.command = "diff")
  IN  IF JudgesReference(opts.command, states) THEN judged
      ELSE [pair \in {q \in DOMAIN judged : q[2] # "ref"} |-> judged[pair]]

(* The states of all that was listed, and what the pairs of each path need.  *)
Collect ==
  /\ pc = "collected" /\ pc' = "hash"
  /\ LET states == StateTable(listings, outside)
     IN  table' = [p \in DOMAIN states |->
                     [states |-> states[p], judged |-> Judged(p, states[p])]]
  /\ listings' = <<>> /\ outside' = <<>>
  /\ UNCHANGED <<world, budget, stops, opts, right, role, names, answers, lost, hashed,
                 compared, incomplete, cache, plans, results, exit, had>>

ReadsOptions == [delete |-> opts.delete, dryRun |-> opts.dryRun,
                 check |-> WithRef /\ ~opts.force]
UsesPath(p) ==
  CASE opts.command \in {"merge", "sync"} -> Selects(Targets, p)
    [] opts.command = "hunks" -> p \in Named
    [] OTHER -> TRUE

RolesToHash(p) ==
  HashRoles(table[p].judged) \cup
    (IF UsesPath(p) THEN HashesUsed(opts.command, table[p].states, table[p].judged, ReadsOptions) ELSE {})
ToHash(r) == {p \in DOMAIN table : r \in RolesToHash(p) /\ HasContent(StateOf(table[p].states, r))}

RolesToRead(p) ==
  IF UsesPath(p)
  THEN ContentsUsed(opts.command, table[p].states, hashed[p].verdicts, ReadsOptions)
  ELSE {}
(* A destination that was lost with the hashes is not asked for contents.    *)
ToRead(r) ==
  {p \in DOMAIN table : /\ r \in RolesToRead(p) /\ HasContent(StateOf(table[p].states, r))
                        /\ lost # NoneLost => r # "right"}

WantedOf(r) == IF pc = "hash" THEN ToHash(r) ELSE ToRead(r)

BodyAt(side, p) ==
  LET thing == world[side][p]
  IN  CASE \E q \in Ancestors(p) : ~IsDirectory(world[side][q]) -> Failure("notADirectory")
        [] thing = NoWorld -> Failure("notFound")
        [] <<side, p>> \in Unreadable -> Failure("permissionDenied")
        [] HasContent(thing) -> Answer(thing.body)
        [] OTHER -> Failure("io")

ReadAt(side, p) ==
  LET body == BodyAt(side, p)
  IN  IF pc = "read" /\ body.ok /\ body.body \in TooLarge /\ ~opts.force
      THEN Failure("tooLarge") ELSE body

\* (mutant of Known: the source is read anew for each target)
KnownOfNothing == <<>>
Known == IF Asked # "left" \/ opts.command # "sync" \/ names # {} THEN <<>>
         ELSE IF pc = "hash" THEN cache.hashes ELSE cache.contents

NextRole ==
  IF role < Len(RoleSeq) THEN role' = role + 1 /\ UNCHANGED pc
  ELSE role' = 1 /\ pc' = IF pc = "hash" THEN "judge" ELSE "settle"

Keeps(known) ==
  IF Asked # "left" \/ opts.command # "sync" \/ names # {} THEN cache
  ELSE IF pc = "hash" THEN [cache EXCEPT !.hashes = known]
  ELSE [cache EXCEPT !.contents = known]

(* One batch; what sync has of the source already is not asked for again.    *)
Ask ==
  /\ pc \in {"hash", "read"}
  /\ LET side == SideOf(Asked)
         wanted == WantedOf(Asked)
         known == Extended(Known, [p \in wanted |-> ReadAt(side, p)])
     IN  /\ wanted \ DOMAIN Known = {} \/ stops[side] = "no"
         /\ answers' = Extended(answers, Only(Asked, [p \in wanted |-> known[p]]))
         /\ cache' = Keeps(known)
  /\ NextRole
  /\ UNCHANGED <<world, budget, stops, opts, right, names, listings, outside, table, lost, hashed,
                 compared, incomplete, plans, results, exit, had>>

(* A batch without an answer, or without the answer for one of its paths,    *)
(* which stops nothing but the comparison.  The paths of a destination that  *)
(* is lost fail, and the others go on; any other loss ends the comparison.   *)
AskFails ==
  /\ pc \in {"hash", "read"}
  /\ WantedOf(Asked) \ DOMAIN Known # {}
  /\ LET side == SideOf(Asked)
         failing(stopsNow) ==
           IF Asked = "right" /\ Merging /\ stopsNow[side] = "lost"
           THEN /\ lost' = <<"right", "disconnected", WantedOf("right")>>
                /\ NextRole
                /\ stops' = stopsNow
                /\ UNCHANGED <<world, opts, right, names, listings, outside, table, answers, hashed,
                               compared, incomplete, cache, plans, results, exit, had>>
           ELSE ErrorInComparison(stopsNow)
     IN  \/ stops[side] # "no" /\ failing(stops) /\ UNCHANGED budget
         \/ \E how \in {"lost", "rootGone", "no"} :
              NoAnswerFrom(side) /\ failing([stops EXCEPT ![side] = how])

AnswersFor(p) ==
  [r \in {q \in DOMAIN answers : p \in DOMAIN answers[q]} |-> answers[r][p]]
LostFor(p) == IF lost # NoneLost /\ p \in lost[3] THEN <<lost[1], lost[2]>> ELSE NoneLost

(* The verdicts once the hashes are there.                                   *)
Judge ==
  /\ pc = "judge"
  /\ hashed' = [p \in DOMAIN table |->
                  [hashes |-> AnswersFor(p),
                   verdicts |-> SettlePairs(table[p].judged, AnswersFor(p), LostFor(p))]]
  /\ lost' = IF lost = NoneLost THEN lost ELSE <<lost[1], lost[2], {}>>
  /\ pc' = "read" /\ answers' = <<>>
  /\ UNCHANGED <<world, budget, stops, opts, right, role, names, listings, outside, table,
                 compared, incomplete, cache, plans, results, exit, had>>

(* What was read is put with what was compared before.  A name that the scan *)
(* of its directory did not list is listed by itself in a second round.      *)
Result(p) ==
  LET verdicts == hashed[p].verdicts
  IN  [states |-> table[p].states, hashes |-> hashed[p].hashes, contents |-> AnswersFor(p),
       verdicts |-> IF LostFor(p) # NoneLost THEN LosePairs(verdicts, LostFor(p))
                    ELSE ApplyReads(verdicts, AnswersFor(p))]

\* (mutant of Unseen: what was listed by itself and not found is asked for again)
UnseenAgain == IF Merging THEN Named \ DOMAIN table ELSE {}
Unseen == IF names = {} /\ Merging THEN Named \ DOMAIN table ELSE {}

Settle ==
  /\ pc = "settle"
  /\ compared' = Extended(compared, [p \in DOMAIN table |-> Result(p)])
  /\ NewRound(Unseen)
  /\ pc' = IF Unseen # {} THEN "list" ELSE "plan"
  /\ UNCHANGED <<world, budget, stops, opts, right, incomplete, cache, plans, results, exit,
                 had>>

(***************************************************************************)
(* The plan.                                                               *)
(***************************************************************************)
RootGone == \E s \in Sides : stops[s] = "rootGone"

(* status and diff end with what they list.                                  *)
ListCompared ==
  /\ pc = "plan" /\ opts.command \in {"status", "diff"}
  /\ LET errors == IF opts.command = "status" THEN StatusErrors(compared, WithRef)
                   ELSE DiffErrors(compared, Named, incomplete, WithRef)
         changed == IF opts.command = "status" THEN StatusChanged(compared)
                    ELSE DiffChanged(compared, incomplete)
         missing == DiffMissing(compared, Named, incomplete)
     IN  IF \/ RootGone
            \/ (opts.command = "status" /\ incomplete # {})
            \/ (opts.command = "diff" /\ Named # {} /\ missing = Named)
         THEN EndWith(2)
         ELSE EndWith(ListExit(changed # {}, errors # {} \/ incomplete # {}))
  /\ UNCHANGED <<world, budget, stops, opts, right, asking, compared, incomplete, cache,
                 plans, results, had>>

PlanMerge ==
  /\ pc = "plan" /\ opts.command \in {"merge", "sync"}
  /\ LET planned == [failed |-> FALSE, compared |-> compared,
                     plan |-> MergePlan(compared, Targets, ReadsOptions)]
         stopAll == IF opts.command = "merge" THEN RootGone \/ incomplete # {}
                    ELSE stops[Left] # "no" \/ "left" \in incomplete
     IN  IF stopAll THEN EndWith(2) /\ UNCHANGED <<right, asking, compared, incomplete, plans>>
         ELSE NextRight(IF incomplete = {} THEN planned ELSE FailedTarget)
  /\ UNCHANGED <<world, budget, stops, opts, cache, results, had>>

(* A content to put hunks into, or to take them from.                        *)
Content(of, r) ==
  LET state == StateIn(of, r)
  IN  CASE state = Absent -> "none"
        [] state.kind = "file" /\ r \in DOMAIN of.contents /\ of.contents[r].ok ->
             of.contents[r].body
        [] OTHER -> "unavailable"

(* Hunks can be merged between two files of text, or a file and none.        *)
PlanHunks ==
  /\ pc = "plan" /\ opts.command = "hunks"
  /\ \E p \in Named, conflict \in BOOLEAN :
       LET of == compared[p]
           left == Content(of, "left")
           theirs == Content(of, "right")
           reference == Content(of, "ref")
           link == "link" \in {StateIn(of, r).kind : r \in {"left", "right"}}
           verdict == VerdictOn(of, LeftRight)
           mixed == Cardinality({left, theirs, reference}) = 3
       IN  IF \/ RootGone \/ incomplete # {} \/ p \notin DOMAIN compared
              \/ link \/ "unavailable" \in {left, theirs}
              \/ verdict.v = "undecidable" /\ verdict.why = "readFailed"
              \/ ReadsOptions.check /\ (reference = "unavailable" \/ (mixed /\ conflict))
           THEN EndWith(2) /\ UNCHANGED <<right, asking, compared, incomplete, plans>>
           ELSE NextRight([failed |-> FALSE, compared |-> compared,
                           plan |-> IF left = theirs THEN <<>>
                                    ELSE Only(p, Entry("writeFile"))])
  /\ UNCHANGED <<world, budget, stops, opts, cache, results, had>>

(***************************************************************************)
(* The changes.                                                            *)
(***************************************************************************)
ChangesOf(i) == Planned(plans[i].plan, Changes)

(* sync asks before it changes anything; a command with nothing to ask goes  *)
(* on.                                                                       *)
Confirm ==
  /\ pc = "confirm"
  /\ \E yes \in BOOLEAN :
       LET asks == /\ opts.command = "sync" /\ ~opts.force /\ ~opts.dryRun
                   /\ \E i \in DOMAIN plans : ChangesOf(i) # {}
       IN  IF asks /\ ~yes THEN EndWith(0) /\ UNCHANGED results
           ELSE pc' = "apply" /\ results' = [i \in DOMAIN plans |-> <<>>] /\ UNCHANGED exit
  /\ UNCHANGED <<world, budget, stops, opts, right, asking, compared, incomplete, cache,
                 plans, had>>

(* What the destination has now, as the check before a change sees it.       *)
Now(side, p) ==
  LET thing == world[side][p]
  IN  CASE thing.kind = "link" -> [kind |-> "link", target |-> thing.target]
        [] thing.kind = "file" /\ BodyAt(side, p).ok -> [kind |-> "file", body |-> thing.body]
        [] thing.kind = "file" -> NotObserved
        [] OTHER -> [kind |-> thing.kind]

\* (mutant of Unchanged: any file is taken for the one that was compared)
UnchangedKind(i, p) ==
  Observed(plans[i].compared[p].states, plans[i].compared[p].hashes, "right").kind
    = Now(Rights[i], p).kind
\* (mutant of Unchanged: every target is taken for the first)
UnchangedFirst(i, p) ==
  LET seen == Observed(plans[i].compared[p].states, plans[i].compared[p].hashes, "right")
  IN  seen # NotObserved /\ seen = Now(Rights[1], p)
Unchanged(i, p) ==
  LET seen == Observed(plans[i].compared[p].states, plans[i].compared[p].hashes, "right")
  IN  seen # NotObserved /\ seen = Now(Rights[i], p)

NewTime == 99
FileOf(body) == [kind |-> "file", size |-> Sizes[body], at |-> NewTime, digits |-> Finest,
                 body |-> body]

(* What is written: the content, or the link, of the source as it was read.  *)
NewThing(i, p) ==
  LET of == plans[i].compared[p]
      source == StateIn(of, "left")
  IN  CASE plans[i].plan[p] = Entry("delete") -> NoWorld
        [] plans[i].plan[p] = Entry("writeLink") ->
             [kind |-> "link", target |-> source.target, to |-> "missing", body |-> "none",
              out |-> FALSE, loop |-> FALSE]
        [] opts.command = "hunks" -> FileOf("mixed")
        [] OTHER -> FileOf(of.contents["left"].body)

HasWhatToWrite(i, p) ==
  LET contents == plans[i].compared[p].contents
  IN  plans[i].plan[p] = Entry("writeFile") /\ opts.command # "hunks"
        => "left" \in DOMAIN contents /\ contents["left"].ok

Becomes(p, outcome) == results' = [results EXCEPT ![right] = Extended(@, Only(p, outcome))]

(* What is missing on the way to a path that is written is made.             *)
WayIsFree(side, p) ==
  \A q \in Ancestors(p) : world[side][q] = NoWorld \/ IsDirectory(world[side][q])
WithParents(side, p, put) ==
  [put EXCEPT ![side] =
     [q \in Paths |-> IF q \in Ancestors(p) /\ put[side][q] = NoWorld THEN [kind |-> "dir"]
                      ELSE put[side][q]]]

Change ==
  /\ pc = "apply"
  /\ \E p \in ChangesOf(right) \ DOMAIN results[right] :
       LET side == Rights[right]
           put == Put(side, p, NewThing(right, p))
           changed == world' = IF plans[right].plan[p] = Entry("delete") THEN put
                               ELSE WithParents(side, p, put)
           ready == /\ stops[side] = "no" /\ Unchanged(right, p)
                    /\ HasWhatToWrite(right, p) /\ WayIsFree(side, p)
       IN  \/ opts.dryRun /\ Becomes(p, "planned") /\ UNCHANGED <<world, stops, budget>>
           \/ /\ ~opts.dryRun /\ ~ready
              /\ Becomes(p, "failed") /\ UNCHANGED <<world, stops, budget>>
           \/ /\ ~opts.dryRun /\ ready
              /\ \/ changed /\ Becomes(p, "done") /\ UNCHANGED <<stops, budget>>
                 \/ /\ NoAnswerFrom(side) /\ stops' = [stops EXCEPT ![side] = "lost"]
                    /\ \/ changed /\ \E o \in {"done", "changedFailed"} : Becomes(p, o)
                       \/ UNCHANGED world /\ Becomes(p, "failed")
  /\ UNCHANGED <<opts, pc, right, asking, compared, incomplete, cache, plans, exit, had>>

(***************************************************************************)
(* What the command reports.                                               *)
(***************************************************************************)
FailedPaths(i) ==
  {p \in DOMAIN plans[i].plan :
     \/ plans[i].plan[p].e \in {"fail", "notFound"}
     \/ p \in DOMAIN results[i] /\ results[i][p] \in {"failed", "changedFailed"}}

StatusOf(i) ==
  LET changed == \E p \in DOMAIN results[i] :
                   results[i][p] \in {"done", "planned", "changedFailed"}
      failed == \/ FailedPaths(i) # {} \/ stops[Rights[i]] # "no"
                \/ MismatchesIn(plans[i].plan) # {}
  IN  IF plans[i].failed THEN "failed" ELSE TargetStatus(changed, failed)

Report ==
  /\ pc = "apply"
  /\ ChangesOf(right) \subseteq DOMAIN results[right]
  /\ IF right < Len(Rights) THEN right' = right + 1 /\ UNCHANGED <<pc, exit>>
     ELSE /\ UNCHANGED right
          /\ EndWith(IF opts.command = "sync"
                     THEN SyncExit({StatusOf(i) : i \in DOMAIN plans})
                     ELSE MergeExit(FailedPaths(1) # {} \/ stops[Rights[1]] # "no",
                                    plans[1].plan))
  /\ UNCHANGED <<world, budget, stops, opts, asking, compared, incomplete, cache, plans,
                 results, had>>

CommandStep ==
  \/ Connect \/ ConnectFails \/ List \/ Facts \/ ListFails \/ Collect \/ Ask \/ AskFails
  \/ Judge \/ Settle \/ ListCompared \/ PlanMerge \/ PlanHunks \/ Confirm \/ Change \/ Report

Done == pc = "ended" /\ UNCHANGED vars
Next == CommandStep \/ OthersStep \/ Done

Spec == Init /\ [][Next]_vars
FairSpec == Spec /\ WF_vars(CommandStep)

(***************************************************************************)
(* Properties.                                                             *)
(***************************************************************************)
Quiet == budget.moves = MaxMoves

(* The types of the variables that the properties read.                      *)
TypeOK ==
  /\ pc \in {"connect", "list", "facts", "collected", "hash", "judge", "read", "settle", "plan",
            "confirm", "apply", "ended"}
  /\ right \in DOMAIN Rights /\ role \in DOMAIN RoleSeq /\ names \subseteq Paths
  /\ DOMAIN listings \subseteq Roles /\ DOMAIN outside = DOMAIN listings
  /\ DOMAIN answers \subseteq Roles /\ DOMAIN compared \subseteq Paths
  /\ stops \in [Sides -> {"no", "lost", "rootGone"}]
  /\ DOMAIN plans \subseteq DOMAIN Rights /\ DOMAIN results \subseteq DOMAIN plans
  /\ exit \in 0 .. 2

(* While others leave the reference alone, whatever they do to the right     *)
(* side, a merge that checks it overwrites only what the reference has too,  *)
(* or puts a file where neither has one: the listings, the hashes, the plan  *)
(* and the check before the write are made at four times.  (What was seen    *)
(* through a link to a directory goes when the link is replaced, directories *)
(* are made on the way, and --delete asks no reference.)                     *)
ReferenceIsLeftAlone == \A m \in OthersMay : m[1] # Ref

IsBodyOf(thing, other) ==
  \/ thing = NoWorld /\ other = NoWorld
  \/ thing.kind = "file" /\ other.kind = "file" /\ thing.body = other.body
  \/ thing.kind = "link" /\ other.kind = "link" /\ thing.target = other.target

ThroughLink(side, p) == \E q \in Ancestors(p) : LinkToDirectory(world[side][q])
OwnChange(p) == pc = "apply" /\ results' # results /\ world'[Rights[right]][p] # world[Rights[right]][p]

Overwrites(p) ==
  LET side == Rights[right]
      itself == p \in DOMAIN results'[right] \ DOMAIN results[right]
      madeOnTheWay == world[side][p] = NoWorld /\ world'[side][p].kind = "dir"
  IN  /\ OwnChange(p)
      /\ IF itself THEN plans[right].plan[p] \in Writes
         ELSE ~madeOnTheWay /\ ~ThroughLink(side, p)

OnlyTheReferenceIsOverwritten ==
  [][\A p \in Paths :
       (opts.command = "merge" /\ ReadsOptions.check /\ Overwrites(p))
         => IsBodyOf(world[Rights[right]][p], world[Ref][p])]_vars

(* With --delete a file is removed only when the whole source was listed and *)
(* did not have it, even where the filter hid it or the listing was cut.     *)
(* (What is seen through a link to a directory goes when the link is         *)
(* replaced.)                                                                *)
DeletesOnlyWhatTheSourceLacked ==
  [][\A p \in Paths :
       (OwnChange(p) /\ world'[Rights[right]][p] = NoWorld /\ ~ThroughLink(Rights[right], p))
         => /\ opts.delete /\ p \notin had.of[right]
            /\ world[Rights[right]][p].kind = "file"]_vars

(* Exit code 0 of a merge: each file that the source had, and that was asked *)
(* for, was found the same on the destination or is written there.           *)
MergedOrSame(i, p) ==
  \/ p \in DOMAIN results[i] /\ results[i][p] = (IF opts.dryRun THEN "planned" ELSE "done")
  \/ /\ p \in DOMAIN plans[i].compared
     /\ VerdictOn(plans[i].compared[p], LeftRight) = V("same")

ExitZeroMeansMerged ==
  (pc = "ended" /\ exit = 0 /\ opts.command \in {"merge", "sync"} /\ results # <<>>) =>
    /\ \A p \in Named : \E i \in DOMAIN plans : p \in DOMAIN plans[i].compared
    /\ \A i \in DOMAIN Rights : \A p \in had.of[i] :
         (/\ world[Left][p].kind = "file" /\ Quiet
          /\ Selects(Targets, p) /\ (p \in Filtered => p \in Named))
           => MergedOrSame(i, p)

(* When nobody changes the sides, the exit codes 0 and 1 of status and diff  *)
(* are true: 0 only if all that is listed is the same on both, as far as the *)
(* method can tell, and 1 only if something differs.                         *)
Unit(digits) == IF digits >= Finest THEN 1 ELSE 10
LooksSame(a, b) ==
  /\ a.kind = "file" /\ b.kind = "file" /\ a.size = b.size
  /\ a.at - b.at \in (-Unit(LesserOf(a.digits, b.digits)) + 1) .. (Unit(LesserOf(a.digits, b.digits)) - 1)
IsSame(a, b, byContent) ==
  \/ a.kind \in {"absent", "dir"} /\ b.kind \in {"absent", "dir"}
  \/ IsBodyOf(a, b) /\ (a.kind = "link" /\ opts.command = "diff" => a.body = b.body)
  \/ ~byContent /\ LooksSame(a, b)

Listed(p) == Below(p) /\ p \notin Filtered
AnswerIsTrue ==
  (pc = "ended" /\ Quiet /\ opts.command \in {"status", "diff"} /\ exit # 2) =>
    LET one == world[Rights[1]]
        same(byContent) == \A p \in Paths : Listed(p) => IsSame(world[Left][p], one[p], byContent)
    IN  IF exit = 0 THEN same(MethodFor(<<>>) = "content") ELSE ~same(TRUE)

(* Hunks are put into the text that the destination still has when it is     *)
(* written, although the check compares a hash that was read before the      *)
(* text.  (One change by others, as in run compare, cannot defeat the check; *)
(* a content that is replaced while the text is read, and comes back, can.)  *)
HunksGoIntoWhatWasRead ==
  [][\A p \in Paths : opts.command = "hunks" /\ OwnChange(p) /\ p \in Named
       => LET text == Content(plans[1].compared[p], "right")
          IN  IF world[Rights[1]][p] = NoWorld THEN text = "none"
              ELSE text = world[Rights[1]][p].body]_vars

(* A sync whose source is lost, gone or not listed whole changes no target.  *)
SourceFailureChangesNothing ==
  (opts.command = "sync" /\ (stops[Left] # "no" \/ "left" \in incomplete)) =>
    \A i \in DOMAIN results : results[i] = <<>>

(* A target of a sync that answers is done whatever becomes of the others,   *)
(* where all that there is can be read.                                      *)
OneTargetFailsAlone ==
  (pc = "ended" /\ opts.command = "sync" /\ results # <<>> /\ Quiet) =>
    \A i \in DOMAIN Rights :
      (stops[Rights[i]] = "no" /\ ~plans[i].failed)
        => \A p \in FailedPaths(i) : plans[i].plan[p] = Entry("notFound")

(* Two targets of a sync get the same of the source: the same state, and the *)
(* same content where there is one to write.                                 *)
SameFor(i, j, p) ==
  LET one == plans[i].compared[p]
      two == plans[j].compared[p]
      written(k) == plans[k].plan[p] = Entry("writeFile")
  IN  /\ StateIn(one, "left") = StateIn(two, "left")
      /\ (written(i) /\ HasWhatToWrite(i, p) /\ written(j) /\ HasWhatToWrite(j, p))
           => one.contents["left"] = two.contents["left"]

(* What is said of a sync: its source is listed and read once, and the same  *)
(* is written to every target.  A name that the filter keeps out of the scan *)
(* is listed and read again for each target, and may differ.                 *)
SameSourceForAll ==
  opts.command = "sync" => \A i, j \in DOMAIN plans :
    \A p \in ChangesOf(i) \cap ChangesOf(j) : SameFor(i, j, p)

(* It holds of what the one scan of the source listed.                       *)
SameScanForAll ==
  opts.command = "sync" => \A i, j \in DOMAIN plans :
    \A p \in ChangesOf(i) \cap ChangesOf(j) :
      p \in DOMAIN cache.listing.entries => SameFor(i, j, p)

(* A sync is of one source: one that cannot be read whole changes nothing,   *)
(* and all targets get the same of what was scanned of it.                   *)
SyncIsOfOneSource == SourceFailureChangesNothing /\ SameScanForAll

(* Every command comes to its exit code, whoever is lost on the way.         *)
CommandEnds == <>(pc = "ended")
=============================================================================
