--------------------------- MODULE ComparingProofs ---------------------------
(* Four theorems about a command.  SyncIsOfOneSourceHolds: Places says       *)
(* where the command is and that nothing is changed after the source failed, *)
(* and ScanOK follows a path of the one scan of the source from the listing  *)
(* that sync keeps, through the table of states, the hashes and contents,    *)
(* and the comparison, into the plan of every target.                        *)
(* DeletesOnlyWhatTheSourceLackedHolds: SourceKnown follows what a path that *)
(* is absent from the source rests on along the same way, and Trees says     *)
(* what goes with a path that is deleted or replaced.                        *)
(* ExitZeroMeansMergedHolds: MergeFinds follows each file that is asked for  *)
(* along that way, to the plan of each right side, and OutcomesOK what       *)
(* becomes of the plans.                                                     *)
(* OnlyTheReferenceIsOverwrittenHolds: ReferenceKnown follows the states and *)
(* the hashes of the reference along that way, to the check before a write.  *)
EXTENDS Comparing, SequenceTheorems, WellFoundedInduction, TLAPS

Syncing == opts.command = "sync"

(***************************************************************************)
(* Where a command can be, and with which sides.                           *)
(***************************************************************************)
OptionsOK ==
  /\ Rights \in Seq(Sides) /\ SidesAccepted(opts)
  /\ right \in DOMAIN Rights /\ role \in DOMAIN RoleSeq

PhasesOK ==
  /\ DOMAIN stops = Sides
  /\ pc \in {"connect", "list", "facts", "collected", "hash", "judge", "read", "settle", "plan",
            "confirm", "apply", "ended"}
  /\ pc \in {"confirm", "apply"} \/ results # <<>> => incomplete = {}
  /\ results # <<>> => pc \in {"apply", "ended"}
  /\ Syncing /\ stops[Left] # "no" => pc = "ended" /\ results = <<>>
  /\ plans \in Seq({plans[i] : i \in DOMAIN plans})

Places == OptionsOK /\ PhasesOK

\* Before the changes.
Comparison == {"connect", "list", "facts", "collected", "hash", "judge", "read", "settle", "plan"}

\* The sides that a comparison asks, and the roles in their order.
LEMMA SideFacts ==
  ASSUME OptionsOK
  PROVE  /\ Rights[right] \in Sides \ {Left} /\ SideOf("left") = Left
         /\ SideOf("right") = Rights[right] /\ SideOf("ref") = Ref
         /\ Asked \in Roles
         /\ Syncing => /\ ~WithRef /\ RoleSeq = <<"left", "right">> /\ role \in {1, 2}
                       /\ Asked = IF role = 1 THEN "left" ELSE "right"
         /\ Len(Rights) \in Nat /\ DOMAIN Rights = 1 .. Len(Rights)
         /\ 1 \in DOMAIN Rights /\ 1 \in DOMAIN RoleSeq
<1>1. Len(Rights) \in Nat /\ DOMAIN Rights = 1 .. Len(Rights)
  BY DEF OptionsOK
<1>2. Rights[right] \in Sides \ {Left}
  BY <1>1 DEF OptionsOK, SidesAccepted, Rights
<1>3. 1 \in DOMAIN Rights
  BY <1>1 DEF OptionsOK
<1>4. /\ DOMAIN <<"left", "right">> = 1 .. 2 /\ DOMAIN <<"left", "right", "ref">> = 1 .. 3
      /\ <<"left", "right", "ref">>[1] = "left" /\ <<"left", "right", "ref">>[2] = "right"
      /\ <<"left", "right", "ref">>[3] = "ref"
      /\ <<"left", "right">>[1] = "left" /\ <<"left", "right">>[2] = "right"
  OBVIOUS
<1>5. Asked \in Roles /\ 1 \in DOMAIN RoleSeq
  BY <1>4 DEF OptionsOK, RoleSeq, Asked, Roles
<1>6. Syncing => /\ ~WithRef /\ RoleSeq = <<"left", "right">> /\ role \in {1, 2}
                 /\ Asked = IF role = 1 THEN "left" ELSE "right"
  BY <1>4 DEF OptionsOK, SidesAccepted, RoleSeq, Syncing, Asked, WithRef
<1> QED BY <1>1, <1>2, <1>3, <1>5, <1>6 DEF SideOf

\* What is left at the end of the comparison of one right side.
LEMMA NextRightPlaces ==
  ASSUME Places, pc \in Comparison, NEW plan, NextRight(plan), DOMAIN stops' = Sides,
         UNCHANGED <<opts, results>>, Syncing => stops'[Left] = "no"
  PROVE  /\ Places' /\ pc' \in {"connect", "confirm", "ended"}
         /\ plans' = Append(plans, plan) /\ DOMAIN plans' = 1 .. Len(plans) + 1
         /\ Len(plans) \in Nat /\ DOMAIN plans = 1 .. Len(plans)
         /\ plans'[Len(plans) + 1] = plan /\ \A i \in DOMAIN plans : plans'[i] = plans[i]
<1> USE DEF Places
<1>1. plans' = Append(plans, plan) /\ pc' \in {"connect", "confirm", "ended"}
  BY DEF NextRight, EndWith
<1>2. DEFINE S == {plans[i] : i \in DOMAIN plans}
<1>3. plans \in Seq(S \cup {plan}) /\ Len(plans) \in Nat /\ DOMAIN plans = 1 .. Len(plans)
  BY DEF PhasesOK
<1>4. /\ plans' \in Seq(S \cup {plan}) /\ Len(plans') = Len(plans) + 1
      /\ plans'[Len(plans) + 1] = plan /\ \A i \in DOMAIN plans : plans'[i] = plans[i]
  BY <1>1, <1>3, AppendProperties
<1>5. DOMAIN plans' = 1 .. Len(plans) + 1
  BY <1>4
<1>6. plans' \in Seq({plans'[i] : i \in DOMAIN plans'})
  BY <1>4, <1>5, SeqDef
<1>7. results = <<>>
  BY DEF PhasesOK, Comparison
<1>8. PhasesOK'
  BY <1>1, <1>6, <1>7 DEF PhasesOK, NextRight, NewRound, EndWith, Syncing
<1>9. right' \in DOMAIN Rights /\ role' = 1
  BY SideFacts DEF NextRight, NewRound, OptionsOK
<1>10. OptionsOK'
  BY <1>9, SideFacts DEF OptionsOK, Rights, RoleSeq, WithRef
<1> QED BY <1>1, <1>3, <1>4, <1>5, <1>8, <1>10

\* A command that ends stays where it is.
LEMMA EndPlaces ==
  ASSUME Places, NEW code, EndWith(code), DOMAIN stops' = Sides,
         UNCHANGED <<opts, right, role, plans, incomplete, results>>,
         Syncing => stops'[Left] = "no" \/ results = <<>>
  PROVE  Places'
BY DEF Places, OptionsOK, PhasesOK, EndWith, Syncing, Rights, RoleSeq, WithRef, SidesAccepted

\* A failed source ends a sync.
LEMMA ErrorPlaces ==
  ASSUME Places, pc \in Comparison, NEW stopsNow, DOMAIN stopsNow = Sides, ErrorInComparison(stopsNow)
  PROVE  Places'
<1>1. results = <<>> /\ stops' = stopsNow /\ UNCHANGED <<opts, results>>
  BY DEF Places, PhasesOK, Comparison, ErrorInComparison
<1>2. CASE opts.command = "sync" /\ ~SourceFails(stopsNow)
  <2>1. NextRight(FailedTarget) /\ stopsNow[Left] = "no"
    BY <1>2 DEF ErrorInComparison, FailComparison, SourceFails
  <2> QED BY <1>1, <2>1, NextRightPlaces
<1>3. CASE ~(opts.command = "sync" /\ ~SourceFails(stopsNow))
  <2>1. EndWith(2) /\ UNCHANGED <<right, asking, incomplete, plans>>
    BY <1>3 DEF ErrorInComparison, FailComparison
  <2> QED BY <1>1, <2>1, EndPlaces DEF asking
<1> QED BY <1>2, <1>3

\* A command begins with its first right side and its first role.
LEMMA PlacesInit == ASSUME Init PROVE Places
<1>1. PICK start \in {s \in Starts : SidesAccepted(s.opts)} : world = start.world /\ opts = start.opts
  BY DEF Init
<1>2. Rights \in Seq(Sides) /\ SidesAccepted(opts) /\ Left \in Sides
  BY <1>1, StartsAreProper DEF Rights
<1>3. Len(Rights) \in Nat /\ DOMAIN Rights = 1 .. Len(Rights) /\ Rights # <<>>
  BY <1>2 DEF SidesAccepted, Rights
<1>4. 1 \in DOMAIN Rights
  BY <1>2, <1>3, EmptySeq
<1>5. 1 \in DOMAIN RoleSeq
  BY DEF RoleSeq
<1>6. OptionsOK
  BY <1>2, <1>4, <1>5 DEF OptionsOK, Init
<1>7. plans \in Seq({plans[i] : i \in DOMAIN plans})
  BY DEF Init
<1>8. PhasesOK
  BY <1>2, <1>7 DEF PhasesOK, Init
<1> QED BY <1>6, <1>8 DEF Places

\* A step in the course of a comparison.
LEMMA WithinPlaces ==
  ASSUME Places, UNCHANGED <<opts, right, plans, results>>, pc \in Comparison, pc' \in Comparison,
         role' \in DOMAIN RoleSeq, stops' = stops
         \/ \E side, how : side # Left /\ stops' = [stops EXCEPT ![side] = how]
  PROVE  Places'
<1>1. results = <<>> /\ DOMAIN stops' = Sides /\ (Syncing => stops[Left] = "no")
  BY DEF Places, PhasesOK, Comparison
<1>2. Syncing => stops'[Left] = "no"
  BY <1>1, StartsAreProper DEF Places, PhasesOK
<1>3. OptionsOK'
  BY DEF Places, OptionsOK, Rights, RoleSeq, WithRef
<1>4. PhasesOK'
  BY <1>1, <1>2 DEF Places, PhasesOK, Comparison, Syncing
<1> QED BY <1>3, <1>4 DEF Places

\* The roles are asked one after the other.
LEMMA RoleAfter ==
  ASSUME Places
  PROVE  /\ 1 \in DOMAIN RoleSeq
         /\ role # Len(RoleSeq) \/ role < Len(RoleSeq) => role + 1 \in DOMAIN RoleSeq
<1>1. /\ DOMAIN <<"left", "right">> = 1 .. 2 /\ DOMAIN <<"left", "right", "ref">> = 1 .. 3
      /\ Len(<<"left", "right">>) = 2 /\ Len(<<"left", "right", "ref">>) = 3
  OBVIOUS
<1> QED BY <1>1 DEF Places, OptionsOK, RoleSeq

\* Every step keeps to the phases, and a sync whose source fails stops.
LEMMA PlacesStep == ASSUME Places, [Next]_vars PROVE Places'
<1> USE DEF asking
<1>0. CASE UNCHANGED vars
  BY <1>0 DEF vars, Places, OptionsOK, PhasesOK, Syncing, Rights, RoleSeq, WithRef
<1>1. CASE Connect
  BY <1>1, WithinPlaces DEF Connect, Comparison, Places, OptionsOK
<1>2. CASE ConnectFails
  <2>1. pc \in Comparison /\ UNCHANGED <<opts, results, stops>>
    BY <1>2 DEF ConnectFails, Comparison
  <2>2. DOMAIN stops' = Sides /\ (Syncing => stops'[Left] = "no")
    BY <2>1 DEF Places, PhasesOK, Comparison
  <2>3. NextRight(FailedTarget) \/ (EndWith(2) /\ UNCHANGED <<right, asking, compared, incomplete, plans>>)
    BY <1>2 DEF ConnectFails
  <2> QED BY <2>1, <2>2, <2>3, NextRightPlaces, EndPlaces
<1>3. CASE List
  <2>1. PICK listing : AfterListing(listing)
    BY <1>3 DEF List
  <2>2. pc = "list" /\ UNCHANGED <<opts, stops, results>>
    BY <1>3 DEF List
  <2>3. CASE Merging /\ HasUnfollowable(listing)
    <3>1. FailComparison(stops)
      BY <2>1, <2>3 DEF AfterListing
    <3>2. DOMAIN stops' = Sides /\ (Syncing => stops'[Left] = "no") /\ pc \in Comparison
      BY <2>2 DEF Places, PhasesOK, Comparison
    <3> QED BY <3>1, <3>2, <2>2, NextRightPlaces, EndPlaces DEF FailComparison
  <2>4. CASE ~(Merging /\ HasUnfollowable(listing))
    <3>1. /\ UNCHANGED <<right, plans>> /\ pc' \in {"facts", "collected", "list"}
          /\ role' \in DOMAIN RoleSeq
      BY <2>1, <2>2, <2>4, RoleAfter DEF AfterListing, Places, OptionsOK
    <3> QED BY <2>2, <3>1, WithinPlaces DEF Comparison
  <2> QED BY <2>3, <2>4
<1>4. CASE Facts
  BY <1>4, WithinPlaces, RoleAfter DEF Facts, Comparison
<1>5. CASE ListFails
  <2>1. pc \in Comparison /\ DOMAIN stops = Sides
    BY <1>5 DEF ListFails, Comparison, Places, PhasesOK
  <2>2. PICK stopsNow \in {stops} \cup {[stops EXCEPT ![SideOf(Asked)] = how] : how \in {"lost", "rootGone"}} :
          ErrorInComparison(stopsNow)
    BY <1>5 DEF ListFails
  <2>3. DOMAIN stopsNow = Sides
    BY <2>1
  <2> QED BY <2>1, <2>2, <2>3, ErrorPlaces
<1>6. CASE Collect
  BY <1>6, WithinPlaces DEF Collect, Comparison, Places, OptionsOK
<1>7. CASE Ask
  BY <1>7, WithinPlaces, RoleAfter DEF Ask, NextRole, Comparison, Places, OptionsOK
<1>8. CASE AskFails
  <2>1. pc \in Comparison /\ DOMAIN stops = Sides
    BY <1>8 DEF AskFails, Comparison, Places, PhasesOK
  <2>2. PICK stopsNow \in {stops} \cup {[stops EXCEPT ![SideOf(Asked)] = how] : how \in {"lost", "rootGone", "no"}} :
          \/ /\ Asked = "right"
             /\ NextRole /\ stops' = stopsNow
             /\ UNCHANGED <<opts, right, plans, results>>
          \/ ErrorInComparison(stopsNow)
    BY <1>8 DEF AskFails
  <2>3. DOMAIN stopsNow = Sides
    BY <2>1
  <2>4. CASE ErrorInComparison(stopsNow)
    BY <2>1, <2>3, <2>4, ErrorPlaces
  <2>5. CASE Asked = "right" /\ NextRole /\ stops' = stopsNow /\ UNCHANGED <<opts, right, plans, results>>
    <3>1. SideOf(Asked) # Left
      BY <2>5, SideFacts DEF Places
    <3>2. role' \in DOMAIN RoleSeq /\ pc' \in Comparison
      BY <1>8, <2>5, RoleAfter DEF NextRole, AskFails, Comparison
    <3> QED BY <2>1, <2>2, <2>5, <3>1, <3>2, WithinPlaces
  <2> QED BY <2>2, <2>4, <2>5
<1>9. CASE Judge
  BY <1>9, WithinPlaces DEF Judge, Comparison, Places, OptionsOK
<1>10. CASE Settle
  BY <1>10, WithinPlaces, RoleAfter DEF Settle, NewRound, Comparison
<1>11. CASE ListCompared
  <2>1. pc = "plan" /\ (EndWith(2) \/ \E c : EndWith(c))
        /\ UNCHANGED <<opts, right, role, plans, incomplete, results, stops>>
    BY <1>11 DEF ListCompared
  <2>2. DOMAIN stops' = Sides /\ (Syncing => stops'[Left] = "no")
    BY <2>1 DEF Places, PhasesOK
  <2> QED BY <2>1, <2>2, EndPlaces
<1>12. CASE PlanMerge
  <2>1. /\ pc = "plan" /\ UNCHANGED <<opts, results, stops>>
        /\ \/ EndWith(2) /\ UNCHANGED <<right, role, plans, incomplete>>
           \/ \E plan : NextRight(plan)
    BY <1>12 DEF PlanMerge
  <2>2. DOMAIN stops' = Sides /\ (Syncing => stops'[Left] = "no")
    BY <2>1 DEF Places, PhasesOK
  <2> QED BY <2>1, <2>2, EndPlaces, NextRightPlaces DEF Comparison
<1>13. CASE PlanHunks
  <2>1. /\ pc = "plan" /\ UNCHANGED <<opts, results, stops>>
        /\ \/ EndWith(2) /\ UNCHANGED <<right, role, plans, incomplete>>
           \/ \E plan : NextRight(plan)
    BY <1>13 DEF PlanHunks
  <2>2. DOMAIN stops' = Sides /\ (Syncing => stops'[Left] = "no")
    BY <2>1 DEF Places, PhasesOK
  <2> QED BY <2>1, <2>2, EndPlaces, NextRightPlaces DEF Comparison
<1>14. CASE Confirm
  BY <1>14 DEF Confirm, EndWith, Places, OptionsOK, PhasesOK, Syncing, Rights, RoleSeq, WithRef
<1>15. CASE Change
  <2>1. pc = "apply" /\ UNCHANGED <<opts, pc, right, role, incomplete, plans>>
    BY <1>15 DEF Change
  <2>2. PICK how : stops' = stops \/ stops' = [stops EXCEPT ![Rights[right]] = how]
    BY <1>15 DEF Change
  <2>3. DOMAIN stops' = Sides /\ (Syncing => stops'[Left] = "no")
    BY <2>1, <2>2, SideFacts, StartsAreProper DEF Places, PhasesOK
  <2>4. incomplete = {}
    BY <2>1 DEF Places, PhasesOK
  <2>5. OptionsOK'
    BY <2>1 DEF Places, OptionsOK, Rights, RoleSeq, WithRef
  <2>6. PhasesOK'
    BY <2>1, <2>3, <2>4 DEF Places, PhasesOK, Syncing
  <2> QED BY <2>5, <2>6 DEF Places
<1>16. CASE Report
  <2>1. /\ pc = "apply" /\ UNCHANGED <<opts, role, incomplete, plans, stops, results>>
        /\ pc' \in {"apply", "ended"} /\ right' \in {right, right + 1} /\ right' \in DOMAIN Rights
    BY <1>16, SideFacts DEF Report, EndWith, Places, OptionsOK
  <2>2. stops[Left] = "no" \/ ~Syncing
    BY <2>1 DEF Places, PhasesOK
  <2> QED BY <2>1, <2>2 DEF Places, OptionsOK, PhasesOK, Syncing, Rights, RoleSeq, WithRef
<1>17. CASE OthersStep
  BY <1>17 DEF OthersStep, Places, OptionsOK, PhasesOK, Syncing, Rights, RoleSeq, WithRef
<1>18. CASE Done
  BY <1>0, <1>18 DEF Done
<1> QED
  BY <1>0, <1>1, <1>2, <1>3, <1>4, <1>5, <1>6, <1>7, <1>8, <1>9, <1>10, <1>11, <1>12, <1>13,
     <1>14, <1>15, <1>16, <1>17, <1>18 DEF Next, CommandStep

\* What sync keeps of its source.
CacheShape ==
  cache = [listing |-> cache.listing, hashes |-> cache.hashes, contents |-> cache.contents]

\* A sync begins with nothing of its source.
LEMMA CacheShapeInit == ASSUME Init PROVE CacheShape
BY DEF Init, CacheShape, NoCache

\* Only the listing and the batches add to what sync keeps.
LEMMA CacheShapeStep == ASSUME CacheShape, [Next]_vars PROVE CacheShape'
<1>1. CASE cache' = cache
  BY <1>1 DEF CacheShape
<1>2. CASE List
  <2>1. cache' = cache \/ \E listing : cache' = [cache EXCEPT !.listing = listing]
    BY <1>2 DEF List
  <2> QED BY <2>1 DEF CacheShape
<1>3. CASE Ask
  <2>1. cache' = cache \/ \E known : \/ cache' = [cache EXCEPT !.hashes = known]
                                     \/ cache' = [cache EXCEPT !.contents = known]
    BY <1>3 DEF Ask, Keeps
  <2> QED BY <2>1 DEF CacheShape
<1>4. CASE OthersStep \/ UNCHANGED vars
  BY <1>1, <1>4 DEF OthersStep, vars
<1>5. CASE CommandStep /\ ~List /\ ~Ask
  <2>1. CASE Connect \/ ConnectFails \/ Facts \/ Collect \/ Judge \/ Settle
    BY <1>1, <2>1 DEF Connect, ConnectFails, Facts, Collect, Judge, Settle
  <2>2. CASE ListFails
    BY <1>1, <2>2 DEF ListFails, ErrorInComparison
  <2>3. CASE AskFails
    BY <1>1, <2>3 DEF AskFails, ErrorInComparison
  <2>4. CASE ListCompared \/ PlanMerge \/ PlanHunks \/ Confirm \/ Change \/ Report
    BY <1>1, <2>4 DEF ListCompared, PlanMerge, PlanHunks, Confirm, Change, Report
  <2> QED BY <1>5, <2>1, <2>2, <2>3, <2>4 DEF CommandStep
<1> QED BY <1>2, <1>3, <1>4, <1>5 DEF Next, Done

\* A sync whose source is lost, gone or not listed whole changes no target.
LEMMA SourceHolds == ASSUME Places PROVE SourceFailureChangesNothing
BY DEF Places, PhasesOK, SourceFailureChangesNothing, Syncing

(***************************************************************************)
(* What a sync has of its source.  Scanned is what the one scan listed.    *)
(***************************************************************************)
Scanned == IF cache.listing = <<>> THEN {} ELSE DOMAIN cache.listing.entries

\* A compared path has the state that was scanned, and the content that is kept.
OfScan(c, of, p) ==
  /\ StateIn(of, "left") = c.listing.entries[p]
  /\ "left" \in DOMAIN of.contents
       => p \in DOMAIN c.contents /\ of.contents["left"] = c.contents[p]

BeforeScan ==
  cache.listing = <<>> =>
    /\ pc \in {"connect", "list", "confirm", "apply", "ended"} /\ (pc = "list" => role = 1)
    /\ names = {} /\ compared = <<>>
    /\ \A i \in DOMAIN plans : ChangesOf(i) = {}

ListingsOK ==
  /\ pc = "connect" => names = {} /\ role = 1
  /\ pc \in {"connect", "list"} /\ role = 1 => listings = <<>> /\ outside = <<>>
  /\ pc = "collected" \/ (pc = "list" /\ role = 2) => "left" \in DOMAIN listings
  /\ DOMAIN outside = DOMAIN listings /\ \A r \in DOMAIN outside : outside[r] = {}
  /\ pc \in {"list", "collected"} /\ names = {} /\ "left" \in DOMAIN listings
       => listings["left"] = cache.listing
  /\ \A r \in DOMAIN listings : names # {} => DOMAIN listings[r].entries \subseteq names
  /\ pc # "facts"

NamesOK == names # {} => names \cap Scanned = {}

TableOK ==
  pc \in {"hash", "judge", "read", "settle"} =>
    IF names = {}
    THEN /\ Scanned \subseteq DOMAIN table
         /\ \A p \in Scanned : StateOf(table[p].states, "left") = cache.listing.entries[p]
    ELSE DOMAIN table \subseteq names

ReadOK ==
  pc \in {"read", "settle"} /\ names = {} /\ "left" \in DOMAIN answers =>
    \A p \in DOMAIN answers["left"] :
      p \in DOMAIN cache.contents /\ answers["left"][p] = cache.contents[p]

ComparedOK == \A p \in DOMAIN compared \cap Scanned : OfScan(cache, compared[p], p)

PlansOK ==
  \A i \in DOMAIN plans : \A p \in ChangesOf(i) \cap Scanned : OfScan(cache, plans[i].compared[p], p)

ScanOK ==
  Syncing => /\ BeforeScan /\ ListingsOK /\ NamesOK /\ TableOK /\ ReadOK /\ ComparedOK
             /\ PlansOK

\* At the beginning nothing was scanned.
LEMMA ScanInit == ASSUME Init PROVE ScanOK
BY DEF Init, ScanOK, BeforeScan, ListingsOK, NamesOK, TableOK, ReadOK, ComparedOK, PlansOK, NoCache

\* The next right side begins with nothing of the last.
LEMMA NextRightScan ==
  ASSUME Places, Places', ScanOK, Syncing, pc \in Comparison, NEW plan, NextRight(plan),
         UNCHANGED opts, cache' = cache \/ (cache.listing = <<>> /\ cache'.listing # <<>>),
         plans' = Append(plans, plan), DOMAIN plans' = 1 .. Len(plans) + 1,
         Len(plans) \in Nat, DOMAIN plans = 1 .. Len(plans),
         plans'[Len(plans) + 1] = plan, \A i \in DOMAIN plans : plans'[i] = plans[i],
         cache.listing = <<>> => Planned(plan.plan, Changes) = {},
         \A p \in Planned(plan.plan, Changes) \cap Scanned : OfScan(cache, plan.compared[p], p)
  PROVE  ScanOK'
<1>1. pc' \in {"connect", "confirm", "ended"} /\ NewRound({}) /\ compared' = <<>>
  BY DEF NextRight, EndWith
<1>2. BeforeScan'
  <2>1. CASE cache' = cache
    BY <1>1, <2>1 DEF ScanOK, BeforeScan, ChangesOf, NewRound
  <2>2. CASE cache'.listing # <<>>
    BY <2>2 DEF BeforeScan
  <2> QED BY <2>1, <2>2
<1>3. ListingsOK'
  BY <1>1 DEF ListingsOK, NewRound
<1>4. PlansOK'
  <2>1. CASE cache' = cache
    BY <2>1 DEF ScanOK, PlansOK, ChangesOf, Scanned
  <2>2. CASE cache.listing = <<>>
    <3>1. \A i \in DOMAIN plans : ChangesOf(i) = {}
      BY <2>2 DEF ScanOK, BeforeScan
    <3>2. \A i \in DOMAIN plans' : Planned(plans'[i].plan, Changes) = {}
      <4>1. ASSUME NEW i \in DOMAIN plans PROVE Planned(plans'[i].plan, Changes) = {}
        <5>1. plans'[i] = plans[i]
          OBVIOUS
        <5> QED BY <3>1, <5>1 DEF ChangesOf
      <4>2. Planned(plans'[Len(plans) + 1].plan, Changes) = {}
        BY <2>2
      <4>3. DOMAIN plans' = DOMAIN plans \cup {Len(plans) + 1}
        OBVIOUS
      <4> QED BY <4>1, <4>2, <4>3
    <3> QED BY <3>2 DEF PlansOK, ChangesOf
  <2> QED BY <2>1, <2>2
<1>5. NamesOK' /\ TableOK' /\ ReadOK' /\ ComparedOK'
  BY <1>1 DEF NamesOK, TableOK, ReadOK, ComparedOK, NewRound
<1> QED BY <1>2, <1>3, <1>4, <1>5 DEF ScanOK

\* A command that ends knows no more of its source.
LEMMA EndScan ==
  ASSUME Places, ScanOK, NEW code, EndWith(code), UNCHANGED <<opts, plans, compared, asking>>,
         cache' = cache \/ (cache.listing = <<>> /\ cache'.listing # <<>>)
  PROVE  ScanOK'
<1>1. SUFFICES ASSUME Syncing PROVE (BeforeScan /\ ListingsOK /\ NamesOK /\ TableOK /\ ReadOK /\ ComparedOK /\ PlansOK)'
  BY DEF ScanOK, Syncing
<1> USE <1>1 DEF ScanOK, EndWith, asking
<1>2. CASE cache' = cache
  <2>1. BeforeScan' /\ ListingsOK'
    BY <1>2 DEF BeforeScan, ListingsOK, ChangesOf
  <2> QED BY <1>2, <2>1 DEF NamesOK, TableOK, ReadOK, ComparedOK, PlansOK, Scanned, OfScan, ChangesOf
<1>3. CASE cache.listing = <<>> /\ cache'.listing # <<>>
  <2>1. BeforeScan' /\ ListingsOK'
    BY <1>3 DEF BeforeScan, ListingsOK
  <2> QED BY <1>3, <2>1 DEF NamesOK, TableOK, ReadOK, ComparedOK, PlansOK, ChangesOf, BeforeScan
<1> QED BY <1>2, <1>3

\* An empty plan changes nothing.
LEMMA NothingPlanned == Planned(<<>>, Changes) = {}
BY DEF Planned

\* A right side whose comparison failed has an empty plan.
LEMMA FailedScan ==
  ASSUME Places, ScanOK, pc \in Comparison, Places', NextRight(FailedTarget), UNCHANGED <<opts, results>>,
         cache' = cache \/ (cache.listing = <<>> /\ cache'.listing # <<>>),
         Syncing, stops'[Left] = "no"
  PROVE  ScanOK'
<1>1. DOMAIN stops' = Sides
  BY DEF Places, PhasesOK
<1>2. FailedTarget.plan = <<>>
  BY DEF FailedTarget
<1> QED BY <1>1, <1>2, NextRightPlaces, NextRightScan, NothingPlanned

\* So has one whose request failed.
LEMMA ErrorScan ==
  ASSUME Places, Places', ScanOK, pc \in Comparison, NEW stopsNow, DOMAIN stopsNow = Sides,
         ErrorInComparison(stopsNow)
  PROVE  ScanOK'
<1>1. UNCHANGED <<opts, cache, results>> /\ stops' = stopsNow
  BY DEF ErrorInComparison
<1>2. CASE opts.command = "sync" /\ ~SourceFails(stopsNow)
  <2>1. NextRight(FailedTarget) /\ stopsNow[Left] = "no"
    BY <1>2 DEF ErrorInComparison, FailComparison, SourceFails
  <2> QED BY <1>1, <1>2, <2>1, FailedScan DEF Syncing
<1>3. CASE ~(opts.command = "sync" /\ ~SourceFails(stopsNow))
  <2>1. EndWith(2) /\ UNCHANGED <<asking, compared, plans>>
    BY <1>3 DEF ErrorInComparison, FailComparison
  <2> QED BY <1>1, <2>1, EndScan
<1> QED BY <1>2, <1>3

CacheOnce == cache' = cache \/ (cache.listing = <<>> /\ cache'.listing # <<>>)

\* A listing is taken as it is, and that of the source is kept.
LEMMA ListedScan ==
  ASSUME Places, Places', ScanOK, Syncing, pc = "list", NEW listing, AfterListing(listing),
         UNCHANGED <<opts, results, stops>>, CacheOnce, cache'.listing # <<>>,
         names = {} /\ Asked = "left" => listing = cache'.listing,
         names # {} => DOMAIN listing.entries \subseteq names /\ cache' = cache
  PROVE  ScanOK'
<1> USE DEF CacheOnce
<1>1. CASE Merging /\ HasUnfollowable(listing)
  <2>1. FailComparison(stops) /\ pc \in Comparison /\ stops'[Left] = "no"
    BY <1>1 DEF AfterListing, Comparison, Places, PhasesOK
  <2>2. CASE NextRight(FailedTarget)
    BY <2>1, <2>2, FailedScan
  <2>3. CASE EndWith(2) /\ UNCHANGED <<asking, compared, plans>>
    BY <2>1, <2>3, EndScan
  <2> QED BY <2>1, <2>2, <2>3 DEF FailComparison
<1>2. CASE ~(Merging /\ HasUnfollowable(listing))
  <2> USE <1>2 DEF ScanOK, Syncing
  <2>1. /\ listings' = Extended(listings, Only(Asked, listing))
        /\ outside' = Extended(outside, Only(Asked, {}))
        /\ IF role = 2 THEN pc' = "collected" /\ role' = 1 ELSE role' = role + 1 /\ pc' = "list"
        /\ UNCHANGED <<names, compared, plans, right>>
    <3>1. ~StopsAtLinks /\ Len(RoleSeq) = 2
      BY SideFacts DEF StopsAtLinks, Places
    <3> QED BY <3>1 DEF AfterListing
  <2>2. Asked = (IF role = 1 THEN "left" ELSE "right") /\ role \in {1, 2}
    BY SideFacts DEF Places
  <2>3. /\ DOMAIN listings' = DOMAIN listings \cup {Asked} /\ DOMAIN outside' = DOMAIN listings'
        /\ \A z \in DOMAIN listings : listings'[z] = listings[z]
        /\ \A z \in DOMAIN outside' : outside'[z] = {}
        /\ Asked \notin DOMAIN listings => listings'[Asked] = listing
    <3>1. /\ DOMAIN listings' = DOMAIN listings \cup {Asked}
          /\ \A z \in DOMAIN listings : listings'[z] = listings[z]
          /\ Asked \notin DOMAIN listings => listings'[Asked] = listing
      BY <2>1 DEF Extended, Only
    <3>2. /\ DOMAIN outside' = DOMAIN outside \cup {Asked}
          /\ \A z \in DOMAIN outside : outside'[z] = outside[z]
          /\ Asked \notin DOMAIN outside => outside'[Asked] = {}
      BY <2>1 DEF Extended, Only
    <3> QED BY <3>1, <3>2 DEF ListingsOK
  <2>4. names' = {} /\ "left" \in DOMAIN listings' => listings'["left"] = cache'.listing
    <3>1. CASE role = 1
      BY <3>1, <2>1, <2>2, <2>3 DEF ListingsOK
    <3>2. CASE role = 2
      <4>1. cache' = cache
        BY <3>2 DEF BeforeScan
      <4> QED BY <3>2, <4>1, <2>1, <2>3 DEF ListingsOK
    <3> QED BY <2>2, <3>1, <3>2
  <2>5. \A r \in DOMAIN listings' : names' # {} => DOMAIN listings'[r].entries \subseteq names'
    BY <2>1, <2>3 DEF ListingsOK
  <2>6. "left" \in DOMAIN listings'
    BY <2>2, <2>3 DEF ListingsOK
  <2>7. ListingsOK'
    BY <2>1, <2>2, <2>3, <2>4, <2>5, <2>6 DEF ListingsOK
  <2>8. BeforeScan' /\ TableOK' /\ ReadOK'
    BY <2>1 DEF BeforeScan, TableOK, ReadOK
  <2>9. NamesOK'
    BY <2>1 DEF NamesOK, Scanned
  <2>10. ComparedOK' /\ PlansOK'
    <3>1. CASE cache' = cache
      BY <2>1, <3>1 DEF ComparedOK, PlansOK, ChangesOf, Scanned
    <3>2. CASE cache.listing = <<>>
      BY <2>1, <3>2 DEF BeforeScan, ComparedOK, PlansOK, ChangesOf
    <3> QED BY <3>1, <3>2
  <2> QED BY <2>7, <2>8, <2>9, <2>10
<1> QED BY <1>1, <1>2

\* The source is scanned once, and the listing that is kept is used after that.
LEMMA ListScan == ASSUME Places, Places', CacheShape, ScanOK, Syncing, List PROVE ScanOK'
<1>1. pc = "list" /\ UNCHANGED <<opts, results, stops>> /\ Asked = (IF role = 1 THEN "left" ELSE "right")
      /\ (SideOf(Asked) = Left <=> Asked = "left")
  BY SideFacts DEF List, Places
<1>2. CASE FromCache
  BY <1>1, <1>2, ListedScan DEF List, FromCache, CacheOnce
<1>3. CASE ~FromCache
  <2> DEFINE seen == Seen(SideOf(Asked))
  <2>1. PICK kept \in Kept(seen) :
          /\ AfterListing(ListingOf(SideOf(Asked), kept, seen))
          /\ cache' = IF opts.command = "sync" /\ SideOf(Asked) = Left /\ names = {}
                      THEN [cache EXCEPT !.listing = ListingOf(SideOf(Asked), kept, seen)] ELSE cache
    BY <1>3 DEF List
  <2> DEFINE listing == ListingOf(SideOf(Asked), kept, seen)
  <2>2. DOMAIN listing.entries = kept /\ listing # <<>>
    <3>1. DOMAIN listing = {"entries", "truncated", "cycle"} /\ DOMAIN <<>> = {}
      BY DEF ListingOf
    <3>2. listing # <<>>
      BY <3>1
    <3> QED BY <3>2 DEF ListingOf
  <2>3. names # {} => kept \subseteq names
    BY DEF Kept, Seen
  <2>4. names = {} /\ Asked = "left" => cache.listing = <<>> /\ cache'.listing = listing
    BY <1>1, <1>3, <2>1 DEF FromCache, Syncing, CacheShape
  <2>5. ~(names = {} /\ Asked = "left") => cache' = cache /\ cache.listing # <<>>
    BY <1>1, <2>1 DEF ScanOK, BeforeScan
  <2> QED BY <1>1, <2>1, <2>2, <2>3, <2>4, <2>5, ListedScan DEF CacheOnce
<1> QED BY <1>2, <1>3

\* The state of a scanned path in the table is the scanned one.
LEMMA ScannedState ==
  ASSUME NEW L, NEW O, "left" \in DOMAIN L, O["left"] = {}, NEW p \in DOMAIN L["left"].entries
  PROVE  /\ p \in DOMAIN StateTable(L, O)
         /\ StateOf(StateTable(L, O)[p], "left") = L["left"].entries[p]
BY DEF StateTable, StateOf

\* The table has what some listing has.
LEMMA TableIsOfListings ==
  ASSUME NEW L, NEW O
  PROVE  DOMAIN StateTable(L, O) = UNION {DOMAIN L[r].entries : r \in DOMAIN L}
BY DEF StateTable

\* The table has the states that were scanned.
LEMMA CollectScan == ASSUME Places, ScanOK, Syncing, Collect PROVE ScanOK'
<1> USE DEF ScanOK, Syncing
<1>1. /\ pc = "collected" /\ pc' = "hash" /\ cache.listing # <<>>
      /\ UNCHANGED <<opts, cache, names, role, answers, compared, plans>>
      /\ listings' = <<>> /\ outside' = <<>>
  BY DEF Collect, BeforeScan
<1>2. /\ DOMAIN table' = DOMAIN StateTable(listings, outside)
      /\ \A p \in DOMAIN table' : table'[p].states = StateTable(listings, outside)[p]
  BY DEF Collect
<1>3. TableOK'
  <2>1. CASE names = {}
    <3>1. "left" \in DOMAIN listings /\ outside["left"] = {} /\ listings["left"] = cache.listing
      BY <1>1, <2>1 DEF ListingsOK
    <3> QED BY <1>1, <1>2, <2>1, <3>1, ScannedState DEF TableOK, Scanned
  <2>2. CASE names # {}
    <3>1. \A r \in DOMAIN listings : DOMAIN listings[r].entries \subseteq names
      BY <2>2 DEF ListingsOK
    <3>2. UNION {DOMAIN listings[r].entries : r \in DOMAIN listings} \subseteq names
      BY <3>1
    <3>3. DOMAIN table' \subseteq names
      BY <1>2, <3>2, TableIsOfListings
    <3> QED BY <1>1, <2>2, <3>3 DEF TableOK
  <2> QED BY <2>1, <2>2
<1>4. BeforeScan' /\ ListingsOK'
  BY <1>1 DEF BeforeScan, ListingsOK
<1>5. NamesOK' /\ ReadOK' /\ ComparedOK' /\ PlansOK'
  BY <1>1 DEF NamesOK, ReadOK, ComparedOK, PlansOK, ChangesOf, Scanned
<1> QED BY <1>3, <1>4, <1>5

\* What is kept stays, whatever is read besides.
LEMMA KeptStays ==
  ASSUME NEW c, NEW d, NEW of, NEW p, OfScan(c, of, p), d.listing = c.listing,
         \A q \in DOMAIN c.contents : q \in DOMAIN d.contents /\ d.contents[q] = c.contents[q]
  PROVE  OfScan(d, of, p)
BY DEF OfScan

\* What was read of the source once is kept and used again.
LEMMA AskScan == ASSUME Places, CacheShape, ScanOK, Syncing, Ask PROVE ScanOK'
<1> USE DEF ScanOK, Syncing
<1> DEFINE wanted == WantedOf(Asked)
           known == Extended(Known, [p \in wanted |-> ReadAt(SideOf(Asked), p)])
<1>1. /\ pc \in {"hash", "read"} /\ NextRole /\ cache' = Keeps(known)
      /\ answers' = Extended(answers, Only(Asked, [p \in wanted |-> known[p]]))
      /\ UNCHANGED <<opts, names, listings, outside, table, compared, plans>>
  BY DEF Ask
<1>2. /\ wanted \subseteq DOMAIN known
      /\ \A q \in DOMAIN Known : q \in DOMAIN known /\ known[q] = Known[q]
  BY DEF Extended
<1>3. cache'.listing = cache.listing
  BY <1>1 DEF Keeps, CacheShape
<1>4. \A q \in DOMAIN cache.contents : q \in DOMAIN cache'.contents /\ cache'.contents[q] = cache.contents[q]
  <2>1. CASE Asked = "left" /\ names = {} /\ pc = "read"
    <3>1. Known = cache.contents /\ cache'.contents = known
      BY <1>1, <2>1 DEF Known, Keeps, CacheShape
    <3> HIDE DEF known
    <3> QED BY <1>2, <3>1
  <2>2. CASE ~(Asked = "left" /\ names = {} /\ pc = "read")
    BY <1>1, <2>2 DEF Keeps, CacheShape
  <2> QED BY <2>1, <2>2
<1>5. pc' \in {"hash", "judge"} \/ (pc = "read" /\ pc' \in {"read", "settle"})
  BY <1>1 DEF NextRole
<1>6. ReadOK'
  <2> SUFFICES ASSUME pc = "read", names = {}, "left" \in DOMAIN answers', NEW p \in DOMAIN answers'["left"]
               PROVE  p \in DOMAIN cache'.contents /\ answers'["left"][p] = cache'.contents[p]
    BY <1>1, <1>5 DEF ReadOK
  <2>1. CASE "left" \in DOMAIN answers
    <3>1. answers'["left"] = answers["left"]
      BY <1>1, <2>1 DEF Extended, Only
    <3> QED BY <1>4, <2>1, <3>1 DEF ReadOK
  <2>2. CASE "left" \notin DOMAIN answers
    <3>1. Asked = "left" /\ answers'["left"] = [q \in wanted |-> known[q]]
      BY <1>1, <2>2 DEF Extended, Only
    <3>2. cache'.contents = known
      BY <1>1, <3>1 DEF Keeps, CacheShape
    <3> HIDE DEF known
    <3> QED BY <1>2, <3>1, <3>2
  <2> QED BY <2>1, <2>2
<1>7. ComparedOK' /\ PlansOK'
  BY <1>1, <1>3, <1>4, KeptStays DEF ComparedOK, PlansOK, ChangesOf, Scanned
<1>8. BeforeScan' /\ ListingsOK' /\ NamesOK' /\ TableOK'
  BY <1>1, <1>3, <1>5 DEF BeforeScan, ListingsOK, NamesOK, TableOK, Scanned
<1> QED BY <1>6, <1>7, <1>8

\* A compared path has the state that was scanned and the content that is kept.
LEMMA SettleScan == ASSUME Places, ScanOK, Syncing, Settle PROVE ScanOK'
<1> USE DEF ScanOK, Syncing
<1>1. /\ pc = "settle" /\ cache.listing # <<>>
      /\ compared' = Extended(compared, [p \in DOMAIN table |-> Result(p)])
      /\ NewRound(Unseen) /\ pc' = (IF Unseen # {} THEN "list" ELSE "plan")
      /\ UNCHANGED <<opts, cache, plans>>
  BY DEF Settle, BeforeScan
<1>2. ComparedOK'
  <2> SUFFICES ASSUME NEW p \in DOMAIN compared' \cap Scanned PROVE OfScan(cache, compared'[p], p)
    BY <1>1 DEF ComparedOK, Scanned
  <2>1. CASE p \in DOMAIN compared
    BY <1>1, <2>1 DEF Extended, ComparedOK
  <2>2. CASE p \notin DOMAIN compared
    <3>1. p \in DOMAIN table /\ compared'[p] = Result(p)
      BY <1>1, <2>2 DEF Extended
    <3>2. names = {}
      BY <1>1, <3>1 DEF TableOK, NamesOK
    <3>3. StateIn(Result(p), "left") = cache.listing.entries[p]
      BY <1>1, <3>2 DEF TableOK, Result, StateIn
    <3>4. ASSUME "left" \in DOMAIN Result(p).contents
          PROVE  p \in DOMAIN cache.contents /\ Result(p).contents["left"] = cache.contents[p]
      <4>1. /\ "left" \in DOMAIN answers /\ p \in DOMAIN answers["left"]
            /\ Result(p).contents["left"] = answers["left"][p]
        BY <3>4 DEF Result, AnswersFor
      <4> QED BY <1>1, <3>2, <4>1 DEF ReadOK
    <3> QED BY <3>1, <3>3, <3>4 DEF OfScan
  <2> QED BY <2>1, <2>2
<1>3. NamesOK'
  BY <1>1 DEF NamesOK, Scanned, Unseen, NewRound, TableOK
<1>4. BeforeScan' /\ ListingsOK' /\ TableOK' /\ ReadOK'
  BY <1>1 DEF BeforeScan, ListingsOK, TableOK, ReadOK, NewRound
<1>5. PlansOK'
  BY <1>1 DEF PlansOK, ChangesOf, Scanned
<1> QED BY <1>2, <1>3, <1>4, <1>5

\* A path that is changed was compared.
LEMMA PlanIsOfCompared ==
  ASSUME NEW all, NEW targets, NEW options, NEW p \in Planned(MergePlan(all, targets, options), Changes)
  PROVE  p \in DOMAIN all
BY DEF Planned, MergePlan, WithoutSkippedSubtrees, Changes, Writes, Entry

\* So has a path in a plan.
LEMMA PlanScan ==
  ASSUME Places, Places', ScanOK, Syncing, PlanMerge PROVE ScanOK'
<1>1. pc = "plan" /\ UNCHANGED <<opts, cache, results, stops>> /\ cache.listing # <<>>
  BY DEF PlanMerge, ScanOK, BeforeScan
<1>2. stops'[Left] = "no" /\ DOMAIN stops' = Sides
  BY <1>1 DEF Places, PhasesOK
<1> DEFINE planned == [failed |-> FALSE, compared |-> compared,
                       plan |-> MergePlan(compared, Targets, ReadsOptions)]
<1>3. \/ EndWith(2) /\ UNCHANGED <<asking, compared, plans>>
      \/ NextRight(planned) \/ NextRight(FailedTarget)
  BY DEF PlanMerge
<1>4. CASE NextRight(FailedTarget)
  BY <1>1, <1>2, <1>4, FailedScan DEF Comparison
<1>5. CASE EndWith(2) /\ UNCHANGED <<asking, compared, plans>>
  BY <1>1, <1>5, EndScan
<1>6. CASE NextRight(planned)
  <2>1. \A p \in Planned(planned.plan, Changes) \cap Scanned : OfScan(cache, planned.compared[p], p)
    BY PlanIsOfCompared DEF ScanOK, ComparedOK
  <2> HIDE DEF planned
  <2> QED BY <1>1, <1>2, <1>6, <2>1, NextRightPlaces, NextRightScan DEF Comparison
<1> QED BY <1>3, <1>4, <1>5, <1>6

\* Steps that leave what is known of the source alone.
LEMMA QuietScan ==
  ASSUME Places, ScanOK, Syncing,
         UNCHANGED <<opts, cache, names, compared, plans, role, listings, outside, table, answers>>,
         \/ pc' = pc
         \/ pc = "connect" /\ pc' = "list"
         \/ pc' \in {"ended", "apply"}
  PROVE  ScanOK'
<1> USE DEF ScanOK, Syncing
<1>1. BeforeScan'
  BY DEF BeforeScan, ListingsOK, ChangesOf
<1>3. ListingsOK'
  <2>1. CASE pc' = pc
    BY <2>1 DEF ListingsOK
  <2>2. CASE pc = "connect" /\ pc' = "list"
    BY <2>2 DEF ListingsOK
  <2>3. CASE pc' \in {"ended", "apply"}
    BY <2>3 DEF ListingsOK
  <2> QED BY <2>1, <2>2, <2>3
<1>2. NamesOK' /\ TableOK' /\ ReadOK' /\ ComparedOK' /\ PlansOK'
  BY DEF NamesOK, TableOK, ReadOK, ComparedOK, PlansOK, ChangesOf, Scanned
<1> QED BY <1>1, <1>2, <1>3

\* Every step keeps what was scanned and read of the source.
LEMMA ScanStep == ASSUME Places, Places', CacheShape, ScanOK, [Next]_vars PROVE ScanOK'
<1> SUFFICES ASSUME Syncing PROVE ScanOK'
  <2>1. opts' = opts
    BY DEF Next, CommandStep, vars, Connect, ConnectFails, List, Facts, ListFails, Collect, Ask, AskFails,
           Judge, Settle, ListCompared, PlanMerge, PlanHunks, Confirm, Change, Report, OthersStep, Done,
           ErrorInComparison
  <2> QED BY <2>1 DEF ScanOK, Syncing
<1> USE DEF asking
<1>0. CASE UNCHANGED vars
  BY <1>0, QuietScan DEF vars
<1>1. CASE Connect
  BY <1>1, QuietScan DEF Connect
<1>2. CASE ConnectFails
  <2>1. /\ pc \in Comparison /\ UNCHANGED <<opts, cache, results, stops>>
        /\ \/ NextRight(FailedTarget)
           \/ EndWith(2) /\ UNCHANGED <<asking, compared, plans>>
    BY <1>2 DEF ConnectFails, Comparison
  <2>2. stops'[Left] = "no"
    BY <2>1 DEF Places, PhasesOK, Comparison
  <2> QED BY <2>1, <2>2, FailedScan, EndScan
<1>3. CASE List
  BY <1>3, ListScan
<1>4. CASE Facts
  BY <1>4 DEF Facts, ScanOK, ListingsOK
<1>5. CASE ListFails
  <2>1. pc \in Comparison /\ DOMAIN stops = Sides
    BY <1>5 DEF ListFails, Comparison, Places, PhasesOK
  <2>2. PICK stopsNow \in {stops} \cup {[stops EXCEPT ![SideOf(Asked)] = how] : how \in {"lost", "rootGone"}} :
          ErrorInComparison(stopsNow)
    BY <1>5 DEF ListFails
  <2>3. DOMAIN stopsNow = Sides
    BY <2>1
  <2> QED BY <2>1, <2>2, <2>3, ErrorScan
<1>6. CASE Collect
  BY <1>6, CollectScan
<1>7. CASE Ask
  BY <1>7, AskScan
<1>8. CASE AskFails
  <2>1. pc \in {"hash", "read"} /\ DOMAIN stops = Sides
    BY <1>8 DEF AskFails, Places, PhasesOK
  <2>2. PICK stopsNow \in {stops} \cup {[stops EXCEPT ![SideOf(Asked)] = how] : how \in {"lost", "rootGone", "no"}} :
          \/ /\ NextRole
             /\ UNCHANGED <<opts, names, listings, outside, table, answers, compared, cache, plans>>
          \/ ErrorInComparison(stopsNow)
    BY <1>8 DEF AskFails
  <2>3. DOMAIN stopsNow = Sides
    BY <2>1
  <2>4. CASE ErrorInComparison(stopsNow)
    BY <2>1, <2>3, <2>4, ErrorScan DEF Comparison
  <2>5. CASE NextRole /\ UNCHANGED <<opts, names, listings, outside, table, answers, compared, cache, plans>>
    <3>1. pc' \in {"hash", "judge"} \/ (pc = "read" /\ pc' \in {"read", "settle"})
      BY <2>1, <2>5 DEF NextRole
    <3>2. BeforeScan' /\ ListingsOK'
      BY <2>1, <2>5, <3>1 DEF ScanOK, BeforeScan, ListingsOK
    <3>3. NamesOK' /\ TableOK' /\ ReadOK' /\ ComparedOK' /\ PlansOK'
      BY <2>1, <2>5, <3>1 DEF ScanOK, NamesOK, TableOK, ReadOK, ComparedOK, PlansOK, ChangesOf, Scanned
    <3> QED BY <3>2, <3>3 DEF ScanOK
  <2> QED BY <2>2, <2>4, <2>5
<1>9. CASE Judge
  <2>1. /\ pc = "judge" /\ pc' = "read" /\ answers' = <<>>
        /\ UNCHANGED <<opts, names, listings, outside, table, compared, cache, plans>>
    BY <1>9 DEF Judge
  <2>2. BeforeScan' /\ ListingsOK'
    BY <2>1 DEF ScanOK, BeforeScan, ListingsOK
  <2>3. NamesOK' /\ TableOK' /\ ReadOK' /\ ComparedOK' /\ PlansOK'
    BY <2>1 DEF ScanOK, NamesOK, TableOK, ReadOK, ComparedOK, PlansOK, ChangesOf, Scanned
  <2> QED BY <2>2, <2>3 DEF ScanOK
<1>10. CASE Settle
  BY <1>10, SettleScan
<1>11. CASE ListCompared
  BY <1>11 DEF ListCompared, Syncing
<1>12. CASE PlanMerge
  BY <1>12, PlanScan
<1>13. CASE PlanHunks
  BY <1>13 DEF PlanHunks, Syncing
<1>14. CASE Confirm
  BY <1>14, QuietScan DEF Confirm, EndWith
<1>15. CASE Change
  BY <1>15, QuietScan DEF Change
<1>16. CASE Report
  BY <1>16, QuietScan DEF Report, EndWith
<1>17. CASE OthersStep
  BY <1>17, QuietScan DEF OthersStep
<1>18. CASE Done
  BY <1>0, <1>18 DEF Done
<1> QED
  BY <1>0, <1>1, <1>2, <1>3, <1>4, <1>5, <1>6, <1>7, <1>8, <1>9, <1>10, <1>11, <1>12, <1>13,
     <1>14, <1>15, <1>16, <1>17, <1>18 DEF Next, CommandStep

\* Two targets that have the state and the content of one scan get the same.
LEMMA SameScan == ASSUME Places, ScanOK PROVE SameScanForAll
<1> SUFFICES ASSUME Syncing, NEW i \in DOMAIN plans, NEW j \in DOMAIN plans,
                    NEW p \in ChangesOf(i) \cap ChangesOf(j), p \in DOMAIN cache.listing.entries
             PROVE  SameFor(i, j, p)
  BY DEF SameScanForAll, Syncing
<1>1. p \in Scanned
  BY DEF ScanOK, BeforeScan, Scanned
<1>2. OfScan(cache, plans[i].compared[p], p) /\ OfScan(cache, plans[j].compared[p], p)
  BY <1>1 DEF ScanOK, PlansOK
<1>3. ASSUME NEW k \in {i, j}, plans[k].plan[p] = Entry("writeFile"), HasWhatToWrite(k, p)
      PROVE  "left" \in DOMAIN plans[k].compared[p].contents
  <2>1. opts.command # "hunks"
    BY DEF Syncing
  <2> QED BY <1>3, <2>1 DEF HasWhatToWrite
<1> QED BY <1>2, <1>3 DEF SameFor, OfScan

\* A sync is of one source, as far as one scan listed it.
THEOREM SyncIsOfOneSourceHolds == Spec => []SyncIsOfOneSource
<1>1. Init => Places /\ CacheShape /\ ScanOK
  BY PlacesInit, CacheShapeInit, ScanInit
<1>2. Places /\ CacheShape /\ ScanOK /\ [Next]_vars => (Places /\ CacheShape /\ ScanOK)'
  BY PlacesStep, CacheShapeStep, ScanStep
<1>3. Places /\ ScanOK => SyncIsOfOneSource
  BY SourceHolds, SameScan DEF SyncIsOfOneSource
<1> QED BY <1>1, <1>2, <1>3, PTL DEF Spec

(***************************************************************************)
(* What a verdict says of its states, from the judging to the plan.  A     *)
(* path that is only on the second side is absent on the first, and one    *)
(* that can be written is no directory on the second.                      *)
(***************************************************************************)
Unsettled == {"onlyFirst", "differs", "byContent"}

\* gone are the paths that may be found absent on the first side.
JudgedOK(j, there, had_, p) ==
  /\ j.verdict.v = "onlySecond" => p \notin had_
  /\ j.verdict.v \in Unsettled \/ j.followed # NotFollowed => there.kind # "dir"

VerdictOK(v, there, had_, p) ==
  /\ v.v = "onlySecond" => p \notin had_
  /\ v.v \in {"onlyFirst", "differs"} => there.kind # "dir"

\* A path is only on the second side if it is absent on the first, and a
\* directory is nothing to be written.
LEMMA StatesJudged ==
  ASSUME NEW pair, NEW a, NEW b, NEW method, a.kind \in Kinds, b.kind \in Kinds
  PROVE  /\ JudgeStates(pair, a, b, method).v = "onlySecond" => a.kind = "absent"
         /\ JudgeStates(pair, a, b, method).v \in Unsettled => b.kind # "dir"
<1> DEFINE j == JudgeStates(pair, a, b, method)
<1>1. /\ V("bothAbsent").v = "bothAbsent" /\ V("onlyFirst").v = "onlyFirst" /\ V("same").v = "same"
      /\ V("onlySecond").v = "onlySecond"
      /\ V("kindDiffers").v = "kindDiffers" /\ ByContent.v = "byContent" /\ V("differs").v = "differs"
      /\ \A w, o : Undecidable(w, o).v = "undecidable"
  BY DEF V, ByContent, Undecidable
<1>2. /\ \A same \in BOOLEAN : SameOrDiffers(same).v \in {"same", "differs"}
      /\ JudgeFiles(a, b, method).v \in {"same", "differs", "byContent"}
  BY <1>1 DEF SameOrDiffers, JudgeFiles, V
<1>3. CASE a.kind = "absent" /\ b.kind = "absent"
  BY <1>1, <1>3 DEF JudgeStates, Unsettled
<1>4. CASE a.kind \in {"unreadable", "other"} \/ b.kind \in {"unreadable", "other"}
  <2>1. j.v = "undecidable"
    BY <1>1, <1>4 DEF JudgeStates
  <2> QED BY <2>1 DEF Unsettled
<1>5. CASE /\ ~(a.kind \in {"unreadable", "other"} \/ b.kind \in {"unreadable", "other"})
           /\ ~(a.kind = "absent" /\ b.kind = "absent")
  <2>1. CASE Unfollowable(a) \/ Unfollowable(b)
    <3>1. j.v = "undecidable"
      BY <1>1, <1>5, <2>1 DEF JudgeStates
    <3> QED BY <3>1 DEF Unsettled
  <2>2. CASE ~(Unfollowable(a) \/ Unfollowable(b))
    <3>1. j = IF b.kind = "absent" THEN V("onlyFirst")
              ELSE IF a.kind = "absent" THEN V("onlySecond")
              ELSE IF a.kind # b.kind THEN V("kindDiffers")
              ELSE CASE a.kind = "link" -> SameOrDiffers(a.target = b.target)
                     [] a.kind = "dir" -> V("same")
                     [] a.kind = "file" -> JudgeFiles(a, b, method)
      BY <1>5, <2>2 DEF JudgeStates
    <3>2. CASE b.kind = "absent"
      BY <1>1, <1>5, <3>1, <3>2 DEF Unsettled
    <3>3. CASE b.kind # "absent" /\ a.kind = "absent"
      BY <1>1, <3>1, <3>3 DEF Unsettled
    <3>4. CASE b.kind # "absent" /\ a.kind # "absent" /\ a.kind # b.kind
      BY <1>1, <3>1, <3>4 DEF Unsettled
    <3>5. CASE b.kind # "absent" /\ a.kind = b.kind
      <4>1. a.kind \in {"file", "link", "dir"}
        BY <1>5, <3>5 DEF Kinds
      <4>2. CASE a.kind = "file"
        <5>1. j = JudgeFiles(a, b, method)
          BY <3>1, <3>5, <4>2
        <5> QED BY <1>2, <3>5, <4>2, <5>1 DEF Unsettled
      <4>3. CASE a.kind = "link"
        <5>1. j = SameOrDiffers(a.target = b.target)
          BY <3>1, <3>5, <4>3
        <5> QED BY <1>2, <3>5, <4>3, <5>1 DEF Unsettled
      <4>4. CASE a.kind = "dir"
        <5>1. j = V("same")
          BY <3>1, <3>5, <4>4
        <5> QED BY <1>1, <5>1 DEF Unsettled
      <4> HIDE DEF j
      <4> QED BY <4>1, <4>2, <4>3, <4>4
    <3> HIDE DEF j
    <3> QED BY <3>2, <3>3, <3>4, <3>5
  <2> QED BY <2>1, <2>2
<1> QED BY <1>3, <1>4, <1>5

\* Hashes say that files are the same or differ, or that they were not read.
LEMMA HashesJudged ==
  ASSUME NEW pair, NEW hashes
  PROVE  JudgeHashes(pair, hashes).v \in {"same", "differs", "undecidable", "stopped"}
<1>1. \A f : ReadOutcome(f).v \in {"undecidable", "stopped", "read"}
  BY DEF ReadOutcome, Stopped, ReadFailed, Undecidable, V
<1>2. \A same \in BOOLEAN : SameOrDiffers(same).v \in {"same", "differs"}
  BY DEF SameOrDiffers, V
<1> QED BY <1>1, <1>2 DEF JudgeHashes

\* Settling a pair does not find a path on the second side alone.
LEMMA PairSettled ==
  ASSUME NEW pair, NEW j, NEW hashes, NEW there, NEW h, NEW p, JudgedOK(j, there, h, p)
  PROVE  VerdictOK(SettlePair(pair, j, hashes), there, h, p)
<1> DEFINE link == Settled(j.verdict, pair, hashes)
           followed == Settled(j.followed, pair, hashes)
<1>1. /\ link.v = "onlySecond" => j.verdict.v = "onlySecond"
      /\ link.v \in {"onlyFirst", "differs"} => j.verdict.v \in Unsettled
  BY HashesJudged DEF Settled, Unsettled, ByContent, V
<1>2. followed # NotFollowed => j.followed # NotFollowed
  BY DEF Settled, NotFollowed, ByContent, V
<1>3. \/ SettlePair(pair, j, hashes).v \in {"stopped", "undecidable"}
      \/ SettlePair(pair, j, hashes) = link
      \/ SettlePair(pair, j, hashes).v = "differs" /\ followed # NotFollowed
  <2> HIDE DEF link, followed
  <2>1. SettlePair(pair, j, hashes) = IF followed.v = "stopped" /\ link.v # "stopped" THEN followed
                                      ELSE CombineLinkPair(link, followed)
    BY DEF SettlePair, link, followed
  <2> QED BY <2>1 DEF CombineLinkPair, V
<1> HIDE DEF link, followed
<1> QED BY <1>1, <1>2, <1>3 DEF JudgedOK, VerdictOK

\* Neither does settling all pairs of a path, a lost side included.
LEMMA PairsSettled ==
  ASSUME NEW judged, NEW hashes, NEW gone, NEW there, NEW h, NEW p,
         LeftRight \in DOMAIN judged => JudgedOK(judged[LeftRight], there, h, p)
  PROVE  LeftRight \in DOMAIN SettlePairs(judged, hashes, gone)
           => VerdictOK(SettlePairs(judged, hashes, gone)[LeftRight], there, h, p)
<1>1. SUFFICES ASSUME LeftRight \in DOMAIN judged
               PROVE  VerdictOK(SettlePairs(judged, hashes, gone)[LeftRight], there, h, p)
  BY DEF SettlePairs, LosePairs
<1>2. \/ SettlePairs(judged, hashes, gone)[LeftRight] = SettlePair(LeftRight, judged[LeftRight], hashes)
      \/ SettlePairs(judged, hashes, gone)[LeftRight].v = "undecidable"
  BY <1>1 DEF SettlePairs, LosePairs, ReadFailed, Undecidable
<1>3. VerdictOK(SettlePair(LeftRight, judged[LeftRight], hashes), there, h, p)
  BY <1>1, PairSettled
<1> QED BY <1>2, <1>3 DEF VerdictOK

\* Nor do the contents that were read, or not.
LEMMA ReadsApplied ==
  ASSUME NEW verdicts, NEW contents, NEW gone, NEW there, NEW h, NEW p,
         LeftRight \in DOMAIN verdicts => VerdictOK(verdicts[LeftRight], there, h, p)
  PROVE  /\ LeftRight \in DOMAIN ApplyReads(verdicts, contents)
              => VerdictOK(ApplyReads(verdicts, contents)[LeftRight], there, h, p)
         /\ LeftRight \in DOMAIN LosePairs(verdicts, gone)
              => VerdictOK(LosePairs(verdicts, gone)[LeftRight], there, h, p)
<1>1. \A f : ReadOutcome(f).v \in {"undecidable", "stopped", "read"}
  BY DEF ReadOutcome, Stopped, ReadFailed, Undecidable, V
<1>2. ASSUME LeftRight \in DOMAIN verdicts
      PROVE  /\ VerdictOK(ApplyReads(verdicts, contents)[LeftRight], there, h, p)
             /\ VerdictOK(LosePairs(verdicts, gone)[LeftRight], there, h, p)
  <2>1. \/ ApplyReads(verdicts, contents)[LeftRight] = verdicts[LeftRight]
        \/ ApplyReads(verdicts, contents)[LeftRight].v \in {"undecidable", "stopped"}
    BY <1>1, <1>2 DEF ApplyReads
  <2>2. \/ LosePairs(verdicts, gone)[LeftRight] = verdicts[LeftRight]
        \/ LosePairs(verdicts, gone)[LeftRight].v = "undecidable"
    BY <1>2 DEF LosePairs, ReadFailed, Undecidable
  <2> QED BY <1>2, <2>1, <2>2 DEF VerdictOK
<1> QED BY <1>2 DEF ApplyReads, LosePairs

\* What a plan changes is what the verdict alone would change.
LEMMA EntryOfVerdict ==
  ASSUME NEW of, NEW delete, NEW h, NEW p,
         LeftRight \in DOMAIN of.verdicts => VerdictOK(of.verdicts[LeftRight], StateIn(of, "right"), h, p)
  PROVE  /\ MergeEntry(of, delete) = Entry("delete")
              => delete /\ p \notin h /\ StateIn(of, "right").kind = "file"
         /\ MergeEntry(of, delete) \in Writes => StateIn(of, "right").kind # "dir"
<1>1. /\ \A e, f : Entry(e) = Entry(f) => e = f
      /\ \A e, r : Entry(e) # Skip(r) /\ Entry(e) # Fail(r)
  <2>1. \A e, r : DOMAIN Entry(e) = {"e"} /\ DOMAIN Skip(r) = {"e", "reason"} /\ DOMAIN Fail(r) = {"e", "why"}
    BY DEF Entry, Skip, Fail
  <2>2. \A e, f : Entry(e) = Entry(f) => e = f
    BY DEF Entry
  <2> QED BY <2>1, <2>2
<1>2. VerdictOn(of, LeftRight).v \in {"onlySecond", "onlyFirst", "differs"} => LeftRight \in DOMAIN of.verdicts
  BY DEF VerdictOn, NotCompared, V
<1>3. MergeEntry(of, delete) = Entry("delete") =>
        /\ VerdictOn(of, LeftRight).v = "onlySecond" /\ delete /\ StateIn(of, "right").kind = "file"
  BY <1>1 DEF MergeEntry, Written, DestinationOnly, KindMismatch
<1>4. MergeEntry(of, delete) \in Writes => VerdictOn(of, LeftRight).v \in {"onlyFirst", "differs"}
  BY <1>1 DEF MergeEntry, Written, DestinationOnly, KindMismatch, Writes
<1> QED BY <1>2, <1>3, <1>4 DEF VerdictOK, VerdictOn

(***************************************************************************)
(* Paths and trees.                                                        *)
(***************************************************************************)
\* What is on the way to a path is shorter, and so is what is on the way to that.
LEMMA AncestorsAreShorter ==
  ASSUME NEW p \in Paths, NEW q \in Ancestors(p)
  PROVE  /\ q \in Paths /\ p # q /\ p \notin Ancestors(q)
         /\ Ancestors(q) \subseteq Ancestors(p)
<1>1. p \in Seq({p[i] : i \in DOMAIN p}) /\ Ancestors(p) \subseteq Paths
  BY PathsClosed
<1>2. DEFINE S == {p[i] : i \in DOMAIN p}
<1>3. \A n \in 1 .. Len(p) - 1 :
        SubSeq(p, 1, n) \in Seq(S) /\ Len(SubSeq(p, 1, n)) = n
  <2>1. SUFFICES ASSUME NEW n \in 1 .. Len(p) - 1
                 PROVE  SubSeq(p, 1, n) \in Seq(S) /\ Len(SubSeq(p, 1, n)) = n
    OBVIOUS
  <2>2. \A i \in 1 .. n : p[i] \in S
    BY <1>1
  <2>3. Len(SubSeq(p, 1, n)) = IF 1 <= n THEN n - 1 + 1 ELSE 0
    BY <2>2, <1>1, SubSeqProperties
  <2>4. SubSeq(p, 1, n) \in Seq(S)
    BY <2>2, <1>1, SubSeqProperties
  <2> QED BY <2>3, <2>4, <1>1
<1>4. PICK n \in 1 .. Len(p) - 1 : q = SubSeq(p, 1, n)
  BY DEF Ancestors
<1>5. q \in Seq(S) /\ Len(q) = n /\ Len(p) \in Nat
  BY <1>1, <1>3, <1>4
<1>6. ASSUME NEW m \in 1 .. Len(q) - 1 PROVE SubSeq(q, 1, m) = SubSeq(p, 1, m)
  <2>1. 1 \in 1 .. Len(p) /\ n \in 1 .. Len(p) /\ 1 \in 1 .. n - 1 + 1 /\ m \in 1 .. n - 1 + 1
    BY <1>5
  <2>2. SubSeq(SubSeq(p, 1, n), 1, m) = SubSeq(p, 1 + 1 - 1, 1 + m - 1)
    BY <2>1, <1>1, SubSeqOfSubSeq
  <2> QED BY <2>2, <1>4, <1>5
<1>7. Ancestors(q) \subseteq Ancestors(p)
  BY <1>5, <1>6 DEF Ancestors
<1>8. p \notin Ancestors(q)
  <2>1. SUFFICES ASSUME p \in Ancestors(q) PROVE FALSE
    OBVIOUS
  <2>2. PICK m \in 1 .. Len(q) - 1 : p = SubSeq(q, 1, m)
    BY <2>1 DEF Ancestors
  <2>3. Len(p) = m
    BY <2>2, <1>3, <1>5, <1>6
  <2> QED BY <2>3, <1>5
<1>9. p # q
  BY <1>5
<1> QED BY <1>1, <1>7, <1>8, <1>9

\* A path that is put where its way is, or that goes, leaves a tree.
LEMMA PutKeepsTree ==
  ASSUME NEW tree, IsTree(tree), NEW p \in Paths, NEW thing, Proper(thing),
         thing # NoWorld => \A q \in Ancestors(p) : IsDirectory(tree[q])
  PROVE  IsTree([q \in Paths |-> IF q = p THEN thing
                                 ELSE IF p \in Ancestors(q) /\ ~IsDirectory(thing) THEN NoWorld
                                 ELSE tree[q]])
<1> DEFINE new == [q \in Paths |-> IF q = p THEN thing
                                   ELSE IF p \in Ancestors(q) /\ ~IsDirectory(thing) THEN NoWorld
                                   ELSE tree[q]]
<1>1. Proper(NoWorld)
  BY DEF Proper, NoWorld, Kinds
<1>2. ASSUME NEW q \in Paths PROVE Proper(new[q])
  BY <1>1 DEF IsTree
<1>3. ASSUME NEW q \in Paths, new[q] # NoWorld, NEW r \in Ancestors(q) PROVE IsDirectory(new[r])
  <2>1. r \in Paths /\ q # r /\ q \notin Ancestors(r) /\ Ancestors(r) \subseteq Ancestors(q)
    BY AncestorsAreShorter
  <2>2. CASE q = p
    <3>1. IsDirectory(tree[r])
      BY <1>3, <2>2
    <3>2. new[r] = tree[r]
      BY <2>1, <2>2
    <3> QED BY <3>1, <3>2
  <2>3. CASE q # p
    <3>1. tree[q] # NoWorld /\ (p \in Ancestors(q) => IsDirectory(thing))
      BY <1>3, <2>3
    <3>2. IsDirectory(tree[r])
      BY <3>1 DEF IsTree
    <3>3. new[r] = IF r = p THEN thing ELSE tree[r]
      BY <2>1, <3>1
    <3> HIDE DEF new
    <3> QED BY <1>3, <3>1, <3>2, <3>3
  <2> QED BY <2>2, <2>3
<1> HIDE DEF new
<1>4. DOMAIN new = Paths
  BY DEF new
<1> QED BY <1>2, <1>3, <1>4 DEF IsTree, new

\* So does one whose missing way is made.
LEMMA ParentsKeepTree ==
  ASSUME NEW tree, IsTree(tree), NEW p \in Paths, NEW thing, Proper(thing), ~IsDirectory(thing),
         \A q \in Ancestors(p) : tree[q] = NoWorld \/ IsDirectory(tree[q])
  PROVE  IsTree([q \in Paths |->
                   LET put == IF q = p THEN thing
                              ELSE IF p \in Ancestors(q) THEN NoWorld ELSE tree[q]
                   IN  IF q \in Ancestors(p) /\ put = NoWorld THEN [kind |-> "dir"] ELSE put])
<1> DEFINE put(q) == IF q = p THEN thing
                     ELSE IF p \in Ancestors(q) THEN NoWorld ELSE tree[q]
           new == [q \in Paths |-> IF q \in Ancestors(p) /\ put(q) = NoWorld THEN [kind |-> "dir"]
                                   ELSE put(q)]
<1>1. Proper(NoWorld) /\ Proper([kind |-> "dir"]) /\ IsDirectory([kind |-> "dir"])
  BY DEF Proper, NoWorld, Kinds, IsDirectory
<1>2. ASSUME NEW q \in Paths PROVE Proper(new[q])
  BY <1>1 DEF IsTree
<1>3. ASSUME NEW r \in Ancestors(p) PROVE IsDirectory(new[r])
  <2>1. r \in Paths /\ p # r /\ p \notin Ancestors(r)
    BY AncestorsAreShorter
  <2>2. put(r) = tree[r]
    BY <2>1
  <2> QED BY <1>1, <2>1, <2>2
<1>4. ASSUME NEW q \in Paths, q # p, q \notin Ancestors(p), new[q] # NoWorld, NEW r \in Ancestors(q)
      PROVE  IsDirectory(new[r])
  <2>1. r \in Paths /\ q # r /\ q \notin Ancestors(r) /\ Ancestors(r) \subseteq Ancestors(q)
    BY AncestorsAreShorter
  <2>2. new[q] = put(q)
    BY <1>4
  <2>3. p \notin Ancestors(q) /\ tree[q] # NoWorld
    BY <1>4, <2>2
  <2>4. IsDirectory(tree[r])
    BY <2>3 DEF IsTree
  <2>5. put(r) = tree[r]
    BY <2>1, <2>3
  <2> HIDE DEF put
  <2>6. new[r] = IF r \in Ancestors(p) /\ put(r) = NoWorld THEN [kind |-> "dir"] ELSE put(r)
    BY <2>1
  <2> HIDE DEF new
  <2> QED BY <1>1, <2>4, <2>5, <2>6
<1>5. ASSUME NEW q \in Paths, new[q] # NoWorld, NEW r \in Ancestors(q) PROVE IsDirectory(new[r])
  <2>1. q \in Ancestors(p) => Ancestors(q) \subseteq Ancestors(p)
    BY AncestorsAreShorter
  <2> HIDE DEF new
  <2> QED BY <1>3, <1>4, <1>5, <2>1
<1>6. DOMAIN new = Paths
  OBVIOUS
<1> HIDE DEF new
<1>7. IsTree(new)
  BY <1>2, <1>5, <1>6 DEF IsTree
<1> QED BY <1>7 DEF new

(***************************************************************************)
(* What a merge knows of the source where it says that a path is absent.    *)
(***************************************************************************)
\* A listing shows what is in the directories that are scanned, or the names.
InScan(p) == Below(p) /\ (p \in Filtered => p \in Dirs)
Shown(p) == IF names = {} THEN InScan(p) ELSE p \in names
Real(listing) ==
  \A p \in DOMAIN listing.entries : p \in Paths /\ listing.entries[p].kind \in Kinds \ {"absent"}

\* The tree of a side, at any time.
Trees == DOMAIN world = Sides /\ \A side \in Sides : IsTree(world[side])

\* had of one right side is told when the source is listed for it.
HadOK ==
  /\ had = [scan |-> had.scan, of |-> had.of] /\ DOMAIN had.of = DOMAIN Rights
  /\ pc \in Comparison => Len(plans) = right - 1
  /\ pc \in {"confirm", "apply"} => Len(plans) = Len(Rights)

CacheWhole ==
  Syncing /\ cache.listing # <<>> =>
    /\ Real(cache.listing) /\ \A p \in DOMAIN cache.listing.entries : InScan(p)
    /\ ~cache.listing.truncated =>
         \A p \in had.scan : InScan(p) => p \in DOMAIN cache.listing.entries

ListedWhole ==
  pc \in Comparison =>
    /\ pc # "facts" /\ (pc = "connect" => names = {} /\ role = 1)
    /\ pc \in {"connect", "list"} /\ role = 1 => listings = <<>> /\ outside = <<>>
    /\ DOMAIN outside = DOMAIN listings /\ \A r \in DOMAIN outside : outside[r] = {}
    /\ \A r \in DOMAIN listings :
         Real(listings[r]) /\ \A p \in DOMAIN listings[r].entries : Shown(p)
    /\ "left" \in DOMAIN listings /\ ~listings["left"].truncated =>
         \A p \in had.of[right] : Shown(p) => p \in DOMAIN listings["left"].entries

TableJudged ==
  pc \in {"hash", "judge", "read", "settle"} =>
    \A p \in DOMAIN table :
      /\ p \in Paths /\ (names # {} => p \in names)
      /\ LeftRight \in DOMAIN table[p].judged =>
           JudgedOK(table[p].judged[LeftRight], StateOf(table[p].states, "right"), had.of[right], p)

HashedJudged ==
  pc \in {"read", "settle"} =>
    \A p \in DOMAIN table :
      LeftRight \in DOMAIN hashed[p].verdicts =>
        VerdictOK(hashed[p].verdicts[LeftRight], StateOf(table[p].states, "right"), had.of[right], p)

ComparedOf(p, of) ==
  LeftRight \in DOMAIN compared[p].verdicts =>
    VerdictOK(compared[p].verdicts[LeftRight], StateIn(compared[p], "right"), of, p)

ComparedJudged ==
  pc \in Comparison =>
    /\ names = {} /\ pc # "plan" => compared = <<>>
    /\ \A p \in DOMAIN compared : p \in Paths \ names /\ ComparedOf(p, had.of[right])

\* A path that is deleted was a file, and not in the source; one that is
\* written was no directory.
PlanOK(o, plan, of) ==
  \A p \in Planned(plan.plan, Changes) :
    LET there == StateIn(plan.compared[p], "right")
    IN  /\ p \in Paths
        /\ plan.plan[p] = Entry("delete")
             => o.command # "hunks" /\ o.delete /\ p \notin of /\ there.kind = "file"
        /\ plan.plan[p] \in Writes => there.kind # "dir"
PlannedOf(i) == PlanOK(opts, plans[i], had.of[i])

PlansKnown == HadOK /\ \A i \in DOMAIN plans : PlannedOf(i)
MergeKnown ==
  Merging => CacheWhole /\ ListedWhole /\ TableJudged /\ HashedJudged /\ ComparedJudged
SourceKnown == PlansKnown /\ MergeKnown

\* What is planned for hunks and links is put as a thing of its own.
LEMMA NewThingIsProper ==
  ASSUME NEW i, NEW p, plans[i].plan[p] \in Writes
  PROVE  /\ Proper(NewThing(i, p)) /\ ~IsDirectory(NewThing(i, p)) /\ NewThing(i, p) # NoWorld
<1>1. Entry("delete") # Entry("writeFile") /\ Entry("delete") # Entry("writeLink")
      /\ Entry("writeLink") # Entry("writeFile")
  BY DEF Entry
<1>2. ASSUME NEW body
      PROVE  Proper(FileOf(body)) /\ ~IsDirectory(FileOf(body)) /\ FileOf(body) # NoWorld
  BY DEF FileOf, Proper, Kinds, IsDirectory, LinkToDirectory, NoWorld
<1>3. ASSUME NEW target, NEW link, link = [kind |-> "link", target |-> target, to |-> "missing",
                                           body |-> "none", out |-> FALSE, loop |-> FALSE]
      PROVE  Proper(link) /\ ~IsDirectory(link) /\ link # NoWorld
  BY <1>3 DEF Proper, Kinds, IsDirectory, LinkToDirectory, NoWorld
<1> DEFINE source == StateIn(plans[i].compared[p], "left")
           link == [kind |-> "link", target |-> source.target, to |-> "missing",
                    body |-> "none", out |-> FALSE, loop |-> FALSE]
<1>4. \/ NewThing(i, p) = link
      \/ NewThing(i, p) = FileOf("mixed")
      \/ NewThing(i, p) = FileOf(plans[i].compared[p].contents["left"].body)
  <2>1. plans[i].plan[p] # Entry("delete")
    BY <1>1 DEF Writes
  <2> QED BY <2>1 DEF NewThing
<1>5. Proper(link) /\ ~IsDirectory(link) /\ link # NoWorld
  <2> DEFINE target == source.target
  <2> HIDE DEF source
  <2> QED BY <1>3
<1> HIDE DEF link
<1> QED BY <1>2, <1>4, <1>5

\* Nothing is put where a path is deleted.
LEMMA DeletedThing ==
  ASSUME NEW i \in DOMAIN plans, NEW p \in ChangesOf(i), PlannedOf(i), plans[i].plan[p] = Entry("delete")
  PROVE  NewThing(i, p) = NoWorld
<1>1. Entry("delete") # Entry("writeLink")
  BY DEF Entry
<1>2. opts.command # "hunks"
  BY DEF PlannedOf, PlanOK, ChangesOf
<1> QED BY <1>1, <1>2 DEF NewThing

\* The tree of a side after a thing is put, and after its way is made.
LEMMA PutIsTree ==
  ASSUME Trees, NEW side \in Sides, NEW p \in Paths, NEW thing, Proper(thing),
         thing # NoWorld => \A q \in Ancestors(p) : IsDirectory(world[side][q]),
         world' = Put(side, p, thing)
  PROVE  Trees'
<1>1. DOMAIN world' = Sides /\ \A s \in Sides \ {side} : world'[s] = world[s]
  BY DEF Put, Trees
<1>2. IsTree(world[side])
  BY DEF Trees
<1>3. world'[side] = [q \in Paths |-> IF q = p THEN thing
                                      ELSE IF p \in Ancestors(q) /\ ~IsDirectory(thing) THEN NoWorld
                                      ELSE world[side][q]]
  BY DEF Put, Trees
<1>4. IsTree(world'[side])
  BY <1>2, <1>3, PutKeepsTree
<1> QED BY <1>1, <1>4 DEF Trees

\* A path that is written, with its way, leaves a tree.
LEMMA WrittenIsTree ==
  ASSUME Trees, NEW side \in Sides, NEW p \in Paths, NEW thing, Proper(thing), ~IsDirectory(thing),
         WayIsFree(side, p), world' = WithParents(side, p, Put(side, p, thing))
  PROVE  /\ Trees'
         /\ world'[side] =
              [q \in Paths |->
                 LET put == IF q = p THEN thing
                            ELSE IF p \in Ancestors(q) THEN NoWorld ELSE world[side][q]
                 IN  IF q \in Ancestors(p) /\ put = NoWorld THEN [kind |-> "dir"] ELSE put]
<1> DEFINE put == Put(side, p, thing)
<1>1. /\ DOMAIN put = Sides /\ \A s \in Sides \ {side} : put[s] = world[s]
      /\ put[side] = [q \in Paths |-> IF q = p THEN thing
                                      ELSE IF p \in Ancestors(q) /\ ~IsDirectory(thing) THEN NoWorld
                                      ELSE world[side][q]]
  BY DEF Put, Trees
<1> HIDE DEF put
<1>2. /\ DOMAIN world' = Sides /\ \A s \in Sides \ {side} : world'[s] = world[s]
      /\ world'[side] = [q \in Paths |-> IF q \in Ancestors(p) /\ put[side][q] = NoWorld
                                         THEN [kind |-> "dir"] ELSE put[side][q]]
  BY <1>1 DEF WithParents, put
<1>3. world'[side] =
        [q \in Paths |->
           LET at == IF q = p THEN thing
                     ELSE IF p \in Ancestors(q) THEN NoWorld ELSE world[side][q]
           IN  IF q \in Ancestors(p) /\ at = NoWorld THEN [kind |-> "dir"] ELSE at]
  <2>1. \A q \in Paths : put[side][q] = IF q = p THEN thing
                                        ELSE IF p \in Ancestors(q) THEN NoWorld ELSE world[side][q]
    BY <1>1
  <2> QED BY <1>2, <2>1
<1>4. IsTree(world'[side])
  <2>1. IsTree(world[side])
    BY DEF Trees
  <2> QED BY <1>3, <2>1, ParentsKeepTree DEF WayIsFree
<1> QED BY <1>2, <1>3, <1>4 DEF Trees

\* What a change that is made does to its path: it is deleted or written.
Applies(p) ==
  LET side == Rights[right]
      thing == NewThing(right, p)
  IN  /\ pc = "apply" /\ p \in ChangesOf(right) /\ Unchanged(right, p) /\ WayIsFree(side, p)
      /\ world' = IF plans[right].plan[p] = Entry("delete") THEN Put(side, p, thing)
                  ELSE WithParents(side, p, Put(side, p, thing))

\* A change is made whole or not at all.
LEMMA ChangeApplies ==
  ASSUME Change PROVE world' = world \/ \E p : Applies(p)
BY DEF Change, Applies

\* Only what others do and the changes touch a side.
LEMMA OthersElseLeaveTheSides ==
  ASSUME [Next]_vars
  PROVE  world' = world \/ OthersStep \/ (Change /\ \E p : Applies(p))
<1>1. [Next]_vars => UNCHANGED vars \/ CommandStep \/ OthersStep
  BY DEF Next, Done
<1>2. CASE UNCHANGED vars
  BY <1>2 DEF vars
<1>3. CASE Change
  BY <1>3, ChangeApplies
<1>4. CASE CommandStep /\ ~Change
  <2>1. CASE Connect \/ ConnectFails \/ List \/ Facts \/ Collect \/ Ask \/ Judge \/ Settle
    BY <2>1 DEF Connect, ConnectFails, List, Facts, Collect, Ask, Judge, Settle
  <2>2. CASE ListFails
    BY <2>2 DEF ListFails, ErrorInComparison
  <2>3. CASE AskFails
    BY <2>3 DEF AskFails, ErrorInComparison
  <2>4. CASE ListCompared \/ PlanMerge \/ PlanHunks \/ Confirm \/ Report
    BY <2>4 DEF ListCompared, PlanMerge, PlanHunks, Confirm, Report
  <2> QED BY <1>4, <2>1, <2>2, <2>3, <2>4 DEF CommandStep
<1> QED BY <1>1, <1>2, <1>3, <1>4

\* What is changed is deleted or written.
LEMMA PlannedKinds ==
  ASSUME NEW i \in DOMAIN plans, NEW p \in ChangesOf(i)
  PROVE  plans[i].plan[p] = Entry("delete") \/ plans[i].plan[p] \in Writes
BY DEF ChangesOf, Planned, Changes

\* Where changes are made, each right side has its plan.
LEMMA ApplyPlaces ==
  ASSUME Places, PlansKnown, pc = "apply"
  PROVE  right \in DOMAIN plans /\ Rights[right] \in Sides
<1>1. plans \in Seq({plans[i] : i \in DOMAIN plans}) /\ Len(plans) = Len(Rights)
  BY DEF Places, PhasesOK, PlansKnown, HadOK
<1>2. DOMAIN plans = 1 .. Len(plans)
  BY <1>1
<1> QED BY <1>1, <1>2, SideFacts DEF Places, OptionsOK

\* A side is a tree at any time.
LEMMA TreesInit == ASSUME Init PROVE Trees
BY StartsAreProper DEF Init, Trees

\* What others do and what is changed leaves trees.
LEMMA TreesStep ==
  ASSUME Trees, Places, PlansKnown, [Next]_vars
  PROVE  Trees'
<1>1. CASE world' = world
  BY <1>1 DEF Trees
<1>2. CASE OthersStep
  <2>1. PICK m \in OthersMay : /\ m[1] \in Sides /\ \A q \in Ancestors(m[2]) : IsDirectory(world[m[1]][q])
                               /\ world' = Put(m[1], m[2], m[3])
    BY <1>2 DEF OthersStep
  <2>2. m[2] \in Paths /\ Proper(m[3])
    BY OthersPutThings
  <2> QED BY <2>1, <2>2, PutIsTree
<1>3. ASSUME NEW p, Applies(p) PROVE Trees'
  <2>1. /\ right \in DOMAIN plans /\ p \in ChangesOf(right) /\ p \in Paths /\ Rights[right] \in Sides
        /\ PlannedOf(right)
    BY <1>3, ApplyPlaces DEF Applies, PlansKnown, PlannedOf, PlanOK, ChangesOf
  <2>2. CASE plans[right].plan[p] = Entry("delete")
    <3>1. NewThing(right, p) = NoWorld /\ Proper(NoWorld)
      BY <2>1, <2>2, DeletedThing DEF Proper, Kinds, NoWorld
    <3>2. world' = Put(Rights[right], p, NoWorld)
      BY <1>3, <2>2, <3>1 DEF Applies
    <3> QED BY <2>1, <3>1, <3>2, PutIsTree
  <2>3. CASE plans[right].plan[p] # Entry("delete")
    <3>1. plans[right].plan[p] \in Writes
      BY <2>1, <2>3, PlannedKinds
    <3>2. Proper(NewThing(right, p)) /\ ~IsDirectory(NewThing(right, p))
      BY <3>1, NewThingIsProper
    <3>3. /\ WayIsFree(Rights[right], p)
          /\ world' = WithParents(Rights[right], p, Put(Rights[right], p, NewThing(right, p)))
      BY <1>3, <2>3 DEF Applies
    <3> QED BY <2>1, <3>2, <3>3, WrittenIsTree
  <2> QED BY <2>2, <2>3
<1> QED BY <1>1, <1>2, <1>3, OthersElseLeaveTheSides

\* The check before a change sees the kind of thing that was compared.
LEMMA UnchangedKinds ==
  ASSUME NEW i, NEW p, Unchanged(i, p)
  PROVE  LET there == StateIn(plans[i].compared[p], "right")
             thing == world[Rights[i]][p]
         IN  /\ there.kind = "file" => thing.kind = "file"
             /\ thing.kind = "dir" => there.kind = "dir"
<1> DEFINE there == StateIn(plans[i].compared[p], "right")
           thing == world[Rights[i]][p]
           seen == Observed(plans[i].compared[p].states, plans[i].compared[p].hashes, "right")
           now == Now(Rights[i], p)
<1>1. seen # NotObserved /\ seen = now
  BY DEF Unchanged
<1>2. /\ there.kind = "file" => seen.kind = "file"
      /\ seen.kind = "dir" => there.kind = "dir"
  <2>1. there = StateOf(plans[i].compared[p].states, "right")
    BY DEF StateIn
  <2>2. seen # NotObserved
    BY <1>1
  <2>3. CASE there.kind = "file"
    <3>1. \/ seen = NotObserved
          \/ seen = [kind |-> "file", body |-> plans[i].compared[p].hashes["right"].body]
      BY <2>1, <2>3 DEF Observed
    <3> QED BY <2>2, <2>3, <3>1
  <2>4. CASE there.kind = "link"
    <3>1. seen = [kind |-> "link", target |-> there.target]
      BY <2>1, <2>4 DEF Observed
    <3> QED BY <2>4, <3>1
  <2>5. CASE there.kind \in {"absent", "other", "dir"}
    <3>1. seen = [kind |-> there.kind]
      BY <2>1, <2>5 DEF Observed
    <3> QED BY <2>5, <3>1
  <2>6. CASE there.kind \notin {"file", "link", "absent", "other", "dir"}
    <3>1. seen = NotObserved
      BY <2>1, <2>6 DEF Observed
    <3> QED BY <2>2, <3>1
  <2> QED BY <2>3, <2>4, <2>5, <2>6
<1>3. /\ now.kind = "file" => thing.kind = "file"
      /\ thing.kind = "dir" => now.kind = "dir"
  <2>1. CASE thing.kind = "file"
    BY <2>1
  <2>2. CASE thing.kind = "link"
    <3>1. now = [kind |-> "link", target |-> thing.target]
      BY <2>2 DEF Now
    <3> QED BY <2>2, <3>1
  <2>3. CASE thing.kind \notin {"file", "link"}
    <3>1. now = [kind |-> thing.kind]
      BY <2>3 DEF Now
    <3> QED BY <2>3, <3>1
  <2> QED BY <2>1, <2>2, <2>3
<1> HIDE DEF there, thing, seen, now
<1>4. (there.kind = "file" => thing.kind = "file") /\ (thing.kind = "dir" => there.kind = "dir")
  BY <1>1, <1>2, <1>3
<1> QED BY <1>4 DEF there, thing

\* A path that goes with a change is the one that is deleted, or was seen
\* through a link that is replaced.
LEMMA DeletedWasThere ==
  ASSUME Trees, Places, PlansKnown, NEW q, Applies(q),
         NEW p \in Paths, world'[Rights[right]][p] # world[Rights[right]][p],
         world'[Rights[right]][p] = NoWorld, ~ThroughLink(Rights[right], p)
  PROVE  opts.delete /\ p \notin had.of[right] /\ world[Rights[right]][p].kind = "file"
<1> DEFINE side == Rights[right]
           there == StateIn(plans[right].compared[q], "right")
<1>1. /\ right \in DOMAIN plans /\ side \in Sides
      /\ q \in ChangesOf(right) /\ q \in Paths /\ PlannedOf(right)
      /\ there.kind = "file" => world[side][q].kind = "file"
      /\ world[side][q].kind = "dir" => there.kind = "dir"
      /\ IsTree(world[side]) /\ world[side][p] # NoWorld
  BY ApplyPlaces, UnchangedKinds DEF Applies, PlansKnown, PlannedOf, PlanOK, ChangesOf, Trees
<1>2. q \in Ancestors(p) => IsDirectory(world[side][q]) /\ ~LinkToDirectory(world[side][q])
  BY <1>1 DEF IsTree, ThroughLink
<1>3. q \in Ancestors(p) => world[side][q].kind = "dir"
  BY <1>2 DEF IsDirectory
<1>4. CASE plans[right].plan[q] = Entry("delete")
  <2>1. NewThing(right, q) = NoWorld
    BY <1>1, <1>4, DeletedThing
  <2>2. world'[side][p] = IF p = q THEN NoWorld
                          ELSE IF q \in Ancestors(p) /\ ~IsDirectory(NoWorld) THEN NoWorld
                          ELSE world[side][p]
    BY <1>1, <1>4, <2>1 DEF Applies, Put, Trees
  <2>3. opts.delete /\ q \notin had.of[right] /\ there.kind = "file"
    BY <1>1, <1>4 DEF PlannedOf, PlanOK, ChangesOf
  <2>4. p = q
    BY <1>1, <1>3, <2>2, <2>3
  <2> QED BY <1>1, <2>3, <2>4
<1>5. CASE plans[right].plan[q] # Entry("delete")
  <2>1. plans[right].plan[q] \in Writes
    BY <1>1, <1>5, PlannedKinds
  <2>2. Proper(NewThing(right, q)) /\ ~IsDirectory(NewThing(right, q)) /\ NewThing(right, q) # NoWorld
    BY <2>1, NewThingIsProper
  <2>3. there.kind # "dir"
    BY <1>1, <2>1 DEF PlannedOf, PlanOK, ChangesOf
  <2>4. q \notin Ancestors(p)
    BY <1>1, <1>3, <2>3
  <2> DEFINE thing == NewThing(right, q)
  <2>5. world'[side] =
          [r \in Paths |->
             LET at == IF r = q THEN thing
                       ELSE IF q \in Ancestors(r) THEN NoWorld ELSE world[side][r]
             IN  IF r \in Ancestors(q) /\ at = NoWorld THEN [kind |-> "dir"] ELSE at]
    <3>1. WayIsFree(side, q) /\ world' = WithParents(side, q, Put(side, q, thing))
      BY <1>5 DEF Applies
    <3> HIDE DEF thing, side
    <3> QED BY <1>1, <2>2, <3>1, WrittenIsTree DEF thing
  <2>6. world'[side][p] \in {thing, [kind |-> "dir"], world[side][p]}
    BY <2>4, <2>5
  <2>7. [kind |-> "dir"] # NoWorld
    BY DEF NoWorld
  <2> QED BY <2>2, <2>6, <2>7
<1> QED BY <1>4, <1>5

\* What depends on the options alone stays.
LEMMA OptionsStay ==
  ASSUME UNCHANGED opts
  PROVE  /\ Rights' = Rights /\ Merging' = Merging /\ Dirs' = Dirs /\ RoleSeq' = RoleSeq
         /\ \A p : InScan(p)' <=> InScan(p)
<1>1. Rights' = Rights /\ Merging' = Merging /\ Dirs' = Dirs /\ RoleSeq' = RoleSeq
  BY DEF Rights, Merging, Dirs, Targets, Named, RoleSeq, WithRef
<1>2. \A p : InScan(p)' <=> InScan(p)
  BY <1>1 DEF InScan, Below
<1> QED BY <1>1, <1>2

\* At the beginning nothing is known of the source.
LEMMA KnownInit == ASSUME Init PROVE SourceKnown
<1>1. /\ had = [scan |-> {}, of |-> [i \in DOMAIN Rights |-> {}]] /\ plans = <<>> /\ pc = "connect"
      /\ right = 1 /\ role = 1 /\ names = {} /\ listings = <<>> /\ outside = <<>>
      /\ compared = <<>> /\ cache = NoCache
  BY DEF Init
<1>2. PlansKnown
  BY <1>1 DEF PlansKnown, HadOK
<1>3. CacheWhole /\ ListedWhole
  BY <1>1 DEF CacheWhole, ListedWhole, NoCache
<1>4. TableJudged /\ HashedJudged /\ ComparedJudged
  BY <1>1 DEF TableJudged, HashedJudged, ComparedJudged
<1> QED BY <1>2, <1>3, <1>4 DEF SourceKnown, MergeKnown

\* What is told of the source for this right side leaves the others alone.
HadKept ==
  /\ had' = [scan |-> had'.scan, of |-> had'.of] /\ DOMAIN had'.of = DOMAIN had.of
  /\ \A i \in DOMAIN had.of : i = right \/ had'.of[i] = had.of[i]

\* What is told of no right side stays as it was.
LEMMA SameHad == ASSUME HadOK, UNCHANGED had PROVE HadKept
BY DEF HadOK, HadKept

\* The plans of the right sides before this one.
LEMMA PlansBefore ==
  ASSUME Places, PlansKnown, pc \in Comparison, UNCHANGED opts, HadKept
  PROVE  /\ Len(plans) = right - 1 /\ DOMAIN plans = 1 .. right - 1 /\ right \in Nat
         /\ right \in DOMAIN Rights /\ DOMAIN Rights = 1 .. Len(Rights) /\ Len(Rights) \in Nat
         /\ DOMAIN had'.of = DOMAIN Rights
         /\ \A i \in DOMAIN plans : PlanOK(opts, plans[i], had'.of[i])
<1>1. plans \in Seq({plans[i] : i \in DOMAIN plans}) /\ Len(plans) = right - 1
  BY DEF Places, PhasesOK, PlansKnown, HadOK
<1>2. DOMAIN Rights = 1 .. Len(Rights) /\ Len(Rights) \in Nat /\ right \in DOMAIN Rights
  BY SideFacts DEF Places, OptionsOK
<1>3. DOMAIN plans = 1 .. right - 1 /\ right \in Nat
  BY <1>1, <1>2
<1>4. DOMAIN had'.of = DOMAIN Rights
  BY DEF HadKept, PlansKnown, HadOK
<1>5. ASSUME NEW i \in DOMAIN plans PROVE PlanOK(opts, plans[i], had'.of[i])
  <2>1. i \in DOMAIN had.of /\ i # right
    BY <1>2, <1>3 DEF PlansKnown, HadOK
  <2> QED BY <2>1 DEF HadKept, PlansKnown, PlannedOf
<1> QED BY <1>1, <1>2, <1>3, <1>4, <1>5

\* The next right side.
LEMMA NextRightKnown ==
  ASSUME Places, PlansKnown, pc \in Comparison, UNCHANGED opts, HadKept,
         NEW plan, NextRight(plan), PlanOK(opts, plan, had'.of[right]), Merging => CacheWhole',
         DOMAIN stops' = Sides, UNCHANGED results, Syncing => stops'[Left] = "no"
  PROVE  SourceKnown'
<1>1. /\ Places' /\ pc' \in {"connect", "confirm", "ended"}
      /\ plans' = Append(plans, plan) /\ DOMAIN plans' = 1 .. Len(plans) + 1
      /\ Len(plans) \in Nat /\ DOMAIN plans = 1 .. Len(plans)
      /\ plans'[Len(plans) + 1] = plan /\ \A i \in DOMAIN plans : plans'[i] = plans[i]
  BY NextRightPlaces
<1>2. /\ Len(plans) = right - 1 /\ DOMAIN plans = 1 .. right - 1 /\ right \in Nat
      /\ right \in DOMAIN Rights /\ DOMAIN Rights = 1 .. Len(Rights) /\ Len(Rights) \in Nat
      /\ DOMAIN had'.of = DOMAIN Rights
      /\ \A i \in DOMAIN plans : PlanOK(opts, plans[i], had'.of[i])
  BY PlansBefore
<1>3. Rights' = Rights /\ Merging' = Merging
  BY OptionsStay
<1>4. Len(plans') = right
  BY <1>1, <1>2, LenProperties DEF Places, PhasesOK
<1>5. /\ pc' = "connect" => right' = right + 1
      /\ pc' = "confirm" => right = Len(Rights)
  <2>1. CASE right < Len(Rights)
    BY <2>1 DEF NextRight
  <2>2. CASE ~(right < Len(Rights))
    <3>1. pc' \in {"ended", "confirm"}
      BY <2>2 DEF NextRight, EndWith
    <3>2. right \in 1 .. Len(Rights) /\ Len(Rights) \in Nat
      BY <1>2
    <3>3. right = Len(Rights)
      BY <2>2, <3>2
    <3> QED BY <3>1, <3>3
  <2> QED BY <2>1, <2>2
<1>6. HadOK'
  BY <1>1, <1>2, <1>3, <1>4, <1>5 DEF HadOK, HadKept, Comparison
<1>7. ASSUME NEW i \in DOMAIN plans' PROVE PlannedOf(i)'
  <2>1. CASE i = right
    BY <1>1, <1>2, <2>1 DEF PlannedOf
  <2>2. CASE i # right
    <3>1. i \in DOMAIN plans /\ plans'[i] = plans[i]
      BY <1>1, <1>2, <2>2
    <3>2. PlanOK(opts, plans[i], had'.of[i])
      BY <1>2, <3>1
    <3> QED BY <3>1, <3>2 DEF PlannedOf
  <2> QED BY <2>1, <2>2
<1>8. /\ role' = 1 /\ names' = {} /\ listings' = <<>> /\ outside' = <<>> /\ compared' = <<>>
      /\ pc' \in Comparison => pc' = "connect"
  BY <1>1 DEF NextRight, NewRound, Comparison
<1>9. ListedWhole' /\ TableJudged' /\ HashedJudged' /\ ComparedJudged'
  BY <1>1, <1>8 DEF ListedWhole, TableJudged, HashedJudged, ComparedJudged
<1> QED BY <1>3, <1>6, <1>7, <1>9 DEF SourceKnown, PlansKnown, MergeKnown

\* A command that ends has the plans it made.
LEMMA EndKnown ==
  ASSUME Places, PlansKnown, pc \in Comparison, UNCHANGED <<opts, plans>>, HadKept,
         NEW code, EndWith(code), Merging => CacheWhole'
  PROVE  SourceKnown'
<1>1. pc' = "ended" /\ Rights' = Rights /\ Merging' = Merging
  BY OptionsStay DEF EndWith
<1>2. /\ DOMAIN had'.of = DOMAIN Rights
      /\ \A i \in DOMAIN plans : PlanOK(opts, plans[i], had'.of[i])
  BY PlansBefore
<1>3. HadOK'
  BY <1>1, <1>2 DEF HadOK, HadKept, Comparison
<1>4. \A i \in DOMAIN plans' : PlannedOf(i)'
  BY <1>2 DEF PlannedOf
<1>5. ListedWhole' /\ TableJudged' /\ HashedJudged' /\ ComparedJudged'
  BY <1>1 DEF ListedWhole, TableJudged, HashedJudged, ComparedJudged, Comparison
<1> QED BY <1>1, <1>3, <1>4, <1>5 DEF SourceKnown, PlansKnown, MergeKnown

\* A right side whose comparison failed has nothing planned.
LEMMA FailedKnown == \A o, of : PlanOK(o, FailedTarget, of)
BY DEF PlanOK, FailedTarget, Planned

\* What sync keeps is as whole as it was.
LEMMA CacheKept ==
  ASSUME UNCHANGED <<opts, cache, had>>, CacheWhole PROVE CacheWhole'
<1>1. \A p : InScan(p)' <=> InScan(p)
  BY OptionsStay
<1> QED BY <1>1 DEF CacheWhole, Real, Syncing

\* A comparison that fails ends, for this right side or for all.
LEMMA FailKnown ==
  ASSUME Places, SourceKnown, pc \in Comparison, UNCHANGED <<opts, results>>, HadKept,
         NEW stopsNow, FailComparison(stopsNow), stops' = stopsNow, DOMAIN stops' = Sides,
         Merging => CacheWhole'
  PROVE  SourceKnown'
<1>1. CASE opts.command = "sync" /\ ~SourceFails(stopsNow)
  <2>1. NextRight(FailedTarget) /\ stops'[Left] = "no"
    BY <1>1 DEF FailComparison, SourceFails
  <2> QED BY <2>1, NextRightKnown, FailedKnown DEF SourceKnown
<1>2. CASE ~(opts.command = "sync" /\ ~SourceFails(stopsNow))
  <2>1. EndWith(2) /\ UNCHANGED plans
    BY <1>2 DEF FailComparison
  <2> QED BY <2>1, EndKnown DEF SourceKnown
<1> QED BY <1>1, <1>2

\* A request that fails ends the comparison in the same way.
LEMMA ErrorKnown ==
  ASSUME Places, SourceKnown, pc \in Comparison, NEW stopsNow, DOMAIN stopsNow = Sides,
         ErrorInComparison(stopsNow)
  PROVE  SourceKnown'
<1>1. FailComparison(stopsNow) /\ stops' = stopsNow /\ UNCHANGED <<opts, cache, results, had>>
  BY DEF ErrorInComparison
<1>2. HadKept /\ (Merging => CacheWhole')
  BY <1>1, SameHad, CacheKept DEF SourceKnown, PlansKnown, MergeKnown
<1> QED BY <1>1, <1>2, FailKnown

(***************************************************************************)
(* The listings.                                                           *)
(***************************************************************************)

\* What a listing shows is there.
LEMMA EntryKinds ==
  ASSUME NEW thing, Proper(thing), thing # NoWorld
  PROVE  OfEntry(thing).kind \in Kinds \ {"absent"}
<1>1. thing.kind \in Kinds \ {"absent"}
  BY DEF Proper
<1>2. CASE thing.kind = "file"
  <2>1. OfEntry(thing) = File(thing.size, thing.at, thing.digits)
    BY <1>2 DEF OfEntry
  <2> QED BY <2>1 DEF File, Kinds
<1>3. CASE thing.kind = "link"
  <2>1. OfEntry(thing) = Link(thing.target, thing.to)
    BY <1>3 DEF OfEntry
  <2> QED BY <2>1 DEF Link, Kinds
<1>4. CASE thing.kind \notin {"file", "link"}
  <2>1. OfEntry(thing) = [kind |-> thing.kind]
    BY <1>4 DEF OfEntry
  <2> QED BY <1>1, <2>1
<1> QED BY <1>2, <1>3, <1>4

\* A listing has what is there and shown, and all of it when it is not cut.
LEMMA ListingIsReal ==
  ASSUME Trees, NEW side \in Sides, NEW kept \in Kept(Seen(side)),
         NEW listing, listing = ListingOf(side, kept, Seen(side))
  PROVE  /\ Real(listing) /\ \A p \in DOMAIN listing.entries : Shown(p)
         /\ listing # <<>>
         /\ ~listing.truncated =>
              \A p \in There(side) : Shown(p) => p \in DOMAIN listing.entries
<1>1. /\ DOMAIN listing.entries = kept /\ listing.truncated = (kept # Seen(side))
      /\ \A p \in kept : listing.entries[p] = OfEntry(world[side][p])
      /\ listing # <<>>
  BY DEF ListingOf
<1>2. Seen(side) = {p \in There(side) : Shown(p)}
  BY DEF Seen, Shown, InDirectories, InScan
<1>3. kept \subseteq Seen(side)
  BY DEF Kept
<1>4. \A p \in Paths : Proper(world[side][p])
  BY DEF Trees, IsTree
<1>5. ASSUME NEW p \in kept PROVE p \in Paths /\ listing.entries[p].kind \in Kinds \ {"absent"}
  <2>1. p \in Paths /\ world[side][p] # NoWorld
    BY <1>2, <1>3 DEF There
  <2> QED BY <1>1, <1>4, <2>1, EntryKinds
<1> QED BY <1>1, <1>2, <1>3, <1>5 DEF Real

\* What a listing tells of the source, for this right side and for sync.
Tells(listing) ==
  /\ Real(listing) /\ \A p \in DOMAIN listing.entries : Shown(p)
  /\ Asked # "left" => UNCHANGED had
  /\ Asked = "left" /\ ~listing.truncated =>
       \A p \in had'.of[right] : Shown(p) => p \in DOMAIN listing.entries
  /\ \A p \in DOMAIN compared : p \in had'.of[right] => p \in had.of[right]
  /\ HadKept /\ CacheWhole'

\* The source is asked first, and no other side is the source.
LEMMA AskedSide ==
  ASSUME OptionsOK
  PROVE  /\ SideOf(Asked) = Left <=> Asked = "left"
         /\ Asked = "left" <=> role = 1
         /\ SideOf(Asked) \in Sides /\ role \in Nat \ {0}
<1>1. /\ DOMAIN <<"left", "right">> = 1 .. 2 /\ DOMAIN <<"left", "right", "ref">> = 1 .. 3
      /\ <<"left", "right", "ref">>[1] = "left" /\ <<"left", "right", "ref">>[2] = "right"
      /\ <<"left", "right", "ref">>[3] = "ref"
      /\ <<"left", "right">>[1] = "left" /\ <<"left", "right">>[2] = "right"
  OBVIOUS
<1>2. Asked = "left" <=> role = 1
  BY <1>1 DEF OptionsOK, RoleSeq, Asked
<1>3. Left # Ref
  BY DEF Left, Ref
<1>4. role \in Nat \ {0}
  BY <1>1 DEF OptionsOK, RoleSeq
<1> QED BY <1>2, <1>3, <1>4, SideFacts, StartsAreProper DEF Roles

\* A listing of the source, or the one that sync kept, tells what the source has.
LEMMA ListTells ==
  ASSUME Places, Trees, CacheShape, SourceKnown, Merging, List
  PROVE  \E listing : Tells(listing) /\ AfterListing(listing)
<1>1. /\ pc = "list" /\ UNCHANGED opts /\ SideOf(Asked) \in Sides
      /\ SideOf(Asked) = Left <=> Asked = "left"
      /\ right \in DOMAIN Rights
  BY AskedSide DEF List, Places, OptionsOK
<1>2. /\ HadOK /\ CacheWhole /\ ComparedJudged /\ pc \in Comparison /\ (names = {} => compared = <<>>)
      /\ right \in DOMAIN had.of /\ \A p : InScan(p)' <=> InScan(p)
  BY <1>1, OptionsStay DEF SourceKnown, PlansKnown, MergeKnown, ComparedJudged, Comparison, HadOK
<1>3. CASE FromCache
  <2>1. /\ AfterListing(cache.listing) /\ UNCHANGED cache
        /\ had' = [had EXCEPT !.of[right] = had.scan]
    BY <1>3 DEF List
  <2>2. names = {} /\ cache.listing # <<>> /\ Asked = "left"
    BY <1>3 DEF FromCache
  <2>3. /\ had'.scan = had.scan /\ had'.of = [had.of EXCEPT ![right] = had.scan]
        /\ had' = [scan |-> had'.scan, of |-> had'.of]
    BY <2>1, <1>2 DEF HadOK
  <2>4. HadKept
    BY <1>2, <2>3 DEF HadKept, HadOK
  <2>5. CacheWhole'
    BY <1>1, <1>2, <2>1, <2>3 DEF CacheWhole, Real, Syncing
  <2>6. had'.of[right] = had.scan
    BY <1>2, <2>3
  <2>7. Tells(cache.listing)
    BY <1>2, <1>3, <2>2, <2>4, <2>5, <2>6 DEF Tells, CacheWhole, Shown, FromCache, Syncing
  <2> QED BY <2>1, <2>7
<1>4. CASE ~FromCache
  <2> DEFINE side == SideOf(Asked)
             seen == Seen(side)
  <2>1. PICK kept \in Kept(seen) :
          /\ AfterListing(ListingOf(side, kept, seen))
          /\ cache' = IF opts.command = "sync" /\ side = Left /\ names = {}
                      THEN [cache EXCEPT !.listing = ListingOf(side, kept, seen)] ELSE cache
          /\ had' = CASE side # Left -> had
                      [] side = Left /\ names = {} ->
                           [scan |-> There(side),
                            of |-> [had.of EXCEPT ![right] = There(side)]]
                      [] side = Left /\ names # {} ->
                           [had EXCEPT !.of[right] = (@ \ names) \cup (There(side) \cap names)]
    BY <1>4 DEF List
  <2> DEFINE listing == ListingOf(side, kept, seen)
  <2>2. /\ Real(listing) /\ \A p \in DOMAIN listing.entries : Shown(p)
        /\ listing # <<>>
        /\ ~listing.truncated =>
             \A p \in There(side) : Shown(p) => p \in DOMAIN listing.entries
    BY <1>1, ListingIsReal
  <2> HIDE DEF listing, seen
  <2>3. CASE Asked # "left"
    <3>1. had' = had /\ cache' = cache
      BY <1>1, <2>1, <2>3
    <3>2. HadKept /\ CacheWhole'
      BY <1>1, <1>2, <3>1, SameHad, CacheKept
    <3> QED BY <2>1, <2>2, <2>3, <3>1, <3>2 DEF Tells, listing
  <2>4. CASE Asked = "left" /\ names = {}
    <3>1. had' = [scan |-> There(side), of |-> [had.of EXCEPT ![right] = There(side)]]
      BY <1>1, <2>1, <2>4
    <3>2. HadKept /\ had'.scan = There(side) /\ had'.of[right] = There(side)
      BY <1>2, <3>1 DEF HadKept
    <3>3. \A p : Shown(p) <=> InScan(p)
      BY <2>4 DEF Shown
    <3>4. Syncing => cache'.listing = listing
      BY <1>1, <2>1, <2>4 DEF listing, CacheShape, Syncing
    <3>5. CacheWhole'
      BY <1>1, <1>2, <2>2, <3>2, <3>3, <3>4 DEF CacheWhole, Real, Syncing
    <3>6. Tells(listing)
      BY <1>2, <2>2, <2>4, <3>2, <3>5 DEF Tells
    <3> QED BY <2>1, <3>6 DEF listing
  <2>5. CASE Asked = "left" /\ names # {}
    <3>1. had' = [had EXCEPT !.of[right] = (@ \ names) \cup (There(side) \cap names)] /\ cache' = cache
      BY <1>1, <2>1, <2>5
    <3>2. /\ had'.scan = had.scan
          /\ had'.of = [had.of EXCEPT ![right] = (@ \ names) \cup (There(side) \cap names)]
          /\ had' = [scan |-> had'.scan, of |-> had'.of]
      BY <1>2, <3>1 DEF HadOK
    <3>3. HadKept
      BY <1>2, <3>2 DEF HadKept, HadOK
    <3>4. CacheWhole'
      BY <1>1, <1>2, <3>1, <3>2 DEF CacheWhole, Real, Syncing
    <3>5. had'.of[right] = (had.of[right] \ names) \cup (There(side) \cap names)
      BY <1>2, <3>2
    <3>6. \A p : Shown(p) <=> p \in names
      BY <2>5 DEF Shown
    <3>7. \A p \in DOMAIN compared : p \notin names
      BY <1>2 DEF ComparedJudged
    <3>8. Tells(listing)
      BY <2>2, <2>5, <3>3, <3>4, <3>5, <3>6, <3>7 DEF Tells
    <3> QED BY <2>1, <3>8 DEF listing
  <2> QED BY <2>3, <2>4, <2>5
<1> QED BY <1>3, <1>4

\* The plans of a comparison that goes on.
LEMMA PlansKept ==
  ASSUME Places, PlansKnown, UNCHANGED <<opts, right, plans>>, HadKept,
         pc \in Comparison, pc' \in Comparison
  PROVE  PlansKnown'
<1>1. /\ Rights' = Rights /\ Len(plans) = right - 1 /\ DOMAIN had'.of = DOMAIN Rights
      /\ \A i \in DOMAIN plans : PlanOK(opts, plans[i], had'.of[i])
  BY PlansBefore, OptionsStay
<1>2. HadOK'
  BY <1>1 DEF HadOK, HadKept, Comparison
<1> QED BY <1>1, <1>2 DEF PlansKnown, PlannedOf

\* A listing is added to those of the roles before.
LEMMA ListKnown ==
  ASSUME Places, Trees, CacheShape, SourceKnown, Merging, List
  PROVE  SourceKnown'
<1>1. PICK listing : Tells(listing) /\ AfterListing(listing)
  BY ListTells
<1>2. pc = "list" /\ UNCHANGED <<opts, stops, results>> /\ pc \in Comparison /\ DOMAIN stops = Sides
  BY DEF List, Comparison, Places, PhasesOK
<1>3. HadKept /\ CacheWhole'
  BY <1>1 DEF Tells
<1>4. CASE HasUnfollowable(listing)
  <2>1. FailComparison(stops)
    BY <1>1, <1>4 DEF AfterListing
  <2> QED BY <1>2, <1>3, <2>1, FailKnown
<1>5. CASE ~HasUnfollowable(listing)
  <2>1. /\ listings' = Extended(listings, Only(Asked, listing))
        /\ outside' = Extended(outside, Only(Asked, {}))
        /\ IF role = Len(RoleSeq) THEN pc' = "collected" /\ role' = 1
           ELSE role' = role + 1 /\ UNCHANGED pc
        /\ UNCHANGED <<right, names, table, answers, lost, hashed, compared, plans, exit>>
    BY <1>1, <1>5 DEF AfterListing, StopsAtLinks, Merging
  <2>2. pc' \in {"list", "collected"}
    BY <1>2, <2>1
  <2>3. PlansKnown'
    BY <1>2, <1>3, <2>1, <2>2, PlansKept DEF SourceKnown, Comparison
  <2>4. /\ ListedWhole /\ ComparedJudged
        /\ \A p : Shown(p)' <=> Shown(p)
        /\ (Asked = "left" <=> role = 1) /\ role \in Nat \ {0}
    BY <1>2, <2>1, OptionsStay, AskedSide DEF SourceKnown, MergeKnown, Shown, Places
  <2>5. /\ DOMAIN listings' = DOMAIN listings \cup {Asked}
        /\ DOMAIN outside' = DOMAIN outside \cup {Asked}
        /\ \A r \in DOMAIN listings : listings'[r] = listings[r]
        /\ \A r \in DOMAIN outside : outside'[r] = outside[r]
        /\ Asked \notin DOMAIN listings => listings'[Asked] = listing
        /\ Asked \notin DOMAIN outside => outside'[Asked] = {}
    <3> DEFINE asked == Asked
    <3>1. listings' = Extended(listings, Only(asked, listing)) /\ outside' = Extended(outside, Only(asked, {}))
      BY <2>1
    <3> HIDE DEF asked
    <3>2. /\ DOMAIN listings' = DOMAIN listings \cup {asked}
          /\ \A r \in DOMAIN listings : listings'[r] = listings[r]
          /\ asked \notin DOMAIN listings => listings'[asked] = listing
      BY <3>1 DEF Extended, Only
    <3>3. /\ DOMAIN outside' = DOMAIN outside \cup {asked}
          /\ \A r \in DOMAIN outside : outside'[r] = outside[r]
          /\ asked \notin DOMAIN outside => outside'[asked] = {}
      BY <3>1 DEF Extended, Only
    <3> QED BY <3>2, <3>3 DEF asked
  <2>6. /\ DOMAIN outside' = DOMAIN listings' /\ \A r \in DOMAIN outside' : outside'[r] = {}
    BY <1>2, <2>4, <2>5 DEF ListedWhole, Comparison
  <2>7. ASSUME NEW r \in DOMAIN listings'
        PROVE  Real(listings'[r]) /\ \A p \in DOMAIN listings'[r].entries : Shown(p)'
    <3>1. listings'[r] = listing \/ (r \in DOMAIN listings /\ listings'[r] = listings[r])
      BY <2>5
    <3> QED BY <1>1, <1>2, <2>4, <3>1 DEF ListedWhole, Comparison, Tells, Real
  <2>8. "left" \in DOMAIN listings' /\ ~listings'["left"].truncated =>
          \A p \in had'.of[right] : Shown(p) => p \in DOMAIN listings'["left"].entries
    <3>1. CASE Asked = "left"
      <4>1. listings = <<>>
        BY <1>2, <2>4, <3>1 DEF ListedWhole, Comparison
      <4>2. listings'["left"] = listing
        BY <2>5, <3>1, <4>1
      <4> QED BY <1>1, <3>1, <4>2 DEF Tells
    <3>2. CASE Asked # "left"
      <4>1. had' = had /\ ("left" \in DOMAIN listings' => "left" \in DOMAIN listings)
        BY <1>1, <2>5, <3>2 DEF Tells
      <4> QED BY <1>2, <2>4, <2>5, <4>1 DEF ListedWhole, Comparison
    <3> QED BY <3>1, <3>2
  <2>9. pc' = "list" => role' # 1
    BY <1>2, <2>1, <2>4
  <2>10. ListedWhole'
    BY <2>1, <2>2, <2>4, <2>6, <2>7, <2>8, <2>9 DEF ListedWhole
  <2>11. ComparedJudged'
    <3>1. names = {} => compared = <<>>
      BY <1>2, <2>4 DEF ComparedJudged, Comparison
    <3>2. ASSUME NEW p \in DOMAIN compared
          PROVE  p \in Paths \ names /\ ComparedOf(p, had'.of[right])
      <4>1. ComparedOf(p, had.of[right]) /\ p \in Paths \ names
        BY <1>2, <2>4 DEF ComparedJudged, Comparison
      <4>2. p \in had'.of[right] => p \in had.of[right]
        BY <1>1 DEF Tells
      <4> QED BY <4>1, <4>2 DEF ComparedOf, VerdictOK
    <3> QED BY <2>1, <3>1, <3>2 DEF ComparedJudged, ComparedOf
  <2>12. TableJudged' /\ HashedJudged'
    BY <2>2 DEF TableJudged, HashedJudged
  <2> QED BY <1>3, <2>3, <2>10, <2>11, <2>12 DEF SourceKnown, MergeKnown
<1> QED BY <1>4, <1>5

\* The commands that change nothing have no plans.
LEMMA ListOnlyKnown ==
  ASSUME Places, PlansKnown, ~Merging, List
  PROVE  SourceKnown'
<1>1. /\ pc = "list" /\ UNCHANGED <<opts, stops, results, right, plans>>
      /\ pc' \in {"list", "facts", "collected"}
  BY DEF List, AfterListing
<1>2. /\ HadOK /\ right \in DOMAIN had.of
      /\ had = [scan |-> had.scan, of |-> had.of]
  BY DEF PlansKnown, HadOK, Places, OptionsOK
<1>3. HadKept
  <2>1. \/ had' = had
        \/ \E now : had' = [had EXCEPT !.of[right] = now]
        \/ \E scan, now : had' = [scan |-> scan, of |-> [had.of EXCEPT ![right] = now]]
    BY DEF List
  <2>2. CASE had' = had
    BY <1>2, <2>2, SameHad
  <2>3. ASSUME NEW now, had' = [had EXCEPT !.of[right] = now] PROVE HadKept
    <3>1. had' = [scan |-> had.scan, of |-> [had.of EXCEPT ![right] = now]]
      BY <1>2, <2>3
    <3> QED BY <1>2, <3>1 DEF HadKept
  <2>4. ASSUME NEW scan, NEW now, had' = [scan |-> scan, of |-> [had.of EXCEPT ![right] = now]]
        PROVE  HadKept
    BY <1>2, <2>4 DEF HadKept
  <2> QED BY <2>1, <2>2, <2>3, <2>4
<1>4. PlansKnown' /\ Merging' = Merging
  BY <1>1, <1>3, PlansKept, OptionsStay DEF Comparison
<1> QED BY <1>4 DEF SourceKnown, MergeKnown

\* Steps in the course of a comparison that tell nothing new of the source.
LEMMA WithinKnown ==
  ASSUME Places, SourceKnown, UNCHANGED <<opts, right, plans, had>>, cache'.listing = cache.listing,
         pc \in Comparison, pc' \in Comparison,
         Merging => ListedWhole' /\ TableJudged' /\ HashedJudged' /\ ComparedJudged'
  PROVE  SourceKnown'
<1>1. HadKept /\ PlansKnown'
  BY SameHad, PlansKept DEF SourceKnown, PlansKnown
<1>2. Merging' = Merging /\ \A p : InScan(p)' <=> InScan(p)
  BY OptionsStay
<1>3. CacheWhole => CacheWhole'
  BY <1>2 DEF CacheWhole, Real, Syncing
<1> QED BY <1>1, <1>2, <1>3 DEF SourceKnown, MergeKnown

\* What is shown depends on the options and the names.
LEMMA ShownStays ==
  ASSUME UNCHANGED <<opts, names>> PROVE \A p : Shown(p)' <=> Shown(p)
BY OptionsStay DEF Shown

\* Connecting tells nothing of the source,
LEMMA ConnectKnown == ASSUME Places, SourceKnown, Connect PROVE SourceKnown'
<1>1. /\ pc = "connect" /\ pc' = "list"
      /\ UNCHANGED <<opts, right, plans, had, cache, names, role, listings, outside, compared>>
  BY DEF Connect, asking
<1>2. Merging => ListedWhole'
  BY <1>1, ShownStays DEF SourceKnown, MergeKnown, ListedWhole, Comparison
<1>3. Merging => TableJudged' /\ HashedJudged' /\ ComparedJudged'
  BY <1>1 DEF SourceKnown, MergeKnown, TableJudged, HashedJudged, ComparedJudged, ComparedOf, Comparison
<1> QED BY <1>1, <1>2, <1>3, WithinKnown DEF Comparison

\* and neither does a side that cannot be connected to.
LEMMA ConnectFailsKnown == ASSUME Places, SourceKnown, ConnectFails PROVE SourceKnown'
<1>1. /\ pc \in Comparison /\ UNCHANGED <<opts, results, stops, cache, had>>
      /\ NextRight(FailedTarget) \/ (EndWith(2) /\ UNCHANGED plans)
  BY DEF ConnectFails, Comparison
<1>2. HadKept /\ (Merging => CacheWhole') /\ DOMAIN stops' = Sides /\ (Syncing => stops'[Left] = "no")
  BY <1>1, SameHad, CacheKept DEF SourceKnown, PlansKnown, MergeKnown, Places, PhasesOK, Comparison
<1> QED BY <1>1, <1>2, NextRightKnown, EndKnown, FailedKnown DEF SourceKnown

\* Only diff asks where links lead.
LEMMA FactsKnown == ASSUME Places, SourceKnown, Facts PROVE SourceKnown'
<1>1. /\ pc = "facts" /\ pc' \in {"collected", "list"}
      /\ UNCHANGED <<opts, right, plans, had, cache>>
  BY DEF Facts
<1>2. ~Merging
  BY <1>1 DEF SourceKnown, MergeKnown, ListedWhole, Comparison
<1> QED BY <1>1, <1>2, WithinKnown DEF Comparison

\* A listing without an answer tells nothing.
LEMMA ListFailsKnown == ASSUME Places, SourceKnown, ListFails PROVE SourceKnown'
<1>1. pc \in Comparison /\ DOMAIN stops = Sides
  BY DEF ListFails, Comparison, Places, PhasesOK
<1>2. PICK stopsNow \in {stops} \cup {[stops EXCEPT ![SideOf(Asked)] = how] : how \in {"lost", "rootGone"}} :
        ErrorInComparison(stopsNow)
  BY DEF ListFails
<1>3. DOMAIN stopsNow = Sides
  BY <1>1
<1> QED BY <1>1, <1>2, <1>3, ErrorKnown

(***************************************************************************)
(* The table.                                                              *)
(***************************************************************************)
\* A state of the table is listed, or the listing is whole and lacks it.
LEMMA StatesOfTable ==
  ASSUME NEW ls, NEW out, NEW p \in DOMAIN StateTable(ls, out),
         NEW r \in DOMAIN StateTable(ls, out)[p].states
  PROVE  /\ r \in DOMAIN ls
         /\ \/ /\ p \in DOMAIN ls[r].entries
               /\ StateTable(ls, out)[p].states[r] = ls[r].entries[p]
            \/ /\ p \notin DOMAIN ls[r].entries /\ ~ls[r].truncated
               /\ StateTable(ls, out)[p].states[r] = Absent
BY DEF StateTable

\* A path is judged absent from the source by a listing that is whole.
LEMMA CollectKnown == ASSUME Places, SourceKnown, Collect PROVE SourceKnown'
<1> DEFINE states == StateTable(listings, outside)
<1>1. /\ pc = "collected" /\ pc' = "hash"
      /\ UNCHANGED <<opts, right, plans, had, cache, names, role, compared>>
      /\ listings' = <<>> /\ outside' = <<>>
      /\ table' = [p \in DOMAIN states |-> [states |-> states[p], judged |-> Judged(p, states[p])]]
  BY DEF Collect
<1>2. Merging => ListedWhole'
  BY <1>1 DEF ListedWhole
<1>3. Merging => HashedJudged' /\ ComparedJudged'
  BY <1>1 DEF SourceKnown, MergeKnown, HashedJudged, ComparedJudged, ComparedOf, Comparison
<1>4. ASSUME Merging PROVE TableJudged'
  <2>1. ListedWhole /\ pc \in Comparison /\ opts.command # "diff"
    BY <1>1, <1>4 DEF SourceKnown, MergeKnown, Comparison, Merging
  <2>2. ASSUME NEW p \in DOMAIN table'
        PROVE  /\ p \in Paths /\ (names # {} => p \in names) /\ Shown(p)
               /\ LeftRight \in DOMAIN table'[p].judged =>
                    JudgedOK(table'[p].judged[LeftRight], StateOf(table'[p].states, "right"),
                             had.of[right], p)
    <3>1. p \in DOMAIN states /\ table'[p] = [states |-> states[p], judged |-> Judged(p, states[p])]
      BY <1>1, <2>2
    <3>2. PICK r \in DOMAIN listings : p \in DOMAIN listings[r].entries
      BY <3>1 DEF StateTable
    <3>3. p \in Paths /\ Shown(p)
      BY <2>1, <3>2 DEF ListedWhole, Real
    <3> DEFINE at == states[p].states
               method == MethodFor(p)
    <3> SUFFICES ASSUME LeftRight \in DOMAIN table'[p].judged
                 PROVE  JudgedOK(table'[p].judged[LeftRight], StateOf(states[p], "right"), had.of[right], p)
      BY <3>1, <3>3 DEF Shown
    <3>4. table'[p].judged = Judged(p, states[p])
      BY <3>1
    <3>5. /\ LeftRight \in DOMAIN JudgePairs(states[p], method, FALSE)
          /\ table'[p].judged[LeftRight] = JudgePairs(states[p], method, FALSE)[LeftRight]
      <4> HIDE DEF states
      <4> QED BY <2>1, <3>4 DEF Judged
    <3>6. /\ "left" \in DOMAIN at /\ "right" \in DOMAIN at
          /\ table'[p].judged[LeftRight] =
               [verdict |-> JudgeStates(LeftRight, at["left"], at["right"], method),
                followed |-> NotFollowed]
      <4> HIDE DEF states, method
      <4>1. LeftRight[1] = "left" /\ LeftRight[2] = "right"
        BY DEF LeftRight
      <4> QED BY <3>5, <4>1 DEF JudgePairs
    <3>7. \A s \in {"left", "right"} :
            /\ s \in DOMAIN listings
            /\ \/ p \in DOMAIN listings[s].entries /\ at[s] = listings[s].entries[p]
               \/ p \notin DOMAIN listings[s].entries /\ ~listings[s].truncated /\ at[s] = Absent
      BY <3>1, <3>6, StatesOfTable
    <3> HIDE DEF states
    <3>8. at["left"].kind \in Kinds /\ at["right"].kind \in Kinds
      BY <2>1, <3>7 DEF ListedWhole, Real, Absent, Kinds
    <3>9. at["left"].kind = "absent" => p \notin had.of[right]
      BY <2>1, <3>3, <3>7 DEF ListedWhole, Real
    <3>10. StateOf(states[p], "right") = at["right"]
      BY <3>6 DEF StateOf
    <3> HIDE DEF at, method
    <3> QED BY <3>6, <3>8, <3>9, <3>10, StatesJudged DEF JudgedOK
  <2>3. ASSUME NEW p \in DOMAIN table'
        PROVE  /\ p \in Paths /\ (names' # {} => p \in names')
               /\ LeftRight \in DOMAIN table'[p].judged =>
                    JudgedOK(table'[p].judged[LeftRight], StateOf(table'[p].states, "right"),
                             had'.of[right'], p)
    BY <1>1, <2>2
  <2> QED BY <2>3 DEF TableJudged
<1> QED BY <1>1, <1>2, <1>3, <1>4, WithinKnown DEF Comparison

(***************************************************************************)
(* The verdicts.                                                           *)
(***************************************************************************)
\* Reading changes nothing of what was judged.
LEMMA ReadingKnown ==
  ASSUME Places, SourceKnown, NextRole, pc \in {"hash", "read"},
         UNCHANGED <<opts, right, plans, had, names, listings, outside, table, hashed, compared>>,
         cache'.listing = cache.listing
  PROVE  SourceKnown'
<1>1. pc' \in {"hash", "judge"} \/ (pc = "read" /\ pc' \in {"read", "settle"})
  BY DEF NextRole
<1>2. Merging => ListedWhole'
  BY <1>1, ShownStays DEF SourceKnown, MergeKnown, ListedWhole, Comparison
<1>3. Merging => TableJudged'
  BY <1>1 DEF SourceKnown, MergeKnown, TableJudged
<1>4. Merging => HashedJudged'
  BY <1>1 DEF SourceKnown, MergeKnown, HashedJudged
<1>5. Merging => ComparedJudged'
  BY <1>1 DEF SourceKnown, MergeKnown, ComparedJudged, ComparedOf, Comparison
<1> QED BY <1>1, <1>2, <1>3, <1>4, <1>5, WithinKnown DEF Comparison

\* A batch that is answered says nothing of what is absent.
LEMMA AskKnown == ASSUME Places, CacheShape, SourceKnown, Ask PROVE SourceKnown'
<1>1. /\ pc \in {"hash", "read"} /\ NextRole
      /\ UNCHANGED <<opts, right, plans, had, names, listings, outside, table, hashed, compared>>
  BY DEF Ask
<1>2. PICK known : cache' = Keeps(known)
  BY DEF Ask
<1>3. cache'.listing = cache.listing
  BY <1>2 DEF Keeps, CacheShape
<1> QED BY <1>1, <1>3, ReadingKnown

\* Neither does one that is not answered.
LEMMA AskFailsKnown == ASSUME Places, SourceKnown, AskFails PROVE SourceKnown'
<1>1. pc \in {"hash", "read"} /\ pc \in Comparison /\ DOMAIN stops = Sides
  BY DEF AskFails, Comparison, Places, PhasesOK
<1>2. PICK stopsNow \in {stops} \cup {[stops EXCEPT ![SideOf(Asked)] = how] : how \in {"lost", "rootGone", "no"}} :
        \/ /\ NextRole
           /\ UNCHANGED <<opts, right, plans, had, names, listings, outside, table, hashed, compared, cache>>
        \/ ErrorInComparison(stopsNow)
  BY DEF AskFails
<1>3. DOMAIN stopsNow = Sides
  BY <1>1
<1> QED BY <1>1, <1>2, <1>3, ErrorKnown, ReadingKnown

\* The verdicts keep what was judged by the states.
LEMMA JudgeKnown == ASSUME Places, SourceKnown, Judge PROVE SourceKnown'
<1>1. /\ pc = "judge" /\ pc' = "read"
      /\ UNCHANGED <<opts, right, plans, had, cache, names, role, listings, outside, table, compared>>
      /\ hashed' = [p \in DOMAIN table |->
                      [hashes |-> AnswersFor(p),
                       verdicts |-> SettlePairs(table[p].judged, AnswersFor(p), LostFor(p))]]
  BY DEF Judge
<1>2. Merging => ListedWhole'
  BY <1>1, ShownStays DEF SourceKnown, MergeKnown, ListedWhole, Comparison
<1>3. Merging => TableJudged' /\ ComparedJudged'
  BY <1>1 DEF SourceKnown, MergeKnown, TableJudged, ComparedJudged, ComparedOf, Comparison
<1>4. ASSUME Merging PROVE HashedJudged'
  <2>1. ASSUME NEW p \in DOMAIN table, LeftRight \in DOMAIN hashed'[p].verdicts
        PROVE  VerdictOK(hashed'[p].verdicts[LeftRight], StateOf(table[p].states, "right"),
                         had.of[right], p)
    <3>1. LeftRight \in DOMAIN table[p].judged =>
            JudgedOK(table[p].judged[LeftRight], StateOf(table[p].states, "right"), had.of[right], p)
      BY <1>1, <1>4, <2>1 DEF SourceKnown, MergeKnown, TableJudged
    <3>2. hashed'[p].verdicts = SettlePairs(table[p].judged, AnswersFor(p), LostFor(p))
      BY <1>1, <2>1
    <3> DEFINE there == StateOf(table[p].states, "right")
               judged == table[p].judged
               hashes == AnswersFor(p)
               gone == LostFor(p)
               of == had.of[right]
    <3>3. LeftRight \in DOMAIN judged => JudgedOK(judged[LeftRight], there, of, p)
      BY <3>1
    <3>4. hashed'[p].verdicts = SettlePairs(judged, hashes, gone)
      BY <3>2
    <3> HIDE DEF there, judged, hashes, gone, of
    <3>5. VerdictOK(hashed'[p].verdicts[LeftRight], there, of, p)
      BY <2>1, <3>3, <3>4, PairsSettled
    <3> QED BY <3>5 DEF there, of
  <2> QED BY <1>1, <2>1 DEF HashedJudged
<1> QED BY <1>1, <1>2, <1>3, <1>4, WithinKnown DEF Comparison

\* So does what is compared in the end.
LEMMA ResultJudged ==
  ASSUME Merging, SourceKnown, pc = "settle", NEW p \in DOMAIN table
  PROVE  /\ p \in Paths
         /\ LeftRight \in DOMAIN Result(p).verdicts =>
              VerdictOK(Result(p).verdicts[LeftRight], StateIn(Result(p), "right"), had.of[right], p)
<1> DEFINE there == StateOf(table[p].states, "right")
           verdicts == hashed[p].verdicts
           contents == AnswersFor(p)
           gone == LostFor(p)
           of == had.of[right]
<1>1. p \in Paths
  BY DEF SourceKnown, MergeKnown, TableJudged
<1>2. LeftRight \in DOMAIN verdicts => VerdictOK(verdicts[LeftRight], there, of, p)
  BY DEF SourceKnown, MergeKnown, HashedJudged
<1>3. /\ StateIn(Result(p), "right") = there
      /\ \/ Result(p).verdicts = LosePairs(verdicts, gone)
         \/ Result(p).verdicts = ApplyReads(verdicts, contents)
  BY DEF Result, StateIn
<1> HIDE DEF there, verdicts, contents, gone, of
<1>4. LeftRight \in DOMAIN Result(p).verdicts => VerdictOK(Result(p).verdicts[LeftRight], there, of, p)
  BY <1>2, <1>3, ReadsApplied
<1>5. LeftRight \in DOMAIN Result(p).verdicts =>
        VerdictOK(Result(p).verdicts[LeftRight], StateIn(Result(p), "right"), of, p)
  BY <1>3, <1>4
<1> QED BY <1>1, <1>5 DEF of

\* A second round compares other paths than the first.
LEMMA SettleKnown == ASSUME Places, SourceKnown, Settle PROVE SourceKnown'
<1>1. /\ pc = "settle" /\ NewRound(Unseen)
      /\ compared' = Extended(compared, [p \in DOMAIN table |-> Result(p)])
      /\ pc' = IF Unseen # {} THEN "list" ELSE "plan"
      /\ UNCHANGED <<opts, right, plans, had, cache>>
  BY DEF Settle
<1>2. names' = Unseen /\ role' = 1 /\ listings' = <<>> /\ outside' = <<>>
  BY <1>1 DEF NewRound
<1>3. ListedWhole' /\ TableJudged' /\ HashedJudged'
  BY <1>1, <1>2 DEF ListedWhole, TableJudged, HashedJudged
<1>4. ASSUME Merging PROVE ComparedJudged'
  <2>1. ComparedJudged /\ pc \in Comparison
    BY <1>1, <1>4 DEF SourceKnown, MergeKnown, Comparison
  <2>2. Unseen # {} => names = {} /\ compared = <<>> /\ Unseen \cap DOMAIN table = {}
    BY <1>1, <2>1 DEF Unseen, ComparedJudged
  <2>3. /\ DOMAIN compared' = DOMAIN compared \cup DOMAIN table
        /\ \A p \in DOMAIN compared : compared'[p] = compared[p]
        /\ \A p \in DOMAIN table \ DOMAIN compared : compared'[p] = Result(p)
    BY <1>1 DEF Extended
  <2>4. ASSUME NEW p \in DOMAIN compared'
        PROVE  /\ p \in Paths \ Unseen
               /\ LeftRight \in DOMAIN compared'[p].verdicts =>
                    VerdictOK(compared'[p].verdicts[LeftRight], StateIn(compared'[p], "right"),
                              had.of[right], p)
    <3>1. CASE p \in DOMAIN compared
      <4>1. p \in Paths /\ ComparedOf(p, had.of[right]) /\ compared # <<>>
        BY <2>1, <3>1 DEF ComparedJudged
      <4> QED BY <2>2, <2>3, <3>1, <4>1 DEF ComparedOf
    <3>2. CASE p \notin DOMAIN compared
      <4>1. p \in DOMAIN table /\ compared'[p] = Result(p)
        BY <2>3, <2>4, <3>2
      <4>2. /\ p \in Paths
            /\ LeftRight \in DOMAIN Result(p).verdicts =>
                 VerdictOK(Result(p).verdicts[LeftRight], StateIn(Result(p), "right"), had.of[right], p)
        BY <1>1, <1>4, <4>1, ResultJudged
      <4> QED BY <2>2, <4>1, <4>2
    <3> QED BY <3>1, <3>2
  <2> QED BY <1>1, <1>2, <2>4 DEF ComparedJudged, ComparedOf
<1> QED BY <1>1, <1>3, <1>4, WithinKnown DEF Comparison

(***************************************************************************)
(* The plan.                                                               *)
(***************************************************************************)

\* A failure is no change, and a deletion is no write.
LEMMA EntriesDiffer ==
  /\ Entry("notFound") \notin Changes /\ \A why : Fail(why) \notin Changes
  /\ Entry("delete") \notin Writes /\ Entry("writeFile") \in Writes
<1>1. \A e, r : DOMAIN Entry(e) = {"e"} /\ DOMAIN Fail(r) = {"e", "why"}
  BY DEF Entry, Fail
<1>2. \A e, f : Entry(e) = Entry(f) => e = f
  BY DEF Entry
<1> QED BY <1>1, <1>2 DEF Changes, Writes

\* A change that is planned is the one that the comparison alone asks for.
LEMMA PlanIsOfEntry ==
  ASSUME NEW cs, NEW targets, NEW options, NEW p \in DOMAIN MergePlan(cs, targets, options),
         MergePlan(cs, targets, options)[p] \in Changes
  PROVE  /\ p \in DOMAIN cs
         /\ MergePlan(cs, targets, options)[p] = MergeEntry(cs[p], options.delete)
<1> DEFINE plan == MergePlan(cs, targets, options)
           read == WithLinkText(WithReadFailure(MergeEntry(cs[p], options.delete), cs[p]), cs[p])
           checked == IF options.check THEN WithReference(read, cs[p]) ELSE read
<1>1. \/ plan[p] = Entry("notFound")
      \/ p \in DOMAIN cs /\ plan[p] = checked
  BY DEF MergePlan, WithoutSkippedSubtrees
<1>2. p \in DOMAIN cs /\ plan[p] = checked
  BY <1>1, EntriesDiffer
<1>3. checked = read \/ \E why : checked = Fail(why)
  <2> HIDE DEF read
  <2> QED BY DEF WithReference
<1>4. checked = read
  BY <1>2, <1>3, EntriesDiffer
<1>5. \A e, c : WithLinkText(e, c) = e \/ \E why : WithLinkText(e, c) = Fail(why)
  BY DEF WithLinkText
<1>6. \A e, c : WithReadFailure(e, c) = e \/ \E why : WithReadFailure(e, c) = Fail(why)
  BY DEF WithReadFailure
<1> HIDE DEF plan, checked
<1>7. read = MergeEntry(cs[p], options.delete)
  <2> DEFINE first == WithReadFailure(MergeEntry(cs[p], options.delete), cs[p])
  <2>1. read = first
    BY <1>2, <1>4, <1>5, EntriesDiffer DEF plan
  <2>2. first = MergeEntry(cs[p], options.delete)
    BY <1>2, <1>4, <1>6, <2>1, EntriesDiffer DEF plan
  <2> QED BY <2>1, <2>2
<1> QED BY <1>2, <1>4, <1>7 DEF plan

\* The plan of a merge deletes only what the source lacks.
LEMMA MergeIsPlanned ==
  ASSUME SourceKnown, Merging, pc = "plan", opts.command # "hunks"
  PROVE  PlanOK(opts, [failed |-> FALSE, compared |-> compared,
                       plan |-> MergePlan(compared, Targets, ReadsOptions)], had.of[right])
<1> DEFINE plan == MergePlan(compared, Targets, ReadsOptions)
<1>1. ASSUME NEW p \in DOMAIN plan, plan[p] \in Changes
      PROVE  /\ p \in Paths
             /\ plan[p] = Entry("delete") =>
                  opts.delete /\ p \notin had.of[right] /\ StateIn(compared[p], "right").kind = "file"
             /\ plan[p] \in Writes => StateIn(compared[p], "right").kind # "dir"
  <2>1. p \in DOMAIN compared /\ plan[p] = MergeEntry(compared[p], ReadsOptions.delete)
    BY <1>1, PlanIsOfEntry
  <2>2. ReadsOptions.delete = opts.delete
    BY DEF ReadsOptions
  <2>3. p \in Paths /\ ComparedOf(p, had.of[right])
    BY <2>1 DEF SourceKnown, MergeKnown, ComparedJudged, Comparison
  <2> DEFINE c == compared[p]
             of == had.of[right]
             delete == opts.delete
  <2>4. /\ LeftRight \in DOMAIN c.verdicts => VerdictOK(c.verdicts[LeftRight], StateIn(c, "right"), of, p)
        /\ plan[p] = MergeEntry(c, delete)
    BY <2>1, <2>2, <2>3 DEF ComparedOf
  <2> HIDE DEF c, of, delete, plan
  <2>5. /\ MergeEntry(c, delete) = Entry("delete")
             => delete /\ p \notin of /\ StateIn(c, "right").kind = "file"
        /\ MergeEntry(c, delete) \in Writes => StateIn(c, "right").kind # "dir"
    BY <2>4, EntryOfVerdict
  <2> QED BY <2>3, <2>4, <2>5 DEF c, of, delete
<1> HIDE DEF plan
<1>2. \A p \in Planned(plan, Changes) : p \in DOMAIN plan /\ plan[p] \in Changes
  BY DEF Planned
<1>3. PlanOK(opts, [failed |-> FALSE, compared |-> compared, plan |-> plan], had.of[right])
  BY <1>1, <1>2 DEF PlanOK
<1> QED BY <1>3 DEF plan

\* It is made of what was compared with this right side.
LEMMA PlanMergeKnown == ASSUME Places, SourceKnown, PlanMerge PROVE SourceKnown'
<1> DEFINE planned == [failed |-> FALSE, compared |-> compared,
                       plan |-> MergePlan(compared, Targets, ReadsOptions)]
<1>1. /\ pc = "plan" /\ opts.command \in {"merge", "sync"}
      /\ UNCHANGED <<stops, opts, cache, results, had>>
      /\ \/ EndWith(2) /\ UNCHANGED plans
         \/ NextRight(planned) \/ NextRight(FailedTarget)
  BY DEF PlanMerge
<1>2. /\ Merging /\ pc \in Comparison /\ opts.command # "hunks" /\ HadKept /\ CacheWhole'
      /\ DOMAIN stops' = Sides /\ (Syncing => stops'[Left] = "no") /\ had' = had
  <2>1. Merging /\ pc \in Comparison /\ opts.command # "hunks"
    BY <1>1 DEF Merging, Comparison
  <2> QED BY <1>1, <2>1, SameHad, CacheKept
          DEF SourceKnown, PlansKnown, MergeKnown, Places, PhasesOK
<1>3. PlanOK(opts, planned, had'.of[right]) /\ PlanOK(opts, FailedTarget, had'.of[right])
  BY <1>1, <1>2, MergeIsPlanned, FailedKnown
<1> HIDE DEF planned
<1>4. PlansKnown
  BY DEF SourceKnown
<1>5. CASE EndWith(2) /\ UNCHANGED plans
  BY <1>1, <1>2, <1>4, <1>5, EndKnown
<1>6. ASSUME NEW plan \in {planned, FailedTarget}, NextRight(plan) PROVE SourceKnown'
  BY <1>1, <1>2, <1>3, <1>4, <1>6, NextRightKnown
<1> QED BY <1>1, <1>5, <1>6

\* Hunks are never put into a directory, and nothing is deleted for them.
LEMMA PlanHunksKnown == ASSUME Places, SourceKnown, PlanHunks PROVE SourceKnown'
<1>1. /\ pc = "plan" /\ opts.command = "hunks" /\ UNCHANGED <<stops, opts, cache, results, had>>
      /\ Merging /\ pc \in Comparison
  BY DEF PlanHunks, Merging, Comparison
<1>2. /\ HadKept /\ CacheWhole' /\ DOMAIN stops' = Sides /\ (Syncing => stops'[Left] = "no")
  BY <1>1, SameHad, CacheKept DEF SourceKnown, PlansKnown, MergeKnown, Places, PhasesOK
<1>3. PICK p \in Named :
        \/ EndWith(2) /\ UNCHANGED plans
        \/ /\ p \in DOMAIN compared /\ Content(compared[p], "right") # "unavailable"
           /\ \E plan \in {<<>>, Only(p, Entry("writeFile"))} :
                NextRight([failed |-> FALSE, compared |-> compared, plan |-> plan])
  BY DEF PlanHunks
<1>4. CASE EndWith(2) /\ UNCHANGED plans
  BY <1>1, <1>2, <1>4, EndKnown DEF SourceKnown
<1>5. ASSUME p \in DOMAIN compared, Content(compared[p], "right") # "unavailable",
             NEW plan \in {<<>>, Only(p, Entry("writeFile"))},
             NextRight([failed |-> FALSE, compared |-> compared, plan |-> plan])
      PROVE  SourceKnown'
  <2>1. p \in Paths
    BY <1>1, <1>5 DEF SourceKnown, MergeKnown, ComparedJudged
  <2>2. StateIn(compared[p], "right").kind # "dir"
    <3> SUFFICES ASSUME StateIn(compared[p], "right").kind = "dir" PROVE FALSE
      OBVIOUS
    <3>1. StateIn(compared[p], "right") # Absent
      BY DEF Absent
    <3>2. Content(compared[p], "right") = "unavailable"
      BY <3>1 DEF Content
    <3> QED BY <1>5, <3>2
  <2>3. \A q \in Planned(plan, Changes) : q = p /\ plan[q] = Entry("writeFile")
    BY DEF Planned, Only
  <2>4. Entry("writeFile") # Entry("delete")
    BY DEF Entry
  <2> DEFINE new == [failed |-> FALSE, compared |-> compared, plan |-> plan]
  <2>5. PlanOK(opts, new, had'.of[right])
    BY <2>1, <2>2, <2>3, <2>4 DEF PlanOK
  <2> HIDE DEF new
  <2> QED BY <1>1, <1>2, <1>5, <2>5, NextRightKnown DEF SourceKnown, new
<1> QED BY <1>3, <1>4, <1>5

\* status and diff plan nothing.
LEMMA ListComparedKnown == ASSUME Places, SourceKnown, ListCompared PROVE SourceKnown'
<1>1. /\ pc \in Comparison /\ UNCHANGED <<opts, plans, cache, had>> /\ \E code : EndWith(code)
  BY DEF ListCompared, Comparison
<1>2. HadKept /\ (Merging => CacheWhole')
  BY <1>1, SameHad, CacheKept DEF SourceKnown, PlansKnown, MergeKnown
<1> QED BY <1>1, <1>2, EndKnown DEF SourceKnown

\* Once all is planned, nothing is learned of the source.
LEMMA AfterwardsKnown ==
  ASSUME Places, SourceKnown, UNCHANGED <<opts, plans, cache, had>>,
         pc \in {"confirm", "apply"}, pc' \in {"confirm", "apply", "ended"}
  PROVE  SourceKnown'
<1>1. Rights' = Rights /\ Merging' = Merging
  BY OptionsStay
<1>2. PlansKnown'
  BY <1>1 DEF SourceKnown, PlansKnown, HadOK, PlannedOf, Comparison
<1>3. Merging => CacheWhole'
  BY CacheKept DEF SourceKnown, MergeKnown
<1>4. ListedWhole' /\ TableJudged' /\ HashedJudged' /\ ComparedJudged'
  BY DEF ListedWhole, TableJudged, HashedJudged, ComparedJudged, Comparison
<1> QED BY <1>1, <1>2, <1>3, <1>4 DEF SourceKnown, MergeKnown

\* A step that others take, or none.
LEMMA NothingKnown ==
  ASSUME SourceKnown, UNCHANGED <<opts, pc, right, asking, compared, cache, plans, had>>
  PROVE  SourceKnown'
<1> USE DEF asking
<1>1. Rights' = Rights /\ Merging' = Merging /\ \A p : Shown(p)' <=> Shown(p)
  BY OptionsStay, ShownStays
<1>2. PlansKnown'
  BY <1>1 DEF SourceKnown, PlansKnown, HadOK, PlannedOf
<1>3. Merging => CacheWhole'
  BY CacheKept DEF SourceKnown, MergeKnown
<1>4. Merging => ListedWhole'
  BY <1>1 DEF SourceKnown, MergeKnown, ListedWhole
<1>5. Merging => TableJudged' /\ HashedJudged' /\ ComparedJudged'
  BY DEF SourceKnown, MergeKnown, TableJudged, HashedJudged, ComparedJudged, ComparedOf
<1> QED BY <1>1, <1>2, <1>3, <1>4, <1>5 DEF SourceKnown, MergeKnown

\* Every step keeps what a plan rests on.
LEMMA KnownStep ==
  ASSUME Places, Trees, CacheShape, SourceKnown, [Next]_vars PROVE SourceKnown'
<1>1. CASE Connect \/ ConnectFails \/ Facts \/ ListFails \/ Collect
  BY <1>1, ConnectKnown, ConnectFailsKnown, FactsKnown, ListFailsKnown, CollectKnown
<1>2. CASE List
  BY <1>2, ListKnown, ListOnlyKnown DEF SourceKnown
<1>3. CASE Ask \/ AskFails \/ Judge \/ Settle
  BY <1>3, AskKnown, AskFailsKnown, JudgeKnown, SettleKnown
<1>4. CASE ListCompared \/ PlanMerge \/ PlanHunks
  BY <1>4, ListComparedKnown, PlanMergeKnown, PlanHunksKnown
<1>5. CASE Confirm
  BY <1>5, AfterwardsKnown DEF Confirm, EndWith
<1>6. CASE Change
  BY <1>6, AfterwardsKnown DEF Change
<1>7. CASE Report
  BY <1>7, AfterwardsKnown DEF Report, EndWith
<1>8. CASE OthersStep
  BY <1>8, NothingKnown DEF OthersStep
<1>9. CASE UNCHANGED vars
  BY <1>9, NothingKnown DEF vars
<1> QED
  BY <1>1, <1>2, <1>3, <1>4, <1>5, <1>6, <1>7, <1>8, <1>9 DEF Next, CommandStep, Done

\* A path that goes is the deleted one.
LEMMA DeletedStep ==
  ASSUME Places, Trees, SourceKnown, Next,
         NEW p \in Paths, OwnChange(p), world'[Rights[right]][p] = NoWorld,
         ~ThroughLink(Rights[right], p)
  PROVE  opts.delete /\ p \notin had.of[right] /\ world[Rights[right]][p].kind = "file"
<1>1. pc = "apply" /\ results' # results /\ world'[Rights[right]][p] # world[Rights[right]][p]
  BY DEF OwnChange
<1>2. PICK q : Applies(q)
  BY <1>1, OthersElseLeaveTheSides DEF OthersStep
<1> QED BY <1>1, <1>2, DeletedWasThere DEF SourceKnown

\* With --delete a file is removed only when the whole source was listed for
\* its destination and did not have it; what else goes with a change was seen
\* through a link that the change replaces.
THEOREM DeletesOnlyWhatTheSourceLackedHolds == Spec => DeletesOnlyWhatTheSourceLacked
<1> DEFINE Inv == Places /\ Trees /\ CacheShape /\ SourceKnown
           Deletes == \A p \in Paths :
             (OwnChange(p) /\ world'[Rights[right]][p] = NoWorld /\ ~ThroughLink(Rights[right], p))
               => /\ opts.delete /\ p \notin had.of[right]
                  /\ world[Rights[right]][p].kind = "file"
<1>1. Init => Inv
  BY PlacesInit, TreesInit, CacheShapeInit, KnownInit
<1>2. Inv /\ [Next]_vars => Inv'
  BY PlacesStep, TreesStep, CacheShapeStep, KnownStep DEF SourceKnown
<1>3. Inv /\ [Next]_vars => [Deletes]_vars
  <2> SUFFICES ASSUME Inv, Next PROVE Deletes
    OBVIOUS
  <2> QED BY DeletedStep
<1> HIDE DEF Inv
<1>4. Spec => [][Deletes]_vars
  BY <1>1, <1>2, <1>3, PTL DEF Spec
<1> QED BY <1>4 DEF DeletesOnlyWhatTheSourceLacked

(***************************************************************************)
(* What a merge makes of a file that it is asked for.                      *)
(***************************************************************************)
Plain == opts.command \in {"merge", "sync"}

\* The verdicts on a file of the source and what the destination has there.
FileVerdict(v) ==
  v \in {V("same"), V("differs"), V("onlyFirst"), V("kindDiffers")} \/ v.v = "undecidable"

JudgedFile(states, judged) ==
  /\ StateOf(states, "left").kind = "file" /\ LeftRight \in DOMAIN judged
  /\ judged[LeftRight].followed = NotFollowed
  /\ \/ FileVerdict(judged[LeftRight].verdict)
     \/ judged[LeftRight].verdict = ByContent /\ StateOf(states, "right").kind = "file"
SettledFile(states, verdicts) ==
  /\ StateOf(states, "left").kind = "file"
  /\ LeftRight \in DOMAIN verdicts /\ FileVerdict(verdicts[LeftRight])

\* The files that the source has and that are asked for.
Sought ==
  {p \in Paths : /\ world[Left][p].kind = "file" /\ Selects(Targets, p)
                 /\ (p \in Filtered => p \in Named)}

BudgetOK ==
  /\ budget = [moves |-> budget.moves, failures |-> budget.failures]
  /\ budget.moves \in Nat /\ budget.moves <= MaxMoves

\* What the source had is of the paths.
HadIn == had.scan \subseteq Paths /\ \A i \in DOMAIN had.of : had.of[i] \subseteq Paths

\* What the steps of any command keep.
Grounds == Places /\ Trees /\ CacheShape /\ SourceKnown /\ BudgetOK /\ HadIn

\* The plans and what became of them.
Fine(i) == stops[Rights[i]] = "no"
PlansMade ==
  \A i \in DOMAIN plans :
    IF plans[i].failed THEN Syncing
    ELSE plans[i].plan = MergePlan(plans[i].compared, Targets, ReadsOptions)

Finished(i) ==
  /\ ~plans[i].failed /\ Fine(i) /\ FailedPaths(i) = {} /\ MismatchesIn(plans[i].plan) = {}
  /\ ChangesOf(i) \subseteq DOMAIN results[i]
OutcomesOK ==
  /\ pc = "confirm" => right = 1
  /\ results # <<>> =>
    /\ Len(plans) = Len(Rights) /\ DOMAIN results = DOMAIN plans
    /\ \A i \in DOMAIN results : \A p \in DOMAIN results[i] :
         results[i][p] \in {"failed", "changedFailed", IF opts.dryRun THEN "planned" ELSE "done"}
    /\ pc = "apply" => \A i \in 1 .. right - 1 : ChangesOf(i) \subseteq DOMAIN results[i]
    /\ pc = "ended" /\ exit = 0 => \A i \in DOMAIN Rights : Finished(i)

\* A side that answers fails for a path alone.
SoundAnswer(a) == a.ok \/ a.failure \in OfPathOnly
AllSound(of) == \A p \in DOMAIN of : SoundAnswer(of[p])
AnswersOK ==
  /\ \A r \in DOMAIN answers : AllSound(answers[r])
  /\ AllSound(cache.hashes) /\ AllSound(cache.contents)

\* The listings, while nobody changes the source.
RolesListed ==
  /\ pc = "list" /\ role > 1 => "left" \in DOMAIN listings
  /\ pc = "list" /\ role > 2 => "right" \in DOMAIN listings
  /\ pc = "collected" => role = 1 /\ {"left", "right"} \subseteq DOMAIN listings
  /\ pc \in Comparison => \A r \in DOMAIN listings : listings[r].truncated \/ listings[r].cycle => r \in incomplete

ShowsSource(listing, shown) ==
  /\ \A p \in DOMAIN listing.entries : listing.entries[p] = OfEntry(world[Left][p])
  /\ ~listing.truncated => shown \subseteq DOMAIN listing.entries
SourceShown ==
  Quiet =>
    /\ pc \in Comparison /\ "left" \in DOMAIN listings =>
         ShowsSource(listings["left"], {p \in There(Left) : Shown(p)})
    /\ Syncing /\ cache.listing # <<>> =>
         ShowsSource(cache.listing, {p \in There(Left) : InScan(p)})

\* The answers, while hashes are asked for.
RolesAnswered ==
  /\ pc \in {"connect", "list", "collected"} \/ (pc = "hash" /\ role = 1) => answers = <<>>
  /\ pc = "hash" /\ role = 2 => "right" \notin DOMAIN answers

\* The hashes, while the destination answers.
Answered(r) == r \in DOMAIN answers /\ ToHash(r) \subseteq DOMAIN answers[r]
HashesAnswered ==
  (Fine(right) /\ pc \in Comparison) =>
    /\ lost = NoneLost
    /\ pc = "judge" \/ (pc = "hash" /\ role > 1) => Answered("left")
    /\ pc = "judge" \/ (pc = "hash" /\ role > 2) => Answered("right")

\* What is found of the files that are sought.
Whole == Quiet /\ incomplete = {} /\ Fine(right)
TableFound ==
  Whole /\ pc \in {"hash", "judge", "read", "settle"} =>
    \A p \in Sought : /\ Shown(p) => p \in DOMAIN table
                      /\ p \in DOMAIN table => JudgedFile(table[p].states, table[p].judged)
HashedFound ==
  Whole /\ pc \in {"read", "settle"} =>
    \A p \in Sought \cap DOMAIN table : SettledFile(table[p].states, hashed[p].verdicts)
FoundIn(c) == \A p \in Sought \cap DOMAIN c : SettledFile(c[p].states, c[p].verdicts)
ComparedFound ==
  Whole /\ pc \in Comparison =>
    /\ FoundIn(compared)
    /\ names # {} => Sought \subseteq names \cup DOMAIN compared
    /\ pc = "plan" => Sought \subseteq DOMAIN compared
PlansFound ==
  \A i \in DOMAIN plans :
    Quiet /\ Fine(i) /\ ~plans[i].failed =>
      FoundIn(plans[i].compared) /\ Sought \subseteq DOMAIN plans[i].compared

\* The directory of a path is on the way to it.
LEMMA ParentIsOnTheWay ==
  ASSUME NEW n \in Paths, n # <<>>, ParentOf(n) # <<>>
  PROVE  ParentOf(n) \in Ancestors(n)
<1>1. n \in Seq({n[i] : i \in DOMAIN n})
  BY PathsClosed
<1>2. Len(n) \in Nat /\ Len(n) # 0
  BY <1>1, EmptySeq
<1>3. Len(n) # 1
  <2> SUFFICES ASSUME Len(n) = 1 PROVE FALSE
    OBVIOUS
  <2>1. SubSeq(n, 1, 1 - 1) = <<>>
    BY <1>1
  <2>2. ParentOf(n) = SubSeq(n, 1, 1 - 1)
    BY DEF ParentOf
  <2> QED BY <2>1, <2>2
<1>4. Len(n) - 1 \in 1 .. Len(n) - 1
  BY <1>2, <1>3
<1> QED BY <1>4 DEF ParentOf, Ancestors

\* What is asked for, and is not filtered, is in the directories that are scanned.
LEMMA SelectedIsScanned ==
  ASSUME Plain, opts.paths # {}, NEW p \in Paths, Selects(Targets, p), p \notin Filtered
  PROVE  InScan(p)
<1> DEFINE paths == opts.paths
           typed == {t.name : t \in paths}
           slashed == {t \in paths : t.slash}
           below == {IF slashed = paths THEN t.name ELSE ParentOf(t.name) : t \in paths}
<1>1. Dirs = Targets.below /\ Merging
  BY DEF Dirs, Merging, Plain
<1>2. SUFFICES \E d \in Targets.below : d = <<>> \/ p = d \/ d \in Ancestors(p)
  BY <1>1 DEF InScan, Below
<1>3. \/ Targets.below = {<<>>}
      \/ /\ Targets = [named |-> typed, below |-> below] /\ <<>> \notin typed /\ <<>> \notin below
  BY DEF Targets, MergeTargets
<1>4. CASE Targets.below = {<<>>}
  BY <1>4
<1>5. CASE Targets = [named |-> typed, below |-> below] /\ <<>> \notin typed /\ <<>> \notin below
  <2>1. Targets.named = typed /\ Targets.below = below /\ typed # {}
    BY <1>5
  <2>2. PICK n \in typed : n = p \/ n \in Ancestors(p)
    BY <2>1 DEF Selects
  <2>3. PICK t \in paths : t.name = n
    BY <2>2
  <2>4. CASE slashed = paths
    <3>1. n \in below
      BY <2>3, <2>4
    <3> QED BY <2>1, <2>2, <3>1
  <2>5. CASE slashed # paths
    <3>1. ParentOf(n) \in below
      BY <2>3, <2>5
    <3>2. n \in Paths /\ Ancestors(n) \subseteq Ancestors(p)
      BY <2>2, AncestorsAreShorter
    <3>3. n # <<>> /\ ParentOf(n) # <<>>
      BY <1>5, <2>2, <3>1
    <3>4. ParentOf(n) \in Ancestors(n)
      BY <3>2, <3>3, ParentIsOnTheWay
    <3> QED BY <2>1, <3>1, <3>2, <3>4
  <2> QED BY <2>4, <2>5
<1> QED BY <1>3, <1>4, <1>5

\* The kinds of verdicts are told apart by their names.
LEMMA VerdictsDiffer ==
  /\ \A x : V(x).v = x
  /\ ByContent = V("byContent") /\ ByContent # NotFollowed
  /\ \A w, of : Undecidable(w, of).v = "undecidable"
BY DEF V, ByContent, NotFollowed, Undecidable

\* What is judged of a file and of what is in its place.
LEMMA FileIsJudged ==
  ASSUME NEW a, NEW b, NEW method, a.kind = "file", b.kind \in Kinds
  PROVE  \/ FileVerdict(JudgeStates(LeftRight, a, b, method))
         \/ JudgeStates(LeftRight, a, b, method) = ByContent /\ b.kind = "file"
<1> DEFINE j == JudgeStates(LeftRight, a, b, method)
<1>1. CASE b.kind \in {"unreadable", "other"}
  <2>1. j.v = "undecidable"
    BY <1>1, VerdictsDiffer DEF JudgeStates
  <2> QED BY <2>1 DEF FileVerdict
<1>2. CASE b.kind \notin {"unreadable", "other"} /\ Unfollowable(b)
  <2>1. j.v = "undecidable"
    BY <1>2, VerdictsDiffer DEF JudgeStates
  <2> QED BY <2>1 DEF FileVerdict
<1>3. CASE b.kind \notin {"unreadable", "other"} /\ ~Unfollowable(b)
  <2>1. ~Unfollowable(a)
    BY DEF Unfollowable
  <2>2. j = IF b.kind = "absent" THEN V("onlyFirst")
            ELSE IF a.kind # b.kind THEN V("kindDiffers") ELSE JudgeFiles(a, b, method)
    BY <1>3, <2>1 DEF JudgeStates
  <2>3. JudgeFiles(a, b, method) \in {V("same"), V("differs"), ByContent}
    BY DEF JudgeFiles
  <2> QED BY <2>2, <2>3 DEF FileVerdict
<1> QED BY <1>1, <1>2, <1>3

\* Where sides fail for paths alone, nothing stops a verdict.
LEMMA ReadsOfPathsAlone ==
  ASSUME NEW failures, \A f \in failures : f[2] \in OfPathOnly
  PROVE  ReadOutcome(failures) = V("read") \/ ReadOutcome(failures).v = "undecidable"
<1>1. \A f \in failures : FailureHandling(f[2]) = "undecidable"
  BY DEF FailureHandling, OfPathOnly
<1> QED BY <1>1, VerdictsDiffer DEF ReadOutcome, ReadFailed

\* So it is with the answers of some roles.
LEMMA SoundFailures ==
  ASSUME NEW of, AllSound(of), NEW roles
  PROVE  \A f \in FailuresOf(of, roles) : f[2] \in OfPathOnly
BY DEF FailuresOf, AllSound, SoundAnswer

\* Two hashes decide a verdict, or cannot be read.
LEMMA HashesFound ==
  ASSUME NEW hashes, AllSound(hashes), {"left", "right"} \subseteq DOMAIN hashes
  PROVE  FileVerdict(JudgeHashes(LeftRight, hashes))
<1> DEFINE missing == {<<r, NoAnswer.failure>> : r \in {LeftRight[1], LeftRight[2]} \ DOMAIN hashes}
           failures == FailuresOf(hashes, {LeftRight[1], LeftRight[2]})
           read == ReadOutcome(missing \cup failures)
<1>1. LeftRight[1] = "left" /\ LeftRight[2] = "right"
  BY DEF LeftRight
<1>2. missing = {}
  BY <1>1
<1>3. \A f \in missing \cup failures : f[2] \in OfPathOnly
  <2> HIDE DEF missing
  <2> QED BY <1>2, SoundFailures
<1>4. read = V("read") \/ read.v = "undecidable"
  <2> HIDE DEF missing, failures
  <2> QED BY <1>3, ReadsOfPathsAlone
<1>5. JudgeHashes(LeftRight, hashes) =
        IF read.v = "read" THEN SameOrDiffers(hashes[LeftRight[1]].body = hashes[LeftRight[2]].body)
        ELSE read
  BY DEF JudgeHashes
<1>6. \A same \in BOOLEAN : SameOrDiffers(same) \in {V("same"), V("differs")}
  BY DEF SameOrDiffers
<1> HIDE DEF read
<1> QED BY <1>4, <1>5, <1>6, VerdictsDiffer DEF FileVerdict

\* The verdict on a file once the hashes are there.
LEMMA FileIsSettled ==
  ASSUME NEW states, NEW judged, NEW hashes, AllSound(hashes), JudgedFile(states, judged),
         judged[LeftRight].verdict = ByContent => {"left", "right"} \subseteq DOMAIN hashes
  PROVE  SettledFile(states, SettlePairs(judged, hashes, NoneLost))
<1> DEFINE j == judged[LeftRight]
           link == Settled(j.verdict, LeftRight, hashes)
           followed == Settled(j.followed, LeftRight, hashes)
<1>1. StateOf(states, "left").kind = "file" /\ LeftRight \in DOMAIN judged /\ followed = NotFollowed
  BY VerdictsDiffer DEF JudgedFile, Settled
<1>2. FileVerdict(link)
  <2>1. CASE j.verdict = ByContent
    BY <2>1, HashesFound DEF Settled
  <2>2. CASE j.verdict # ByContent
    BY <2>2 DEF JudgedFile, Settled
  <2> QED BY <2>1, <2>2
<1>3. SettlePair(LeftRight, j, hashes) = link
  <2>1. SettlePair(LeftRight, j, hashes) = IF followed.v = "stopped" /\ link.v # "stopped" THEN followed
                                           ELSE CombineLinkPair(link, followed)
    BY DEF SettlePair
  <2>2. followed.v # "stopped"
    BY <1>1, VerdictsDiffer DEF NotFollowed
  <2> HIDE DEF link, followed
  <2> QED BY <1>1, <2>1, <2>2 DEF CombineLinkPair
<1>4. /\ DOMAIN SettlePairs(judged, hashes, NoneLost) = DOMAIN judged
      /\ SettlePairs(judged, hashes, NoneLost)[LeftRight] = SettlePair(LeftRight, judged[LeftRight], hashes)
  BY <1>1 DEF SettlePairs, LosePairs
<1> HIDE DEF link, followed
<1> QED BY <1>1, <1>2, <1>3, <1>4 DEF SettledFile

\* The contents that are read, or not, leave a verdict on a file.
LEMMA FileIsRead ==
  ASSUME NEW states, NEW verdicts, NEW contents, AllSound(contents), SettledFile(states, verdicts)
  PROVE  SettledFile(states, ApplyReads(verdicts, contents))
<1> DEFINE failures == FailuresOf(contents, {LeftRight[1], LeftRight[2]})
           read == ReadOutcome(failures)
<1>1. read = V("read") \/ read.v = "undecidable"
  <2>1. \A f \in failures : f[2] \in OfPathOnly
    BY SoundFailures
  <2> HIDE DEF failures
  <2> QED BY <2>1, ReadsOfPathsAlone
<1>2. /\ DOMAIN ApplyReads(verdicts, contents) = DOMAIN verdicts
      /\ ApplyReads(verdicts, contents)[LeftRight] =
           IF read.v = "stopped" \/ (read.v = "undecidable" /\ verdicts[LeftRight].v # "undecidable")
           THEN read ELSE verdicts[LeftRight]
  BY DEF ApplyReads, SettledFile
<1> HIDE DEF read
<1> QED BY <1>1, <1>2, VerdictsDiffer DEF SettledFile, FileVerdict

(***************************************************************************)
(* What is planned for a file.                                             *)
(***************************************************************************)
\* The entries are told apart by their names.
LEMMA EntriesAreNamed ==
  /\ \A x, y : Entry(x) = Entry(y) => x = y
  /\ \A x, y : Entry(x) # Skip(y) /\ Entry(x) # Fail(y) /\ Skip(x) # Fail(y)
  /\ \A x : Entry(x).e = x /\ Fail(x).e = "fail" /\ Skip(x).e = "skip"
<1>1. \A x, r : DOMAIN Entry(x) = {"e"} /\ DOMAIN Skip(r) = {"e", "reason"} /\ DOMAIN Fail(r) = {"e", "why"}
  BY DEF Entry, Skip, Fail
<1>2. \A x, y : Entry(x) = Entry(y) => x = y
  BY DEF Entry
<1>3. \A x : Entry(x).e = x /\ Fail(x).e = "fail" /\ Skip(x).e = "skip"
  BY DEF Entry, Skip, Fail
<1>4. {"e"} # {"e", "reason"} /\ {"e"} # {"e", "why"} /\ {"e", "reason"} # {"e", "why"}
  OBVIOUS
<1> QED BY <1>1, <1>2, <1>3, <1>4

\* A path that is refused is said to be.
Refused(entry) == entry = KindMismatch \/ \E why : entry = Fail(why)

\* A file is written, unless it is the same or refused.
LEMMA EntryOfFile ==
  ASSUME NEW c, NEW delete, SettledFile(c.states, c.verdicts)
  PROVE  \/ VerdictOn(c, LeftRight) = V("same")
         \/ MergeEntry(c, delete) = Entry("writeFile") \/ Refused(MergeEntry(c, delete))
<1> DEFINE source == StateIn(c, "left")
           verdict == VerdictOn(c, LeftRight)
<1>1. source.kind = "file" /\ FileVerdict(verdict)
  BY DEF SettledFile, VerdictOn, StateIn
<1>2. CASE verdict = V("same")
  BY <1>2
<1>3. CASE verdict.v = "undecidable"
  <2>1. MergeEntry(c, delete) = Fail(verdict.why)
    BY <1>3 DEF MergeEntry
  <2> QED BY <2>1 DEF Refused
<1>4. CASE verdict \in {V("differs"), V("onlyFirst")}
  <2>1. verdict.v \in {"differs", "onlyFirst"}
    BY <1>4, VerdictsDiffer
  <2>2. MergeEntry(c, delete) = Written(source)
    BY <2>1 DEF MergeEntry
  <2>3. Written(source) = Entry("writeFile")
    BY <1>1 DEF Written
  <2> QED BY <2>2, <2>3
<1>5. CASE verdict = V("kindDiffers")
  <2>1. verdict.v = "kindDiffers" /\ source.kind # "dir" /\ ~LinkToDirectory(source)
    BY <1>1, <1>5, VerdictsDiffer DEF LinkToDirectory
  <2>2. MergeEntry(c, delete) = KindMismatch
    BY <2>1 DEF MergeEntry
  <2> QED BY <2>2 DEF Refused
<1> QED BY <1>1, <1>2, <1>3, <1>4, <1>5 DEF FileVerdict

\* What is known besides can only refuse it.
LEMMA EntryIsChecked ==
  ASSUME NEW entry, NEW c
  PROVE  /\ WithReadFailure(entry, c) = entry \/ Refused(WithReadFailure(entry, c))
         /\ WithLinkText(entry, c) = entry \/ Refused(WithLinkText(entry, c))
         /\ WithReference(entry, c) = entry \/ Refused(WithReference(entry, c))
BY DEF WithReadFailure, WithLinkText, WithReference, Refused

\* Of the paths that are skipped for their kinds, one is below no other.
LEMMA SkippedStays ==
  ASSUME NEW entries, NEW p \in Paths,
         NEW q0 \in Ancestors(p) \cap DOMAIN entries, entries[q0] = KindMismatch
  PROVE  \E q \in DOMAIN WithoutSkippedSubtrees(entries) :
           WithoutSkippedSubtrees(entries)[q] = KindMismatch
<1> DEFINE Q == {q \in Ancestors(p) \cap DOMAIN entries : entries[q] = KindMismatch}
           T == {Len(q) : q \in Q}
<1>1. ASSUME NEW q \in Ancestors(p)
      PROVE  q \in Paths /\ Len(q) \in Nat /\ \A r \in Ancestors(q) : r \in Ancestors(p) /\ Len(r) < Len(q)
  <2>1. q \in Paths /\ Ancestors(q) \subseteq Ancestors(p)
    BY <1>1, AncestorsAreShorter
  <2>2. q \in Seq({q[i] : i \in DOMAIN q})
    BY <2>1, PathsClosed
  <2>3. ASSUME NEW r \in Ancestors(q) PROVE Len(r) < Len(q)
    <3>1. PICK n \in 1 .. Len(q) - 1 : r = SubSeq(q, 1, n)
      BY <2>3 DEF Ancestors
    <3>2. Len(r) = n
      BY <2>2, <3>1
    <3> QED BY <2>2, <3>1, <3>2
  <2> QED BY <2>1, <2>2, <2>3
<1>2. T \subseteq Nat /\ T # {}
  BY <1>1
<1>3. PICK n \in T : \A m \in T : ~(<<m, n>> \in OpToRel(<, Nat))
  <2> HIDE DEF T
  <2> QED BY <1>2, NatLessThanWellFounded, WFMin, Zenon
<1>4. \A m \in T : ~(m < n)
  BY <1>2, <1>3, Zenon DEF OpToRel
<1>5. PICK q \in Q : Len(q) = n
  OBVIOUS
<1>6. \A r \in Ancestors(q) \cap DOMAIN entries : entries[r] # KindMismatch
  BY <1>1, <1>4, <1>5
<1>7. q \in DOMAIN WithoutSkippedSubtrees(entries) /\ WithoutSkippedSubtrees(entries)[q] = entries[q]
  BY <1>5, <1>6 DEF WithoutSkippedSubtrees
<1> QED BY <1>5, <1>7

\* A file that is asked for is the same, or planned, or said to be refused.
LEMMA FileIsPlanned ==
  ASSUME NEW cs, NEW targets, NEW options, NEW p \in DOMAIN cs, p \in Paths,
         SettledFile(cs[p].states, cs[p].verdicts), Selects(targets, p)
  PROVE  LET plan == MergePlan(cs, targets, options)
         IN  \/ VerdictOn(cs[p], LeftRight) = V("same")
             \/ MismatchesIn(plan) # {}
             \/ p \in DOMAIN plan /\ (plan[p] = Entry("writeFile") \/ \E why : plan[p] = Fail(why))
<1> DEFINE missing == NamesMissing(cs, targets, options)
           above == UNION {Ancestors(q) : q \in targets.named \ missing}
           plain(q) == MergeEntry(cs[q], options.delete)
           overDirectory(q) ==
             /\ plain(q) = KindMismatch
             /\ \/ StateIn(cs[q], "right").kind = "dir"
                \/ LinkToDirectory(StateIn(cs[q], "right"))
           considered(q) == \/ Selects(targets, q)
                            \/ <<>> \in targets.below /\ q \in above /\ overDirectory(q)
           read(q) == WithLinkText(WithReadFailure(plain(q), cs[q]), cs[q])
           checked(q) == IF options.check THEN WithReference(read(q), cs[q]) ELSE read(q)
           kept == {q \in DOMAIN cs \ missing :
                      considered(q) /\ read(q) \notin {Entry("absent"), Entry("nothing")}}
           all == [q \in kept |-> checked(q)]
           entries == WithoutSkippedSubtrees(all)
           plan == MergePlan(cs, targets, options)
<1>1. plan = [q \in DOMAIN entries \cup missing |->
                IF q \in missing THEN Entry("notFound") ELSE entries[q]]
  BY DEF MergePlan
<1>2. SUFFICES ASSUME VerdictOn(cs[p], LeftRight) # V("same"), MismatchesIn(plan) = {}
               PROVE  p \in DOMAIN plan /\ (plan[p] = Entry("writeFile") \/ \E why : plan[p] = Fail(why))
  OBVIOUS
<1>3. plain(p) = Entry("writeFile") \/ Refused(plain(p))
  BY <1>2, EntryOfFile
<1>4. p \notin missing
  <2>1. plain(p) # Entry("absent")
    BY <1>3, EntriesAreNamed DEF Refused, KindMismatch
  <2> QED BY <2>1 DEF NamesMissing
<1>5. read(p) = Entry("writeFile") \/ Refused(read(p))
  <2> HIDE DEF plain
  <2> QED BY <1>3, EntryIsChecked
<1>6. checked(p) = Entry("writeFile") \/ Refused(checked(p))
  <2> HIDE DEF read
  <2> QED BY <1>5, EntryIsChecked
<1>7. p \in kept
  <2>1. read(p) \notin {Entry("absent"), Entry("nothing")}
    <3> HIDE DEF read
    <3> QED BY <1>5, EntriesAreNamed DEF Refused, KindMismatch
  <2> QED BY <1>4, <2>1
<1>8. kept \cap missing = {} /\ DOMAIN all = kept /\ all[p] = checked(p)
  BY <1>7
<1>9. DOMAIN entries \subseteq kept
  BY <1>8 DEF WithoutSkippedSubtrees
<1>10. \A q \in DOMAIN entries : q \in DOMAIN plan /\ plan[q] = entries[q]
  <2> HIDE DEF entries, kept, missing, plan
  <2> QED BY <1>1, <1>8, <1>9
<1> HIDE DEF plan, all, missing, kept, checked
<1>11. \A q \in DOMAIN plan : plan[q] # KindMismatch
  BY <1>2 DEF MismatchesIn, Planned
<1>12. \A q \in Ancestors(p) \cap DOMAIN all : all[q] # KindMismatch
  BY <1>10, <1>11, SkippedStays
<1>13. p \in DOMAIN entries /\ entries[p] = all[p]
  BY <1>7, <1>8, <1>12 DEF WithoutSkippedSubtrees
<1>14. plan[p] = checked(p) /\ p \in DOMAIN plan
  BY <1>8, <1>10, <1>13
<1> QED BY <1>6, <1>11, <1>14 DEF Refused

(***************************************************************************)
(* The steps of a merge.                                                   *)
(***************************************************************************)
\* The options of a command stay.
LEMMA OptsStay == ASSUME [Next]_vars PROVE opts' = opts
BY DEF Next, CommandStep, vars, Connect, ConnectFails, List, Facts, ListFails, Collect, Ask, AskFails,
       Judge, Settle, ListCompared, PlanMerge, PlanHunks, Confirm, Change, Report, OthersStep, Done,
       ErrorInComparison

\* So does all that is made of them.
LEMMA AskedForStays ==
  ASSUME opts' = opts
  PROVE  /\ Plain' = Plain /\ Syncing' = Syncing /\ Targets' = Targets /\ Named' = Named
         /\ ReadsOptions' = ReadsOptions /\ Rights' = Rights /\ RoleSeq' = RoleSeq /\ Merging' = Merging
BY DEF Plain, Syncing, Targets, Named, ReadsOptions, Rights, RoleSeq, WithRef, Merging

\* A side that stopped does not come back.
LEMMA StopsStay ==
  ASSUME Places, [Next]_vars, NEW i \in DOMAIN Rights, Fine(i)'
  PROVE  Fine(i)
<1>1. opts' = opts /\ Rights[i] \in Sides /\ DOMAIN stops = Sides
  BY OptsStay DEF Places, OptionsOK, PhasesOK
<1>2. \/ stops' = stops
      \/ \E side, how : stops[side] = "no" /\ stops' = [stops EXCEPT ![side] = how]
  <2>1. CASE Connect \/ ConnectFails \/ List \/ Facts \/ Collect \/ Ask \/ Judge \/ Settle
    BY <2>1 DEF Connect, ConnectFails, List, Facts, Collect, Ask, Judge, Settle
  <2>2. CASE ListFails
    BY <2>2 DEF ListFails, ErrorInComparison, NoAnswerFrom
  <2>3. CASE AskFails
    <3>1. \A stopsNow :
            (IF Asked = "right" /\ Merging /\ stopsNow[SideOf(Asked)] = "lost"
             THEN /\ lost' = <<"right", "disconnected", WantedOf("right")>>
                  /\ NextRole
                  /\ stops' = stopsNow
                  /\ UNCHANGED <<world, opts, right, names, listings, outside, table, answers, hashed,
                                 compared, incomplete, cache, plans, results, exit, had>>
             ELSE ErrorInComparison(stopsNow)) => stops' = stopsNow
      BY DEF ErrorInComparison
    <3> QED BY <2>3, <3>1 DEF AskFails, NoAnswerFrom
  <2>4. CASE ListCompared \/ PlanMerge \/ PlanHunks \/ Confirm \/ Report
    BY <2>4 DEF ListCompared, PlanMerge, PlanHunks, Confirm, Report
  <2>5. CASE Change
    BY <2>5 DEF Change, NoAnswerFrom
  <2>6. CASE OthersStep \/ Done \/ UNCHANGED vars
    BY <2>6 DEF OthersStep, Done, vars
  <2> QED BY <2>1, <2>2, <2>3, <2>4, <2>5, <2>6 DEF Next, CommandStep
<1> QED BY <1>1, <1>2 DEF Fine, Rights

MergePlanned == [failed |-> FALSE, compared |-> compared,
                 plan |-> MergePlan(compared, Targets, ReadsOptions)]

\* The comparison of a right side comes to an end.
Turns ==
  /\ pc \in Comparison /\ UNCHANGED <<opts, results>>
  /\ cache'.hashes = cache.hashes /\ cache'.contents = cache.contents
  /\ \/ NextRight(FailedTarget) /\ Syncing
     \/ NextRight(MergePlanned) /\ pc = "plan" /\ incomplete = {}
     \/ EndWith(2) /\ UNCHANGED <<right, asking, compared, incomplete, plans>>

\* A listing is added to those of the roles before.
Lists(listing) ==
  /\ pc = "list"
  /\ cache'.hashes = cache.hashes /\ cache'.contents = cache.contents
  /\ listings' = Extended(listings, Only(Asked, listing))
  /\ outside' = Extended(outside, Only(Asked, {}))
  /\ incomplete' = incomplete \cup (IF listing.truncated \/ listing.cycle THEN {Asked} ELSE {})
  /\ IF role = Len(RoleSeq) THEN pc' = "collected" /\ role' = 1
     ELSE role' = role + 1 /\ UNCHANGED pc
  /\ UNCHANGED <<world, budget, stops, opts, right, names, table, answers, lost, hashed, compared,
                 plans, results, exit>>

\* The destination is lost with a batch.
Loses ==
  /\ pc \in {"hash", "read"} /\ Asked = "right" /\ NextRole /\ stops'[Rights[right]] # "no"
  /\ UNCHANGED <<opts, right, names, listings, outside, table, answers, hashed, compared, incomplete,
                 cache, plans, results, exit>>

\* What others do, or the way to a listing.
Idles ==
  /\ pc' = pc \/ (pc = "connect" /\ pc' = "list")
  /\ UNCHANGED <<stops, opts, right, asking, compared, incomplete, cache, plans, results, exit>>

\* A comparison that fails comes to an end.
LEMMA ErrorTurns ==
  ASSUME pc \in Comparison, NEW stopsNow, ErrorInComparison(stopsNow)
  PROVE  Turns
BY DEF ErrorInComparison, FailComparison, Turns, Syncing

\* The steps of a merge, as far as they bear on what it finds.
LEMMA MergeSteps ==
  ASSUME Places, CacheShape, SourceKnown, Plain, [Next]_vars
  PROVE  \/ Idles \/ Turns \/ (List /\ \E listing : Lists(listing)) \/ Collect \/ Ask \/ Loses
         \/ Judge \/ Settle \/ Confirm \/ Change \/ Report
<1> USE DEF asking
<1>1. CASE OthersStep \/ Done \/ UNCHANGED vars \/ Connect
  BY <1>1 DEF OthersStep, Done, vars, Connect, Idles
<1>2. CASE ConnectFails
  <2>1. pc \in Comparison /\ UNCHANGED <<opts, results, cache>>
    BY <1>2 DEF ConnectFails, Comparison
  <2>2. \/ NextRight(FailedTarget) /\ Syncing
        \/ EndWith(2) /\ UNCHANGED <<right, asking, compared, incomplete, plans>>
    BY <1>2 DEF ConnectFails, Syncing
  <2> QED BY <2>1, <2>2 DEF Turns
<1>3. CASE List
  <2>1. PICK listing : AfterListing(listing)
    BY <1>3 DEF List
  <2>2. /\ pc = "list" /\ UNCHANGED <<world, budget, stops, opts, results>>
        /\ cache' = cache \/ \E l : cache' = [cache EXCEPT !.listing = l]
    BY <1>3 DEF List
  <2>3. cache'.hashes = cache.hashes /\ cache'.contents = cache.contents
    BY <2>2 DEF CacheShape
  <2>4. CASE Merging /\ HasUnfollowable(listing)
    <3>1. FailComparison(stops)
      BY <2>1, <2>4 DEF AfterListing
    <3> QED BY <2>2, <2>3, <3>1 DEF FailComparison, Turns, Syncing, Comparison
  <2>5. CASE ~(Merging /\ HasUnfollowable(listing))
    <3>1. ~StopsAtLinks
      BY DEF StopsAtLinks, Plain
    <3>2. Lists(listing)
      BY <2>1, <2>2, <2>3, <2>5, <3>1 DEF AfterListing, Lists
    <3> QED BY <1>3, <3>2
  <2> QED BY <2>4, <2>5
<1>4. CASE Facts
  <2>1. Merging /\ pc = "facts"
    BY <1>4 DEF Facts, Plain, Merging
  <2> QED BY <2>1 DEF SourceKnown, MergeKnown, ListedWhole, Comparison
<1>5. CASE ListFails
  <2>1. pc \in Comparison /\ \E stopsNow : ErrorInComparison(stopsNow)
    BY <1>5 DEF ListFails, Comparison
  <2> QED BY <2>1, ErrorTurns
<1>6. CASE AskFails
  <2>1. pc \in {"hash", "read"} /\ pc \in Comparison
    BY <1>6 DEF AskFails, Comparison
  <2>2. PICK stopsNow :
          IF Asked = "right" /\ Merging /\ stopsNow[SideOf(Asked)] = "lost"
          THEN /\ lost' = <<"right", "disconnected", WantedOf("right")>>
               /\ NextRole
               /\ stops' = stopsNow
               /\ UNCHANGED <<world, opts, right, names, listings, outside, table, answers, hashed,
                              compared, incomplete, cache, plans, results, exit, had>>
          ELSE ErrorInComparison(stopsNow)
    BY <1>6 DEF AskFails
  <2>3. CASE ErrorInComparison(stopsNow)
    BY <2>1, <2>3, ErrorTurns
  <2>4. CASE ~ErrorInComparison(stopsNow)
    <3>1. /\ Asked = "right" /\ stopsNow[SideOf(Asked)] = "lost" /\ NextRole /\ stops' = stopsNow
          /\ UNCHANGED <<opts, right, names, listings, outside, table, answers, hashed, compared,
                         incomplete, cache, plans, results, exit>>
      BY <2>2, <2>4
    <3>2. SideOf(Asked) = Rights[right]
      BY <3>1, SideFacts DEF Places
    <3> QED BY <2>1, <3>1, <3>2 DEF Loses
  <2> QED BY <2>3, <2>4
<1>7. CASE PlanMerge
  <2>1. /\ pc = "plan" /\ UNCHANGED <<opts, results, cache>>
        /\ \/ EndWith(2) /\ UNCHANGED <<right, asking, compared, incomplete, plans>>
           \/ NextRight(IF incomplete = {} THEN MergePlanned ELSE FailedTarget)
              /\ (opts.command = "merge" => incomplete = {})
    BY <1>7 DEF PlanMerge, MergePlanned
  <2> QED BY <2>1 DEF Turns, Comparison, Plain, Syncing
<1>8. ~ListCompared /\ ~PlanHunks
  BY DEF ListCompared, PlanHunks, Plain
<1> QED BY <1>1, <1>2, <1>3, <1>4, <1>5, <1>6, <1>7, <1>8 DEF Next, CommandStep

\* While others may still move as often as at the beginning, nobody touched the source.
LEMMA BudgetInit == ASSUME Init PROVE BudgetOK
BY MovesAreCounted DEF Init, BudgetOK

\* Others may move no more often than before.
LEMMA BudgetStep == ASSUME BudgetOK, [Next]_vars PROVE BudgetOK'
<1>1. CASE budget' = budget \/ budget' = [budget EXCEPT !.failures = @ - 1]
  BY <1>1 DEF BudgetOK
<1>2. CASE budget.moves > 0 /\ budget' = [budget EXCEPT !.moves = @ - 1]
  BY <1>2, MovesAreCounted DEF BudgetOK
<1>3. CASE Connect \/ ConnectFails \/ List \/ Facts \/ Collect \/ Ask \/ Judge \/ Settle
  BY <1>1, <1>3 DEF Connect, ConnectFails, List, Facts, Collect, Ask, Judge, Settle
<1>4. CASE ListFails \/ AskFails
  BY <1>1, <1>4 DEF ListFails, AskFails, NoAnswerFrom
<1>5. CASE ListCompared \/ PlanMerge \/ PlanHunks \/ Confirm \/ Report
  BY <1>1, <1>5 DEF ListCompared, PlanMerge, PlanHunks, Confirm, Report
<1>6. CASE Change
  BY <1>1, <1>6 DEF Change, NoAnswerFrom
<1>7. CASE OthersStep
  BY <1>2, <1>7 DEF OthersStep
<1>8. CASE Done \/ UNCHANGED vars
  BY <1>1, <1>8 DEF Done, vars
<1> QED BY <1>3, <1>4, <1>5, <1>6, <1>7, <1>8 DEF Next, CommandStep

\* While they moved not once, a command leaves its source as it was.
LEMMA QuietStep ==
  ASSUME BudgetOK, BudgetOK', Places, PlansKnown, Trees, [Next]_vars, Quiet'
  PROVE  Quiet /\ world'[Left] = world[Left]
<1>1. ~OthersStep
  <2> SUFFICES ASSUME OthersStep PROVE FALSE
    OBVIOUS
  <2>1. budget' = [budget EXCEPT !.moves = @ - 1]
    BY DEF OthersStep
  <2>2. budget'.moves = budget.moves - 1
    BY <2>1 DEF BudgetOK
  <2> QED BY <2>2, MovesAreCounted DEF Quiet, BudgetOK
<1>2. Quiet
  <2>1. budget'.moves = budget.moves
    <3>1. CASE budget' = budget \/ budget' = [budget EXCEPT !.failures = @ - 1]
      BY <3>1 DEF BudgetOK
    <3>2. CASE Connect \/ ConnectFails \/ List \/ Facts \/ Collect \/ Ask \/ Judge \/ Settle
      BY <3>1, <3>2 DEF Connect, ConnectFails, List, Facts, Collect, Ask, Judge, Settle
    <3>3. CASE ListFails \/ AskFails
      BY <3>1, <3>3 DEF ListFails, AskFails, NoAnswerFrom
    <3>4. CASE ListCompared \/ PlanMerge \/ PlanHunks \/ Confirm \/ Report
      BY <3>1, <3>4 DEF ListCompared, PlanMerge, PlanHunks, Confirm, Report
    <3>5. CASE Change
      BY <3>1, <3>5 DEF Change, NoAnswerFrom
    <3>6. CASE Done \/ UNCHANGED vars
      BY <3>1, <3>6 DEF Done, vars
    <3> QED BY <1>1, <3>2, <3>3, <3>4, <3>5, <3>6 DEF Next, CommandStep
  <2> QED BY <2>1 DEF Quiet
<1>3. world'[Left] = world[Left]
  <2>1. CASE world' = world
    BY <2>1
  <2>2. ASSUME NEW p, Applies(p) PROVE world'[Left] = world[Left]
    <3>1. Rights[right] # Left /\ Left \in Sides /\ DOMAIN world = Sides
      BY SideFacts, StartsAreProper DEF Places, Trees
    <3> DEFINE side == Rights[right]
    <3>2. world' = Put(side, p, NewThing(right, p)) \/ world' = WithParents(side, p, Put(side, p, NewThing(right, p)))
      BY <2>2 DEF Applies
    <3> HIDE DEF side
    <3>3. \A thing : DOMAIN Put(side, p, thing) = Sides /\ (side # Left => Put(side, p, thing)[Left] = world[Left])
      BY <3>1 DEF Put
    <3>4. \A put : DOMAIN put = Sides /\ side # Left => WithParents(side, p, put)[Left] = put[Left]
      BY <3>1 DEF WithParents
    <3> QED BY <3>1, <3>2, <3>3, <3>4 DEF side
  <2> QED BY <1>1, <2>1, <2>2, OthersElseLeaveTheSides
<1> QED BY <1>2, <1>3

\* What the source had is of the paths.
LEMMA HadInit == ASSUME Init PROVE HadIn
BY DEF Init, HadIn

\* What is listed of it is of the paths too.
LEMMA HadStep == ASSUME SourceKnown, HadIn, [Next]_vars PROVE HadIn'
<1>1. CASE had' = had
  BY <1>1 DEF HadIn
<1>2. CASE List
  <2>1. /\ DOMAIN had.of = DOMAIN Rights /\ had = [scan |-> had.scan, of |-> had.of]
        /\ There(Left) \subseteq Paths
    BY DEF SourceKnown, PlansKnown, HadOK, There
  <2>2. \/ had' = had \/ had' = [had EXCEPT !.of[right] = had.scan]
        \/ had' = [scan |-> There(Left), of |-> [had.of EXCEPT ![right] = There(Left)]]
        \/ had' = [had EXCEPT !.of[right] = (@ \ names) \cup (There(Left) \cap names)]
    BY <1>2 DEF List
  <2>3. ASSUME NEW now, now \subseteq Paths \/ (right \in DOMAIN had.of => now \subseteq Paths),
               had'.of = [had.of EXCEPT ![right] = now], had'.scan \subseteq Paths
        PROVE  HadIn'
    BY <2>3 DEF HadIn
  <2>4. CASE had' = [had EXCEPT !.of[right] = had.scan]
    <3>1. had'.of = [had.of EXCEPT ![right] = had.scan] /\ had'.scan = had.scan
      BY <2>1, <2>4
    <3> QED BY <2>3, <3>1 DEF HadIn
  <2>5. CASE had' = [scan |-> There(Left), of |-> [had.of EXCEPT ![right] = There(Left)]]
    BY <2>1, <2>3, <2>5
  <2>6. CASE had' = [had EXCEPT !.of[right] = (@ \ names) \cup (There(Left) \cap names)]
    <3> DEFINE now == (had.of[right] \ names) \cup (There(Left) \cap names)
    <3>1. had'.of = [had.of EXCEPT ![right] = now] /\ had'.scan = had.scan
      BY <2>1, <2>6
    <3>2. right \in DOMAIN had.of => now \subseteq Paths
      BY <2>1 DEF HadIn
    <3> HIDE DEF now
    <3> QED BY <2>3, <3>1, <3>2 DEF HadIn
  <2> QED BY <1>1, <2>2, <2>4, <2>5, <2>6
<1>3. CASE Connect \/ ConnectFails \/ Facts \/ Collect \/ Ask \/ Judge \/ Settle
  BY <1>1, <1>3 DEF Connect, ConnectFails, Facts, Collect, Ask, Judge, Settle
<1>4. CASE ListFails \/ AskFails
  BY <1>1, <1>4 DEF ListFails, AskFails, ErrorInComparison
<1>5. CASE ListCompared \/ PlanMerge \/ PlanHunks \/ Confirm \/ Change \/ Report
  BY <1>1, <1>5 DEF ListCompared, PlanMerge, PlanHunks, Confirm, Change, Report
<1>6. CASE OthersStep \/ Done \/ UNCHANGED vars
  BY <1>1, <1>6 DEF OthersStep, Done, vars
<1> QED BY <1>2, <1>3, <1>4, <1>5, <1>6 DEF Next, CommandStep

\* A merge is given paths.
Given == Plain => opts.paths # {}

\* A command is begun with what its options give,
LEMMA GivenInit == ASSUME Init PROVE Given
BY StartsAreProper DEF Init, Given, Plain
\* and keeps them.
LEMMA GivenStep == ASSUME Given, [Next]_vars PROVE Given'
BY OptsStay, AskedForStays DEF Given

\* After the comparison of a right side, that of the next begins anew.
LEMMA TurnsAnew ==
  ASSUME Places, Turns
  PROVE  /\ pc \in Comparison /\ pc' \in {"connect", "confirm", "ended"} /\ results = <<>> /\ results' = <<>>
         /\ pc' = "connect" =>
              /\ names' = {} /\ listings' = <<>> /\ compared' = <<>> /\ lost' = NoneLost
              /\ answers' = <<>> /\ role' = 1 /\ table' = <<>> /\ hashed' = <<>>
         /\ pc' = "confirm" => right' = 1
<1>1. results = <<>> /\ results' = <<>>
  BY DEF Places, PhasesOK, Comparison, Turns
<1>2. ASSUME NEW plan, NextRight(plan)
      PROVE  /\ pc' \in {"connect", "confirm", "ended"}
             /\ names' = {} /\ listings' = <<>> /\ compared' = <<>> /\ lost' = NoneLost
             /\ answers' = <<>> /\ role' = 1 /\ table' = <<>> /\ hashed' = <<>>
             /\ pc' = "confirm" => right' = 1
  BY <1>2 DEF NextRight, NewRound, EndWith
<1>3. CASE EndWith(2)
  BY <1>1, <1>3 DEF EndWith, Turns
<1>4. \/ EndWith(2) \/ \E plan : NextRight(plan)
  BY DEF Turns
<1> QED BY <1>1, <1>2, <1>3, <1>4 DEF Turns

\* The plan of a right side comes after those before.
LEMMA PlansAppended ==
  ASSUME Places, NEW plan, NextRight(plan)
  PROVE  /\ Len(plans) \in Nat /\ DOMAIN plans = 1 .. Len(plans)
         /\ \A i \in DOMAIN plans' : \/ i \in DOMAIN plans /\ plans'[i] = plans[i]
                                     \/ i = Len(plans) + 1 /\ plans'[i] = plan
<1> DEFINE S == {plans[i] : i \in DOMAIN plans}
<1>1. plans' = Append(plans, plan)
  BY DEF NextRight
<1>2. plans \in Seq(S \cup {plan}) /\ Len(plans) \in Nat /\ DOMAIN plans = 1 .. Len(plans)
  BY DEF Places, PhasesOK
<1>3. /\ plans' \in Seq(S \cup {plan}) /\ Len(plans') = Len(plans) + 1
      /\ plans'[Len(plans) + 1] = plan /\ \A i \in DOMAIN plans : plans'[i] = plans[i]
  BY <1>1, <1>2, AppendProperties
<1>4. DOMAIN plans' = 1 .. Len(plans) + 1
  BY <1>3
<1> QED BY <1>2, <1>3, <1>4

\* The plans are those of what was compared.
LEMMA PlansMadeStep ==
  ASSUME Grounds, Plain, PlansMade, [Next]_vars
  PROVE  PlansMade'
<1>1. /\ Syncing' = Syncing /\ Targets' = Targets /\ ReadsOptions' = ReadsOptions
  BY OptsStay, AskedForStays
<1>2. CASE plans' = plans
  BY <1>1, <1>2 DEF PlansMade
<1>3. ASSUME NEW plan, NextRight(plan),
             IF plan.failed THEN Syncing ELSE plan.plan = MergePlan(plan.compared, Targets, ReadsOptions)
      PROVE  PlansMade'
  BY <1>1, <1>3, PlansAppended DEF PlansMade, Grounds
<1>4. CASE Turns
  <2>1. CASE NextRight(FailedTarget) /\ Syncing
    BY <1>3, <2>1 DEF FailedTarget
  <2>2. CASE NextRight(MergePlanned)
    BY <1>3, <2>2 DEF MergePlanned
  <2> QED BY <1>2, <1>4, <2>1, <2>2 DEF Turns
<1>5. CASE Idles \/ (\E listing : Lists(listing)) \/ Collect \/ Ask \/ Loses \/ Judge \/ Settle
  BY <1>2, <1>5 DEF Idles, Lists, Collect, Ask, Loses, Judge, Settle
<1>6. CASE Confirm \/ Change \/ Report
  BY <1>2, <1>6 DEF Confirm, Change, Report
<1> QED BY <1>4, <1>5, <1>6, MergeSteps DEF Grounds

(***************************************************************************)
(* What became of the plans.                                               *)
(***************************************************************************)
\* What is planned, and what failed of it, depends on the plans and the results.
LEMMA OutcomesKept ==
  ASSUME OutcomesOK, UNCHANGED <<opts, plans, results, stops, right, exit>>, pc' = pc
  PROVE  OutcomesOK'
<1>1. Rights' = Rights
  BY AskedForStays
<1>2. \A i : ChangesOf(i)' = ChangesOf(i) /\ FailedPaths(i)' = FailedPaths(i) /\ Fine(i)' = Fine(i)
  BY <1>1 DEF ChangesOf, FailedPaths, Fine
<1>3. \A i : Finished(i)' <=> Finished(i)
  BY <1>2 DEF Finished
<1> QED BY <1>1, <1>2, <1>3 DEF OutcomesOK

\* One more change has an outcome.
LEMMA ChangeOutcomes ==
  ASSUME Grounds, Plain, OutcomesOK, Change
  PROVE  OutcomesOK'
<1>1. /\ pc = "apply" /\ pc' = "apply" /\ UNCHANGED <<opts, plans, right>> /\ Rights' = Rights
  BY AskedForStays DEF Change
<1>2. PICK p : \/ opts.dryRun /\ Becomes(p, "planned")
               \/ ~opts.dryRun /\ Becomes(p, "failed")
               \/ ~opts.dryRun /\ Becomes(p, "done")
               \/ ~opts.dryRun /\ \E o \in {"done", "changedFailed"} : Becomes(p, o)
  BY Zenon DEF Change
<1>20. PICK o \in {"failed", "changedFailed", IF opts.dryRun THEN "planned" ELSE "done"} : Becomes(p, o)
  BY <1>2
<1>3. results' = [results EXCEPT ![right] = Extended(@, Only(p, o))]
  BY <1>20 DEF Becomes
<1>4. CASE results = <<>>
  <2>1. DOMAIN results = {}
    BY <1>4
  <2>2. results' = <<>>
    BY <1>3, <1>4
  <2> QED BY <1>1, <2>2 DEF OutcomesOK
<1>5. CASE results # <<>>
  <2>1. DOMAIN results' = DOMAIN results /\ \A i \in DOMAIN results : i # right => results'[i] = results[i]
    BY <1>3
  <2>2. right \in DOMAIN plans
    BY <1>1, ApplyPlaces DEF Grounds, SourceKnown
  <2>3. right \in DOMAIN results /\ results'[right] = Extended(results[right], Only(p, o))
    BY <1>3, <1>5, <2>2 DEF OutcomesOK
  <2>4. /\ DOMAIN results'[right] = DOMAIN results[right] \cup {p}
        /\ \A q \in DOMAIN results'[right] : \/ q \in DOMAIN results[right] /\ results'[right][q] = results[right][q]
                                             \/ results'[right][q] = o
    <3> DEFINE old == results[right]
    <3>1. results'[right] = Extended(old, Only(p, o))
      BY <2>3
    <3> HIDE DEF old
    <3>2. /\ DOMAIN Extended(old, Only(p, o)) = DOMAIN old \cup {p}
          /\ \A q \in DOMAIN Extended(old, Only(p, o)) :
               \/ q \in DOMAIN old /\ Extended(old, Only(p, o))[q] = old[q]
               \/ Extended(old, Only(p, o))[q] = o
      BY DEF Extended, Only
    <3> QED BY <3>1, <3>2 DEF old
  <2>5. \A i \in DOMAIN results' : \A q \in DOMAIN results'[i] :
          results'[i][q] \in {"failed", "changedFailed", IF opts.dryRun THEN "planned" ELSE "done"}
    BY <1>5, <2>1, <2>4 DEF OutcomesOK
  <2>6. \A i \in 1 .. right - 1 : ChangesOf(i) \subseteq DOMAIN results'[i]
    <3>1. right \in Nat /\ DOMAIN results = 1 .. Len(plans) /\ Len(plans) \in Nat
      <4>1. plans \in Seq({plans[i] : i \in DOMAIN plans})
        BY DEF Grounds, Places, PhasesOK
      <4> QED BY <1>5, <2>2, <4>1 DEF OutcomesOK
    <3>2. \A i \in 1 .. right - 1 : i \in DOMAIN results /\ i # right
      BY <2>3, <3>1
    <3> QED BY <1>1, <1>5, <2>1, <3>2 DEF OutcomesOK
  <2>7. \A i : ChangesOf(i)' = ChangesOf(i)
    BY <1>1 DEF ChangesOf
  <2> QED BY <1>1, <1>5, <2>1, <2>5, <2>6, <2>7 DEF OutcomesOK
<1> QED BY <1>4, <1>5

\* The exit code is 0 only where every destination is finished.
LEMMA ReportOutcomes ==
  ASSUME Grounds, Plain, PlansMade, OutcomesOK, Report
  PROVE  OutcomesOK'
<1>1. /\ pc = "apply" /\ UNCHANGED <<opts, plans, results, stops>> /\ Rights' = Rights
      /\ ChangesOf(right) \subseteq DOMAIN results[right]
      /\ IF right < Len(Rights) THEN right' = right + 1 /\ UNCHANGED <<pc, exit>>
         ELSE /\ UNCHANGED right /\ pc' = "ended"
              /\ exit' = IF opts.command = "sync" THEN SyncExit({StatusOf(i) : i \in DOMAIN plans})
                         ELSE MergeExit(FailedPaths(1) # {} \/ stops[Rights[1]] # "no", plans[1].plan)
  BY AskedForStays DEF Report, EndWith
<1>2. \A i : ChangesOf(i)' = ChangesOf(i) /\ FailedPaths(i)' = FailedPaths(i) /\ Fine(i)' = Fine(i)
  BY <1>1 DEF ChangesOf, FailedPaths, Fine
<1>3. \A i : Finished(i)' <=> Finished(i)
  BY <1>1, <1>2 DEF Finished
<1>4. CASE results = <<>>
  BY <1>1, <1>4 DEF OutcomesOK
<1>5. CASE results # <<>>
  <2>1. right \in DOMAIN Rights /\ DOMAIN Rights = 1 .. Len(Rights) /\ Len(Rights) \in Nat
    BY SideFacts DEF Grounds, Places, OptionsOK
  <2>2. \A i \in 1 .. right : ChangesOf(i) \subseteq DOMAIN results[i]
    <3>1. \A i \in 1 .. right : i = right \/ i \in 1 .. right - 1
      BY <2>1
    <3> QED BY <1>1, <1>5, <3>1 DEF OutcomesOK
  <2>3. CASE right < Len(Rights)
    <3>1. right' = right + 1 /\ pc' = "apply"
      BY <1>1, <2>3
    <3>2. 1 .. right' - 1 = 1 .. right
      BY <2>1, <3>1
    <3> QED BY <1>1, <1>2, <1>5, <2>2, <3>1, <3>2 DEF OutcomesOK
  <2>4. CASE ~(right < Len(Rights))
    <3>1. right = Len(Rights) /\ pc' = "ended"
      BY <1>1, <2>1, <2>4
    <3>2. DOMAIN plans = DOMAIN Rights
      <4>1. plans \in Seq({plans[i] : i \in DOMAIN plans}) /\ Len(plans) = Len(Rights)
        BY <1>5 DEF Grounds, Places, PhasesOK, OutcomesOK
      <4> QED BY <2>1, <4>1
    <3>3. ASSUME exit' = 0, NEW i \in DOMAIN Rights PROVE Finished(i)
      <4>1. ChangesOf(i) \subseteq DOMAIN results[i]
        BY <2>1, <2>2, <3>1
      <4>2. CASE opts.command = "sync"
        <5>1. {StatusOf(j) : j \in DOMAIN plans} \subseteq {"success"}
          BY <1>1, <2>4, <3>3, <4>2 DEF SyncExit
        <5>2. StatusOf(i) = "success"
          BY <3>2, <5>1
        <5>3. \A changed, failed : TargetStatus(changed, failed) = "success" => ~failed
          BY DEF TargetStatus
        <5>4. ~plans[i].failed /\ FailedPaths(i) = {} /\ stops[Rights[i]] = "no" /\ MismatchesIn(plans[i].plan) = {}
          BY <5>2, <5>3 DEF StatusOf
        <5> QED BY <4>1, <5>4 DEF Finished, Fine
      <4>3. CASE opts.command # "sync"
        <5>1. MergeExit(FailedPaths(1) # {} \/ stops[Rights[1]] # "no", plans[1].plan) = 0
          BY <1>1, <2>4, <3>3, <4>3
        <5>2. FailedPaths(1) = {} /\ stops[Rights[1]] = "no" /\ MismatchesIn(plans[1].plan) = {}
          BY <5>1 DEF MergeExit
        <5>3. i = 1
          <6>1. Len(Rights) = 1
            BY <4>3 DEF Grounds, Places, OptionsOK, SidesAccepted, Rights
          <6> QED BY <2>1, <6>1
        <5>4. ~plans[i].failed
          BY <3>2, <4>3 DEF PlansMade, Syncing
        <5> QED BY <4>1, <5>2, <5>3, <5>4 DEF Finished, Fine
      <4> QED BY <4>2, <4>3
    <3> QED BY <1>1, <1>3, <1>5, <3>1, <3>3 DEF OutcomesOK
  <2> QED BY <2>3, <2>4
<1> QED BY <1>4, <1>5

\* What became of the plans, at every step.
LEMMA OutcomesStep ==
  ASSUME Grounds, Plain, PlansMade, OutcomesOK, [Next]_vars
  PROVE  OutcomesOK'
<1>1. CASE Idles
  <2>1. CASE pc' = pc
    BY <1>1, <2>1, OutcomesKept DEF Idles
  <2>2. CASE pc = "connect" /\ pc' = "list"
    <3>1. results' = <<>>
      BY <1>1, <2>2 DEF Idles, Grounds, Places, PhasesOK
    <3> QED BY <2>2, <3>1 DEF OutcomesOK
  <2> QED BY <1>1, <2>1, <2>2 DEF Idles
<1>2. CASE Turns
  BY <1>2, TurnsAnew DEF OutcomesOK, Grounds
<1>3. CASE (List /\ \E listing : Lists(listing)) \/ Collect \/ Ask \/ Loses \/ Judge \/ Settle
  <2>1. pc \in Comparison \ {"plan"} /\ results' = results /\ pc' # "confirm"
    BY <1>3 DEF Lists, Collect, Ask, Loses, Judge, Settle, NextRole, Comparison
  <2>2. results = <<>>
    BY <2>1 DEF Grounds, Places, PhasesOK, Comparison
  <2> QED BY <2>1, <2>2 DEF OutcomesOK
<1>4. CASE Confirm
  <2>1. /\ pc = "confirm" /\ UNCHANGED <<opts, plans, right>> /\ results = <<>> /\ Rights' = Rights
        /\ \/ pc' = "ended" /\ results' = results
           \/ pc' = "apply" /\ results' = [i \in DOMAIN plans |-> <<>>]
    BY <1>4, AskedForStays DEF Confirm, EndWith, Grounds, Places, PhasesOK
  <2>2. right = 1 /\ Len(plans) = Len(Rights)
    BY <2>1 DEF OutcomesOK, Grounds, SourceKnown, PlansKnown, HadOK
  <2>3. CASE pc' = "ended" /\ results' = results
    BY <2>1, <2>3 DEF OutcomesOK
  <2>4. CASE pc' = "apply" /\ results' = [i \in DOMAIN plans |-> <<>>]
    <3>1. 1 .. right' - 1 = {}
      BY <2>1, <2>2
    <3>2. DOMAIN results' = DOMAIN plans' /\ \A i \in DOMAIN results' : DOMAIN results'[i] = {}
      BY <2>1, <2>4
    <3> QED BY <2>1, <2>2, <2>4, <3>1, <3>2 DEF OutcomesOK
  <2> QED BY <2>1, <2>3, <2>4
<1> QED BY <1>1, <1>2, <1>3, <1>4, ChangeOutcomes, ReportOutcomes, MergeSteps DEF Grounds

(***************************************************************************)
(* The answers of a merge.                                                 *)
(***************************************************************************)
\* What cannot be read of a side that answers is a path.
LEMMA ReadsAreSound ==
  ASSUME NEW side, NEW p
  PROVE  SoundAnswer(ReadAt(side, p))
<1>1. SoundAnswer(BodyAt(side, p))
  <2>1. \A f \in {"notADirectory", "notFound", "permissionDenied", "io"} : SoundAnswer(Failure(f))
    BY DEF SoundAnswer, Failure, OfPathOnly
  <2>2. SoundAnswer(Answer(world[side][p].body))
    BY DEF SoundAnswer, Answer
  <2> QED BY <2>1, <2>2 DEF BodyAt
<1>2. SoundAnswer(Failure("tooLarge"))
  BY DEF SoundAnswer, Failure, OfPathOnly
<1> QED BY <1>1, <1>2 DEF ReadAt

\* One more sound batch leaves them all sound.
LEMMA SoundWithOne ==
  ASSUME NEW f, \A z \in DOMAIN f : AllSound(f[z]), NEW x, NEW y, AllSound(y)
  PROVE  \A z \in DOMAIN Extended(f, Only(x, y)) : AllSound(Extended(f, Only(x, y))[z])
<1>1. \A z \in DOMAIN Extended(f, Only(x, y)) : \/ z \in DOMAIN f /\ Extended(f, Only(x, y))[z] = f[z]
                                               \/ Extended(f, Only(x, y))[z] = y
  BY DEF Extended, Only
<1> QED BY <1>1

\* A batch that is answered.
LEMMA AskAnswers ==
  ASSUME Ask
  PROVE  \E known : /\ answers' = Extended(answers, Only(Asked, [p \in WantedOf(Asked) |-> known[p]]))
                    /\ known = Extended(Known, [p \in WantedOf(Asked) |-> ReadAt(SideOf(Asked), p)])
                    /\ cache' = Keeps(known)
BY DEF Ask

\* Every answer there is, kept or not, fails for a path alone.
LEMMA AnswersStep ==
  ASSUME Grounds, Plain, AnswersOK, [Next]_vars
  PROVE  AnswersOK'
<1> USE DEF asking
<1>1. CASE Ask
  <2>1. PICK known : /\ answers' = Extended(answers, Only(Asked, [p \in WantedOf(Asked) |-> known[p]]))
                     /\ known = Extended(Known, [p \in WantedOf(Asked) |-> ReadAt(SideOf(Asked), p)])
                     /\ cache' = Keeps(known)
    BY <1>1, AskAnswers
  <2>2. AllSound(Known)
    BY DEF Known, AnswersOK, AllSound
  <2> DEFINE wanted == WantedOf(Asked)
             asked == Asked
             side == SideOf(Asked)
             read == [p \in wanted |-> ReadAt(side, p)]
             given == [p \in wanted |-> known[p]]
             kept == Known
  <2>3. AllSound(read)
    BY ReadsAreSound DEF AllSound
  <2> HIDE DEF wanted, asked, side
  <2>4. known = Extended(kept, read) /\ answers' = Extended(answers, Only(asked, given))
    BY <2>1 DEF wanted, asked, side
  <2> HIDE DEF read, kept
  <2>5. AllSound(known) /\ wanted \subseteq DOMAIN known
    <3>1. DOMAIN read = wanted
      BY DEF read
    <3> QED BY <2>2, <2>3, <2>4, <3>1 DEF AllSound, Extended, kept
  <2>6. AllSound(given)
    BY <2>5 DEF AllSound
  <2> HIDE DEF given
  <2>7. \A r \in DOMAIN answers' : AllSound(answers'[r])
    <3>1. answers' = Extended(answers, Only(asked, given))
      BY <2>4
    <3>2. \A r \in DOMAIN answers : AllSound(answers[r])
      BY DEF AnswersOK
    <3>3. \A r \in DOMAIN Extended(answers, Only(asked, given)) :
            AllSound(Extended(answers, Only(asked, given))[r])
      BY <2>6, <3>2, SoundWithOne
    <3> QED BY <3>1, <3>3
  <2>8. cache' = cache \/ cache' = [cache EXCEPT !.hashes = known] \/ cache' = [cache EXCEPT !.contents = known]
    BY <2>1 DEF Keeps
  <2>9. AllSound(cache'.hashes) /\ AllSound(cache'.contents)
    <3>1. cache = [listing |-> cache.listing, hashes |-> cache.hashes, contents |-> cache.contents]
      BY DEF Grounds, CacheShape
    <3>2. CASE cache' = cache
      BY <3>2 DEF AnswersOK
    <3>3. CASE cache' = [cache EXCEPT !.hashes = known]
      <4>1. cache'.hashes = known /\ cache'.contents = cache.contents
        BY <3>1, <3>3
      <4> QED BY <2>5, <4>1 DEF AnswersOK
    <3>4. CASE cache' = [cache EXCEPT !.contents = known]
      <4>1. cache'.contents = known /\ cache'.hashes = cache.hashes
        BY <3>1, <3>4
      <4> QED BY <2>5, <4>1 DEF AnswersOK
    <3> QED BY <2>8, <3>2, <3>3, <3>4
  <2> QED BY <2>7, <2>9 DEF AnswersOK
<1>2. ASSUME answers' = answers \/ answers' = <<>>, cache'.hashes = cache.hashes, cache'.contents = cache.contents
      PROVE  AnswersOK'
  <2>1. \A r \in DOMAIN answers' : r \in DOMAIN answers /\ answers'[r] = answers[r]
    BY <1>2
  <2> QED BY <1>2, <2>1 DEF AnswersOK
<1>3. CASE Turns
  <2>1. answers' = answers \/ answers' = <<>>
    BY <1>3 DEF Turns, NextRight, NewRound
  <2> QED BY <1>2, <1>3, <2>1 DEF Turns
<1>4. CASE Idles \/ (\E listing : Lists(listing)) \/ Collect \/ Loses \/ Judge \/ Settle
  BY <1>2, <1>4 DEF Idles, Lists, Collect, Loses, Judge, Settle, NewRound
<1>5. CASE Confirm \/ Change \/ Report
  BY <1>2, <1>5 DEF Confirm, Change, Report
<1> QED BY <1>1, <1>3, <1>4, <1>5, MergeSteps DEF Grounds

(***************************************************************************)
(* The roles.                                                              *)
(***************************************************************************)
LEMMA RolesInOrder ==
  ASSUME OptionsOK
  PROVE  /\ Len(RoleSeq) \in {2, 3} /\ role \in 1 .. Len(RoleSeq)
         /\ Asked = IF role = 1 THEN "left" ELSE IF role = 2 THEN "right" ELSE "ref"
<1>1. /\ Len(<<"left", "right">>) = 2 /\ Len(<<"left", "right", "ref">>) = 3
      /\ DOMAIN <<"left", "right">> = 1 .. 2 /\ DOMAIN <<"left", "right", "ref">> = 1 .. 3
      /\ <<"left", "right", "ref">>[1] = "left" /\ <<"left", "right", "ref">>[2] = "right"
      /\ <<"left", "right", "ref">>[3] = "ref"
      /\ <<"left", "right">>[1] = "left" /\ <<"left", "right">>[2] = "right"
  OBVIOUS
<1> QED BY <1>1 DEF OptionsOK, RoleSeq, Asked

\* Before a table there are the listings of the sides that are asked.
LEMMA RolesListedStep ==
  ASSUME Grounds, Plain, RolesListed, [Next]_vars
  PROVE  RolesListed'
<1> USE DEF asking
<1>1. CASE Idles
  <2>1. pc = "connect" => listings = <<>> /\ role = 1
    BY DEF Grounds, SourceKnown, MergeKnown, ListedWhole, Plain, Merging, Comparison
  <2> QED BY <1>1, <2>1 DEF Idles, RolesListed, Comparison
<1>2. CASE Turns
  BY <1>2, TurnsAnew DEF RolesListed, Comparison, Grounds
<1>3. ASSUME NEW listing, Lists(listing) PROVE RolesListed'
  <2>1. /\ Len(RoleSeq) \in {2, 3} /\ role \in 1 .. Len(RoleSeq)
        /\ Asked = IF role = 1 THEN "left" ELSE IF role = 2 THEN "right" ELSE "ref"
    BY RolesInOrder DEF Grounds, Places
  <2> DEFINE asked == Asked
  <2>2. /\ DOMAIN listings' = DOMAIN listings \cup {asked}
        /\ \A r \in DOMAIN listings' : \/ r \in DOMAIN listings /\ listings'[r] = listings[r]
                                       \/ r = asked /\ listings'[r] = listing
    <3>1. listings' = Extended(listings, Only(asked, listing))
      BY <1>3 DEF Lists
    <3> HIDE DEF asked
    <3> QED BY <3>1 DEF Extended, Only
  <2>3. incomplete' = incomplete \cup (IF listing.truncated \/ listing.cycle THEN {Asked} ELSE {})
    BY <1>3 DEF Lists
  <2>4. pc = "list"
    BY <1>3 DEF Lists
  <2>5. \A r \in DOMAIN listings' : listings'[r].truncated \/ listings'[r].cycle => r \in incomplete'
    BY <2>2, <2>3, <2>4 DEF RolesListed, Comparison
  <2>6. /\ role > 1 => "left" \in DOMAIN listings
        /\ role > 2 => "right" \in DOMAIN listings
    BY <2>4 DEF RolesListed
  <2>7. CASE role = Len(RoleSeq)
    <3>1. pc' = "collected" /\ role' = 1
      BY <1>3, <2>7 DEF Lists
    <3>2. {"left", "right"} \subseteq DOMAIN listings'
      BY <2>1, <2>2, <2>6, <2>7
    <3> QED BY <2>5, <3>1, <3>2 DEF RolesListed
  <2>8. CASE role # Len(RoleSeq)
    <3>1. pc' = "list" /\ role' = role + 1
      BY <1>3, <2>4, <2>8 DEF Lists
    <3>2. "left" \in DOMAIN listings' /\ (role + 1 > 2 => "right" \in DOMAIN listings')
      BY <2>1, <2>2, <2>6
    <3> QED BY <2>5, <3>1, <3>2 DEF RolesListed
  <2> QED BY <2>7, <2>8
<1>4. CASE Collect \/ Settle
  BY <1>4 DEF Collect, Settle, NewRound, RolesListed
<1>5. CASE Ask \/ Loses \/ Judge
  <2>1. pc \in Comparison /\ pc' \notin {"list", "collected"} /\ UNCHANGED <<listings, incomplete>>
    BY <1>5 DEF Ask, Loses, Judge, NextRole, Comparison
  <2> QED BY <2>1 DEF RolesListed
<1>6. CASE Confirm \/ Change \/ Report
  <2>1. pc' \in {"apply", "ended"}
    BY <1>6 DEF Confirm, Change, Report, EndWith
  <2> QED BY <2>1 DEF RolesListed, Comparison
<1> QED BY <1>1, <1>2, <1>3, <1>4, <1>5, <1>6, MergeSteps DEF Grounds

\* Hashes are asked for anew.
LEMMA RolesAnsweredStep ==
  ASSUME Grounds, Plain, RolesListed, RolesAnswered, [Next]_vars
  PROVE  RolesAnswered'
<1> USE DEF asking
<1>1. CASE Idles
  BY <1>1 DEF Idles, RolesAnswered
<1>2. CASE Turns
  BY <1>2, TurnsAnew DEF RolesAnswered, Grounds
<1>3. CASE \E listing : Lists(listing)
  <2>1. pc = "list" /\ pc' \in {"list", "collected"} /\ answers' = answers
    BY <1>3 DEF Lists
  <2> QED BY <2>1 DEF RolesAnswered
<1>4. CASE Collect
  <2>1. pc = "collected" /\ pc' = "hash" /\ answers' = answers /\ role' = role /\ role = 1
    BY <1>4 DEF Collect, RolesListed
  <2> QED BY <2>1 DEF RolesAnswered
<1>5. CASE Settle \/ Judge
  BY <1>5 DEF Settle, Judge, NewRound, RolesAnswered
<1>6. CASE Ask
  <2>1. PICK of : answers' = Extended(answers, Only(Asked, of))
    BY <1>6, AskAnswers
  <2>2. pc \in {"hash", "read"} /\ NextRole
    BY <1>6 DEF Ask
  <2>3. /\ Len(RoleSeq) \in {2, 3} /\ role \in 1 .. Len(RoleSeq)
        /\ Asked = IF role = 1 THEN "left" ELSE IF role = 2 THEN "right" ELSE "ref"
    BY RolesInOrder DEF Grounds, Places
  <2>4. pc' \notin {"connect", "list", "collected"} /\ (pc' = "hash" => pc = "hash" /\ role' = role + 1)
    BY <2>2, <2>3 DEF NextRole
  <2>5. CASE pc' = "hash" /\ role' = 2
    <3>1. role = 1 /\ answers = <<>> /\ Asked = "left"
      BY <2>3, <2>4, <2>5 DEF RolesAnswered
    <3>2. DOMAIN answers' = {"left"}
      BY <2>1, <3>1 DEF Extended, Only
    <3> QED BY <2>4, <2>5, <3>2 DEF RolesAnswered
  <2>6. CASE ~(pc' = "hash" /\ role' = 2)
    BY <2>3, <2>4, <2>6 DEF RolesAnswered
  <2> QED BY <2>5, <2>6
<1>7. CASE Loses
  <2>1. Asked = "right" /\ pc \in {"hash", "read"} /\ NextRole
    BY <1>7 DEF Loses
  <2>2. /\ Len(RoleSeq) \in {2, 3} /\ role \in 1 .. Len(RoleSeq)
        /\ Asked = IF role = 1 THEN "left" ELSE IF role = 2 THEN "right" ELSE "ref"
    BY RolesInOrder DEF Grounds, Places
  <2>3. role = 2
    BY <2>1, <2>2
  <2>4. pc' \notin {"connect", "list", "collected"} /\ (pc' = "hash" => role' = 3)
    BY <2>1, <2>2, <2>3 DEF NextRole
  <2> QED BY <2>4 DEF RolesAnswered
<1>8. CASE Confirm \/ Change \/ Report
  <2>1. pc' \in {"apply", "ended"}
    BY <1>8 DEF Confirm, Change, Report, EndWith
  <2> QED BY <2>1 DEF RolesAnswered
<1> QED BY <1>1, <1>2, <1>3, <1>4, <1>5, <1>6, <1>7, <1>8, MergeSteps DEF Grounds

\* While the destination answers, what is to be hashed of a side is.
LEMMA HashesAnsweredStep ==
  ASSUME Grounds, Plain, RolesListed, RolesAnswered, HashesAnswered, [Next]_vars
  PROVE  HashesAnswered'
<1> USE DEF asking
<1>1. opts' = opts /\ Rights' = Rights
  BY OptsStay, AskedForStays
<1>2. right' = right /\ Fine(right)' => Fine(right)
  <2>1. right \in DOMAIN Rights
    BY DEF Grounds, Places, OptionsOK
  <2>2. PICK i \in DOMAIN Rights : i = right
    BY <2>1
  <2>3. Fine(i)' => Fine(i)
    BY StopsStay DEF Grounds
  <2> QED BY <2>2, <2>3 DEF Fine
<1>3. table' = table => \A r : ToHash(r)' = ToHash(r)
  <2> SUFFICES ASSUME table' = table PROVE \A r : ToHash(r)' = ToHash(r)
    OBVIOUS
  <2>1. Targets' = Targets /\ ReadsOptions' = ReadsOptions /\ Named' = Named
    BY <1>1, AskedForStays
  <2>2. \A p : UsesPath(p)' = UsesPath(p)
    BY <1>1, <2>1 DEF UsesPath
  <2>3. \A p : RolesToHash(p)' = RolesToHash(p)
    BY <1>1, <2>1, <2>2 DEF RolesToHash
  <2> QED BY <2>3 DEF ToHash
<1>4. CASE Idles
  <2>1. \A r : Answered(r) => Answered(r)'
    BY <1>3, <1>4 DEF Idles, Answered
  <2> QED BY <1>2, <1>4, <2>1 DEF Idles, HashesAnswered, Comparison
<1>5. CASE Turns
  BY <1>5, TurnsAnew DEF HashesAnswered, Grounds, Comparison
<1>6. CASE \E listing : Lists(listing)
  <2>1. pc = "list" /\ pc' \in {"list", "collected"} /\ UNCHANGED <<lost, right>>
    BY <1>6 DEF Lists
  <2> QED BY <1>2, <2>1 DEF HashesAnswered, Comparison
<1>7. CASE Collect
  <2>1. pc = "collected" /\ pc' = "hash" /\ UNCHANGED <<lost, right, role>> /\ role = 1
    BY <1>7 DEF Collect, RolesListed
  <2> QED BY <1>2, <2>1 DEF HashesAnswered, Comparison
<1>8. CASE Settle \/ Judge
  <2>1. pc \in Comparison /\ pc' \in {"list", "plan", "read"} /\ right' = right
        /\ (lost = NoneLost => lost' = NoneLost)
    BY <1>8 DEF Settle, Judge, NewRound, Comparison
  <2> QED BY <1>2, <2>1 DEF HashesAnswered, Comparison
<1>9. CASE Ask
  <2>1. PICK known : answers' = Extended(answers, Only(Asked, [p \in WantedOf(Asked) |-> known[p]]))
    BY <1>9, AskAnswers
  <2>2. pc \in {"hash", "read"} /\ NextRole /\ UNCHANGED <<lost, right, table>>
    BY <1>9 DEF Ask
  <2>3. /\ Len(RoleSeq) \in {2, 3} /\ role \in 1 .. Len(RoleSeq)
        /\ Asked = IF role = 1 THEN "left" ELSE IF role = 2 THEN "right" ELSE "ref"
    BY RolesInOrder DEF Grounds, Places
  <2>4. CASE pc = "read"
    BY <1>2, <2>2, <2>4 DEF HashesAnswered, Comparison, NextRole
  <2>5. CASE pc = "hash"
    <3> DEFINE asked == Asked
               wanted == ToHash(Asked)
    <3>1. answers' = Extended(answers, Only(asked, [p \in wanted |-> known[p]]))
      BY <2>1, <2>5 DEF WantedOf
    <3> HIDE DEF asked, wanted
    <3>2. /\ \A r \in DOMAIN answers : r \in DOMAIN answers' /\ answers'[r] = answers[r]
          /\ asked \notin DOMAIN answers => asked \in DOMAIN answers' /\ DOMAIN answers'[asked] = wanted
      BY <3>1 DEF Extended, Only
    <3>3. \A r : Answered(r) => Answered(r)'
      BY <1>3, <2>2, <3>2 DEF Answered
    <3>4. role \in {1, 2} => Asked \notin DOMAIN answers
      BY <2>3, <2>5 DEF RolesAnswered
    <3>5. role = 1 => Answered("left")'
      BY <1>3, <2>2, <2>3, <3>2, <3>4 DEF Answered, asked, wanted
    <3>6. role = 2 => Answered("right")'
      BY <1>3, <2>2, <2>3, <3>2, <3>4 DEF Answered, asked, wanted
    <3>7. ASSUME Fine(right)' PROVE lost' = NoneLost
      BY <1>2, <2>2, <2>5, <3>7 DEF HashesAnswered, Comparison
    <3>8. ASSUME Fine(right)' PROVE /\ role > 1 => Answered("left")
                                    /\ role > 2 => Answered("right")
      BY <1>2, <2>2, <2>5, <3>8 DEF HashesAnswered, Comparison
    <3>9. ASSUME Fine(right)' PROVE Answered("left")' /\ (role > 1 => Answered("right")')
      BY <2>3, <3>3, <3>5, <3>6, <3>8, <3>9
    <3>10. pc' = "judge" => role > 1
      BY <2>2, <2>3, <2>5 DEF NextRole
    <3>11. pc' = "hash" => role' = role + 1
      BY <2>2, <2>3, <2>5 DEF NextRole
    <3> QED BY <2>3, <3>7, <3>9, <3>10, <3>11 DEF HashesAnswered
  <2> QED BY <2>2, <2>4, <2>5
<1>10. CASE Loses
  <2>1. stops'[Rights[right]] # "no" /\ right' = right
    BY <1>10 DEF Loses
  <2> QED BY <1>1, <2>1 DEF HashesAnswered, Fine
<1>11. CASE Confirm \/ Change \/ Report
  <2>1. pc' \in {"apply", "ended"}
    BY <1>11 DEF Confirm, Change, Report, EndWith
  <2> QED BY <2>1 DEF HashesAnswered, Comparison
<1> QED BY <1>4, <1>5, <1>6, <1>7, <1>8, <1>9, <1>10, <1>11, MergeSteps DEF Grounds

(***************************************************************************)
(* What a merge has of its source while nobody changes it.                 *)
(***************************************************************************)
\* What is shown of a source that nobody touched stays.
LEMMA ShowsStay ==
  ASSUME world'[Left] = world[Left]
  PROVE  \A listing, shown : ShowsSource(listing, shown)' <=> ShowsSource(listing, shown)
BY DEF ShowsSource

\* So does what would be shown of it.
LEMMA ShownThereStay ==
  ASSUME world'[Left] = world[Left], opts' = opts
  PROVE  /\ {p \in There(Left) : InScan(p)}' = {p \in There(Left) : InScan(p)}
         /\ names' = names => {p \in There(Left) : Shown(p)}' = {p \in There(Left) : Shown(p)}
<1>1. There(Left)' = There(Left)
  BY DEF There
<1>2. \A p : InScan(p)' <=> InScan(p)
  BY OptionsStay
<1>3. names' = names => \A p : Shown(p)' <=> Shown(p)
  BY ShownStays
<1> QED BY <1>1, <1>2, <1>3

\* The listing of the source that a step adds.
LEMMA SourceListed ==
  ASSUME Grounds, Plain, SourceShown, Quiet, List
  PROVE  \E listing :
           /\ AfterListing(listing)
           /\ Asked = "left" => ShowsSource(listing, {p \in There(Left) : Shown(p)})
           /\ \/ cache'.listing = cache.listing
              \/ cache'.listing = listing /\ Asked = "left" /\ names = {}
<1>1. SideOf(Asked) = Left <=> Asked = "left"
  BY AskedSide DEF Grounds, Places
<1>2. names = {} => {p \in There(Left) : Shown(p)} = {p \in There(Left) : InScan(p)}
  BY DEF Shown
<1>3. CASE FromCache
  <2>1. AfterListing(cache.listing) /\ cache' = cache
    BY <1>3 DEF List
  <2>2. names = {} /\ ShowsSource(cache.listing, {p \in There(Left) : InScan(p)})
    BY <1>3 DEF FromCache, SourceShown, Syncing
  <2> QED BY <1>2, <2>1, <2>2
<1>4. CASE ~FromCache
  <2> DEFINE side == SideOf(Asked)
             seen == Seen(side)
  <2>1. PICK kept \in Kept(seen) :
          /\ AfterListing(ListingOf(side, kept, seen))
          /\ cache' = IF opts.command = "sync" /\ side = Left /\ names = {}
                      THEN [cache EXCEPT !.listing = ListingOf(side, kept, seen)] ELSE cache
    BY <1>4 DEF List
  <2> DEFINE listing == ListingOf(side, kept, seen)
  <2>2. seen = {p \in There(side) : Shown(p)}
    BY DEF Seen, Shown, InDirectories, InScan
  <2>3. /\ DOMAIN listing.entries = kept /\ listing.truncated = (kept # seen)
        /\ \A p \in kept : listing.entries[p] = OfEntry(world[side][p])
    BY DEF ListingOf
  <2> HIDE DEF listing, seen
  <2>4. side = Left => ShowsSource(listing, seen)
    BY <2>3 DEF ShowsSource
  <2>5. cache'.listing = cache.listing \/ (cache'.listing = listing /\ Asked = "left" /\ names = {})
    BY <1>1, <2>1 DEF listing, Grounds, CacheShape
  <2> QED BY <1>1, <2>1, <2>2, <2>4, <2>5 DEF listing
<1> QED BY <1>3, <1>4

\* What becomes of the listings with it.
LEMMA AfterIt ==
  ASSUME Plain, pc = "list", NEW listing, AfterListing(listing)
  PROVE  \/ pc' = "connect" /\ listings' = <<>>
         \/ pc' \in {"confirm", "ended"}
         \/ listings' = Extended(listings, Only(Asked, listing)) /\ names' = names
<1>1. CASE FailComparison(stops)
  BY <1>1 DEF FailComparison, NextRight, NewRound, EndWith
<1>2. CASE ~FailComparison(stops)
  BY <1>2 DEF AfterListing
<1> QED BY <1>1, <1>2

\* Only a listing and a batch add to what sync keeps.
LEMMA CacheStays == ASSUME [Next]_vars, ~List, ~Ask PROVE cache' = cache
<1>1. CASE Connect \/ ConnectFails \/ Facts \/ Collect \/ Judge \/ Settle
  BY <1>1 DEF Connect, ConnectFails, Facts, Collect, Judge, Settle
<1>2. CASE ListFails \/ AskFails
  BY <1>2 DEF ListFails, AskFails, ErrorInComparison
<1>3. CASE ListCompared \/ PlanMerge \/ PlanHunks \/ Confirm \/ Change \/ Report
  BY <1>3 DEF ListCompared, PlanMerge, PlanHunks, Confirm, Change, Report
<1>4. CASE OthersStep \/ Done \/ UNCHANGED vars
  BY <1>4 DEF OthersStep, Done, vars
<1> QED BY <1>1, <1>2, <1>3, <1>4 DEF Next, CommandStep

\* What is listed of the source is what it has.
LEMMA SourceShownStep ==
  ASSUME Grounds, Grounds', Plain, SourceShown, [Next]_vars
  PROVE  SourceShown'
<1> USE DEF asking
<1>1. SUFFICES ASSUME Quiet' PROVE SourceShown'
  BY DEF SourceShown
<1>2. Quiet /\ world'[Left] = world[Left] /\ opts' = opts /\ Syncing' = Syncing
  BY <1>1, QuietStep, OptsStay, AskedForStays DEF Grounds, SourceKnown
<1> DEFINE shown == {p \in There(Left) : Shown(p)}
           scanned == {p \in There(Left) : InScan(p)}
<1>3. /\ \A listing, s : ShowsSource(listing, s)' <=> ShowsSource(listing, s)
      /\ scanned' = scanned /\ (names' = names => shown' = shown)
  BY <1>2, ShowsStay, ShownThereStay
<1>4. /\ pc \in Comparison /\ "left" \in DOMAIN listings => ShowsSource(listings["left"], shown)
      /\ Syncing /\ cache.listing # <<>> => ShowsSource(cache.listing, scanned)
  BY <1>2 DEF SourceShown
<1>5. SUFFICES /\ pc' \in Comparison /\ "left" \in DOMAIN listings' => ShowsSource(listings'["left"], shown')
               /\ Syncing /\ cache'.listing # <<>> => ShowsSource(cache'.listing, scanned)
  <2> SUFFICES ASSUME /\ pc' \in Comparison /\ "left" \in DOMAIN listings' => ShowsSource(listings'["left"], shown')
                      /\ Syncing /\ cache'.listing # <<>> => ShowsSource(cache'.listing, scanned)
               PROVE  SourceShown'
    OBVIOUS
  <2>1. pc' \in Comparison /\ "left" \in DOMAIN listings' => ShowsSource(listings["left"], shown)'
    BY <1>2 DEF ShowsSource
  <2>2. Syncing' /\ cache'.listing # <<>> => ShowsSource(cache.listing, scanned)'
    BY <1>2, <1>3 DEF ShowsSource
  <2> QED BY <2>1, <2>2 DEF SourceShown
<1> HIDE DEF shown, scanned
<1>6. CASE List
  <2>1. PICK listing :
           /\ AfterListing(listing)
           /\ Asked = "left" => ShowsSource(listing, shown)
           /\ \/ cache'.listing = cache.listing
              \/ cache'.listing = listing /\ Asked = "left" /\ names = {}
    BY <1>2, <1>6, SourceListed DEF shown
  <2>2. names = {} => shown = scanned
    BY DEF shown, scanned, Shown
  <2>3. Syncing /\ cache'.listing # <<>> => ShowsSource(cache'.listing, scanned)
    BY <1>4, <2>1, <2>2
  <2>4. pc = "list"
    BY <1>6 DEF List
  <2>5. CASE listings' = Extended(listings, Only(Asked, listing)) /\ names' = names
    <3> DEFINE asked == Asked
    <3>1. listings' = Extended(listings, Only(asked, listing)) /\ shown' = shown
      BY <1>3, <2>5
    <3> HIDE DEF asked
    <3>2. "left" \in DOMAIN listings' => \/ "left" \in DOMAIN listings /\ listings'["left"] = listings["left"]
                                         \/ "left" = asked /\ listings'["left"] = listing
      BY <3>1 DEF Extended, Only
    <3> QED BY <1>4, <2>1, <2>3, <2>4, <3>1, <3>2 DEF asked, Comparison
  <2>6. CASE (pc' = "connect" /\ listings' = <<>>) \/ pc' \in {"confirm", "ended"}
    BY <2>3, <2>6 DEF Comparison
  <2> QED BY <2>1, <2>4, <2>5, <2>6, AfterIt
<1>7. CASE ~List
  <2>1. cache'.listing = cache.listing
    <3>1. CASE Ask
      BY <3>1 DEF Ask, Keeps, Grounds, CacheShape
    <3>2. CASE ~Ask
      BY <1>7, <3>2, CacheStays
    <3> QED BY <3>1, <3>2
  <2>2. pc' \in Comparison /\ "left" \in DOMAIN listings' =>
          pc \in Comparison /\ listings' = listings /\ names' = names
    <3>1. CASE Idles
      BY <3>1 DEF Idles, Comparison
    <3>2. CASE Turns
      BY <3>2, TurnsAnew DEF Grounds, Comparison
    <3>3. CASE Collect \/ Settle
      BY <3>3 DEF Collect, Settle, NewRound
    <3>4. CASE Ask \/ Loses \/ Judge
      BY <3>4 DEF Ask, Loses, Judge, Comparison
    <3>5. CASE Confirm \/ Change \/ Report
      BY <3>5 DEF Confirm, Change, Report, EndWith, Comparison
    <3> QED BY <1>7, <3>1, <3>2, <3>3, <3>4, <3>5, MergeSteps DEF Grounds
  <2> QED BY <1>3, <1>4, <2>1, <2>2
<1> QED BY <1>6, <1>7

\* What is sought, and whole, stays so.
LEMMA SoughtStays ==
  ASSUME Grounds, Grounds', [Next]_vars, Quiet'
  PROVE  Quiet /\ world'[Left] = world[Left] /\ Sought' = Sought
<1>1. Quiet /\ world'[Left] = world[Left] /\ opts' = opts
  BY QuietStep, OptsStay DEF Grounds, SourceKnown
<1>2. Targets' = Targets /\ Named' = Named
  BY <1>1, AskedForStays
<1> QED BY <1>1, <1>2 DEF Sought

\* Nothing that was cut, lost or touched becomes whole again.
LEMMA WholeStays ==
  ASSUME Grounds, Grounds', [Next]_vars, UNCHANGED <<right, incomplete>>, Whole'
  PROVE  Whole /\ Sought' = Sought
<1>1. Quiet /\ Sought' = Sought
  BY SoughtStays DEF Whole
<1>2. right \in DOMAIN Rights
  BY DEF Grounds, Places, OptionsOK
<1>3. PICK i \in DOMAIN Rights : i = right
  BY <1>2
<1>4. Fine(i)' => Fine(i)
  BY StopsStay DEF Grounds
<1>5. Fine(right)
  BY <1>3, <1>4 DEF Fine, Whole
<1> QED BY <1>1, <1>5 DEF Whole

\* What is sought is in the table, and judged as a file.
LEMMA CollectFound ==
  ASSUME Grounds, Grounds', Plain, RolesListed, SourceShown, [Next]_vars, Collect
  PROVE  TableFound'
<1> DEFINE states == StateTable(listings, outside)
<1>1. /\ pc = "collected" /\ pc' = "hash" /\ UNCHANGED <<opts, right, names, incomplete>>
      /\ table' = [p \in DOMAIN states |-> [states |-> states[p], judged |-> Judged(p, states[p])]]
  BY DEF Collect
<1>2. SUFFICES ASSUME Whole', NEW p \in Sought
               PROVE  /\ Shown(p) => p \in DOMAIN table'
                      /\ p \in DOMAIN table' => JudgedFile(table'[p].states, table'[p].judged)
  <2>1. \A p : Shown(p)' <=> Shown(p)
    BY <1>1, ShownStays
  <2>2. Whole' => Sought' = Sought
    BY <1>1, WholeStays
  <2> QED BY <1>2, <2>1, <2>2 DEF TableFound
<1>3. Whole
  BY <1>1, <1>2, WholeStays
<1>4. ListedWhole /\ pc \in Comparison
  BY <1>1 DEF Grounds, SourceKnown, MergeKnown, Plain, Merging, Comparison
<1>5. /\ {"left", "right"} \subseteq DOMAIN listings
      /\ \A r \in DOMAIN listings : ~listings[r].truncated /\ ~listings[r].cycle
      /\ DOMAIN outside = DOMAIN listings /\ \A r \in DOMAIN outside : outside[r] = {}
  BY <1>1, <1>3, <1>4 DEF RolesListed, Whole, ListedWhole
<1>6. ShowsSource(listings["left"], {q \in There(Left) : Shown(q)})
  BY <1>3, <1>4, <1>5 DEF SourceShown, Whole
<1>7. p \in Paths /\ world[Left][p].kind = "file"
  BY DEF Sought
<1>8. p \in There(Left)
  BY <1>7 DEF There, NoWorld
<1>9. Shown(p) => p \in DOMAIN listings["left"].entries /\ listings["left"].entries[p] = OfEntry(world[Left][p])
  BY <1>5, <1>6, <1>8 DEF ShowsSource
<1>10. OfEntry(world[Left][p]).kind = "file"
  BY <1>7 DEF OfEntry, File
<1>11. ASSUME Shown(p) PROVE p \in DOMAIN table'
  <2>1. p \in DOMAIN states
    BY <1>5, <1>9, <1>11 DEF StateTable
  <2> QED BY <1>1, <2>1
<1>12. ASSUME p \in DOMAIN table'
       PROVE  JudgedFile(table'[p].states, table'[p].judged)
  <2>1. p \in DOMAIN states /\ table'[p].states = states[p] /\ table'[p].judged = Judged(p, states[p])
    BY <1>1, <1>12
  <2>2. PICK r \in DOMAIN listings : p \in DOMAIN listings[r].entries
    BY <2>1 DEF StateTable
  <2>3. Shown(p)
    BY <1>4, <2>2 DEF ListedWhole
  <2> DEFINE at == states[p].states
             method == MethodFor(p)
  <2>4. DOMAIN at = DOMAIN listings
    BY <1>5, <2>1 DEF StateTable
  <2>5. \A s \in {"left", "right"} :
          \/ p \in DOMAIN listings[s].entries /\ at[s] = listings[s].entries[p]
          \/ p \notin DOMAIN listings[s].entries /\ at[s] = Absent
    BY <1>5, <2>1, <2>4, StatesOfTable
  <2> HIDE DEF states
  <2>6. at["left"].kind = "file"
    BY <1>9, <1>10, <2>3, <2>5
  <2>7. at["right"].kind \in Kinds
    BY <1>4, <1>5, <2>5 DEF ListedWhole, Real, Absent, Kinds
  <2>8. StateOf(states[p], "left") = at["left"] /\ StateOf(states[p], "right") = at["right"]
    BY <1>5, <2>4 DEF StateOf
  <2>9. Judged(p, states[p]) = JudgePairs(states[p], method, FALSE)
    BY DEF Judged, JudgesReference, Plain
  <2>10. /\ LeftRight \in DOMAIN JudgePairs(states[p], method, FALSE)
         /\ JudgePairs(states[p], method, FALSE)[LeftRight] =
              [verdict |-> JudgeStates(LeftRight, at["left"], at["right"], method),
               followed |-> NotFollowed]
    <3> HIDE DEF method
    <3>1. LeftRight[1] = "left" /\ LeftRight[2] = "right" /\ LeftRight \in Pairs
      BY DEF LeftRight, Pairs
    <3> QED BY <1>5, <2>4, <3>1 DEF JudgePairs
  <2> HIDE DEF at, method
  <2>11. \/ FileVerdict(JudgeStates(LeftRight, at["left"], at["right"], method))
         \/ JudgeStates(LeftRight, at["left"], at["right"], method) = ByContent /\ at["right"].kind = "file"
    BY <2>6, <2>7, FileIsJudged
  <2> DEFINE judged == Judged(p, states[p])
             verdict == JudgeStates(LeftRight, at["left"], at["right"], method)
  <2>12. LeftRight \in DOMAIN judged /\ judged[LeftRight] = [verdict |-> verdict, followed |-> NotFollowed]
    BY <2>9, <2>10
  <2> HIDE DEF judged, verdict
  <2>13. judged[LeftRight].verdict = verdict /\ judged[LeftRight].followed = NotFollowed
    BY <2>12
  <2>14. FileVerdict(verdict) \/ (verdict = ByContent /\ at["right"].kind = "file")
    BY <2>11 DEF verdict
  <2>15. JudgedFile(states[p], judged)
    BY <2>6, <2>8, <2>12, <2>13, <2>14 DEF JudgedFile
  <2> QED BY <2>1, <2>15 DEF judged
<1> QED BY <1>11, <1>12

\* The table keeps what was found until the next.
LEMMA TableFoundStep ==
  ASSUME Grounds, Grounds', Plain, RolesListed, SourceShown, TableFound, [Next]_vars
  PROVE  TableFound'
<1> USE DEF asking
<1> DEFINE reading == {"hash", "judge", "read", "settle"}
<1>1. ASSUME UNCHANGED <<opts, right, names, incomplete, table>>, pc \in reading \/ pc' \notin reading
      PROVE  TableFound'
  <2>1. \A p : Shown(p)' <=> Shown(p)
    BY <1>1, ShownStays
  <2>2. Whole' => Whole /\ Sought' = Sought
    BY <1>1, WholeStays
  <2> QED BY <1>1, <2>1, <2>2 DEF TableFound
<1>2. CASE Idles
  BY <1>1, <1>2 DEF Idles
<1>3. CASE Ask \/ Loses \/ Judge
  BY <1>1, <1>3 DEF Ask, Loses, Judge
<1>4. pc' \notin reading => TableFound'
  BY DEF TableFound
<1>5. CASE Turns
  BY <1>4, <1>5, TurnsAnew DEF Grounds
<1>6. CASE (\E listing : Lists(listing)) \/ Settle
  BY <1>4, <1>6 DEF Lists, Settle
<1>7. CASE Confirm \/ Change \/ Report
  BY <1>4, <1>7 DEF Confirm, Change, Report, EndWith
<1> QED BY <1>2, <1>3, <1>5, <1>6, <1>7, CollectFound, MergeSteps DEF Grounds

\* With the hashes there is a verdict on each.
LEMMA JudgeFound ==
  ASSUME Grounds, Grounds', Plain, AnswersOK, HashesAnswered, TableFound, [Next]_vars, Judge
  PROVE  HashedFound'
<1>1. /\ pc = "judge" /\ UNCHANGED <<right, incomplete, table>>
      /\ hashed' = [p \in DOMAIN table |->
                      [hashes |-> AnswersFor(p),
                       verdicts |-> SettlePairs(table[p].judged, AnswersFor(p), LostFor(p))]]
  BY DEF Judge
<1>2. SUFFICES ASSUME Whole', NEW p \in Sought \cap DOMAIN table
               PROVE  SettledFile(table[p].states, hashed'[p].verdicts)
  <2>1. Whole' => Sought' = Sought
    BY <1>1, WholeStays
  <2> QED BY <1>1, <1>2, <2>1 DEF HashedFound
<1>3. Whole
  BY <1>1, <1>2, WholeStays
<1>4. lost = NoneLost /\ Answered("left") /\ Answered("right")
  BY <1>1, <1>3 DEF HashesAnswered, Whole, Comparison
<1>5. JudgedFile(table[p].states, table[p].judged)
  BY <1>1, <1>3 DEF TableFound
<1> DEFINE hashes == AnswersFor(p)
           judged == table[p].judged
           states == table[p].states
<1>6. hashed'[p].verdicts = SettlePairs(judged, hashes, NoneLost)
  BY <1>1, <1>4 DEF LostFor
<1>7. AllSound(hashes)
  BY DEF AllSound, AnswersFor, AnswersOK
<1>8. ASSUME judged[LeftRight].verdict = ByContent PROVE {"left", "right"} \subseteq DOMAIN hashes
  <2>1. StateOf(states, "left").kind = "file" /\ StateOf(states, "right").kind = "file" /\ LeftRight \in DOMAIN judged
    BY <1>5, <1>8, VerdictsDiffer DEF JudgedFile, FileVerdict, V, ByContent
  <2>2. LeftRight[1] = "left" /\ LeftRight[2] = "right"
    BY DEF LeftRight
  <2>3. {"left", "right"} \subseteq HashRoles(judged)
    BY <1>8, <2>1, <2>2 DEF HashRoles
  <2>4. {"left", "right"} \subseteq RolesToHash(p)
    BY <2>3 DEF RolesToHash
  <2>5. p \in ToHash("left") /\ p \in ToHash("right")
    BY <2>1, <2>4 DEF ToHash, HasContent
  <2> QED BY <1>4, <2>5 DEF Answered, AnswersFor
<1> HIDE DEF hashes, judged, states
<1>9. SettledFile(states, SettlePairs(judged, hashes, NoneLost))
  BY <1>5, <1>7, <1>8, FileIsSettled DEF judged, states
<1> QED BY <1>6, <1>9 DEF states

\* The verdicts are kept while contents are read.
LEMMA HashedFoundStep ==
  ASSUME Grounds, Grounds', Plain, AnswersOK, HashesAnswered, TableFound, HashedFound, [Next]_vars
  PROVE  HashedFound'
<1> USE DEF asking
<1>1. ASSUME UNCHANGED <<right, incomplete, table, hashed>>, pc \in {"read", "settle"} \/ pc' \notin {"read", "settle"}
      PROVE  HashedFound'
  <2>1. Whole' => Whole /\ Sought' = Sought
    BY <1>1, WholeStays
  <2> QED BY <1>1, <2>1 DEF HashedFound
<1>2. CASE Idles
  BY <1>1, <1>2 DEF Idles
<1>3. CASE Ask \/ Loses
  BY <1>1, <1>3 DEF Ask, Loses, NextRole
<1>4. pc' \notin {"read", "settle"} => HashedFound'
  BY DEF HashedFound
<1>5. CASE Turns
  BY <1>4, <1>5, TurnsAnew DEF Grounds
<1>6. CASE (\E listing : Lists(listing)) \/ Collect \/ Settle
  BY <1>4, <1>6 DEF Lists, Collect, Settle
<1>7. CASE Confirm \/ Change \/ Report
  BY <1>4, <1>7 DEF Confirm, Change, Report, EndWith
<1> QED BY <1>2, <1>3, <1>5, <1>6, <1>7, JudgeFound, MergeSteps DEF Grounds

(***************************************************************************)
(* What is compared and planned of what is sought.                         *)
(***************************************************************************)
\* A sought name that the scan does not show is listed by itself.
LEMMA NothingSoughtIsLeft ==
  ASSUME Plain, Given, names = {}, NEW p \in Sought, \A q \in Sought : Shown(q) => q \in DOMAIN table
  PROVE  p \in DOMAIN table \cup Unseen
<1>1. p \in Paths /\ Selects(Targets, p) /\ (p \in Filtered => p \in Named)
  BY DEF Sought
<1>2. CASE p \in Named
  BY <1>2 DEF Unseen, Merging, Plain
<1>3. CASE p \notin Named
  <2>1. InScan(p)
    BY <1>1, <1>3, SelectedIsScanned DEF Given
  <2> QED BY <2>1 DEF Shown
<1> QED BY <1>2, <1>3

\* What is sought is compared, or asked for by its name.
LEMMA SettleFound ==
  ASSUME Grounds, Grounds', Plain, Given, AnswersOK, HashesAnswered, TableFound, HashedFound,
         ComparedFound, [Next]_vars, Settle
  PROVE  ComparedFound'
<1> DEFINE added == [p \in DOMAIN table |-> Result(p)]
<1>1. /\ pc = "settle" /\ UNCHANGED <<right, incomplete>>
      /\ compared' = Extended(compared, added) /\ names' = Unseen
      /\ pc' = IF Unseen # {} THEN "list" ELSE "plan"
  BY DEF Settle, NewRound
<1>2. SUFFICES ASSUME Whole'
               PROVE  /\ \A p \in Sought \cap DOMAIN compared' :
                           SettledFile(compared'[p].states, compared'[p].verdicts)
                      /\ Sought \subseteq names' \cup DOMAIN compared'
  <2>1. Whole' => Sought' = Sought
    BY <1>1, WholeStays
  <2>2. pc' = "plan" => names' = {}
    BY <1>1
  <2> QED BY <1>2, <2>1, <2>2 DEF ComparedFound, FoundIn
<1>3. Whole /\ pc \in Comparison
  BY <1>1, <1>2, WholeStays DEF Comparison
<1>4. lost = NoneLost
  BY <1>3 DEF HashesAnswered, Whole
<1>5. /\ \A p \in Sought : Shown(p) => p \in DOMAIN table
      /\ \A p \in Sought \cap DOMAIN table : SettledFile(table[p].states, hashed[p].verdicts)
      /\ FoundIn(compared) /\ (names # {} => Sought \subseteq names \cup DOMAIN compared)
  BY <1>1, <1>3 DEF TableFound, HashedFound, ComparedFound
<1>6. ASSUME NEW p \in Sought \cap DOMAIN table PROVE SettledFile(added[p].states, added[p].verdicts)
  <2> DEFINE contents == AnswersFor(p)
  <2>1. AllSound(contents)
    BY DEF AllSound, AnswersFor, AnswersOK
  <2>2. added[p].states = table[p].states /\ added[p].verdicts = ApplyReads(hashed[p].verdicts, contents)
    BY <1>4 DEF Result, LostFor
  <2> HIDE DEF contents, added
  <2>3. SettledFile(table[p].states, ApplyReads(hashed[p].verdicts, contents))
    BY <1>5, <2>1, FileIsRead
  <2> QED BY <2>2, <2>3
<1>7. DOMAIN added = DOMAIN table
  OBVIOUS
<1> HIDE DEF added
<1>8. /\ DOMAIN compared' = DOMAIN compared \cup DOMAIN table
      /\ \A p \in DOMAIN compared' : compared'[p] = IF p \in DOMAIN compared THEN compared[p] ELSE added[p]
  BY <1>1, <1>7 DEF Extended
<1>9. \A p \in Sought \cap DOMAIN compared' : SettledFile(compared'[p].states, compared'[p].verdicts)
  BY <1>5, <1>6, <1>8 DEF FoundIn
<1>10. ASSUME NEW p \in Sought PROVE p \in names' \cup DOMAIN compared'
  <2>1. CASE names = {}
    BY <1>1, <1>5, <1>8, <2>1, NothingSoughtIsLeft
  <2>2. CASE names # {}
    BY <1>5, <1>8, <2>2 DEF Shown
  <2> QED BY <2>1, <2>2
<1> QED BY <1>9, <1>10

\* What is compared stays until the plan is made.
LEMMA ComparedFoundStep ==
  ASSUME Grounds, Grounds', Plain, Given, AnswersOK, HashesAnswered, TableFound, HashedFound,
         ComparedFound, [Next]_vars
  PROVE  ComparedFound'
<1> USE DEF asking
<1>1. ASSUME UNCHANGED <<right, incomplete, names, compared>>, pc \in Comparison, pc' # "plan" \/ pc = "plan"
      PROVE  ComparedFound'
  <2>1. Whole' => Whole /\ Sought' = Sought
    BY <1>1, WholeStays
  <2> QED BY <1>1, <2>1 DEF ComparedFound, FoundIn
<1>2. pc' \notin Comparison => ComparedFound'
  BY DEF ComparedFound
<1>3. CASE Idles
  BY <1>1, <1>2, <1>3 DEF Idles, Comparison
<1>4. CASE Collect \/ Ask \/ Loses \/ Judge
  BY <1>1, <1>4 DEF Collect, Ask, Loses, Judge, NextRole, Comparison
<1>5. CASE Turns
  <2>1. pc' = "connect" => names' = {} /\ compared' = <<>>
    BY <1>5, TurnsAnew DEF Grounds
  <2>2. pc' = "connect" \/ pc' \notin Comparison
    BY <1>5, TurnsAnew DEF Grounds, Comparison
  <2>3. pc' = "connect" => ComparedFound'
    BY <2>1 DEF ComparedFound, FoundIn
  <2> QED BY <1>2, <2>2, <2>3
<1>6. ASSUME NEW listing, List, Lists(listing) PROVE ComparedFound'
  <2>1. /\ pc = "list" /\ pc' \in {"list", "collected"} /\ UNCHANGED <<right, names, compared, opts>>
        /\ incomplete \subseteq incomplete'
    BY <1>6 DEF Lists
  <2>2. SUFFICES ASSUME Whole' PROVE ComparedFound'
    BY DEF ComparedFound
  <2>3. incomplete' = incomplete
    BY <2>1, <2>2 DEF Whole
  <2> QED BY <1>1, <2>1, <2>3 DEF Comparison
<1>7. CASE Confirm \/ Change \/ Report
  BY <1>2, <1>7 DEF Confirm, Change, Report, EndWith, Comparison
<1> QED BY <1>3, <1>4, <1>5, <1>6, <1>7, SettleFound, MergeSteps DEF Grounds

\* A plan is made of a comparison that found all that is sought.
LEMMA PlansFoundStep ==
  ASSUME Grounds, Grounds', Plain, ComparedFound, PlansFound, [Next]_vars
  PROVE  PlansFound'
<1> DEFINE Found(plan) == FoundIn(plan.compared) /\ Sought \subseteq DOMAIN plan.compared
<1>1. Quiet' => Quiet /\ Sought' = Sought
  BY SoughtStays
<1>2. SUFFICES ASSUME NEW i \in DOMAIN plans', Quiet', Fine(i)', ~plans'[i].failed
               PROVE  /\ \A p \in Sought \cap DOMAIN plans'[i].compared :
                           SettledFile(plans'[i].compared[p].states, plans'[i].compared[p].verdicts)
                      /\ Sought \subseteq DOMAIN plans'[i].compared
  BY <1>1 DEF PlansFound, FoundIn
<1>3. Quiet
  BY <1>1, <1>2
<1>4. ASSUME i \in DOMAIN plans, plans'[i] = plans[i], i \in DOMAIN Rights \/ UNCHANGED <<stops, opts>>
      PROVE  Found(plans'[i])
  <2>1. Fine(i)
    <3>1. CASE i \in DOMAIN Rights
      BY <1>2, <3>1, StopsStay DEF Grounds
    <3>2. CASE UNCHANGED <<stops, opts>>
      BY <1>2, <3>2, AskedForStays DEF Fine
    <3> QED BY <1>4, <3>1, <3>2
  <2> QED BY <1>2, <1>3, <1>4, <2>1 DEF PlansFound
<1>5. SUFFICES Found(plans'[i])
  BY DEF FoundIn
<1>6. pc \in Comparison \cup {"confirm", "apply"} => \A j \in DOMAIN plans : j \in DOMAIN Rights
  <2>1. plans \in Seq({plans[j] : j \in DOMAIN plans}) /\ right \in DOMAIN Rights /\ DOMAIN Rights = 1 .. Len(Rights)
        /\ Len(Rights) \in Nat
    BY SideFacts DEF Grounds, Places, PhasesOK, OptionsOK
  <2>2. pc \in Comparison \cup {"confirm", "apply"} => Len(plans) = right - 1 \/ Len(plans) = Len(Rights)
    BY DEF Grounds, SourceKnown, PlansKnown, HadOK
  <2> QED BY <2>1, <2>2
<1>7. CASE Idles
  BY <1>2, <1>4, <1>7 DEF Idles
<1>8. CASE Turns
  <2>1. pc \in Comparison
    BY <1>8 DEF Turns
  <2>2. ASSUME NEW plan, NextRight(plan), ~plan.failed => plan = MergePlanned /\ pc = "plan" /\ incomplete = {}
        PROVE  Found(plans'[i])
    <3>1. \/ i \in DOMAIN plans /\ plans'[i] = plans[i]
          \/ i = Len(plans) + 1 /\ plans'[i] = plan
      BY <2>2, PlansAppended DEF Grounds
    <3>2. CASE i \in DOMAIN plans /\ plans'[i] = plans[i]
      BY <1>4, <1>6, <2>1, <3>2
    <3>3. CASE i = Len(plans) + 1 /\ plans'[i] = plan
      <4>1. plan = MergePlanned /\ pc = "plan" /\ incomplete = {}
        BY <1>2, <2>2, <3>3
      <4>2. i = right /\ right \in DOMAIN Rights
        <5>1. Len(plans) = right - 1 /\ right \in DOMAIN Rights /\ DOMAIN Rights = 1 .. Len(Rights)
              /\ Len(Rights) \in Nat
          BY <2>1, SideFacts DEF Grounds, SourceKnown, PlansKnown, HadOK, Places, OptionsOK
        <5> QED BY <3>3, <5>1
      <4>3. Fine(i)
        BY <1>2, <4>2, StopsStay DEF Grounds
      <4>4. Whole
        BY <1>3, <4>1, <4>2, <4>3 DEF Whole
      <4>5. FoundIn(compared) /\ Sought \subseteq DOMAIN compared
        BY <4>1, <4>4, <2>1 DEF ComparedFound
      <4>6. plans'[i].compared = compared
        BY <3>3, <4>1 DEF MergePlanned
      <4> QED BY <4>5, <4>6
    <3> QED BY <3>1, <3>2, <3>3
  <2>3. CASE NextRight(FailedTarget)
    BY <2>2, <2>3 DEF FailedTarget
  <2>4. CASE NextRight(MergePlanned) /\ pc = "plan" /\ incomplete = {}
    BY <2>2, <2>4
  <2>5. CASE plans' = plans
    BY <1>2, <1>4, <1>6, <2>1, <2>5
  <2> QED BY <1>8, <2>3, <2>4, <2>5 DEF Turns
<1>9. CASE (List /\ \E listing : Lists(listing)) \/ Collect \/ Ask \/ Loses \/ Judge \/ Settle
  <2>1. pc \in Comparison /\ plans' = plans
    BY <1>9 DEF Lists, Collect, Ask, Loses, Judge, Settle, Comparison
  <2> QED BY <1>2, <1>4, <1>6, <2>1
<1>10. CASE Confirm \/ Change \/ Report
  <2>1. pc \in {"confirm", "apply"} /\ plans' = plans
    BY <1>10 DEF Confirm, Change, Report
  <2> QED BY <1>2, <1>4, <1>6, <2>1
<1> QED BY <1>7, <1>8, <1>9, <1>10, MergeSteps DEF Grounds

\* What every step keeps.
LEMMA GroundsInit == ASSUME Init PROVE Grounds
BY PlacesInit, TreesInit, CacheShapeInit, KnownInit, BudgetInit, HadInit DEF Grounds

\* So do all of these together.
LEMMA GroundsStep == ASSUME Grounds, [Next]_vars PROVE Grounds'
BY PlacesStep, TreesStep, CacheShapeStep, KnownStep, BudgetStep, HadStep DEF Grounds, SourceKnown

\* What a merge knows of its source on the way to its plans.
MergeFinds ==
  /\ PlansMade /\ OutcomesOK /\ AnswersOK /\ RolesListed /\ RolesAnswered /\ SourceShown
  /\ HashesAnswered /\ TableFound /\ HashedFound /\ ComparedFound /\ PlansFound
MergeInv == Grounds /\ Given /\ (Plain => MergeFinds)

\* At the beginning there is nothing to find.
LEMMA FindsInit == ASSUME Init PROVE MergeFinds
<1>1. /\ pc = "connect" /\ listings = <<>> /\ answers = <<>> /\ lost = NoneLost /\ compared = <<>>
      /\ names = {} /\ cache = NoCache /\ plans = <<>> /\ results = <<>> /\ role = 1
  BY DEF Init
<1>2. DOMAIN <<>> = {} /\ cache.listing = <<>> /\ cache.hashes = <<>> /\ cache.contents = <<>>
  BY <1>1 DEF NoCache
<1>3. PlansMade /\ OutcomesOK /\ AnswersOK
  BY <1>1, <1>2 DEF PlansMade, OutcomesOK, AnswersOK, AllSound
<1>4. RolesListed /\ RolesAnswered /\ SourceShown
  BY <1>1, <1>2 DEF RolesListed, RolesAnswered, SourceShown
<1>5. HashesAnswered /\ TableFound /\ HashedFound /\ ComparedFound /\ PlansFound
  BY <1>1, <1>2 DEF HashesAnswered, TableFound, HashedFound, ComparedFound, PlansFound, FoundIn
<1> QED BY <1>3, <1>4, <1>5 DEF MergeFinds

\* Every step keeps what a merge finds.
LEMMA MergeInvStep == ASSUME MergeInv, [Next]_vars PROVE MergeInv'
<1>1. Grounds' /\ Given' /\ Plain' = Plain
  BY GroundsStep, GivenStep, OptsStay, AskedForStays DEF MergeInv
<1>2. ASSUME Plain PROVE MergeFinds'
  <2>1. PlansMade' /\ OutcomesOK' /\ AnswersOK'
    BY <1>2, PlansMadeStep, OutcomesStep, AnswersStep DEF MergeInv, MergeFinds
  <2>2. RolesListed' /\ RolesAnswered' /\ SourceShown'
    BY <1>1, <1>2, RolesListedStep, RolesAnsweredStep, SourceShownStep DEF MergeInv, MergeFinds
  <2>3. HashesAnswered' /\ TableFound' /\ HashedFound'
    BY <1>1, <1>2, HashesAnsweredStep, TableFoundStep, HashedFoundStep DEF MergeInv, MergeFinds
  <2>4. ComparedFound' /\ PlansFound'
    BY <1>1, <1>2, ComparedFoundStep, PlansFoundStep DEF MergeInv, MergeFinds
  <2> QED BY <2>1, <2>2, <2>3, <2>4 DEF MergeFinds
<1> QED BY <1>1, <1>2 DEF MergeInv

\* A merge that ends with 0 has compared its names, and merged its files.
LEMMA MergedAtTheEnd == ASSUME MergeInv PROVE ExitZeroMeansMerged
<1>1. SUFFICES ASSUME pc = "ended", exit = 0, Plain, results # <<>>
               PROVE  /\ \A p \in Named : \E i \in DOMAIN plans : p \in DOMAIN plans[i].compared
                      /\ \A i \in DOMAIN Rights : \A p \in had.of[i] :
                           (/\ world[Left][p].kind = "file" /\ Quiet
                            /\ Selects(Targets, p) /\ (p \in Filtered => p \in Named))
                             => MergedOrSame(i, p)
  BY DEF ExitZeroMeansMerged, Plain
<1>2. MergeFinds /\ Grounds
  BY <1>1 DEF MergeInv
<1>3. \A i \in DOMAIN Rights : Finished(i)
  BY <1>1, <1>2 DEF MergeFinds, OutcomesOK
<1>4. DOMAIN plans = DOMAIN Rights /\ DOMAIN results = DOMAIN plans /\ 1 \in DOMAIN plans
  <2>1. /\ plans \in Seq({plans[i] : i \in DOMAIN plans}) /\ Len(plans) = Len(Rights)
        /\ DOMAIN Rights = 1 .. Len(Rights) /\ 1 \in DOMAIN Rights /\ DOMAIN results = DOMAIN plans
    BY <1>1, <1>2, SideFacts DEF Grounds, Places, PhasesOK, MergeFinds, OutcomesOK
  <2> QED BY <2>1
<1>5. \A i \in DOMAIN plans : plans[i].plan = MergePlan(plans[i].compared, Targets, ReadsOptions)
  BY <1>2, <1>3, <1>4 DEF MergeFinds, PlansMade, Finished
<1>6. ASSUME NEW p \in Named PROVE \E i \in DOMAIN plans : p \in DOMAIN plans[i].compared
  <2>1. SUFFICES ASSUME p \notin DOMAIN plans[1].compared PROVE FALSE
    BY <1>4
  <2> DEFINE c == plans[1].compared
  <2>2. p \in Targets.named
    BY <1>1 DEF Named, Plain
  <2>3. p \in NamesMissing(c, Targets, ReadsOptions)
    BY <2>1, <2>2 DEF NamesMissing
  <2>4. /\ p \in DOMAIN MergePlan(c, Targets, ReadsOptions)
        /\ MergePlan(c, Targets, ReadsOptions)[p] = Entry("notFound")
    <3> HIDE DEF c
    <3> QED BY <2>3 DEF MergePlan
  <2>5. p \in DOMAIN plans[1].plan /\ plans[1].plan[p].e = "notFound"
    BY <1>4, <1>5, <2>4, EntriesAreNamed
  <2>6. p \in FailedPaths(1)
    BY <2>5 DEF FailedPaths
  <2> QED BY <1>3, <1>4, <2>6 DEF Finished
<1>7. ASSUME NEW i \in DOMAIN Rights, NEW p \in had.of[i], world[Left][p].kind = "file", Quiet,
             Selects(Targets, p), p \in Filtered => p \in Named
      PROVE  MergedOrSame(i, p)
  <2>1. p \in Sought
    BY <1>2, <1>7 DEF Grounds, HadIn, SourceKnown, PlansKnown, HadOK, Sought
  <2>2. Finished(i) /\ i \in DOMAIN plans /\ i \in DOMAIN results
    BY <1>3, <1>4
  <2> DEFINE c == plans[i].compared
             plan == plans[i].plan
  <2>3. p \in DOMAIN c /\ SettledFile(c[p].states, c[p].verdicts)
    BY <1>2, <1>7, <2>1, <2>2 DEF MergeFinds, PlansFound, FoundIn, Finished
  <2>4. plan = MergePlan(c, Targets, ReadsOptions) /\ MismatchesIn(plan) = {}
    BY <1>5, <2>2 DEF Finished
  <2>5. p \in Paths
    BY <2>1 DEF Sought
  <2>6. \/ VerdictOn(c[p], LeftRight) = V("same")
        \/ p \in DOMAIN plan /\ (plan[p] = Entry("writeFile") \/ \E why : plan[p] = Fail(why))
    <3> HIDE DEF c, plan
    <3> QED BY <1>7, <2>3, <2>4, <2>5, FileIsPlanned
  <2>7. ASSUME p \in DOMAIN plan PROVE ~\E why : plan[p] = Fail(why)
    BY <2>2, <2>7, EntriesAreNamed DEF Finished, FailedPaths
  <2>8. CASE VerdictOn(c[p], LeftRight) = V("same")
    BY <2>3, <2>8 DEF MergedOrSame
  <2>9. CASE p \in DOMAIN plan /\ plan[p] = Entry("writeFile")
    <3>1. p \in ChangesOf(i)
      BY <2>9 DEF ChangesOf, Planned, Changes, Writes
    <3>2. p \in DOMAIN results[i]
      BY <2>2, <3>1 DEF Finished
    <3>3. results[i][p] \notin {"failed", "changedFailed"}
      BY <2>2, <2>9, <3>2 DEF Finished, FailedPaths
    <3>4. results[i][p] = IF opts.dryRun THEN "planned" ELSE "done"
      BY <1>1, <1>2, <2>2, <3>2, <3>3 DEF MergeFinds, OutcomesOK
    <3> QED BY <3>2, <3>4 DEF MergedOrSame
  <2> QED BY <2>6, <2>7, <2>8, <2>9
<1> QED BY <1>6, <1>7

\* Where a merge or a sync ends with 0 after its changes, every name it was
\* given was compared, and each file of the source that was asked for is the
\* same on every destination or was written there, for any paths, options and
\* moves of others.
THEOREM ExitZeroMeansMergedHolds == Spec => []ExitZeroMeansMerged
<1>1. Init => MergeInv
  BY GroundsInit, GivenInit, FindsInit DEF MergeInv
<1>2. MergeInv /\ [Next]_vars => MergeInv'
  BY MergeInvStep
<1>3. MergeInv => ExitZeroMeansMerged
  BY MergedAtTheEnd
<1> QED BY <1>1, <1>2, <1>3, PTL DEF Spec

(***************************************************************************)
(* What a merge knows of its reference, while others leave it alone.       *)
(***************************************************************************)
RightRef == <<"right", "ref">>
Alike(a, b) == a.kind = b.kind /\ a.kind \in {"file", "link", "dir"}
KindsAlike(states) == Alike(StateOf(states, "right"), StateOf(states, "ref"))

\* A path is called the same as in the reference only with the same kind, and
\* is put anew only where nothing is.
JudgedBoth(states, judged) ==
  /\ RightRef \in DOMAIN judged =>
       /\ judged[RightRef].followed = NotFollowed
       /\ judged[RightRef].verdict.v \in {"same", "byContent"} => KindsAlike(states)
  /\ LeftRight \in DOMAIN judged =>
       LET j == judged[LeftRight]
       IN  /\ j.followed = NotFollowed
           /\ j.verdict.v \in {"differs", "byContent"} => j.verdict \in {V("differs"), ByContent}
           /\ j.verdict.v = "onlyFirst" => StateOf(states, "right").kind = "absent"

HashOfReference(a, p) == a.ok => a.body = world[Ref][p].body

SettledBoth(states, hashes, verdicts, p) ==
  /\ RightRef \in DOMAIN verdicts /\ verdicts[RightRef].v = "same" => KindsAlike(states)
  /\ "ref" \in DOMAIN hashes => HashOfReference(hashes["ref"], p)
  /\ (/\ LeftRight \in DOMAIN verdicts /\ verdicts[LeftRight].v \in {"differs", "onlyFirst"}
      /\ StateOf(states, "right").kind = "file" /\ StateOf(states, "ref").kind = "file"
      /\ Selects(Targets, p)) => "ref" \in DOMAIN hashes

AsReference(states, p) == StateOf(states, "ref") = OfEntry(world[Ref][p])
FromReference(c, p) == AsReference(c.states, p) /\ SettledBoth(c.states, c.hashes, c.verdicts, p)

\* What the verdict on two states says of their kinds.
LEMMA VerdictsOfKinds ==
  ASSUME NEW pair, NEW a, NEW b, NEW method, a.kind \in Kinds, b.kind \in Kinds
  PROVE  LET j == JudgeStates(pair, a, b, method)
         IN  /\ j.v \in {"same", "byContent"} => Alike(a, b)
             /\ j.v \in {"differs", "byContent"} => j \in {V("differs"), ByContent}
             /\ j.v = "onlyFirst" => b.kind = "absent"
<1> DEFINE j == JudgeStates(pair, a, b, method)
           Goal == /\ j.v \in {"same", "byContent"} => Alike(a, b)
                   /\ j.v \in {"differs", "byContent"} => j \in {V("differs"), ByContent}
                   /\ j.v = "onlyFirst" => b.kind = "absent"
<1> SUFFICES Goal
  OBVIOUS
<1>1. /\ \A x : V(x).v = x
      /\ ByContent = V("byContent")
      /\ \A w, of : Undecidable(w, of).v = "undecidable"
  BY VerdictsDiffer
<1>2. /\ \A same \in BOOLEAN : SameOrDiffers(same) \in {V("same"), V("differs")}
      /\ JudgeFiles(a, b, method) \in {V("same"), V("differs"), ByContent}
  BY DEF SameOrDiffers, JudgeFiles
<1>3. CASE a.kind = "absent" /\ b.kind = "absent"
  <2>1. j = V("bothAbsent")
    BY <1>3 DEF JudgeStates
  <2> QED BY <1>1, <2>1
<1>4. CASE a.kind \in {"unreadable", "other"} \/ b.kind \in {"unreadable", "other"}
  <2>1. j.v = "undecidable"
    BY <1>1, <1>4 DEF JudgeStates
  <2> QED BY <2>1
<1>5. CASE /\ ~(a.kind \in {"unreadable", "other"} \/ b.kind \in {"unreadable", "other"})
           /\ ~(a.kind = "absent" /\ b.kind = "absent")
  <2>1. CASE Unfollowable(a) \/ Unfollowable(b)
    <3>1. j.v = "undecidable"
      BY <1>1, <1>5, <2>1 DEF JudgeStates
    <3> QED BY <3>1
  <2>2. CASE ~(Unfollowable(a) \/ Unfollowable(b))
    <3>1. j = IF b.kind = "absent" THEN V("onlyFirst")
              ELSE IF a.kind = "absent" THEN V("onlySecond")
              ELSE IF a.kind # b.kind THEN V("kindDiffers")
              ELSE CASE a.kind = "link" -> SameOrDiffers(a.target = b.target)
                     [] a.kind = "dir" -> V("same")
                     [] a.kind = "file" -> JudgeFiles(a, b, method)
      BY <1>5, <2>2 DEF JudgeStates
    <3> HIDE DEF j
    <3>2. CASE b.kind = "absent" \/ a.kind = "absent" \/ a.kind # b.kind
      <4>1. \/ j = V("onlyFirst") /\ b.kind = "absent"
            \/ j \in {V("onlySecond"), V("kindDiffers")}
        BY <3>1, <3>2
      <4>2. j.v \in {"onlySecond", "kindDiffers"} \/ (j.v = "onlyFirst" /\ b.kind = "absent")
        BY <1>1, <4>1
      <4> QED BY <4>2
    <3>3. CASE b.kind # "absent" /\ a.kind = b.kind
      <4>1. a.kind \in {"file", "link", "dir"}
        BY <1>5, <3>3 DEF Kinds
      <4>2. j \in {V("same"), V("differs"), ByContent}
        BY <1>2, <3>1, <3>3, <4>1
      <4>3. Alike(a, b)
        BY <3>3, <4>1 DEF Alike
      <4>4. j.v \notin {"onlyFirst"} /\ (j.v = "differs" => j = V("differs")) /\ (j.v = "byContent" => j = ByContent)
        BY <1>1, <4>2
      <4> QED BY <4>3, <4>4
    <3> QED BY <3>2, <3>3
  <2> QED BY <2>1, <2>2
<1> QED BY <1>3, <1>4, <1>5

\* What becomes of a verdict with the hashes.
LEMMA PairIsSettled ==
  ASSUME NEW judged, NEW hashes, NEW gone, NEW pair \in DOMAIN judged, judged[pair].followed = NotFollowed
  PROVE  LET v == SettlePairs(judged, hashes, gone)[pair]
         IN  \/ v = judged[pair].verdict
             \/ v.v \in {"undecidable", "stopped"}
             \/ judged[pair].verdict = ByContent /\ v.v \in {"same", "differs"}
<1> DEFINE j == judged[pair]
           link == Settled(j.verdict, pair, hashes)
           followed == Settled(j.followed, pair, hashes)
           v == SettlePairs(judged, hashes, gone)[pair]
<1>1. followed = NotFollowed /\ NotFollowed.v # "stopped"
  BY VerdictsDiffer DEF Settled, NotFollowed
<1>2. \/ j.verdict # ByContent /\ link = j.verdict
      \/ j.verdict = ByContent /\ link.v \in {"same", "differs", "undecidable", "stopped"}
  BY HashesJudged DEF Settled
<1>3. SettlePair(pair, j, hashes) = link
  <2>1. SettlePair(pair, j, hashes) = IF followed.v = "stopped" /\ link.v # "stopped" THEN followed
                                      ELSE CombineLinkPair(link, followed)
    BY DEF SettlePair
  <2> HIDE DEF link, followed
  <2> QED BY <1>1, <2>1 DEF CombineLinkPair
<1>4. v = SettlePair(pair, j, hashes) \/ v.v = "undecidable"
  BY DEF SettlePairs, LosePairs, ReadFailed, Undecidable
<1> HIDE DEF v, link
<1>5. \/ v = j.verdict
      \/ v.v \in {"undecidable", "stopped"}
      \/ j.verdict = ByContent /\ v.v \in {"same", "differs"}
  BY <1>2, <1>3, <1>4
<1> QED BY <1>5 DEF v

\* With the hashes the two verdicts are settled.
LEMMA BothSettled ==
  ASSUME NEW states, NEW judged, NEW hashes, NEW gone, NEW p, JudgedBoth(states, judged),
         "ref" \in DOMAIN hashes => HashOfReference(hashes["ref"], p),
         (/\ LeftRight \in DOMAIN judged /\ judged[LeftRight].verdict \in {V("differs"), ByContent}
          /\ StateOf(states, "ref").kind = "file" /\ Selects(Targets, p)) => "ref" \in DOMAIN hashes
  PROVE  SettledBoth(states, hashes, SettlePairs(judged, hashes, gone), p)
<1> DEFINE verdicts == SettlePairs(judged, hashes, gone)
<1>1. DOMAIN verdicts = DOMAIN judged
  BY DEF SettlePairs, LosePairs
<1>2. ASSUME RightRef \in DOMAIN judged, verdicts[RightRef].v = "same" PROVE KindsAlike(states)
  <2>1. judged[RightRef].verdict.v \in {"same", "byContent"}
    <3>1. \/ verdicts[RightRef] = judged[RightRef].verdict
          \/ verdicts[RightRef].v \in {"undecidable", "stopped"}
          \/ judged[RightRef].verdict = ByContent
      BY <1>2, PairIsSettled DEF JudgedBoth
    <3> QED BY <1>2, <3>1, VerdictsDiffer
  <2> QED BY <1>2, <2>1 DEF JudgedBoth
<1>3. ASSUME LeftRight \in DOMAIN judged, verdicts[LeftRight].v \in {"differs", "onlyFirst"},
             StateOf(states, "right").kind = "file"
      PROVE  judged[LeftRight].verdict \in {V("differs"), ByContent}
  <2>1. \/ verdicts[LeftRight] = judged[LeftRight].verdict
        \/ verdicts[LeftRight].v \in {"undecidable", "stopped"}
        \/ judged[LeftRight].verdict = ByContent
    BY <1>3, PairIsSettled DEF JudgedBoth
  <2>2. judged[LeftRight].verdict.v = "onlyFirst" => StateOf(states, "right").kind = "absent"
    BY <1>3 DEF JudgedBoth
  <2>3. judged[LeftRight].verdict.v \in {"differs", "byContent"} =>
          judged[LeftRight].verdict \in {V("differs"), ByContent}
    BY <1>3 DEF JudgedBoth
  <2> HIDE DEF verdicts
  <2> QED BY <1>3, <2>1, <2>2, <2>3
<1> HIDE DEF verdicts
<1>4. SettledBoth(states, hashes, verdicts, p)
  BY <1>1, <1>2, <1>3 DEF SettledBoth
<1> QED BY <1>4 DEF verdicts

\* The contents that are read, or not, find nothing more to be the same.
LEMMA BothRead ==
  ASSUME NEW states, NEW hashes, NEW verdicts, NEW contents, NEW gone, NEW p,
         SettledBoth(states, hashes, verdicts, p)
  PROVE  /\ SettledBoth(states, hashes, ApplyReads(verdicts, contents), p)
         /\ SettledBoth(states, hashes, LosePairs(verdicts, gone), p)
<1>1. \A f : ReadOutcome(f).v \in {"undecidable", "stopped", "read"}
  BY DEF ReadOutcome, Stopped, ReadFailed, Undecidable, V
<1>2. /\ DOMAIN ApplyReads(verdicts, contents) = DOMAIN verdicts
      /\ DOMAIN LosePairs(verdicts, gone) = DOMAIN verdicts
  BY DEF ApplyReads, LosePairs
<1>3. ASSUME NEW pair \in DOMAIN verdicts
      PROVE  /\ \/ ApplyReads(verdicts, contents)[pair] = verdicts[pair]
                \/ ApplyReads(verdicts, contents)[pair].v \in {"undecidable", "stopped"}
             /\ \/ LosePairs(verdicts, gone)[pair] = verdicts[pair]
                \/ LosePairs(verdicts, gone)[pair].v = "undecidable"
  <2>1. \/ ApplyReads(verdicts, contents)[pair] = verdicts[pair]
        \/ ApplyReads(verdicts, contents)[pair].v \in {"undecidable", "stopped"}
    BY <1>1 DEF ApplyReads
  <2>2. \/ LosePairs(verdicts, gone)[pair] = verdicts[pair]
        \/ LosePairs(verdicts, gone)[pair].v = "undecidable"
    BY DEF LosePairs, ReadFailed, Undecidable
  <2> QED BY <2>1, <2>2
<1>4. ASSUME NEW after, DOMAIN after = DOMAIN verdicts,
             \A pair \in DOMAIN verdicts : after[pair] = verdicts[pair] \/ after[pair].v \in {"undecidable", "stopped"}
      PROVE  SettledBoth(states, hashes, after, p)
  BY <1>4 DEF SettledBoth
<1> QED BY <1>2, <1>3, <1>4

\* What a plan writes was asked for, and passed the check against the reference.
LEMMA PlanIsChecked ==
  ASSUME NEW cs, NEW targets, NEW options, options.check,
         NEW p \in DOMAIN MergePlan(cs, targets, options), MergePlan(cs, targets, options)[p] \in Writes
  PROVE  /\ p \in DOMAIN cs /\ Selects(targets, p)
         /\ ReferenceCheck(cs[p]) = "write" /\ MergeEntry(cs[p], options.delete) \in Writes
<1> DEFINE plan == MergePlan(cs, targets, options)
           read == WithLinkText(WithReadFailure(MergeEntry(cs[p], options.delete), cs[p]), cs[p])
           overDirectory ==
             /\ MergeEntry(cs[p], options.delete) = KindMismatch
             /\ \/ StateIn(cs[p], "right").kind = "dir"
                \/ LinkToDirectory(StateIn(cs[p], "right"))
<1>1. plan[p] \in Changes
  BY DEF Changes
<1>2. p \in DOMAIN cs /\ plan[p] = MergeEntry(cs[p], options.delete)
  BY <1>1, PlanIsOfEntry
<1>3. \/ plan[p] = Entry("notFound")
      \/ plan[p] = WithReference(read, cs[p]) /\ (Selects(targets, p) \/ overDirectory)
  BY DEF MergePlan, WithoutSkippedSubtrees
<1>4. plan[p] = WithReference(read, cs[p]) /\ (Selects(targets, p) \/ overDirectory)
  BY <1>1, <1>3, EntriesDiffer
<1> HIDE DEF plan, read
<1>5. plan[p] \in Writes
  BY DEF plan
<1>6. plan[p] # KindMismatch /\ \A why : plan[p] # Fail(why)
  BY <1>5, EntriesAreNamed DEF Writes, KindMismatch
<1>7. ReferenceCheck(cs[p]) = "write"
  BY <1>4, <1>5, <1>6 DEF WithReference
<1>8. Selects(targets, p)
  BY <1>2, <1>4, <1>6
<1> QED BY <1>2, <1>5, <1>7, <1>8

\* What is written was only in the source, or differed.
LEMMA EntryIsWritten ==
  ASSUME NEW c, NEW delete, MergeEntry(c, delete) \in Writes
  PROVE  LeftRight \in DOMAIN c.verdicts /\ c.verdicts[LeftRight].v \in {"onlyFirst", "differs"}
<1> DEFINE verdict == VerdictOn(c, LeftRight)
<1>1. /\ \A why : Fail(why) \notin Writes
      /\ {Entry("absent"), Entry("nothing"), Entry("delete"), KindMismatch} \cap Writes = {}
      /\ \A d, x : DestinationOnly(d, x) \notin Writes
  <2>1. \A x \in {"absent", "nothing", "delete"} : Entry(x) \notin Writes
    BY EntriesAreNamed DEF Writes
  <2>2. \A x : Skip(x) \notin Writes /\ Fail(x) \notin Writes
    BY EntriesAreNamed DEF Writes
  <2>3. \A d, x : DestinationOnly(d, x) \in {Entry("delete"), Skip("linkNotDeleted"), Skip("destinationOnly"),
                                             Entry("nothing")}
    BY DEF DestinationOnly
  <2> QED BY <2>1, <2>2, <2>3 DEF KindMismatch
<1>2. verdict.v \in {"onlyFirst", "differs"}
  <2> DEFINE source == StateIn(c, "left")
             destination == StateIn(c, "right")
             directories == \/ source.kind = "dir" /\ LinkToDirectory(destination)
                            \/ destination.kind = "dir" /\ LinkToDirectory(source)
  <2>1. MergeEntry(c, delete) =
          CASE verdict.v = "bothAbsent" -> Entry("absent")
            [] verdict.v = "undecidable" -> Fail(verdict.why)
            [] verdict.v \in {"onlyFirst", "differs"} -> Written(source)
            [] verdict.v = "onlySecond" -> DestinationOnly(destination, delete)
            [] verdict.v = "kindDiffers" /\ ~directories -> KindMismatch
            [] OTHER -> Entry("nothing")
    BY DEF MergeEntry
  <2> HIDE DEF verdict, source, destination, directories
  <2>2. \/ verdict.v \in {"onlyFirst", "differs"}
        \/ MergeEntry(c, delete) \in {Entry("absent"), Fail(verdict.why), DestinationOnly(destination, delete),
                                      KindMismatch, Entry("nothing")}
    BY <2>1
  <2> QED BY <1>1, <2>2
<1>3. NotCompared.v = "notCompared"
  BY VerdictsDiffer DEF NotCompared
<1> QED BY <1>2, <1>3 DEF VerdictOn

\* The check against the reference finds neither, or both alike.
LEMMA CheckedAlike ==
  ASSUME NEW c, ReferenceCheck(c) = "write"
  PROVE  \/ ~Present(StateIn(c, "right")) /\ ~Present(StateIn(c, "ref"))
         \/ Same(c, "right") = "same"
BY DEF ReferenceCheck

\* What passed the check, and is seen, is what the reference has.
LEMMA SeenAlike ==
  ASSUME NEW c, NEW p, NEW delete,
         SettledBoth(c.states, c.hashes, c.verdicts, p), Selects(Targets, p),
         ReferenceCheck(c) = "write", MergeEntry(c, delete) \in Writes,
         StateIn(c, "right").kind # "dir", Observed(c.states, c.hashes, "right") # NotObserved
  PROVE  LET here == StateIn(c, "right")
             there == StateIn(c, "ref")
             seen == Observed(c.states, c.hashes, "right")
         IN  \/ seen.kind = "absent" /\ ~Present(there)
             \/ /\ seen = [kind |-> "file", body |-> c.hashes["right"].body] /\ there.kind = "file"
                /\ "ref" \in DOMAIN c.hashes /\ c.hashes["ref"].ok
                /\ c.hashes["ref"].body = c.hashes["right"].body
             \/ seen = [kind |-> "link", target |-> there.target] /\ there.kind = "link"
<1> DEFINE here == StateIn(c, "right")
           there == StateIn(c, "ref")
           seen == Observed(c.states, c.hashes, "right")
           Goal == \/ seen.kind = "absent" /\ ~Present(there)
                   \/ /\ seen = [kind |-> "file", body |-> c.hashes["right"].body] /\ there.kind = "file"
                      /\ "ref" \in DOMAIN c.hashes /\ c.hashes["ref"].ok
                      /\ c.hashes["ref"].body = c.hashes["right"].body
                   \/ seen = [kind |-> "link", target |-> there.target] /\ there.kind = "link"
<1> SUFFICES Goal
  OBVIOUS
<1>1. /\ here = StateOf(c.states, "right") /\ there = StateOf(c.states, "ref")
      /\ here.kind # "dir" /\ seen # NotObserved
  BY DEF StateIn
<1>2. LeftRight \in DOMAIN c.verdicts /\ c.verdicts[LeftRight].v \in {"onlyFirst", "differs"}
  BY EntryIsWritten
<1>3. /\ here.kind = "absent" => seen = [kind |-> "absent"]
      /\ here.kind = "link" => seen = [kind |-> "link", target |-> here.target]
      /\ here.kind = "file" => /\ seen = [kind |-> "file", body |-> c.hashes["right"].body]
                               /\ "right" \in DOMAIN c.hashes /\ c.hashes["right"].ok
      /\ here.kind \notin {"notCollected"}
  <2> DEFINE state == StateOf(c.states, "right")
  <2>1. seen = CASE state.kind \in {"absent", "other", "dir"} -> [kind |-> state.kind]
                 [] state.kind = "link" -> [kind |-> "link", target |-> state.target]
                 [] state.kind = "file" /\ "right" \in DOMAIN c.hashes /\ c.hashes["right"].ok ->
                      [kind |-> "file", body |-> c.hashes["right"].body]
                 [] OTHER -> NotObserved
    BY DEF Observed
  <2>2. state = here
    BY <1>1
  <2> HIDE DEF seen, state, here
  <2> QED BY <1>1, <2>1, <2>2
<1>4. CASE ~Present(here) /\ ~Present(there)
  <2>1. here.kind = "absent"
    BY <1>3, <1>4 DEF Present
  <2>2. seen.kind = "absent"
    BY <1>3, <2>1
  <2> QED BY <1>4, <2>2
<1>5. CASE Same(c, "right") = "same"
  <2> DEFINE alike == VerdictOn(c, RightRef) = V("same")
             byVerdict == IF alike THEN "same" ELSE "changed"
  <2>1. Same(c, "right") =
          IF here.kind = "file" /\ there.kind = "file"
          THEN IF FailuresOf(c.hashes, {"right", "ref"}) # {} THEN "unknown"
               ELSE IF {"right", "ref"} \subseteq DOMAIN c.hashes
               THEN IF c.hashes["right"] = c.hashes["ref"] THEN "same" ELSE "changed"
               ELSE byVerdict
          ELSE IF here.kind = "link" /\ there.kind = "link"
          THEN IF here.target = there.target THEN "same" ELSE "changed"
          ELSE byVerdict
    BY DEF Same, RightRef
  <2>2. alike => here.kind = there.kind /\ here.kind \in {"file", "link", "dir"}
    <3>1. alike => RightRef \in DOMAIN c.verdicts /\ c.verdicts[RightRef].v = "same"
      BY VerdictsDiffer DEF VerdictOn, NotCompared
    <3> QED BY <1>1, <3>1 DEF SettledBoth, KindsAlike, Alike
  <2>3. CASE here.kind = "file" /\ there.kind = "file"
    <3>1. {"right", "ref"} \subseteq DOMAIN c.hashes
      BY <1>1, <1>2, <1>3, <2>3 DEF SettledBoth
    <3>2. c.hashes["right"] = c.hashes["ref"]
      <4> HIDE DEF byVerdict, here, there
      <4> QED BY <1>5, <2>1, <2>3, <3>1
    <3> QED BY <1>3, <2>3, <3>1, <3>2
  <2>4. CASE here.kind = "link" /\ there.kind = "link"
    <3>1. here.target = there.target
      <4> HIDE DEF byVerdict, here, there
      <4> QED BY <1>5, <2>1, <2>4
    <3> QED BY <1>3, <2>4, <3>1
  <2>5. CASE ~(here.kind = "file" /\ there.kind = "file") /\ ~(here.kind = "link" /\ there.kind = "link")
    <3>1. alike
      <4> HIDE DEF alike, here, there
      <4> QED BY <1>5, <2>1, <2>5
    <3> QED BY <1>1, <2>2, <2>5, <3>1
  <2> QED BY <2>3, <2>4, <2>5
<1> QED BY <1>4, <1>5, CheckedAlike

\* A merge that checks a reference.
Checking == opts.command = "merge" /\ ReadsOptions.check

ShowsReference(listing) ==
  /\ \A p \in DOMAIN listing.entries : listing.entries[p] = OfEntry(world[Ref][p])
  /\ ~listing.truncated => {p \in There(Ref) : Shown(p)} \subseteq DOMAIN listing.entries
ReferenceListed ==
  /\ pc = "collected" => "ref" \in DOMAIN listings
  /\ pc \in Comparison /\ "ref" \in DOMAIN listings => ShowsReference(listings["ref"])

ReferenceAnswered ==
  /\ pc = "hash" => "ref" \notin DOMAIN answers
  /\ pc = "judge" => /\ Answered("ref")
                     /\ \A p \in DOMAIN answers["ref"] : HashOfReference(answers["ref"][p], p)

TableOfReference ==
  incomplete = {} /\ pc \in {"hash", "judge", "read", "settle"} =>
    \A p \in DOMAIN table : AsReference(table[p].states, p) /\ JudgedBoth(table[p].states, table[p].judged)
HashedOfReference ==
  incomplete = {} /\ pc \in {"read", "settle"} =>
    \A p \in DOMAIN table : SettledBoth(table[p].states, hashed[p].hashes, hashed[p].verdicts, p)
ComparedOfReference ==
  incomplete = {} /\ pc \in Comparison => \A p \in DOMAIN compared : FromReference(compared[p], p)
PlansOfReference ==
  \A i \in DOMAIN plans : \A p \in DOMAIN plans[i].compared : FromReference(plans[i].compared[p], p)

\* The sides of such a merge, in their order.
LEMMA CheckedSides ==
  ASSUME Grounds, Checking
  PROVE  /\ Plain /\ Merging /\ ~Syncing /\ WithRef
         /\ Rights[right] \in Sides \ {Ref} /\ Ref \in Sides
         /\ Len(RoleSeq) = 3 /\ role \in 1 .. 3
         /\ Asked = IF role = 1 THEN "left" ELSE IF role = 2 THEN "right" ELSE "ref"
         /\ SideOf("ref") = Ref /\ (SideOf(Asked) = Ref => Asked = "ref")
<1>1. Plain /\ Merging /\ ~Syncing /\ WithRef
  BY DEF Checking, Plain, Merging, Syncing, ReadsOptions
<1>2. Rights[right] \in Sides \ {Left} /\ right \in DOMAIN Rights
  BY SideFacts DEF Grounds, Places, OptionsOK
<1>3. Rights[right] # Ref
  <2>1. Ref \notin {opts.rights[i] : i \in DOMAIN opts.rights}
    BY <1>1 DEF Grounds, Places, OptionsOK, SidesAccepted, WithRef, Syncing
  <2> QED BY <1>2, <2>1 DEF Rights
<1>4. Len(RoleSeq) = 3
  BY <1>1 DEF RoleSeq
<1>5. /\ role \in 1 .. Len(RoleSeq)
      /\ Asked = IF role = 1 THEN "left" ELSE IF role = 2 THEN "right" ELSE "ref"
  BY RolesInOrder DEF Grounds, Places
<1>6. SideOf("ref") = Ref /\ SideOf("left") = Left /\ SideOf("right") = Rights[right]
  BY SideFacts DEF Grounds, Places
<1>7. Left # Ref
  BY DEF Left, Ref
<1> QED BY <1>1, <1>2, <1>3, <1>4, <1>5, <1>6, <1>7, StartsAreProper

\* Neither others nor the merge itself touch the reference.
LEMMA ReferenceStays ==
  ASSUME ReferenceIsLeftAlone, Grounds, Checking, [Next]_vars
  PROVE  world'[Ref] = world[Ref] /\ Checking'
<1>1. Checking'
  BY OptsStay, AskedForStays DEF Checking
<1>2. Rights[right] # Ref /\ Ref \in Sides /\ DOMAIN world = Sides
  BY CheckedSides DEF Grounds, Trees
<1>3. CASE world' = world
  BY <1>1, <1>3
<1>4. CASE OthersStep
  <2>1. PICK m \in OthersMay : world' = Put(m[1], m[2], m[3])
    BY <1>4 DEF OthersStep
  <2>2. m[1] # Ref
    BY DEF ReferenceIsLeftAlone
  <2> QED BY <1>1, <1>2, <2>1, <2>2 DEF Put
<1>5. ASSUME NEW p, Applies(p) PROVE world'[Ref] = world[Ref]
  <2> DEFINE side == Rights[right]
  <2>1. world' = Put(side, p, NewThing(right, p)) \/ world' = WithParents(side, p, Put(side, p, NewThing(right, p)))
    BY <1>5 DEF Applies
  <2> HIDE DEF side
  <2>2. \A thing : DOMAIN Put(side, p, thing) = Sides /\ (side # Ref => Put(side, p, thing)[Ref] = world[Ref])
    BY <1>2 DEF Put
  <2>3. \A put : DOMAIN put = Sides /\ side # Ref => WithParents(side, p, put)[Ref] = put[Ref]
    BY <1>2 DEF WithParents
  <2> QED BY <1>2, <2>1, <2>2, <2>3 DEF side
<1> QED BY <1>1, <1>3, <1>4, <1>5, OthersElseLeaveTheSides

\* What is known of the reference is known after a step.
LEMMA KnownOfReferenceStays ==
  ASSUME world'[Ref] = world[Ref], opts' = opts
  PROVE  /\ \A a, p : HashOfReference(a, p)' <=> HashOfReference(a, p)
         /\ \A states, p : AsReference(states, p)' <=> AsReference(states, p)
         /\ \A states, hashes, verdicts, p :
              SettledBoth(states, hashes, verdicts, p)' <=> SettledBoth(states, hashes, verdicts, p)
         /\ \A c, p : FromReference(c, p)' <=> FromReference(c, p)
         /\ names' = names => \A listing : ShowsReference(listing)' <=> ShowsReference(listing)
         /\ table' = table => \A r : ToHash(r)' = ToHash(r)
<1>1. \A a, p : HashOfReference(a, p)' <=> HashOfReference(a, p)
  BY DEF HashOfReference
<1>2. \A states, p : AsReference(states, p)' <=> AsReference(states, p)
  BY DEF AsReference
<1>3. Targets' = Targets /\ ReadsOptions' = ReadsOptions /\ Named' = Named
  BY AskedForStays
<1>4. \A states, hashes, verdicts, p :
        SettledBoth(states, hashes, verdicts, p)' <=> SettledBoth(states, hashes, verdicts, p)
  BY <1>1, <1>3 DEF SettledBoth
<1>5. \A c, p : FromReference(c, p)' <=> FromReference(c, p)
  BY <1>2, <1>4 DEF FromReference
<1>6. ASSUME names' = names PROVE \A listing : ShowsReference(listing)' <=> ShowsReference(listing)
  <2>1. There(Ref)' = There(Ref) /\ \A p : Shown(p)' <=> Shown(p)
    BY <1>6, ShownStays DEF There
  <2> QED BY <2>1 DEF ShowsReference
<1>7. ASSUME table' = table PROVE \A r : ToHash(r)' = ToHash(r)
  <2>1. \A p : UsesPath(p)' = UsesPath(p)
    BY <1>3 DEF UsesPath
  <2>2. \A p : RolesToHash(p)' = RolesToHash(p)
    BY <1>3, <1>7, <2>1 DEF RolesToHash
  <2> QED BY <1>7, <2>2 DEF ToHash
<1> QED BY <1>1, <1>2, <1>4, <1>5, <1>6, <1>7

\* The listing of the reference shows what it has.
LEMMA ReferenceListing ==
  ASSUME Grounds, Checking, List
  PROVE  \E listing : AfterListing(listing) /\ (Asked = "ref" => ShowsReference(listing))
<1>1. ~FromCache
  BY DEF FromCache, Checking
<1> DEFINE side == SideOf(Asked)
           seen == Seen(side)
<1>2. PICK kept \in Kept(seen) : AfterListing(ListingOf(side, kept, seen))
  BY <1>1 DEF List
<1> DEFINE listing == ListingOf(side, kept, seen)
<1>3. seen = {p \in There(side) : Shown(p)}
  BY DEF Seen, Shown, InDirectories, InScan
<1>4. /\ DOMAIN listing.entries = kept /\ listing.truncated = (kept # seen)
      /\ \A p \in kept : listing.entries[p] = OfEntry(world[side][p])
  BY DEF ListingOf
<1> HIDE DEF listing, seen
<1>5. side = Ref => ShowsReference(listing)
  BY <1>3, <1>4 DEF ShowsReference
<1>6. Asked = "ref" => side = Ref
  BY CheckedSides
<1> QED BY <1>2, <1>5, <1>6 DEF listing

LEMMA ReferenceListedStep ==
  ASSUME ReferenceIsLeftAlone, Grounds, Checking, RolesListed, ReferenceListed, [Next]_vars
  PROVE  ReferenceListed'
<1> USE DEF asking
<1>1. Plain /\ world'[Ref] = world[Ref] /\ opts' = opts
  BY CheckedSides, ReferenceStays, OptsStay
<1>2. ASSUME UNCHANGED <<names, listings>>, pc \in Comparison \/ pc' \notin Comparison,
             pc' = "collected" => pc = "collected"
      PROVE  ReferenceListed'
  BY <1>1, <1>2, KnownOfReferenceStays DEF ReferenceListed, Comparison
<1>3. CASE Idles
  <2>1. UNCHANGED <<names, listings>> /\ (pc' = pc \/ (pc = "connect" /\ pc' = "list"))
    BY <1>3 DEF Idles
  <2> QED BY <1>2, <2>1 DEF Comparison
<1>4. CASE Turns
  BY <1>4, TurnsAnew DEF Grounds, ReferenceListed, Comparison
<1>5. CASE List /\ \E listing : Lists(listing)
  <2>1. PICK listing : AfterListing(listing) /\ (Asked = "ref" => ShowsReference(listing))
    BY <1>5, ReferenceListing
  <2>2. PICK other : Lists(other)
    BY <1>5
  <2>3. pc = "list" /\ (pc' = "collected" => Asked = "ref" /\ "ref" \in DOMAIN listings')
    <3>1. /\ pc = "list" /\ (pc' = "collected" => role = 3)
          /\ listings' = Extended(listings, Only(Asked, other))
      BY <2>2, CheckedSides DEF Lists
    <3>2. pc' = "collected" => Asked = "ref"
      BY <3>1, CheckedSides
    <3> DEFINE asked == Asked
    <3>3. asked \in DOMAIN Extended(listings, Only(asked, other))
      <4> HIDE DEF asked
      <4> QED BY DEF Extended, Only
    <3> QED BY <3>1, <3>2, <3>3
  <2>4. pc' \in {"list", "collected"} /\ names' = names
    BY <2>2 DEF Lists
  <2>5. listings' = Extended(listings, Only(Asked, listing))
    BY <1>1, <2>1, <2>3, <2>4, AfterIt
  <2>6. ASSUME "ref" \in DOMAIN listings' PROVE ShowsReference(listings'["ref"])
    <3> DEFINE asked == Asked
    <3>1. \/ "ref" \in DOMAIN listings /\ listings'["ref"] = listings["ref"]
          \/ "ref" = asked /\ listings'["ref"] = listing
      <4>1. listings' = Extended(listings, Only(asked, listing))
        BY <2>5
      <4> HIDE DEF asked
      <4> QED BY <2>6, <4>1 DEF Extended, Only
    <3> QED BY <2>1, <2>3, <3>1 DEF ReferenceListed, Comparison
  <2> QED BY <1>1, <2>3, <2>4, <2>6, KnownOfReferenceStays DEF ReferenceListed
<1>6. CASE Collect \/ Settle
  BY <1>6 DEF Collect, Settle, NewRound, ReferenceListed
<1>7. CASE Ask \/ Loses \/ Judge
  <2>1. pc \in Comparison /\ pc' \notin {"list", "collected"} /\ UNCHANGED <<names, listings>>
    BY <1>7 DEF Ask, Loses, Judge, NextRole, Comparison
  <2> QED BY <1>2, <2>1
<1>8. CASE Confirm \/ Change \/ Report
  <2>1. pc' \in {"apply", "ended"}
    BY <1>8 DEF Confirm, Change, Report, EndWith
  <2> QED BY <2>1 DEF ReferenceListed, Comparison
<1> QED BY <1>1, <1>3, <1>4, <1>5, <1>6, <1>7, <1>8, MergeSteps DEF Grounds

\* A hash that is read of the reference is that of what it has.
LEMMA ReferenceIsRead ==
  ASSUME pc = "hash", NEW p
  PROVE  HashOfReference(ReadAt(Ref, p), p)
<1>1. ReadAt(Ref, p) = BodyAt(Ref, p)
  BY DEF ReadAt
<1>2. \A f : ~Failure(f).ok
  BY DEF Failure
<1>3. \/ \E f : BodyAt(Ref, p) = Failure(f)
      \/ BodyAt(Ref, p) = Answer(world[Ref][p].body)
  BY DEF BodyAt
<1> QED BY <1>1, <1>2, <1>3 DEF HashOfReference, Answer

LEMMA ReferenceAnsweredStep ==
  ASSUME ReferenceIsLeftAlone, Grounds, Checking, RolesListed, RolesAnswered, ReferenceAnswered, [Next]_vars
  PROVE  ReferenceAnswered'
<1> USE DEF asking
<1>1. Plain /\ world'[Ref] = world[Ref] /\ opts' = opts
  BY CheckedSides, ReferenceStays, OptsStay
<1>2. /\ \A a, p : HashOfReference(a, p)' <=> HashOfReference(a, p)
      /\ table' = table => \A r : ToHash(r)' = ToHash(r)
  BY <1>1, KnownOfReferenceStays
<1>3. CASE Idles
  <2>1. UNCHANGED <<answers, table>> /\ (pc' = pc \/ (pc = "connect" /\ pc' = "list"))
    BY <1>3 DEF Idles
  <2> QED BY <1>2, <2>1 DEF ReferenceAnswered, Answered
<1>4. CASE Turns
  BY <1>4, TurnsAnew DEF Grounds, ReferenceAnswered
<1>5. CASE (\E listing : Lists(listing)) \/ Judge \/ Settle
  BY <1>5 DEF Lists, Judge, Settle, ReferenceAnswered
<1>6. CASE Collect
  BY <1>6 DEF Collect, ReferenceAnswered, RolesAnswered
<1>7. CASE Ask
  <2>1. PICK known : /\ answers' = Extended(answers, Only(Asked, [p \in WantedOf(Asked) |-> known[p]]))
                     /\ known = Extended(Known, [p \in WantedOf(Asked) |-> ReadAt(SideOf(Asked), p)])
    BY <1>7, AskAnswers
  <2>2. pc \in {"hash", "read"} /\ NextRole /\ table' = table
    BY <1>7 DEF Ask
  <2>3. CASE pc = "read"
    BY <2>2, <2>3 DEF NextRole, ReferenceAnswered
  <2>4. CASE pc = "hash"
    <3> DEFINE asked == Asked
               wanted == ToHash(Asked)
               side == SideOf(Asked)
    <3>1. answers' = Extended(answers, Only(asked, [p \in wanted |-> known[p]]))
      BY <2>1, <2>4 DEF WantedOf
    <3>2. known = Extended(<<>>, [p \in wanted |-> ReadAt(side, p)])
      BY <2>1, <2>4 DEF WantedOf, Known, Checking
    <3> HIDE DEF asked, wanted, side
    <3>3. \A p \in wanted : known[p] = ReadAt(side, p)
      BY <3>2 DEF Extended
    <3>4. DOMAIN answers' = DOMAIN answers \cup {asked}
      BY <3>1 DEF Extended, Only
    <3>5. asked \notin DOMAIN answers => /\ DOMAIN answers'[asked] = wanted
                                         /\ \A p \in wanted : answers'[asked][p] = known[p]
      BY <3>1 DEF Extended, Only
    <3>6. "ref" \notin DOMAIN answers
      BY <2>4 DEF ReferenceAnswered
    <3>7. CASE role < 3
      <4>1. asked # "ref"
        BY <3>7, CheckedSides DEF asked
      <4>2. pc' = "hash"
        BY <2>2, <2>4, <3>7, CheckedSides DEF NextRole
      <4> QED BY <3>4, <3>6, <4>1, <4>2 DEF ReferenceAnswered
    <3>8. CASE ~(role < 3)
      <4>1. asked = "ref" /\ side = Ref
        BY <3>8, CheckedSides DEF asked, side
      <4>2. pc' = "judge"
        BY <2>2, <2>4, <3>8, CheckedSides DEF NextRole
      <4>3. /\ "ref" \in DOMAIN answers' /\ DOMAIN answers'["ref"] = wanted
            /\ \A p \in wanted : answers'["ref"][p] = ReadAt(Ref, p)
        BY <3>3, <3>4, <3>5, <3>6, <4>1
      <4>4. wanted = ToHash("ref")'
        BY <1>2, <2>2, <4>1 DEF asked, wanted
      <4> QED BY <1>2, <2>4, <4>2, <4>3, <4>4, ReferenceIsRead DEF ReferenceAnswered, Answered
    <3> QED BY <3>7, <3>8
  <2> QED BY <2>2, <2>3, <2>4
<1>8. CASE Loses
  <2>1. Asked = "right" /\ pc \in {"hash", "read"} /\ NextRole /\ UNCHANGED answers
    BY <1>8 DEF Loses
  <2>2. role = 2
    BY <2>1, CheckedSides
  <2>3. pc' = pc
    <3>1. Len(RoleSeq) = 3
      BY CheckedSides
    <3> QED BY <2>1, <2>2, <3>1 DEF NextRole
  <2> QED BY <2>1, <2>3 DEF ReferenceAnswered
<1>9. CASE Confirm \/ Change \/ Report
  <2>1. pc' \in {"apply", "ended"}
    BY <1>9 DEF Confirm, Change, Report, EndWith
  <2> QED BY <2>1 DEF ReferenceAnswered
<1> QED BY <1>1, <1>3, <1>4, <1>5, <1>6, <1>7, <1>8, <1>9, MergeSteps DEF Grounds

\* The table has the reference as it is.
LEMMA CollectOfReference ==
  ASSUME ReferenceIsLeftAlone, Grounds, Checking, RolesListed, ReferenceListed, [Next]_vars, Collect
  PROVE  TableOfReference'
<1> DEFINE states == StateTable(listings, outside)
<1>1. /\ pc = "collected" /\ pc' = "hash" /\ UNCHANGED <<opts, incomplete>>
      /\ table' = [p \in DOMAIN states |-> [states |-> states[p], judged |-> Judged(p, states[p])]]
  BY DEF Collect
<1>2. SUFFICES ASSUME incomplete = {}, NEW p \in DOMAIN states
               PROVE  AsReference(states[p], p) /\ JudgedBoth(states[p], Judged(p, states[p]))
  <2>1. \A s, q : AsReference(s, q)' <=> AsReference(s, q)
    BY <1>1, ReferenceStays, KnownOfReferenceStays
  <2> HIDE DEF states
  <2> QED BY <1>1, <1>2, <2>1 DEF TableOfReference
<1>3. ListedWhole /\ pc \in Comparison
  BY <1>1, CheckedSides DEF Grounds, SourceKnown, MergeKnown, Comparison
<1>4. /\ {"left", "right", "ref"} \subseteq DOMAIN listings
      /\ \A r \in DOMAIN listings : ~listings[r].truncated /\ ~listings[r].cycle
      /\ DOMAIN outside = DOMAIN listings /\ \A r \in DOMAIN outside : outside[r] = {}
      /\ \A r \in DOMAIN listings : Real(listings[r])
  BY <1>1, <1>2, <1>3 DEF RolesListed, ReferenceListed, ListedWhole
<1>5. ShowsReference(listings["ref"])
  BY <1>3, <1>4 DEF ReferenceListed
<1>6. PICK r0 \in DOMAIN listings : p \in DOMAIN listings[r0].entries
  BY <1>2 DEF StateTable
<1>7. Shown(p) /\ p \in Paths
  BY <1>3, <1>6 DEF ListedWhole, Real
<1> DEFINE at == states[p].states
           method == MethodFor(p)
<1>8. DOMAIN at = DOMAIN listings
  BY <1>2, <1>4 DEF StateTable
<1>9. \A s \in DOMAIN listings :
        \/ p \in DOMAIN listings[s].entries /\ at[s] = listings[s].entries[p]
        \/ p \notin DOMAIN listings[s].entries /\ at[s] = Absent
  BY <1>2, <1>8, StatesOfTable
<1> HIDE DEF states
<1>10. \A s \in DOMAIN listings : at[s].kind \in Kinds
  BY <1>4, <1>9 DEF Real, Absent, Kinds
<1>11. StateOf(states[p], "right") = at["right"] /\ StateOf(states[p], "ref") = at["ref"]
  BY <1>4, <1>8 DEF StateOf
<1>12. at["ref"] = OfEntry(world[Ref][p])
  <2>1. CASE p \in DOMAIN listings["ref"].entries
    BY <1>4, <1>5, <1>9, <2>1 DEF ShowsReference
  <2>2. CASE p \notin DOMAIN listings["ref"].entries
    <3>1. at["ref"] = Absent
      BY <1>4, <1>9, <2>2
    <3>2. world[Ref][p] = NoWorld
      BY <1>4, <1>5, <1>7, <2>2 DEF ShowsReference, There
    <3>3. OfEntry(NoWorld) = Absent
      BY DEF OfEntry, NoWorld, Absent
    <3> QED BY <3>1, <3>2, <3>3
  <2> QED BY <2>1, <2>2
<1>13. Judged(p, states[p]) = JudgePairs(states[p], method, FALSE)
  BY CheckedSides DEF Judged, JudgesReference, Plain
<1>14. ASSUME NEW pair \in {LeftRight, RightRef}
       PROVE  /\ pair[1] \in DOMAIN listings /\ pair[2] \in DOMAIN listings
              /\ pair \in DOMAIN JudgePairs(states[p], method, FALSE)
              /\ JudgePairs(states[p], method, FALSE)[pair] =
                   [verdict |-> JudgeStates(pair, at[pair[1]], at[pair[2]], method),
                    followed |-> NotFollowed]
  <2>1. pair \in Pairs /\ pair[1] \in {"left", "right"} /\ pair[2] \in {"right", "ref"}
    BY DEF LeftRight, RightRef, Pairs
  <2> HIDE DEF method
  <2> QED BY <1>4, <1>8, <2>1 DEF JudgePairs
<1> HIDE DEF at, method
<1> DEFINE judged == Judged(p, states[p])
           one == JudgeStates(LeftRight, at["left"], at["right"], method)
           two == JudgeStates(RightRef, at["right"], at["ref"], method)
<1>15. /\ judged[LeftRight] = [verdict |-> one, followed |-> NotFollowed]
       /\ judged[RightRef] = [verdict |-> two, followed |-> NotFollowed]
  <2>1. LeftRight[1] = "left" /\ LeftRight[2] = "right" /\ RightRef[1] = "right" /\ RightRef[2] = "ref"
    BY DEF LeftRight, RightRef
  <2> QED BY <1>13, <1>14, <2>1
<1>16. /\ one.v \in {"differs", "byContent"} => one \in {V("differs"), ByContent}
       /\ one.v = "onlyFirst" => at["right"].kind = "absent"
       /\ two.v \in {"same", "byContent"} => Alike(at["right"], at["ref"])
  BY <1>4, <1>10, VerdictsOfKinds
<1> HIDE DEF judged, one, two
<1>17. JudgedBoth(states[p], judged)
  BY <1>11, <1>15, <1>16 DEF JudgedBoth, KindsAlike
<1> QED BY <1>11, <1>12, <1>17 DEF AsReference, judged

LEMMA TableOfReferenceStep ==
  ASSUME ReferenceIsLeftAlone, Grounds, Checking, RolesListed, ReferenceListed, TableOfReference, [Next]_vars
  PROVE  TableOfReference'
<1> USE DEF asking
<1> DEFINE reading == {"hash", "judge", "read", "settle"}
<1>1. Plain /\ \A s, q : AsReference(s, q)' <=> AsReference(s, q)
  BY CheckedSides, ReferenceStays, OptsStay, KnownOfReferenceStays
<1>2. ASSUME UNCHANGED <<incomplete, table>>, pc \in reading \/ pc' \notin reading
      PROVE  TableOfReference'
  BY <1>1, <1>2 DEF TableOfReference
<1>3. CASE Idles
  BY <1>2, <1>3 DEF Idles
<1>4. CASE Ask \/ Loses \/ Judge
  BY <1>2, <1>4 DEF Ask, Loses, Judge
<1>5. pc' \notin reading => TableOfReference'
  BY DEF TableOfReference
<1>6. CASE Turns
  BY <1>5, <1>6, TurnsAnew DEF Grounds
<1>7. CASE (\E listing : Lists(listing)) \/ Settle
  BY <1>5, <1>7 DEF Lists, Settle
<1>8. CASE Confirm \/ Change \/ Report
  BY <1>5, <1>8 DEF Confirm, Change, Report, EndWith
<1> QED BY <1>1, <1>3, <1>4, <1>6, <1>7, <1>8, CollectOfReference, MergeSteps DEF Grounds

\* With the hashes the verdicts with the reference are settled.
LEMMA JudgeOfReference ==
  ASSUME ReferenceIsLeftAlone, Grounds, Checking, ReferenceAnswered, TableOfReference, [Next]_vars, Judge
  PROVE  HashedOfReference'
<1>1. /\ pc = "judge" /\ UNCHANGED <<incomplete, table>>
      /\ hashed' = [p \in DOMAIN table |->
                      [hashes |-> AnswersFor(p),
                       verdicts |-> SettlePairs(table[p].judged, AnswersFor(p), LostFor(p))]]
  BY DEF Judge
<1>2. SUFFICES ASSUME incomplete = {}, NEW p \in DOMAIN table
               PROVE  SettledBoth(table[p].states, AnswersFor(p),
                                  SettlePairs(table[p].judged, AnswersFor(p), LostFor(p)), p)
  <2>1. \A states, hashes, verdicts, q :
          SettledBoth(states, hashes, verdicts, q)' <=> SettledBoth(states, hashes, verdicts, q)
    BY ReferenceStays, OptsStay, KnownOfReferenceStays
  <2> QED BY <1>1, <1>2, <2>1 DEF HashedOfReference
<1> DEFINE hashes == AnswersFor(p)
           judged == table[p].judged
           states == table[p].states
<1>3. JudgedBoth(states, judged)
  BY <1>1, <1>2 DEF TableOfReference
<1>4. Answered("ref") /\ \A q \in DOMAIN answers["ref"] : HashOfReference(answers["ref"][q], q)
  BY <1>1 DEF ReferenceAnswered
<1>5. "ref" \in DOMAIN hashes => HashOfReference(hashes["ref"], p)
  BY <1>4 DEF AnswersFor
<1>6. ASSUME LeftRight \in DOMAIN judged, judged[LeftRight].verdict \in {V("differs"), ByContent},
             StateOf(states, "ref").kind = "file", Selects(Targets, p)
      PROVE  "ref" \in DOMAIN hashes
  <2>1. ReadsOptions.check /\ opts.command = "merge"
    BY DEF Checking
  <2>2. "ref" \in MergeHashes(states, judged, ReadsOptions)
    BY <1>6, <2>1 DEF MergeHashes, FilesAmong, IsFile, Roles
  <2>3. "ref" \in RolesToHash(p)
    <3>1. UsesPath(p) /\ HashesUsed(opts.command, states, judged, ReadsOptions)
                           = MergeHashes(states, judged, ReadsOptions)
      BY <1>6, <2>1 DEF UsesPath, HashesUsed
    <3> QED BY <2>2, <3>1 DEF RolesToHash
  <2>4. p \in ToHash("ref")
    BY <1>6, <2>3 DEF ToHash, HasContent
  <2> QED BY <1>4, <2>4 DEF Answered, AnswersFor
<1> DEFINE gone == LostFor(p)
<1> HIDE DEF hashes, judged, states, gone
<1>7. SettledBoth(states, hashes, SettlePairs(judged, hashes, gone), p)
  BY <1>3, <1>5, <1>6, BothSettled
<1> QED BY <1>7 DEF hashes, judged, states, gone

LEMMA HashedOfReferenceStep ==
  ASSUME ReferenceIsLeftAlone, Grounds, Checking, ReferenceAnswered, TableOfReference, HashedOfReference,
         [Next]_vars
  PROVE  HashedOfReference'
<1> USE DEF asking
<1>1. /\ Plain
      /\ \A states, hashes, verdicts, q :
           SettledBoth(states, hashes, verdicts, q)' <=> SettledBoth(states, hashes, verdicts, q)
  BY CheckedSides, ReferenceStays, OptsStay, KnownOfReferenceStays
<1>2. ASSUME UNCHANGED <<incomplete, table, hashed>>, pc \in {"read", "settle"} \/ pc' \notin {"read", "settle"}
      PROVE  HashedOfReference'
  BY <1>1, <1>2 DEF HashedOfReference
<1>3. CASE Idles
  BY <1>2, <1>3 DEF Idles
<1>4. CASE Ask \/ Loses
  BY <1>2, <1>4 DEF Ask, Loses, NextRole
<1>5. pc' \notin {"read", "settle"} => HashedOfReference'
  BY DEF HashedOfReference
<1>6. CASE Turns
  BY <1>5, <1>6, TurnsAnew DEF Grounds
<1>7. CASE (\E listing : Lists(listing)) \/ Collect \/ Settle
  BY <1>5, <1>7 DEF Lists, Collect, Settle
<1>8. CASE Confirm \/ Change \/ Report
  BY <1>5, <1>8 DEF Confirm, Change, Report, EndWith
<1> QED BY <1>1, <1>3, <1>4, <1>6, <1>7, <1>8, JudgeOfReference, MergeSteps DEF Grounds

\* What is compared keeps them.
LEMMA SettleOfReference ==
  ASSUME ReferenceIsLeftAlone, Grounds, Checking, TableOfReference, HashedOfReference, ComparedOfReference,
         [Next]_vars, Settle
  PROVE  ComparedOfReference'
<1> DEFINE added == [p \in DOMAIN table |-> Result(p)]
<1>1. /\ pc = "settle" /\ pc \in Comparison /\ incomplete' = incomplete
      /\ compared' = Extended(compared, added)
  BY DEF Settle, Comparison
<1>2. SUFFICES ASSUME incomplete = {} PROVE \A p \in DOMAIN compared' : FromReference(compared'[p], p)
  <2>1. \A c, p : FromReference(c, p)' <=> FromReference(c, p)
    BY ReferenceStays, OptsStay, KnownOfReferenceStays
  <2> QED BY <1>1, <1>2, <2>1 DEF ComparedOfReference
<1>3. \A p \in DOMAIN compared : FromReference(compared[p], p)
  BY <1>1, <1>2 DEF ComparedOfReference
<1>4. ASSUME NEW p \in DOMAIN table PROVE FromReference(added[p], p)
  <2> DEFINE contents == AnswersFor(p)
             gone == LostFor(p)
  <2>1. AsReference(table[p].states, p) /\ SettledBoth(table[p].states, hashed[p].hashes, hashed[p].verdicts, p)
    BY <1>1, <1>2 DEF TableOfReference, HashedOfReference
  <2>2. /\ added[p].states = table[p].states /\ added[p].hashes = hashed[p].hashes
        /\ \/ added[p].verdicts = ApplyReads(hashed[p].verdicts, contents)
           \/ added[p].verdicts = LosePairs(hashed[p].verdicts, gone)
    BY DEF Result
  <2> HIDE DEF contents, gone, added
  <2>3. SettledBoth(table[p].states, hashed[p].hashes, added[p].verdicts, p)
    BY <2>1, <2>2, BothRead
  <2> QED BY <2>1, <2>2, <2>3 DEF FromReference
<1>5. DOMAIN added = DOMAIN table
  OBVIOUS
<1> HIDE DEF added
<1>6. \A p \in DOMAIN compared' : \/ p \in DOMAIN compared /\ compared'[p] = compared[p]
                                  \/ p \in DOMAIN table /\ compared'[p] = added[p]
  BY <1>1, <1>5 DEF Extended
<1> QED BY <1>3, <1>4, <1>6

LEMMA ComparedOfReferenceStep ==
  ASSUME ReferenceIsLeftAlone, Grounds, Checking, TableOfReference, HashedOfReference, ComparedOfReference,
         [Next]_vars
  PROVE  ComparedOfReference'
<1> USE DEF asking
<1>1. Plain /\ \A c, p : FromReference(c, p)' <=> FromReference(c, p)
  BY CheckedSides, ReferenceStays, OptsStay, KnownOfReferenceStays
<1>2. ASSUME UNCHANGED compared, incomplete \subseteq incomplete', pc \in Comparison
      PROVE  ComparedOfReference'
  BY <1>1, <1>2 DEF ComparedOfReference
<1>3. pc' \notin Comparison => ComparedOfReference'
  BY DEF ComparedOfReference
<1>4. CASE Idles
  BY <1>2, <1>3, <1>4 DEF Idles, Comparison
<1>5. CASE (\E listing : Lists(listing)) \/ Collect \/ Ask \/ Loses \/ Judge
  <2>1. UNCHANGED compared /\ incomplete \subseteq incomplete' /\ pc \in Comparison
    BY <1>5 DEF Lists, Collect, Ask, Loses, Judge, Comparison
  <2> QED BY <1>2, <2>1
<1>6. CASE Turns
  BY <1>3, <1>6, TurnsAnew DEF Grounds, Comparison, ComparedOfReference
<1>7. CASE Confirm \/ Change \/ Report
  BY <1>3, <1>7 DEF Confirm, Change, Report, EndWith, Comparison
<1> QED BY <1>1, <1>4, <1>5, <1>6, <1>7, SettleOfReference, MergeSteps DEF Grounds

\* So do the plans.
LEMMA PlansOfReferenceStep ==
  ASSUME ReferenceIsLeftAlone, Grounds, Checking, ComparedOfReference, PlansOfReference, [Next]_vars
  PROVE  PlansOfReference'
<1> USE DEF asking
<1>1. Plain /\ \A c, p : FromReference(c, p)' <=> FromReference(c, p)
  BY CheckedSides, ReferenceStays, OptsStay, KnownOfReferenceStays
<1>2. CASE plans' = plans
  BY <1>1, <1>2 DEF PlansOfReference
<1>3. CASE Turns
  <2>1. ~Syncing /\ pc \in Comparison
    BY <1>3, CheckedSides DEF Turns
  <2>2. CASE NextRight(MergePlanned) /\ incomplete = {}
    <3>1. \A p \in DOMAIN compared : FromReference(compared[p], p)
      BY <2>1, <2>2 DEF ComparedOfReference
    <3>2. MergePlanned.compared = compared
      BY DEF MergePlanned
    <3>3. \A i \in DOMAIN plans' : \/ i \in DOMAIN plans /\ plans'[i] = plans[i]
                                   \/ plans'[i] = MergePlanned
      BY <2>2, PlansAppended DEF Grounds
    <3> HIDE DEF MergePlanned
    <3> QED BY <1>1, <3>1, <3>2, <3>3 DEF PlansOfReference
  <2> QED BY <1>2, <1>3, <2>1, <2>2 DEF Turns
<1>4. CASE Idles \/ (\E listing : Lists(listing)) \/ Collect \/ Ask \/ Loses \/ Judge \/ Settle
  BY <1>2, <1>4 DEF Idles, Lists, Collect, Ask, Loses, Judge, Settle
<1>5. CASE Confirm \/ Change \/ Report
  BY <1>2, <1>5 DEF Confirm, Change, Report
<1> QED BY <1>1, <1>3, <1>4, <1>5, MergeSteps DEF Grounds

\* What such a merge knows of its reference on the way to its changes.
ReferenceKnown ==
  /\ ReferenceListed /\ ReferenceAnswered /\ TableOfReference /\ HashedOfReference
  /\ ComparedOfReference /\ PlansOfReference
ReferenceInv == MergeInv /\ (Checking => ReferenceKnown)

\* At the beginning nothing is known of it.
LEMMA ReferenceKnownInit == ASSUME Init PROVE ReferenceKnown
<1>1. pc = "connect" /\ listings = <<>> /\ compared = <<>> /\ plans = <<>> /\ DOMAIN <<>> = {}
  BY DEF Init
<1>2. ReferenceListed /\ ReferenceAnswered /\ TableOfReference /\ HashedOfReference
  BY <1>1 DEF ReferenceListed, ReferenceAnswered, TableOfReference, HashedOfReference
<1>3. ComparedOfReference /\ PlansOfReference
  BY <1>1 DEF ComparedOfReference, PlansOfReference
<1> QED BY <1>2, <1>3 DEF ReferenceKnown

\* Every step keeps what is known of it.
LEMMA ReferenceInvStep ==
  ASSUME ReferenceIsLeftAlone, ReferenceInv, [Next]_vars
  PROVE  ReferenceInv'
<1>1. MergeInv /\ MergeInv' /\ Grounds
  BY MergeInvStep DEF ReferenceInv, MergeInv
<1>2. ASSUME Checking' PROVE ReferenceKnown'
  <2>1. Checking
    BY <1>2, OptsStay, AskedForStays DEF Checking
  <2>2. RolesListed /\ RolesAnswered
    BY <1>1, <2>1, CheckedSides DEF MergeInv, MergeFinds
  <2>3. /\ ReferenceListed /\ ReferenceAnswered /\ TableOfReference /\ HashedOfReference
        /\ ComparedOfReference /\ PlansOfReference
    BY <2>1 DEF ReferenceInv, ReferenceKnown
  <2>4. ReferenceListed' /\ ReferenceAnswered' /\ TableOfReference'
    BY <1>1, <2>1, <2>2, <2>3, ReferenceListedStep, ReferenceAnsweredStep, TableOfReferenceStep
  <2>5. HashedOfReference' /\ ComparedOfReference' /\ PlansOfReference'
    BY <1>1, <2>1, <2>3, HashedOfReferenceStep, ComparedOfReferenceStep, PlansOfReferenceStep
  <2> QED BY <2>4, <2>5 DEF ReferenceKnown
<1> QED BY <1>1, <1>2 DEF ReferenceInv

\* What a listing shows of a thing that is there.
LEMMA EntryOfThing ==
  ASSUME NEW thing, Proper(thing)
  PROVE  /\ OfEntry(thing).kind = thing.kind
         /\ thing.kind = "link" => OfEntry(thing).target = thing.target
         /\ ~Present(OfEntry(thing)) => thing = NoWorld
<1>1. CASE thing.kind = "file"
  <2>1. OfEntry(thing) = File(thing.size, thing.at, thing.digits)
    BY <1>1 DEF OfEntry
  <2> QED BY <1>1, <2>1 DEF File, Present
<1>2. CASE thing.kind = "link"
  <2>1. OfEntry(thing) = Link(thing.target, thing.to)
    BY <1>2 DEF OfEntry
  <2> QED BY <1>2, <2>1 DEF Link, Present
<1>3. CASE thing.kind \notin {"file", "link"}
  <2>1. OfEntry(thing) = [kind |-> thing.kind]
    BY <1>3 DEF OfEntry
  <2> QED BY <1>3, <2>1 DEF Present, Proper, Kinds
<1> QED BY <1>1, <1>2, <1>3

\* What the check before a write sees is what is there.
LEMMA NowIsThere ==
  ASSUME NEW side, NEW p, Proper(world[side][p])
  PROVE  LET thing == world[side][p]
             now == Now(side, p)
         IN  /\ now.kind = "absent" => thing = NoWorld
             /\ now.kind = "file" => thing.kind = "file" /\ now.body = thing.body
             /\ now.kind = "link" => thing.kind = "link" /\ now.target = thing.target
<1> DEFINE thing == world[side][p]
           now == Now(side, p)
<1>1. CASE thing.kind = "link"
  <2>1. now = [kind |-> "link", target |-> thing.target]
    BY <1>1 DEF Now
  <2> QED BY <1>1, <2>1
<1>2. CASE thing.kind = "file"
  <2>1. now = [kind |-> "file", body |-> thing.body] \/ now = NotObserved
    BY <1>2 DEF Now
  <2> HIDE DEF now, thing
  <2>2. \/ now.kind = "file" /\ now.body = thing.body
        \/ now.kind = "notObserved"
    BY <2>1 DEF NotObserved
  <2> QED BY <1>2, <2>2 DEF now, thing
<1>3. CASE thing.kind \notin {"file", "link"}
  <2>1. now = [kind |-> thing.kind]
    BY <1>3 DEF Now
  <2> QED BY <1>3, <2>1 DEF Proper
<1> QED BY <1>1, <1>2, <1>3

\* A path that such a merge writes is as it is in the reference.
LEMMA WritesWhatTheReferenceHas ==
  ASSUME Grounds, PlansMade, PlansOfReference, Checking,
         NEW p, Applies(p), plans[right].plan[p] \in Writes
  PROVE  p \in Paths => IsBodyOf(world[Rights[right]][p], world[Ref][p])
<1> DEFINE side == Rights[right]
           cs == plans[right].compared
           here == StateIn(cs[p], "right")
           there == StateIn(cs[p], "ref")
           seen == Observed(cs[p].states, cs[p].hashes, "right")
           mine == world[side][p]
           other == world[Ref][p]
<1>1. ~Syncing /\ side \in Sides /\ Ref \in Sides /\ ReadsOptions.check
  BY CheckedSides DEF Checking
<1>2. /\ right \in DOMAIN plans /\ p \in ChangesOf(right) /\ PlannedOf(right)
      /\ Unchanged(right, p)
  BY ApplyPlaces DEF Applies, Grounds, SourceKnown, PlansKnown
<1>3. p \in DOMAIN plans[right].plan /\ p \in Paths /\ here.kind # "dir"
  BY <1>2 DEF ChangesOf, Planned, PlannedOf, PlanOK
<1>4. plans[right].plan = MergePlan(cs, Targets, ReadsOptions)
  BY <1>1, <1>2 DEF PlansMade
<1>5. /\ p \in DOMAIN cs /\ Selects(Targets, p)
      /\ ReferenceCheck(cs[p]) = "write" /\ MergeEntry(cs[p], ReadsOptions.delete) \in Writes
  <2> HIDE DEF cs
  <2> QED BY <1>1, <1>3, <1>4, PlanIsChecked
<1>6. FromReference(cs[p], p)
  BY <1>2, <1>5 DEF PlansOfReference
<1>7. seen # NotObserved /\ seen = Now(side, p)
  BY <1>2 DEF Unchanged
<1>8. \/ seen.kind = "absent" /\ ~Present(there)
      \/ /\ seen = [kind |-> "file", body |-> cs[p].hashes["right"].body] /\ there.kind = "file"
         /\ "ref" \in DOMAIN cs[p].hashes /\ cs[p].hashes["ref"].ok
         /\ cs[p].hashes["ref"].body = cs[p].hashes["right"].body
      \/ seen = [kind |-> "link", target |-> there.target] /\ there.kind = "link"
  <2> DEFINE c == cs[p]
  <2>1. /\ SettledBoth(c.states, c.hashes, c.verdicts, p) /\ Selects(Targets, p)
        /\ ReferenceCheck(c) = "write" /\ MergeEntry(c, ReadsOptions.delete) \in Writes
        /\ StateIn(c, "right").kind # "dir" /\ Observed(c.states, c.hashes, "right") # NotObserved
    BY <1>3, <1>5, <1>6, <1>7 DEF FromReference
  <2> HIDE DEF c
  <2>2. LET h == StateIn(c, "right")
            t == StateIn(c, "ref")
            s == Observed(c.states, c.hashes, "right")
        IN  \/ s.kind = "absent" /\ ~Present(t)
            \/ /\ s = [kind |-> "file", body |-> c.hashes["right"].body] /\ t.kind = "file"
               /\ "ref" \in DOMAIN c.hashes /\ c.hashes["ref"].ok
               /\ c.hashes["ref"].body = c.hashes["right"].body
            \/ s = [kind |-> "link", target |-> t.target] /\ t.kind = "link"
    BY <2>1, SeenAlike
  <2> QED BY <2>2 DEF c
<1>9. there = OfEntry(other)
  BY <1>6 DEF FromReference, AsReference, StateIn
<1>10. Proper(mine) /\ Proper(other)
  BY <1>1, <1>3 DEF Grounds, Trees, IsTree
<1>11. "ref" \in DOMAIN cs[p].hashes /\ cs[p].hashes["ref"].ok => cs[p].hashes["ref"].body = other.body
  BY <1>6 DEF FromReference, SettledBoth, HashOfReference
<1>12. /\ there.kind = other.kind
       /\ other.kind = "link" => there.target = other.target
       /\ ~Present(there) => other = NoWorld
  BY <1>9, <1>10, EntryOfThing
<1>13. /\ seen.kind = "absent" => mine = NoWorld
       /\ seen.kind = "file" => mine.kind = "file" /\ seen.body = mine.body
       /\ seen.kind = "link" => mine.kind = "link" /\ seen.target = mine.target
  BY <1>7, <1>10, NowIsThere
<1> HIDE DEF mine, other, seen, there, cs
<1>14. IsBodyOf(mine, other)
  <2>1. CASE seen.kind = "absent" /\ ~Present(there)
    BY <1>12, <1>13, <2>1 DEF IsBodyOf
  <2>2. CASE /\ seen = [kind |-> "file", body |-> cs[p].hashes["right"].body] /\ there.kind = "file"
             /\ "ref" \in DOMAIN cs[p].hashes /\ cs[p].hashes["ref"].ok
             /\ cs[p].hashes["ref"].body = cs[p].hashes["right"].body
    <3>1. seen.kind = "file" /\ seen.body = cs[p].hashes["right"].body
      BY <2>2
    <3> QED BY <1>11, <1>12, <1>13, <2>2, <3>1 DEF IsBodyOf
  <2>3. CASE seen = [kind |-> "link", target |-> there.target] /\ there.kind = "link"
    <3>1. seen.kind = "link" /\ seen.target = there.target
      BY <2>3
    <3> QED BY <1>12, <1>13, <2>3, <3>1 DEF IsBodyOf
  <2> QED BY <1>8, <2>1, <2>2, <2>3
<1> QED BY <1>14 DEF mine, other

\* What else goes, or comes, with a change was seen through a link that is
\* replaced, or is a directory on the way.
LEMMA OthersOfAChange ==
  ASSUME Trees, Places, PlansKnown, NEW q, Applies(q),
         NEW p \in Paths, p # q, world'[Rights[right]][p] # world[Rights[right]][p],
         ~ThroughLink(Rights[right], p)
  PROVE  world[Rights[right]][p] = NoWorld /\ world'[Rights[right]][p].kind = "dir"
<1> DEFINE side == Rights[right]
           there == StateIn(plans[right].compared[q], "right")
<1>1. /\ right \in DOMAIN plans /\ side \in Sides
      /\ q \in ChangesOf(right) /\ q \in Paths /\ PlannedOf(right)
      /\ there.kind = "file" => world[side][q].kind = "file"
      /\ world[side][q].kind = "dir" => there.kind = "dir"
      /\ IsTree(world[side])
  BY ApplyPlaces, UnchangedKinds DEF Applies, PlansKnown, PlannedOf, PlanOK, ChangesOf, Trees
<1>2. world[side][p] # NoWorld /\ q \in Ancestors(p) => world[side][q].kind = "dir"
  BY <1>1 DEF IsTree, ThroughLink, IsDirectory
<1>3. CASE plans[right].plan[q] = Entry("delete")
  <2>1. NewThing(right, q) = NoWorld
    BY <1>1, <1>3, DeletedThing
  <2>2. world'[side][p] = IF p = q THEN NoWorld
                          ELSE IF q \in Ancestors(p) /\ ~IsDirectory(NoWorld) THEN NoWorld
                          ELSE world[side][p]
    BY <1>1, <1>3, <2>1 DEF Applies, Put, Trees
  <2>3. there.kind = "file"
    BY <1>1, <1>3 DEF PlannedOf, PlanOK, ChangesOf
  <2> QED BY <1>1, <1>2, <2>2, <2>3
<1>4. CASE plans[right].plan[q] # Entry("delete")
  <2>1. plans[right].plan[q] \in Writes
    BY <1>1, <1>4, PlannedKinds
  <2>2. Proper(NewThing(right, q)) /\ ~IsDirectory(NewThing(right, q))
    BY <2>1, NewThingIsProper
  <2>3. there.kind # "dir"
    BY <1>1, <2>1 DEF PlannedOf, PlanOK, ChangesOf
  <2> DEFINE thing == NewThing(right, q)
  <2>4. world'[side] =
          [r \in Paths |->
             LET at == IF r = q THEN thing
                       ELSE IF q \in Ancestors(r) THEN NoWorld ELSE world[side][r]
             IN  IF r \in Ancestors(q) /\ at = NoWorld THEN [kind |-> "dir"] ELSE at]
    <3>1. WayIsFree(side, q) /\ world' = WithParents(side, q, Put(side, q, thing))
      BY <1>4 DEF Applies
    <3> HIDE DEF thing, side
    <3> QED BY <1>1, <2>2, <3>1, WrittenIsTree DEF thing
  <2>5. CASE world[side][p] = NoWorld
    <3>1. world'[side][p] = [kind |-> "dir"]
      BY <2>4, <2>5
    <3> QED BY <2>5, <3>1
  <2>6. CASE world[side][p] # NoWorld
    <3>1. q \notin Ancestors(p)
      BY <1>1, <1>2, <2>3, <2>6
    <3>2. world'[side][p] = world[side][p]
      BY <2>4, <2>6, <3>1
    <3> QED BY <3>2
  <2> QED BY <2>5, <2>6
<1> QED BY <1>3, <1>4

\* A change that is made has an outcome of its own.
LEMMA ChangeIsOfOne ==
  ASSUME Change, world' # world
  PROVE  \E q, o : Applies(q) /\ q \notin DOMAIN results[right] /\ Becomes(q, o)
BY Zenon DEF Change, Applies

\* Such a merge overwrites only what the reference has too.
LEMMA OverwritesStep ==
  ASSUME ReferenceInv, Checking, Next, NEW p \in Paths, Overwrites(p)
  PROVE  IsBodyOf(world[Rights[right]][p], world[Ref][p])
<1> DEFINE side == Rights[right]
           itself == p \in DOMAIN results'[right] \ DOMAIN results[right]
           madeOnTheWay == world[side][p] = NoWorld /\ world'[side][p].kind = "dir"
<1>1. /\ pc = "apply" /\ results' # results /\ world'[side][p] # world[side][p]
      /\ IF itself THEN plans[right].plan[p] \in Writes
         ELSE ~madeOnTheWay /\ ~ThroughLink(side, p)
  BY DEF Overwrites, OwnChange
<1>2. Grounds /\ PlansMade /\ OutcomesOK /\ PlansOfReference
  BY CheckedSides DEF ReferenceInv, MergeInv, MergeFinds, ReferenceKnown
<1>3. Change /\ world' # world
  BY <1>1, OthersElseLeaveTheSides DEF OthersStep
<1>4. PICK q, o : Applies(q) /\ q \notin DOMAIN results[right] /\ Becomes(q, o)
  BY <1>3, ChangeIsOfOne
<1>5. DOMAIN results'[right] = DOMAIN results[right] \cup {q}
  <2>1. results' = [results EXCEPT ![right] = Extended(@, Only(q, o))]
    BY <1>4 DEF Becomes
  <2>2. results # <<>>
    <3>1. DOMAIN <<>> = {}
      OBVIOUS
    <3>2. results = <<>> => results' = <<>>
      BY <2>1, <3>1
    <3> QED BY <1>1, <3>2
  <2>3. right \in DOMAIN results
    BY <1>1, <1>2, <2>2, ApplyPlaces DEF OutcomesOK, Grounds, SourceKnown
  <2> DEFINE old == results[right]
  <2>4. results'[right] = Extended(old, Only(q, o))
    BY <2>1, <2>3
  <2> HIDE DEF old
  <2>5. DOMAIN Extended(old, Only(q, o)) = DOMAIN old \cup {q}
    BY DEF Extended, Only
  <2> QED BY <2>4, <2>5 DEF old
<1>6. CASE p = q
  <2>1. plans[right].plan[p] \in Writes
    <3>1. CASE itself
      BY <1>1, <3>1
    <3>2. CASE ~itself
      <4>1. q \in DOMAIN results[right]
        BY <1>5, <1>6, <3>2
      <4> QED BY <1>4, <4>1
    <3> QED BY <3>1, <3>2
  <2> QED BY <1>2, <1>4, <1>6, <2>1, WritesWhatTheReferenceHas
<1>7. CASE p # q
  <2>1. ~itself
    BY <1>5, <1>7
  <2> QED BY <1>1, <1>2, <1>4, <1>7, <2>1, OthersOfAChange DEF Grounds, SourceKnown
<1> QED BY <1>6, <1>7

\* While others leave the reference alone, a merge that checks it overwrites
\* only what the reference has too, or puts a file where neither has one,
\* whatever others do to the source and the destination meanwhile.
THEOREM OnlyTheReferenceIsOverwrittenHolds ==
  ASSUME ReferenceIsLeftAlone
  PROVE  Spec => OnlyTheReferenceIsOverwritten
<1> DEFINE Overwrite ==
             \A p \in Paths : (opts.command = "merge" /\ ReadsOptions.check /\ Overwrites(p))
                                => IsBodyOf(world[Rights[right]][p], world[Ref][p])
<1>1. Init => ReferenceInv
  BY GroundsInit, GivenInit, FindsInit, ReferenceKnownInit DEF ReferenceInv, MergeInv
<1>2. ReferenceInv /\ [Next]_vars => ReferenceInv'
  BY ReferenceInvStep
<1>3. ReferenceInv /\ [Next]_vars => [Overwrite]_vars
  <2> SUFFICES ASSUME ReferenceInv, Next PROVE Overwrite
    OBVIOUS
  <2> QED BY OverwritesStep DEF Checking
<1>4. Spec => [][Overwrite]_vars
  BY <1>1, <1>2, <1>3, PTL DEF Spec
<1> QED BY <1>4 DEF OnlyTheReferenceIsOverwritten
=============================================================================
