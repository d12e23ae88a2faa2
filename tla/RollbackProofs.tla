--------------------------- MODULE RollbackProofs ---------------------------
(***************************************************************************)
(* What TLAPS proves of Rollback, for any session, any number of paths and *)
(* any behaviour of others, of the agent and of the connection.            *)
(*                                                                         *)
(* The inductive invariant IInv has one part for each question: where the  *)
(* command is and what it has not done yet (Shape), what the plan lets     *)
(* through (Planned), what the requests so far did to a path (Worked),     *)
(* what a path holds if nobody else changed it (Held), what the new        *)
(* session holds (Saved), and what is reported of a path (Told).           *)
(***************************************************************************)
EXTENDS Rollback, DestinationProofs, WellFoundedInduction

Early == {"choose", "prompt", "records", "inspect", "scan"}
Sending == {"send", "wait", "rootcheck", "confirm", "observe"}
AtPath == {"save", "readback"} \cup Sending
Going == {"reserve", "batch", "next"} \cup AtPath

\* Before the plan nothing is reported, read or saved; from then on the path the
\* command is at is one it restores, and the request in hand is one the path needs.
Shape ==
  /\ pc \in AtPath => cur \in Restoring
  /\ pc \in {"inspect", "scan", "reserve", "batch"} => cur = 1
  /\ pc \in Early => \A i \in Paths: result[i] = "pending" /\ why[i] = "none"
  /\ pc \in Early \cup {"reserve", "batch"} => \A i \in Paths: content[i] = "none"
  /\ pc \in Early \cup {"reserve"} => \A i \in Paths:
       presaved[i] = "none" /\ i \notin shown /\ result[i] # "Restored"
  /\ pc \in Going => ~dryRun
  /\ pc # "done" => end = "no"
  /\ pc \in Sending => IF recorded[cur] = "link" THEN op \in {"remove", "link"} ELSE op = "write"
  /\ pc \in Going => \A i \in Paths: result[i] # "pending"

\* Where a path of a session that is restored leads, and what it holds.
Fits(i) ==
  \/ recorded[i] = "replaced"
  \/ recorded[i] = "file" /\ state[i] = "special"
  \/ recorded[i] = "file" /\ state[i] \in Files \cup {"absent"} /\ at[i].dir \notin {"moved", "loop"}
  \/ recorded[i] = "link" /\ state[i] = "oldlink" /\ at[i].dir = "foreign"

Restorable(i) ==
  \/ recorded[i] = "file" /\ state[i] \in Files \cup {"absent"}
  \/ recorded[i] = "link" /\ state[i] = "oldlink"

Planned ==
  /\ pc \in Going => \A i \in Paths: Fits(i)
  /\ \A i \in Paths: result[i] \in {"planned", "Restored"} => Restorable(i)
  /\ \A i \in Paths: result[i] = "planned" => why[i] = "restore"

\* Only the path in hand can have been changed and not be reported as changed, and
\* what is known of the request in flight agrees with what it did.
Worked ==
  /\ \A i \in Paths: result[i] \in {"pending", "planned", "Skipped"} =>
       effects[i] = {} \/ (i = cur /\ pc \in Sending)
  /\ pc \in {"reserve", "batch"} => \A i \in Paths: effects[i] = {}
  /\ (pc \in {"send", "rootcheck"} /\ op # "link") => effects[cur] = {}
  /\ (wire \in {"sent", "notfound", "rootgone"} /\ op # "link") => effects[cur] = {}
  /\ wire = "ok" => op \in effects[cur]
  /\ wire = "begun" => op = "write" /\ effects[cur] = {"begin"}
  /\ \A i \in Paths: effects[i] # {} => Restorable(i)
  /\ \A i \in Paths: effects[i] \subseteq
       (IF recorded[i] = "link" THEN {"remove", "link"} ELSE {"begin", "write"})
  /\ \A i \in Paths \ touched: "link" \in effects[i] => "remove" \in effects[i]
  /\ \A i \in Paths: "write" \in effects[i] => "begin" \in effects[i]
  /\ (pc \in Sending /\ op = "remove") => "link" \notin effects[cur]
  /\ (pc \in Sending /\ op = "link" /\ cur \notin touched) => "remove" \in effects[cur]

\* What a path holds after what was done to it.
HeldAfter(i) ==
  IF effects[i] = {} THEN state[i]
  ELSE IF "write" \in effects[i] THEN "new"
  ELSE IF "begin" \in effects[i] THEN "partial"
  ELSE IF "link" \in effects[i] THEN "newlink"
  ELSE "absent"

Held ==
  /\ raced \subseteq touched
  /\ \A i \in Paths \ touched: effects[i] = {} => dest[i] # "partial"
  /\ \A i \in Paths \ touched: state[i] # "partial"
  /\ pc = "scan" => \A i \in Paths \ raced: at[i].held = dest[i]
  /\ pc \in Going => \A i \in Paths \ raced: recorded[i] # "replaced" => dest[i] = HeldAfter(i)
  /\ pc \in Going \cup {"scan"} => \A i \in InDir \ raced:
       dir = at[i].dir \/ (dir = "made" /\ at[i].dir = "absent")

Saved ==
  /\ \A i \in Paths \ touched: content[i] \in {"none", state[i]}
  /\ \A i \in Paths \ touched: presaved[i] \in {"none", state[i]}
  /\ pc \in {"next"} \cup AtPath => \A i \in PresentFiles: batchFailed \/ content[i] # "none"
  /\ (pc \in AtPath /\ cur \in PresentFiles) => ~batchFailed
  /\ (pc = "save") => state[cur] # "absent"
  /\ (pc \in {"readback"} \cup Sending /\ session /\ state[cur] # "absent") => presaved[cur] # "none"
  /\ \A i \in Paths: (effects[i] # {} /\ session /\ state[i] # "absent") => presaved[i] # "none"
  /\ pc \in {"batch", "next"} \cup AtPath =>
       \A i \in Restoring: backup /\ state[i] # "absent" => session
  /\ \A i \in Paths: (backup /\ effects[i] # {} /\ state[i] # "absent") => session

\* The clauses of ReportIsTrue, and what a restored path holds.
Told ==
  \A i \in Paths:
    /\ result[i] = "Failed" /\ why[i] \notin {"refused", "unknown", "partial", "oldremoved", "notdone"}
         => effects[i] = {}
    /\ i \in shown => presaved[i] # "none"
    /\ result[i] = "Restored" /\ session /\ state[i] # "absent" => i \in shown
    /\ i \notin touched =>
         /\ why[i] = "notdone" => effects[i] = {}
         /\ why[i] = "partial" => "begin" \in effects[i] /\ "write" \notin effects[i]
         /\ why[i] = "oldremoved" => "remove" \in effects[i]
         /\ result[i] = "Restored" =>
              /\ Needed(i) \subseteq effects[i] \/ (state[i] = "new" /\ effects[i] = {})
              /\ dest[i] = IF recorded[i] = "link" THEN "newlink" ELSE "new"

IInv == TypeOK /\ Shape /\ Planned /\ Worked /\ Held /\ Saved /\ Told

----------------------------------------------------------------------------
(***************************************************************************)
(* The plan.                                                               *)
(***************************************************************************)
LEMMA LeastOf ==
  ASSUME NEW S, S \subseteq Nat, S # {}
  PROVE  \E j \in S: \A k \in S: j <= k
<1>1. PICK j \in S: \A k \in S: ~(<<k, j>> \in OpToRel(<, Nat))
  BY NatLessThanWellFounded, WFMin
<1>2. \A k \in S: ~(k < j)
  BY <1>1 DEF OpToRel
<1> QED BY <1>2

\* A path is restored only if no path of the session leads elsewhere.
LEMMA PlanRestores ==
  ASSUME NEW v \in [Paths -> Verdicts]
  PROVE  /\ Plan(v) \in [Paths -> Verdicts]
         /\ \A i \in Paths: Plan(v)[i] = "restore" =>
              v[i] = "restore" /\ \A j \in Paths: v[j] \notin {"unresolved", "moved", "linkchanged"}
<1> DEFINE B == {i \in Paths : v[i] \in {"moved", "linkchanged"}}
           least == CHOOSE j \in B : \A k \in B : j <= k
<1>1. ASSUME B # {} PROVE least \in B
  <2>1. B \subseteq Nat
    BY DestinationAssumption DEF Paths
  <2>2. \E j \in B: \A k \in B: j <= k
    BY <1>1, <2>1, LeastOf
  <2> QED BY <2>2
<1>2. Plan(v) = [i \in Paths |-> IF \E j \in Paths: v[j] = "unresolved" THEN "unresolved"
                                 ELSE IF v[i] = "restore" /\ B # {} THEN v[least] ELSE v[i]]
  BY DEF Plan
<1>3. ASSUME NEW i \in Paths
      PROVE  /\ Plan(v)[i] \in Verdicts
             /\ Plan(v)[i] = "restore" =>
                  v[i] = "restore" /\ B = {} /\ \A j \in Paths: v[j] # "unresolved"
  BY <1>1, <1>2 DEF Verdicts
<1> QED BY <1>2, <1>3

\* What the treatment of one path says of it.
LEMMA JudgeFits ==
  ASSUME NEW i \in Paths, recorded[i] \in Kinds, NEW s \in Entries,
         NEW a \in [dir : DirStates, held : Entries]
  PROVE  /\ Judge(i, s, a) \in Verdicts
         /\ Judge(i, s, a) \notin {"unresolved", "moved", "linkchanged"} =>
              \/ recorded[i] = "replaced"
              \/ recorded[i] = "file" /\ s = "special"
              \/ recorded[i] = "file" /\ s \in Files \cup {"absent"} /\ a.dir \notin {"moved", "loop"}
              \/ recorded[i] = "link" /\ s = "oldlink" /\ a.dir = "foreign"
         /\ Judge(i, s, a) = "restore" =>
              \/ recorded[i] = "file" /\ s \in Files \cup {"absent"}
              \/ recorded[i] = "link" /\ s = "oldlink"
<1>1. /\ JudgeFile(s, a) \in Verdicts
      /\ JudgeFile(s, a) # "moved" => s = "special" \/ (s \in Files \cup {"absent"} /\ a.dir # "moved")
      /\ JudgeFile(s, a) = "restore" => s \in Files \cup {"absent"}
  BY DEF JudgeFile, Verdicts, Entries, Files, Links
<1>2. /\ JudgeLink(s, a) \in Verdicts
      /\ JudgeLink(s, a) \notin {"moved", "linkchanged"} => s = "oldlink" /\ a.dir = "foreign"
  BY DEF JudgeLink, Verdicts
<1>3. CASE recorded[i] = "replaced"
  BY <1>3 DEF Judge, Verdicts
<1>4. CASE recorded[i] = "file"
  BY <1>1, <1>4 DEF Judge, Verdicts
<1>5. CASE recorded[i] = "link"
  BY <1>2, <1>5 DEF Judge, Verdicts
<1> QED BY <1>3, <1>4, <1>5 DEF Kinds

----------------------------------------------------------------------------
(***************************************************************************)
(* Types, and where the command can be.                                    *)
(***************************************************************************)
LEMMA DestinationStays ==
  ASSUME DestinationTypeOK, UNCHANGED destVars PROVE DestinationTypeOK'
BY DEF DestinationTypeOK, destVars

LEMMA GivenStay == ASSUME [Next]_vars PROVE UNCHANGED given
<1>1. CASE CommandStep
  BY <1>1 DEF CommandStep, Choose, ReadRecord, Inspect, InspectRefused, Scan, Reserve, Batch,
     BatchRefused, TakeNext, Save, SaveFails, ReadBack, SendRefused, Send, Receive, RootCheck,
     ReconnectToRead, GiveUpRead, LoseChange, ReconnectToConfirm, Confirm, ConfirmFails
<1>2. CASE ~CommandStep
  BY <1>2 DEF Next, Prompt, AgentStep, LoseConnection, OthersStep, RecordGoes, Done, vars
<1> QED BY <1>1, <1>2

\* What each way of moving on does to the report and to the cursor.
LEMMA ConcludeType ==
  ASSUME ReportTypeOK, cur \in Paths,
         NEW r \in {"Restored", "Failed"}, NEW w \in Reasons,
         Conclude(r, w)
  PROVE  /\ result' \in [Paths -> {"pending", "planned", "Restored", "Skipped", "Failed"}]
         /\ why' \in [Paths -> Reasons]
         /\ \A i \in Paths \ {cur}: result'[i] = result[i] /\ why'[i] = why[i]
         /\ result'[cur] = r /\ why'[cur] = w
         /\ cur' = cur + 1 /\ cur' \in 1..(N + 1) /\ pc' = "next" /\ retried' = FALSE /\ op' = op
<1>1. /\ result' \in [Paths -> {"pending", "planned", "Restored", "Skipped", "Failed"}]
      /\ result'[cur] = r /\ \A i \in Paths \ {cur}: result'[i] = result[i]
  BY DEF ReportTypeOK, Conclude
<1>2. /\ why' \in [Paths -> Reasons]
      /\ why'[cur] = w /\ \A i \in Paths \ {cur}: why'[i] = why[i]
  BY DEF ReportTypeOK, Conclude
<1>3. cur' = cur + 1 /\ cur' \in 1..(N + 1) /\ pc' = "next" /\ retried' = FALSE /\ op' = op
  BY DestinationAssumption DEF Conclude, Paths
<1> QED BY <1>1, <1>2, <1>3

\* How a change ends: the path is restored, its second change follows, or it fails.
Ends(w) ==
  /\ cur' = cur + 1 /\ pc' = "next" /\ op' = op
  /\ \A i \in Paths \ {cur}: result'[i] = result[i] /\ why'[i] = why[i]
  /\ result'[cur] = "Failed" /\ why'[cur] = w
  /\ UNCHANGED shown

Ended ==
  /\ cur' = cur + 1 /\ pc' = "next" /\ op' = op
  /\ \A i \in Paths \ {cur}: result'[i] = result[i] /\ why'[i] = why[i]
  /\ result'[cur] = "Restored" /\ why'[cur] = "none"
  /\ shown' = IF session /\ state[cur] # "absent" THEN shown \cup {cur} ELSE shown

LEMMA FailType ==
  ASSUME ReportTypeOK, cur \in Paths, NEW w \in Reasons, Conclude("Failed", w), UNCHANGED shown
  PROVE  Ends(w)
BY ConcludeType DEF Ends

LEMMA FailOpType ==
  ASSUME ReportTypeOK, cur \in Paths, NEW w \in Reasons, FailOp(w)
  PROVE  /\ ReportTypeOK' /\ cur' \in 1..(N + 1) /\ retried' = FALSE
         /\ Ends(IF op = "link" THEN "oldremoved" ELSE w)
<1>1. (IF op = "link" THEN "oldremoved" ELSE w) \in Reasons
  BY DEF Reasons
<1> QED BY <1>1, ConcludeType DEF FailOp, Ends, ReportTypeOK

LEMMA ProceedType ==
  ASSUME ReportTypeOK, cur \in Paths, op \in {"write", "remove", "link"}, Proceed
  PROVE  /\ ReportTypeOK' /\ cur' \in 1..(N + 1) /\ retried' = FALSE
         /\ \/ op \in {"write", "link"} /\ Ended
            \/ op = "remove" /\ Ends("oldremoved")
            \/ op = "remove" /\ pc' = "send" /\ op' = "link" /\ UNCHANGED <<cur, report>>
<1>1. CASE op \in {"write", "link"} /\ Restored
  BY <1>1, ConcludeType DEF Restored, Ended, ReportTypeOK, Reasons
<1>2. CASE op = "remove" /\ Conclude("Failed", "oldremoved") /\ UNCHANGED shown
  BY <1>2, ConcludeType DEF Ends, ReportTypeOK, Reasons
<1>3. CASE op = "remove" /\ Start("link") /\ UNCHANGED report
  BY <1>3, DestinationAssumption DEF Start, report, ReportTypeOK, Paths
<1> QED BY <1>1, <1>2, <1>3 DEF Proceed

\* The plan decides every path, and restores at least one or ends the command.
LEMMA DecideType ==
  ASSUME NEW v \in [Paths -> Verdicts], shown \subseteq Paths, Decide(Plan(v))
  PROVE  /\ ReportTypeOK' /\ shown' = shown
         /\ \A i \in Paths: result'[i] \in {"planned", "Skipped", "Failed"}
         /\ \A i \in Paths: result'[i] = "planned" =>
              /\ v[i] = "restore" /\ why'[i] = "restore"
              /\ \A j \in Paths: v[j] \notin {"unresolved", "moved", "linkchanged"}
         /\ \A i \in Paths: why'[i] \in Verdicts
         /\ retried' = FALSE /\ UNCHANGED <<cur, op>>
         /\ \/ pc' = "done"
            \/ pc' = "reserve" /\ ~dryRun /\ end' = end /\ \E i \in Paths: result'[i] = "planned"
<1> DEFINE plan == Plan(v)
<1>1. plan \in [Paths -> Verdicts]
  BY PlanRestores
<1>2. why' = [i \in Paths |-> plan[i]] /\ result' = [i \in Paths |-> ResultOf(plan[i])]
  BY DEF Decide
<1>3. \A i \in Paths: /\ ResultOf(plan[i]) \in {"planned", "Skipped", "Failed"}
                      /\ ResultOf(plan[i]) = "planned" <=> plan[i] = "restore"
  BY <1>1 DEF ResultOf, Verdicts
<1>4. /\ UNCHANGED <<shown, cur, op>> /\ retried' = FALSE
      /\ \/ pc' = "done"
         \/ pc' = "reserve" /\ ~dryRun /\ end' = end /\ \E i \in Paths: plan[i] = "restore"
  BY DEF Decide, Finish, Goto, OnlyPlanned
<1>5. \A i \in Paths: plan[i] = "restore" =>
        v[i] = "restore" /\ \A j \in Paths: v[j] \notin {"unresolved", "moved", "linkchanged"}
  BY PlanRestores
<1>6. ReportTypeOK'
  BY <1>1, <1>2, <1>3, <1>4 DEF ReportTypeOK, Reasons
<1> HIDE DEF plan
<1> QED BY <1>1, <1>2, <1>3, <1>4, <1>5, <1>6

LEMMA TypeInit == ASSUME Init PROVE TypeOK /\ Shape
<1> USE RollbackAssumption, DestinationAssumption DEF Init
<1>1. DestinationTypeOK
  BY DEF DestinationTypeOK, Entries, Files, Links, DirStates
<1>2. FactsTypeOK
  BY DEF FactsTypeOK, Entries, DirStates
<1>3. ReportTypeOK
  BY DEF ReportTypeOK, Reasons
<1>4. 1 \in 1..(N + 1)
  OBVIOUS
<1>5. TypeOK
  BY <1>1, <1>2, <1>3, <1>4 DEF TypeOK, Pcs, ReadPcs
<1>6. Shape
  BY DEF Shape, AtPath, Sending, Early, Going
<1> QED BY <1>5, <1>6

LEMMA FactsStay ==
  ASSUME FactsTypeOK, UNCHANGED <<facts, batch, presaved>> PROVE FactsTypeOK'
BY DEF FactsTypeOK, facts, batch

LEMMA ReportStays == ASSUME ReportTypeOK, UNCHANGED report PROVE ReportTypeOK'
BY DEF ReportTypeOK, report

\* What the reading and saving steps put into the facts.
LEMMA FactsStep ==
  ASSUME DestinationTypeOK, FactsTypeOK,
         Inspect \/ Scan \/ Reserve \/ Batch \/ BatchRefused \/ Save \/ GiveUpRead
  PROVE  FactsTypeOK'
<1> USE DEF FactsTypeOK, facts, batch
<1>1. CASE Inspect
  BY <1>1 DEF Inspect, DestinationTypeOK, DirStates
<1>2. CASE Scan
  BY <1>2 DEF Scan, DestinationTypeOK, Entries
<1>3. CASE Reserve
  BY <1>3 DEF Reserve
<1>4. CASE Batch
  <2>1. \A i \in Paths: ContentAt(i) \in Entries \cup {"failed"}
    BY DEF ContentAt, DestinationTypeOK, Entries, Files
  <2> QED BY <1>4, <2>1 DEF Batch
<1>5. CASE BatchRefused
  BY <1>5 DEF BatchRefused
<1>6. CASE Save
  <2>1. ASSUME cur \in Paths PROVE Current(cur) \in Entries \cup {"none"}
    BY <1>6, <2>1 DEF Save, Current
  <2>2. presaved' \in [Paths -> Entries \cup {"none"}]
    BY <1>6, <2>1 DEF Save
  <2> QED BY <1>6, <2>2 DEF Save
<1>7. CASE GiveUpRead
  BY <1>7 DEF GiveUpRead
<1> QED BY <1>1, <1>2, <1>3, <1>4, <1>5, <1>6, <1>7

\* The plan made from the two answers.
LEMMA ScanPlans ==
  ASSUME TypeOK, Scan
  PROVE  \/ Finish("error") /\ UNCHANGED report
         \/ \E v \in [Paths -> Verdicts]:
              /\ Decide(Plan(v))
              /\ \A i \in Paths: v[i] = Judge(i, state'[i], at[i])
              /\ state' = [i \in Paths |-> IF i \in Listed THEN dest[i] ELSE "absent"]
<1> SUFFICES ASSUME ~(Finish("error") /\ UNCHANGED report)
             PROVE  \E v \in [Paths -> Verdicts]:
                      /\ Decide(Plan(v))
                      /\ \A i \in Paths: v[i] = Judge(i, state'[i], at[i])
                      /\ state' = [i \in Paths |-> IF i \in Listed THEN dest[i] ELSE "absent"]
  OBVIOUS
<1> DEFINE v == [i \in Paths |-> Judge(i, state'[i], at[i])]
<1>1. Decide(Plan(v)) /\ state' = [i \in Paths |-> IF i \in Listed THEN dest[i] ELSE "absent"]
  BY DEF Scan
<1>2. state' \in [Paths -> Entries] /\ at \in [Paths -> [dir : DirStates, held : Entries]]
  BY FactsStep DEF TypeOK, FactsTypeOK
<1>3. v \in [Paths -> Verdicts]
  BY <1>2, JudgeFits, RollbackAssumption DEF TypeOK
<1>4. \A i \in Paths: v[i] = Judge(i, state'[i], at[i])
  OBVIOUS
<1> QED BY <1>1, <1>3, <1>4

\* What becomes of the path that is taken next.
LEMMA TakeNextCases ==
  ASSUME TakeNext
  PROVE  \/ Finish("reported") /\ UNCHANGED report
         \/ /\ cur \in Paths \ Restoring
            /\ cur' = cur + 1 /\ UNCHANGED <<pc, op, retried, report, end>>
         \/ /\ cur \in PresentFiles /\ cur \in Paths /\ batchFailed
            /\ Conclude("Failed", IF session THEN "backup" ELSE "read") /\ UNCHANGED <<shown, end>>
         \/ /\ cur \in Restoring /\ cur \in Paths /\ (cur \in PresentFiles => ~batchFailed)
            /\ IF session /\ state[cur] # "absent" THEN Goto("save") ELSE Start(FirstOp(cur))
            /\ UNCHANGED <<report, end>>
<1>1. Restoring \subseteq Paths /\ PresentFiles \subseteq Restoring
  BY DEF Restoring, PresentFiles
<1> QED BY <1>1 DEF TakeNext

LEMMA TypeStep == ASSUME TypeOK, Shape, [Next]_vars PROVE TypeOK'
<1>0. UNCHANGED given
  BY GivenStay
<1>1. pc \in AtPath => cur \in Paths
  BY DEF Shape, Restoring
<1> USE <1>0, DestinationStays, FactsStay, FactsStep, ReportStays
    DEF TypeOK, Pcs, ReadPcs, given
<1>2. CASE Choose \/ Prompt \/ ReadRecord \/ RecordGoes
  <2>1. UNCHANGED <<destVars, facts, batch, presaved, report, conn, wire, stopped>> /\ wire = "idle"
    BY <1>2 DEF Choose, Prompt, ReadRecord, RecordGoes
  <2>2. cur' \in 1..(N + 1)
    BY <1>2, DestinationAssumption DEF Choose, Prompt, ReadRecord, RecordGoes, Finish, Goto, control, Paths
  <2>3. /\ pc' \in {"prompt", "records", "inspect", "done"} \/ pc' = pc
        /\ retried' = FALSE /\ op' = op /\ end' \in {"error", "aborted", end} /\ records' \subseteq records
    BY <1>2 DEF Choose, Prompt, ReadRecord, RecordGoes, Finish, Goto, control
  <2> QED BY <2>1, <2>2, <2>3
<1>3. CASE Inspect
  <2>1. DestinationTypeOK'
    BY <1>3 DEF Inspect, DestinationTypeOK
  <2> QED BY <1>3, <2>1 DEF Inspect, Finish, Goto
<1>4. CASE InspectRefused
  <2> DEFINE v == [i \in Paths |-> IF recorded[i] = "replaced" THEN "replaced" ELSE "unresolved"]
  <2>1. v \in [Paths -> Verdicts]
    BY DEF Verdicts
  <2>2. Decide(Plan(v)) /\ shown \subseteq Paths
    BY <1>4 DEF InspectRefused, ReportTypeOK
  <2> HIDE DEF v
  <2>3. end' \in {"no", "aborted", "error", "reported"}
    BY <2>2 DEF Decide, Finish
  <2> QED BY <1>4, <2>1, <2>2, <2>3, DecideType DEF InspectRefused
<1>5. CASE Scan
  <2>1. CASE Finish("error") /\ UNCHANGED report
    BY <1>5, <2>1 DEF Scan, Finish, Goto
  <2>2. CASE \E v \in [Paths -> Verdicts]: Decide(Plan(v))
    <3>1. shown \subseteq Paths
      BY DEF ReportTypeOK
    <3>2. end' \in {"no", "aborted", "error", "reported"}
      BY <2>2 DEF Decide, Finish
    <3> QED BY <1>5, <2>2, <3>1, <3>2, DecideType DEF Scan
  <2> QED BY <1>5, <2>1, <2>2, ScanPlans
<1>6. CASE Reserve
  BY <1>6 DEF Reserve, Finish, Goto
<1>7. CASE Batch
  <2>1. ReportTypeOK'
    BY <1>7 DEF Batch, ReportTypeOK, report, RootGoneInBatch, Reasons
  <2> QED BY <1>7, <2>1 DEF Batch, Stop, Finish, Goto
<1>8. CASE BatchRefused
  BY <1>8 DEF BatchRefused, Goto
<1>9. CASE TakeNext
  <2>1. /\ UNCHANGED <<destVars, given, records, conn, wire, facts, batch, presaved, stopped>>
        /\ wire = "idle"
    BY <1>9 DEF TakeNext
  <2>2. CASE Finish("reported") /\ UNCHANGED report
    BY <2>1, <2>2 DEF Finish, Goto
  <2>3. CASE cur \in Paths \ Restoring /\ cur' = cur + 1 /\ UNCHANGED <<pc, op, retried, report, end>>
    BY <2>1, <2>3, DestinationAssumption DEF Paths
  <2>4. CASE cur \in Paths /\ Conclude("Failed", IF session THEN "backup" ELSE "read") /\ UNCHANGED <<shown, end>>
    <3>1. ReportTypeOK' /\ cur' \in 1..(N + 1) /\ pc' = "next" /\ retried' = FALSE /\ op' = op
      BY <2>4, ConcludeType DEF ReportTypeOK, Reasons
    <3> QED BY <2>1, <2>4, <3>1
  <2>5. CASE /\ IF session /\ state[cur] # "absent" THEN Goto("save") ELSE Start(FirstOp(cur))
             /\ UNCHANGED <<report, end>>
    BY <2>1, <2>5 DEF Goto, Start, FirstOp
  <2> HIDE DEF TypeOK
  <2> QED BY ONLY <1>9, <2>2, <2>3, <2>4, <2>5, TakeNextCases
<1>10. CASE Save
  BY <1>10 DEF Save, Goto
<1>11. CASE SaveFails
  BY <1>1, <1>11, ConcludeType DEF SaveFails, AtPath, ReportTypeOK, Reasons
<1>12. CASE ReadBack
  BY <1>1, <1>12, ConcludeType DEF ReadBack, Start, FirstOp, AtPath, ReportTypeOK, report, Reasons
<1>13. CASE SendRefused
  BY <1>1, <1>13, FailOpType DEF SendRefused, Ends, AtPath, Sending, Reasons
<1>14. CASE Send
  BY <1>14 DEF Send, Goto
<1>15. CASE Receive
  <2>1. cur \in Paths
    BY <1>1, <1>15 DEF Receive, AtPath, Sending
  <2>2. CASE Proceed
    <3>1. /\ ReportTypeOK' /\ cur' \in 1..(N + 1) /\ retried' = FALSE
          /\ pc' \in {"next", "send"} /\ op' \in {op, "link"}
      BY <2>1, <2>2, ProceedType DEF Ended, Ends
    <3> QED BY <1>15, <3>1 DEF Receive, Stop
  <2>3. CASE FailOp("refused") \/ FailOp("rootgone")
    BY <1>15, <2>1, <2>3, FailOpType DEF Receive, Ends, Stop, Reasons
  <2>4. CASE Goto("rootcheck") /\ UNCHANGED <<stopped, report>>
    BY <1>15, <2>4 DEF Receive, Goto
  <2> QED BY <1>15, <2>2, <2>3, <2>4 DEF Receive
<1>16. CASE RootCheck
  BY <1>1, <1>16, FailOpType DEF RootCheck, Ends, Stop, AtPath, Sending, Reasons
<1>17. CASE ReconnectToRead
  BY <1>17 DEF ReconnectToRead, Reads
<1>18. CASE GiveUpRead
  <2>1. CASE FailAll("read") /\ UNCHANGED <<batchFailed, shown>>
    BY <1>18, <2>1 DEF GiveUpRead, FailAll, Finish, Goto, Stop, ReportTypeOK, Reasons
  <2>2. CASE Goto("next") /\ UNCHANGED <<report, end>>
    BY <1>18, <2>2 DEF GiveUpRead, Goto, Stop
  <2>3. CASE pc = "rootcheck" /\ FailOp("refused") /\ UNCHANGED <<batchFailed, end>>
    BY <1>1, <1>18, <2>3, FailOpType DEF GiveUpRead, Ends, Stop, AtPath, Sending, Reasons
  <2> QED BY <1>18, <2>1, <2>2, <2>3 DEF GiveUpRead
<1>19. CASE LoseChange \/ ReconnectToConfirm
  BY <1>19 DEF LoseChange, ReconnectToConfirm, Stop, Goto
<1>20. CASE Confirm
  <2>1. cur \in Paths
    BY <1>1, <1>20 DEF Confirm, AtPath, Sending
  <2>2. CASE Proceed
    BY <1>20, <2>1, <2>2, ProceedType DEF Confirm, Ended, Ends
  <2>3. CASE FailOp(Outcome) /\ Outcome # "done"
    <3>1. Outcome \in Reasons
      BY <2>3 DEF Outcome, Reasons
    <3> QED BY <1>20, <2>1, <2>3, <3>1, FailOpType DEF Confirm, Ends
  <2> QED BY <1>20, <2>2, <2>3 DEF Confirm
<1>21. CASE ConfirmFails
  BY <1>1, <1>21, FailOpType DEF ConfirmFails, Ends, AtPath, Sending, Reasons
<1>22. CASE AgentStep
  <2>1. PICK ans \in {"begun"} \cup Answers: Perform(op, cur, wire, ans) /\ wire' = ans
    BY <1>22 DEF AgentStep
  <2>2. cur \in Paths /\ pc = "wait" /\ op \in Ops
    BY <1>1, <1>22 DEF AgentStep, Ops, AtPath, Sending
  <2>3. DestinationTypeOK'
    BY <1>22, <2>1, <2>2, PerformFrame DEF AgentStep, DestinationTypeOK
  <2> QED BY <1>22, <2>1, <2>2, <2>3 DEF AgentStep, control
<1>23. CASE LoseConnection
  BY <1>23 DEF LoseConnection, control
<1>24. CASE OthersStep
  BY <1>24, OthersFrame DEF OthersStep, control
<1>25. CASE UNCHANGED vars
  BY <1>25 DEF vars, control
<1> QED
  BY <1>2, <1>3, <1>4, <1>5, <1>6, <1>7, <1>8, <1>9, <1>10, <1>11, <1>12, <1>13, <1>14,
     <1>15, <1>16, <1>17, <1>18, <1>19, <1>20, <1>21, <1>22, <1>23, <1>24, <1>25
     DEF Next, CommandStep, Done

LEMMA ShapeStep == ASSUME TypeOK, Shape, [Next]_vars PROVE Shape'
<1>0. UNCHANGED given
  BY GivenStay
<1>1. pc \in AtPath => cur \in Paths
  BY DEF Shape, Restoring
<1>2. ReportTypeOK /\ op \in {"write", "remove", "link"}
  BY DEF TypeOK
<1>3. \A i \in Paths: i \in Restoring => result[i] = "planned"
  BY DEF Restoring
<1> USE <1>0 DEF Shape, AtPath, Sending, Early, Going, given
<1>4. CASE Choose \/ Prompt \/ ReadRecord \/ RecordGoes
  BY <1>4 DEF Choose, Prompt, ReadRecord, RecordGoes, Finish, Goto, control, batch, report
<1>5. CASE Inspect
  BY <1>5 DEF Inspect, Finish, Goto, batch, report
<1>6. CASE InspectRefused
  <2> DEFINE v == [i \in Paths |-> IF recorded[i] = "replaced" THEN "replaced" ELSE "unresolved"]
  <2>1. v \in [Paths -> Verdicts] /\ \A i \in Paths: v[i] # "restore"
    BY DEF Verdicts
  <2>2. Decide(Plan(v)) /\ shown \subseteq Paths
    BY <1>2, <1>6 DEF InspectRefused, ReportTypeOK
  <2> HIDE DEF v
  <2>3. pc' = "done"
    BY <2>1, <2>2, DecideType
  <2> QED BY <2>3
<1>7. CASE Scan
  <2>1. CASE Finish("error") /\ UNCHANGED report
    BY <2>1 DEF Finish, Goto
  <2>2. CASE \E v \in [Paths -> Verdicts]: Decide(Plan(v))
    <3>1. shown \subseteq Paths /\ pc = "scan" /\ UNCHANGED <<content, presaved>>
      BY <1>2, <1>7 DEF Scan, ReportTypeOK, batch
    <3> QED BY <2>2, <3>1, DecideType
  <2> QED BY <1>7, <2>1, <2>2, ScanPlans
<1>8. CASE Reserve
  BY <1>8 DEF Reserve, Finish, Goto, report
<1>9. CASE Batch
  BY <1>9 DEF Batch, Stop, Finish, Goto, report
<1>10. CASE BatchRefused
  BY <1>10 DEF BatchRefused, Goto, report
<1>11. CASE TakeNext
  <2>1. pc = "next"
    BY <1>11 DEF TakeNext
  <2>2. CASE Finish("reported") /\ UNCHANGED report
    BY <2>2 DEF Finish, Goto
  <2>3. CASE cur' = cur + 1 /\ UNCHANGED <<pc, op, retried, report, end>>
    BY <2>1, <2>3 DEF report
  <2>4. CASE cur \in Paths /\ Conclude("Failed", IF session THEN "backup" ELSE "read") /\ UNCHANGED <<shown, end>>
    <3>1. (IF session THEN "backup" ELSE "read") \in Reasons
      BY DEF Reasons
    <3> QED BY <1>2, <2>1, <2>4, <3>1, ConcludeType
  <2>5. CASE /\ cur \in Restoring /\ cur \in Paths
             /\ IF session /\ state[cur] # "absent" THEN Goto("save") ELSE Start(FirstOp(cur))
             /\ UNCHANGED <<report, end>>
    BY <2>1, <2>5 DEF Goto, Start, FirstOp, report, Restoring
  <2> HIDE DEF Shape
  <2> QED BY ONLY <1>11, <2>2, <2>3, <2>4, <2>5, TakeNextCases
<1>12. CASE Save
  BY <1>12 DEF Save, Goto, batch, report, Restoring
<1>13. CASE SaveFails
  <2>1. Ends("backup") /\ end' = end /\ pc = "save"
    BY <1>1, <1>2, <1>13, FailType DEF SaveFails, Reasons
  <2> QED BY <1>1, <2>1 DEF Ends
<1>14. CASE ReadBack
  <2>1. CASE Start(FirstOp(cur)) /\ UNCHANGED <<result, why>>
    BY <1>14, <2>1 DEF ReadBack, Start, FirstOp, Restoring
  <2>2. CASE Conclude("Failed", "readback")
    <3>1. Ends("readback") /\ end' = end /\ pc = "readback"
      BY <1>1, <1>2, <1>14, <2>2, FailType DEF ReadBack, Reasons
    <3> QED BY <1>1, <3>1 DEF Ends
  <2> QED BY <1>14, <2>1, <2>2 DEF ReadBack
<1>15. CASE SendRefused \/ RootCheck \/ ConfirmFails
  <2>1. cur \in Paths /\ pc \in Sending /\ end' = end
    BY <1>1, <1>15 DEF SendRefused, RootCheck, ConfirmFails
  <2>2. \E w \in Reasons: FailOp(w)
    BY <1>15 DEF SendRefused, RootCheck, ConfirmFails, Reasons
  <2>3. \E w: Ends(w)
    BY <1>2, <2>1, <2>2, FailOpType
  <2> QED BY <2>1, <2>3 DEF Ends
<1>16. CASE Send
  BY <1>16 DEF Send, Goto, batch, report, Restoring
<1>17. CASE Receive \/ Confirm
  <2>1. cur \in Paths /\ pc \in Sending /\ end' = end /\ UNCHANGED <<content, presaved>>
    BY <1>1, <1>17 DEF Receive, Confirm, batch
  <2>2. CASE Proceed
    <3>1. \/ Ended \/ Ends("oldremoved")
          \/ op = "remove" /\ pc' = "send" /\ op' = "link" /\ UNCHANGED <<cur, report>>
      BY <1>2, <2>1, <2>2, ProceedType
    <3> QED BY <2>1, <3>1 DEF Ended, Ends, report, Restoring
  <2>3. CASE \E w \in Reasons: FailOp(w)
    <3>1. \E w: Ends(w)
      BY <1>2, <2>1, <2>3, FailOpType
    <3> QED BY <2>1, <3>1 DEF Ends
  <2>4. CASE Goto("rootcheck") /\ UNCHANGED report
    BY <2>1, <2>4 DEF Goto, report, Restoring
  <2>5. Proceed \/ (\E w \in Reasons: FailOp(w)) \/ (Goto("rootcheck") /\ UNCHANGED report)
    <3>1. Outcome \in Reasons \cup {"done"}
      BY <1>2 DEF Outcome, Reasons
    <3>2. {"refused", "rootgone"} \subseteq Reasons
      BY DEF Reasons
    <3> QED BY <1>17, <3>1, <3>2 DEF Receive, Confirm
  <2> QED BY <2>2, <2>3, <2>4, <2>5
<1>18. CASE ReconnectToRead \/ LoseChange \/ ReconnectToConfirm
  <2>1. UNCHANGED <<content, presaved, report, end, cur, op>>
    BY <1>18 DEF ReconnectToRead, LoseChange, ReconnectToConfirm, Goto, batch
  <2>2. pc' = pc \/ (pc \in Sending /\ pc' \in Sending)
    BY <1>18 DEF ReconnectToRead, LoseChange, ReconnectToConfirm, Goto
  <2> QED BY <2>1, <2>2 DEF report, Restoring
<1>19. CASE GiveUpRead
  <2>1. CASE FailAll("read")
    BY <2>1 DEF FailAll, Finish, Goto
  <2>2. CASE pc = "batch" /\ Goto("next") /\ UNCHANGED <<report, end>>
    BY <2>2 DEF Goto, report
  <2>3. CASE pc = "rootcheck" /\ FailOp("refused") /\ end' = end
    <3>1. Ends(IF op = "link" THEN "oldremoved" ELSE "refused")
      BY <1>1, <1>2, <2>3, FailOpType DEF Reasons
    <3> QED BY <2>3, <3>1 DEF Ends
  <2> QED BY <1>19, <2>1, <2>2, <2>3 DEF GiveUpRead
<1>20. CASE AgentStep \/ LoseConnection \/ OthersStep \/ UNCHANGED vars
  BY <1>20 DEF AgentStep, LoseConnection, OthersStep, vars, control, batch, report, Restoring
<1> QED
  BY <1>4, <1>5, <1>6, <1>7, <1>8, <1>9, <1>10, <1>11, <1>12, <1>13, <1>14,
     <1>15, <1>16, <1>17, <1>18, <1>19, <1>20
     DEF Next, CommandStep, Done

----------------------------------------------------------------------------
(***************************************************************************)
(* What a step of the command may do.                                      *)
(***************************************************************************)
\* The command itself changes nothing at the destination.
LEMMA CommandFrame ==
  ASSUME CommandStep
  PROVE  /\ UNCHANGED <<dest, dir, root, perm, effects, touched>>
         /\ raced' = raced \/ (pc = "inspect" /\ raced' = {})
BY DEF CommandStep, Choose, ReadRecord, Inspect, InspectRefused, Scan, Reserve, Batch,
     BatchRefused, TakeNext, Save, SaveFails, ReadBack, SendRefused, Send, Receive, RootCheck,
     ReconnectToRead, GiveUpRead, LoseChange, ReconnectToConfirm, Confirm, ConfirmFails, destVars

\* Change op is known to have been carried out.
KnownDone == (pc = "wait" /\ wire = "ok") \/ (pc = "observe" /\ Outcome = "done")

\* What leads to each reason a path is reported to have failed for.
Cause(w) ==
  \/ w = "refused" \/ w = "unknown"
  \/ w \in {"backup", "read", "readback"} /\ pc \notin Sending
  \/ w = "stopped" /\ pc = "send" /\ op # "link"
  \/ w = "rootgone" /\ op # "link" /\ (pc = "rootcheck" \/ (pc = "wait" /\ wire = "rootgone"))
  \/ w \in {"notdone", "partial"} /\ pc = "observe" /\ op # "link" /\ Outcome = w
  \/ w = "oldremoved" /\ pc \in Sending /\ (op = "link" \/ (op = "remove" /\ KnownDone))

Plans ==
  /\ pc \in {"inspect", "scan"} /\ pc' \in {"reserve", "done"} /\ shown' = shown
  /\ \A i \in Paths: why'[i] \in Verdicts
  /\ \A i \in Paths: \/ result'[i] \in {"Skipped", "Failed"}
                     \/ result'[i] = "planned" /\ why'[i] = "restore" /\ Restorable(i)'

Abandons ==
  /\ pc \in {"inspect", "scan"} /\ shown' = shown
  /\ \A i \in Paths: result'[i] = "Failed" /\ why'[i] = "read"

FailsTogether ==
  /\ pc = "batch" /\ shown' = shown
  /\ \A i \in Paths: IF result[i] = "planned"
                     THEN result'[i] = "Failed" /\ why'[i] \in {"rootgone", "stopped"}
                     ELSE result'[i] = result[i] /\ why'[i] = why[i]

LEMMA ScanFits ==
  ASSUME TypeOK, Scan
  PROVE  \/ Finish("error") /\ UNCHANGED report
         \/ Plans /\ (pc' = "reserve" => \A i \in Paths: Fits(i)')
<1> SUFFICES ASSUME ~(Finish("error") /\ UNCHANGED report)
             PROVE  Plans /\ (pc' = "reserve" => \A i \in Paths: Fits(i)')
  OBVIOUS
<1>1. PICK v \in [Paths -> Verdicts]:
        Decide(Plan(v)) /\ \A i \in Paths: v[i] = Judge(i, state'[i], at[i])
  BY ScanPlans
<1>2. /\ recorded \in [Paths -> Kinds] /\ at \in [Paths -> [dir : DirStates, held : Entries]]
      /\ shown \subseteq Paths
  BY RollbackAssumption DEF TypeOK, FactsTypeOK, ReportTypeOK
<1>3. state' \in [Paths -> Entries]
  BY FactsStep DEF TypeOK, FactsTypeOK
<1>4. pc = "scan" /\ UNCHANGED <<recorded, at>>
  BY DEF Scan, given
<1>5. ASSUME NEW i \in Paths
      PROVE  /\ v[i] \notin {"unresolved", "moved", "linkchanged"} => Fits(i)'
             /\ v[i] = "restore" => Restorable(i)'
  <2>1. at[i] \in [dir : DirStates, held : Entries] /\ state'[i] \in Entries /\ recorded[i] \in Kinds
    BY <1>2, <1>3
  <2> QED BY <1>1, <1>4, <2>1, JudgeFits DEF Fits, Restorable
<1>6. /\ shown' = shown
      /\ \A i \in Paths: result'[i] \in {"planned", "Skipped", "Failed"} /\ why'[i] \in Verdicts
      /\ \A i \in Paths: result'[i] = "planned" =>
           /\ v[i] = "restore" /\ why'[i] = "restore"
           /\ \A j \in Paths: v[j] \notin {"unresolved", "moved", "linkchanged"}
      /\ pc' = "done" \/ (pc' = "reserve" /\ \E i \in Paths: result'[i] = "planned")
  BY <1>1, <1>2, DecideType
<1>7. Plans
  BY <1>4, <1>5, <1>6 DEF Plans
<1> QED BY <1>5, <1>6, <1>7

LEMMA InspectRefusedPlans == ASSUME TypeOK, InspectRefused PROVE Plans /\ pc' = "done"
<1> DEFINE v == [i \in Paths |-> IF recorded[i] = "replaced" THEN "replaced" ELSE "unresolved"]
<1>1. v \in [Paths -> Verdicts] /\ \A i \in Paths: v[i] # "restore"
  BY DEF Verdicts
<1>2. Decide(Plan(v)) /\ shown \subseteq Paths /\ pc = "inspect"
  BY DEF InspectRefused, TypeOK, ReportTypeOK
<1> HIDE DEF v
<1>3. /\ shown' = shown /\ pc' = "done"
      /\ \A i \in Paths: result'[i] \in {"Skipped", "Failed"} /\ why'[i] \in Verdicts
  BY <1>1, <1>2, DecideType
<1> QED BY <1>2, <1>3 DEF Plans

\* A change that ends without success.
LEMMA FailCauses ==
  ASSUME ReportTypeOK, cur \in Paths, NEW w \in Reasons, FailOp(w),
         pc \in Sending, op # "link" => Cause(w)
  PROVE  \E x \in Reasons: Ends(x) /\ Cause(x)
<1>1. Ends(IF op = "link" THEN "oldremoved" ELSE w)
  BY FailOpType
<1>2. CASE op = "link"
  BY <1>1, <1>2 DEF Cause, Reasons
<1>3. CASE op # "link"
  BY <1>1, <1>3
<1> QED BY <1>2, <1>3

LEMMA CommandReports ==
  ASSUME TypeOK, Shape, CommandStep
  PROVE  \/ UNCHANGED report
         \/ Plans \/ Abandons \/ FailsTogether
         \/ cur \in Restoring /\ \E w \in Reasons: Ends(w) /\ Cause(w)
         \/ cur \in Restoring /\ pc \in Sending /\ op # "remove" /\ KnownDone /\ Ended
<1>1. pc \in AtPath => cur \in Restoring
  BY DEF Shape
<1>2. ReportTypeOK /\ op \in {"write", "remove", "link"} /\ Restoring \subseteq Paths
  BY DEF TypeOK, Restoring
<1>3. CASE Choose \/ ReadRecord \/ Inspect \/ Reserve \/ BatchRefused \/ Save \/ Send
           \/ ReconnectToRead \/ LoseChange \/ ReconnectToConfirm
  BY <1>3 DEF Choose, ReadRecord, Inspect, Reserve, BatchRefused, Save, Send,
     ReconnectToRead, LoseChange, ReconnectToConfirm
<1>4. CASE InspectRefused
  BY <1>4, InspectRefusedPlans
<1>5. CASE Scan
  BY <1>5, ScanFits
<1>6. CASE Batch
  <2>1. CASE UNCHANGED report
    BY <2>1
  <2>2. CASE ~UNCHANGED report
    <3>1. /\ pc = "batch" /\ shown' = shown /\ why' = RootGoneInBatch
          /\ result' = [i \in Paths |-> IF i \in Restoring THEN "Failed" ELSE result[i]]
      BY <1>6, <2>2 DEF Batch
    <3> QED BY <3>1 DEF FailsTogether, RootGoneInBatch, Restoring
  <2> QED BY <2>1, <2>2
<1>7. CASE TakeNext
  <2>1. CASE UNCHANGED report
    BY <2>1
  <2>2. CASE ~UNCHANGED report
    <3>1. /\ cur \in PresentFiles /\ cur \in Paths
          /\ Conclude("Failed", IF session THEN "backup" ELSE "read") /\ UNCHANGED shown
      BY <1>7, <2>2, TakeNextCases
    <3>2. pc = "next" /\ cur \in Restoring
      BY <1>7, <3>1 DEF TakeNext, PresentFiles
    <3>3. \A w \in {"backup", "read"}: w \in Reasons /\ Cause(w)
      BY <3>2 DEF Cause, Sending, Reasons
    <3> QED BY <1>2, <3>1, <3>2, <3>3, FailType
  <2> QED BY <2>1, <2>2
<1>8. CASE SaveFails
  <2>1. "backup" \in Reasons /\ Cause("backup") /\ cur \in Restoring
    BY <1>1, <1>8 DEF SaveFails, Cause, Sending, Reasons, AtPath
  <2> QED BY <1>2, <1>8, <2>1, FailType DEF SaveFails
<1>9. CASE ReadBack
  <2>1. "readback" \in Reasons /\ Cause("readback") /\ cur \in Restoring
    BY <1>1, <1>9 DEF ReadBack, Cause, Sending, Reasons, AtPath
  <2> QED BY <1>2, <1>9, <2>1, FailType DEF ReadBack, report
<1>10. CASE SendRefused \/ RootCheck \/ ConfirmFails
  <2>1. pc \in Sending /\ cur \in Restoring
    BY <1>1, <1>10 DEF SendRefused, RootCheck, ConfirmFails, Sending, AtPath
  <2>2. \E w \in Reasons: FailOp(w) /\ (op # "link" => Cause(w))
    BY <1>10 DEF SendRefused, RootCheck, ConfirmFails, Cause, Reasons
  <2> QED BY <1>2, <2>1, <2>2, FailCauses
<1>11. CASE GiveUpRead
  <2>1. CASE FailAll("read") /\ shown' = shown /\ pc \in {"inspect", "scan"}
    BY <2>1 DEF FailAll, Abandons
  <2>2. CASE pc = "rootcheck" /\ FailOp("refused")
    <3>1. pc \in Sending /\ cur \in Restoring /\ "refused" \in Reasons /\ Cause("refused")
      BY <1>1, <2>2 DEF Sending, AtPath, Cause, Reasons
    <3> QED BY <1>2, <2>2, <3>1, FailCauses
  <2> QED BY <1>11, <2>1, <2>2 DEF GiveUpRead
<1>12. CASE Receive \/ Confirm
  <2>1. pc \in Sending /\ cur \in Restoring
    BY <1>1, <1>12 DEF Receive, Confirm, Sending, AtPath
  <2>2. CASE Proceed /\ KnownDone
    <3>1. \/ op \in {"write", "link"} /\ Ended
          \/ op = "remove" /\ Ends("oldremoved")
          \/ UNCHANGED report
      BY <1>2, <2>1, <2>2, ProceedType
    <3> QED BY <2>1, <2>2, <3>1 DEF Cause, Reasons
  <2>3. CASE \E w \in Reasons: FailOp(w) /\ (op # "link" => Cause(w))
    BY <1>2, <2>1, <2>3, FailCauses
  <2>4. CASE Receive
    BY <2>2, <2>3, <2>4 DEF Receive, KnownDone, Cause, Reasons
  <2>5. CASE Confirm
    <3>1. Outcome \in {"done", "notdone", "unknown", "partial"}
      BY <1>2 DEF Outcome
    <3> QED BY <2>2, <2>3, <2>5, <3>1 DEF Confirm, KnownDone, Cause, Reasons
  <2> QED BY <1>12, <2>4, <2>5
<1> QED
  BY <1>3, <1>4, <1>5, <1>6, <1>7, <1>8, <1>9, <1>10, <1>11, <1>12 DEF CommandStep

\* How the command moves from one request to the next.
Moves ==
  \/ /\ pc' \notin Sending /\ wire' = "idle"
     /\ pc \in Sending => result'[cur] \in {"Restored", "Failed"}
  \/ /\ pc \in {"next", "readback"} /\ pc' = "send" /\ wire' = "idle"
     /\ cur \in Restoring /\ op' \in {"write", "remove"} /\ UNCHANGED <<cur, report>>
     /\ pc = "next" => ~(session /\ state[cur] # "absent") /\ (cur \in PresentFiles => ~batchFailed)
  \/ pc = "send" /\ pc' = "wait" /\ wire' = "sent" /\ UNCHANGED <<cur, op, report>>
  \/ /\ pc \in Sending /\ pc' \in {"rootcheck", "confirm", "observe"} /\ wire' = "idle"
     /\ pc' = "rootcheck" => pc = "rootcheck" \/ wire = "notfound"
     /\ UNCHANGED <<cur, op, report>>
  \/ /\ pc \in Sending /\ pc' = "send" /\ wire' = "idle"
     /\ op = "remove" /\ op' = "link" /\ KnownDone /\ UNCHANGED <<cur, report>>

LEMMA CommandMoves == ASSUME TypeOK, Shape, CommandStep PROVE Moves
<1>1. pc \in AtPath => cur \in Restoring
  BY DEF Shape
<1>2. /\ ReportTypeOK /\ op \in {"write", "remove", "link"} /\ Restoring \subseteq Paths
      /\ wire # "idle" => pc = "wait"
  BY DEF TypeOK, Restoring
<1>3. CASE Choose \/ ReadRecord \/ Inspect
  BY <1>2, <1>3 DEF Choose, ReadRecord, Inspect, Finish, Goto, Moves, Sending
<1>4. CASE Reserve \/ Batch \/ BatchRefused \/ Save \/ SaveFails
  BY <1>2, <1>4 DEF Reserve, Batch, BatchRefused, Save, SaveFails,
     Finish, Goto, Conclude, Moves, Sending
<1>5. CASE InspectRefused \/ Scan
  <2>1. wire' = "idle" /\ pc \notin Sending
    BY <1>2, <1>5 DEF InspectRefused, Scan, Sending
  <2>2. pc' \in {"reserve", "done"}
    BY <1>5, InspectRefusedPlans, ScanFits DEF Finish, Goto, Plans
  <2> QED BY <2>1, <2>2 DEF Moves, Sending
<1>6. CASE TakeNext
  <2>1. pc = "next" /\ wire' = "idle"
    BY <1>2, <1>6 DEF TakeNext
  <2>2. CASE pc' = "send"
    <3>1. /\ cur \in Restoring /\ Start(FirstOp(cur)) /\ UNCHANGED report
          /\ ~(session /\ state[cur] # "absent") /\ (cur \in PresentFiles => ~batchFailed)
      BY <1>6, <2>1, <2>2, TakeNextCases DEF Finish, Conclude, Goto
    <3> QED BY <2>1, <2>2, <3>1 DEF Start, FirstOp, Moves
  <2>3. CASE pc' # "send"
    <3>1. pc' \in {"done", "next", "save"}
      BY <1>6, <2>1, <2>3, TakeNextCases DEF Finish, Conclude, Goto, Start
    <3> QED BY <2>1, <3>1 DEF Moves, Sending
  <2> QED BY <2>2, <2>3
<1>7. CASE ReadBack
  BY <1>1, <1>2, <1>7 DEF ReadBack, Start, FirstOp, Conclude, Moves, Sending, AtPath, report
<1>8. CASE SendRefused \/ RootCheck \/ ConfirmFails
  <2>1. pc \in Sending /\ cur \in Restoring /\ wire' = "idle"
    BY <1>1, <1>2, <1>8 DEF SendRefused, RootCheck, ConfirmFails, Sending, AtPath
  <2>2. \E w \in Reasons: FailOp(w)
    BY <1>8 DEF SendRefused, RootCheck, ConfirmFails, Reasons
  <2>3. \E w: Ends(w)
    BY <1>2, <2>1, <2>2, FailOpType
  <2> QED BY <2>1, <2>3 DEF Ends, Moves, Sending
<1>9. CASE Send
  BY <1>9 DEF Send, Goto, Moves
<1>10. CASE ReconnectToRead
  BY <1>2, <1>10 DEF ReconnectToRead, Reads, ReadPcs, Moves, Sending
<1>11. CASE LoseChange \/ ReconnectToConfirm
  BY <1>2, <1>11 DEF LoseChange, ReconnectToConfirm, Goto, Moves, Sending
<1>12. CASE GiveUpRead
  <2>1. wire' = "idle" /\ pc' \in {"done", "next"}
    BY <1>2, <1>12 DEF GiveUpRead, Reads, ReadPcs, FailAll, Finish, Goto, FailOp, Conclude
  <2>2. CASE pc = "rootcheck"
    <3>1. FailOp("refused") /\ "refused" \in Reasons /\ cur \in Restoring
      BY <1>1, <1>12, <2>2 DEF GiveUpRead, Reasons, AtPath, Sending
    <3>2. \E w: Ends(w)
      BY <1>2, <3>1, FailOpType
    <3> QED BY <2>1, <3>2 DEF Ends, Moves, Sending
  <2>3. CASE pc # "rootcheck"
    BY <1>12, <2>1, <2>3 DEF GiveUpRead, Reads, ReadPcs, Moves, Sending
  <2> QED BY <2>2, <2>3
<1>13. CASE Receive \/ Confirm
  <2>1. pc \in Sending /\ cur \in Restoring /\ wire' = "idle"
    BY <1>1, <1>2, <1>13 DEF Receive, Confirm, Sending, AtPath
  <2>2. CASE Proceed /\ KnownDone
    <3>1. \/ Ended \/ Ends("oldremoved")
          \/ op = "remove" /\ pc' = "send" /\ op' = "link" /\ UNCHANGED <<cur, report>>
      BY <1>2, <2>1, <2>2, ProceedType
    <3> QED BY <2>1, <2>2, <3>1 DEF Ended, Ends, Moves, Sending
  <2>3. CASE \E w \in Reasons: FailOp(w)
    <3>1. \E w: Ends(w)
      BY <1>2, <2>1, <2>3, FailOpType
    <3> QED BY <2>1, <3>1 DEF Ends, Moves, Sending
  <2>4. CASE Receive
    <3>1. {"refused", "rootgone"} \subseteq Reasons
      BY DEF Reasons
    <3> QED BY <2>1, <2>2, <2>3, <2>4, <3>1 DEF Receive, KnownDone, Goto, Moves
  <2>5. CASE Confirm
    <3>1. Outcome \in Reasons \cup {"done"}
      BY <1>2 DEF Outcome, Reasons
    <3> QED BY <2>2, <2>3, <2>5, <3>1 DEF Confirm, KnownDone
  <2> QED BY <1>13, <2>4, <2>5
<1> QED
  BY <1>3, <1>4, <1>5, <1>6, <1>7, <1>8, <1>9, <1>10, <1>11, <1>12, <1>13 DEF CommandStep

\* Only these steps learn or save anything.
LEMMA CommandKeeps ==
  ASSUME CommandStep
  PROVE  /\ Inspect \/ at' = at
         /\ Scan \/ state' = state
         /\ Reserve \/ session' = session
         /\ Batch \/ content' = content
         /\ Save \/ presaved' = presaved
         /\ BatchRefused \/ (GiveUpRead /\ pc = "batch") \/ batchFailed' = batchFailed
BY DEF CommandStep, Choose, ReadRecord, Inspect, InspectRefused, Scan, Reserve, Batch,
     BatchRefused, TakeNext, Save, SaveFails, ReadBack, SendRefused, Send, Receive, RootCheck,
     ReconnectToRead, GiveUpRead, LoseChange, ReconnectToConfirm, Confirm, ConfirmFails, facts, batch

\* Everybody else leaves what the command knows alone.
LEMMA OthersKeep ==
  ASSUME TypeOK, [Next]_vars, ~CommandStep
  PROVE  /\ UNCHANGED <<given, facts, batch, presaved, report>>
         /\ \/ Prompt
            \/ AgentStep
            \/ UNCHANGED <<wire, control, end, effects>> /\ (OthersStep \/ UNCHANGED destVars)
<1>1. CASE Prompt
  BY <1>1 DEF Prompt
<1>2. CASE AgentStep
  BY <1>2 DEF AgentStep
<1>3. CASE OthersStep
  <2>1. UNCHANGED effects
    BY <1>3, OthersFrame DEF OthersStep, TypeOK
  <2> QED BY <1>3, <2>1 DEF OthersStep
<1>4. CASE LoseConnection \/ RecordGoes \/ UNCHANGED vars
  BY <1>4 DEF LoseConnection, RecordGoes, vars, destVars
<1> QED BY <1>1, <1>2, <1>3, <1>4 DEF Next, Done

\* Where the command comes from.
LEMMA CommandComesFrom ==
  ASSUME TypeOK, Shape, CommandStep
  PROVE  /\ pc' \in Going => pc \in Going \/ (Scan /\ pc' = "reserve")
         /\ pc' = "reserve" => Scan
         /\ pc' = "batch" => pc \in {"reserve", "batch"}
         /\ pc' = "scan" => Inspect \/ pc = "scan"
         /\ pc' = "save" => TakeNext
         /\ pc' = "readback" => Save
         /\ (pc' = "next" /\ pc \notin {"next"} \cup AtPath) => pc \in {"reserve", "batch"}
<1> USE DEF Going, AtPath, Sending
<1>1. CASE Scan
  BY <1>1, ScanFits DEF Scan, Plans, Finish, Goto
<1>2. CASE InspectRefused
  BY <1>2, InspectRefusedPlans
<1>3. CASE Choose \/ ReadRecord \/ Inspect \/ Reserve \/ Batch \/ BatchRefused \/ Save \/ SaveFails
           \/ ReadBack \/ Send \/ LoseChange \/ ReconnectToConfirm
  BY <1>3 DEF Choose, ReadRecord, Inspect, Reserve, Batch, BatchRefused, Save, SaveFails, ReadBack,
     Send, LoseChange, ReconnectToConfirm, Finish, Goto, Conclude, Start
<1>4. CASE TakeNext
  BY <1>4 DEF TakeNext, Finish, Conclude, Goto, Start
<1>5. CASE SendRefused \/ RootCheck \/ ConfirmFails \/ Receive \/ Confirm
  <2>1. pc \in Sending /\ pc' \in {"next", "send", "rootcheck"}
    BY <1>5 DEF SendRefused, RootCheck, ConfirmFails, Receive, Confirm, Proceed, Restored, FailOp,
       Conclude, Start, Goto
  <2> QED BY <2>1
<1>6. CASE ReconnectToRead
  <2>1. pc' = pc /\ pc \in ReadPcs
    BY <1>6 DEF ReconnectToRead, Reads
  <2> QED BY <2>1 DEF ReadPcs
<1>7. CASE GiveUpRead
  <2>1. pc' \in {"done", "next"} /\ (pc' = "next" => pc \in {"batch", "rootcheck"})
    BY <1>7 DEF GiveUpRead, FailAll, Finish, Goto, FailOp, Conclude
  <2> QED BY <2>1
<1> QED BY <1>1, <1>2, <1>3, <1>4, <1>5, <1>6, <1>7 DEF CommandStep

----------------------------------------------------------------------------
(***************************************************************************)
(* What the plan lets through.                                             *)
(***************************************************************************)
LEMMA PlannedInit == ASSUME Init PROVE Planned
BY DEF Init, Planned, Going, AtPath, Sending

LEMMA PlannedStep == ASSUME TypeOK, Shape, Planned, [Next]_vars PROVE Planned'
<1>0. UNCHANGED recorded
  BY GivenStay DEF given
<1>1. CASE CommandStep
  <2>1. pc' \in Going => \A i \in Paths: Fits(i)'
    <3>1. CASE Scan
      BY <3>1, ScanFits DEF Finish, Goto, Going, AtPath, Sending, Plans
    <3>2. CASE pc \in Going
      <4>1. UNCHANGED <<at, state>>
        BY <1>1, <3>2, CommandKeeps DEF Inspect, Scan, Going, AtPath, Sending
      <4> QED BY <1>0, <3>2, <4>1 DEF Planned, Fits
    <3> QED BY <1>1, <3>1, <3>2, CommandComesFrom
  <2>2. ASSUME NEW i \in Paths, result'[i] \in {"planned", "Restored"}
        PROVE  Restorable(i)' /\ (result'[i] = "planned" => why'[i] = "restore")
    <3>1. CASE Plans
      BY <2>2, <3>1 DEF Plans
    <3>2. CASE result[i] = "planned" /\ (result'[i] = "planned" => UNCHANGED <<result, why>> \/ why'[i] = why[i])
      <4>1. state' = state
        BY <1>1, <3>2, CommandKeeps DEF Scan, Shape, Early
      <4> QED BY <1>0, <2>2, <3>2, <4>1 DEF Planned, Restorable
    <3>3. CASE result'[i] = result[i] /\ why'[i] = why[i]
      <4>1. state' = state
        BY <1>1, <2>2, <3>3, CommandKeeps DEF Scan, Shape, Early
      <4> QED BY <1>0, <2>2, <3>3, <4>1 DEF Planned, Restorable
    <3>4. CASE Abandons
      BY <2>2, <3>4 DEF Abandons
    <3>5. CASE FailsTogether
      BY <2>2, <3>3, <3>5 DEF FailsTogether
    <3>6. CASE cur \in Restoring /\ (Ended \/ \E w \in Reasons: Ends(w))
      <4>1. i # cur => result'[i] = result[i] /\ why'[i] = why[i]
        BY <3>6 DEF Ended, Ends
      <4>2. i = cur => result[i] = "planned" /\ result'[i] # "planned"
        BY <3>6 DEF Ended, Ends, Restoring
      <4> QED BY <3>2, <3>3, <4>1, <4>2
    <3> QED BY <1>1, <3>1, <3>3, <3>4, <3>5, <3>6, CommandReports DEF report
  <2> QED BY <2>1, <2>2 DEF Planned
<1>2. CASE ~CommandStep
  <2>1. UNCHANGED <<state, at, result, why>>
    BY <1>2, OthersKeep DEF facts, report
  <2>2. pc' = pc \/ pc' \notin Going
    BY <1>2, OthersKeep DEF Prompt, AgentStep, Goto, Finish, control, Going, AtPath, Sending
  <2> QED BY <1>0, <2>1, <2>2 DEF Planned, Fits, Restorable
<1> QED BY <1>1, <1>2

----------------------------------------------------------------------------
(***************************************************************************)
(* What the requests so far did.                                           *)
(***************************************************************************)
LEMMA WorkedInit == ASSUME Init PROVE Worked
BY DEF Init, Worked

\* What a step of the agent does to the path in hand.
LEMMA AgentActs ==
  ASSUME TypeOK, Shape, AgentStep
  PROVE  /\ pc = "wait" /\ cur \in Restoring /\ cur \in Paths
         /\ wire \in {"sent", "begun"} /\ wire' \in {"begun"} \cup Answers
         /\ Perform(op, cur, wire, wire') /\ op \in Ops
         /\ UNCHANGED <<touched, raced, given, pc, cur, op, end>>
<1>1. pc = "wait" /\ cur \in Restoring /\ op \in Ops
  BY DEF AgentStep, TypeOK, Shape, AtPath, Sending, Ops
<1> QED BY <1>1 DEF AgentStep, Restoring, control

\* A change that is known to be carried out, seen from a path nobody else changed.
LEMMA KnownEffect ==
  ASSUME TypeOK, Shape, Planned, Worked, Held, pc \in Sending, cur \notin touched, KnownDone
  PROVE  /\ op = "remove" => "remove" \in effects[cur]
         /\ op = "link" => {"remove", "link"} \subseteq effects[cur] /\ dest[cur] = "newlink"
         /\ op = "write" => /\ "write" \in effects[cur] \/ (state[cur] = "new" /\ effects[cur] = {})
                            /\ dest[cur] = "new"
<1>1. /\ cur \in Paths /\ result[cur] = "planned" /\ Restorable(cur) /\ cur \notin raced
      /\ dest[cur] = HeldAfter(cur)
  BY DEF Shape, AtPath, Restoring, Planned, Restorable, Held, Going
<1>2. /\ recorded[cur] = "link" => /\ op \in {"remove", "link"} /\ state[cur] = "oldlink"
                                   /\ effects[cur] \subseteq {"remove", "link"}
                                   /\ "link" \in effects[cur] => "remove" \in effects[cur]
      /\ recorded[cur] # "link" => op = "write" /\ effects[cur] \subseteq {"begin", "write"}
  BY <1>1 DEF Shape, Restorable, Worked
<1>3. CASE wire = "ok"
  <2>1. op \in effects[cur]
    BY <1>3 DEF Worked
  <2> QED BY <1>1, <1>2, <2>1 DEF HeldAfter
<1>4. CASE Outcome = "done"
  BY <1>1, <1>2, <1>4 DEF Outcome, HeldAfter
<1> QED BY <1>3, <1>4 DEF KnownDone

LEMMA WorkedStep ==
  ASSUME TypeOK, Shape, Planned, Worked, Held, [Next]_vars PROVE Worked'
<1>0. UNCHANGED recorded
  BY GivenStay DEF given
<1>1. CASE CommandStep
  <2>1. UNCHANGED <<effects, touched>> /\ Moves
    BY <1>1, CommandFrame, CommandMoves
  <2>2. ASSUME NEW i \in Paths, result'[i] \in {"pending", "planned", "Skipped"}
        PROVE  effects[i] = {} \/ (i = cur' /\ pc' \in Sending)
    <3>1. CASE UNCHANGED report
      BY <2>1, <2>2, <3>1 DEF Moves, report, Worked, Sending
    <3>2. CASE Plans \/ Abandons
      <4>1. pc \in Early /\ pc \notin Sending
        BY <3>2 DEF Plans, Abandons, Early, Sending
      <4> QED BY <4>1 DEF Shape, Worked
    <3>3. CASE FailsTogether
      BY <3>3 DEF FailsTogether, Worked
    <3>4. CASE Ended \/ \E w \in Reasons: Ends(w)
      BY <2>2, <3>4 DEF Ended, Ends, Worked
    <3> QED BY <1>1, <3>1, <3>2, <3>3, <3>4, CommandReports
  <2>3. pc' \in {"reserve", "batch"} => \A i \in Paths: effects[i] = {}
    <3>1. CASE Scan
      BY <3>1 DEF Scan, Shape, Early, Worked, Sending
    <3> QED BY <1>1, <3>1, CommandComesFrom DEF Worked
  <2>4. (pc' \in Sending /\ pc \notin Sending) => effects[cur] = {}
    BY <2>1 DEF Moves, Worked, Sending, Restoring
  <2>5. (pc \in Sending /\ op = "remove" /\ KnownDone /\ cur \notin touched) => "remove" \in effects[cur]
    BY KnownEffect
  <2>6. wire' \in {"idle", "sent"}
    BY <2>1 DEF Moves
  <2>7. (pc' \in {"send", "rootcheck"} \/ wire' = "sent") /\ op' # "link" => effects[cur'] = {}
    <3>1. CASE wire' = "sent"
      BY <2>1, <3>1 DEF Moves, Worked
    <3>2. CASE pc' = "rootcheck"
      BY <2>1, <3>2 DEF Moves, Worked, Sending
    <3>3. CASE pc' = "send"
      BY <2>1, <2>4, <3>3 DEF Moves, Sending
    <3> QED BY <3>1, <3>2, <3>3
  <2>8. (pc' \in Sending /\ op' = "remove") => "link" \notin effects[cur']
    BY <2>1, <2>4 DEF Moves, Worked, Sending
  <2>9. (pc' \in Sending /\ op' = "link" /\ cur' \notin touched) => "remove" \in effects[cur']
    BY <2>1, <2>4, <2>5 DEF Moves, Worked, Sending
  <2>10. ASSUME NEW i \in Paths, effects[i] # {} PROVE Restorable(i)'
    <3>1. pc # "scan"
      BY <2>10 DEF Shape, Worked, Early, Sending
    <3>2. state' = state
      BY <1>1, <3>1, CommandKeeps DEF Scan
    <3> QED BY <1>0, <2>10, <3>2 DEF Worked, Restorable
  <2> QED BY <1>0, <2>1, <2>2, <2>3, <2>6, <2>7, <2>8, <2>9, <2>10 DEF Worked
<1>2. CASE AgentStep
  <2>1. /\ pc = "wait" /\ cur \in Restoring /\ cur \in Paths
        /\ wire \in {"sent", "begun"} /\ wire' \in {"begun"} \cup Answers
        /\ Perform(op, cur, wire, wire') /\ op \in Ops
        /\ UNCHANGED <<touched, raced, pc, cur, op, end>>
    BY <1>2, AgentActs
  <2>2. /\ \A j \in Paths \ {cur}: effects'[j] = effects[j]
        /\ wire' = "begun" => op = "write" /\ wire = "sent" /\ effects'[cur] = effects[cur] \cup {"begin"}
        /\ wire' = "ok" => /\ effects'[cur] = effects[cur] \cup {op}
                           /\ op = "write" => wire = "begun"
        /\ wire' \in {"refused", "notfound", "rootgone"} => effects' = effects
        /\ wire' \in {"notfound", "rootgone"} => wire = "sent"
    BY <2>1, PerformFrame, PerformResult DEF TypeOK
  <2>3. result' = result
    BY <1>2 DEF AgentStep, report
  <2>4. IF recorded[cur] = "link" THEN op \in {"remove", "link"} ELSE op = "write"
    BY <2>1 DEF Shape, Sending
  <2>5. effects'[cur] \in {effects[cur], effects[cur] \cup {"begin"}, effects[cur] \cup {op}}
    BY <2>1, <2>2 DEF Answers
  <2>6. \A i \in Paths: effects'[i] \subseteq
          (IF recorded[i] = "link" THEN {"remove", "link"} ELSE {"begin", "write"})
    <3>1. effects'[cur] # effects[cur] \cup {"begin"} \/ recorded[cur] # "link" \/ effects'[cur] = effects[cur]
      BY <2>1, <2>2, <2>4 DEF Answers
    <3> QED BY <2>2, <2>4, <2>5, <3>1 DEF Worked
  <2>7. \A i \in Paths \ touched: "link" \in effects'[i] => "remove" \in effects'[i]
    BY <2>1, <2>2, <2>5 DEF Worked, Sending
  <2>8. \A i \in Paths: "write" \in effects'[i] => "begin" \in effects'[i]
    BY <2>1, <2>2, <2>5 DEF Worked, Answers
  <2>9. op = "remove" => "link" \notin effects'[cur]
    BY <2>1, <2>5 DEF Worked, Sending
  <2>10. (op = "link" /\ cur \notin touched) => "remove" \in effects'[cur]
    BY <2>1, <2>5 DEF Worked, Sending
  <2>11. \A i \in Paths: result[i] \in {"pending", "planned", "Skipped"} => effects'[i] = {} \/ i = cur
    BY <2>2 DEF Worked
  <2>12. /\ wire' \in {"notfound", "rootgone"} /\ op # "link" => effects'[cur] = {}
         /\ wire' = "ok" => op \in effects'[cur]
         /\ wire' = "begun" => op = "write" /\ effects'[cur] = {"begin"}
         /\ wire' # "sent"
    BY <2>1, <2>2 DEF Worked, Answers
  <2>13. \A i \in Paths: effects'[i] # {} => Restorable(i)'
    <3>1. Restorable(cur) /\ UNCHANGED state
      BY <1>2, <2>1 DEF Planned, Restoring, AgentStep, facts
    <3> QED BY <1>0, <2>2, <3>1 DEF Worked, Restorable
  <2> QED BY <1>0, <2>1, <2>3, <2>6, <2>7, <2>8, <2>9, <2>10, <2>11, <2>12, <2>13 DEF Worked, Sending
<1>3. CASE ~CommandStep /\ ~AgentStep
  <2>1. CASE Prompt
    BY <1>0, <2>1 DEF Prompt, Finish, Goto, destVars, facts, report, TypeOK, Worked, Sending, Restorable
  <2>2. CASE UNCHANGED <<wire, control, end, effects, facts, report>> /\ touched \subseteq touched'
    BY <1>0, <2>2 DEF control, facts, report, Worked, Restorable
  <2>3. OthersStep => touched \subseteq touched'
    BY OthersFrame DEF OthersStep, TypeOK
  <2> QED BY <1>3, <2>1, <2>2, <2>3, OthersKeep DEF destVars
<1> QED BY <1>1, <1>2, <1>3

----------------------------------------------------------------------------
(***************************************************************************)
(* What a path holds if nobody else changed it.                            *)
(***************************************************************************)
LEMMA HeldInit == ASSUME Init PROVE Held
<1>1. \A i \in Paths: dest[i] # "partial"
  BY RollbackAssumption DEF Init
<1> QED BY <1>1 DEF Init, Held, Going, AtPath, Sending

LEMMA HeldStep ==
  ASSUME TypeOK, Shape, Planned, Worked, Held, [Next]_vars PROVE Held'
<1>0. UNCHANGED recorded
  BY GivenStay DEF given
<1>1. CASE CommandStep
  <2>1. UNCHANGED <<dest, dir, effects, touched>> /\ (raced' = raced \/ (pc = "inspect" /\ raced' = {}))
    BY <1>1, CommandFrame
  <2>2. pc \in Early => \A i \in Paths: effects[i] = {}
    BY DEF Shape, Worked, Early, Sending
  <2>3. \A i \in Paths \ touched: state'[i] # "partial"
    <3>1. CASE Scan
      <4>1. pc = "scan" /\ (state' = state \/ \A i \in Paths: state'[i] \in {dest[i], "absent"})
        BY <3>1 DEF Scan
      <4> QED BY <2>2, <4>1 DEF Held, Early
    <3> QED BY <1>1, <3>1, CommandKeeps DEF Held
  <2>4. pc' = "scan" => \A i \in Paths \ raced': at'[i].held = dest[i]
    <3>1. CASE Inspect
      BY <3>1 DEF Inspect, Finish, Goto
    <3>2. CASE pc = "scan"
      BY <1>1, <2>1, <3>2, CommandKeeps DEF Inspect, Held
    <3> QED BY <1>1, <3>1, <3>2, CommandComesFrom
  <2>5. pc' \in Going => \A i \in Paths \ raced': recorded[i] # "replaced" => dest[i] = HeldAfter(i)'
    <3>1. CASE pc \in Going
      <4>1. state' = state /\ raced' = raced
        BY <1>1, <2>1, <3>1, CommandKeeps DEF Scan, Going, AtPath, Sending
      <4> QED BY <2>1, <3>1, <4>1 DEF Held, HeldAfter
    <3>2. CASE Scan /\ pc' = "reserve"
      <4>1. /\ \A i \in Paths: effects[i] = {}
            /\ \A i \in Paths: Fits(i)'
        BY <2>2, <3>2, ScanFits DEF Scan, Early, Finish, Goto
      <4>2. /\ state' = [i \in Paths |-> IF i \in Listed THEN dest[i] ELSE "absent"]
            /\ at' = at
        BY <3>2, <1>1, CommandKeeps DEF Scan, Inspect, Finish, Goto
      <4>3. ASSUME NEW i \in Paths, recorded[i] # "replaced" PROVE i \in Listed
        BY <1>0, <4>1, <4>2, <4>3 DEF Fits, Listed, Files
      <4> QED BY <2>1, <4>1, <4>2, <4>3 DEF HeldAfter
    <3> QED BY <1>1, <3>1, <3>2, CommandComesFrom
  <2>6. pc' \in Going \cup {"scan"} => \A i \in InDir \ raced':
          dir = at'[i].dir \/ (dir = "made" /\ at'[i].dir = "absent")
    <3>1. CASE Inspect
      BY <3>1, DestinationAssumption DEF Inspect, Finish, Goto, Going, AtPath, Sending
    <3>2. CASE ~Inspect
      <4>1. at' = at /\ (pc' \in Going \cup {"scan"} => pc \in Going \cup {"scan"})
        BY <1>1, <3>2, CommandKeeps, CommandComesFrom DEF Scan
      <4>2. pc \in Going \cup {"scan"} => raced' = raced
        BY <2>1 DEF Going, AtPath, Sending
      <4> QED BY <4>1, <4>2, <2>1 DEF Held
    <3> QED BY <3>1, <3>2
  <2> QED BY <1>0, <2>1, <2>3, <2>4, <2>5, <2>6 DEF Held
<1>2. CASE AgentStep
  <2>1. /\ pc = "wait" /\ cur \in Restoring /\ cur \in Paths
        /\ wire \in {"sent", "begun"} /\ wire' \in {"begun"} \cup Answers
        /\ Perform(op, cur, wire, wire') /\ op \in Ops
        /\ UNCHANGED <<touched, raced, pc, cur, op, end>>
    BY <1>2, AgentActs
  <2>2. UNCHANGED <<at, state>>
    BY <1>2 DEF AgentStep, facts
  <2>3. /\ \A j \in Paths \ {cur}: dest'[j] = dest[j] /\ effects'[j] = effects[j]
        /\ effects'[cur] = {} => dest'[cur] = dest[cur] /\ effects[cur] = {}
        /\ dir' = dir \/ (dir = "absent" /\ dir' = "made")
    BY <2>1, PerformFrame, PerformResult DEF TypeOK
  <2>4. ASSUME cur \notin raced, recorded[cur] # "replaced" PROVE dest'[cur] = HeldAfter(cur)'
    <3>1. dest[cur] = HeldAfter(cur)
      BY <2>1, <2>4 DEF Held, Going, AtPath, Sending
    <3>2. /\ IF recorded[cur] = "link" THEN op \in {"remove", "link"} ELSE op = "write"
          /\ effects[cur] \subseteq (IF recorded[cur] = "link" THEN {"remove", "link"} ELSE {"begin", "write"})
          /\ wire = "sent" /\ op # "link" => effects[cur] = {}
          /\ wire = "begun" => effects[cur] = {"begin"} /\ op = "write"
          /\ op = "remove" => "link" \notin effects[cur]
      BY <2>1 DEF Shape, Worked, Sending
    <3>3. CASE wire' = "begun"
      <4>1. op = "write" /\ effects'[cur] = {"begin"} /\ dest'[cur] = "partial"
        BY <2>1, <3>2, <3>3, PerformResult DEF TypeOK
      <4> QED BY <2>1, <4>1 DEF HeldAfter
    <3>4. CASE wire' = "ok" /\ op = "write"
      <4>1. effects'[cur] = {"begin", "write"} /\ dest'[cur] = "new"
        BY <2>1, <3>1, <3>2, <3>4, PerformResult DEF TypeOK, HeldAfter
      <4> QED BY <2>1, <4>1 DEF HeldAfter
    <3>5. CASE wire' = "ok" /\ op = "remove"
      <4>1. effects'[cur] = {"remove"} /\ dest'[cur] = "absent"
        BY <2>1, <3>2, <3>5, PerformResult DEF TypeOK
      <4> QED BY <2>1, <4>1 DEF HeldAfter
    <3>6. CASE wire' = "ok" /\ op = "link"
      <4>1. effects'[cur] = effects[cur] \cup {"link"} /\ dest'[cur] = "newlink"
        BY <2>1, <3>6, PerformResult DEF TypeOK
      <4>2. effects[cur] \subseteq {"remove", "link"}
        BY <3>2, <3>6
      <4> QED BY <2>1, <4>1, <4>2 DEF HeldAfter
    <3>7. CASE wire' \in {"refused", "notfound", "rootgone"}
      <4>1. UNCHANGED <<dest, effects>>
        BY <2>1, <3>7, PerformResult DEF TypeOK
      <4> QED BY <2>1, <2>2, <3>1, <4>1 DEF HeldAfter
    <3> QED BY <2>1, <3>2, <3>3, <3>4, <3>5, <3>6, <3>7 DEF Answers
  <2>5. \A i \in Paths \ {cur}: HeldAfter(i)' = HeldAfter(i)
    BY <2>2, <2>3 DEF HeldAfter
  <2> QED BY <1>0, <2>1, <2>2, <2>3, <2>4, <2>5 DEF Held
<1>3. CASE ~CommandStep /\ ~AgentStep
  <2>1. UNCHANGED <<at, state, effects>>
    BY <1>3, OthersKeep DEF facts, destVars, Prompt
  <2>2. pc' = pc \/ (pc' \notin Going \cup {"scan"})
    BY <1>3, OthersKeep DEF Prompt, Finish, Goto, control, Going, AtPath, Sending
  <2>3. CASE UNCHANGED destVars
    BY <1>0, <2>1, <2>2, <2>3 DEF Held, HeldAfter, destVars
  <2>4. CASE OthersStep
    <3>1. /\ touched \subseteq touched' /\ raced \subseteq raced'
          /\ \A j \in Paths: j \notin touched' => dest'[j] = dest[j]
          /\ \A j \in Paths: j \notin raced' => dest'[j] = dest[j]
          /\ \A j \in InDir: j \notin raced' => dir' = dir
          /\ raced' \subseteq touched'
      BY <2>4, OthersFrame DEF OthersStep, TypeOK, Held
    <3>2. \A i \in Paths: HeldAfter(i)' = HeldAfter(i)
      BY <2>1 DEF HeldAfter
    <3> QED BY <1>0, <2>1, <2>2, <3>1, <3>2 DEF Held
  <2>5. UNCHANGED destVars \/ OthersStep
    BY <1>3, OthersKeep DEF Prompt
  <2> QED BY <2>3, <2>4, <2>5
<1> QED BY <1>1, <1>2, <1>3

----------------------------------------------------------------------------
(***************************************************************************)
(* What the new session holds.                                             *)
(***************************************************************************)
LEMMA SavedInit == ASSUME Init PROVE Saved
BY DEF Init, Saved, AtPath, Sending

\* What the save of the path in hand puts into the session.
LEMMA SaveKeeps ==
  ASSUME TypeOK, Shape, Saved, Save
  PROVE  /\ cur \in Paths /\ pc = "save" /\ presaved' = [presaved EXCEPT ![cur] = Current(cur)]
         /\ Current(cur) # "none"
         /\ cur \notin touched => Current(cur) = state[cur]
<1>1. /\ cur \in Restoring /\ cur \in Paths /\ pc = "save"
      /\ presaved' = [presaved EXCEPT ![cur] = Current(cur)]
  BY DEF Save, Shape, AtPath, Restoring
<1>2. state[cur] \in Entries
  BY <1>1 DEF TypeOK, FactsTypeOK
<1>3. CASE state[cur] \in Files
  <2>1. content[cur] # "none" /\ (cur \notin touched => content[cur] = state[cur])
    BY <1>1, <1>3 DEF Saved, PresentFiles, AtPath
  <2> QED BY <1>1, <1>3, <2>1 DEF Current
<1>4. CASE state[cur] \notin Files
  BY <1>1, <1>2, <1>4 DEF Current, Entries, Links
<1> QED BY <1>1, <1>3, <1>4

\* The batch reads what was listed, where nobody else changed it.
LEMMA BatchReads ==
  ASSUME TypeOK, Shape, Planned, Worked, Held, Batch, NEW i \in Paths, content' # content
  PROVE  /\ i \in PresentFiles => content'[i] # "none"
         /\ i \notin touched => content'[i] \in {"none", state[i]}
<1>1. pc = "batch" /\ content' = [j \in Paths |-> IF j \in PresentFiles THEN ContentAt(j) ELSE "none"]
  BY DEF Batch
<1>2. dest[i] \in Entries /\ effects[i] = {}
  BY <1>1 DEF TypeOK, DestinationTypeOK, Worked
<1>3. ContentAt(i) # "none"
  BY <1>2 DEF ContentAt, Entries, Files, Links
<1>4. ASSUME i \in PresentFiles, i \notin touched PROVE ContentAt(i) = state[i]
  <2>1. state[i] \in Files /\ recorded[i] # "replaced" /\ i \notin raced
    BY <1>4 DEF PresentFiles, Restoring, Planned, Restorable, Held
  <2>2. dest[i] = state[i]
    BY <1>1, <1>2, <2>1 DEF Held, HeldAfter, Going
  <2> QED BY <2>1, <2>2 DEF ContentAt, Files, Links
<1> QED BY <1>1, <1>3, <1>4

LEMMA ReserveOnly == ASSUME CommandStep, pc = "reserve" PROVE Reserve
BY DEF CommandStep, Choose, ReadRecord, Inspect, InspectRefused, Scan, Batch,
     BatchRefused, TakeNext, Save, SaveFails, ReadBack, SendRefused, Send, Receive, RootCheck,
     ReconnectToRead, GiveUpRead, LoseChange, ReconnectToConfirm, Confirm, ConfirmFails,
     Reads, ReadPcs

LEMMA SavedStep ==
  ASSUME TypeOK, Shape, Planned, Worked, Held, Saved, [Next]_vars PROVE Saved'
<1>0. UNCHANGED <<backup, recorded>>
  BY GivenStay DEF given
<1>1. CASE CommandStep
  <2>1. UNCHANGED <<effects, touched, dest>> /\ Moves
    BY <1>1, CommandFrame, CommandMoves
  <2>2. pc \in Early \cup {"reserve", "batch"} => \A i \in Paths: effects[i] = {}
    BY DEF Shape, Worked, Early, Sending
  <2>3. \A i \in Paths \ touched: content'[i] \in {"none", state'[i]}
    <3>1. CASE Scan
      BY <1>1, <3>1, CommandKeeps DEF Scan, Batch, Shape, Early
    <3>2. CASE ~Scan
      <4>1. state' = state
        BY <1>1, <3>2, CommandKeeps
      <4>2. CASE Batch /\ content' # content
        BY <4>1, <4>2, BatchReads
      <4>3. CASE content' = content
        BY <4>1, <4>3 DEF Saved
      <4> QED BY <1>1, <4>2, <4>3, CommandKeeps
    <3> QED BY <3>1, <3>2
  <2>4. \A i \in Paths \ touched: presaved'[i] \in {"none", state'[i]}
    <3>1. CASE Scan
      BY <1>1, <3>1, CommandKeeps DEF Scan, Save, Shape, Early
    <3>2. CASE Save
      <4>1. state' = state
        BY <3>2 DEF Save, facts
      <4> QED BY <3>2, <4>1, SaveKeeps DEF Saved, TypeOK, FactsTypeOK
    <3>3. CASE ~Scan /\ ~Save
      BY <1>1, <3>3, CommandKeeps DEF Saved
    <3> QED BY <3>1, <3>2, <3>3
  <2>5. (pc # "scan" /\ pc \notin Early) => \A i \in Paths: result'[i] = "planned" => result[i] = "planned"
    BY <1>1, CommandReports DEF Plans, Abandons, FailsTogether, Ends, Ended, report, Early
  <2>6. pc' \in {"batch", "next"} \cup AtPath => pc \in Going
    BY <1>1, CommandComesFrom DEF Going, AtPath, Sending
  <2>7. pc \in Going => state' = state /\ PresentFiles' \subseteq PresentFiles /\ Restoring' \subseteq Restoring
    <3>1. pc \in Going => state' = state /\ pc \notin Early
      BY <1>1, CommandKeeps DEF Scan, Going, AtPath, Sending, Early
    <3> QED BY <2>5, <3>1 DEF PresentFiles, Restoring, Going, AtPath, Sending, Early
  <2>8. pc' \in {"next"} \cup AtPath => \A i \in PresentFiles': batchFailed' \/ content'[i] # "none"
    <3> SUFFICES ASSUME pc' \in {"next"} \cup AtPath, NEW i \in PresentFiles'
                 PROVE  batchFailed' \/ content'[i] # "none"
      OBVIOUS
    <3>1. i \in PresentFiles /\ i \in Paths
      BY <2>6, <2>7 DEF PresentFiles, Restoring
    <3>2. CASE pc \in {"next"} \cup AtPath
      <4>1. UNCHANGED <<batchFailed, content>>
        BY <1>1, <3>2, CommandKeeps DEF Batch, BatchRefused, GiveUpRead, AtPath, Sending
      <4> QED BY <3>1, <3>2, <4>1 DEF Saved
    <3>3. CASE pc = "reserve"
      <4>1. Reserve
        BY <1>1, <3>3, ReserveOnly
      <4>2. PresentFiles = {}
        BY <4>1 DEF Reserve, Finish, Goto, AtPath, Sending
      <4> QED BY <3>1, <4>2
    <3>4. CASE pc = "batch"
      <4>1. Batch \/ BatchRefused \/ GiveUpRead
        BY <1>1, <3>4 DEF CommandStep, Choose, ReadRecord, Inspect, InspectRefused, Scan, Reserve,
           TakeNext, Save, SaveFails, ReadBack, SendRefused, Send, Receive, RootCheck,
           ReconnectToRead, LoseChange, ReconnectToConfirm, Confirm, ConfirmFails,
           AtPath, Sending
      <4>2. CASE BatchRefused \/ GiveUpRead
        BY <3>4, <4>2 DEF BatchRefused, GiveUpRead
      <4>3. CASE Batch
        <5>1. content' = [j \in Paths |-> IF j \in PresentFiles THEN ContentAt(j) ELSE "none"]
          BY <4>3 DEF Batch, Finish, Goto, AtPath, Sending
        <5>2. ContentAt(i) # "none"
          BY <3>1 DEF ContentAt, TypeOK, DestinationTypeOK, Entries, Files, Links
        <5> QED BY <3>1, <5>1, <5>2
      <4> QED BY <4>1, <4>2, <4>3
    <3>5. pc \in {"reserve", "batch", "next"} \cup AtPath
      BY <2>6 DEF Going
    <3> QED BY <3>2, <3>3, <3>4, <3>5
  <2>9. pc' = "save" => /\ pc = "next" /\ cur' = cur /\ state[cur] # "absent"
                        /\ cur \in PresentFiles => ~batchFailed
    <3>1. pc' = "save" => TakeNext
      BY <1>1, CommandComesFrom
    <3> QED BY <3>1, TakeNextCases DEF TakeNext, Finish, Conclude, Goto, Start
  <2>10. pc' = "readback" => Save /\ cur' = cur
    <3>1. pc' = "readback" => Save
      BY <1>1, CommandComesFrom
    <3> QED BY <3>1 DEF Save, Goto
  <2>11. pc' \in Sending => /\ pc \in {"next", "readback"} \cup Sending /\ cur' = cur
                            /\ pc = "next" => /\ ~(session /\ state[cur] # "absent")
                                              /\ cur \in PresentFiles => ~batchFailed
    BY <2>1 DEF Moves, Sending
  <2>12. pc \in {"next"} \cup AtPath => UNCHANGED <<batchFailed, session, content>>
    BY <1>1, CommandKeeps DEF Reserve, Batch, BatchRefused, GiveUpRead, AtPath, Sending
  <2>13. (pc' \in AtPath /\ cur' \in PresentFiles') => ~batchFailed'
    <3> SUFFICES ASSUME pc' \in AtPath, cur' \in PresentFiles' PROVE ~batchFailed'
      OBVIOUS
    <3>1. cur' = cur /\ pc \in {"next"} \cup AtPath /\ (pc = "next" /\ cur \in PresentFiles => ~batchFailed)
      BY <2>9, <2>10, <2>11 DEF AtPath, Sending, Save
    <3>2. cur \in PresentFiles
      BY <2>7, <3>1 DEF Going
    <3> QED BY <2>12, <3>1, <3>2 DEF Saved
  <2>14. pc' = "save" => state'[cur'] # "absent"
    BY <2>7, <2>9 DEF Going
  <2>15. (pc' \in {"readback"} \cup Sending /\ session' /\ state'[cur'] # "absent") => presaved'[cur'] # "none"
    <3>1. CASE pc' = "readback"
      <4>1. presaved \in [Paths -> Entries \cup {"none"}]
        BY DEF TypeOK, FactsTypeOK
      <4> QED BY <2>10, <3>1, <4>1, SaveKeeps
    <3>2. CASE pc' \in Sending
      <4>1. presaved' = presaved /\ state' = state /\ session' = session
        BY <1>1, <2>7, <2>11, <2>12, <3>2, CommandKeeps DEF Save, Going, AtPath, Sending
      <4> QED BY <2>11, <3>2, <4>1 DEF Saved
    <3> QED BY <3>1, <3>2
  <2>16. \A i \in Paths: (presaved[i] # "none" => presaved'[i] # "none")
    <3>1. presaved \in [Paths -> Entries \cup {"none"}]
      BY DEF TypeOK, FactsTypeOK
    <3>2. Save => \A i \in Paths: presaved[i] # "none" => presaved'[i] # "none"
      BY <3>1, SaveKeeps
    <3> QED BY <1>1, <3>2, CommandKeeps
  <2>17. ASSUME NEW i \in Paths, effects[i] # {} PROVE state' = state /\ session' = session
    <3>1. pc \notin Early \cup {"reserve", "batch"}
      BY <2>2, <2>17
    <3> QED BY <1>1, <3>1, CommandKeeps DEF Scan, Reserve, Early
  <2>18. pc' \in {"batch", "next"} \cup AtPath =>
           \A i \in Restoring': backup /\ state'[i] # "absent" => session'
    <3> SUFFICES ASSUME pc' \in {"batch", "next"} \cup AtPath, NEW i \in Restoring', backup, state'[i] # "absent"
                 PROVE  session'
      OBVIOUS
    <3>1. i \in Restoring /\ state' = state
      BY <2>6, <2>7
    <3>2. CASE Reserve
      BY <3>1, <3>2 DEF Reserve, Finish, Goto, AtPath, Sending
    <3>3. CASE ~Reserve
      <4>1. session' = session /\ pc \in {"batch", "next"} \cup AtPath
        BY <1>1, <2>6, <2>9, <2>10, <2>11, <3>3, CommandKeeps, ReserveOnly DEF Going
      <4> QED BY <3>1, <4>1 DEF Saved
    <3> QED BY <3>2, <3>3
  <2> QED
    BY <1>0, <2>1, <2>3, <2>4, <2>8, <2>13, <2>14, <2>15, <2>16, <2>17, <2>18 DEF Saved
<1>2. CASE AgentStep
  <2>1. /\ pc = "wait" /\ cur \in Restoring /\ cur \in Paths
        /\ Perform(op, cur, wire, wire') /\ op \in Ops
        /\ UNCHANGED <<touched, raced, pc, cur, op, end>>
    BY <1>2, AgentActs
  <2>2. UNCHANGED <<state, content, batchFailed, session, presaved, result>>
    BY <1>2 DEF AgentStep, facts, batch, report
  <2>3. \A j \in Paths \ {cur}: effects'[j] = effects[j]
    BY <2>1, PerformFrame DEF TypeOK
  <2>4. /\ session /\ state[cur] # "absent" => presaved[cur] # "none"
        /\ backup /\ state[cur] # "absent" => session
    BY <2>1 DEF Saved, AtPath, Sending
  <2> QED BY <1>0, <2>1, <2>2, <2>3, <2>4 DEF Saved, PresentFiles, Restoring
<1>3. CASE ~CommandStep /\ ~AgentStep
  <2>1. UNCHANGED <<state, content, batchFailed, session, presaved, result, effects>>
    BY <1>3, OthersKeep DEF facts, batch, report, Prompt, destVars
  <2>2. (pc' = pc /\ cur' = cur) \/ pc' \in {"records", "done"}
    BY <1>3, OthersKeep DEF Prompt, Finish, Goto, control
  <2>3. touched \subseteq touched'
    BY <1>3, OthersKeep, OthersFrame DEF OthersStep, TypeOK, Prompt, destVars
  <2> QED BY <1>0, <2>1, <2>2, <2>3 DEF Saved, PresentFiles, Restoring, AtPath, Sending
<1> QED BY <1>1, <1>2, <1>3

----------------------------------------------------------------------------
(***************************************************************************)
(* What is reported.                                                       *)
(***************************************************************************)
LEMMA ToldInit == ASSUME Init PROVE Told
BY DEF Init, Told

\* What the last look says of a change that was lost.
LEMMA LossIsJudged ==
  ASSUME TypeOK, Shape, Planned, Worked, Held, Saved,
         pc = "observe", op # "link", cur \notin touched
  PROVE  /\ Outcome = "notdone" => effects[cur] = {}
         /\ Outcome = "partial" => "begin" \in effects[cur] /\ "write" \notin effects[cur]
<1>1. /\ cur \in Paths /\ Restorable(cur) /\ dest[cur] = HeldAfter(cur)
      /\ state[cur] # "partial" /\ cur \in Restoring
  BY DEF Shape, AtPath, Sending, Restoring, Planned, Restorable, Held, Going
<1>2. CASE op = "remove"
  <2>1. recorded[cur] = "link" /\ effects[cur] \subseteq {"remove", "link"}
    BY <1>1, <1>2 DEF Shape, Sending, Worked
  <2> QED BY <1>1, <1>2, <2>1 DEF Outcome, HeldAfter, Worked, Sending
<1>3. CASE op = "write"
  <2>1. recorded[cur] # "link" /\ effects[cur] \subseteq {"begin", "write"} /\ state[cur] \in Files \cup {"absent"}
    BY <1>1, <1>3 DEF Shape, Sending, Worked, Restorable
  <2>2. Before(cur) = state[cur]
    <3>1. CASE state[cur] = "absent"
      BY <3>1 DEF Before
    <3>2. CASE state[cur] # "absent" /\ session
      BY <1>1, <3>2 DEF Before, Saved, Sending
    <3>3. CASE state[cur] # "absent" /\ ~session
      <4>1. cur \in PresentFiles
        BY <1>1, <2>1, <3>3 DEF PresentFiles
      <4> QED BY <1>1, <3>3, <4>1 DEF Before, Saved, AtPath, Sending
    <3> QED BY <3>1, <3>2, <3>3
  <2> QED BY <1>1, <1>3, <2>1, <2>2 DEF Outcome, HeldAfter, Files
<1> QED BY <1>2, <1>3 DEF TypeOK

\* A path that fails is reported for what it is.
LEMMA EndsTruly ==
  ASSUME TypeOK, Shape, Planned, Worked, Held, Saved, cur \in Restoring, NEW w, Cause(w)
  PROVE  /\ w \notin {"refused", "unknown", "partial", "oldremoved", "notdone"} => effects[cur] = {}
         /\ cur \notin touched =>
              /\ w = "notdone" => effects[cur] = {}
              /\ w = "partial" => "begin" \in effects[cur] /\ "write" \notin effects[cur]
              /\ w = "oldremoved" => "remove" \in effects[cur]
<1>1. cur \in Paths /\ result[cur] = "planned"
  BY DEF Restoring
<1>2. CASE w \in {"backup", "read", "readback"} /\ pc \notin Sending
  BY <1>1, <1>2 DEF Worked
<1>3. CASE (w = "stopped" /\ pc = "send" /\ op # "link")
           \/ (w = "rootgone" /\ op # "link" /\ (pc = "rootcheck" \/ (pc = "wait" /\ wire = "rootgone")))
  BY <1>3 DEF Worked
<1>4. CASE w \in {"notdone", "partial"} /\ pc = "observe" /\ op # "link" /\ Outcome = w
  BY <1>4, LossIsJudged
<1>5. CASE w = "oldremoved" /\ pc \in Sending /\ op = "link"
  BY <1>5 DEF Worked
<1>6. CASE w = "oldremoved" /\ pc \in Sending /\ op = "remove" /\ KnownDone
  BY <1>6, KnownEffect
<1>7. CASE w \in {"refused", "unknown"}
  BY <1>7
<1> QED BY <1>2, <1>3, <1>4, <1>5, <1>6, <1>7 DEF Cause

LEMMA ToldStep ==
  ASSUME TypeOK, Shape, Planned, Worked, Held, Saved, Told, [Next]_vars PROVE Told'
<1> DEFINE Tells(i) ==
      /\ result[i] = "Failed" /\ why[i] \notin {"refused", "unknown", "partial", "oldremoved", "notdone"}
           => effects[i] = {}
      /\ i \in shown => presaved[i] # "none"
      /\ result[i] = "Restored" /\ session /\ state[i] # "absent" => i \in shown
      /\ i \notin touched =>
           /\ why[i] = "notdone" => effects[i] = {}
           /\ why[i] = "partial" => "begin" \in effects[i] /\ "write" \notin effects[i]
           /\ why[i] = "oldremoved" => "remove" \in effects[i]
           /\ result[i] = "Restored" =>
                /\ Needed(i) \subseteq effects[i] \/ (state[i] = "new" /\ effects[i] = {})
                /\ dest[i] = IF recorded[i] = "link" THEN "newlink" ELSE "new"
<1>0. UNCHANGED recorded
  BY GivenStay DEF given
<1>1. CASE CommandStep
  <2>1. UNCHANGED <<effects, touched, dest>>
    BY <1>1, CommandFrame
  <2>2. pc \in Early \cup {"reserve", "batch"} => \A i \in Paths: effects[i] = {}
    BY DEF Shape, Worked, Early, Sending
  <2>3. \A i \in Paths: presaved[i] # "none" => presaved'[i] # "none"
    <3>1. presaved \in [Paths -> Entries \cup {"none"}]
      BY DEF TypeOK, FactsTypeOK
    <3>2. Save => \A i \in Paths: presaved[i] # "none" => presaved'[i] # "none"
      BY <3>1, SaveKeeps
    <3> QED BY <1>1, <3>2, CommandKeeps
  <2>4. ASSUME NEW i \in Paths, result'[i] = result[i], why'[i] = why[i], i \in shown <=> i \in shown'
        PROVE  Tells(i)'
    <3>1. result[i] = "Restored" => UNCHANGED <<state, session>>
      <4>1. result[i] = "Restored" => pc \notin Early \cup {"reserve"}
        BY DEF Shape
      <4> QED BY <1>1, <4>1, CommandKeeps DEF Scan, Reserve, Early
    <3> QED BY <1>0, <2>1, <2>3, <2>4, <3>1 DEF Told, Needed
  <2>5. CASE UNCHANGED report
    BY <2>4, <2>5 DEF report, Told
  <2>6. CASE Plans \/ Abandons
    <3>1. /\ pc \in Early /\ \A i \in Paths: i \notin shown'
          /\ \A i \in Paths: result'[i] # "Restored" /\ why'[i] \notin {"notdone", "partial", "oldremoved"}
      BY <2>6 DEF Plans, Abandons, Shape, Early, Verdicts
    <3> QED BY <2>1, <2>2, <3>1 DEF Told
  <2>7. CASE FailsTogether
    <3>1. ASSUME NEW i \in Paths, result[i] = "planned" PROVE Tells(i)'
      BY <2>1, <2>2, <2>3, <2>7, <3>1 DEF FailsTogether, Told
    <3>2. ASSUME NEW i \in Paths, result[i] # "planned" PROVE Tells(i)'
      BY <2>4, <2>7, <3>2 DEF FailsTogether
    <3> QED BY <3>1, <3>2 DEF Told
  <2>8. CASE cur \in Restoring /\ \E w \in Reasons: Ends(w) /\ Cause(w)
    <3>1. PICK w \in Reasons: Ends(w) /\ Cause(w)
      BY <2>8
    <3>2. ASSUME NEW i \in Paths \ {cur} PROVE Tells(i)'
      BY <2>4, <3>1 DEF Ends
    <3>3. cur \in Paths => (result'[cur] = "Failed" /\ why'[cur] = w /\ shown' = shown)
      BY <3>1 DEF Ends
    <3>4. ASSUME cur \in Paths
          PROVE  /\ w \notin {"refused", "unknown", "partial", "oldremoved", "notdone"} => effects[cur] = {}
                 /\ cur \notin touched =>
                      /\ w = "notdone" => effects[cur] = {}
                      /\ w = "partial" => "begin" \in effects[cur] /\ "write" \notin effects[cur]
                      /\ w = "oldremoved" => "remove" \in effects[cur]
      BY <2>8, <3>1, EndsTruly
    <3>5. ASSUME NEW i \in Paths, i = cur PROVE Tells(i)'
      BY <2>1, <2>3, <3>3, <3>4, <3>5 DEF Told
    <3> QED BY <3>2, <3>5 DEF Told
  <2>9. CASE cur \in Restoring /\ pc \in Sending /\ op # "remove" /\ KnownDone /\ Ended
    <3>1. ASSUME NEW i \in Paths \ {cur} PROVE Tells(i)'
      <4>1. (i \in shown' <=> i \in shown) /\ result'[i] = result[i] /\ why'[i] = why[i]
        BY <2>9 DEF Ended
      <4> QED BY <2>4, <4>1
    <3>2. cur \in Paths /\ result'[cur] = "Restored" /\ why'[cur] = "none"
      BY <2>9 DEF Ended, Restoring
    <3>3. UNCHANGED <<state, session>>
      BY <1>1, <2>9, CommandKeeps DEF Scan, Reserve, Sending
    <3>4. /\ session /\ state[cur] # "absent" => presaved[cur] # "none" /\ cur \in shown'
          /\ cur \in shown' => presaved[cur] # "none"
      BY <2>9, <3>2 DEF Ended, Saved, Told
    <3>5. ASSUME cur \notin touched
          PROVE  /\ Needed(cur) \subseteq effects[cur] \/ (state[cur] = "new" /\ effects[cur] = {})
                 /\ dest[cur] = IF recorded[cur] = "link" THEN "newlink" ELSE "new"
      <4>1. IF recorded[cur] = "link" THEN op = "link" ELSE op = "write"
        BY <2>9 DEF Shape
      <4> QED BY <2>9, <3>5, <4>1, KnownEffect DEF Needed
    <3>6. ASSUME NEW i \in Paths, i = cur PROVE Tells(i)'
      BY <1>0, <2>1, <2>3, <3>2, <3>3, <3>4, <3>5, <3>6 DEF Needed
    <3> QED BY <3>1, <3>6 DEF Told
  <2> QED BY <1>1, <2>5, <2>6, <2>7, <2>8, <2>9, CommandReports
<1>2. CASE AgentStep
  <2>1. /\ pc = "wait" /\ cur \in Restoring /\ cur \in Paths
        /\ Perform(op, cur, wire, wire') /\ op \in Ops
        /\ UNCHANGED <<touched, raced, pc, cur, op, end>>
    BY <1>2, AgentActs
  <2>2. UNCHANGED <<state, session, presaved, result, why, shown>>
    BY <1>2 DEF AgentStep, facts, batch, report
  <2>3. \A j \in Paths \ {cur}: effects'[j] = effects[j] /\ dest'[j] = dest[j]
    BY <2>1, PerformFrame DEF TypeOK
  <2>4. result[cur] = "planned" /\ why[cur] = "restore"
    BY <2>1 DEF Planned, Restoring
  <2> QED BY <1>0, <2>1, <2>2, <2>3, <2>4 DEF Told, Needed
<1>3. CASE ~CommandStep /\ ~AgentStep
  <2>1. UNCHANGED <<state, session, presaved, result, why, shown, effects>>
    BY <1>3, OthersKeep DEF facts, batch, report, Prompt, destVars
  <2>2. touched \subseteq touched' /\ \A i \in Paths: i \notin touched' => dest'[i] = dest[i]
    BY <1>3, OthersKeep, OthersFrame DEF OthersStep, TypeOK, Prompt, destVars
  <2> QED BY <1>0, <2>1, <2>2 DEF Told, Needed
<1> QED BY <1>1, <1>2, <1>3

----------------------------------------------------------------------------
(***************************************************************************)
(* The theorems.                                                           *)
(***************************************************************************)
\* IInv holds throughout: the argument every theorem below rests on.
THEOREM Invariance == Spec => []IInv
<1>1. Init => IInv
  BY TypeInit, PlannedInit, WorkedInit, HeldInit, SavedInit, ToldInit DEF IInv
<1>2. IInv /\ [Next]_vars => IInv'
  BY TypeStep, ShapeStep, PlannedStep, WorkedStep, HeldStep, SavedStep, ToldStep DEF IInv
<1> QED BY <1>1, <1>2, PTL DEF Spec

\* Every variable keeps its type, and a request is in flight only while its
\* answer is awaited.
THEOREM TypeCorrect == Spec => []TypeOK
<1>1. IInv => TypeOK
  BY DEF IInv
<1> QED BY <1>1, Invariance, PTL

\* Whatever is lost on the way, the report of a restoration is exact for every
\* path nobody else worked on (restore_one, create_or_replace_symlink, judge).
THEOREM RestorationReportIsTrue == Spec => []ReportIsTrue
<1>1. IInv => ReportIsTrue
  <2> SUFFICES ASSUME IInv, NEW i \in Paths \ touched
               PROVE  /\ result[i] = "Restored" =>
                           Needed(i) \subseteq effects[i] \/ (state[i] = "new" /\ effects[i] = {})
                      /\ result[i] \in {"planned", "Skipped"} /\ end = "reported" => effects[i] = {}
                      /\ result[i] = "Failed" /\ why[i] \notin {"refused", "unknown", "partial", "oldremoved"}
                           => effects[i] = {}
                      /\ why[i] = "partial" => "begin" \in effects[i] /\ "write" \notin effects[i]
                      /\ why[i] = "oldremoved" => "remove" \in effects[i]
                      /\ i \in shown => presaved[i] # "none"
                      /\ result[i] = "Restored" /\ session /\ state[i] # "absent" => i \in shown
    BY DEF ReportIsTrue
  <2>1. end = "reported" => pc \notin Sending
    BY DEF IInv, Shape, Sending
  <2> QED BY <2>1 DEF IInv, Told, Worked
<1> QED BY <1>1, Invariance, PTL

\* With backups on, nothing is overwritten or removed before the new session holds
\* what was listed (save_current, before_from_saved).
THEOREM NothingIsLostToARestoration == Spec => []SavedFirst
<1>1. IInv => SavedFirst
  BY DEF IInv, Saved, SavedFirst
<1> QED BY <1>1, Invariance, PTL

\* Exit code 0 of a restoration means that every path holds what its record holds
\* (rollback_exit_code).
THEOREM ExitZeroIsEarned == Spec => []ExitZeroMeansRestored
<1>1. IInv => ExitZeroMeansRestored
  BY DEF IInv, Told, ExitZeroMeansRestored, ExitZero, Clean
<1> QED BY <1>1, Invariance, PTL

\* A session is restored only if every path of it is where its record says and of
\* the kind the merge left (engine/treat/rollback.rs).
THEOREM RestoresOnlyWhatTheMergeLeft == Spec => SessionIsWhereItWas
<1> DEFINE Was(i) == \/ recorded[i] = "replaced" \/ WhereItWas(i)
                     \/ recorded[i] = "file" /\ dest[i] = "special"
<1>1. ASSUME IInv, [Next]_vars, effects' # effects, raced = {}, NEW i \in Paths
      PROVE  Was(i)
  <2>1. AgentStep
    <3>1. CommandStep => UNCHANGED effects
      BY CommandFrame
    <3>2. Prompt => UNCHANGED effects
      BY DEF Prompt, destVars
    <3>3. TypeOK
      BY <1>1 DEF IInv
    <3> QED BY <1>1, <3>1, <3>2, <3>3, OthersKeep
  <2>2. pc \in Going
    BY <1>1, <2>1, AgentActs DEF IInv, Going, AtPath, Sending
  <2>3. /\ Fits(i)
        /\ recorded[i] # "replaced" => dest[i] = HeldAfter(i)
        /\ i \in InDir => dir = at[i].dir \/ (dir = "made" /\ at[i].dir = "absent")
        /\ effects[i] \subseteq (IF recorded[i] = "link" THEN {"remove", "link"} ELSE {"begin", "write"})
    BY <1>1, <2>2 DEF IInv, Planned, Held, Worked
  <2>4. CASE recorded[i] = "file" /\ state[i] = "special"
    <3>1. effects[i] = {}
      BY <1>1, <2>4 DEF IInv, Worked, Restorable, Files
    <3> QED BY <2>3, <2>4, <3>1 DEF HeldAfter
  <2>5. CASE recorded[i] = "file" /\ state[i] \in Files \cup {"absent"} /\ at[i].dir \notin {"moved", "loop"}
    BY <2>3, <2>5 DEF WhereItWas, HeldAfter, Files, Links
  <2>6. CASE recorded[i] = "link" /\ state[i] = "oldlink" /\ at[i].dir = "foreign"
    BY <2>3, <2>6 DEF WhereItWas, HeldAfter
  <2> QED BY <2>3, <2>4, <2>5, <2>6 DEF Fits
<1>2. IInv /\ [Next]_vars => [(effects' # effects /\ raced = {}) => \A i \in Paths: Was(i)]_vars
  BY <1>1
<1> QED BY <1>2, Invariance, PTL DEF Spec, SessionIsWhereItWas
=============================================================================
