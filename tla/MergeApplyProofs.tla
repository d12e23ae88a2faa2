-------------------------- MODULE MergeApplyProofs --------------------------
(***************************************************************************)
(* What TLAPS proves of MergeApply, for any number of paths and any        *)
(* behaviour of others, of the agent and of the connection.                *)
(*                                                                         *)
(* The inductive invariant IInv has one part for each question: where the  *)
(* command can be (Shape), what was requested so far (Requests), what an   *)
(* earlier stop forbids (AfterStop), what a path holds before its first    *)
(* change (Unchanged) and what has been saved of it (Saved).               *)
(***************************************************************************)
EXTENDS MergeApply, DestinationProofs

AtPath == {"relist", "rehash", "backup", "send", "wait", "rootcheck", "confirm", "observe"}
BeforeSending == {"inspect", "backupRead", "next", "relist", "rehash", "backup"}
StopReasons == {"rootgone", "notdone", "partial", "unknown", "read"}

Untried(p) == \A o \in Ops: sent[p][o] = 0

\* A request is in flight only while its answer is awaited.
Shape ==
  /\ pc \in AtPath => cur \in Paths
  /\ pc \in {"inspect", "backupRead"} => cur = 1
  /\ wire # "idle" => pc = "wait"
  /\ pc \in AtPath \cup {"backupRead"} => ~dryRun

\* The changes of a path are requested in this order.
Rank(o) == CASE o \in {"write", "remove"} -> 1
             [] o = "link" -> 2
             [] o = "chmoddir" -> 3
             [] o = "chmod" -> 4

Requests ==
  /\ AtMostOnce
  /\ \A j \in Paths: j > cur => Untried(j)
  /\ pc \in BeforeSending => \A j \in Paths: j = cur => Untried(j)
  /\ pc = "send" => \A o \in Ops: Rank(o) >= Rank(op) => sent[cur][o] = 0
  /\ pc \in {"wait", "rootcheck", "confirm", "observe"} =>
       \A o \in Ops: Rank(o) > Rank(op) => sent[cur][o] = 0
  /\ pc \in {"wait", "rootcheck", "confirm", "observe"} => sent[cur][op] # 0
  /\ \A r \in late: sent[r.path][r.op] # 0
  /\ \A j \in Paths: effects[j] # {} => ~Untried(j)

AfterStop ==
  /\ pc # "done" => \A j \in Paths: j >= cur => result[j] = "pending" /\ why[j] = "none"
  /\ pc \in {"confirm", "observe"} => stopped # "no"
  /\ pc # "done" => \A i \in Paths: (i < cur /\ why[i] \in StopReasons) =>
       stopped # "no" /\ pc \in {"next", "relist"} /\ ~dryRun
  /\ \A i, j \in Paths: (i < j /\ why[i] \in StopReasons) =>
       result[j] \in {"pending", "Failed"} /\ Untried(j)

Unchanged ==
  /\ (pc = "rehash" /\ cur \notin raced) => dest[cur] \in Files
  /\ (pc = "backup" /\ cur \notin raced) => dest[cur] = Compared[cur]
  /\ (pc = "send" /\ effects[cur] = {} /\ cur \notin raced) => dest[cur] = Compared[cur]
  /\ \A p \in Paths: (~Untried(p) /\ effects[p] = {} /\ p \notin raced) => dest[p] = Compared[p]

Kept(i) == saved[i] # "none" /\ (i \notin touched => saved[i] = Compared[i])

Saved ==
  /\ \A i \in Paths: (i \notin touched /\ effects[i] = {}) => dest[i] = Compared[i]
  /\ \A i \in Paths: i \notin touched => insp[i] \in {Compared[i], "notdir"}
  /\ \A i \in Paths: (i \notin touched /\ bcont[i] \in Files) => bcont[i] = Compared[i]
  /\ \A i \in Paths:
       (Session /\ Compared[i] # "absent" /\ (~Untried(i) \/ (pc = "send" /\ i = cur))) => Kept(i)

IInv == TypeOK /\ Shape /\ Requests /\ AfterStop /\ Unchanged /\ Saved

----------------------------------------------------------------------------
(***************************************************************************)
(* Types, and where the command can be.                                    *)
(***************************************************************************)
LEMMA DestinationStays ==
  ASSUME DestinationTypeOK, UNCHANGED destVars PROVE DestinationTypeOK'
BY DEF DestinationTypeOK, destVars

\* The changes a path needs are requests the machine knows.
LEMMA AfterOpRange ==
  ASSUME cur \in Paths, op \in Ops
  PROVE  /\ FirstOp(cur) \in {"write", "remove", "link"}
         /\ AfterOp(op) \in Ops => AfterOp(op) \in {"link", "chmoddir", "chmod"}
BY MergeApplyAssumption DEF FirstOp, AfterOp, Replaces, WrittenFile, Ops

LEMMA JudgeRange ==
  ASSUME op \in Ops PROVE Judge(op, cur) \in {"done", "notdone", "partial"}
BY DEF Judge, Ops

\* What each way of moving on does to the report and to the cursor.
LEMMA ConcludeType ==
  ASSUME ReportTypeOK, cur \in Paths,
         NEW r \in {"Planned", "Done", "Failed", "FailedAfterChange"}, NEW w \in Reasons,
         Conclude(r, w)
  PROVE  /\ ReportTypeOK'
         /\ cur' \in 1..(N + 1) /\ pc' = "next" /\ retried' = FALSE /\ op' = op
<1>1. result' \in [Paths -> {"pending", "Planned", "Done", "Failed", "FailedAfterChange"}]
  BY DEF ReportTypeOK, Conclude
<1>2. why' \in [Paths -> Reasons]
  BY DEF ReportTypeOK, Conclude
<1>3. cur' \in 1..(N + 1) /\ pc' = "next" /\ retried' = FALSE /\ op' = op
  BY DestinationAssumption DEF Conclude, Paths
<1> QED BY <1>1, <1>2, <1>3 DEF ReportTypeOK

LEMMA FailOpType ==
  ASSUME ReportTypeOK, cur \in Paths, NEW w \in Reasons, FailOp(w)
  PROVE  /\ ReportTypeOK'
         /\ cur' \in 1..(N + 1) /\ pc' = "next" /\ retried' = FALSE /\ op' = op
BY ConcludeType DEF FailOp

LEMMA FailAllType ==
  ASSUME NEW i, NEW w \in Reasons, NEW x \in Reasons, FailAll(i, w, x)
  PROVE  /\ ReportTypeOK'
         /\ pc' = "done" /\ retried' = FALSE /\ cur' = cur /\ op' = op
BY DEF FailAll, Goto, ReportTypeOK

LEMMA ReportStays == ASSUME ReportTypeOK, UNCHANGED report PROVE ReportTypeOK'
BY DEF ReportTypeOK, report

LEMMA ProceedType ==
  ASSUME ReportTypeOK, cur \in Paths, op \in Ops, Proceed
  PROVE  /\ ReportTypeOK'
         /\ cur' \in 1..(N + 1) /\ retried' = FALSE /\ op' \in Ops
         /\ \/ pc' = "next"
            \/ pc' = "send" /\ cur' = cur
<1>1. CASE Conclude("Done", "none")
  BY <1>1, ConcludeType DEF Reasons
<1>2. CASE Conclude("FailedAfterChange", IF op = "remove" THEN "stopped" ELSE "mode")
  BY <1>2, ConcludeType DEF Reasons
<1>3. CASE AfterOp(op) \in Ops /\ pc' = "send" /\ op' = AfterOp(op) /\ retried' = FALSE
           /\ UNCHANGED <<cur, report>>
  <2>1. cur' \in 1..(N + 1)
    BY <1>3, DestinationAssumption DEF Paths
  <2> QED BY <1>3, <2>1, ReportStays
<1> QED BY <1>1, <1>2, <1>3 DEF Proceed

LEMMA TypeInit == ASSUME Init PROVE TypeOK /\ Shape
<1> USE MergeApplyAssumption, DestinationAssumption DEF Init
<1>1. DestinationTypeOK
  BY DEF DestinationTypeOK, Entries, Files, Links, DirStates
<1>2. TypeOK
  <2>1. 1 \in 1..(N + 1)
    OBVIOUS
  <2>2. ReportTypeOK
    BY DEF ReportTypeOK, Reasons
  <2>3. /\ insp \in [Paths -> Entries \cup {"notdir"}]
        /\ bcont \in [Paths -> Entries \cup {"none", "failed"}]
        /\ saved \in [Paths -> Entries \cup {"none"}]
    BY DEF Entries, Files, Links
  <2>4. sent \in [Paths -> [Ops -> Nat]]
    OBVIOUS
  <2> QED BY <1>1, <2>1, <2>2, <2>3, <2>4 DEF TypeOK, Pcs, ReadPcs, Ops
<1>3. Shape
  BY DEF Shape, AtPath
<1> QED BY <1>2, <1>3

\* Whether it is a dry run is settled when the command starts.
LEMMA DryRunStays == ASSUME [Next]_vars PROVE dryRun' = dryRun
<1>1. CASE ClientStep
  BY <1>1 DEF ClientStep, Inspect, ReadBackups, BatchRefused, TakeNext, RelistRefused, Relist, Rehash,
     BackUp, BackUpFails, SendRefused, Send, Receive, RootCheck, ReconnectToRead, GiveUpRead,
     LoseChange, ReconnectToConfirm, Confirm, ConfirmFails, read
<1>2. CASE ~ClientStep
  BY <1>2 DEF Next, AgentStep, LateStep, LateDies, LoseConnection, OthersStep, Done, vars, read
<1> QED BY <1>1, <1>2

LEMMA TypeStep == ASSUME TypeOK, Shape, [Next]_vars PROVE TypeOK' /\ Shape'
<1>0. dryRun' = dryRun
  BY DryRunStays
<1> USE DestinationStays, ReportStays
    DEF TypeOK, Shape, Pcs, ReadPcs, AtPath
<1>1. CASE Inspect
  <2>1. insp' \in [Paths -> Entries \cup {"notdir"}]
    BY <1>1 DEF Inspect, read, DestinationTypeOK
  <2>2. BackedUp # {} => ~dryRun
    BY DEF BackedUp
  <2>3. ReportTypeOK'
    BY <1>1, FailAllType DEF Inspect, Reasons
  <2>4. newDir' \subseteq Paths /\ bcont' = bcont /\ batchFailed' = batchFailed
    BY <1>1, DestinationAssumption DEF Inspect, read
  <2>5. cur' = cur /\ op' = op /\ retried' = FALSE /\ pc' \in {"next", "backupRead", "done"}
        /\ (pc' = "backupRead" => BackedUp # {})
    BY <1>1 DEF Inspect, FailAll, Goto
  <2>6. stopped' \in {"no", "lost", "root"} /\ UNCHANGED <<destVars, route, saved, sent>>
    BY <1>1 DEF Inspect, Stop
  <2>7. pc = "inspect"
    BY <1>1 DEF Inspect
  <2> QED BY <1>0, <2>1, <2>2, <2>3, <2>4, <2>5, <2>6, <2>7 DEF route
<1>2. CASE ReadBackups
  <2>1. bcont' \in [Paths -> Entries \cup {"none", "failed"}]
    BY <1>2 DEF ReadBackups, ContentAt, read, DestinationTypeOK, Entries, Files
  <2> QED BY <1>2, <2>1, FailAllType DEF ReadBackups, Stop, Goto, read, report, route, Reasons
<1>3. CASE BatchRefused
  BY <1>3, FailAllType DEF BatchRefused, Goto, BackedUp, report, route, Reasons
<1>4. CASE TakeNext
  <2>1. cur <= N => cur \in Paths
    BY DestinationAssumption DEF Paths
  <2> QED BY <1>4, <2>1, ConcludeType DEF TakeNext, Goto, OnlyPlanned, read, route, Reasons
<1>5. CASE RelistRefused
  BY <1>5, ConcludeType DEF RelistRefused, read, route, Reasons
<1>6. CASE Relist
  <2>1. DestinationTypeOK'
    BY <1>6 DEF Relist, DestinationTypeOK
  <2> QED BY <1>6, <2>1, ConcludeType DEF Relist, Stop, Goto, read, route, Reasons
<1>7. CASE Rehash
  BY <1>7, ConcludeType DEF Rehash, Stop, Goto, read, route, Reasons
<1>8. CASE BackUp
  <2>1. BackupEntry(cur) \in Entries \cup {"none"}
    BY <1>8 DEF BackUp, BackupEntry, Entries
  <2>2. FirstOp(cur) \in Ops
    BY <1>8, AfterOpRange DEF BackUp, Ops
  <2>3. saved' \in [Paths -> Entries \cup {"none"}]
    BY <1>8, <2>1 DEF BackUp
  <2> QED BY <1>8, <2>2, <2>3 DEF BackUp, read, route
<1>9. CASE BackUpFails
  BY <1>9, ConcludeType DEF BackUpFails, read, route, Reasons
<1>10. CASE SendRefused
  BY <1>10, FailOpType DEF SendRefused, read, route, Reasons
<1>11. CASE Send
  <2>1. sent' \in [Paths -> [Ops -> Nat]]
    BY <1>11 DEF Send
  <2> QED BY <1>11, <2>1 DEF Send, Goto, read, report
<1>12. CASE Receive
  BY <1>12, ProceedType, FailOpType DEF Receive, Stop, Goto, read, Reasons
<1>13. CASE RootCheck
  BY <1>13, FailOpType DEF RootCheck, Stop, read, route, Reasons
<1>14. CASE ReconnectToRead
  BY <1>14 DEF ReconnectToRead, read, report
<1>15. CASE GiveUpRead
  BY <1>15, FailAllType, FailOpType, ConcludeType DEF GiveUpRead, Stop, Goto, BackedUp, read, route, Reasons
<1>16. CASE LoseChange
  BY <1>16 DEF LoseChange, Stop, Goto, read, report
<1>17. CASE ReconnectToConfirm
  BY <1>17 DEF ReconnectToConfirm, Goto, read, report
<1>18. CASE Confirm
  BY <1>18, JudgeRange, ProceedType, FailOpType DEF Confirm, read, route, Reasons
<1>19. CASE ConfirmFails
  BY <1>19, FailOpType DEF ConfirmFails, read, route, Reasons
<1>20. CASE AgentStep
  <2>1. PICK ans \in {"begun"} \cup Answers: Perform(op, cur, wire, ans) /\ wire' = ans
    BY <1>20 DEF AgentStep
  <2>2. cur \in Paths /\ pc = "wait"
    BY <1>20 DEF AgentStep
  <2>3. DestinationTypeOK'
    BY <1>20, <2>1, <2>2, PerformFrame DEF AgentStep, DestinationTypeOK
  <2> QED BY <1>20, <2>1, <2>3 DEF AgentStep, read, report, client
<1>21. CASE LateStep
  <2>1. PICK r \in late, ans \in {"begun"} \cup Answers:
          /\ Perform(r.op, r.path, r.st, ans)
          /\ late' = (late \ {r}) \cup (IF ans = "begun" THEN {[r EXCEPT !.st = "begun"]} ELSE {})
    BY <1>21 DEF LateStep
  <2>2. r.op \in Ops /\ r.path \in Paths
    OBVIOUS
  <2>3. DestinationTypeOK'
    BY <1>21, <2>1, <2>2, PerformFrame DEF LateStep, DestinationTypeOK
  <2>4. late' \subseteq [op : Ops, path : Paths, st : {"sent", "begun"}]
    BY <2>1
  <2> QED BY <1>21, <2>3, <2>4 DEF LateStep, read, report, client
<1>22. CASE LateDies
  BY <1>22 DEF LateDies, read, report, client
<1>23. CASE LoseConnection
  <2>1. wire \in {"sent", "begun"} => cur \in Paths
    OBVIOUS
  <2>2. late' \subseteq [op : Ops, path : Paths, st : {"sent", "begun"}]
    BY <1>23, <2>1 DEF LoseConnection
  <2> QED BY <1>23, <2>2 DEF LoseConnection, read, client
<1>24. CASE OthersStep
  BY <1>24, OthersFrame DEF OthersStep, read, report, route, client
<1>25. CASE UNCHANGED vars
  BY <1>25 DEF vars, read, report, route, client
<1> QED
  BY <1>1, <1>2, <1>3, <1>4, <1>5, <1>6, <1>7, <1>8, <1>9, <1>10, <1>11, <1>12, <1>13, <1>14,
     <1>15, <1>16, <1>17, <1>18, <1>19, <1>20, <1>21, <1>22, <1>23, <1>24, <1>25
     DEF Next, ClientStep, Done

----------------------------------------------------------------------------
(***************************************************************************)
(* How the command moves through the changes of a path.                    *)
(***************************************************************************)
Awaiting == {"wait", "rootcheck", "confirm", "observe"}

Moves ==
  \/ cur \in Paths /\ cur' = cur + 1 /\ pc' = "next" /\ UNCHANGED sent
  \/ /\ pc \in BeforeSending /\ pc' \in BeforeSending \cup {"send", "done"}
     /\ pc' = "send" => cur \in Paths
     /\ UNCHANGED <<cur, sent>>
  \/ /\ pc \in Awaiting /\ pc' \in Awaiting \ {"wait"}
     /\ UNCHANGED <<cur, op, sent>>
  \/ /\ pc \in Awaiting /\ pc' = "send" /\ op' \in Ops /\ Rank(op') > Rank(op)
     /\ UNCHANGED <<cur, sent>>
  \/ /\ pc = "send" /\ pc' = "wait" /\ sent' = [sent EXCEPT ![cur][op] = @ + 1]
     /\ UNCHANGED <<cur, op>>

LEMMA AfterOpRank ==
  ASSUME cur \in Paths, op \in Ops, AfterOp(op) \in Ops
  PROVE  Rank(AfterOp(op)) > Rank(op)
<1>1. Rank("write") = 1 /\ Rank("remove") = 1 /\ Rank("link") = 2
      /\ Rank("chmoddir") = 3 /\ Rank("chmod") = 4
  BY DEF Rank
<1>2. CASE op = "remove"
  <2>1. AfterOp("remove") \in {"failed", "link", "finished"}
    BY DEF AfterOp
  <2> QED BY <1>1, <1>2, <2>1 DEF Ops
<1>3. CASE op \in {"write", "chmoddir"}
  <2>1. AfterOp("write") \in {"chmoddir", "finished", "chmod", "failed"}
    BY MergeApplyAssumption DEF AfterOp, WrittenFile
  <2>2. AfterOp("chmoddir") \in {"finished", "chmod", "failed"}
    BY MergeApplyAssumption DEF AfterOp, WrittenFile
  <2> QED BY <1>1, <1>3, <2>1, <2>2 DEF Ops
<1>4. CASE op \in {"link", "chmod"}
  <2>1. AfterOp("link") \in {"chmoddir", "finished"} /\ AfterOp("chmod") = "finished"
    BY DEF AfterOp
  <2> QED BY <1>1, <1>4, <2>1 DEF Ops
<1> QED BY <1>2, <1>3, <1>4 DEF Ops

LEMMA RankType == \A o \in Ops: Rank(o) \in Nat
BY DEF Rank, Ops

LEMMA ProceedMoves ==
  ASSUME cur \in Paths, op \in Ops, pc \in {"wait", "observe"}, UNCHANGED sent, Proceed
  PROVE  Moves
BY AfterOpRank DEF Proceed, Conclude, Moves, Awaiting

LEMMA ClientMoves == ASSUME TypeOK, Shape, ClientStep PROVE Moves
<1> USE DEF Moves, BeforeSending, Awaiting
<1>0. pc \in AtPath => cur \in Paths
  BY DEF Shape
<1>1. CASE Inspect \/ ReadBackups \/ BatchRefused
  BY <1>1 DEF Inspect, ReadBackups, BatchRefused, FailAll, Goto
<1>2. CASE TakeNext
  <2>1. cur <= N => cur \in Paths
    BY DestinationAssumption DEF Paths, TypeOK
  <2> QED BY <1>2, <2>1 DEF TakeNext, Goto, Conclude
<1>3. CASE RelistRefused \/ Relist \/ Rehash \/ BackUp \/ BackUpFails
  BY <1>0, <1>3 DEF RelistRefused, Relist, Rehash, BackUp, BackUpFails, Conclude, Goto, AtPath
<1>4. CASE SendRefused \/ RootCheck \/ ConfirmFails
  BY <1>0, <1>4 DEF SendRefused, RootCheck, ConfirmFails, FailOp, Conclude, AtPath
<1>5. CASE Send
  BY <1>5 DEF Send, Goto
<1>6. CASE Receive
  <2>1. pc = "wait" /\ cur \in Paths /\ op \in Ops /\ UNCHANGED sent
    BY <1>0, <1>6 DEF Receive, AtPath, TypeOK
  <2> QED BY <1>6, <2>1, ProceedMoves DEF Receive, FailOp, Conclude, Goto
<1>7. CASE Confirm
  <2>1. pc = "observe" /\ cur \in Paths /\ op \in Ops /\ UNCHANGED sent
    BY <1>0, <1>7 DEF Confirm, AtPath, TypeOK
  <2> QED BY <1>7, <2>1, ProceedMoves DEF Confirm, FailOp, Conclude
<1>8. CASE ReconnectToRead \/ LoseChange \/ ReconnectToConfirm
  BY <1>8 DEF ReconnectToRead, LoseChange, ReconnectToConfirm, Goto, ReadPcs
<1>9. CASE GiveUpRead
  BY <1>0, <1>9 DEF GiveUpRead, FailAll, FailOp, Conclude, Goto, AtPath
<1> QED
  BY <1>1, <1>2, <1>3, <1>4, <1>5, <1>6, <1>7, <1>8, <1>9 DEF ClientStep

\* The command itself never touches the destination: agents do.
LEMMA ClientFrame ==
  ASSUME ClientStep
  PROVE  /\ UNCHANGED <<dest, dir, root, perm, effects, touched, late>>
         /\ \/ raced' = raced
            \/ pc = "relist" /\ raced' = raced \ {cur}
<1> USE DEF destVars, route
<1>1. CASE Inspect \/ ReadBackups \/ BatchRefused \/ TakeNext \/ RelistRefused
  BY <1>1 DEF Inspect, ReadBackups, BatchRefused, TakeNext, RelistRefused
<1>2. CASE Relist
  BY <1>2 DEF Relist
<1>3. CASE Rehash \/ BackUp \/ BackUpFails \/ SendRefused \/ Send \/ Receive \/ RootCheck
  BY <1>3 DEF Rehash, BackUp, BackUpFails, SendRefused, Send, Receive, RootCheck
<1>4. CASE ReconnectToRead \/ GiveUpRead \/ LoseChange
  BY <1>4 DEF ReconnectToRead, GiveUpRead, LoseChange
<1>5. CASE ReconnectToConfirm \/ Confirm \/ ConfirmFails
  BY <1>5 DEF ReconnectToConfirm, Confirm, ConfirmFails
<1> QED BY <1>1, <1>2, <1>3, <1>4, <1>5 DEF ClientStep

\* A step of an agent is about a path and a change that were requested.
LEMMA AgentFrame ==
  ASSUME TypeOK, Shape, Requests, AgentStep \/ LateStep
  PROVE  \E p \in Paths, o \in Ops:
           /\ sent[p][o] # 0
           /\ \A j \in Paths \ {p}: dest'[j] = dest[j] /\ effects'[j] = effects[j]
           /\ effects'[p] = {} => dest'[p] = dest[p] /\ effects[p] = {}
           /\ UNCHANGED <<touched, raced, client, read, report>>
           /\ \A r \in late': \E q \in late: r.path = q.path /\ r.op = q.op
<1>0. DestinationTypeOK
  BY DEF TypeOK
<1>1. CASE AgentStep
  <2>1. PICK ans: Perform(op, cur, wire, ans)
    BY <1>1 DEF AgentStep
  <2>2. pc = "wait" /\ cur \in Paths /\ op \in Ops
    BY <1>1 DEF AgentStep, Shape, TypeOK, AtPath
  <2>3. sent[cur][op] # 0
    BY <2>2 DEF Requests
  <2>4. UNCHANGED <<touched, raced, client, read, report, late>>
    BY <1>1 DEF AgentStep
  <2> QED BY <1>0, <2>1, <2>2, <2>3, <2>4, PerformFrame
<1>2. CASE LateStep
  <2>1. PICK r \in late, ans \in {"begun"} \cup Answers:
          /\ Perform(r.op, r.path, r.st, ans)
          /\ late' = (late \ {r}) \cup (IF ans = "begun" THEN {[r EXCEPT !.st = "begun"]} ELSE {})
    BY <1>2 DEF LateStep
  <2>2. r.op \in Ops /\ r.path \in Paths /\ sent[r.path][r.op] # 0
    BY DEF TypeOK, Requests
  <2>3. \A q \in late': \E s \in late: q.path = s.path /\ q.op = s.op
    <3>1. r \in [op : Ops, path : Paths, st : {"sent", "begun"}]
      BY DEF TypeOK
    <3>2. [r EXCEPT !.st = "begun"].path = r.path /\ [r EXCEPT !.st = "begun"].op = r.op
      BY <3>1
    <3> QED BY <2>1, <3>2
  <2>4. UNCHANGED <<touched, raced, client, read, report>>
    BY <1>2 DEF LateStep
  <2> QED BY <1>0, <2>1, <2>2, <2>3, <2>4, PerformFrame
<1> QED BY <1>1, <1>2

LEMMA RequestsInit == ASSUME Init PROVE Requests
BY DEF Init, Requests, AtMostOnce, Untried, BeforeSending, Rank, Paths

LEMMA RequestsStep ==
  ASSUME TypeOK, Shape, Requests, [Next]_vars PROVE Requests'
<1>1. CASE ClientStep
  <2>1. Moves /\ UNCHANGED <<effects, late>>
    BY <1>1, ClientMoves, ClientFrame
  <2>2. CASE cur \in Paths /\ cur' = cur + 1 /\ pc' = "next" /\ UNCHANGED sent
    BY <2>1, <2>2 DEF Requests, AtMostOnce, Untried, BeforeSending, Paths
  <2>3. CASE /\ pc \in BeforeSending /\ pc' \in BeforeSending \cup {"send", "done"}
             /\ pc' = "send" => cur \in Paths
             /\ UNCHANGED <<cur, sent>>
    BY <2>1, <2>3 DEF Requests, AtMostOnce, Untried, BeforeSending
  <2>4. CASE /\ pc \in Awaiting /\ pc' \in Awaiting \ {"wait"}
             /\ UNCHANGED <<cur, op, sent>>
    BY <2>1, <2>4 DEF Requests, AtMostOnce, Untried, BeforeSending, Awaiting
  <2>5. CASE /\ pc \in Awaiting /\ pc' = "send" /\ op' \in Ops /\ Rank(op') > Rank(op)
             /\ UNCHANGED <<cur, sent>>
    BY <2>1, <2>5, RankType DEF Requests, AtMostOnce, Untried, BeforeSending, Awaiting, TypeOK
  <2>6. CASE /\ pc = "send" /\ pc' = "wait" /\ sent' = [sent EXCEPT ![cur][op] = @ + 1]
             /\ UNCHANGED <<cur, op>>
    <3>1. cur \in Paths /\ op \in Ops /\ sent \in [Paths -> [Ops -> Nat]]
      BY <2>6 DEF Shape, AtPath, TypeOK
    <3>2. sent[cur][op] = 0 /\ sent'[cur][op] = 1
      BY <2>6, <3>1, RankType DEF Requests
    <3>3. \A j \in Paths, o \in Ops: (j # cur \/ o # op) => sent'[j][o] = sent[j][o]
      BY <2>6, <3>1
    <3>4. Rank(op) \in Nat /\ \A o \in Ops: Rank(o) > Rank(op) => o # op /\ sent[cur][o] = 0
      BY <2>6, <3>1, RankType DEF Requests
    <3>5. cur \in Nat
      BY <3>1 DEF Paths
    <3>6. \A j \in Paths: j > cur => Untried(j)'
      BY <2>6, <3>3, <3>5 DEF Requests, Untried
    <3>7. AtMostOnce'
      BY <3>2, <3>3 DEF Requests, AtMostOnce
    <3>8. \A j \in Paths: ~Untried(j) => ~Untried(j)'
      BY <3>1, <3>2, <3>3 DEF Untried
    <3>9. \A r \in late: r.path \in Paths /\ r.op \in Ops /\ sent[r.path][r.op] # 0
      BY DEF TypeOK, Requests
    <3>10. \A r \in late: sent'[r.path][r.op] # 0
      BY <3>2, <3>3, <3>9
    <3> QED
      BY <2>1, <2>6, <3>2, <3>3, <3>4, <3>6, <3>7, <3>8, <3>10 DEF Requests, BeforeSending, Awaiting
  <2> QED BY <2>1, <2>2, <2>3, <2>4, <2>5, <2>6 DEF Moves
<1>2. CASE AgentStep \/ LateStep
  <2>1. PICK p \in Paths, o \in Ops:
          /\ sent[p][o] # 0
          /\ \A j \in Paths \ {p}: effects'[j] = effects[j]
          /\ UNCHANGED client
          /\ \A r \in late': \E q \in late: r.path = q.path /\ r.op = q.op
    BY <1>2, AgentFrame
  <2>2. \A j \in Paths: effects'[j] # {} => ~Untried(j)
    BY <2>1 DEF Requests, Untried
  <2>3. \A r \in late': sent[r.path][r.op] # 0
    BY <2>1 DEF Requests
  <2> QED BY <2>1, <2>2, <2>3 DEF Requests, AtMostOnce, Untried, client
<1>3. CASE LateDies
  BY <1>3 DEF LateDies, Requests, AtMostOnce, Untried, client, destVars
<1>4. CASE LoseConnection
  BY <1>4 DEF LoseConnection, Requests, AtMostOnce, Untried, client, destVars, Shape
<1>5. CASE OthersStep
  BY <1>5, OthersFrame DEF OthersStep, Requests, AtMostOnce, Untried, client, route, TypeOK
<1>6. CASE UNCHANGED vars
  BY <1>6 DEF vars, Requests, AtMostOnce, Untried, client, route, destVars
<1> QED BY <1>1, <1>2, <1>3, <1>4, <1>5, <1>6 DEF Next, ClientStep, Done

----------------------------------------------------------------------------
(***************************************************************************)
(* What is reported, and what an earlier stop forbids.                     *)
(***************************************************************************)
\* Path cur gets its result; a failure that stops the side has stopped it.
Settles ==
  /\ cur \in Paths /\ pc # "done"
  /\ cur' = cur + 1 /\ pc' = "next" /\ UNCHANGED sent
  /\ \A j \in Paths \ {cur}: result'[j] = result[j] /\ why'[j] = why[j]
  /\ why'[cur] \in StopReasons => stopped' # "no" /\ ~dryRun
  /\ pc \in {"next", "relist"} => result'[cur] = "Failed" \/ dryRun
  /\ stopped # "no" => stopped' # "no"

\* The whole command fails before any change is requested.
Abandons ==
  /\ pc \in {"inspect", "backupRead"} /\ pc' = "done" /\ UNCHANGED sent
  /\ \A j \in Paths: result'[j] = "Failed"

\* Nothing is reported yet.
GoesOn ==
  /\ pc # "done" /\ UNCHANGED <<cur, report>>
  /\ pc' \in {"confirm", "observe"} => stopped' # "no"
  /\ stopped # "no" => stopped' # "no" /\ (pc \in {"next", "relist"} => pc' \in {"relist", "done"})
  /\ \/ UNCHANGED sent
     \/ pc = "send" /\ \A j \in Paths \ {cur}: sent'[j] = sent[j]

LEMMA ConcludeSettles ==
  ASSUME TypeOK, cur \in Paths, pc # "done", NEW r, NEW w, Conclude(r, w), UNCHANGED sent,
         w \in StopReasons => stopped' # "no" /\ ~dryRun,
         pc \in {"next", "relist"} => r = "Failed" \/ dryRun,
         stopped # "no" => stopped' # "no"
  PROVE  Settles
BY DEF Settles, Conclude, TypeOK, ReportTypeOK

LEMMA FailOpSettles ==
  ASSUME TypeOK, cur \in Paths, pc \in {"send", "wait", "rootcheck", "confirm", "observe"},
         NEW w, FailOp(w), UNCHANGED sent,
         w \in StopReasons => stopped' # "no" /\ ~dryRun,
         stopped # "no" => stopped' # "no"
  PROVE  Settles
BY ConcludeSettles DEF FailOp

LEMMA ProceedSettles ==
  ASSUME TypeOK, cur \in Paths, pc \in {"wait", "observe"}, Proceed, UNCHANGED <<sent, stopped>>
  PROVE  Settles \/ GoesOn
<1>1. CASE \E r \in {"Done"}: Conclude(r, "none")
  BY <1>1, ConcludeSettles DEF StopReasons
<1>2. CASE Conclude("FailedAfterChange", IF op = "remove" THEN "stopped" ELSE "mode")
  BY <1>2, ConcludeSettles DEF StopReasons
<1>3. CASE pc' = "send" /\ UNCHANGED <<cur, report>>
  BY <1>3 DEF GoesOn
<1> QED BY <1>1, <1>2, <1>3 DEF Proceed

LEMMA FailAllAbandons ==
  ASSUME pc \in {"inspect", "backupRead"}, NEW i, NEW w, NEW x, FailAll(i, w, x), UNCHANGED sent
  PROVE  Abandons
BY DEF FailAll, Goto, Abandons

LEMMA ClientReports ==
  ASSUME TypeOK, Shape, AfterStop, ClientStep PROVE Settles \/ Abandons \/ GoesOn
<1>0. /\ pc \in AtPath => cur \in Paths /\ ~dryRun
      /\ stopped \in {"no", "lost", "root"}
  BY DEF Shape, TypeOK
<1> USE DEF StopReasons, AtPath
<1>1. CASE Inspect
  BY <1>1, FailAllAbandons DEF Inspect, Goto, GoesOn
<1>2. CASE ReadBackups
  BY <1>2, FailAllAbandons DEF ReadBackups, Goto, GoesOn
<1>3. CASE BatchRefused
  BY <1>3, FailAllAbandons DEF BatchRefused, Goto, GoesOn
<1>4. CASE TakeNext
  <2>1. cur <= N => cur \in Paths
    BY DestinationAssumption DEF Paths, TypeOK
  <2> QED BY <1>4, <2>1, ConcludeSettles DEF TakeNext, OnlyPlanned, Goto, GoesOn
<1>5. CASE RelistRefused
  BY <1>0, <1>5, ConcludeSettles DEF RelistRefused
<1>6. CASE Relist
  BY <1>0, <1>6, ConcludeSettles DEF Relist, Stop, Asked, Goto, GoesOn
<1>7. CASE Rehash
  BY <1>0, <1>7, ConcludeSettles DEF Rehash, Stop, Goto, GoesOn
<1>8. CASE BackUp
  BY <1>8 DEF BackUp, GoesOn
<1>9. CASE BackUpFails
  BY <1>0, <1>9, ConcludeSettles DEF BackUpFails
<1>10. CASE SendRefused
  BY <1>0, <1>10, FailOpSettles DEF SendRefused
<1>11. CASE Send
  BY <1>0, <1>11 DEF Send, Goto, GoesOn, TypeOK
<1>12. CASE Receive
  BY <1>0, <1>12, FailOpSettles, ProceedSettles DEF Receive, Stop, Goto, GoesOn
<1>13. CASE RootCheck
  BY <1>0, <1>13, FailOpSettles DEF RootCheck, Stop
<1>14. CASE ReconnectToRead
  BY <1>0, <1>14 DEF ReconnectToRead, ReadPcs, Asked, GoesOn
<1>15. CASE GiveUpRead
  BY <1>0, <1>15, ConcludeSettles, FailOpSettles, FailAllAbandons
     DEF GiveUpRead, Stop, Goto, GoesOn, Asked
<1>16. CASE LoseChange
  BY <1>0, <1>16 DEF LoseChange, Stop, Goto, GoesOn
<1>17. CASE ReconnectToConfirm
  BY <1>17 DEF ReconnectToConfirm, Goto, GoesOn, AfterStop
<1>18. CASE Confirm
  <2>1. pc = "observe" /\ stopped # "no" /\ UNCHANGED <<stopped, sent>>
    BY <1>18 DEF Confirm, AfterStop
  <2> QED BY <1>0, <1>18, <2>1, FailOpSettles, ProceedSettles DEF Confirm
<1>19. CASE ConfirmFails
  <2>1. pc \in {"confirm", "observe"} /\ stopped # "no" /\ UNCHANGED <<stopped, sent>>
    BY <1>19 DEF ConfirmFails, AfterStop
  <2> QED BY <1>0, <1>19, <2>1, FailOpSettles DEF ConfirmFails
<1> QED
  BY <1>1, <1>2, <1>3, <1>4, <1>5, <1>6, <1>7, <1>8, <1>9, <1>10, <1>11, <1>12, <1>13, <1>14,
     <1>15, <1>16, <1>17, <1>18, <1>19 DEF ClientStep

LEMMA AfterStopInit == ASSUME Init PROVE AfterStop
BY DEF Init, AfterStop, StopReasons

LEMMA AfterStopStep ==
  ASSUME TypeOK, Shape, Requests, AfterStop, [Next]_vars PROVE AfterStop'
<1>0. dryRun' = dryRun
  BY DryRunStays
<1>1. CASE ClientStep /\ Settles
  <2>1. /\ cur \in Paths /\ pc # "done" /\ cur' = cur + 1 /\ pc' = "next" /\ UNCHANGED sent
        /\ \A j \in Paths \ {cur}: result'[j] = result[j] /\ why'[j] = why[j]
    BY <1>1 DEF Settles
  <2>2. \A j \in Paths: j >= cur' => result'[j] = "pending" /\ why'[j] = "none"
    BY <2>1 DEF AfterStop, Paths
  <2>3. ASSUME NEW i \in Paths, i < cur', why'[i] \in StopReasons
        PROVE  stopped' # "no" /\ ~dryRun
    BY <1>1, <2>1, <2>3 DEF Settles, AfterStop, Paths
  <2>4. ASSUME NEW i \in Paths, NEW j \in Paths, i < j, why'[i] \in StopReasons
        PROVE  result'[j] \in {"pending", "Failed"} /\ Untried(j)
    <3>1. CASE j = cur
      <4>1. why[i] \in StopReasons /\ i < cur
        BY <2>1, <2>4, <3>1 DEF Paths
      <4>2. pc \in {"next", "relist"} /\ ~dryRun /\ Untried(cur)
        BY <2>1, <4>1 DEF AfterStop, Requests, BeforeSending
      <4> QED BY <1>1, <3>1, <4>2 DEF Settles
    <3>2. CASE j # cur /\ i = cur
      BY <2>1, <2>4, <3>2 DEF AfterStop, Requests, Paths
    <3>3. CASE j # cur /\ i # cur
      BY <2>1, <2>4, <3>3 DEF AfterStop
    <3> QED BY <3>1, <3>2, <3>3
  <2> QED BY <1>0, <2>1, <2>2, <2>3, <2>4 DEF AfterStop, Untried
<1>2. CASE ClientStep /\ Abandons
  <2>1. cur = 1 /\ pc \in BeforeSending
    BY <1>2 DEF Abandons, Shape, BeforeSending
  <2>2. \A j \in Paths: Untried(j)
    BY <2>1 DEF Requests, Paths
  <2> QED BY <1>2, <2>2 DEF Abandons, AfterStop, Untried
<1>3. CASE ClientStep /\ GoesOn
  <2>1. pc # "done" /\ UNCHANGED <<cur, result, why>>
    BY <1>3 DEF GoesOn, report
  <2>2. ASSUME NEW i \in Paths, i < cur, why[i] \in StopReasons
        PROVE  /\ stopped # "no" /\ ~dryRun /\ pc \in {"next", "relist"}
               /\ stopped' # "no" /\ pc' \in {"next", "relist", "done"}
    BY <1>3, <2>1, <2>2 DEF GoesOn, AfterStop
  <2>3. ASSUME NEW i \in Paths, NEW j \in Paths, i < j, why[i] \in StopReasons
        PROVE  result[j] \in {"pending", "Failed"} /\ Untried(j)'
    <3>1. i < cur
      BY <2>1, <2>3 DEF AfterStop, StopReasons, Paths, TypeOK
    <3>2. UNCHANGED sent
      BY <1>3, <2>2, <2>3, <3>1 DEF GoesOn
    <3> QED BY <2>3, <3>2 DEF AfterStop, Untried
  <2>4. pc' \in {"confirm", "observe"} => stopped' # "no"
    BY <1>3 DEF GoesOn
  <2> QED BY <1>0, <2>1, <2>2, <2>3, <2>4 DEF AfterStop
<1>4. CASE AgentStep \/ LateStep
  BY <1>0, <1>4, AgentFrame DEF AfterStop, Untried, client, report
<1>5. CASE LateDies \/ LoseConnection \/ OthersStep \/ UNCHANGED vars
  BY <1>0, <1>5 DEF LateDies, LoseConnection, OthersStep, vars, AfterStop, Untried, client, report
<1> QED BY <1>1, <1>2, <1>3, <1>4, <1>5, ClientReports DEF Next, Done

----------------------------------------------------------------------------
(***************************************************************************)
(* What a path holds before its first change, and what is saved of it.     *)
(***************************************************************************)
\* The recheck and the backup lead to a change only from the compared state.
LEMMA ClientRechecks ==
  ASSUME TypeOK, Shape, Requests, Unchanged, ClientStep
  PROVE  /\ (pc' = "rehash" /\ cur' \notin raced') => dest[cur'] \in Files
         /\ (pc' = "backup" /\ cur' \notin raced') => dest[cur'] = Compared[cur']
         /\ (pc' = "send" /\ effects[cur'] = {} /\ cur' \notin raced') => dest[cur'] = Compared[cur']
<1> USE DEF destVars
<1>1. CASE Inspect \/ ReadBackups \/ BatchRefused \/ TakeNext \/ RelistRefused
  BY <1>1 DEF Inspect, ReadBackups, BatchRefused, TakeNext, RelistRefused, FailAll, Goto, Conclude
<1>2. CASE Relist
  BY <1>2 DEF Relist, Goto, Conclude
<1>3. CASE Rehash
  <2>1. (pc = "rehash" /\ UNCHANGED <<raced, cur>>) \/ pc' = "next"
    BY <1>3 DEF Rehash, Goto, Conclude
  <2>2. pc' \in {"backup", "next"}
    BY <1>3 DEF Rehash, Goto, Conclude
  <2>3. pc' = "backup" => dest[cur] \in {Compared[cur]} \cup Links
    BY <1>3 DEF Rehash, Goto, Conclude
  <2> QED BY <2>1, <2>2, <2>3 DEF Unchanged, Files, Links
<1>4. CASE BackUp
  BY <1>4 DEF BackUp, Unchanged
<1>5. CASE BackUpFails \/ SendRefused \/ Send \/ RootCheck \/ ConfirmFails
  BY <1>5 DEF BackUpFails, SendRefused, Send, RootCheck, ConfirmFails, FailOp, Conclude, Goto
<1>6. CASE Receive \/ Confirm
  <2>1. pc \in {"wait", "observe"} /\ cur \in Paths /\ op \in Ops
    BY <1>6 DEF Receive, Confirm, Shape, AtPath, TypeOK
  <2>2. ~Untried(cur)
    BY <2>1 DEF Requests, Untried
  <2>3. pc' \in {"next", "rootcheck"} \/ (pc' = "send" /\ cur' = cur /\ raced' = raced)
    BY <1>6 DEF Receive, Confirm, Proceed, FailOp, Conclude, Goto
  <2> QED BY <2>1, <2>2, <2>3 DEF Unchanged
<1>7. CASE ReconnectToRead
  BY <1>7 DEF ReconnectToRead, ReadPcs, Unchanged
<1>8. CASE GiveUpRead \/ LoseChange \/ ReconnectToConfirm
  BY <1>8 DEF GiveUpRead, LoseChange, ReconnectToConfirm, FailAll, FailOp, Conclude, Goto
<1> QED BY <1>1, <1>2, <1>3, <1>4, <1>5, <1>6, <1>7, <1>8 DEF ClientStep

\* A path that is newly requested is the current one, at the point of sending.
LEMMA MovesSends ==
  ASSUME TypeOK, Shape, Moves, NEW p \in Paths, Untried(p), ~Untried(p)'
  PROVE  pc = "send" /\ p = cur /\ cur' = cur /\ pc' = "wait"
<1>1. pc = "send" /\ pc' = "wait" /\ sent' = [sent EXCEPT ![cur][op] = @ + 1] /\ cur' = cur
  BY DEF Moves, Untried
<1>2. cur \in Paths /\ sent \in [Paths -> [Ops -> Nat]]
  BY <1>1 DEF Shape, AtPath, TypeOK
<1>3. p # cur => sent'[p] = sent[p]
  BY <1>1, <1>2
<1> QED BY <1>1, <1>3 DEF Untried

LEMMA UnchangedInit == ASSUME Init PROVE Unchanged
BY DEF Init, Unchanged, Untried

LEMMA UnchangedStep ==
  ASSUME TypeOK, Shape, Requests, Unchanged, [Next]_vars PROVE Unchanged'
<1>1. CASE ClientStep
  <2>1. Moves /\ UNCHANGED <<dest, effects>>
    BY <1>1, ClientMoves, ClientFrame
  <2>2. ASSUME NEW p \in Paths, ~Untried(p)', effects[p] = {}, p \notin raced'
        PROVE  dest[p] = Compared[p]
    <3>1. CASE Untried(p)
      BY <1>1, <2>1, <2>2, <3>1, MovesSends, ClientFrame DEF Unchanged
    <3>2. CASE ~Untried(p)
      <4>1. p \notin raced
        BY <1>1, <2>2, <3>2, ClientFrame DEF Requests, BeforeSending
      <4> QED BY <2>2, <3>2, <4>1 DEF Unchanged
    <3> QED BY <3>1, <3>2
  <2> QED BY <1>1, <2>1, <2>2, ClientRechecks DEF Unchanged
<1>2. CASE AgentStep \/ LateStep
  <2>1. PICK p \in Paths, o \in Ops:
          /\ sent[p][o] # 0
          /\ \A j \in Paths \ {p}: dest'[j] = dest[j] /\ effects'[j] = effects[j]
          /\ effects'[p] = {} => dest'[p] = dest[p] /\ effects[p] = {}
          /\ UNCHANGED <<raced, client>>
    BY <1>2, AgentFrame
  <2>2. ~Untried(p)
    BY <2>1 DEF Untried
  <2>3. pc \in {"rehash", "backup"} => cur \in Paths \ {p}
    BY <2>2 DEF Requests, BeforeSending, Shape, AtPath
  <2>4. pc = "send" => cur \in Paths
    BY DEF Shape, AtPath
  <2> QED BY <2>1, <2>3, <2>4 DEF Unchanged, Untried, client
<1>3. CASE LateDies \/ LoseConnection \/ UNCHANGED vars
  BY <1>3 DEF LateDies, LoseConnection, vars, Unchanged, Untried, client, destVars
<1>4. CASE OthersStep
  <2>1. pc \in {"rehash", "backup", "send"} => cur \in Paths
    BY DEF Shape, AtPath
  <2> QED BY <1>4, <2>1, OthersFrame DEF OthersStep, Unchanged, Untried, client, TypeOK
<1> QED BY <1>1, <1>2, <1>3, <1>4 DEF Next, Done

\* Only these three steps read for the backup, or save.
LEMMA ClientSaves ==
  ASSUME ClientStep, ~Inspect, ~ReadBackups, ~BackUp
  PROVE  UNCHANGED <<insp, bcont, saved>>
BY DEF ClientStep, BatchRefused, TakeNext, RelistRefused, Relist, Rehash, BackUpFails,
       SendRefused, Send, Receive, RootCheck, ReconnectToRead, GiveUpRead, LoseChange,
       ReconnectToConfirm, Confirm, ConfirmFails, read

LEMMA SavedInit == ASSUME Init PROVE Saved
BY MergeApplyAssumption DEF Init, Saved, Untried, Files, Kept

LEMMA SavedStep ==
  ASSUME TypeOK, Shape, Requests, Saved, [Next]_vars PROVE Saved'
<1>1. CASE ClientStep
  <2>1. Moves /\ UNCHANGED <<dest, effects, touched>>
    BY <1>1, ClientMoves, ClientFrame
  <2>2. pc \in {"inspect", "backupRead"} => \A i \in Paths: effects[i] = {}
    BY DEF Requests, Shape, BeforeSending, Paths
  <2>3. ASSUME UNCHANGED <<insp, bcont, saved>>, ~BackUp PROVE Saved'
    <3>1. ASSUME NEW i \in Paths, ~Untried(i)' \/ (pc' = "send" /\ i = cur')
          PROVE  ~Untried(i) \/ (pc = "send" /\ i = cur)
      <4>1. CASE ~Untried(i)'
        BY <2>1, <4>1, MovesSends
      <4>2. CASE pc' = "send" /\ i = cur'
        <5>1. pc \in {"wait", "observe"}
          BY <1>1, <2>3, <4>2
             DEF ClientStep, Inspect, ReadBackups, BatchRefused, TakeNext, RelistRefused, Relist,
                 Rehash, BackUpFails, SendRefused, Send, Receive, RootCheck, ReconnectToRead,
                 GiveUpRead, LoseChange, ReconnectToConfirm, Confirm, ConfirmFails, FailOp,
                 FailAll, Conclude, Goto, ReadPcs
        <5>2. cur' = cur /\ cur \in Paths /\ op \in Ops
          BY <2>1, <4>2, <5>1 DEF Moves, BeforeSending, Shape, AtPath, TypeOK
        <5> QED BY <4>2, <5>1, <5>2 DEF Requests, Untried
      <4> QED BY <3>1, <4>1, <4>2
    <3> QED BY <2>1, <2>3, <3>1 DEF Saved, Kept
  <2>4. CASE Inspect
    <3>1. \A i \in Paths: i \notin touched => insp'[i] \in {Compared[i], "notdir"}
      BY <2>2, <2>4 DEF Inspect, Saved, read
    <3>2. UNCHANGED <<bcont, saved, sent>> /\ pc' # "send"
      BY <2>4 DEF Inspect, FailAll, Goto, read
    <3> QED BY <2>1, <3>1, <3>2 DEF Saved, Kept, Untried
  <2>5. CASE ReadBackups
    <3>1. \A i \in Paths: (i \notin touched /\ bcont'[i] \in Files) => bcont'[i] = Compared[i]
      <4>1. CASE bcont' = bcont
        BY <4>1 DEF Saved
      <4>2. CASE bcont' # bcont
        <5>1. \A i \in Paths: (i \notin touched /\ bcont'[i] \in Files)
                => i \in BackedUp /\ (dest[i] \in Links \/ bcont'[i] = dest[i])
          BY <2>5, <4>2 DEF ReadBackups, ContentAt, read, Files
        <5>2. \A i \in Paths: i \notin touched => dest[i] = Compared[i]
          BY <2>2, <2>5 DEF ReadBackups, Saved
        <5>3. \A i \in BackedUp: Compared[i] = "old"
          BY DEF BackedUp
        <5> QED BY <5>1, <5>2, <5>3 DEF Links
      <4> QED BY <4>1, <4>2
    <3>2. UNCHANGED <<insp, saved, sent>> /\ pc' # "send"
      BY <2>5 DEF ReadBackups, FailAll, Goto, read
    <3> QED BY <2>1, <3>1, <3>2 DEF Saved, Kept, Untried
  <2>6. CASE BackUp
    <3>1. cur \in Paths /\ pc = "backup" /\ pc' = "send" /\ UNCHANGED <<cur, sent, insp, bcont>>
      BY <2>6 DEF BackUp, read, Shape, AtPath
    <3>2. \A i \in Paths \ {cur}: saved'[i] = saved[i]
      BY <2>6, <3>1 DEF BackUp, TypeOK
    <3>3. (Session /\ Compared[cur] # "absent") => saved'[cur] = BackupEntry(cur) /\ saved'[cur] # "none"
      BY <2>6, <3>1 DEF BackUp, TypeOK
    <3>4. (BackupEntry(cur) # "none" /\ cur \notin touched) => BackupEntry(cur) = Compared[cur]
      <4>1. CASE Compared[cur] = "old" /\ bcont[cur] \in Files
        BY <3>1, <4>1 DEF BackupEntry, Saved
      <4>2. CASE Compared[cur] = "oldlink" /\ insp[cur] \in Links
        BY <3>1, <4>2 DEF BackupEntry, Saved, Links
      <4> QED BY <4>1, <4>2 DEF BackupEntry
    <3> QED BY <2>1, <3>1, <3>2, <3>3, <3>4 DEF Saved, Kept, Untried
  <2> QED BY <1>1, <2>3, <2>4, <2>5, <2>6, ClientSaves
<1>2. CASE AgentStep \/ LateStep
  BY <1>2, AgentFrame DEF Saved, Kept, Untried, client, read
<1>3. CASE LateDies \/ LoseConnection \/ UNCHANGED vars
  BY <1>3 DEF LateDies, LoseConnection, vars, Saved, Kept, Untried, client, read, destVars
<1>4. CASE OthersStep
  BY <1>4, OthersFrame DEF OthersStep, Saved, Kept, Untried, client, read, TypeOK
<1> QED BY <1>1, <1>2, <1>3, <1>4 DEF Next, Done

----------------------------------------------------------------------------
(***************************************************************************)
(* A second invariant, on top of IInv, for what is reported: it needs that *)
(* no agent outlives its connection.  Its parts say which request can be   *)
(* in hand (Orderly), what the requests so far did (Worked) and what the   *)
(* paths nobody else touched hold, with their permissions (Held).          *)
(***************************************************************************)
Sending == {"send"} \cup Awaiting

\* Only what a path needs is requested, and only what was requested is done.
Orderly ==
  /\ late = {}
  /\ \A i \in newDir: i \in InDir /\ Compared[i] = "absent"
  /\ pc \in Sending => op \in Needed(cur)
  /\ (pc = "send" /\ op = FirstOp(cur)) => Untried(cur)
  /\ \A i \in Paths, o \in Ops: sent[i][o] # 0 => o \in Needed(i)
  /\ \A i \in Paths, o \in Ops: o \in effects[i] => sent[i][o] # 0
  /\ \A i \in Paths: "begin" \in effects[i] => sent[i]["write"] # 0

\* What is known of the request in flight agrees with what it did, and the next
\* one is made when those before it were carried out.
Worked ==
  /\ (wire \in {"sent", "notfound", "rootgone"} /\ op = FirstOp(cur)) => effects[cur] = {}
  /\ wire = "begun" => op = "write" /\ effects[cur] = {"begin"}
  /\ wire = "ok" => op \in effects[cur]
  /\ wire \in {"sent", "begun", "refused"} => op \notin effects[cur]
  /\ (pc = "rootcheck" /\ op = FirstOp(cur)) => effects[cur] = {}
  /\ \A i \in Paths: "write" \in effects[i] => "begin" \in effects[i]
  /\ (pc \in Sending /\ cur \notin touched) =>
       \A o \in Needed(cur): Rank(o) < Rank(op) => o \in CarriedOut(cur)

FirstEffect(i) == IF FirstOp(i) = "write" THEN "begin" ELSE FirstOp(i)

\* What a path holds after what was done to it.
HeldAfter(i) ==
  IF "link" \in effects[i] THEN "newlink"
  ELSE IF "remove" \in effects[i] THEN "absent"
  ELSE IF "write" \in effects[i] THEN "new"
  ELSE IF "begin" \in effects[i] THEN "partial"
  ELSE Compared[i]

Held ==
  /\ \A i \in Paths \ touched: effects[i] # {} => FirstEffect(i) \in effects[i]
  /\ \A i \in Paths \ touched: dest[i] = HeldAfter(i)
  /\ \A i \in Paths: perm[i] = "set" => "chmod" \in effects[i]
  /\ \A i \in Paths \ touched: "chmod" \in effects[i] => perm[i] = "set"
  /\ perm[0] = "set" => \E j \in Paths: "chmoddir" \in effects[j]
  /\ \A i \in InDir \ touched, j \in Paths:
       "chmoddir" \in effects[j] => perm[0] = "set" /\ dir # "absent"

All == Orderly /\ Worked /\ Held /\ ReportIsExact

----------------------------------------------------------------------------
(***************************************************************************)
(* Which requests a path needs, and what is left after each.               *)
(***************************************************************************)
LEMMA NeededOps ==
  ASSUME Orderly, NEW i \in Paths
  PROVE  /\ Needed(i) \subseteq Ops /\ FirstOp(i) \in Needed(i)
         /\ "write" \in Needed(i) =>
              FirstOp(i) = "write" /\ Kind[i] = "WriteFile" /\ Compared[i] \in {"absent", "old"}
              /\ "link" \notin Needed(i) /\ "remove" \notin Needed(i)
         /\ "remove" \in Needed(i) => FirstOp(i) = "remove" /\ Compared[i] \in {"old", "oldlink"}
         /\ "link" \in Needed(i) => \/ FirstOp(i) = "link" /\ ~Replaces(i) /\ Compared[i] = "absent"
                                    \/ FirstOp(i) = "remove" /\ Replaces(i)
         /\ "chmoddir" \in Needed(i) => i \in newDir /\ i \in InDir
         /\ \A o \in Needed(i): o # FirstOp(i) =>
              Rank(FirstOp(i)) < Rank(o)
              /\ (o \in {"chmod", "chmoddir"} \/ (o = "link" /\ Replaces(i)))
         /\ FirstOp(i) \notin {"chmod", "chmoddir"}
         /\ \A o \in Needed(i), p \in Needed(i): Rank(o) = Rank(p) => o = p
<1>1. Rank("write") = 1 /\ Rank("remove") = 1 /\ Rank("link") = 2
      /\ Rank("chmoddir") = 3 /\ Rank("chmod") = 4
  BY DEF Rank
<1>2. CASE Kind[i] = "WriteFile"
  BY <1>1, <1>2, MergeApplyAssumption DEF Orderly, Needed, FirstOp, Replaces, Ops
<1>3. CASE Kind[i] = "WriteLink" /\ Compared[i] = "oldlink"
  BY <1>1, <1>3, MergeApplyAssumption DEF Orderly, Needed, FirstOp, Replaces, Ops
<1>4. CASE Kind[i] = "WriteLink" /\ Compared[i] # "oldlink"
  BY <1>1, <1>4, MergeApplyAssumption DEF Orderly, Needed, FirstOp, Replaces, Ops
<1>5. CASE Kind[i] = "Delete"
  BY <1>1, <1>5, MergeApplyAssumption DEF Orderly, Needed, FirstOp, Replaces, Ops
<1> QED BY <1>2, <1>3, <1>4, <1>5, MergeApplyAssumption

\* After a change the next one needed is taken, and "finished" means that none is left.
LEMMA AfterOpNeeds ==
  ASSUME Orderly, cur \in Paths, op \in Needed(cur)
  PROVE  /\ AfterOp(op) \in Ops =>
              /\ AfterOp(op) \in Needed(cur) /\ AfterOp(op) # FirstOp(cur)
              /\ \A o \in Needed(cur): Rank(o) < Rank(AfterOp(op)) => Rank(o) <= Rank(op)
         /\ AfterOp(op) = "finished" => \A o \in Needed(cur): Rank(o) <= Rank(op)
<1>1. Rank("write") = 1 /\ Rank("remove") = 1 /\ Rank("link") = 2
      /\ Rank("chmoddir") = 3 /\ Rank("chmod") = 4
  BY DEF Rank
<1>2. WrittenFile(cur) \in {"Set", "Fail", "Keep"}
  BY MergeApplyAssumption DEF WrittenFile
<1>3. Needed(cur) \subseteq Ops
  BY NeededOps
<1>4. CASE Kind[cur] = "WriteFile"
  <2>1. FirstOp(cur) = "write" /\ ~Replaces(cur)
    BY <1>4 DEF FirstOp, Replaces
  <2>2. op \in {"write", "chmoddir", "chmod"}
    BY <2>1, <1>4 DEF Needed
  <2>3. CASE op = "write"
    BY <1>1, <1>2, <1>4, <2>1, <2>3 DEF AfterOp, Needed, Ops
  <2>4. CASE op = "chmoddir"
    BY <1>1, <1>2, <1>4, <2>1, <2>4 DEF AfterOp, Needed, Ops
  <2>5. CASE op = "chmod"
    BY <1>1, <1>2, <1>4, <2>1, <2>5 DEF AfterOp, Needed, Ops
  <2> QED BY <2>2, <2>3, <2>4, <2>5
<1>5. CASE Kind[cur] = "WriteLink" /\ Compared[cur] = "oldlink"
  <2>1. FirstOp(cur) = "remove" /\ Replaces(cur) /\ cur \notin newDir
    BY <1>5 DEF FirstOp, Replaces, Orderly
  <2>2. Needed(cur) = {"remove", "link"}
    BY <1>5, <2>1 DEF Needed
  <2>3. CASE op = "remove"
    BY <1>1, <1>5, <2>1, <2>2, <2>3 DEF AfterOp, Ops
  <2>4. CASE op = "link"
    BY <1>1, <1>5, <2>1, <2>2, <2>4 DEF AfterOp, Ops
  <2> QED BY <2>2, <2>3, <2>4
<1>6. CASE Kind[cur] = "WriteLink" /\ Compared[cur] # "oldlink"
  <2>1. FirstOp(cur) = "link" /\ ~Replaces(cur)
    BY <1>6 DEF FirstOp, Replaces
  <2>2. op \in {"link", "chmoddir"}
    BY <1>6, <2>1 DEF Needed
  <2>3. CASE op = "link"
    BY <1>1, <1>6, <2>1, <2>3 DEF AfterOp, Ops, Needed
  <2>4. CASE op = "chmoddir"
    BY <1>1, <1>6, <2>1, <2>4 DEF AfterOp, Ops, Needed
  <2> QED BY <2>2, <2>3, <2>4
<1>7. CASE Kind[cur] = "Delete"
  <2>1. FirstOp(cur) = "remove" /\ ~Replaces(cur) /\ cur \notin newDir
    BY <1>7, MergeApplyAssumption DEF FirstOp, Replaces, Orderly
  <2>2. Needed(cur) = {"remove"}
    BY <1>7, <2>1 DEF Needed
  <2> QED BY <1>1, <1>7, <2>1, <2>2 DEF AfterOp, Ops
<1> QED BY <1>4, <1>5, <1>6, <1>7, MergeApplyAssumption

----------------------------------------------------------------------------
(***************************************************************************)
(* Only what a path needs is requested.                                    *)
(***************************************************************************)
\* A path's missing directory is recorded by the inspection alone.
LEMMA NewDirStays ==
  ASSUME [Next]_vars
  PROVE  \/ newDir' = newDir
         \/ pc = "inspect" /\ cur' = cur /\ newDir' = {i \in InDir : Compared[i] = "absent" /\ dir = "absent"}
<1>1. CASE ClientStep
  BY <1>1 DEF ClientStep, Inspect, ReadBackups, BatchRefused, TakeNext, RelistRefused, Relist, Rehash,
     BackUp, BackUpFails, SendRefused, Send, Receive, RootCheck, ReconnectToRead, GiveUpRead,
     LoseChange, ReconnectToConfirm, Confirm, ConfirmFails, FailAll, Goto, read
<1>2. CASE ~ClientStep
  BY <1>2 DEF Next, AgentStep, LateStep, LateDies, LoseConnection, OthersStep, Done, vars, read
<1> QED BY <1>1, <1>2

\* Where the command is sending, the request in hand is kept, or is the one that
\* comes after it, or is the first of its path.
Takes ==
  \/ pc' \notin Sending
  \/ pc \in Sending /\ UNCHANGED <<cur, op>> /\ (pc' = "send" => pc = "send")
  \/ pc \in {"wait", "observe"} /\ pc' = "send" /\ cur' = cur /\ op' = AfterOp(op) /\ op' \in Ops
  \/ pc = "backup" /\ pc' = "send" /\ cur' = cur /\ op' = FirstOp(cur)

LEMMA ClientTakes == ASSUME ClientStep PROVE Takes
<1> USE DEF Takes, Sending, Awaiting
<1>1. CASE Inspect \/ ReadBackups \/ BatchRefused \/ TakeNext \/ RelistRefused \/ Relist \/ Rehash
  BY <1>1 DEF Inspect, ReadBackups, BatchRefused, TakeNext, RelistRefused, Relist, Rehash,
              FailAll, Conclude, Goto
<1>2. CASE BackUp \/ BackUpFails \/ SendRefused \/ Send \/ RootCheck \/ ConfirmFails
  BY <1>2 DEF BackUp, BackUpFails, SendRefused, Send, RootCheck, ConfirmFails, FailOp, Conclude, Goto
<1>3. CASE Receive \/ Confirm
  BY <1>3 DEF Receive, Confirm, Proceed, FailOp, Conclude, Goto
<1>4. CASE ReconnectToRead \/ GiveUpRead \/ LoseChange \/ ReconnectToConfirm
  BY <1>4 DEF ReconnectToRead, GiveUpRead, LoseChange, ReconnectToConfirm, ReadPcs, FailAll, FailOp,
              Conclude, Goto
<1> QED BY <1>1, <1>2, <1>3, <1>4 DEF ClientStep

\* The state of the command in which Sending and the others are spelled out.
LEMMA SendingIsAtPath == Sending \subseteq AtPath
BY DEF Sending, Awaiting, AtPath

\* What a step of the agent at work does, when no other agent is left.
LEMMA AgentIs ==
  ASSUME TypeOK, Shape, Orderly, AgentStep \/ LateStep
  PROVE  /\ AgentStep
         /\ cur \in Paths /\ pc = "wait" /\ op \in Ops /\ op \in Needed(cur)
         /\ wire \in {"sent", "begun"} /\ Perform(op, cur, wire, wire')
         /\ UNCHANGED <<touched, raced, read, report, conn, late, client>>
<1>1. AgentStep
  BY DEF LateStep, Orderly
<1>2. pc = "wait" /\ wire \in {"sent", "begun"}
  BY <1>1 DEF AgentStep, Shape
<1>3. cur \in Paths /\ op \in Ops /\ op \in Needed(cur)
  BY <1>2 DEF Shape, AtPath, TypeOK, Orderly, Sending, Awaiting
<1> QED BY <1>1, <1>2, <1>3 DEF AgentStep

LEMMA OrderlyInit == ASSUME Init PROVE Orderly
BY DestinationAssumption DEF Init, Orderly, Sending, Awaiting

LEMMA OrderlyStep ==
  ASSUME ~OldAgentOutlives, TypeOK, Shape, Requests, Orderly, [Next]_vars PROVE Orderly'
<1>0. /\ \A i \in newDir': i \in InDir /\ Compared[i] = "absent"
      /\ pc # "inspect" => newDir' = newDir
  BY NewDirStays DEF Orderly
<1>1. CASE ClientStep
  <2>1. Moves /\ Takes /\ UNCHANGED <<effects, late>>
    BY <1>1, ClientMoves, ClientTakes, ClientFrame
  <2>2. /\ \A i \in Paths, o \in Ops: sent'[i][o] # 0 =>
             sent[i][o] # 0 \/ (pc = "send" /\ i = cur /\ o = op)
        /\ \A i \in Paths, o \in Ops: sent[i][o] # 0 => sent'[i][o] # 0
    <3>1. CASE UNCHANGED sent
      BY <3>1
    <3>2. CASE pc = "send" /\ sent' = [sent EXCEPT ![cur][op] = @ + 1]
      <4>1. cur \in Paths /\ op \in Ops /\ sent \in [Paths -> [Ops -> Nat]]
        BY <3>2 DEF Shape, AtPath, TypeOK
      <4> QED BY <3>2, <4>1
    <3> QED BY <2>1, <3>1, <3>2 DEF Moves
  <2>3. \A i \in Paths, o \in Ops: sent'[i][o] # 0 => o \in Needed(i)'
    <3>1. CASE pc = "inspect"
      <4>1. \A i \in Paths: Untried(i)
        BY <3>1 DEF Requests, Shape, BeforeSending, Paths
      <4> QED BY <2>2, <3>1, <4>1 DEF Untried
    <3>2. CASE pc # "inspect"
      BY <1>0, <2>2, <3>2 DEF Orderly, Sending, Needed
    <3> QED BY <3>1, <3>2
  <2>4. pc' \in Sending => op' \in Needed(cur)' /\ pc # "inspect"
    <3> SUFFICES ASSUME pc' \in Sending PROVE op' \in Needed(cur)' /\ pc # "inspect"
      OBVIOUS
    <3>1. CASE pc \in Sending /\ UNCHANGED <<cur, op>>
      BY <1>0, <3>1 DEF Orderly, Needed, Sending, Awaiting
    <3>2. CASE pc \in {"wait", "observe"} /\ cur' = cur /\ op' = AfterOp(op) /\ op' \in Ops
      <4>1. cur \in Paths /\ op \in Needed(cur)
        BY <3>2 DEF Shape, AtPath, Orderly, Sending, Awaiting
      <4>2. op' \in Needed(cur)
        BY <3>2, <4>1, AfterOpNeeds
      <4> QED BY <1>0, <3>2, <4>2 DEF Needed
    <3>3. CASE pc = "backup" /\ cur' = cur /\ op' = FirstOp(cur)
      BY <1>0, <3>3 DEF Needed
    <3> QED BY <2>1, <3>1, <3>2, <3>3 DEF Takes
  <2>5. (pc' = "send" /\ op' = FirstOp(cur')) => Untried(cur)'
    <3> SUFFICES ASSUME pc' = "send", op' = FirstOp(cur') PROVE Untried(cur)'
      OBVIOUS
    <3>1. CASE pc = "send" /\ UNCHANGED <<cur, op>>
      BY <2>1, <3>1 DEF Moves, Orderly, Untried, BeforeSending, Awaiting, Shape, AtPath
    <3>2. CASE pc \in {"wait", "observe"} /\ cur' = cur /\ op' = AfterOp(op) /\ op' \in Ops
      <4>1. cur \in Paths /\ op \in Needed(cur)
        BY <3>2 DEF Shape, AtPath, Orderly, Sending, Awaiting
      <4> QED BY <3>2, <4>1, AfterOpNeeds
    <3>3. CASE pc = "backup" /\ cur' = cur
      <4>1. UNCHANGED sent /\ cur \in Paths
        BY <2>1, <3>3 DEF Moves, Awaiting, Shape, AtPath
      <4> QED BY <3>3, <4>1 DEF Requests, BeforeSending, Untried
    <3> QED BY <2>1, <3>1, <3>2, <3>3 DEF Takes, Sending
  <2> QED BY <1>0, <2>1, <2>2, <2>3, <2>4, <2>5 DEF Orderly, Ops
<1>2. CASE AgentStep \/ LateStep
  <2>1. /\ cur \in Paths /\ pc = "wait" /\ op \in Ops
        /\ Perform(op, cur, wire, wire') /\ UNCHANGED <<touched, raced, read, report, conn, late, client>>
    BY <1>2, AgentIs
  <2>2. sent[cur][op] # 0
    BY <2>1 DEF Requests
  <2>3. /\ \A j \in Paths \ {cur}: effects'[j] = effects[j]
        /\ \A o \in effects'[cur]: o \in effects[cur] \/ o = op \/ (o = "begin" /\ op = "write")
    BY <2>1, PerformFrame, PerformResult, PerformAnswer DEF TypeOK
  <2>4. \A i \in Paths, o \in Ops: o \in effects'[i] => sent[i][o] # 0
    BY <2>2, <2>3 DEF Orderly, Ops
  <2>5. \A i \in Paths: "begin" \in effects'[i] => sent[i]["write"] # 0
    BY <2>2, <2>3, <2>1 DEF Orderly, Ops
  <2>6. UNCHANGED <<newDir, sent, cur, op, pc, late>>
    BY <2>1 DEF client, read
  <2> QED BY <1>0, <2>4, <2>5, <2>6 DEF Orderly, Untried, Needed
<1>3. CASE LateDies \/ LoseConnection \/ UNCHANGED vars
  BY <1>3 DEF LateDies, LoseConnection, vars, Orderly, Untried, client, route, read, destVars, Needed
<1>4. CASE OthersStep
  BY <1>4, OthersFrame DEF OthersStep, Orderly, Untried, client, route, read, TypeOK, Needed
<1> QED BY <1>1, <1>2, <1>3, <1>4 DEF Next, Done

----------------------------------------------------------------------------
(***************************************************************************)
(* What an answer, or what is seen after a lost one, says of the request.  *)
(***************************************************************************)
\* judge: if nobody else touched the path, what it holds tells what became of the
\* change.
LEMMA JudgeKnows ==
  ASSUME TypeOK, Requests, Orderly, Worked, Held, Saved,
         cur \in Paths, cur \notin touched, pc = "observe", op \in Needed(cur)
  PROVE  /\ Judge(op, cur) = "done" => op \in CarriedOut(cur)
         /\ Judge(op, cur) = "notdone" =>
              op \notin CarriedOut(cur) /\ (op = FirstOp(cur) => effects[cur] = {})
         /\ Judge(op, cur) = "partial" => "begin" \in effects[cur] /\ "write" \notin effects[cur]
<1>1. /\ dest[cur] = HeldAfter(cur)
      /\ effects[cur] # {} => FirstEffect(cur) \in effects[cur]
      /\ Compared[cur] \in {"absent", "old", "oldlink"}
      /\ op \in Ops
  BY MergeApplyAssumption DEF Held, TypeOK
<1>2. \A o \in Ops: o \in effects[cur] => o \in Needed(cur) /\ ~(Rank(o) > Rank(op))
  BY DEF Orderly, Requests
<1>3. Rank("write") = 1 /\ Rank("remove") = 1 /\ Rank("link") = 2
  BY DEF Rank
<1>4. CASE op = "write"
  <2>1. /\ FirstOp(cur) = "write" /\ Compared[cur] \in {"absent", "old"}
        /\ "link" \notin effects[cur] /\ "remove" \notin effects[cur]
    BY <1>2, <1>4, NeededOps DEF Ops
  <2>2. BeforeWriting(cur) = Compared[cur]
    BY <2>1 DEF BeforeWriting, Saved, Files
  <2>3. "write" \in effects[cur] => "begin" \in effects[cur]
    BY DEF Worked
  <2>4. CASE "write" \in effects[cur]
    <3>1. dest[cur] = "new"
      BY <1>1, <2>1, <2>4 DEF HeldAfter
    <3> QED BY <1>4, <2>4, <3>1 DEF Judge, CarriedOut
  <2>5. CASE "write" \notin effects[cur] /\ "begin" \in effects[cur]
    <3>1. dest[cur] = "partial"
      BY <1>1, <2>1, <2>5 DEF HeldAfter
    <3>2. Judge(op, cur) = "partial"
      BY <1>4, <2>1, <2>2, <3>1 DEF Judge
    <3> QED BY <2>5, <3>2
  <2>6. CASE "begin" \notin effects[cur]
    <3>1. effects[cur] = {}
      BY <1>1, <2>1, <2>6 DEF FirstEffect
    <3>2. dest[cur] = Compared[cur]
      BY <1>1, <3>1 DEF HeldAfter
    <3>3. Judge(op, cur) = "notdone"
      BY <1>4, <2>1, <2>2, <3>2 DEF Judge
    <3> QED BY <1>4, <3>1, <3>3 DEF CarriedOut
  <2> QED BY <2>3, <2>4, <2>5, <2>6
<1>5. CASE op = "remove"
  <2>1. FirstOp(cur) = "remove" /\ Compared[cur] \in {"old", "oldlink"}
    BY <1>5, NeededOps
  <2>2. "link" \notin effects[cur]
    BY <1>2, <1>3, <1>5 DEF Ops
  <2>3. CASE "remove" \in effects[cur]
    <3>1. dest[cur] = "absent"
      BY <1>1, <2>2, <2>3 DEF HeldAfter
    <3> QED BY <1>5, <2>3, <3>1 DEF Judge, CarriedOut
  <2>4. CASE "remove" \notin effects[cur]
    <3>1. effects[cur] = {}
      BY <1>1, <2>1, <2>4 DEF FirstEffect
    <3>2. dest[cur] = Compared[cur]
      BY <1>1, <3>1 DEF HeldAfter
    <3> QED BY <1>5, <2>1, <3>1, <3>2 DEF Judge, CarriedOut
  <2> QED BY <2>3, <2>4
<1>6. CASE op = "link"
  <2>1. CASE "link" \in effects[cur]
    <3>1. dest[cur] = "newlink"
      BY <1>1, <2>1 DEF HeldAfter
    <3> QED BY <1>6, <2>1, <3>1 DEF Judge, CarriedOut
  <2>2. CASE "link" \notin effects[cur] /\ FirstOp(cur) = "link"
    <3>1. effects[cur] = {} /\ Compared[cur] = "absent"
      BY <1>1, <1>6, <2>2, NeededOps DEF FirstEffect
    <3>2. dest[cur] = "absent"
      BY <1>1, <3>1 DEF HeldAfter
    <3> QED BY <1>6, <3>1, <3>2 DEF Judge, CarriedOut
  <2>3. CASE "link" \notin effects[cur] /\ FirstOp(cur) # "link"
    <3>1. FirstOp(cur) = "remove" /\ "remove" \in Needed(cur)
      BY <1>6, <2>3, NeededOps
    <3>2. "remove" \in effects[cur]
      BY <1>3, <1>6, <3>1 DEF Worked, Sending, Awaiting, CarriedOut
    <3>3. dest[cur] = "absent"
      BY <1>1, <2>3, <3>2 DEF HeldAfter
    <3> QED BY <1>6, <2>3, <3>3 DEF Judge, CarriedOut
  <2> QED BY <2>1, <2>2, <2>3
<1>7. CASE op = "chmod"
  <2>1. op # FirstOp(cur)
    BY <1>7, NeededOps
  <2>2. FirstOp(cur) = "write" /\ "write" \in effects[cur] /\ "link" \notin effects[cur] /\ "remove" \notin effects[cur]
    <3>1. FirstOp(cur) = "write" /\ FirstOp(cur) \in Needed(cur)
      BY <1>7, NeededOps DEF Needed, FirstOp, Replaces
    <3>2. "write" \in CarriedOut(cur)
      BY <1>7, <2>1, <3>1, NeededOps DEF Worked, Sending, Awaiting
    <3> QED BY <1>2, <3>1, <3>2, NeededOps DEF CarriedOut, Ops
  <2>3. dest[cur] = "new"
    BY <1>1, <2>2 DEF HeldAfter
  <2>4. perm[cur] = "set" <=> "chmod" \in effects[cur]
    BY DEF Held
  <2> QED BY <1>7, <2>1, <2>3, <2>4 DEF Judge, CarriedOut
<1>8. CASE op = "chmoddir"
  <2>1. op # FirstOp(cur) /\ cur \in InDir
    BY <1>8, NeededOps
  <2>2. (dir # "absent" /\ perm[0] = "set") <=> \E j \in Paths: "chmoddir" \in effects[j]
    <3>1. (\E j \in Paths: "chmoddir" \in effects[j]) => dir # "absent" /\ perm[0] = "set"
      BY <2>1 DEF Held
    <3> QED BY <3>1 DEF Held
  <2>3. "chmoddir" \in CarriedOut(cur) <=> \E j \in Paths: "chmoddir" \in effects[j]
    BY DEF CarriedOut
  <2> QED BY <1>8, <2>1, <2>2, <2>3 DEF Judge
<1> QED BY <1>1, <1>4, <1>5, <1>6, <1>7, <1>8 DEF Ops

\* Apart from a request just sent, nothing is in flight after a step of the command.
LEMMA ClientWire ==
  ASSUME TypeOK, Shape, ClientStep
  PROVE  /\ \/ wire' = "idle"
            \/ pc = "send" /\ pc' = "wait" /\ wire' = "sent" /\ UNCHANGED <<cur, op>>
         /\ pc' = "rootcheck" =>
              (pc = "rootcheck" \/ (pc = "wait" /\ wire = "notfound")) /\ UNCHANGED <<cur, op>>
<1> USE DEF Shape, TypeOK, route
<1>1. CASE Inspect \/ ReadBackups \/ BatchRefused \/ TakeNext \/ RelistRefused \/ Relist \/ Rehash
  BY <1>1 DEF Inspect, ReadBackups, BatchRefused, TakeNext, RelistRefused, Relist, Rehash,
              FailAll, Conclude, Goto
<1>2. CASE BackUp \/ BackUpFails \/ SendRefused \/ Send \/ RootCheck \/ ConfirmFails
  BY <1>2 DEF BackUp, BackUpFails, SendRefused, Send, RootCheck, ConfirmFails, FailOp, Conclude, Goto
<1>3. CASE Receive \/ Confirm
  BY <1>3 DEF Receive, Confirm, Proceed, FailOp, Conclude, Goto
<1>4. CASE ReconnectToRead \/ GiveUpRead \/ LoseChange \/ ReconnectToConfirm
  BY <1>4 DEF ReconnectToRead, GiveUpRead, LoseChange, ReconnectToConfirm, ReadPcs, FailAll, FailOp,
              Conclude, Goto
<1> QED BY <1>1, <1>2, <1>3, <1>4 DEF ClientStep

\* The command goes on to the next request only when the one in hand was carried out.
LEMMA GoesOnWhenDone ==
  ASSUME TypeOK, Shape, Requests, Orderly, Worked, Held, Saved, cur \notin touched,
         (Receive /\ wire = "ok") \/ (Confirm /\ Judge(op, cur) = "done")
  PROVE  op \in CarriedOut(cur)
<1>1. CASE Receive /\ wire = "ok"
  BY <1>1 DEF Worked, CarriedOut
<1>2. CASE Confirm /\ Judge(op, cur) = "done"
  <2>1. pc = "observe" /\ cur \in Paths /\ op \in Needed(cur)
    BY <1>2 DEF Confirm, Shape, AtPath, Orderly, Sending, Awaiting
  <2> QED BY <1>2, <2>1, JudgeKnows
<1> QED BY <1>1, <1>2

\* Only the answer "ok", or a confirmation, leads to the next request.
LEMMA ClientNextRequest ==
  ASSUME TypeOK, Shape, ClientStep, pc \in {"wait", "observe"}, pc' = "send"
  PROVE  /\ Proceed
         /\ (Receive /\ wire = "ok") \/ (Confirm /\ Judge(op, cur) = "done")
<1>1. ~(Inspect \/ ReadBackups \/ BatchRefused \/ TakeNext \/ RelistRefused \/ Relist \/ Rehash
        \/ BackUp \/ BackUpFails \/ SendRefused \/ Send \/ RootCheck \/ ReconnectToRead \/ GiveUpRead)
  BY DEF Inspect, ReadBackups, BatchRefused, TakeNext, RelistRefused, Relist, Rehash,
         BackUp, BackUpFails, SendRefused, Send, RootCheck, ReconnectToRead, GiveUpRead, ReadPcs
<1>2. ~(LoseChange \/ ReconnectToConfirm \/ ConfirmFails)
  BY DEF LoseChange, ReconnectToConfirm, ConfirmFails, Goto, FailOp, Conclude
<1>3. CASE Receive
  <2>1. wire = "ok" /\ Proceed
    BY <1>3 DEF Receive, FailOp, Conclude, Goto
  <2> QED BY <1>3, <2>1
<1>4. CASE Confirm
  BY <1>4 DEF Confirm, FailOp, Conclude
<1> QED BY <1>1, <1>2, <1>3, <1>4 DEF ClientStep

LEMMA WorkedInit == ASSUME Init PROVE Worked
BY DEF Init, Worked, Sending, Awaiting

LEMMA WorkedStep ==
  ASSUME TypeOK, Shape, Requests, Orderly, Orderly', Worked, Held, Saved, [Next]_vars
  PROVE  Worked'
<1>1. CASE ClientStep
  <2>1. Takes /\ UNCHANGED <<effects, touched>>
    BY <1>1, ClientTakes, ClientFrame
  <2>2. /\ (wire' \in {"sent", "notfound", "rootgone"} /\ op' = FirstOp(cur')) => effects[cur'] = {}
        /\ wire' # "begun" /\ wire' # "ok"
    <3>1. (pc = "send" /\ op = FirstOp(cur)) => effects[cur] = {}
      BY DEF Orderly, Requests, Shape, AtPath
    <3> QED BY <1>1, <3>1, ClientWire
  <2>6. wire' \in {"sent", "begun", "refused"} => op' \notin effects[cur']
    <3>1. pc = "send" => op \notin effects[cur]
      <4>1. pc = "send" => cur \in Paths /\ op \in Ops
        BY DEF Shape, AtPath, TypeOK
      <4>2. Rank(op) \in Nat
        BY RankType DEF TypeOK
      <4>3. pc = "send" => sent[cur][op] = 0
        BY <4>1, <4>2 DEF Requests
      <4> QED BY <4>1, <4>3 DEF Orderly
    <3> QED BY <1>1, <3>1, ClientWire
  <2>3. (pc' = "rootcheck" /\ op' = FirstOp(cur')) => effects[cur'] = {}
    BY <1>1, ClientWire DEF Worked
  <2>4. ASSUME pc' \in Sending, cur' \notin touched, NEW o \in Needed(cur)', Rank(o) < Rank(op)'
        PROVE  o \in CarriedOut(cur)'
    <3>1. pc # "inspect" /\ newDir' = newDir /\ cur' = cur
      BY <2>1, <2>4, NewDirStays DEF Takes, Sending, Awaiting
    <3>2. cur \in Paths /\ o \in Needed(cur) /\ cur \notin touched
      BY <2>1, <2>4, <3>1 DEF Takes, SendingIsAtPath, Shape, Sending, Awaiting, AtPath, Needed
    <3>3. o \in CarriedOut(cur)
      <4>1. CASE pc \in Sending /\ op' = op
        BY <2>4, <3>2, <4>1 DEF Worked, Rank
      <4>2. CASE pc \in {"wait", "observe"} /\ pc' = "send" /\ op' = AfterOp(op) /\ op' \in Ops
        <5>1. op \in CarriedOut(cur)
          BY <1>1, <3>2, <4>2, ClientNextRequest, GoesOnWhenDone
        <5>2. op \in Needed(cur) /\ pc \in Sending
          BY <4>2 DEF Orderly, Sending, Awaiting
        <5>3. Rank(o) <= Rank(op)
          BY <2>4, <3>1, <3>2, <4>2, <5>2, AfterOpNeeds DEF Rank
        <5>4. Rank(o) \in Nat /\ Rank(op) \in Nat
          BY <3>2, <5>2, NeededOps, RankType
        <5>5. CASE Rank(o) = Rank(op)
          BY <3>2, <5>1, <5>2, <5>5, NeededOps
        <5>6. CASE Rank(o) < Rank(op)
          BY <3>2, <5>2, <5>6 DEF Worked
        <5> QED BY <5>3, <5>4, <5>5, <5>6
      <4>3. CASE pc = "backup" /\ op' = FirstOp(cur)
        <5>1. Rank(FirstOp(cur)) \in Nat /\ Rank(o) \in Nat
          BY <3>2, NeededOps, RankType
        <5>2. Rank(o) < Rank(FirstOp(cur))
          BY <2>4, <4>3 DEF Rank
        <5>3. o = FirstOp(cur) \/ Rank(FirstOp(cur)) < Rank(o)
          BY <3>2, NeededOps
        <5> QED BY <5>1, <5>2, <5>3
      <4> QED BY <2>1, <2>4, <3>1, <4>1, <4>2, <4>3 DEF Takes
    <3> QED BY <2>1, <3>1, <3>3 DEF CarriedOut
  <2>5. \A i \in Paths: "write" \in effects[i] => "begin" \in effects[i]
    BY DEF Worked
  <2> QED BY <2>1, <2>2, <2>3, <2>4, <2>5, <2>6 DEF Worked, Rank
<1>2. CASE AgentStep \/ LateStep
  <2>1. /\ cur \in Paths /\ pc = "wait" /\ op \in Ops /\ op \in Needed(cur)
        /\ wire \in {"sent", "begun"}
        /\ Perform(op, cur, wire, wire') /\ UNCHANGED <<touched, raced, read, report, conn, late, client>>
    BY <1>2, AgentIs
  <2>2. UNCHANGED <<newDir, sent, cur, op, pc, touched>>
    BY <2>1 DEF client, read
  <2>3. /\ \A j \in Paths \ {cur}: effects'[j] = effects[j]
        /\ effects' \in [Paths -> SUBSET Effects]
        /\ wire' \in {"begun", "ok", "refused", "notfound", "rootgone"}
        /\ wire' = "begun" => op = "write" /\ wire = "sent" /\ effects'[cur] = effects[cur] \cup {"begin"}
        /\ wire' = "ok" => effects'[cur] = effects[cur] \cup {op} /\ (op = "write" => wire = "begun")
        /\ wire' \in {"refused", "notfound", "rootgone"} => effects' = effects
        /\ wire' \in {"notfound", "rootgone"} => wire = "sent"
    BY <2>1, PerformFrame, PerformResult, PerformAnswer DEF TypeOK
  <2>4. wire' = "begun" => effects[cur] = {}
    BY <2>1, <2>3, NeededOps DEF Worked
  <2>5. \A i \in Paths: "write" \in effects'[i] => "begin" \in effects'[i]
    <3>1. ("write" \in effects'[cur] /\ wire' = "ok" /\ op = "write") => "begin" \in effects'[cur]
      BY <2>3 DEF Worked
    <3> QED BY <2>1, <2>3, <3>1 DEF Worked
  <2>6. \A i \in Paths: effects[i] \subseteq effects'[i]
    BY <2>1, <2>3
  <2>7. \A o: o \in CarriedOut(cur) => o \in CarriedOut(cur)'
    BY <2>1, <2>2, <2>6 DEF CarriedOut
  <2>8. Needed(cur)' = Needed(cur)
    BY <2>2 DEF Needed
  <2>9. ASSUME cur \notin touched, NEW o \in Needed(cur), Rank(o) < Rank(op)
        PROVE  o \in CarriedOut(cur)'
    BY <2>1, <2>7, <2>9 DEF Worked, Sending, Awaiting
  <2>10. (wire' \in {"notfound", "rootgone"} /\ op = FirstOp(cur)) => effects'[cur] = {}
    BY <2>3 DEF Worked
  <2>11. wire' \in {"sent", "begun", "refused"} => op \notin effects'[cur]
    BY <2>1, <2>3 DEF Worked
  <2> QED BY <2>1, <2>2, <2>3, <2>4, <2>5, <2>8, <2>9, <2>10, <2>11 DEF Worked, Rank
<1>3. CASE LateDies \/ LoseConnection \/ UNCHANGED vars
  BY <1>3 DEF LateDies, LoseConnection, vars, Worked, client, route, read, destVars, Needed,
              CarriedOut, Rank
<1>4. CASE OthersStep
  BY <1>4, OthersFrame DEF OthersStep, Worked, client, route, read, TypeOK, Needed, CarriedOut, Rank
<1> QED BY <1>1, <1>2, <1>3, <1>4 DEF Next, Done

----------------------------------------------------------------------------
(***************************************************************************)
(* What a path holds after what was done to it.                            *)
(***************************************************************************)
LEMMA HeldInit == ASSUME Init PROVE Held
BY DestinationAssumption DEF Init, Held, HeldAfter, Paths

LEMMA HeldStep ==
  ASSUME TypeOK, Shape, Requests, Orderly, Worked, Held, [Next]_vars
  PROVE  Held'
<1>1. CASE ClientStep
  <2>1. UNCHANGED <<dest, dir, perm, effects, touched>>
    BY <1>1, ClientFrame
  <2> QED BY <2>1 DEF Held, HeldAfter, FirstEffect
<1>2. CASE AgentStep \/ LateStep
  <2>1. /\ cur \in Paths /\ pc = "wait" /\ op \in Ops /\ op \in Needed(cur)
        /\ wire \in {"sent", "begun"}
        /\ Perform(op, cur, wire, wire') /\ UNCHANGED <<touched, cur, op>>
        /\ DestinationTypeOK
    BY <1>2, AgentIs DEF TypeOK, client
  <2>2. /\ \A j \in Paths \ {cur}: effects'[j] = effects[j] /\ dest'[j] = dest[j]
        /\ wire' \in {"begun", "ok", "refused", "notfound", "rootgone"}
        /\ wire' = "begun" => op = "write" /\ wire = "sent" /\ dest'[cur] = "partial"
             /\ effects'[cur] = effects[cur] \cup {"begin"}
        /\ wire' = "ok" => effects'[cur] = effects[cur] \cup {op}
             /\ (op = "write" => wire = "begun") /\ (op # "write" => wire = "sent")
             /\ (op = "write" /\ dest[cur] = "partial" => dest'[cur] = "new")
             /\ (op = "remove" => dest'[cur] = "absent")
             /\ (op = "link" => dest'[cur] = "newlink")
             /\ (op \in {"chmod", "chmoddir"} => dest'[cur] = dest[cur])
        /\ wire' \in {"refused", "notfound", "rootgone"} => dest' = dest /\ effects' = effects
    BY <2>1, PerformFrame, PerformResult, PerformAnswer
  <2>3. /\ \A j \in Paths: perm'[j] = "set" => perm[j] = "set" \/ (j = cur /\ "chmod" \in effects'[cur])
        /\ perm'[0] = "set" => perm[0] = "set" \/ "chmoddir" \in effects'[cur]
        /\ \A j \in Paths: perm[j] = "set" => perm'[j] = "set" \/ (j = cur /\ op \in {"write", "link"})
        /\ (perm[0] = "set" /\ dir # "absent") => perm'[0] = "set"
        /\ (op = "chmod" /\ wire' = "ok") => perm'[cur] = "set"
        /\ (op = "chmoddir" /\ wire' = "ok") => perm'[0] = "set" /\ dir' # "absent"
        /\ dir # "absent" => dir' = dir
    BY <2>1, PerformPerm, PerformResult
  <2>4. /\ wire = "sent" /\ op = FirstOp(cur) => effects[cur] = {}
        /\ wire = "begun" => op = "write" /\ effects[cur] = {"begin"}
        /\ (cur \notin touched /\ op # FirstOp(cur)) => FirstOp(cur) \in effects[cur]
    <3>1. (cur \notin touched /\ op # FirstOp(cur)) => FirstOp(cur) \in CarriedOut(cur)
      BY <2>1, NeededOps DEF Worked, Sending, Awaiting
    <3>2. FirstOp(cur) \notin {"chmod", "chmoddir"}
      BY <2>1, NeededOps
    <3> QED BY <2>1, <3>1, <3>2 DEF Worked, CarriedOut
  <2>5. /\ op \in {"write", "link"} => "chmod" \notin effects[cur]
        /\ "write" \in effects[cur] => "begin" \in effects[cur]
    BY <2>1 DEF Requests, Orderly, Rank, Awaiting, Ops, Worked
  <2>6. /\ op = "write" => FirstOp(cur) = "write"
        /\ op = "remove" => FirstOp(cur) = "remove"
    BY <2>1, NeededOps
  <2>7. cur \notin touched => dest'[cur] = HeldAfter(cur)'
    <3> SUFFICES ASSUME cur \notin touched PROVE dest'[cur] = HeldAfter(cur)'
      OBVIOUS
    <3>1. CASE wire' = "begun"
      BY <2>1, <2>2, <2>4, <2>6, <3>1 DEF HeldAfter
    <3>2. CASE wire' = "ok" /\ op = "write"
      BY <2>1, <2>2, <2>4, <3>2 DEF Held, HeldAfter
    <3>3. CASE wire' = "ok" /\ op = "remove"
      BY <2>1, <2>2, <2>4, <2>6, <3>3 DEF Held, HeldAfter
    <3>4. CASE wire' = "ok" /\ op = "link"
      BY <2>1, <2>2, <3>4 DEF HeldAfter
    <3>5. CASE wire' = "ok" /\ op \in {"chmod", "chmoddir"}
      BY <2>1, <2>2, <3>5 DEF Held, HeldAfter
    <3>6. CASE wire' \in {"refused", "notfound", "rootgone"}
      BY <2>1, <2>2, <3>6 DEF Held, HeldAfter
    <3> QED BY <2>1, <2>2, <3>1, <3>2, <3>3, <3>4, <3>5, <3>6 DEF Ops
  <2>8. (cur \notin touched /\ effects'[cur] # {}) => FirstEffect(cur) \in effects'[cur]
    <3>1. CASE op = FirstOp(cur)
      BY <2>1, <2>2, <2>4, <3>1 DEF Held, FirstEffect
    <3>2. CASE op # FirstOp(cur)
      BY <2>1, <2>2, <2>4, <2>5, <3>2 DEF FirstEffect
    <3> QED BY <3>1, <3>2
  <2>9. \A j \in Paths: effects[j] \subseteq effects'[j]
    BY <2>1, <2>2
  <2>10. \A j \in Paths \ touched: "chmod" \in effects'[j] => perm'[j] = "set"
    <3>1. "chmod" \in effects'[cur] => "chmod" \in effects[cur] \/ (op = "chmod" /\ wire' = "ok")
      BY <2>2
    <3> QED BY <2>1, <2>2, <2>3, <2>5, <3>1 DEF Held
  <2>11. \A i \in InDir \ touched, j \in Paths:
           "chmoddir" \in effects'[j] => perm'[0] = "set" /\ dir' # "absent"
    <3>1. \A j \in Paths: "chmoddir" \in effects'[j] =>
            "chmoddir" \in effects[j] \/ (op = "chmoddir" /\ wire' = "ok")
      BY <2>1, <2>2
    <3> QED BY <2>3, <3>1 DEF Held
  <2>12. \A j \in Paths: perm'[j] = "set" => "chmod" \in effects'[j]
    BY <2>1, <2>3, <2>9 DEF Held
  <2>13. perm'[0] = "set" => \E j \in Paths: "chmoddir" \in effects'[j]
    BY <2>1, <2>3, <2>9 DEF Held
  <2>14. \A i \in Paths \ touched: effects'[i] # {} => FirstEffect(i) \in effects'[i]
    BY <2>2, <2>8 DEF Held
  <2>15. \A i \in Paths \ touched: dest'[i] = HeldAfter(i)'
    BY <2>1, <2>2, <2>7 DEF Held, HeldAfter
  <2> QED BY ONLY <2>1, <2>10, <2>11, <2>12, <2>13, <2>14, <2>15 DEF Held, FirstEffect
<1>3. CASE LateDies \/ LoseConnection \/ UNCHANGED vars
  BY <1>3 DEF LateDies, LoseConnection, vars, Held, HeldAfter, FirstEffect, destVars
<1>4. CASE OthersStep
  <2>1. /\ effects' = effects /\ touched \subseteq touched'
        /\ \A j \in Paths: j \notin touched' => dest'[j] = dest[j] /\ perm'[j] = perm[j]
        /\ \A j \in 0..N: perm'[j] = "set" => perm[j] = "set"
        /\ \A j \in InDir: j \notin touched' => perm'[0] = perm[0] /\ dir' = dir
    BY <1>4, OthersFrame, OthersPerm DEF OthersStep, TypeOK
  <2>2. 0 \in 0..N /\ \A j \in Paths: j \in 0..N
    BY DestinationAssumption DEF Paths
  <2> QED BY <2>1, <2>2 DEF Held, HeldAfter, FirstEffect
<1> QED BY <1>1, <1>2, <1>3, <1>4 DEF Next, Done

----------------------------------------------------------------------------
(***************************************************************************)
(* What is reported.                                                       *)
(***************************************************************************)
\* The clauses of ReportIsExact for path i, when r and w are reported of it.
Exact(i, r, w) ==
  /\ r = "Done" => Needed(i) \subseteq CarriedOut(i)
  /\ w = "notdone" => ~(Needed(i) \subseteq CarriedOut(i))
  /\ w = "partial" => "begin" \in effects[i] /\ "write" \notin effects[i]
  /\ r = "Failed" => effects[i] \subseteq Attempted(i, w)
  /\ r = "FailedAfterChange" => w = "partial" \/ FirstOp(i) \in effects[i]

\* Path cur gets a result that is exact.
Tells == \E r, w: Conclude(r, w) /\ (cur \notin touched => Exact(cur, r, w))

\* With the path's first request in hand, at most that one was worked on.
LEMMA OnlyTheFirst ==
  ASSUME TypeOK, Shape, Requests, Orderly, pc \in Sending, op = FirstOp(cur)
  PROVE  /\ effects[cur] \subseteq Attempted(cur, "unknown")
         /\ op \notin effects[cur] => effects[cur] \subseteq Attempted(cur, "refused")
<1>1. cur \in Paths
  BY SendingIsAtPath DEF Shape
<1>2. \A o \in Ops: sent[cur][o] # 0 => o = FirstOp(cur)
  <2>1. CASE pc = "send"
    BY <1>1, <2>1 DEF Orderly, Untried
  <2>2. CASE pc # "send"
    <3>1. \A o \in Ops: sent[cur][o] # 0 => o \in Needed(cur) /\ ~(Rank(o) > Rank(op))
      BY <1>1, <2>2 DEF Orderly, Requests, Sending, Awaiting
    <3>2. \A o \in Needed(cur): o # FirstOp(cur) => Rank(FirstOp(cur)) < Rank(o)
      BY <1>1, NeededOps
    <3>3. \A o \in Ops: Rank(o) \in Nat
      BY RankType
    <3>4. FirstOp(cur) \in Ops
      BY <1>1, NeededOps
    <3> QED BY <3>1, <3>2, <3>3, <3>4
  <2> QED BY <2>1, <2>2
<1>3. \A o \in effects[cur]: o = FirstOp(cur) \/ (o = "begin" /\ FirstOp(cur) = "write")
  <2>1. effects[cur] \subseteq Ops \cup {"begin"}
    BY <1>1 DEF TypeOK, DestinationTypeOK, Effects
  <2>2. "write" \in Ops
    BY DEF Ops
  <2> QED BY <1>1, <1>2, <2>1, <2>2 DEF Orderly
<1> QED BY <1>3 DEF Attempted

\* Every request of the path before the one in hand left a trace of its first one.
LEMMA EarlierIsDone ==
  ASSUME TypeOK, Shape, Orderly, Worked, pc \in Sending, cur \notin touched, op # FirstOp(cur)
  PROVE  FirstOp(cur) \in effects[cur]
<1>1. cur \in Paths /\ op \in Needed(cur)
  BY SendingIsAtPath DEF Shape, Orderly
<1>2. FirstOp(cur) \in CarriedOut(cur) /\ FirstOp(cur) \notin {"chmod", "chmoddir"}
  BY <1>1, NeededOps DEF Worked
<1> QED BY <1>2 DEF CarriedOut

LEMMA FailOpTells ==
  ASSUME TypeOK, Shape, Requests, Orderly, Worked, pc \in Sending, NEW w, FailOp(w),
         (op = FirstOp(cur) /\ cur \notin touched /\ w \notin {"unknown", "partial"})
           => \/ effects[cur] = {}
              \/ w = "refused" /\ op \notin effects[cur],
         (w = "notdone" /\ cur \notin touched) => op \notin CarriedOut(cur),
         (w = "partial" /\ cur \notin touched) => "begin" \in effects[cur] /\ "write" \notin effects[cur]
  PROVE  Tells
<1>1. cur \in Paths /\ op \in Needed(cur)
  BY SendingIsAtPath DEF Shape, Orderly
<1>2. PICK r: /\ Conclude(r, w) /\ r \in {"Failed", "FailedAfterChange"}
              /\ r = "Failed" <=> ~(op \in {"chmod", "chmoddir"} \/ (op = "link" /\ Replaces(cur)) \/ w = "partial")
  BY DEF FailOp
<1>3. op = FirstOp(cur) <=> ~(op \in {"chmod", "chmoddir"} \/ (op = "link" /\ Replaces(cur)))
  BY <1>1, NeededOps
<1>4. cur \notin touched => Exact(cur, r, w)
  <2> SUFFICES ASSUME cur \notin touched PROVE Exact(cur, r, w)
    OBVIOUS
  <2>1. r = "Failed" => effects[cur] \subseteq Attempted(cur, w)
    BY <1>2, <1>3, OnlyTheFirst
  <2>2. r = "FailedAfterChange" => w = "partial" \/ FirstOp(cur) \in effects[cur]
    BY <1>2, <1>3, EarlierIsDone
  <2>3. w = "notdone" => ~(Needed(cur) \subseteq CarriedOut(cur))
    BY <1>1
  <2> QED BY <1>2, <2>1, <2>2, <2>3 DEF Exact
<1> QED BY <1>2, <1>4 DEF Tells

\* "done" is reported when the last request needed was carried out.
LEMMA ProceedTells ==
  ASSUME TypeOK, Shape, Orderly, Worked, pc \in Sending, Proceed,
         cur \notin touched => op \in CarriedOut(cur)
  PROVE  UNCHANGED report \/ Tells
<1>1. cur \in Paths /\ op \in Needed(cur)
  BY SendingIsAtPath DEF Shape, Orderly
<1>2. CASE AfterOp(op) = "finished" /\ Conclude("Done", "none")
  <2>1. ASSUME cur \notin touched, NEW o \in Needed(cur) PROVE o \in CarriedOut(cur)
    <3>1. Rank(o) <= Rank(op)
      BY <1>1, <1>2, AfterOpNeeds
    <3>2. Rank(o) \in Nat /\ Rank(op) \in Nat
      BY <1>1, NeededOps, RankType
    <3>3. CASE Rank(o) = Rank(op)
      BY <1>1, <2>1, <3>3, NeededOps
    <3>4. CASE Rank(o) < Rank(op)
      BY <2>1, <3>4 DEF Worked
    <3> QED BY <3>1, <3>2, <3>3, <3>4
  <2> QED BY <1>2, <2>1 DEF Tells, Exact
<1>3. CASE Conclude("FailedAfterChange", IF op = "remove" THEN "stopped" ELSE "mode")
  <2>1. cur \notin touched => FirstOp(cur) \in effects[cur]
    <3>1. op = FirstOp(cur) => op \notin {"chmoddir"}
      BY <1>1, NeededOps
    <3> QED BY <3>1, EarlierIsDone DEF CarriedOut
  <2> QED BY <1>3, <2>1 DEF Tells, Exact
<1>4. CASE UNCHANGED report
  BY <1>4
<1> QED BY <1>2, <1>3, <1>4 DEF Proceed, report

\* Before a request is sent nothing was done to the path, and a failure says so.
LEMMA EarlyTells ==
  ASSUME TypeOK, Shape, Requests, pc \in BeforeSending, cur \in Paths,
         NEW r \in {"Failed", "Planned"}, NEW w \in Reasons \ {"notdone", "partial"}, Conclude(r, w)
  PROVE  Tells
<1>1. effects[cur] = {}
  BY DEF Requests
<1> QED BY <1>1 DEF Tells, Exact

LEMMA ClientTells ==
  ASSUME TypeOK, Shape, Requests, Orderly, Worked, Held, Saved, ClientStep
  PROVE  \/ UNCHANGED report
         \/ Tells
         \/ Abandons /\ \A i \in Paths: why'[i] \notin {"notdone", "partial"}
<1>0. /\ pc \in AtPath => cur \in Paths
      /\ Sending = {"send", "wait", "rootcheck", "confirm", "observe"}
  BY DEF Shape, Sending, Awaiting
<1>1. CASE Inspect \/ ReadBackups \/ BatchRefused
  BY <1>1 DEF Inspect, ReadBackups, BatchRefused, FailAll, Goto, Abandons
<1>2. CASE TakeNext
  <2>1. cur <= N => cur \in Paths
    BY DestinationAssumption DEF Paths, TypeOK
  <2> QED BY <1>2, <2>1, EarlyTells DEF TakeNext, BeforeSending, Reasons
<1>3. CASE RelistRefused \/ Relist \/ Rehash
  BY <1>0, <1>3, EarlyTells DEF RelistRefused, Relist, Rehash, BeforeSending, AtPath, Reasons
<1>4. CASE BackUp \/ BackUpFails
  BY <1>0, <1>4, EarlyTells DEF BackUp, BackUpFails, BeforeSending, AtPath, Reasons, report
<1>5. CASE SendRefused
  <2>1. op = FirstOp(cur) => effects[cur] = {}
    BY <1>0, <1>5 DEF SendRefused, Orderly, Requests, AtPath
  <2> QED BY <1>0, <1>5, <2>1, FailOpTells DEF SendRefused
<1>6. CASE Send
  BY <1>6 DEF Send, report
<1>7. CASE Receive
  <2>1. pc \in Sending
    BY <1>0, <1>7 DEF Receive
  <2>2. CASE wire = "ok" /\ Proceed
    BY <1>7, <2>1, <2>2, GoesOnWhenDone, ProceedTells
  <2>3. CASE wire = "refused" /\ FailOp("refused")
    BY <2>1, <2>3, FailOpTells DEF Worked
  <2>4. CASE wire = "rootgone" /\ FailOp("rootgone")
    BY <2>1, <2>4, FailOpTells DEF Worked
  <2>5. CASE UNCHANGED report
    BY <2>5
  <2> QED BY <1>7, <2>2, <2>3, <2>4, <2>5 DEF Receive, report
<1>8. CASE RootCheck
  <2>1. op = FirstOp(cur) => effects[cur] = {}
    BY <1>8 DEF RootCheck, Worked
  <2> QED BY <1>0, <1>8, <2>1, FailOpTells DEF RootCheck
<1>9. CASE ReconnectToRead \/ LoseChange \/ ReconnectToConfirm
  BY <1>9 DEF ReconnectToRead, LoseChange, ReconnectToConfirm
<1>10. CASE GiveUpRead
  <2>1. CASE pc = "inspect" /\ FailAll(1, "read", "read")
    BY <1>10, <2>1 DEF GiveUpRead, FailAll, Goto, Abandons
  <2>2. CASE UNCHANGED report
    BY <2>2
  <2>3. CASE pc \in {"relist", "rehash"} /\ Conclude("Failed", "read")
    BY <1>0, <2>3, EarlyTells DEF BeforeSending, AtPath, Reasons
  <2>4. CASE pc = "rootcheck" /\ FailOp("refused")
    BY <1>0, <2>4, FailOpTells DEF Worked
  <2> QED BY <1>10, <2>1, <2>2, <2>3, <2>4 DEF GiveUpRead
<1>11. CASE Confirm
  <2>1. pc = "observe" /\ pc \in Sending /\ cur \in Paths /\ op \in Needed(cur) /\ op \in Ops
    BY <1>0, <1>11 DEF Confirm, AtPath, Orderly, TypeOK
  <2>2. CASE Judge(op, cur) = "done" /\ Proceed
    BY <1>11, <2>1, <2>2, GoesOnWhenDone, ProceedTells
  <2>3. CASE Judge(op, cur) # "done" /\ FailOp(Judge(op, cur))
    BY <2>1, <2>3, JudgeRange, JudgeKnows, FailOpTells
  <2> QED BY <1>11, <2>2, <2>3 DEF Confirm
<1>12. CASE ConfirmFails
  BY <1>0, <1>12, FailOpTells DEF ConfirmFails
<1> QED
  BY <1>1, <1>2, <1>3, <1>4, <1>5, <1>6, <1>7, <1>8, <1>9, <1>10, <1>11, <1>12 DEF ClientStep

LEMMA ExactInit == ASSUME Init PROVE ReportIsExact
BY DEF Init, ReportIsExact

LEMMA ExactStep ==
  ASSUME TypeOK, Shape, Requests, AfterStop, Orderly, Worked, Held, Saved, ReportIsExact, [Next]_vars
  PROVE  ReportIsExact'
<1>0. /\ \A i \in Paths \ touched: Exact(i, result[i], why[i])
      /\ (\A i \in Paths \ touched': Exact(i, result[i], why[i])') => ReportIsExact'
  BY DEF ReportIsExact, Exact
<1>1. pc = "inspect" => \A i \in Paths: effects[i] = {} /\ result[i] = "pending" /\ why[i] = "none"
  BY DEF Requests, Shape, BeforeSending, AfterStop, Paths
<1>2. CASE ClientStep
  <2>1. UNCHANGED <<effects, touched>>
    BY <1>2, ClientFrame
  <2>2. CASE UNCHANGED report
    <3>1. CASE newDir' = newDir
      BY <1>0, <2>1, <2>2, <3>1 DEF Exact, Needed, CarriedOut, report
    <3>2. CASE pc = "inspect"
      BY <1>0, <1>1, <2>1, <2>2, <3>2 DEF Exact, report
    <3> QED BY <3>1, <3>2, NewDirStays
  <2>3. CASE Tells
    <3>1. PICK r, w: Conclude(r, w) /\ (cur \notin touched => Exact(cur, r, w))
      BY <2>3 DEF Tells
    <3>2. newDir' = newDir
      BY <3>1, NewDirStays DEF Conclude, TypeOK
    <3>3. \A i \in Paths: IF i = cur THEN result'[i] = r /\ why'[i] = w
                                     ELSE result'[i] = result[i] /\ why'[i] = why[i]
      BY <3>1 DEF Conclude, TypeOK, ReportTypeOK
    <3> QED BY <1>0, <2>1, <3>1, <3>2, <3>3 DEF Exact, Needed, CarriedOut
  <2>4. CASE Abandons /\ \A i \in Paths: why'[i] \notin {"notdone", "partial"}
    <3>1. \A i \in Paths: effects[i] = {} /\ result'[i] = "Failed"
      BY <2>4 DEF Abandons, Requests, Shape, BeforeSending, Paths
    <3> QED BY <1>0, <2>1, <2>4, <3>1 DEF Exact
  <2> QED BY <1>2, <2>2, <2>3, <2>4, ClientTells
<1>3. CASE AgentStep \/ LateStep
  <2>1. /\ cur \in Paths /\ pc = "wait" /\ op \in Ops
        /\ Perform(op, cur, wire, wire') /\ UNCHANGED <<touched, raced, read, report, conn, late, client>>
    BY <1>3, AgentIs
  <2>2. /\ \A j \in Paths \ {cur}: effects'[j] = effects[j]
        /\ \A j \in Paths: effects[j] \subseteq effects'[j]
    BY <2>1, PerformFrame, PerformResult, PerformAnswer DEF TypeOK
  <2>3. UNCHANGED <<newDir, touched, result, why>>
    BY <2>1 DEF read, report
  <2>4. \A i \in Paths: why[i] # "notdone"
    BY <2>1 DEF AfterStop, StopReasons, Paths
  <2>5. result[cur] = "pending" /\ why[cur] = "none"
    BY <2>1 DEF AfterStop, Paths
  <2>6. ASSUME NEW i \in Paths \ touched PROVE Exact(i, result[i], why[i])'
    <3>1. Needed(i)' = Needed(i) /\ CarriedOut(i) \subseteq CarriedOut(i)'
      BY <2>2, <2>3 DEF Needed, CarriedOut
    <3>2. CASE i = cur
      BY <2>3, <2>5, <3>2 DEF Exact
    <3>3. CASE i # cur
      BY <1>0, <2>2, <2>3, <2>4, <3>1, <3>3 DEF Exact
    <3> QED BY <3>2, <3>3
  <2> QED BY <1>0, <2>3, <2>6
<1>4. CASE LateDies \/ LoseConnection \/ UNCHANGED vars
  BY <1>0, <1>4 DEF LateDies, LoseConnection, vars, Exact, Needed, CarriedOut, read, report, destVars
<1>5. CASE OthersStep
  BY <1>0, <1>5, OthersFrame DEF OthersStep, Exact, Needed, CarriedOut, read, report, TypeOK
<1> QED BY <1>2, <1>3, <1>4, <1>5 DEF Next, Done

----------------------------------------------------------------------------
(***************************************************************************)
(* The theorems.                                                           *)
(***************************************************************************)
\* IInv holds throughout: the argument every theorem below rests on.
THEOREM Invariance == Spec => []IInv
<1>1. Init => IInv
  BY TypeInit, RequestsInit, AfterStopInit, UnchangedInit, SavedInit DEF IInv
<1>2. IInv /\ [Next]_vars => IInv'
  BY TypeStep, RequestsStep, AfterStopStep, UnchangedStep, SavedStep DEF IInv
<1> QED BY <1>1, <1>2, PTL DEF Spec

\* Every variable keeps its type, and a second try is only ever pending for a read.
THEOREM TypeCorrect == Spec => []TypeOK
<1>1. IInv => TypeOK
  BY DEF IInv
<1> QED BY <1>1, Invariance, PTL

\* A change whose answer is lost is never sent again (change_on_route).
THEOREM ChangesAreSentAtMostOnce == Spec => []AtMostOnce
<1>1. IInv => AtMostOnce
  BY DEF IInv, Requests
<1> QED BY <1>1, Invariance, PTL

\* After a stop at one path nothing is done to the paths after it.
THEOREM StopProtectsLaterPaths == Spec => []LaterPathsUntouched
<1>1. IInv => LaterPathsUntouched
  BY DEF IInv, AfterStop, Requests, LaterPathsUntouched, StopReasons
<1> QED BY <1>1, Invariance, PTL

\* With backups on, a copy is saved before anything is changed.
THEOREM BackupComesFirst == Spec => []BackedUpBeforeChange
<1>1. IInv => BackedUpBeforeChange
  BY DEF IInv, Saved, Requests, Kept, BackedUpBeforeChange
<1> QED BY <1>1, Invariance, PTL

\* A dry run sends no change.
THEOREM DryRunIsHarmless == Spec => []DryRunSendsNothing
<1> DEFINE Quiet == dryRun => \A p \in Paths: Untried(p)
<1>1. Init => Quiet
  BY DEF Init, Untried
<1>2. IInv /\ Quiet /\ [Next]_vars => Quiet'
  <2> SUFFICES ASSUME IInv, Quiet, [Next]_vars, dryRun PROVE \A p \in Paths: Untried(p)'
    BY DryRunStays
  <2>1. CASE ClientStep
    BY <2>1, ClientMoves, MovesSends DEF IInv, Shape, AtPath
  <2>2. CASE ~ClientStep
    BY <2>2 DEF Next, AgentStep, LateStep, LateDies, LoseConnection, OthersStep, Done, vars, client, Untried
  <2> QED BY <2>1, <2>2
<1>3. Quiet => DryRunSendsNothing
  BY DEF DryRunSendsNothing, Untried
<1> QED BY <1>1, <1>2, <1>3, Invariance, PTL DEF Spec

\* A side that is stopped is sent no change any more.
THEOREM StopIsFinal == Spec => NoRequestAfterStop
<1>1. IInv /\ [Next]_vars => (stopped # "no" => sent' = sent)
  <2> SUFFICES ASSUME IInv, [Next]_vars, stopped # "no" PROVE sent' = sent
    OBVIOUS
  <2>1. CASE ClientStep
    BY <2>1 DEF ClientStep, Inspect, ReadBackups, BatchRefused, TakeNext, RelistRefused, Relist,
        Rehash, BackUp, BackUpFails, SendRefused, Send, Receive, RootCheck, ReconnectToRead,
        GiveUpRead, LoseChange, ReconnectToConfirm, Confirm, ConfirmFails, Asked
  <2>2. CASE ~ClientStep
    BY <2>2 DEF Next, AgentStep, LateStep, LateDies, LoseConnection, OthersStep, Done, vars, client
  <2> QED BY <2>1, <2>2
<1>2. IInv /\ [Next]_vars => [stopped # "no" => sent' = sent]_vars
  BY <1>1
<1> QED BY <1>2, Invariance, PTL DEF Spec, NoRequestAfterStop

\* The first thing done to a path is done to the state that was compared, unless
\* others changed the path after its recheck began.
THEOREM FirstChangeIsToTheComparedState == Spec => ChangesOnlyWhatWasCompared
<1>1. ASSUME IInv, Next, NEW i \in Paths, effects[i] = {}, effects'[i] # {}, i \notin raced
      PROVE  dest[i] = Compared[i]
  <2>1. AgentStep \/ LateStep
    <3>1. ClientStep => UNCHANGED effects
      BY ClientFrame
    <3>2. OthersStep => UNCHANGED effects
      BY <1>1, OthersFrame DEF OthersStep, IInv, TypeOK
    <3>3. LateDies \/ LoseConnection \/ Done => UNCHANGED effects
      BY DEF LateDies, LoseConnection, Done, vars, destVars
    <3> QED BY <1>1, <3>1, <3>2, <3>3 DEF Next
  <2>2. ~Untried(i)
    BY <1>1, <2>1, AgentFrame DEF IInv, Untried
  <2> QED BY <1>1, <2>2 DEF IInv, Unchanged
<1>2. IInv /\ [Next]_vars =>
        [\A i \in Paths: (effects[i] = {} /\ effects'[i] # {} /\ i \notin raced)
                             => dest[i] = Compared[i]]_vars
  BY <1>1
<1> QED BY <1>2, Invariance, PTL DEF Spec, ChangesOnlyWhatWasCompared

\* If nobody else worked on a path, its report tells what was done to it whatever
\* was lost on the way, for any number of paths (judge, is_partially_written,
\* AfterChange), unless an agent outlives its connection.  A plain failure means
\* that nothing was done, but for a refused write, which may have cut the file
\* short, and a change whose answer was lost and that could not be observed: at
\* most the path's first change was then begun or carried out.
THEOREM ReportsAreExact == ASSUME ~OldAgentOutlives PROVE Spec => []ReportIsExact
<1> DEFINE Inv == Orderly /\ Worked /\ Held /\ ReportIsExact
<1>1. Init => Inv
  BY OrderlyInit, WorkedInit, HeldInit, ExactInit
<1>2. IInv /\ Inv /\ [Next]_vars => Inv'
  <2> SUFFICES ASSUME IInv, Inv, [Next]_vars PROVE Inv'
    OBVIOUS
  <2>1. Orderly'
    BY OrderlyStep DEF IInv
  <2> QED BY <2>1, WorkedStep, HeldStep, ExactStep DEF IInv
<1>3. Inv => ReportIsExact
  OBVIOUS
<1> QED BY <1>1, <1>2, <1>3, Invariance, PTL DEF Spec

(***************************************************************************)
(* MergeApply does what MergePromise says: every step of the command is a  *)
(* step of the promise, or changes nothing it speaks of.  Besides IInv     *)
(* this needs that the paths before the current one have their results,    *)
(* and that a request that is not the first of its path comes after one    *)
(* that was made.                                                          *)
(***************************************************************************)
Turns ==
  /\ pc # "done" => \A j \in Paths: j < cur => result[j] # "pending"
  /\ pc = "send" => op = FirstOp(cur) \/ ~Untried(cur)

Results == {"Planned", "Done", "Failed", "FailedAfterChange"}

\* The current path gets its result.
Settling ==
  /\ cur \in Paths /\ cur' = cur + 1 /\ pc # "done" /\ pc' = "next"
  /\ \E r \in Results:
       /\ result' = [result EXCEPT ![cur] = r]
       /\ r = "Planned" => dryRun
       /\ r \in {"Done", "FailedAfterChange"} => ~Untried(cur)
  /\ UNCHANGED <<sent, saved>>

\* All paths fail at once.
Refusing ==
  /\ pc \in {"inspect", "backupRead"} /\ pc' = "done"
  /\ result' = [i \in Paths |-> "Failed"]
  /\ UNCHANGED <<sent, saved>>

\* Nothing is asked for, saved or reported.
Quietly ==
  /\ pc # "done" /\ UNCHANGED <<cur, result, sent, saved>>
  /\ pc' = "send" => ~Untried(cur)

LEMMA ConcludeIsSettling ==
  ASSUME cur \in Paths, pc # "done", NEW r \in Results, NEW w, Conclude(r, w),
         r = "Planned" => dryRun,
         r \in {"Done", "FailedAfterChange"} => ~Untried(cur),
         UNCHANGED <<sent, saved>>
  PROVE  Settling
BY DEF Conclude, Settling

\* A failure of a later request of a path is one after a change was asked for.
LEMMA FailOpIsSettling ==
  ASSUME TypeOK, cur \in Paths, pc # "done", NEW w, FailOp(w), UNCHANGED <<sent, saved>>,
         ~Untried(cur) \/ (op = FirstOp(cur) /\ w # "partial")
  PROVE  Settling
<1>1. FirstOp(cur) \in {"write", "remove", "link"} /\ (Replaces(cur) => FirstOp(cur) = "remove")
  BY MergeApplyAssumption DEF FirstOp, Replaces
<1>2. CASE ~Untried(cur)
  <2>1. PICK r \in {"Failed", "FailedAfterChange"}: Conclude(r, w)
    BY DEF FailOp
  <2> QED BY <1>2, <2>1, ConcludeIsSettling DEF Results
<1>3. CASE op = FirstOp(cur) /\ w # "partial"
  <2>1. Conclude("Failed", w)
    BY <1>1, <1>3 DEF FailOp
  <2> QED BY <2>1, ConcludeIsSettling DEF Results
<1> QED BY <1>2, <1>3

LEMMA ProceedIsSettling ==
  ASSUME cur \in Paths, pc # "done", Proceed, ~Untried(cur), UNCHANGED <<sent, saved>>
  PROVE  Settling \/ Quietly
<1>1. CASE \E r \in {"Done", "FailedAfterChange"}, w \in Reasons: Conclude(r, w)
  BY <1>1, ConcludeIsSettling DEF Results
<1>2. CASE pc' = "send" /\ UNCHANGED <<cur, report>>
  BY <1>2 DEF Quietly, report
<1> QED BY <1>1, <1>2 DEF Proceed, Reasons

LEMMA ClientSettles ==
  ASSUME IInv, Turns, ClientStep, ~Send, ~BackUp
  PROVE  Settling \/ Refusing \/ Quietly
<1>0. /\ TypeOK
      /\ pc \in AtPath => cur \in Paths /\ ~dryRun
      /\ pc \in Awaiting => ~Untried(cur)
      /\ cur <= N => cur \in Paths
  <2>1. pc \in Awaiting => cur \in Paths /\ sent[cur][op] # 0 /\ op \in Ops
    BY DEF IInv, Shape, Requests, TypeOK, Awaiting, AtPath
  <2>2. cur <= N => cur \in Paths
    BY DestinationAssumption DEF Paths, IInv, TypeOK
  <2> QED BY <2>1, <2>2 DEF IInv, Shape, Untried
<1>1. CASE Inspect
  BY <1>1 DEF Inspect, FailAll, Goto, Refusing, Quietly, report
<1>2. CASE ReadBackups
  BY <1>2 DEF ReadBackups, FailAll, Goto, Refusing, Quietly, report
<1>3. CASE BatchRefused
  BY <1>3 DEF BatchRefused, FailAll, Goto, Refusing, Quietly, report
<1>4. CASE TakeNext
  BY <1>0, <1>4, ConcludeIsSettling DEF TakeNext, OnlyPlanned, Goto, Quietly, report, Results
<1>5. CASE RelistRefused
  BY <1>0, <1>5, ConcludeIsSettling DEF RelistRefused, Results, AtPath
<1>6. CASE Relist
  BY <1>0, <1>6, ConcludeIsSettling DEF Relist, Goto, Quietly, report, Results, AtPath
<1>7. CASE Rehash
  BY <1>0, <1>7, ConcludeIsSettling DEF Rehash, Goto, Quietly, report, Results, AtPath
<1>8. CASE BackUpFails
  BY <1>0, <1>8, ConcludeIsSettling DEF BackUpFails, Results, AtPath
<1>9. CASE SendRefused
  BY <1>0, <1>9, FailOpIsSettling DEF SendRefused, AtPath, Turns
<1>10. CASE Receive
  BY <1>0, <1>10, FailOpIsSettling, ProceedIsSettling
     DEF Receive, Goto, Quietly, report, AtPath, Awaiting
<1>11. CASE RootCheck
  BY <1>0, <1>11, FailOpIsSettling DEF RootCheck, AtPath, Awaiting
<1>12. CASE ReconnectToRead
  BY <1>12 DEF ReconnectToRead, ReadPcs, Quietly, report
<1>13. CASE GiveUpRead
  BY <1>0, <1>13, ConcludeIsSettling, FailOpIsSettling
     DEF GiveUpRead, ReadPcs, FailAll, Goto, Refusing, Quietly, report, Results, AtPath, Awaiting
<1>14. CASE LoseChange
  BY <1>14 DEF LoseChange, Goto, Quietly, report
<1>15. CASE ReconnectToConfirm
  BY <1>15 DEF ReconnectToConfirm, Goto, Quietly, report
<1>16. CASE Confirm
  BY <1>0, <1>16, FailOpIsSettling, ProceedIsSettling DEF Confirm, AtPath, Awaiting
<1>17. CASE ConfirmFails
  BY <1>0, <1>17, FailOpIsSettling DEF ConfirmFails, AtPath, Awaiting
<1> QED
  BY <1>1, <1>2, <1>3, <1>4, <1>5, <1>6, <1>7, <1>8, <1>9, <1>10, <1>11, <1>12, <1>13, <1>14,
     <1>15, <1>16, <1>17 DEF ClientStep

\* The stop mark is never taken back.
LEMMA StopStays == ASSUME ClientStep, stopped # "no" PROVE stopped' # "no"
BY DEF ClientStep, Inspect, ReadBackups, BatchRefused, TakeNext, RelistRefused, Relist, Rehash,
       BackUp, BackUpFails, SendRefused, Send, Receive, RootCheck, ReconnectToRead, GiveUpRead,
       LoseChange, ReconnectToConfirm, Confirm, ConfirmFails, Stop

\* What agents, the connection and others do is nothing the promise speaks of.
LEMMA OtherStepsAreQuiet ==
  ASSUME [Next]_vars, ~ClientStep
  PROVE  UNCHANGED <<pc, cur, op, result, sent, saved, stopped>>
BY DEF Next, AgentStep, LateStep, LateDies, LoseConnection, OthersStep, Done, vars, client, report

LEMMA TurnsStep == ASSUME IInv, Turns, [Next]_vars PROVE Turns'
<1>0. TypeOK
  BY DEF IInv
<1>1. CASE ClientStep /\ ~Send /\ ~BackUp
  <2>1. CASE Settling
    <3>1. PICK r \in Results: result' = [result EXCEPT ![cur] = r]
      BY <2>1 DEF Settling
    <3>2. cur' = cur + 1 /\ cur \in Paths /\ pc # "done" /\ pc' = "next"
      BY <2>1 DEF Settling
    <3>3. ASSUME NEW j \in Paths, j < cur' PROVE result'[j] # "pending"
      <4>1. j = cur \/ j < cur
        BY <3>2, <3>3, DestinationAssumption DEF Paths
      <4> QED BY <1>0, <3>1, <3>2, <4>1 DEF Turns, Results, TypeOK, ReportTypeOK
    <3> QED BY <3>2, <3>3 DEF Turns
  <2>2. CASE Refusing
    BY <2>2 DEF Refusing, Turns
  <2>3. CASE Quietly
    BY <2>3 DEF Quietly, Turns, Untried
  <2> QED BY <1>1, <2>1, <2>2, <2>3, ClientSettles
<1>2. CASE Send
  BY <1>2 DEF Send, Goto, Turns, report
<1>3. CASE BackUp
  BY <1>3 DEF BackUp, Turns, report, FirstOp
<1>4. CASE ~ClientStep
  BY <1>4, OtherStepsAreQuiet DEF Turns, Untried, FirstOp
<1> QED BY <1>1, <1>2, <1>3, <1>4

----------------------------------------------------------------------------
(***************************************************************************)
(* The steps of the promise.                                               *)
(***************************************************************************)
Order == [write |-> 1, remove |-> 1, link |-> 2, chmoddir |-> 3, chmod |-> 4]

LEMMA OrderIsRank == DOMAIN Order = Ops /\ \A o \in Ops: Order[o] = Rank(o)
BY DEF Order, Rank, Ops

\* The current path has its turn.
LEMMA CurHasTurn ==
  ASSUME IInv, Turns, cur \in Paths, pc # "done" PROVE Promise!Turn(cur)
<1>1. result[cur] = "pending"
  BY DestinationAssumption DEF IInv, AfterStop, Paths
<1> QED BY <1>1 DEF Turns, Promise!Turn

LEMMA SettlingIsSettle ==
  ASSUME IInv, Turns, Settling, dryRun' = dryRun, stopped # "no" => stopped' # "no"
  PROVE  Promise!Next
<1>1. PICK r \in Results:
         /\ result' = [result EXCEPT ![cur] = r]
         /\ r = "Planned" => dryRun
         /\ r \in {"Done", "FailedAfterChange"} => ~Untried(cur)
  BY DEF Settling
<1>2. cur \in Paths /\ Promise!Turn(cur) /\ UNCHANGED <<sent, saved>>
  BY CurHasTurn DEF Settling
<1>3. ~Untried(cur) => ~Promise!Nothing(cur)
  BY OrderIsRank DEF Untried, Promise!Nothing, Order
<1>4. Promise!MayHold
  BY DEF Promise!MayHold
<1>5. Promise!Settle(cur, r)
  BY <1>1, <1>2, <1>3, <1>4 DEF Promise!Settle
<1> QED BY <1>2, <1>5 DEF Promise!Next, Results

LEMMA RefusingIsRefuseAll ==
  ASSUME IInv, Refusing, dryRun' = dryRun, stopped # "no" => stopped' # "no"
  PROVE  Promise!Next
<1>1. cur = 1 /\ pc # "done"
  BY DEF Refusing, IInv, Shape
<1>2. ASSUME NEW i \in Paths PROVE result[i] = "pending" /\ Promise!Nothing(i)
  <2>1. i >= cur
    BY <1>1, DestinationAssumption DEF Paths
  <2>2. result[i] = "pending"
    BY <1>1, <2>1 DEF IInv, AfterStop
  <2>3. Untried(i)
    <3>1. i > cur \/ i = cur
      BY <1>1, <2>1, DestinationAssumption DEF Paths
    <3> QED BY <3>1 DEF IInv, Requests, Refusing, BeforeSending
  <2> QED BY <2>2, <2>3, OrderIsRank DEF Untried, Promise!Nothing, Order
<1>3. Promise!MayHold
  BY DEF Promise!MayHold
<1>4. Promise!RefuseAll
  BY <1>2, <1>3 DEF Promise!RefuseAll, Refusing
<1> QED BY <1>4 DEF Promise!Next

LEMMA BackUpIsKeep ==
  ASSUME IInv, Turns, BackUp, dryRun' = dryRun
  PROVE  Promise!Next \/ UNCHANGED Promise!promised
<1>1. /\ cur \in Paths /\ ~dryRun /\ pc # "done" /\ Untried(cur)
      /\ saved \in [Paths -> Entries \cup {"none"}]
      /\ UNCHANGED <<result, sent, stopped>>
  BY DEF BackUp, IInv, Shape, Requests, TypeOK, AtPath, BeforeSending, report
<1>2. CASE UNCHANGED saved
  BY <1>1, <1>2 DEF Promise!promised
<1>3. CASE BackupEntry(cur) # "none" /\ saved' = [saved EXCEPT ![cur] = BackupEntry(cur)]
  <2>1. {i \in Paths: saved'[i] # "none"} = {i \in Paths: saved[i] # "none"} \cup {cur}
    BY <1>1, <1>3
  <2>2. Promise!Nothing(cur)
    BY <1>1, OrderIsRank DEF Untried, Promise!Nothing, Order
  <2>3. Promise!Keep(cur)
    BY <1>1, <2>1, <2>2, CurHasTurn DEF Promise!Keep
  <2>4. \E i \in Paths: Promise!Keep(i)
    BY <1>1, <2>3 DEF Promise!Keep
  <2> QED BY <2>4 DEF Promise!Next
<1> QED BY <1>2, <1>3 DEF BackUp

LEMMA SendIsAsk ==
  ASSUME IInv, Turns, Send, dryRun' = dryRun
  PROVE  Promise!Next
<1>1. /\ cur \in Paths /\ ~dryRun /\ pc = "send" /\ stopped = "no" /\ op \in Ops
      /\ sent \in [Paths -> [Ops -> Nat]]
      /\ UNCHANGED <<result, saved, stopped>>
      /\ sent' = [sent EXCEPT ![cur][op] = @ + 1]
  BY DEF Send, IInv, Shape, TypeOK, AtPath, report, Asked
<1>2. \A o \in Ops: Rank(o) >= Rank(op) => sent[cur][o] = 0
  BY <1>1 DEF IInv, Requests
<1>3. sent[cur][op] = 0 /\ sent' = [sent EXCEPT ![cur][op] = 1]
  <2>1. sent[cur][op] = 0
    BY <1>1, <1>2, RankType
  <2> QED BY <1>1, <2>1
<1>4. Session /\ Compared[cur] # "absent" => saved[cur] # "none"
  BY <1>1 DEF IInv, Saved, Kept
<1>5. \A p \in DOMAIN Order: Order[p] >= Order[op] => sent[cur][p] = 0
  BY <1>1, <1>2, OrderIsRank
<1>6. Promise!Ask(cur, op)
  BY <1>1, <1>3, <1>4, <1>5, CurHasTurn DEF Promise!Ask, Order
<1> QED BY <1>1, <1>6, OrderIsRank DEF Promise!Next, Order

LEMMA PromiseStep ==
  ASSUME IInv, Turns, [Next]_vars PROVE [Promise!Next]_(Promise!promised)
<1>0. dryRun' = dryRun
  BY DryRunStays
<1>1. CASE ClientStep /\ ~Send /\ ~BackUp
  <2>1. CASE Settling
    BY <1>0, <1>1, <2>1, SettlingIsSettle, StopStays
  <2>2. CASE Refusing
    BY <1>0, <1>1, <2>2, RefusingIsRefuseAll, StopStays
  <2>3. CASE Quietly
    <3>1. Promise!Hold
      BY <1>0, <1>1, <2>3, StopStays DEF Quietly, Promise!Hold, Promise!MayHold
    <3> QED BY <3>1 DEF Promise!Next
  <2> QED BY <1>1, <2>1, <2>2, <2>3, ClientSettles
<1>2. CASE Send
  BY <1>0, <1>2, SendIsAsk
<1>3. CASE BackUp
  BY <1>0, <1>3, BackUpIsKeep
<1>4. CASE ~ClientStep
  BY <1>0, <1>4, OtherStepsAreQuiet DEF Promise!promised
<1> QED BY <1>1, <1>2, <1>3, <1>4

LEMMA PromiseInit == ASSUME Init PROVE Promise!Init /\ Turns
<1>1. Turns
  BY DestinationAssumption DEF Init, Turns, Paths
<1>2. dryRun \in BOOLEAN
  BY MergeApplyAssumption DEF Init
<1>3. {i \in Paths: saved[i] # "none"} = {}
  BY DEF Init
<1> QED BY <1>1, <1>2, <1>3, OrderIsRank DEF Init, Promise!Init, Order

\* The command keeps the promise of one destination, whatever is lost on the
\* way and whatever others do.
THEOREM MergeKeepsItsPromise == Spec => MergePromised
<1>1. Init => Promise!Init /\ Turns
  BY PromiseInit
<1>2. IInv /\ Turns /\ [Next]_vars => Turns'
  BY TurnsStep
<1>3. IInv /\ Turns /\ [Next]_vars => [Promise!Next]_(Promise!promised)
  BY PromiseStep
<1> QED BY <1>1, <1>2, <1>3, Invariance, PTL DEF Spec, MergePromised, Promise!Spec
=============================================================================
