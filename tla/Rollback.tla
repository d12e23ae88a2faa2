------------------------------ MODULE Rollback ------------------------------
(***************************************************************************)
(* rollback: one session of the backup store is put back to the            *)
(* destination.  The session is chosen, the user is asked, the records are *)
(* read, and the paths are looked at in two requests, an inspection of     *)
(* where each one leads and a listing of what it holds.  From both answers *)
(* the treatment of every path is decided at once; a path that is restored *)
(* is first saved into a new session and read back (cli/rollback.rs,       *)
(* runtime/rollback_*.rs, engine/treat/rollback.rs).                       *)
(*                                                                         *)
(* In the terms of Destination, "old" and "oldlink" are what the merge put *)
(* there, "new" and "newlink" what the record holds, and "foreign" is D at *)
(* the real path the record names.                                         *)
(***************************************************************************)
EXTENDS Destination

CONSTANTS
  Sessions,     \* the sessions that may be restored: the kind of each record
  Found,        \* Found[i]: what path i may hold when the command begins
  FoundDirs,    \* the states D may be in when the command begins
  DryRuns, Forces, Backups,  \* choices of --dry-run, --force, backup.enabled
  Remote,       \* whether requests travel over a connection
  RecordsMayGo  \* whether a cleanup may remove the session meanwhile

\* A regular file, a symlink the merge replaced by a symlink, any other symlink.
Kinds == {"file", "link", "replaced"}

ASSUME RollbackAssumption ==
  /\ Sessions \subseteq [Paths -> Kinds]
  /\ Found \in [Paths -> SUBSET (Entries \ {"partial"})]
  /\ FoundDirs \subseteq DirStates \ {"made"}
  /\ DryRuns \subseteq BOOLEAN /\ Forces \subseteq BOOLEAN /\ Backups \subseteq BOOLEAN
  /\ {Remote, RecordsMayGo} \subseteq BOOLEAN

VARIABLES
  recorded,     \* recorded[i]: the kind of the record of path i
  dryRun, force, backup,
  records,      \* the paths whose record is in the store
  conn,         \* whether the agent in use still answers
  wire,         \* the change request in flight: how far it is, or its answer
  pc,           \* where the command is
  cur,          \* the path it is at
  op,           \* the change it is about
  retried,      \* whether the read in progress was tried already
  at,           \* at[i]: the inspection of path i, D and the entry
  state,        \* state[i]: what the listing found
  content,      \* content[i]: the answer to the batched read or hash
  batchFailed,  \* whether that batch failed as a whole
  session,      \* whether a new session was reserved
  presaved,     \* presaved[i]: what the new session holds for path i
  shown,        \* the paths reported with pre_rollback_backup
  stopped,      \* the stop mark of the destination: "no", "lost" or "root"
  result,       \* result[i]: the RestoreOutcome of path i
  why,          \* why[i]: the reason reported with it
  end           \* how the command ended

given == <<recorded, dryRun, force, backup>>
facts == <<at, state>>
batch == <<content, batchFailed, session>>
report == <<result, why, shown>>
control == <<pc, cur, op, retried>>
vars == <<destVars, given, records, conn, wire, control, facts, batch, presaved, stopped,
          report, end>>

ReadPcs == {"inspect", "scan", "batch", "rootcheck"}
Pcs == ReadPcs \cup {"choose", "prompt", "records", "reserve", "next", "save", "readback",
                     "send", "wait", "confirm", "observe", "done"}
Answers == {"ok", "refused", "notfound", "rootgone"}
Verdicts == {"restore", "special", "replaced", "parentgone", "moved", "linkchanged", "unresolved"}
Reasons == Verdicts \cup {"none", "read", "rootgone", "stopped", "backup", "readback", "refused",
                          "notdone", "partial", "unknown", "oldremoved"}

\* What was learned of each path, and what was saved of it.
FactsTypeOK ==
  /\ at \in [Paths -> [dir : DirStates, held : Entries]]
  /\ state \in [Paths -> Entries]
  /\ content \in [Paths -> Entries \cup {"none", "failed"}]
  /\ presaved \in [Paths -> Entries \cup {"none"}]
  /\ {batchFailed, session} \subseteq BOOLEAN

ReportTypeOK ==
  /\ result \in [Paths -> {"pending", "planned", "Restored", "Skipped", "Failed"}]
  /\ why \in [Paths -> Reasons]
  /\ shown \subseteq Paths

TypeOK ==
  /\ DestinationTypeOK /\ FactsTypeOK /\ ReportTypeOK
  /\ recorded \in Sessions /\ {dryRun, force, backup} \subseteq BOOLEAN
  /\ records \subseteq Paths
  /\ conn \in BOOLEAN
  /\ wire \in {"idle", "sent", "begun"} \cup Answers /\ (wire # "idle" => pc = "wait")
  /\ pc \in Pcs
  /\ cur \in 1..(N + 1)
  /\ op \in {"write", "remove", "link"}
  /\ retried \in BOOLEAN /\ (retried => pc \in ReadPcs)
  /\ stopped \in {"no", "lost", "root"}
  /\ end \in {"no", "aborted", "error", "reported"}

Init ==
  /\ recorded \in Sessions
  /\ dryRun \in DryRuns /\ force \in Forces /\ backup \in Backups
  /\ dir \in FoundDirs
  /\ dest \in [Paths -> Entries]
  /\ \A i \in Paths: dest[i] \in IF i \in InDir /\ dir \notin OpenDirs THEN {"absent"} ELSE Found[i]
  /\ root = TRUE
  /\ perm = [p \in 0..N |-> "initial"]
  /\ effects = [i \in Paths |-> {}] /\ touched = {} /\ raced = {}
  /\ records = Paths
  /\ conn = TRUE /\ wire = "idle"
  /\ pc = "choose" /\ cur = 1 /\ op = "write" /\ retried = FALSE
  /\ at = [i \in Paths |-> [dir |-> "absent", held |-> "absent"]]
  /\ state = [i \in Paths |-> "absent"]
  /\ content = [i \in Paths |-> "none"] /\ batchFailed = FALSE /\ session = FALSE
  /\ presaved = [i \in Paths |-> "none"] /\ shown = {}
  /\ stopped = "no"
  /\ result = [i \in Paths |-> "pending"] /\ why = [i \in Paths |-> "none"]
  /\ end = "no"

----------------------------------------------------------------------------
(***************************************************************************)
(* The treatment of a session (engine/treat/rollback.rs).                  *)
(***************************************************************************)
JudgeFile(s, a) ==
  CASE s = "special" -> "special"
    [] s \in Links -> "moved"
    [] s \in Files -> IF a.held \in Files /\ a.dir = "foreign" THEN "restore" ELSE "moved"
    [] s = "absent" -> CASE a.dir \in {"absent", "blocked"} -> "parentgone"
                         [] a.held = "absent" /\ a.dir = "foreign" -> "restore"
                         [] OTHER -> "moved"

JudgeLink(s, a) ==
  IF s # "oldlink" THEN "linkchanged" ELSE IF a.dir = "foreign" THEN "restore" ELSE "moved"

Judge(i, s, a) ==
  CASE recorded[i] = "replaced" -> "replaced"
    [] recorded[i] # "replaced" /\ a.dir = "loop" -> "unresolved"
    [] recorded[i] = "file" /\ a.dir # "loop" -> JudgeFile(s, a)
    [] recorded[i] = "link" /\ a.dir # "loop" -> JudgeLink(s, a)

\* (mutant of Plan: a path that leads elsewhere does not hold back the others)
PlanEach(v) == v

\* One path that cannot be followed fails all, one that leads elsewhere or whose
\* link was changed keeps every other from being restored.
Plan(v) ==
  LET blocking == {i \in Paths : v[i] \in {"moved", "linkchanged"}}
  IN [i \in Paths |->
        IF \E j \in Paths: v[j] = "unresolved" THEN "unresolved"
        ELSE IF v[i] = "restore" /\ blocking # {}
             THEN v[CHOOSE j \in blocking : \A k \in blocking : j <= k]
             ELSE v[i]]

ResultOf(r) == CASE r = "restore" -> "planned"
                 [] r \in {"unresolved", "special"} -> "Failed"
                 [] OTHER -> "Skipped"

----------------------------------------------------------------------------
(***************************************************************************)
(* Moving on.                                                              *)
(***************************************************************************)
Stop(cause) == stopped' = IF stopped = "no" THEN cause ELSE stopped

\* for_side: a stopped side is not asked for anything.
Asked == stopped = "no"

Goto(p) == pc' = p /\ retried' = FALSE /\ UNCHANGED <<cur, op>>

\* The command ends: aborted, with an error, or with a report of every path.
Finish(how) == Goto("done") /\ end' = how

\* Path cur gets its result and the next path is taken.
Conclude(r, w) ==
  /\ result' = [result EXCEPT ![cur] = r]
  /\ why' = [why EXCEPT ![cur] = w]
  /\ pc' = "next" /\ cur' = cur + 1 /\ retried' = FALSE
  /\ UNCHANGED op

FailAll(w) ==
  /\ result' = [i \in Paths |-> "Failed"]
  /\ why' = [i \in Paths |-> w]
  /\ Finish("reported")

----------------------------------------------------------------------------
(***************************************************************************)
(* Choosing the session, asking, reading the records (execute_rollback).   *)
(***************************************************************************)
\* choose_session and connect_side; a session with a missing record is none.
Choose ==
  /\ pc = "choose"
  /\ \/ records = Paths /\ Goto(IF force \/ dryRun THEN "records" ELSE "prompt") /\ UNCHANGED end
     \/ Finish("error")
  /\ UNCHANGED <<destVars, given, records, conn, wire, facts, batch, presaved, stopped, report>>

Prompt ==
  /\ pc = "prompt"
  /\ \/ Goto("records") /\ UNCHANGED end
     \/ Finish("aborted")
  /\ UNCHANGED <<destVars, given, records, conn, wire, facts, batch, presaved, stopped, report>>

\* restore_session reads the records one by one before it asks the destination.
ReadRecord ==
  /\ pc = "records"
  /\ \/ cur \in records /\ cur' = cur + 1 /\ UNCHANGED <<pc, op, retried, end>>
     \/ cur = N + 1 /\ pc' = "inspect" /\ cur' = 1 /\ UNCHANGED <<op, retried, end>>
     \/ cur \in Paths /\ Finish("error")
  /\ UNCHANGED <<destVars, given, records, conn, wire, facts, batch, presaved, stopped, report>>

----------------------------------------------------------------------------
(***************************************************************************)
(* The facts (rollback_facts) and the plan.                                *)
(***************************************************************************)
OnlyPlanned == dryRun

\* The treatment is decided; a dry run ends here, and so does one that restores
\* nothing.
Decide(plan) ==
  /\ why' = [i \in Paths |-> plan[i]]
  /\ result' = [i \in Paths |-> ResultOf(plan[i])]
  /\ IF OnlyPlanned \/ \A i \in Paths: plan[i] # "restore"
     THEN Finish("reported")
     ELSE Goto("reserve") /\ UNCHANGED end
  /\ UNCHANGED shown

\* inspect_under_root: every path and its parent, and root_dir, in one request.
Inspect ==
  /\ pc = "inspect" /\ conn
  /\ raced' = {}
  /\ \/ ~root /\ Finish("error") /\ UNCHANGED at
     \/ /\ root
        /\ at' = [i \in Paths |-> [dir |-> IF i \in InDir THEN dir ELSE "foreign",
                                   held |-> dest[i]]]
        /\ Goto("scan") /\ UNCHANGED end
  /\ UNCHANGED <<dest, dir, root, perm, effects, touched, given, records, conn, wire, state, batch,
                 presaved, stopped, report>>

\* Nothing below root_dir can be looked at: no path can be resolved.
InspectRefused ==
  /\ pc = "inspect" /\ conn
  /\ Decide(Plan([i \in Paths |-> IF recorded[i] = "replaced" THEN "replaced" ELSE "unresolved"]))
  /\ UNCHANGED <<destVars, given, records, conn, wire, facts, batch, presaved, stopped>>

Listed == {i \in Paths : at[i].dir # "loop"}

\* target_states: the paths that could be inspected are listed; one that leads
\* nowhere by now ends the command.
Scan ==
  /\ pc = "scan" /\ (conn \/ Listed = {})
  /\ \/ /\ root /\ dir = "loop" => Listed \cap InDir = {}
        /\ state' = [i \in Paths |-> IF i \in Listed THEN dest[i] ELSE "absent"]
        /\ Decide(Plan([i \in Paths |-> Judge(i, state'[i], at[i])]))
     \/ Listed # {} /\ Finish("error") /\ UNCHANGED <<state, report>>
  /\ UNCHANGED <<destVars, given, records, conn, wire, at, batch, presaved, stopped>>

----------------------------------------------------------------------------
(***************************************************************************)
(* Before the first path is restored (restore_paths).                      *)
(***************************************************************************)
Restoring == {i \in Paths : result[i] = "planned"}

PresentFiles == {i \in Restoring : state[i] \in Files}

\* reserve_backup_session, when there is anything to save.
Reserve ==
  /\ pc = "reserve"
  /\ \/ /\ session' = (backup /\ \E i \in Restoring: state[i] # "absent")
        /\ Goto(IF PresentFiles = {} THEN "next" ELSE "batch") /\ UNCHANGED end
     \/ backup /\ Finish("error") /\ UNCHANGED session
  /\ UNCHANGED <<destVars, given, records, conn, wire, facts, content, batchFailed, presaved,
                 stopped, report>>

\* The content of a link that took the place of a file is that of its target.
ContentAt(i) == IF dest[i] \in {"absent", "special"} THEN "failed"
                ELSE IF dest[i] \in Links THEN "other" ELSE dest[i]

\* root_gone_before_restore: the first file names root_dir, the others do not.
RootGoneInBatch ==
  [i \in Paths |-> IF i \notin Restoring THEN why[i]
                   ELSE IF i \in PresentFiles /\ \A j \in PresentFiles: i <= j
                   THEN "rootgone" ELSE "stopped"]

\* contents_to_save, through RootWatch; without a session hashes_before_restore,
\* where a hash that cannot be had is none.
Batch ==
  /\ pc = "batch" /\ conn
  /\ \/ /\ ~root /\ session
        /\ Stop("root")
        /\ result' = [i \in Paths |-> IF i \in Restoring THEN "Failed" ELSE result[i]]
        /\ why' = RootGoneInBatch
        /\ Finish("reported")
        /\ UNCHANGED <<content, shown>>
     \/ /\ root \/ ~session
        /\ content' = [i \in Paths |-> IF i \in PresentFiles THEN ContentAt(i) ELSE "none"]
        /\ Goto("next")
        /\ UNCHANGED <<stopped, report, end>>
  /\ UNCHANGED <<destVars, given, records, conn, wire, facts, batchFailed, session, presaved>>

BatchRefused ==
  /\ pc = "batch" /\ conn
  /\ batchFailed' = TRUE
  /\ Goto("next")
  /\ UNCHANGED <<destVars, given, records, conn, wire, facts, content, session, presaved, stopped,
                 report, end>>

----------------------------------------------------------------------------
(***************************************************************************)
(* One path after the other (restore_paths, save_and_restore).             *)
(***************************************************************************)
FirstOp(i) == IF recorded[i] = "link" THEN "remove" ELSE "write"

Start(o) == pc' = "send" /\ op' = o /\ retried' = FALSE /\ UNCHANGED cur

TakeNext ==
  /\ pc = "next"
  /\ \/ cur = N + 1 /\ Finish("reported") /\ UNCHANGED report
     \/ /\ cur \in Paths \ Restoring
        /\ cur' = cur + 1 /\ UNCHANGED <<pc, op, retried, report, end>>
     \/ /\ cur \in PresentFiles /\ batchFailed
        /\ Conclude("Failed", IF session THEN "backup" ELSE "read") /\ UNCHANGED <<shown, end>>
     \/ /\ cur \in Restoring /\ (cur \in PresentFiles => ~batchFailed)
        /\ IF session /\ state[cur] # "absent" THEN Goto("save") ELSE Start(FirstOp(cur))
        /\ UNCHANGED <<report, end>>
  /\ UNCHANGED <<destVars, given, records, conn, wire, facts, batch, presaved, stopped>>

\* What save_current writes into the new session.
Current(i) == IF state[i] \in Files THEN content[i] ELSE state[i]

\* (mutant of Save: a content that could not be read is passed over)
SaveSkips ==
  /\ pc = "save"
  /\ presaved' = [presaved EXCEPT ![cur] = IF Current(cur) = "failed" THEN "none" ELSE Current(cur)]
  /\ Goto("readback")
  /\ UNCHANGED <<destVars, given, records, conn, wire, facts, batch, stopped, report, end>>

Save ==
  /\ pc = "save"
  /\ Current(cur) # "failed"
  /\ presaved' = [presaved EXCEPT ![cur] = Current(cur)]
  /\ Goto("readback")
  /\ UNCHANGED <<destVars, given, records, conn, wire, facts, batch, stopped, report, end>>

SaveFails ==
  /\ pc = "save"
  /\ Conclude("Failed", "backup")
  /\ UNCHANGED <<destVars, given, records, conn, wire, facts, batch, presaved, shown, stopped, end>>

\* before_from_saved: what cannot be read back is not overwritten.
ReadBack ==
  /\ pc = "readback"
  /\ \/ Start(FirstOp(cur)) /\ UNCHANGED <<result, why>>
     \/ Conclude("Failed", "readback")
  /\ UNCHANGED <<destVars, given, records, conn, wire, facts, batch, presaved, shown, stopped, end>>

\* The path is restored, and the session that holds what was there is shown.
Restored ==
  /\ Conclude("Restored", "none")
  /\ shown' = IF session /\ state[cur] # "absent" THEN shown \cup {cur} ELSE shown

\* restore_one and create_or_replace_symlink: change op was carried out.
Proceed ==
  \/ op \in {"write", "link"} /\ Restored
  \/ op = "remove" /\ Asked /\ Start("link") /\ UNCHANGED report
  \/ op = "remove" /\ ~Asked /\ Conclude("Failed", "oldremoved") /\ UNCHANGED shown

\* (mutant of FailOp: the error of the second step does not name the first)
FailOpAlone(w) == Conclude("Failed", w) /\ UNCHANGED shown

FailOp(w) == Conclude("Failed", IF op = "link" THEN "oldremoved" ELSE w) /\ UNCHANGED shown

SendRefused ==
  /\ pc = "send" /\ ~Asked
  /\ FailOp("stopped")
  /\ UNCHANGED <<destVars, given, records, conn, wire, facts, batch, presaved, stopped, end>>

Send ==
  /\ pc = "send" /\ Asked
  /\ wire' = "sent"
  /\ Goto("wait")
  /\ UNCHANGED <<destVars, given, records, conn, facts, batch, presaved, stopped, report, end>>

Receive ==
  /\ pc = "wait" /\ conn
  /\ wire' = "idle"
  /\ \/ wire = "ok" /\ UNCHANGED stopped /\ Proceed
     \/ wire = "refused" /\ UNCHANGED stopped /\ FailOp("refused")
     \/ wire = "rootgone" /\ Stop("root") /\ FailOp("rootgone")
     \/ wire = "notfound" /\ UNCHANGED <<stopped, report>> /\ Goto("rootcheck")
  /\ UNCHANGED <<destVars, given, records, conn, facts, batch, presaved, end>>

\* RootWatch::settle asks for root_dir after "not found".
RootCheck ==
  /\ pc = "rootcheck" /\ conn
  /\ \/ root /\ UNCHANGED stopped /\ FailOp("refused")
     \/ ~root /\ Stop("root") /\ FailOp("rootgone")
  /\ UNCHANGED <<destVars, given, records, conn, wire, facts, batch, presaved, end>>

----------------------------------------------------------------------------
(***************************************************************************)
(* Losing the connection (runtime/route_retry.rs, confirm.rs).             *)
(***************************************************************************)
Reads == pc \in ReadPcs /\ (pc = "scan" => Listed # {})

MayRetryForever == TRUE  \* (mutant of MayRetry)

MayRetry == ~retried

ReconnectToRead ==
  /\ Reads /\ ~conn /\ MayRetry
  /\ conn' = TRUE /\ retried' = TRUE
  /\ UNCHANGED <<destVars, given, records, wire, pc, cur, op, facts, batch, presaved, stopped,
                 report, end>>

\* The reconnection failed, or the second attempt was lost too.
GiveUpRead ==
  /\ Reads /\ ~conn
  /\ Stop("lost")
  /\ \/ pc \in {"inspect", "scan"} /\ FailAll("read") /\ UNCHANGED <<batchFailed, shown>>
     \/ pc = "batch" /\ batchFailed' = TRUE /\ Goto("next") /\ UNCHANGED <<report, end>>
     \/ pc = "rootcheck" /\ FailOp("refused") /\ UNCHANGED <<batchFailed, end>>
  /\ UNCHANGED <<destVars, given, records, conn, wire, facts, content, session, presaved>>

\* change_on_route: the destination is stopped and the change is not tried again.
LoseChange ==
  /\ pc = "wait" /\ ~conn
  /\ wire' = "idle"
  /\ Stop("lost")
  /\ Goto("confirm")
  /\ UNCHANGED <<destVars, given, records, conn, facts, batch, presaved, report, end>>

\* observe_after_loss: one reconnection, one look, no second try.
ReconnectToConfirm ==
  /\ pc = "confirm"
  /\ conn' = TRUE
  /\ Goto("observe")
  /\ UNCHANGED <<destVars, given, records, wire, facts, batch, presaved, stopped, report, end>>

\* The state before the write: what was saved, or what the hash was taken of.
Before(i) == IF state[i] = "absent" THEN "absent"
             ELSE IF session THEN presaved[i] ELSE content[i]

\* judge: what became of change op, told from what path cur holds now.
Outcome ==
  CASE op = "write" -> CASE dest[cur] = "new" -> "done"
                         [] dest[cur] # "new" /\ dest[cur] = Before(cur) -> "notdone"
                         [] dest[cur] # "new" /\ Before(cur) = "failed" -> "unknown"
                         [] OTHER -> "partial"
    [] op = "link" -> CASE dest[cur] = "newlink" -> "done"
                        [] dest[cur] = "absent" -> "notdone"
                        [] OTHER -> "partial"
    [] op = "remove" -> IF dest[cur] = "absent" THEN "done" ELSE "notdone"

Confirm ==
  /\ pc = "observe" /\ conn
  /\ op = "write" => dest[cur] # "special"
  /\ \/ Outcome = "done" /\ Proceed
     \/ Outcome # "done" /\ FailOp(Outcome)
  /\ UNCHANGED <<destVars, given, records, conn, wire, facts, batch, presaved, stopped, end>>

ConfirmFails ==
  /\ pc \in {"confirm", "observe"}
  /\ FailOp("unknown")
  /\ UNCHANGED <<destVars, given, records, conn, wire, facts, batch, presaved, stopped, end>>

----------------------------------------------------------------------------
(***************************************************************************)
(* The agent, the connection, and everybody else.                          *)
(***************************************************************************)
AgentStep ==
  /\ conn /\ wire \in {"sent", "begun"}
  /\ \E ans \in {"begun"} \cup Answers:
       /\ Perform(op, cur, wire, ans)
       /\ wire' = ans
  /\ UNCHANGED <<touched, raced, given, records, conn, control, facts, batch, presaved, stopped,
                 report, end>>

LoseConnection ==
  /\ Remote /\ conn /\ pc \notin {"choose", "prompt", "records", "done"}
  /\ conn' = FALSE
  /\ UNCHANGED <<destVars, given, records, wire, control, facts, batch, presaved, stopped, report,
                 end>>

OthersStep ==
  /\ pc # "done"
  /\ Others
  /\ UNCHANGED <<given, records, conn, wire, control, facts, batch, presaved, stopped, report, end>>

\* The cleanup of another command removes an expired session, record by record.
RecordGoes ==
  /\ RecordsMayGo /\ pc \in {"choose", "prompt", "records"}
  /\ \E i \in records: records' = records \ {i}
  /\ UNCHANGED <<destVars, given, conn, wire, control, facts, batch, presaved, stopped, report, end>>

\* rollback_exit_code: (mutant of Clean: a path left alone does not count)
CleanUnlessFailed == \A i \in Paths: result[i] # "Failed"

Clean ==
  /\ \A i \in Paths: result[i] # "Failed"
  /\ ~dryRun => \A i \in Paths: result[i] = "Restored"

ExitZero == end = "aborted" \/ (end = "reported" /\ Clean /\ stopped = "no")

Done == pc = "done" /\ UNCHANGED vars

----------------------------------------------------------------------------
CommandStep ==
  \/ Choose \/ ReadRecord
  \/ Inspect \/ InspectRefused \/ Scan
  \/ Reserve \/ Batch \/ BatchRefused
  \/ TakeNext \/ Save \/ SaveFails \/ ReadBack
  \/ SendRefused \/ Send \/ Receive \/ RootCheck
  \/ ReconnectToRead \/ GiveUpRead \/ LoseChange
  \/ ReconnectToConfirm \/ Confirm \/ ConfirmFails

Next == CommandStep \/ Prompt \/ AgentStep \/ LoseConnection \/ OthersStep \/ RecordGoes \/ Done

Spec == Init /\ [][Next]_vars

\* As for a merge; nothing is assumed about when the user answers.
FairSpec == Spec /\ WF_vars(CommandStep) /\ WF_vars(AgentStep \/ LoseConnection)

----------------------------------------------------------------------------
(***************************************************************************)
(* Properties.                                                             *)
(***************************************************************************)
\* The changes the restoration of a path consists of.
Needed(i) == IF recorded[i] = "link" THEN {"remove", "link"} ELSE {"write"}

\* If nobody else worked on the path, the report is exact whatever was lost on
\* the way: restored, skipped and failed paths, the removal of an old link that
\* was not replaced, and a write that was cut short are reported as what they
\* are, a file whose write was lost counting as restored if it held the content of
\* the record anyway, and the session named as pre_rollback_backup holds the path
\* (restore_one, create_or_replace_symlink, judge, ConfirmedChange).
ReportIsTrue ==
  \A i \in Paths \ touched:
    /\ result[i] = "Restored" =>
         Needed(i) \subseteq effects[i] \/ (state[i] = "new" /\ effects[i] = {})
    /\ result[i] \in {"planned", "Skipped"} /\ end = "reported" => effects[i] = {}
    /\ result[i] = "Failed" /\ why[i] \notin {"refused", "unknown", "partial", "oldremoved"}
         => effects[i] = {}
    /\ why[i] = "partial" => "begin" \in effects[i] /\ "write" \notin effects[i]
    /\ why[i] = "oldremoved" => "remove" \in effects[i]
    /\ i \in shown => presaved[i] # "none"
    /\ result[i] = "Restored" /\ session /\ state[i] # "absent" => i \in shown

\* While nobody else has changed anything since the inspection, a session is
\* restored only if every path of it is where the record says and is of the kind
\* the merge left (REQ-backup-003, REQ-backup-010, REQ-backup-033), a path that is
\* neither a file nor a link excepted.
WhereItWas(i) ==
  /\ i \in InDir => dir \notin {"moved", "loop"}
  /\ recorded[i] = "file" => dest[i] \notin Links
  /\ recorded[i] = "link" => dest[i] = "oldlink" \/ effects[i] # {}

SessionIsWhereItWas ==
  [][(effects' # effects /\ raced = {}) =>
       \A i \in Paths: \/ recorded[i] = "replaced" \/ WhereItWas(i)
                       \/ recorded[i] = "file" /\ dest[i] = "special"]_vars

\* With backups on, nothing that is there is overwritten or removed before the new
\* session holds it, and it is what was listed unless others changed it
\* (REQ-backup-027, REQ-backup-046).
SavedFirst ==
  \A i \in Paths:
    (backup /\ effects[i] # {} /\ state[i] # "absent") =>
      presaved[i] # "none" /\ (i \notin touched => presaved[i] = state[i])

\* Exit code 0 of a restoration means that every path of the session holds what
\* the record holds, unless others changed it (REQ-backup-038).
ExitZeroMeansRestored ==
  (ExitZero /\ end = "reported" /\ ~dryRun) =>
    \A i \in Paths \ touched: dest[i] = IF recorded[i] = "link" THEN "newlink" ELSE "new"

\* Once the user has answered, the command ends, however often the connection is
\* lost.
CommandEnds == pc = "records" ~> pc = "done"
=============================================================================
