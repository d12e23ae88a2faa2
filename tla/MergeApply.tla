----------------------------- MODULE MergeApply -----------------------------
(***************************************************************************)
(* apply_changes: how merge and sync change one destination.  The paths    *)
(* are inspected together, the contents to back up are read together, and  *)
(* then each path in order is looked at once more, backed up, changed and  *)
(* given its permissions.  Every request may lose the connection: a read   *)
(* is tried once more, a change never; the side is then stopped, and what  *)
(* became of the change is read back once (runtime/confirm.rs).            *)
(***************************************************************************)
EXTENDS Destination

CONSTANTS
  Kind,             \* Kind[i]: "WriteFile", "WriteLink" or "Delete"
  Compared,         \* Compared[i]: what the comparison saw at the destination
  Unreadable,       \* paths whose content the machine refuses to read
  CopyMode,         \* --with-permissions: "no", "known" or "unusable" source mode
  Session,          \* whether there is a backup session
  DryRuns,          \* whether --dry-run may be given: the choices
  Remote,           \* whether requests travel over a connection
  OldAgentOutlives  \* whether an agent may go on after its connection is lost

ASSUME MergeApplyAssumption ==
  /\ Kind \in [Paths -> {"WriteFile", "WriteLink", "Delete"}]
  /\ Compared \in [Paths -> {"absent", "old", "oldlink"}]
  /\ \A i \in Paths: /\ Kind[i] = "WriteFile" => Compared[i] \in {"absent", "old"}
                     /\ Kind[i] = "WriteLink" => Compared[i] \in {"absent", "oldlink"}
                     /\ Kind[i] = "Delete" => Compared[i] = "old"
  /\ Unreadable \subseteq Paths
  /\ CopyMode \in {"no", "known", "unusable"}
  /\ DryRuns \subseteq BOOLEAN
  /\ {Session, Remote, OldAgentOutlives} \subseteq BOOLEAN
  /\ OthersDir \cap {"moved", "loop"} = {}   \* bound: D is not made a link

VARIABLES
  conn,         \* whether the agent in use still answers
  wire,         \* the change request in flight: how far it is, or its answer
  late,         \* requests an agent whose connection is lost still works on
  pc,           \* where the command is
  cur,          \* the path it is at
  op,           \* the change it is about
  retried,      \* whether the read in progress was tried already
  dryRun,       \* whether --dry-run is given
  insp,         \* insp[i]: the answer to the inspection of path i
  newDir,       \* paths whose directory was missing when inspected
  bcont,        \* bcont[i]: the answer to the batched read for the backup
  batchFailed,  \* paths of a batched read that failed as a whole
  saved,        \* saved[i]: what the backup session holds for path i
  stopped,      \* the stop mark of this side: "no", "lost" or "root"
  result,       \* result[i]: the Applied of path i
  why,          \* why[i]: the reason reported with a failure
  sent          \* history: sent[i][o] is how often change o was requested

read == <<dryRun, insp, newDir, bcont, batchFailed>>
report == <<result, why>>
route == <<conn, wire, late>>
client == <<pc, cur, op, retried, saved, stopped, sent>>
vars == <<destVars, read, report, route, client>>

ReadPcs == {"inspect", "backupRead", "relist", "rehash", "rootcheck"}
Pcs == ReadPcs \cup {"next", "backup", "send", "wait", "confirm", "observe", "done"}
Answers == {"ok", "refused", "notfound", "rootgone"}
Reasons == {"none", "read", "rootgone", "stopped", "notdir", "changed", "undecidable",
            "backup", "refused", "notdone", "partial", "unknown", "mode"}

ReportTypeOK ==
  /\ result \in [Paths -> {"pending", "Planned", "Done", "Failed", "FailedAfterChange"}]
  /\ why \in [Paths -> Reasons]

TypeOK ==
  /\ DestinationTypeOK
  /\ ReportTypeOK
  /\ conn \in BOOLEAN
  /\ wire \in {"idle", "sent", "begun"} \cup Answers
  /\ late \subseteq [op : Ops, path : Paths, st : {"sent", "begun"}]
  /\ pc \in Pcs
  /\ cur \in 1..(N + 1)
  /\ op \in Ops
  /\ retried \in BOOLEAN /\ (retried => pc \in ReadPcs)
  /\ dryRun \in BOOLEAN
  /\ insp \in [Paths -> Entries \cup {"notdir"}]
  /\ newDir \subseteq Paths
  /\ bcont \in [Paths -> Entries \cup {"none", "failed"}]
  /\ batchFailed \subseteq Paths
  /\ saved \in [Paths -> Entries \cup {"none"}]
  /\ stopped \in {"no", "lost", "root"}
  /\ sent \in [Paths -> [Ops -> Nat]]

----------------------------------------------------------------------------
\* The files whose content is read for the backup.
BackedUp == IF Session /\ ~dryRun
            THEN {i \in Paths : Kind[i] \in {"WriteFile", "Delete"} /\ Compared[i] = "old"}
            ELSE {}

FirstOp(i) == CASE Kind[i] = "WriteFile" -> "write"
                [] Kind[i] = "Delete" -> "remove"
                [] Kind[i] = "WriteLink" -> IF Compared[i] = "oldlink" THEN "remove" ELSE "link"

Replaces(i) == Kind[i] = "WriteLink" /\ Compared[i] = "oldlink"

\* written_file: the permissions a written file gets.
WrittenFile(i) == CASE CopyMode = "known" -> "Set"
                    [] CopyMode = "unusable" -> "Fail"
                    [] CopyMode = "no" -> IF Compared[i] = "absent" THEN "Set" ELSE "Keep"

Init ==
  /\ dest = Compared
  /\ dir \in {"absent", "foreign"}
  /\ dir = "absent" => \A i \in InDir: Compared[i] = "absent"
  /\ root = TRUE
  /\ perm = [p \in 0..N |-> "initial"]
  /\ effects = [i \in Paths |-> {}]
  /\ touched = {} /\ raced = {}
  /\ conn = TRUE /\ wire = "idle" /\ late = {}
  /\ pc = "inspect" /\ cur = 1 /\ op = "write" /\ retried = FALSE
  /\ dryRun \in DryRuns
  /\ insp = Compared /\ newDir = {}
  /\ bcont = [i \in Paths |-> "none"] /\ batchFailed = {}
  /\ saved = [i \in Paths |-> "none"]
  /\ stopped = "no"
  /\ result = [i \in Paths |-> "pending"] /\ why = [i \in Paths |-> "none"]
  /\ sent = [i \in Paths |-> [o \in Ops |-> 0]]

----------------------------------------------------------------------------
(***************************************************************************)
(* Moving on.                                                              *)
(***************************************************************************)
\* stop_with: the first cause of a stop is kept.
Stop(cause) == stopped' = IF stopped = "no" THEN cause ELSE stopped

Goto(p) == pc' = p /\ retried' = FALSE /\ UNCHANGED <<cur, op>>

\* for_side: a stopped side is not asked for anything.
AskedAnyway == TRUE  \* (mutant of Asked)

Asked == stopped = "no"

\* Path cur gets its result and the next path is taken.
Conclude(r, w) ==
  /\ result' = [result EXCEPT ![cur] = r]
  /\ why' = [why EXCEPT ![cur] = w]
  /\ pc' = "next" /\ cur' = cur + 1 /\ retried' = FALSE
  /\ UNCHANGED op

\* All paths fail at once: path found for reason w, the others for reason rest.
FailAll(found, w, rest) ==
  /\ result' = [i \in Paths |-> "Failed"]
  /\ why' = [i \in Paths |-> IF i = found THEN w ELSE rest]
  /\ Goto("done")

\* inspect_destinations and apply_changes up to the backup read.
Inspect ==
  /\ pc = "inspect" /\ conn
  /\ IF ~root
     THEN /\ Stop("root")
          /\ FailAll(1, "rootgone", "stopped")
          /\ UNCHANGED read
     ELSE /\ insp' = [i \in Paths |-> IF i \in InDir /\ dir = "blocked" THEN "notdir"
                                      ELSE dest[i]]
          /\ newDir' = {i \in InDir : Compared[i] = "absent" /\ dir = "absent"}
          /\ Goto(IF BackedUp = {} THEN "next" ELSE "backupRead")
          /\ UNCHANGED <<dryRun, bcont, batchFailed, stopped, report>>
  /\ UNCHANGED <<destVars, route, saved, sent>>

\* What a request for the content of path i is answered; a symlink is followed
\* to some other content.
ContentAt(i) == IF dest[i] \in {"absent", "special"} \/ i \in Unreadable THEN "failed"
                ELSE IF dest[i] \in Links THEN "other" ELSE dest[i]

\* read_backup_contents: one request for all contents.  A missing file makes
\* RootWatch look at root_dir.
ReadBackups ==
  /\ pc = "backupRead" /\ conn
  /\ IF ~root
     THEN /\ Stop("root")
          /\ FailAll(CHOOSE i \in BackedUp : \A j \in BackedUp : i <= j, "rootgone", "stopped")
          /\ UNCHANGED read
     ELSE /\ bcont' = [i \in Paths |-> IF i \in BackedUp THEN ContentAt(i) ELSE "none"]
          /\ Goto("next")
          /\ UNCHANGED <<dryRun, insp, newDir, batchFailed, stopped, report>>
  /\ UNCHANGED <<destVars, route, saved, sent>>

\* A whole batch is refused without the connection being lost.
BatchRefused ==
  /\ conn
  /\ \/ pc = "inspect" /\ FailAll(1, "read", "read") /\ UNCHANGED batchFailed
     \/ pc = "backupRead" /\ batchFailed' = BackedUp /\ Goto("next") /\ UNCHANGED report
  /\ UNCHANGED <<destVars, dryRun, insp, newDir, bcont, route, saved, stopped, sent>>

OnlyPlanned == dryRun

\* The loop over the changes in apply_changes.
TakeNext ==
  /\ pc = "next"
  /\ \/ cur > N /\ Goto("done") /\ UNCHANGED report
     \/ /\ cur <= N
        /\ \/ insp[cur] = "notdir" /\ Conclude("Failed", "notdir")
           \/ insp[cur] # "notdir" /\ OnlyPlanned /\ Conclude("Planned", "none")
           \/ /\ insp[cur] # "notdir" /\ ~OnlyPlanned /\ cur \in batchFailed
              /\ Conclude("Failed", "backup")
           \/ /\ insp[cur] # "notdir" /\ ~OnlyPlanned /\ cur \notin batchFailed
              /\ Goto("relist") /\ UNCHANGED report
  /\ UNCHANGED <<destVars, read, route, saved, stopped, sent>>

----------------------------------------------------------------------------
(***************************************************************************)
(* changed_since_compared: the destination is listed again, and a regular  *)
(* file is hashed in a second request.                                     *)
(***************************************************************************)
\* A listing never asks a side that was stopped.
RelistRefused ==
  /\ pc = "relist" /\ ~Asked
  /\ Conclude("Failed", "stopped")
  /\ UNCHANGED <<destVars, read, route, saved, stopped, sent>>

Relist ==
  /\ pc = "relist" /\ Asked /\ conn
  /\ raced' = raced \ {cur}
  /\ \/ ~root /\ Stop("root") /\ Conclude("Failed", "rootgone")
     \/ /\ root
        /\ UNCHANGED stopped
        /\ \/ dest[cur] \in Files /\ Compared[cur] = "old" /\ Goto("rehash") /\ UNCHANGED report
           \/ dest[cur] \in Files /\ Compared[cur] # "old" /\ Conclude("Failed", "changed")
           \/ /\ dest[cur] \notin Files /\ dest[cur] = Compared[cur]
              /\ Goto("backup") /\ UNCHANGED report
           \/ /\ dest[cur] \notin Files /\ dest[cur] # Compared[cur]
              /\ Conclude("Failed", "changed")
  /\ UNCHANGED <<dest, dir, root, perm, effects, touched, read, route, saved, sent>>

\* (mutant of Rehash: a regular file is taken to be unchanged)
RehashTrustsKind ==
  /\ pc = "rehash" /\ conn
  /\ Goto("backup")
  /\ UNCHANGED <<destVars, read, report, route, saved, stopped, sent>>

\* hash_contents follows a symlink that took the file's place to a content
\* that may be the compared one.
Rehash ==
  /\ pc = "rehash" /\ conn
  /\ \/ ~root /\ Stop("root") /\ Conclude("Failed", "rootgone")
     \/ /\ root
        /\ UNCHANGED stopped
        /\ \/ cur \in Unreadable /\ Conclude("Failed", "undecidable")
           \/ /\ cur \notin Unreadable /\ dest[cur] \in {Compared[cur]} \cup Links
              /\ Goto("backup") /\ UNCHANGED report
           \/ /\ cur \notin Unreadable /\ dest[cur] # Compared[cur]
              /\ Conclude("Failed", "changed")
  /\ UNCHANGED <<destVars, read, route, saved, sent>>

----------------------------------------------------------------------------
(***************************************************************************)
(* back_up_destination: saves what the inspection and the batched read     *)
(* found.  Saving may fail.                                                *)
(***************************************************************************)
BackupEntry(i) ==
  CASE Compared[i] = "old" /\ insp[i] \in Files /\ bcont[i] \in Files -> bcont[i]
    [] Compared[i] = "oldlink" /\ insp[i] \in Links -> insp[i]
    [] OTHER -> "none"

\* (mutant of BackUp: goes on when there is nothing to save)
BackUpSkips ==
  /\ pc = "backup"
  /\ saved' = [saved EXCEPT ![cur] = IF Session THEN BackupEntry(cur) ELSE @]
  /\ op' = FirstOp(cur) /\ pc' = "send" /\ retried' = FALSE
  /\ UNCHANGED <<destVars, read, report, route, cur, stopped, sent>>

BackUp ==
  /\ pc = "backup"
  /\ \/ /\ Session /\ Compared[cur] # "absent"
        /\ BackupEntry(cur) # "none"
        /\ saved' = [saved EXCEPT ![cur] = BackupEntry(cur)]
     \/ (~Session \/ Compared[cur] = "absent") /\ UNCHANGED saved
  /\ op' = FirstOp(cur) /\ pc' = "send" /\ retried' = FALSE
  /\ UNCHANGED <<destVars, read, report, route, cur, stopped, sent>>

BackUpFails ==
  /\ pc = "backup" /\ Session /\ Compared[cur] # "absent"
  /\ Conclude("Failed", "backup")
  /\ UNCHANGED <<destVars, read, route, saved, stopped, sent>>

----------------------------------------------------------------------------
(***************************************************************************)
(* change_destination and set_permissions, one request after the other.    *)
(***************************************************************************)
\* What is left to do at path cur after change o was carried out.
AfterOp(o) ==
  CASE o = "remove" /\ Replaces(cur) ->
         IF stopped # "no" THEN "failed" ELSE "link"
    [] o = "remove" /\ ~Replaces(cur) -> "finished"
    [] o \in {"write", "link"} /\ cur \in newDir -> "chmoddir"
    [] o = "link" /\ cur \notin newDir -> "finished"
    [] o = "chmod" -> "finished"
    [] OTHER -> IF Kind[cur] # "WriteFile" THEN "finished"
                ELSE CASE WrittenFile(cur) = "Set" -> "chmod"
                       [] WrittenFile(cur) = "Fail" -> "failed"
                       [] WrittenFile(cur) = "Keep" -> "finished"

\* Change op was carried out: the next request, or the result.
Proceed ==
  LET next == AfterOp(op) IN
  \/ next = "finished" /\ Conclude("Done", "none")
  \/ /\ next = "failed"
     /\ Conclude("FailedAfterChange", IF op = "remove" THEN "stopped" ELSE "mode")
  \/ /\ next \in Ops
     /\ pc' = "send" /\ op' = next /\ retried' = FALSE
     /\ UNCHANGED <<cur, report>>

\* (mutant of FailOp: forgets that something was changed)
FailOpAsUnchanged(w) == Conclude("Failed", w)

\* Change op failed for reason w: whether the failure is reported as one after
\* a change (AfterChange, is_partially_written, a failure of set_permissions).
FailOp(w) ==
  Conclude(IF \/ op \in {"chmod", "chmoddir"}
              \/ op = "link" /\ Replaces(cur)
              \/ w = "partial"
           THEN "FailedAfterChange" ELSE "Failed", w)

SendRefused ==
  /\ pc = "send" /\ ~Asked
  /\ FailOp("stopped")
  /\ UNCHANGED <<destVars, read, route, saved, stopped, sent>>

Send ==
  /\ pc = "send" /\ Asked
  /\ wire' = "sent"
  /\ sent' = [sent EXCEPT ![cur][op] = @ + 1]
  /\ Goto("wait")
  /\ UNCHANGED <<destVars, read, report, conn, late, saved, stopped>>

\* The answer arrives.
Receive ==
  /\ pc = "wait" /\ conn
  /\ wire' = "idle"
  /\ \/ wire = "ok" /\ UNCHANGED stopped /\ Proceed
     \/ wire = "refused" /\ UNCHANGED stopped /\ FailOp("refused")
     \/ wire = "rootgone" /\ Stop("root") /\ FailOp("rootgone")
     \/ wire = "notfound" /\ UNCHANGED <<stopped, report>> /\ Goto("rootcheck")
  /\ UNCHANGED <<destVars, read, conn, late, saved, sent>>

\* RootWatch::settle asks for root_dir after "not found".
RootCheck ==
  /\ pc = "rootcheck" /\ conn
  /\ \/ root /\ UNCHANGED stopped /\ FailOp("refused")
     \/ ~root /\ Stop("root") /\ FailOp("rootgone")
  /\ UNCHANGED <<destVars, read, route, saved, sent>>

----------------------------------------------------------------------------
(***************************************************************************)
(* Losing the connection.                                                  *)
(***************************************************************************)
\* read_on_route: the same read once more over a new connection.
MayRetryForever == TRUE  \* (mutant of MayRetry)

MayRetry == ~retried

ReconnectToRead ==
  /\ pc \in ReadPcs /\ ~conn /\ MayRetry
  /\ pc = "relist" => Asked
  /\ conn' = TRUE /\ retried' = TRUE
  /\ UNCHANGED <<destVars, read, report, wire, late, pc, cur, op, saved, stopped, sent>>

\* The reconnection failed, or the second attempt was lost too.
GiveUpRead ==
  /\ pc \in ReadPcs /\ ~conn
  /\ pc = "relist" => Asked
  /\ Stop("lost")
  /\ \/ /\ pc = "inspect"
        /\ FailAll(1, "read", "read")
        /\ UNCHANGED read
     \/ /\ pc = "backupRead"
        /\ batchFailed' = BackedUp
        /\ Goto("next")
        /\ UNCHANGED <<dryRun, insp, newDir, bcont, report>>
     \/ /\ pc \in {"relist", "rehash"}
        /\ Conclude("Failed", "read")
        /\ UNCHANGED read
     \/ /\ pc = "rootcheck"
        /\ FailOp("refused")
        /\ UNCHANGED read
  /\ UNCHANGED <<destVars, route, saved, sent>>

\* (mutant of LoseChange: reconnects and sends the change again)
LoseChangeResends ==
  /\ pc = "wait" /\ ~conn
  /\ wire' = "idle" /\ conn' = TRUE
  /\ Goto("send")
  /\ UNCHANGED <<destVars, read, report, late, saved, stopped, sent>>

\* change_on_route: the side is stopped and the change is not tried again.
LoseChange ==
  /\ pc = "wait" /\ ~conn
  /\ wire' = "idle"
  /\ Stop("lost")
  /\ Goto("confirm")
  /\ UNCHANGED <<destVars, read, report, conn, late, saved, sent>>

\* What the path held before a write, as before_writing knows it.
BeforeWriting(i) == CASE Compared[i] = "absent" -> "absent"
                      [] Compared[i] # "absent" /\ bcont[i] \in Files -> bcont[i]
                      [] OTHER -> Compared[i]

\* judge: what became of change o, told from what path i holds now.
Judge(o, i) ==
  CASE o = "write" -> CASE dest[i] = "new" -> "done"
                        [] dest[i] # "new" /\ dest[i] = BeforeWriting(i) -> "notdone"
                        [] OTHER -> "partial"
    [] o = "link" -> CASE dest[i] = "newlink" -> "done"
                       [] dest[i] = "absent" -> "notdone"
                       [] OTHER -> "partial"
    [] o = "remove" -> IF dest[i] = "absent" THEN "done" ELSE "notdone"
    [] o = "chmod" -> IF dest[i] # "absent" /\ perm[i] = "set" THEN "done" ELSE "notdone"
    [] o = "chmoddir" -> IF dir # "absent" /\ perm[0] = "set" THEN "done" ELSE "notdone"

\* observe_after_loss: one reconnection, one look, no second try.
ReconnectToConfirm ==
  /\ pc = "confirm"
  /\ conn' = TRUE
  /\ Goto("observe")
  /\ UNCHANGED <<destVars, read, report, wire, late, saved, stopped, sent>>

Confirm ==
  /\ pc = "observe" /\ conn
  /\ op = "write" => dest[cur] # "special" /\ (dest[cur] \in Files => cur \notin Unreadable)
  /\ \/ Judge(op, cur) = "done" /\ Proceed
     \/ Judge(op, cur) # "done" /\ FailOp(Judge(op, cur))
  /\ UNCHANGED <<destVars, read, route, saved, stopped, sent>>

ConfirmFails ==
  /\ \/ pc = "confirm"
     \/ pc = "observe" /\ ~conn
     \/ pc = "observe" /\ op = "write" /\ (cur \in Unreadable \/ dest[cur] = "special")
  /\ FailOp("unknown")
  /\ UNCHANGED <<destVars, read, route, saved, stopped, sent>>

----------------------------------------------------------------------------
(***************************************************************************)
(* The agent and the connection.                                           *)
(***************************************************************************)
AgentStep ==
  /\ conn /\ wire \in {"sent", "begun"}
  /\ \E ans \in {"begun"} \cup Answers:
       /\ Perform(op, cur, wire, ans)
       /\ wire' = ans
  /\ UNCHANGED <<touched, raced, read, report, conn, late, client>>

\* A request of an agent whose connection is lost goes on, or dies with it.
LateStep ==
  /\ \E r \in late, ans \in {"begun"} \cup Answers:
       /\ Perform(r.op, r.path, r.st, ans)
       /\ late' = (late \ {r}) \cup (IF ans = "begun" THEN {[r EXCEPT !.st = "begun"]} ELSE {})
  /\ UNCHANGED <<touched, raced, read, report, conn, wire, client>>

LateDies ==
  /\ \E r \in late: late' = late \ {r}
  /\ UNCHANGED <<destVars, read, report, conn, wire, client>>

\* The connection is lost, or the agent is silent for too long.  A request it
\* was working on stays where it is, or is still worked on by the old agent.
LoseConnection ==
  /\ Remote /\ conn /\ pc # "done"
  /\ conn' = FALSE
  /\ \/ UNCHANGED late
     \/ /\ OldAgentOutlives /\ wire \in {"sent", "begun"}
        /\ late' = late \cup {[op |-> op, path |-> cur, st |-> wire]}
  /\ UNCHANGED <<destVars, read, report, wire, client>>

OthersStep ==
  /\ pc # "done"
  /\ Others
  /\ UNCHANGED <<read, report, route, client>>

Done == pc = "done" /\ UNCHANGED vars

----------------------------------------------------------------------------
ClientStep ==
  \/ Inspect \/ ReadBackups \/ BatchRefused \/ TakeNext
  \/ RelistRefused \/ Relist \/ Rehash
  \/ BackUp \/ BackUpFails
  \/ SendRefused \/ Send \/ Receive \/ RootCheck
  \/ ReconnectToRead \/ GiveUpRead \/ LoseChange
  \/ ReconnectToConfirm \/ Confirm \/ ConfirmFails

Next == ClientStep \/ AgentStep \/ LateStep \/ LateDies \/ LoseConnection \/ OthersStep \/ Done

Spec == Init /\ [][Next]_vars

\* The command is a sequential program, and every wait for an agent ends with
\* an answer or with a time-out, which counts as a lost connection.
FairSpec == Spec /\ WF_vars(ClientStep) /\ WF_vars(AgentStep \/ LoseConnection)
----------------------------------------------------------------------------
(***************************************************************************)
(* Properties.                                                             *)
(***************************************************************************)

\* Once a side is stopped (connection lost, root_dir gone) no change is sent to
\* it any more: target_io::for_side hands out StoppedTargetIo.
NoRequestAfterStop == [][stopped # "no" => sent' = sent]_vars

\* change_on_route: a change whose answer is lost is never sent again.
AtMostOnce == \A i \in Paths, o \in Ops: sent[i][o] <= 1

\* After a path failed because the connection was lost or root_dir was gone,
\* every later path fails and nothing is done to it (REQ-ssh-022, REQ-merge-044).
LaterPathsUntouched ==
  \A i, j \in Paths:
    (i < j /\ why[i] \in {"rootgone", "notdone", "partial", "unknown", "read"})
      => result[j] \in {"pending", "Failed"} /\ effects[j] = {}

\* The steps a path's change consists of, and those that were carried out
\* (a directory made for several paths needs its permissions set once).
Needed(i) ==
  {FirstOp(i)} \cup (IF Replaces(i) THEN {"link"} ELSE {})
               \cup (IF i \in newDir THEN {"chmoddir"} ELSE {})
               \cup (IF Kind[i] = "WriteFile" /\ WrittenFile(i) = "Set" THEN {"chmod"} ELSE {})

CarriedOut(i) ==
  effects[i] \cup {o \in {"chmoddir"} : \E j \in Paths: o \in effects[j]}

\* What a failure that is not called one after a change may have done: a write
\* that is refused may have cut the file short before (and is not read back),
\* and a change whose answer was lost and cannot be observed may have been
\* carried out, in part or in full.  It is the path's first change in both cases.
Attempted(i, w) ==
  CASE w = "refused" -> IF FirstOp(i) = "write" THEN {"begin"} ELSE {}
    [] w = "unknown" -> {FirstOp(i)} \cup IF FirstOp(i) = "write" THEN {"begin"} ELSE {}
    [] OTHER -> {}

\* If nobody else worked on the path, the report tells whatever was lost on the
\* way what was done: "done" means every step was carried out, "not written" that
\* one was not, "partially written" a write that was cut short, and a failure
\* after a change that the path's first change was carried out, or cut short.
\* Any other failure means that nothing was done, but for the two in Attempted:
\* in particular a refused write leaves at most a file cut short (which Applied::
\* Failed, documented as the reason for not having changed, does not tell), and a
\* refused removal or link nothing (judge, is_partially_written, AfterChange).
ReportIsExact ==
  \A i \in Paths \ touched:
    /\ result[i] = "Done" => Needed(i) \subseteq CarriedOut(i)
    /\ why[i] = "notdone" => ~(Needed(i) \subseteq CarriedOut(i))
    /\ why[i] = "partial" => "begin" \in effects[i] /\ "write" \notin effects[i]
    /\ result[i] = "Failed" => effects[i] \subseteq Attempted(i, why[i])
    /\ result[i] = "FailedAfterChange" => why[i] = "partial" \/ FirstOp(i) \in effects[i]

\* The first thing a merge does to a path, it does to the state that was
\* compared, unless others changed the path after the recheck began
\* (REQ-merge-011 and its accepted window; REQ-merge-040).
ChangesOnlyWhatWasCompared ==
  [][\A i \in Paths:
       (effects[i] = {} /\ effects'[i] # {} /\ i \notin raced) => dest[i] = Compared[i]]_vars

\* With backups on, nothing that was there is overwritten, removed or replaced
\* before a copy is saved, and the copy is the compared entry unless others
\* changed it meanwhile (REQ-backup-002).
BackedUpBeforeChange ==
  \A i \in Paths:
    (Session /\ Compared[i] # "absent" /\ effects[i] # {}) =>
      saved[i] # "none" /\ (i \notin touched => saved[i] = Compared[i])

\* A dry run sends no change, whatever the inspection finds.
DryRunSendsNothing == dryRun => \A i \in Paths, o \in Ops: sent[i][o] = 0

\* The command does no more than MergePromise says, whatever happens to the
\* connection and whatever others do: the requests of change are what is asked
\* for, the backup session is what is kept, the stop mark is what holds the
\* destination back (apply_changes, target_io::for_side, change_on_route).
Promise == INSTANCE MergePromise
  WITH NeedsCopy <- IF Session THEN {i \in Paths : Compared[i] # "absent"} ELSE {},
       Rank <- [write |-> 1, remove |-> 1, link |-> 2, chmoddir |-> 3, chmod |-> 4],
       asked <- sent, held <- stopped # "no", dry <- dryRun,
       kept <- {i \in Paths : saved[i] # "none"}
MergePromised == Promise!Spec

\* Every path gets a result, however often the connection is lost.
EveryPathIsReported == <>(\A i \in Paths: result[i] # "pending")
=============================================================================
