# remote-merge in TLA+

Specifications of `remote-merge`, a command that compares and merges files between this machine and servers
reached over SSH. They are kept beside the code: each module names the source it is translated from
(`PROJECT.json`, "map"), TLC checks small instances (`*.cfg`), and TLAPS checks the theorems of the `*Proofs`
modules for every value of the constants.

Abbreviations for paths: `runtime/`, `cli/` are under `src/crates/remote-merge/src/`; `core/` is
`src/crates/remote-merge-core/src/`, `engine/` is `src/crates/remote-merge-engine/src/`, `agent/` is
`src/crates/remote-merge-agent/src/agent/`, `ssh/` is `src/crates/remote-merge-ssh/src/`.

## 1. The system

### 1.1 Parts and how they interact

A command (`merge`, `sync`, `diff`, `status`, `rollback`) runs in one process and in one thread of control. For
each server it opens an SSH connection, starts an *agent* there (the same binary, deployed when needed) and
exchanges framed requests and answers with it, one at a time. The agent performs each request on the file system
of its machine. Backups of what a command overwrites go to a directory of the local user that every command of
that user shares. So the concurrency is between

* the command and the agent, with a connection that may be lost at any moment, before or after a request took
  effect, and with an agent that outlives its connection;
* the command and other processes on the destination machine, which change the same files;
* several commands of one user, which share the backup store, `known_hosts` and the deployed agent.

| part | state | operations | hard because |
|---|---|---|---|
| merge apply: `runtime/merge_apply.rs`, `merge_change.rs`, `merge_inspect.rs`, `merge_permissions.rs`, `compare_checks.rs` | inspection results, contents to back up, per-path result | inspect, read backups, recheck, back up, change, chmod | everything read before a request may be stale; a change of two operations may stop between them |
| route: `runtime/route_retry.rs`, `route_state.rs`, `confirm.rs`, `connection.rs`, `root_watch.rs`; `core/change_check.rs` | open connections, stop marks, the one retry of a read | read with one retry, change without retry, confirm after a loss, stop a side | lost answers, reconnection, a vanished root_dir |
| agent: `agent/server.rs`, `agent/dispatch/` | open files of writes in several parts | dispatch of a request | a request is executed although nobody waits any more |
| machine operations: `core/machine_ops/` | the file system | create parents, write, remove, link, chmod | parents made for a write that then fails; writes that fail midway |
| backup store: `engine/backup_store.rs`, `backup_store_cleanup.rs`, `backup/` | reservations, sessions, areas, records | clean up, reserve, prepare, save, finish, list | many processes, no lock, kills |
| rollback: `cli/rollback.rs`, `runtime/rollback_*.rs`, `engine/treat/rollback*.rs` | the plan of a session | choose, judge, save, restore | all or nothing over stale facts |
| sync: `cli/sync*.rs`, `engine/treat/sync.rs` | one plan and status per destination | compare all, ask once, apply each | one destination fails, the others go on |
| comparison: `core/compare/`, `runtime/compare_*.rs` | pairs, pending contents | judge, ask for contents, settle | answers that contradict the listing |
| scan: `core/scan/`, `agent/tree_listing.rs` | visited directories, counters, pending links | walk, resolve links | cycles, limits, several starts |
| treatment: `engine/treat/` | none | plans, exit codes | case analysis |
| diff and conflicts: `core/diff/`, `engine/treat/hunk_merge.rs` | none | script, hunks, apply those selected, find conflicts | numbers shown stand for several changes; the same text in other bytes; ranges that touch |
| path resolution: `core/path_resolution/`, `core/relative_path/` | none | resolve links | loops, escapes from root_dir |
| agent deployment: `runtime/agent_start.rs`, `agent_deploy.rs`, `agent/deploy/` | the binary and its temporary file | check, upload, verify, move | two commands deploy at once |
| client and protocol: `agent/client/`, `agent/ssh_transport.rs`, `src/crates/remote-merge-protocol/` | bytes in flight | frame, send, receive | answers in several parts |
| known hosts: `ssh/known_hosts*.rs`, `ssh/host_key_verifier.rs` | the known_hosts file | decide, append | concurrent appends |
| configuration: `src/crates/remote-merge-config/` | none | merge layers, include rules | which layer wins |
| command line, output, telemetry | log file | parse, print | nothing that a model shows better than a test |

### 1.2 What makes each part correct

* merge apply and route: a change is sent at most once; nothing is changed that was not compared; what is
  overwritten is in the backup store first; after a stop the side is left alone; each path gets a result, and the
  result is the truth; a dry run changes nothing.
* backup store: IDs are unique and ordered; what was reported as saved can be read until it expires; nothing half
  written looks like a record; a session keeps its reservation; an unused session leaves nothing; every run ends.
* rollback: a session is restored wholly or not at all by plan; a path is saved before it is restored.
* sync: the failure of one destination neither stops nor hides another.
* comparison and treatment: no difference is reported as equality, and nothing is written on a failed reading.
* diff and conflicts: a merge of hunks replaces what was shown and selected and no other byte; changes of both sides
  that meet are one conflict.
* scan: what it leaves out without saying so is not there, and what it lists was there.
* agent and client: an answer is taken for the answer to its own request only; a change that fails leaves nothing
  but what its answer names.
* deployment and known_hosts: no key is used that nobody vouched for, no line is damaged but one that a failing write
  has left unended, what is started is the program's own agent, and two commands at once leave a usable binary (they
  do not: run `deploy`).

`PROJECT.json` "hazards" lists the places where these can go wrong, each at its line.

## 2. Modules

| module | models | used by |
|---|---|---|
| `Destination` | the file system of a destination and the operations the agent performs on it, a path at a time, with other processes at work | `MergeApply`, `Rollback` |
| `MergeApply` | one `apply_changes` from inspection to the results: connection, agent, retries, stop marks, confirmation | |
| `MergePromise` | what merge and sync promise of a destination, without requests and connections | instantiated by `MergeApply` |
| `BackupStore` | several runs on one backup store | |
| `Rollback` | one `rollback` from the choice of the session to the exit code | |
| `Verdicts` | the rules of `core/compare/`: table of states, pairs, judging, settling | `Treatment` |
| `Treatment` | the rules of `engine/treat/`: what a command needs of a pair, plans, exit codes | `Comparing` |
| `Comparing` | one `status`, `diff`, `merge`, `merge --hunks` or `sync` from the listings to the exit code | |
| `KnownHosts` | how a key is judged, and what an append does to the file | `Connect` |
| `Connect` | several runs that connect to one server, deploy the agent, start it and lose it | |
| `AgentFiles` | how an agent carries out a change, system call by system call | `AgentSession` |
| `AgentSession` | requests and answers between the client and up to three agents | |
| `Scan` | one scan of a machine, call by call | |
| `HunkMerge` | the diff of two texts, its hunks, what `merge --hunks` writes, and the conflicts with a reference | |
| `MCMergeApply`, `MCBackupStore`, `MCRollback`, `MCComparing`, `MCConnect`, `MCAgentSession`, `MCScan`, `MCHunkMerge` | instances for TLC | |
| `MergeApplyProofs`, `RollbackProofs`, `BackupStoreProofs`, `ConnectProofs`, `AgentSessionProofs`, `AgentWritesProofs`, `ComparingProofs` | theorems (section 4) | |
| `DestinationProofs` | lemmas about `Destination` | `MergeApplyProofs`, `RollbackProofs` |

The same code appears at two grains where two questions are asked of it. A write is two steps in `Destination`,
where the protocol around it matters, and some ten in `AgentFiles`, where its parents, its owner and its parts do. A
change is one step with its recheck in `Comparing`, where the plan matters, and `MergeApply` is that step. The text
that a merge of hunks writes is one content in `Comparing` and made of lines in `HunkMerge`.

### 2.1 `Destination`

`dest[i]` is what stands at path `i` (`"absent"`, `"old"`, `"new"`, `"partial"`, a link, something other, or
`"special"`: neither a file nor a link), `dir` the one directory D that holds the paths `InDir` (missing, made by a
write of the command, there already, a plain file, a link to another directory or one that leads nowhere), `root`
whether root_dir is there, `perm` the permissions. `Perform` is `Dispatcher::dispatch_into`: it picks the operation,
each with its refusals; a write is two steps (`BeginWrite` opens and truncates, `FinishWrite` writes), because it can
fail, be interleaved and be cut off between them. `OthersChange`, `OthersChangeDir` and `OthersRemoveRoot` are other
processes; `OthersMay`, `OthersDir` and `RootMayGo` bound what they do. `effects`, `touched` and `raced` record, for
the properties only, what the command's own operations did to a path and whether others interfered.

Contents are abstract: `"old"` is the compared content, `"new"` the content to write, `"other"` anything else.
A single ancestor directory stands for the chain of parents; `AgentFiles` has the chain.

### 2.2 `MergeApply` and `MergePromise`

`pc` walks through `apply_changes`: `inspect`, `read` (the batch of backups), then for each path `cur` the recheck
in two requests (`relist`, `rehash`), the backup, the operations (`write`; `remove` and `link` for a link that is
replaced; `delete`; then `chmod` of new directories and of the file), each with its request on the `wire`. `dryRun`
is chosen at the start: in a dry run each path ends as `Planned` before its recheck, unless its inspection refuses it
already. A read
that is lost is asked once more on a new connection (`retried`); a change that is lost is never sent again: the
state is observed on a new connection and judged (`Judge`, from `core/change_check.rs`), and the side is stopped
(`stopped`) with its first cause. `sent` counts the requests of each operation and path. `result` is the outcome
of a path with `why`.

The agent takes a request from the wire (`AgentStep`), the connection may be lost in any state
(`LoseConnection`), and with `OldAgentOutlives` the agent of a lost connection goes on with what it was doing
(`LateStep`) or dies (`LateDies`), since `disconnect_agent` does not wait for it.

`MergePromise` says what this comes to for whoever calls it: paths are settled in their order, a change is asked for
at most once, in the order a path needs its changes, only while the path has its turn, only after a copy was kept
where one is due, never once the destination is held back, and never in a dry run. `MergeApply` maps `result`, `sent`,
`inStore`, `stopped # "no"` and `dryRun` to its variables (`Promise`, `INSTANCE ... WITH`) and `MergePromised` is its
specification. Requests, answers, retries, confirmations, the agent and others are stuttering steps.

### 2.3 `BackupStore`

The directory tree is four sets: `reservations`, `sessions`, `areas` (one per session and destination) and
`entries` (in `pending/` or `records/`, whole or not). Each run walks through `Begin` (it reads the clock),
`Start` (cleanup, which comes after all comparing and asking), `CleanEntry` ... `CleanRelease`
(`remove_expired_session`), `ReserveList` and `Reserve` (`reserve_session`), `Prepare`, the saves and
`finish_session`. Each step is one change of a directory, so that the steps of several runs interleave as the
system calls do; `mkdir` and `rmdir` are atomic, as POSIX has them. `Crash` kills a run anywhere, `CannotStart` is
any I/O error before the first write, `SaveFails` one of a save. The store may begin with the reservations that
earlier runs of the same second have left. `LongRuns` allows a run to last for more than a
day after its reservation.

### 2.4 `Rollback`

`pc` walks through `execute_rollback` and `restore_session`: `choose`, `prompt`, `records` (the records of the session
are read one by one), `inspect` (where each path and its parent lead, `inspect_under_root`), `scan` (what each path
holds, `target_states`), and there `Decide`: `Judge` gives each path its verdict from the record and both answers, and
`Plan` makes the treatment of the whole session from the verdicts (`rollback_plan`). What is to be restored is then
read in a batch (`batch`; contents with backups on, hashes otherwise) and taken path by path: `save`, `readback`, the
change (`write`, or `remove` and `link`) and its confirmation after a loss. Retries, stop marks and the root_dir check
are those of `MergeApply`; they are stated again because the callers handle the errors in another way. `RecordGoes`
is the cleanup of another command, which may remove the session while the user is asked. In the terms of
`Destination`, `"old"` and `"oldlink"` are what the merge put there, `"new"` and `"newlink"` what the record holds, and
`"foreign"` is D at the real path that the record names.

Not in this module: an agent that outlives its connection (see `late`), the directories of the store (see
`BackupStore`), and what `--list` prints. A hash batch does not look for a root_dir that is gone: `RootWatch` passes
`states_before_restore` through. A path that holds a directory or a special file, or whose name cannot be shown, fails
by itself before anyone looks at where it leads (`judge_file`, `engine/treat/rollback.rs:156`), so it does not keep
the others from being restored, although REQ-backup-003 speaks of any path that leads elsewhere.

### 2.5 `Verdicts` and `Treatment`

Pure operators. A state is what a listing says of a path: absent, a file with size and time (and the number of digits
the time is known to), a directory, a link with its text and what it leads to, other. `StateTable` joins the listings
(`core/compare/`): only a listing that is whole says that a path is absent. `Judge...` operators give each pair of
roles its verdict or what it still waits for; `SettlePairs`, `LosePairs` and `ApplyReads` take in hashes, losses and
contents. `Treatment` has what each command asks for (`HashesUsed`, `ContentsUsed`), the targets of a merge, the
entry of a path (`MergeEntry`, `WithReadFailure`, `WithLinkText`), the check against a reference (`ReferenceCheck`),
the plan of a whole merge with the subtrees it leaves out (`MergePlan`), what `status` and `diff` list, and the
exit codes. Contents are atoms, so a hash is the content itself.

### 2.6 `Comparing`

One run of a command over the left side, one right side after the other (several for `sync`), and a reference.
`pc` goes through `connect`, `list` and `facts` for each role (a listing and, for links on the way, whether they lead
outside), `collected`, `hash`, `judge`, `read`, `settle` (names the scan of their directory did not list are listed
by themselves in a second round), `plan`, `confirm` (the question of `sync`) and `apply`. Each request is a step, so
that others (`OthersStep`) may change any side between a listing, the hashes of a batch, its contents, the plan and
the write; a request may end with the connection lost, root_dir gone, or an answer missing. `Change` is
`apply_changes` for one path in one step: it compares once more (`Unchanged`), needs something to write, and writes,
or loses the answer after or before the effect. `cache` is what a sync keeps of its source. `had` remembers, for the
properties only, what the source had when it was scanned, and for each right side when it was last listed.

A named file that the filter keeps out of the scan goes through the second round, which a sync makes anew for each
destination (`compare_named_files`, `cli/merge_files.rs:164`, passes nothing on that could be used again; `Known` is
empty there). So "the same is written to each destination", as the comment in `plan_targets` has it
(`cli/sync_plan.rs:85`), holds of what was scanned (`SameScanForAll`) and not of such a file: run `sync`.

### 2.7 `KnownHosts` and `Connect`

`KnownHosts` judges a key by the lines of the file (`JudgeHostKey`: revoked first, then the first line for host and
type) and says what an append makes of a file whose last line has ended or not.

`Connect` has any number of runs of the program on one user's machine and one server. A run connects, is shown a key,
asks the user, appends to known_hosts (open, newline and line are three steps; a write may fail with nothing, a part
of the line or all but its newline written, `Fragments`), connects again and takes only the
approved key, authenticates, checks sudo, looks at the agent's directory and clears one that others can write to,
checks version and hash of what is installed, uploads to the one temporary file in two halves, and runs the script that
makes it executable, compares, tries and moves it: every command of the script is a step. A file is two halves, so that
two runs can mix contents; the temporary file, the binary and an open handle are names for it. Then the agent is
started, used, lost and started again over the same connection, then over a new one, then not at all; a run that once
chose the agent does not choose again. `LoseStarting` and `LoseConnecting` lose any command, `Kill` ends a run
anywhere. A script whose connection is lost is taken to stop where it is.
`vouched`, `disturbed` and `early` are for the properties only. `early` holds the runs that had looked at the last byte
of known_hosts before a write in part ended there: they still write on in that line, since nothing makes looking and
writing one step, and `Glued` says what becomes of it. It keeps its host and type, with another key, so that the host
is judged to have a changed key, even if all of the line but its newline was there. `LinesStayWhole` says that this is
the only way to damage a line.

### 2.8 `AgentFiles` and `AgentSession`

`names` maps paths to nodes and an open file is a node, so that a rename does not follow an open file's path.
`AgentFiles` takes each request through its calls: look, open, find and make parents, create exclusively, set owners
(an agent of root), write a part, and on a failure undo what was made from the bottom up, naming what is left; then
remove and chmod. Others act between any two calls, and a call may fail.

`AgentSession` puts the client around it: frames in order, one request at a time, contents cut into frames of
`FrameLimit` pieces and joined by the client (`Joined`), parts of a write sent one by one. A client that gets no
answer, or one it cannot make sense of, drops the connection with what is on it and starts another agent, while the
one before may still be at work on what had arrived. A read is sent once more, a change is not; after a change was
lost the client only looks at the entry.

Two small windows of the code are in the model and no property forbids them: between the comparison of the inode and
the `unlink` of a file that is taken back (`agent/dispatch/writes.rs`), somebody may put another file there; a link
whose owner cannot be set is removed by its name.

### 2.9 `Scan`

`fs` is a tree of directories (with identities and rights), files, links and others. A scan (`core/scan/`) goes in
rounds: the questions of a round (`StartRound`) are answered one by one, each by its `lstat` (`LookAtEntry`), for a
link by where it leads (`LookAtTarget`), for a directory by reading it and what is below it (`ReadDirectory`,
`LookAtChild`); `Take` puts the answers into the listing (`walk`), counts them against the limit, notes cycles, what
was unreadable and what changed, and asks about the links met in the next round. `Change` is others, between two
calls. The scopes are those of the commands: the whole tree, include values, directories, both, named paths and the
children of a path.

### 2.10 `HunkMerge`

A content is a sequence of lines, and a line is what it reads as (`text`), whether it has ended, and which bytes
write it (`raw`): in EUC-JP or Shift_JIS two byte sequences may read the same, and `Text::raw_line` keeps those of the
destination. `Script` is `build_script`: the lines of both texts in one sequence, each equal, deleted or inserted.
Which lines are taken for equal is up to the library `similar`; the model takes it to find a longest common
subsequence and leaves open which (`Matches`), and to give deletions before insertions between two equal lines.
`BuildHunks` groups the changes with context (`DisplayHunks`, what `diff` numbers) and without (`MergeHunks`, the
changes), `MergeHunksIn` finds the changes of the hunks selected, `Applied` is `selected_lines`. `Changes`,
`Meetings` and `MergeOverlapping` are `core/diff/conflict.rs`, with sets of line numbers as there. `MergePrepared` is
the whole of `merge_prepared`, each refusal in its order, on what the sides hold; what is written is read again as bytes
(`Reread`) by the next merge. `ShowConflicts` is what `diff --ref` shows.

`OnlyTheSelectionIsReplaced` compares what is written with `Patched`, which splices each selected hunk, as it was
shown, into the text at the place its head names. The code goes another way, by line numbers of the script.

The doc comment of `ConflictRegion` (`core/diff/conflict.rs:18`) calls `left_lines` the lines that replaced the range
of the reference. They are the lines inserted by the changes: a line of the range that a side kept is not among them.

## 3. Runs

| run | instance | properties | what it shows |
|---|---|---|---|
| `files` | `MergeApply`: a new file in a directory to be made and a rewritten file, dry or not, others at work on both, root_dir may vanish, the connection may be lost anywhere | `LaterPathsUntouched`, `ReportIsExact`, `BackedUpBeforeChange`, `ChangesOnlyWhatWasCompared` | the protocol changes nothing that was not compared and saved, keeps off after a stop, and its report tells what was done: a failure that is not called one after a change hides no more than a refused write that had begun or a lost change that nobody could observe |
| `late` | four paths: a rewritten file, a link replaced in two operations, two deletions, one of a file that cannot be read; an agent that outlives its connection; with fairness | `MergePromised`, `EveryPathIsReported` | the protocol implements `MergePromise`, and each path gets a result. That results are true is not claimed here: an agent that finishes after the confirmation makes one stale |
| `pair` | `BackupStore`: a sync of two destinations and a merge that knows one of them, on a store where earlier runs of the second have reserved or not, a kill of the sync, days passing; with fairness | `IdsAreNeverReused`, `LaterIsNewer`, `SavedIsKept`, `RecordsAreWhole`, `SessionsAreReserved`, `NothingIsLeft`, `EveryRunEnds` | IDs are unique and ordered, what was saved is kept whole, nothing unused is left, runs end, also where no ID is left |
| `reuse` | retention 0 | `IdsAreNeverReused` violated | `finish_session` releases the reservation of a session that another run removed |
| `session` | `Rollback`: a file in D and beside it a link, a file, or a link that was replaced by a file; D and the paths as a later day may leave them; losses, root_dir and the records may go | `ReportIsTrue`, `SavedFirst`, `ExitZeroMeansRestored`, `SessionIsWhereItWas`, `CommandEnds` | a session is restored only where it was and each path only after it was saved; report and exit code are true; the command ends |
| `compare` | `Comparing`: a directory with a file and a file beside it, on up to four sides: the same or different, links inside and out of the root, to directories or nowhere, a size over the limit, listings that a limit cuts | `ExitZeroMeansMerged`, `AnswerIsTrue`, `SyncIsOfOneSource`, `OneTargetFailsAlone`, `OnlyTheReferenceIsOverwritten`, `DeletesOnlyWhatTheSourceLacked`, `HunksGoIntoWhatWasRead`, `CommandEnds` | from listings that are not whole, answers that are lost and sides that move, no command tells of equality, deletes or overwrites where it may not |
| `sync` | the syncs of `compare`, with a file that is named and that the filter keeps out of the scan | `SameSourceForAll` violated | such a file is read from the source once for each destination, and when it changes in between they get different contents |
| `connect` | `Connect`: two runs of two builds of one version, a server with two keys, all states of known_hosts, of the directory and of what is installed; a loss, a kill and a write to known_hosts that fails, wholly or in part | `NoUnseenKey`, `OnlyItsOwnUnlessDisturbed`, `NothingIsLeftOpen`, `LinesStayWhole`, `EveryRunEnds` | only vouched-for keys are used, a line is only ever damaged by a run that looked before a write in part left it unended, a run starts its own build unless another run was replacing it, and it never goes on without the agent |
| `deploy` | two runs of the same build on an empty server | `InPlaceIsWhole` violated | one run empties the temporary file between the other's check and its `mv` |
| `agent` | `AgentSession`: short programs of writes in parts, symlinks, removals, chmods and reads in several frames, over bare and full trees, with failing calls, lost answers, refused requests and others | `ResultsAreTrue`, `WrittenAsSent`, `NothingIsLeftUnsaid`, `NothingThatAppearsIsOpened` | an answer belongs to its request; a write is whole and in one file; a failed change names what it left |
| `scan` | `Scan`: eight trees (links to a directory, to each other, upwards, to themselves, to nothing; closed directories; a name that is not UTF-8) under all scopes, exclusions and limits, with two changes by others | `NothingIsMissed`, `ListedWasThere` | what is there all the time is listed or the listing says it is not whole; what is listed was there |
| `hunks` | `HunkMerge`: all pairs of texts of up to three lines over two words, with and without a last line that has ended; longer ones with one and two hunks; two byte forms of one text, a BOM, other encodings, sides that are absent, binary or not to be decoded; changes of two sides to one reference; one or two merges | `ConflictsAreApart`, `OnlyTheSelectionIsReplaced`, `EachMergeIsCloser` | a merge of hunks writes what was shown and selected and keeps every other byte; merging hunk by hunk arrives; conflicts are neither joined nor torn apart |

The liveness runs are those with `FairSpec`. Deadlock is checked in all of them: each module says where it really
stops (`Done`, `Finished`); `HunkMerge` has no end of its own, its run ends with its merges and does not check it.

What three sentences of the documents say more broadly than the code does, without a run of their own: `Failed` is
documented as "変えなかった理由", the reason for not having changed (`runtime/merge_apply.rs:58`), but a write that is
refused midway has cut the file short (docs/ir/merge/concurrency.md:56) and is still `Failed`, as is a change whose
answer was lost and that could not be observed. `ReportIsExact` has both cases as clauses of its own (`Attempted`): such
a failure has at most begun, or, if its answer was lost, carried out the path's first change, every other plain failure
has changed nothing, and `FailedAfterChange` means that the first change was carried out or cut short. REQ-backup-013
wants the content that is overwritten saved, and the batch of contents is read before the recheck, so a content that
was there only in between is what is saved; REQ-backup-003 and `judge_file`, see 2.4.

### 3.1 Bounds

`MergeApply`: two paths (`N`) in `files` show what the end of one path does to the next; `late` has one of each kind of
change, and one more for the refusal of a batch; one directory; the number of losses is not bounded (a second loss stops the side). `BackupStore`: three runs
are needed for a reuse (one that owns the ID, one that cleans, one that takes it), and `reuse` has them; `pair` has two
and the reservations of earlier ones, up to the last of the second (`MaxSeq` 2), and what it says of IDs is proved for
any number of runs (section 4). A day is two clock units, so that a reservation can cross a second and two units make
a session expire.
`Rollback`: two paths are enough for one that blocks the other; D holds one of them, so that a path can lead elsewhere
while the other does not. Others may remove D, and rewrite the second path. `--force` only decides whether
there is a prompt (and which sessions may be chosen): with `Forces = {FALSE}` the dry runs of `session` take the branch
without one.
`Comparing`: `MaxMoves = 1` and `MaxFailures = 1`: one change by others in any place between two requests, and one
request without an answer; `MaxEntries = 2` lets the limit cut listings of three. `HunksGoIntoWhatWasRead` needs this
bound: with two moves a content can be replaced while the text is read and come back before the check, which compares
the hash that was read before the text; the property shows that no single change gets through.
`Connect`: two runs, one loss, one kill and one short write (enough for a line that is cut off while the other run has
looked already and then writes on in it); a second loss of a run repeats the first with a later
`mode`, which the loss of the first connection and of the agent already separate. `AgentSession`: the budgets are set
per start, so that a start has the faults its program is about; three agents are what two losses need.
`HunkMerge`: the context around a hunk is one line in place of three, so that two hunks that are shown fit into seven
lines; two merges, so that the numbers of the second are those of what the first left.
`Scan`: two changes, paths of up to three names, three links in one lookup in place of the kernel's forty.

### 3.2 Fairness

`FairSpec` of `MergeApply`: the command takes its next step when it can (it is one thread that blocks only on the
agent), and a request that is waited for is answered or the connection is lost: the SSH transport ends a silent
connection by its keepalive and the client sees the end of the stream. Nothing is assumed about others.
`FairSpec` of `Rollback`: the same. Nothing is assumed about the answer of the user: `CommandEnds` begins when the
records are read.
`FairSpec` of `BackupStore`: each process is scheduled; neither an error nor a kill is bound to happen.
`FairSpec` of `Comparing`: the command goes on; a request is answered or fails, by the timeout of the transport.
`FairSpec` of `Connect`: each run goes on by itself. That it ends rests on the code's one renewal of a connection:
the mutant that tries again until the connection is made does not end.

## 4. Theorems

`MergeApplyProofs` proves, for every set of paths, plan and environment the constants allow, that `IInv` is an
inductive invariant of `Spec`, and from it

* `TypeCorrect`, `ChangesAreSentAtMostOnce`, `StopProtectsLaterPaths`, `BackupComesFirst`, `DryRunIsHarmless`
  (invariants), and
* `StopIsFinal`, `FirstChangeIsToTheComparedState` (action properties).

`AtMostOnce`, `NoRequestAfterStop` and `DryRunSendsNothing` have no run of their own: run `late` checks them as parts
of `MergePromised`.

`IInv` strengthens the type invariant by what the control points know: `Shape` (which operation and path a control
point can be at, and what has been concluded), `Requests` (how often each operation of the current path has been
sent at that point, and that later paths have sent nothing), `AfterStop` (a stopped side has nothing on the wire but
what was already sent), `Unchanged` (until its first request the command has not touched a path) and `Saved` (what is
in the store when the first change is about to be sent). Each theorem about a number of requests needs `Requests`,
because "at most once" alone says nothing about what is still to come. The assumptions are those the modules name on
their constants. The proofs have one lemma per group of actions and one step per action below it.

`MergeApplyProofs` also proves `MergeKeepsItsPromise`, `Spec => MergePromised`: the initial states map to initial states,
and every step is a step of `MergePromise` or none. It rests on `IInv` and on one more invariant, `Turns`: what comes
before the current path is settled, and what comes after it is not. The proof has one lemma for each kind of step:
`SettlingIsSettle` (a path is concluded), `RefusingIsRefuseAll` (the inspection failed), `BackUpIsKeep`, `SendIsAsk`
(the request of a change goes out: here `Requests` gives that none of the same or a later rank went before), and
`OtherStepsAreQuiet` for the agent, its late steps, the connection and others; `PromiseStep` puts them together.

`BackupStoreProofs` proves of the backup store, for every number of runs, destinations and paths, every length of a
day and every retention unless it is named:

* `RunningIdsDifferHolds`: runs under way have different IDs, however long they take;
* `NeverReused`: no ID under which something was reported as backed up is given out again, *if the retention is not
  0*; the run `reuse` shows that the condition is needed;
* `LaterIsNewerHolds`: IDs are in the order of the reservations;
* `SavedIsKeptHolds`, `RecordsAreWholeHolds`: nothing that was saved is lost or half removed before it may go;
* `SessionsAreReservedHolds`: a session has its reservation, *if no run lasts for a day after it took its ID*.

The runs have no lock, and "the ID of a run is in `reservations`" is not an invariant: a cleanup removes the
reservation of a run that lasts too long. `Held` is the weaker fact that is: the ID is reserved or a day old (`Old`).
It is enough, because a run tries an ID only within a day of its time (`Times`; in the model `InTime` bounds the time
between reading the clock and `mkdir`), so it never tries one that is old. Each further theorem adds one conjunct
group to `IInv`: `Torn` (only a cleanup takes an entry apart, and only an expired one of a configured destination),
`Spent` (what `Held` says, for runs that have ended and saved), `Ordered`, and `Guarded` (a session about to lose its
reservation does not come back).

`ConnectProofs` proves the safety properties of the run `connect` for every number of runs, keys, builds, losses,
kills and lines written in part:

* `OnlyVouchedKeys` (`NoUnseenKey`) and `AgentOrNothing` (`NothingIsLeftOpen`), from `RouteOf`: a run that is still
  connecting holds nothing, one that starts an agent has a connection, and a connection or a step towards one has a key
  that was vouched for;
* `LinesAreNeverBroken` (`LinesStayWhole`): when a run that has looked writes its line, the last line has ended or the
  run is in `early` (`LinesInv`), since only a write in part can end without a newline after the run looked. So every
  line stays, the user's unended one and what earlier runs left included, but for a last line that was cut off after a
  run that then writes had looked. `WithLineKeeps` is the lemma about one append. It rests on `StartsWithLines`:
  known_hosts is missing, unreadable or has lines;
* `OwnAgentIsStarted` (`OnlyItsOwnUnlessDisturbed`): where the hashes can be compared, a run between its check and its
  start has its own content in the file it checked, or no file (`OwnFiles`).

Each of these invariants speaks of one run. Another run's step leaves the row of the first alone (`RowsKept`) and
changes a file under a run that relies on it only when it marks the run as disturbed (`FilesKept`); `Kept` proves both
for every action, and the theorems are left with the run's own steps.

`RollbackProofs` proves all four safety properties of the run `session` for every session, number of paths, plan and
environment: `RestorationReportIsTrue`, `NothingIsLostToARestoration`, `ExitZeroIsEarned` (invariants) and
`RestoresOnlyWhatTheMergeLeft` (an action property). Its `IInv` has one part for each question a step can ask. `Shape`
says where the command is and what it cannot have done yet. `Planned` says what the plan has let through: once it goes
on, every path of the session leads to where the merge wrote. `Worked` relates the request in flight to what was done
to its path, and says that a path which is not reported as restored was not touched, the path in hand excepted. `Held`
is what a path holds after what was done to it, if nobody else worked on it (`HeldAfter`); it is what makes a
confirmation after a loss right, because the command only sees what is there. `Saved` and `Told` are the copies and the
results. None of the theorems follows from its own part alone: that the report is true needs `Held` for the state that
is observed and `Worked` for what the lost request may have done.

`MergeApplyProofs` also proves `ReportsAreExact`, `ReportIsExact` for every instance in which no agent outlives its
connection (`~OldAgentOutlives`). Besides what "done", "not written" and "partially written" mean, it bounds what a
plain failure can hide: with the path's first change in hand nothing but that change was begun (`OnlyTheFirst`), a
refused one was not carried out, and with a later one in hand the first was carried out (`EarlierIsDone`). The
hypothesis is the one case that the code leaves open, and that run `late` is about: an agent that finishes its write
after the confirmation makes a true report stale. The invariant is of the same kind as that of `Rollback` (`Orderly`,
`Worked`, `Held`), with several operations on a path in place of one; `Held` has to follow the permissions of a
directory that several paths share.

`BackupStoreProofs` proves `NothingIsLeftHolds` by `Traces`: a session comes from a run that has its ID, and a run
whose ID nobody shares has removed, step by step, what `finish_session` removes.

`AgentSessionProofs` is about any number of agents, any tree, programs, frame limit and faults:

* `TypeCorrect`: besides types, that each step of a job finds what it needs: the file a part is written to is there,
  an answer is of a request that was sent;
* `AnswersAreOfTheirRequests` (`ResultsAreTrue`): what the client takes for the result of an operation is what its own
  request came to. The invariant is `Answered`. In it `Wire` says that at most one request is on its way to an agent or
  in hand there and that the requests of earlier agents are older than the client's own; `Frames` that the frames on
  their way are parts of one answer and only the last one ends it; `Settled` that nobody works any more on a request
  that has a result. `Contents` says that what the client holds, joined with the frames on their way and with what the
  agent is still to cut, is what the agent has read (`Adds`). Contents are joined by a recursive function
  (`Joined`), so the invariant speaks of a run of that function (`Runs`) and two lemmas on runs side by side
  (`RunsAlike`) take the place of an induction.

`AgentWritesProofs` stands on that invariant:

* `NothingThatAppearsIsOpenedHolds`: a write opens what it saw, what it made, or the file that its earlier part has
  open. `Fresh` says this of each job; that a first part finds nothing open is `Streams`, which follows the open file
  over agent, answer and client: a file is kept open only for the next part of what the client is doing.
* `NothingIsLeftUnsaidHolds`: a change that failed before a content was written names what it left. `Left` keeps the
  account: whatever a request made and that still has a name is on the way to its path and is in the list of what was
  made, in what is left already, or the path itself (`LeftOf`); when the job has ended the answer has the account
  (`AnswerTells`). `ByKnown` and `NothingMadeYet` are needed for a new request to begin with an empty account.

* `WrittenAsSentHolds`: a write that is answered with success is whole, in one file, and what was made for it is the
  user's. `Sent` follows the write from its first part to its result: before a part is sent (`Between`), on its way, in
  hand and answered (`WaitsWell`), the parts before it are in the file that is open for the next (`HasParts`), and
  whatever was made since the first part is the user's, or is in the list of what the job has yet to give (`Due`). That
  no earlier agent changes the tree meanwhile is `OneChanges`: once a change is lost the client asks for no more of
  them (`NoMoreChanges`), so the agent it left behind is the last that changes anything.

Their hypotheses are definitions of `AgentSession` that TLC evaluates on the instance of run `agent` (`TheoremsApply`),
and each was found by a proof that failed:

* `PartsAreReadable` (first and third): a program that writes one path twice does not meet a frame the agent cannot
  read. Without it the first theorem is false, of the model and of the code. The agent answers a frame it cannot read and goes on; if that
  was a later part of a write, the file of the earlier part stays in `writing` under its path
  (`agent/dispatch/mod.rs:143-155`), and the next write to that path over this connection adds to the old file instead
  of opening the entry. TLC shows it with `Write("w", 2)`, `Write("v", 2)` and one such frame. The commands change no
  path twice over one connection, so the hypothesis holds of them; nothing in the agent sees to it.
* `FilesAreMovedAside` (second): others move an entry only to a leaf to which nothing else leads back. The undo works by path. An
  entry that is moved away while it is undone and moved back afterwards is left, and not named; no code that works by
  path could do better, so this is a limit of what can be promised and not a defect.

* `DirectoriesStay` (third): others move no directory. The directories that were made are given to the user by their
  paths (`own_created`, `agent/dispatch/ownership.rs:23-34`); when another has moved one away and made its own in that
  place, the agent gives that one to the user, answers with success, and the one it made stays root's. TLC shows it
  with such a move of `a/b` and one write. Ownership that is given by path
  cannot promise more.

`ComparingProofs` is about one command, over any number of destinations, paths, moves by others and failures:

* `SyncIsOfOneSourceHolds`: a sync whose source is lost, gone or not read whole changes no destination, and all
  destinations are planned the same state and the same content of what the scan of the source listed. `Places` says
  where the command can be, and that a source which fails ends it before any result. `ScanOK` follows a path of the
  one scan: the listing that is kept is what each destination is compared with (`ListingsOK`), its state is what stands
  in the table (`TableOK`), a content that was read is what is kept (`ReadOK`), and so the compared pair (`ComparedOK`)
  and each plan (`PlansOK`) have the state and the content that are kept. Names that the scan did not list make a
  second round (`NamesOK` keeps them apart from what was scanned); the theorem says nothing of them, and run `sync`
  shows why.
* `DeletesOnlyWhatTheSourceLackedHolds`: what goes from a destination by a deletion is a file, and the source did not
  have it when it was listed for this destination. The invariant is what "absent" rests on. A whole listing shows
  everything that the source had and that it was to show (`CacheWhole`, `ListedWhole`); a path the table calls absent
  was therefore not there (`TableJudged`), a verdict says "only on the right" for no other (`HashedJudged`,
  `ComparedJudged`), and a plan deletes for no other verdict (`PlansKnown`). The change compares once more, so it
  finds the kind of entry the plan was made for (`UnchangedKinds`). `Trees` says that a side is a tree at any time,
  whatever the command and others do to it; from it follows what goes with an entry that is replaced: a directory is
  never replaced, so only what was seen through a link to a directory (`ThroughLink`).
* `ExitZeroMeansMergedHolds`: where a merge or a sync ends with 0 after its changes, every name was compared, and each
  file of the source that was asked for is the same on every destination or was written there. The danger is a file
  that is dropped without a word between the listing and the result, so `MergeFinds` follows each such file
  (`Sought`) along the way: while nobody changes the source, a listing that is not cut shows it (`SourceShown`), it
  stands in the table with a verdict that a file can have or waits for its hash (`TableFound`), and no hash is missing
  while the destination answers (`HashesAnswered`), so that the file is settled (`HashedFound`), compared
  (`ComparedFound`) and in the comparison of every plan (`PlansFound`). A listing that was cut, a side that was lost
  or a content that could not be read leaves the premises `Whole` or `Fine` and must then be told by the exit code.
  `OutcomesOK` ties the exit code 0 to that: every plan was made, nothing in it failed and every change has its
  result. From a settled file the rules of `Treatment` make a write, a failure or "the same" (`FileIsPlanned`), and a
  failure is not 0.
* `OnlyTheReferenceIsOverwrittenHolds`: while others leave the reference alone, a merge that checks it overwrites only
  what the reference has the same, or puts a file or a link where neither has one, whatever others do to the source and
  the destination. The states, the hashes, the plan and the last look at the destination are of four different times,
  and only the last is of the moment of the write. `ReferenceKnown` therefore ties all that is kept of the reference to
  what it has: its listing (`ReferenceListed`), the states and judged pairs in the table (`TableOfReference`), its hashes
  (`ReferenceAnswered`, `HashedOfReference`), the comparison and the plans (`ComparedOfReference`, `PlansOfReference`).
  A plan writes only what passed the check (`PlanIsChecked`); what passed it and is seen once more before the write
  (`Unchanged`) has the body or the target that the reference has (`SeenAlike`). A hash of the reference is needed
  there: without it two files would count as the same by size and time, and it is always asked for when the two files
  differ from the source or may be (`SettledBoth`). What else a change touches is a directory made on the way,
  or was seen through a link that it replaces (`OthersOfAChange`).

They rest on assumptions that `Comparing` names and TLC evaluates on each instance: `PathsClosed` (what is above a path
is a path), `StartsAreProper` (sides begin as trees; a merge and a sync have at least one path, as
`cli/merge.rs:51` and `cli/sync.rs:55` demand), `MovesAreCounted` (the bound on the moves of others is a number; the
theorems hold for each) and `OthersPutThings` (others put entries that a side can hold). The last one has the hypothesis
`ReferenceIsLeftAlone` (`TheoremsApply` has TLC evaluate it on the instances): a merge reads the reference once and never
again (the check before a write, `runtime/merge_apply.rs`, looks at the destination alone), so a reference that changes
after it was read is not noticed, and the theorem would be false. What single operators of `Verdicts` and `Treatment` give is stated in lemmas of the same module.

Only model-checked, because the proof has not been done: of `Comparing`, `AnswerIsTrue`, which needs of each verdict that it is right while nobody changes the sides; its
types are proved as far as `Places` and `Trees` state them. Only model-checked, because they hold of the instances and
not of all: `OneTargetFailsAlone`, as a command that replaces a link on a destination removes what it saw through
it, and no later path finds that again, so that a target can fail by what its own command did, and
`HunksGoIntoWhatWasRead`, which holds for one change by others (3.1). Only model-checked, because the prover cannot: the properties of `HunkMerge` (folds over texts, so induction over data),
those of `Scan` (a recursive operator looks up a path), and the liveness properties. `TypeOK` documents the values of
the variables of `MergeApply`, `BackupStore`, `Rollback` and `Comparing`; it is proved for the first three, as part of
the inductive invariants. `AgentSession` has its type invariant `TypesOK` in `AgentSessionProofs`, where it is proved.

## 5. Not modelled

* In `HunkMerge`: the direction from right to left (`HunkDirection::RightToLeft`), which no command uses, the cut of
  `--max-lines`, the decoding itself, and the choice `similar` makes among scripts of the same length.
* Path resolution and relative paths (`core/path_resolution/`, `core/relative_path/`): the paths of the modules are
  resolved; only what a side answers about links on the way is in `Comparing` (`Facts`) and `Scan`.
* Configuration, command line, output and telemetry: layers merged by pure functions, parsing and formatting.
* The SSH library's own protocol, and the bytes of a frame.
* In `Scan`: an error in the middle of a directory's iteration, and times that cannot be read. A directory is read as
  a whole when it is opened, and the text of a link is read with its `lstat`: a `readlink` that fails after it, which
  makes a failed path, is left out.
* In `BackupStore`, a kill in the middle of `remove_dir_all` is a step, and what is left of an expired session stays
  until the next cleanup; no property says anything of records that have expired.
* In `MergeApply`: an inspection that fails for one path alone (`runtime/merge_apply.rs:123`) ends the path as one whose
  parent is not a directory does, and has no reason of its own; the outcome `Undetermined` of a confirmation
  (`core/change_check.rs:85`) has no case, since a rewritten file is known by its content or hash; the look of
  `RootWatch` for root_dir after an answer to a read is part of that read's step (after a change it is `RootCheck`).
* In `AgentFiles`, `Chmod` reads and sets the permissions in one step. `TextConflicts` of `HunkMerge` sorts meetings by
  start and end, the code by start alone and stably: an empty and a longer meeting of one start do not both occur.
* In `MergeApply`: a directory that others make between the inspection and the write is given the configured mode as
  if the write had made it (`runtime/merge_permissions.rs:26`); the step is there, and no property restricts it. A
  local destination is the same protocol without a connection and has no instance.
