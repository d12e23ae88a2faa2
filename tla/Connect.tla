------------------------------ MODULE Connect ------------------------------
(* How runs of the program connect to one server: the key of the server, the *)
(* choice of the agent, the agent's binary and its start, and what is done   *)
(* when the connection is lost.  The runs share the known_hosts file of the  *)
(* user and, on the server, the directory of the agent.  Every command that  *)
(* a run sends over SSH is a step, and so is each command of the script that *)
(* checks an uploaded binary: between two of them the other runs go on, the  *)
(* connection may be lost, or the run be killed.                             *)
EXTENDS KnownHosts, FiniteSets, TLC

CONSTANTS
  Runs,        \* the runs of the program
  Local,       \* the content of the agent binary that each run has
  VersionOf,   \* the version each content reports
  ProtocolOf,  \* the version of the protocol each content speaks
  Ours,        \* the version and the protocol that each run expects
  Hosts,       \* the hosts of known_hosts lines; Server is the one connected to
  Server,
  Keys,        \* the pairs of type and key the server may present
  Starts,      \* what the runs may find, and their options
  MaxLosses,   \* bound: how often a connection is lost
  MaxKills,    \* bound: how often a run is killed
  MaxShort     \* bound: how many lines are written in part

ASSUME ServerIsAHost == Server \in Hosts

\* known_hosts is missing, cannot be read, or has lines.
ASSUME StartsWithLines ==
  \A s \in Starts :
    LET file == s.knownHosts
    IN  \/ file \in {Missing, Unreadable}
        \/ /\ file = Text(file.lines, file.ended) /\ file.ended \in BOOLEAN
           /\ file.lines \in Seq(Range(file.lines))

VARIABLES
  start,       \* the options of the runs
  knownHosts,  \* the known_hosts file
  early,       \* history: the runs that looked at its last byte before a write in
               \* part left it without a newline, and have not written yet
  dir,         \* the directory of the agent: "absent", "safe", "loose", "unsafe"
  files,       \* the contents of the files in it, in halves
  bin, tmp,    \* which of them the binary and the temporary file are; 0 for none
  budget,      \* the losses, kills and short writes that are left
  pc,          \* what each run does next
  mode,        \* "first"; after a loss "restart", or "again" from SSH on
  offered,     \* the type and key the run was shown
  vouched,     \* the keys that known_hosts or the user vouched for
  unended,     \* whether the append has to end the last line
  chosen,      \* whether the run has decided for the agent
  client,      \* whether the run has an SSH connection, and an agent
  agent,
  repaired,    \* whether the run has cleared the directory
  open,        \* the file the run uploads to
  launched,    \* what the run has started as the agent
  disturbed    \* whether another run changed the files since this run checked them

sshVars == <<offered, vouched, unended>>
routeVars == <<mode, chosen, client, agent>>
diskVars == <<dir, files, bin, tmp, open, disturbed>>
vars == <<start, knownHosts, early, budget, pc, repaired, launched, sshVars, routeVars, diskVars>>

Nothing == <<"nothing", "nothing">>
WholeOf(content) == <<content, content>>
Version(file) == IF file[1] = file[2] /\ file # Nothing THEN VersionOf[file[1]] ELSE "notFound"
Contents(id) == IF id = 0 THEN Nothing ELSE files[id]
NoKey == <<"none", "none">>

Init ==
  /\ \E s \in Starts : /\ start = s.options /\ knownHosts = s.knownHosts /\ dir = s.dir
                       /\ files = [id \in 1 .. Cardinality(Runs) + 2 |->
                                     IF id = 1 THEN s.installed ELSE Nothing]
                       /\ bin = IF s.installed = Nothing THEN 0 ELSE 1
  /\ tmp = 0 /\ early = {}
  /\ budget = [losses |-> MaxLosses, kills |-> MaxKills, short |-> MaxShort]
  /\ pc = [r \in Runs |-> "connect"] /\ mode = [r \in Runs |-> "first"]
  /\ offered = [r \in Runs |-> NoKey] /\ vouched = [r \in Runs |-> {}]
  /\ unended = [r \in Runs |-> FALSE]
  /\ chosen = [r \in Runs |-> FALSE]
  /\ client = [r \in Runs |-> FALSE] /\ agent = [r \in Runs |-> FALSE]
  /\ repaired = [r \in Runs |-> FALSE] /\ open = [r \in Runs |-> 0]
  /\ launched = [r \in Runs |-> Nothing] /\ disturbed = [r \in Runs |-> FALSE]

Goto(r, where) == pc' = [pc EXCEPT ![r] = where]

(***************************************************************************)
(* The choice of the route.                                                *)
(***************************************************************************)
Hold(r, connection, withAgent) ==
  /\ client' = [client EXCEPT ![r] = connection]
  /\ agent' = [agent EXCEPT ![r] = withAgent]

(* Only an agent that is ready is used; anything else stops the first        *)
(* connection, and nothing is left open.                                     *)
\* (mutant of SettleStop: the connection is kept)
StopConnected(r) ==
  Goto(r, "stopped") /\ Hold(r, client[r], FALSE) /\ UNCHANGED <<mode, chosen>>
SettleStop(r) ==
  Goto(r, "stopped") /\ Hold(r, FALSE, FALSE) /\ UNCHANGED <<mode, chosen>>

(* Once the agent was chosen the run does not choose again: it starts the    *)
(* agent anew over the connection it has, then connects anew.                *)
AgentUnusable(r) ==
  CASE mode[r] = "first" -> SettleStop(r)
    [] mode[r] = "restart" -> /\ Goto(r, "connect") /\ Hold(r, FALSE, FALSE)
                              /\ mode' = [mode EXCEPT ![r] = "again"] /\ UNCHANGED chosen
    [] mode[r] = "again" -> Goto(r, "down") /\ UNCHANGED routeVars

AgentReady(r) ==
  /\ Goto(r, "ready") /\ Hold(r, TRUE, TRUE)
  /\ chosen' = [chosen EXCEPT ![r] = TRUE] /\ UNCHANGED mode

(* A connection that cannot be made is an error at once.                     *)
\* (mutant of NoConnection: a connection is tried until it is made)
NoConnectionYet(r) == Goto(r, "connect") /\ UNCHANGED routeVars
NoConnection(r) ==
  Goto(r, IF mode[r] = "first" THEN "stopped" ELSE "down") /\ UNCHANGED routeVars

Lost(r) == budget.losses > 0 /\ budget' = [budget EXCEPT !.losses = @ - 1]

(***************************************************************************)
(* SSH: the key of the server, known_hosts, authentication.                *)
(***************************************************************************)
Connect(r) ==
  /\ pc[r] = "connect"
  /\ IF start.enabled \/ chosen[r] THEN Goto(r, "key") /\ UNCHANGED routeVars
     ELSE SettleStop(r)
  /\ UNCHANGED <<start, knownHosts, early, budget, repaired, launched, sshVars, diskVars>>

(* A certificate is refused like a key that is not trusted, and nobody is    *)
(* asked about it.                                                           *)
PresentKey(r) ==
  /\ pc[r] = "key"
  /\ \E key \in Keys :
       LET judgement == CheckKnownHosts(knownHosts, Server, key[1], key[2])
       IN  /\ offered' = [offered EXCEPT ![r] = key]
           /\ CASE judgement = "trusted" ->
                     /\ Goto(r, "authenticate")
                     /\ vouched' = [vouched EXCEPT ![r] = @ \cup {key}]
                     /\ UNCHANGED routeVars
                [] judgement = "unknown" -> Goto(r, "ask") /\ UNCHANGED <<vouched, routeVars>>
                [] OTHER -> NoConnection(r) /\ UNCHANGED vouched
  /\ UNCHANGED <<start, knownHosts, early, budget, repaired, launched, unended, diskVars>>

PresentCertificate(r) ==
  /\ pc[r] = "key" /\ start.certificates /\ NoConnection(r)
  /\ UNCHANGED <<start, knownHosts, early, budget, repaired, launched, sshVars, diskVars>>

AskUser(r) ==
  /\ pc[r] = "ask"
  /\ \E answer \in BOOLEAN :
       IF Accepts(start.policy, start.autoYes, answer)
       THEN /\ Goto(r, "append") /\ vouched' = [vouched EXCEPT ![r] = @ \cup {offered[r]}]
            /\ UNCHANGED routeVars
       ELSE NoConnection(r) /\ UNCHANGED vouched
  /\ UNCHANGED <<start, knownHosts, early, budget, repaired, launched, offered, unended, diskVars>>

(* The last byte is read; the newline and the line are written after it.  A  *)
(* file that cannot be opened is warned of, no more.                         *)
OpenKnownHosts(r) ==
  /\ pc[r] = "append"
  /\ \/ /\ knownHosts.state # "unreadable"
        /\ knownHosts' = Opened(knownHosts)
        /\ unended' = [unended EXCEPT ![r] = NeedsNewline(knownHosts')]
        /\ Goto(r, "line")
     \/ start.readOnly /\ Goto(r, "retry") /\ UNCHANGED <<knownHosts, unended>>
  /\ UNCHANGED <<start, early, budget, repaired, launched, offered, vouched, routeVars, diskVars>>

(* A write may fail with nothing or a part of it written; it is warned of.   *)
ShortWrite == budget.short > 0 /\ budget' = [budget EXCEPT !.short = @ - 1]

EndLine(r) ==
  /\ pc[r] = "line" /\ unended[r]
  /\ \/ /\ knownHosts' = WithNewline(knownHosts) /\ early' = {}
        /\ unended' = [unended EXCEPT ![r] = FALSE]
        /\ UNCHANGED <<pc, budget>>
     \/ ShortWrite /\ Goto(r, "retry") /\ UNCHANGED <<knownHosts, early, unended>>
  /\ UNCHANGED <<start, repaired, launched, offered, vouched, routeVars, diskVars>>

Looked == {r \in Runs : pc[r] = "line" /\ ~unended[r]}

WriteLine(r) ==
  /\ r \in Looked
  /\ LET line == Entry(Server, offered[r][1], offered[r][2])
     IN  \/ /\ knownHosts' = WithLine(knownHosts, line, TRUE) /\ early' = {}
            /\ UNCHANGED budget
         \/ /\ ShortWrite /\ early' = Looked \ {r}
            /\ \E part \in Fragments(line) : knownHosts' = WithLine(knownHosts, part, FALSE)
         \/ ShortWrite /\ early' = early \ {r} /\ UNCHANGED knownHosts
  /\ Goto(r, "retry")
  /\ UNCHANGED <<start, repaired, launched, sshVars, routeVars, diskVars>>

(* The second connection takes the approved key and no other.                *)
\* (mutant of IsApproved: any key that is presented now)
IsAnyKey(r, key) == TRUE
IsApproved(r, key) == key = offered[r]

RetryWithApproved(r) ==
  /\ pc[r] = "retry"
  /\ \E key \in Keys :
       IF IsApproved(r, key)
       THEN /\ Goto(r, "authenticate") /\ offered' = [offered EXCEPT ![r] = key]
            /\ UNCHANGED routeVars
       ELSE NoConnection(r) /\ UNCHANGED offered
  /\ UNCHANGED <<start, knownHosts, early, budget, repaired, launched, vouched, unended, diskVars>>

(* A key without a passphrase is used; the passphrase of the environment     *)
(* comes before the ones that are typed, three at most, until none is.       *)
MaxPassphraseRetries == 3

KeyLoads(credential) ==
  \/ credential.passphrase = "none"
  \/ credential.environment = "right"
  \/ \E i \in DOMAIN credential.typed :
       /\ i <= MaxPassphraseRetries /\ credential.typed[i] = "right"
       /\ \A j \in 1 .. i : credential.typed[j] # "cancel"

(* The password of the environment comes before that of the configuration.   *)
PasswordOf(credential) ==
  IF credential.environment # "none" THEN credential.environment ELSE credential.configured

Authenticates(credential) ==
  IF credential.by = "key" THEN KeyLoads(credential) ELSE PasswordOf(credential) = "right"

Authenticate(r) ==
  /\ pc[r] = "authenticate"
  /\ IF Authenticates(start.credential)
     THEN /\ Goto(r, IF start.sudo THEN "sudo" ELSE "dir")
          /\ client' = [client EXCEPT ![r] = TRUE] /\ UNCHANGED <<mode, chosen, agent>>
     ELSE NoConnection(r)
  /\ repaired' = [repaired EXCEPT ![r] = FALSE]
  /\ UNCHANGED <<start, knownHosts, early, budget, launched, sshVars, diskVars>>

LoseConnecting(r) ==
  /\ pc[r] \in {"key", "retry", "authenticate"} /\ Lost(r)
  /\ NoConnection(r)
  /\ UNCHANGED <<start, knownHosts, early, repaired, launched, sshVars, diskVars>>

(***************************************************************************)
(* The agent: its directory, its binary, its start.                        *)
(***************************************************************************)
Others(r) == Runs \ {r}
DisturbOthers(r) ==
  disturbed' = [o \in Runs |-> IF o # r /\ pc[o] \in {"launch", "pre", "upload", "half", "rest",
                                                      "chmod", "compare", "try", "move"}
                               THEN TRUE ELSE disturbed[o]]

SudoCheck(r) ==
  /\ pc[r] = "sudo"
  /\ IF start.sudoWorks THEN Goto(r, "dir") /\ UNCHANGED routeVars ELSE AgentUnusable(r)
  /\ UNCHANGED <<start, knownHosts, early, budget, repaired, launched, sshVars, diskVars>>

(* Whatever is in a directory that others can write to is removed and not    *)
(* run; one that is not the user's own is not used at all.                   *)
CheckDir(r) ==
  /\ pc[r] = "dir"
  /\ CASE dir = "unsafe" -> AgentUnusable(r) /\ UNCHANGED <<repaired, diskVars>>
       [] dir = "loose" -> /\ dir' = "safe" /\ bin' = 0 /\ tmp' = 0
                           /\ repaired' = [repaired EXCEPT ![r] = TRUE]
                           /\ DisturbOthers(r)
                           /\ Goto(r, "version") /\ UNCHANGED <<files, open, routeVars>>
       [] OTHER -> /\ dir' = "safe" /\ repaired' = [repaired EXCEPT ![r] = FALSE]
                   /\ Goto(r, "version")
                   /\ UNCHANGED <<files, bin, tmp, open, disturbed, routeVars>>
  /\ UNCHANGED <<start, knownHosts, early, budget, launched, sshVars>>

(* The local binary of the target: that of the environment, or the first     *)
(* valid one in the directories, or the program itself for its own target.   *)
Resolves ==
  \/ start.binary = "fromEnvironment"
  \/ start.binary # "badEnvironment" /\ (start.binary = "inDirectory" \/ start.sameTarget)

CheckVersion(r) ==
  /\ pc[r] = "version"
  /\ LET matches == ~repaired[r] /\ Version(Contents(bin)) = Ours[r].version
     IN  IF ~start.supportedTarget THEN AgentUnusable(r)
         ELSE Goto(r, IF matches THEN "installed" ELSE "pre") /\ UNCHANGED routeVars
  /\ UNCHANGED <<start, knownHosts, early, budget, repaired, launched, sshVars, diskVars>>

(* A version can be that of another content: the hashes are compared, where  *)
(* the local binary is known and the server can compute one; a binary that   *)
(* was removed meanwhile has none, and fails to start.                       *)
\* (mutant of InstalledIsOurs: the version is enough)
InstalledByVersion(r) == TRUE
InstalledIsOurs(r) ==
  ~Resolves \/ ~start.hashes \/ bin = 0 \/ Contents(bin) = WholeOf(Local[r])

CompareInstalled(r) ==
  /\ pc[r] = "installed"
  /\ Goto(r, IF InstalledIsOurs(r) THEN "launch" ELSE "pre")
  /\ disturbed' = [disturbed EXCEPT ![r] = FALSE]
  /\ UNCHANGED <<start, knownHosts, early, budget, repaired, launched, sshVars, routeVars, dir,
                 files, bin, tmp, open>>

(* Nothing is put in place of a link.                                        *)
PreWrite(r) ==
  /\ pc[r] = "pre"
  /\ IF Resolves /\ ~start.linked THEN Goto(r, "upload") /\ UNCHANGED routeVars
     ELSE AgentUnusable(r)
  /\ disturbed' = [disturbed EXCEPT ![r] = FALSE]
  /\ UNCHANGED <<start, knownHosts, early, budget, repaired, launched, sshVars, dir, files, bin,
                 tmp, open>>

(* The temporary file is the same for all runs: it is made, or emptied, and  *)
(* then written to wherever it is by then.                                   *)
Free == CHOOSE id \in DOMAIN files :
          id \notin ({bin, tmp} \cup {open[r] : r \in Runs})

Upload(r) ==
  /\ pc[r] = "upload"
  /\ LET id == IF tmp = 0 THEN Free ELSE tmp
     IN  /\ tmp' = id /\ files' = [files EXCEPT ![id] = Nothing]
         /\ open' = [open EXCEPT ![r] = id]
  /\ DisturbOthers(r) /\ Goto(r, "half")
  /\ UNCHANGED <<start, knownHosts, early, budget, repaired, launched, sshVars, routeVars, dir,
                 bin>>

UploadHalf(r) ==
  /\ pc[r] \in {"half", "rest"}
  /\ files' = [files EXCEPT ![open[r]][IF pc[r] = "half" THEN 1 ELSE 2] = Local[r]]
  /\ IF pc[r] = "half" THEN Goto(r, "rest") /\ UNCHANGED open
     ELSE Goto(r, "chmod") /\ open' = [open EXCEPT ![r] = 0]
  /\ DisturbOthers(r)
  /\ UNCHANGED <<start, knownHosts, early, budget, repaired, launched, sshVars, routeVars, dir,
                 bin, tmp>>

(* The script ends at the first command that fails; a temporary file that is *)
(* not what was sent is removed.                                             *)
Reject(r) ==
  /\ tmp' = 0 /\ DisturbOthers(r) /\ AgentUnusable(r)

MakeExecutable(r) ==
  /\ pc[r] = "chmod"
  /\ IF tmp # 0 THEN Goto(r, "compare") /\ UNCHANGED routeVars ELSE AgentUnusable(r)
  /\ UNCHANGED <<start, knownHosts, early, budget, repaired, launched, sshVars, diskVars>>

SentIsWhole(r) == tmp = 0 \/ ~start.hashes \/ files[tmp] = WholeOf(Local[r])

CompareSent(r) ==
  /\ pc[r] = "compare"
  /\ IF SentIsWhole(r) THEN Goto(r, "try") /\ UNCHANGED <<tmp, disturbed, routeVars>>
     ELSE Reject(r)
  /\ UNCHANGED <<start, knownHosts, early, budget, repaired, launched, sshVars, dir, files, bin,
                 open>>

TrySent(r) ==
  /\ pc[r] = "try"
  /\ IF Version(Contents(tmp)) = Ours[r].version
     THEN Goto(r, "move") /\ UNCHANGED <<tmp, disturbed, routeVars>>
     ELSE Reject(r)
  /\ UNCHANGED <<start, knownHosts, early, budget, repaired, launched, sshVars, dir, files, bin,
                 open>>

MoveSent(r) ==
  /\ pc[r] = "move"
  /\ IF tmp # 0
     THEN /\ bin' = tmp /\ tmp' = 0 /\ DisturbOthers(r) /\ Goto(r, "launch") /\ UNCHANGED routeVars
     ELSE AgentUnusable(r) /\ UNCHANGED <<bin, tmp, disturbed>>
  /\ UNCHANGED <<start, knownHosts, early, budget, repaired, launched, sshVars, dir, files, open>>

(* What is in place now is started, and answers with its protocol.           *)
Launch(r) ==
  /\ pc[r] = "launch"
  /\ LET content == Contents(bin)
         runs == content # Nothing /\ content[1] = content[2]
     IN  /\ launched' = [launched EXCEPT ![r] = content]
         /\ IF runs /\ ProtocolOf[content[1]] = Ours[r].protocol
            THEN AgentReady(r) ELSE AgentUnusable(r)
  /\ UNCHANGED <<start, knownHosts, early, budget, repaired, sshVars, diskVars>>

(* A command, or the upload, without an exit status.                         *)
LoseStarting(r) ==
  /\ pc[r] \in {"sudo", "dir", "version", "installed", "pre", "upload", "half", "rest", "chmod",
                "compare", "try", "move", "launch"}
  /\ Lost(r)
  /\ AgentUnusable(r)
  /\ open' = [open EXCEPT ![r] = 0]
  /\ UNCHANGED <<start, knownHosts, early, repaired, launched, sshVars, dir, files, bin, tmp,
                 disturbed>>

(***************************************************************************)
(* The connection is used, lost and made anew.                             *)
(***************************************************************************)
LoseAgent(r) ==
  /\ pc[r] = "ready" /\ Lost(r)
  /\ IF mode[r] = "first"
     THEN /\ mode' = [mode EXCEPT ![r] = "restart"] /\ agent' = [agent EXCEPT ![r] = FALSE]
          /\ Goto(r, IF start.sudo THEN "sudo" ELSE "dir") /\ UNCHANGED <<chosen, client>>
     ELSE Goto(r, "down") /\ UNCHANGED routeVars
  /\ UNCHANGED <<start, knownHosts, early, repaired, launched, sshVars, diskVars>>

(* A loss is made up for once for each operation: one that is answered over  *)
(* the new connection ends that.                                             *)
Answer(r) ==
  /\ pc[r] = "ready" /\ mode[r] # "first"
  /\ mode' = [mode EXCEPT ![r] = "first"]
  /\ UNCHANGED <<start, knownHosts, early, budget, pc, chosen, client, agent, repaired, launched,
                 sshVars, diskVars>>

(* disconnect_all goes through the connections, each with its agent.         *)
DisconnectAll(r) ==
  /\ pc[r] \in {"ready", "down", "stopped"}
  /\ Goto(r, "closed")
  /\ IF client[r] THEN Hold(r, FALSE, FALSE) ELSE UNCHANGED <<client, agent>>
  /\ UNCHANGED <<start, knownHosts, early, budget, mode, chosen, repaired, launched, sshVars,
                 diskVars>>

Kill(r) ==
  /\ pc[r] \notin {"closed", "killed"} /\ budget.kills > 0
  /\ budget' = [budget EXCEPT !.kills = @ - 1]
  /\ Goto(r, "killed") /\ Hold(r, FALSE, FALSE)
  /\ open' = [open EXCEPT ![r] = 0]
  /\ UNCHANGED <<start, knownHosts, early, mode, chosen, repaired, launched, sshVars, dir, files,
                 bin, tmp, disturbed>>

RunStep(r) ==
  \/ Connect(r) \/ PresentKey(r) \/ PresentCertificate(r) \/ AskUser(r) \/ OpenKnownHosts(r)
  \/ EndLine(r) \/ WriteLine(r) \/ RetryWithApproved(r) \/ Authenticate(r) \/ LoseConnecting(r)
  \/ SudoCheck(r) \/ CheckDir(r) \/ CheckVersion(r) \/ CompareInstalled(r) \/ PreWrite(r)
  \/ Upload(r) \/ UploadHalf(r) \/ MakeExecutable(r) \/ CompareSent(r) \/ TrySent(r)
  \/ MoveSent(r) \/ Launch(r) \/ LoseStarting(r) \/ LoseAgent(r) \/ Answer(r)
  \/ DisconnectAll(r)

Ended == \A r \in Runs : pc[r] \in {"closed", "killed"}
Done == Ended /\ UNCHANGED vars
Next == (\E r \in Runs : RunStep(r) \/ Kill(r)) \/ Done

Spec == Init /\ [][Next]_vars
FairSpec == Spec /\ \A r \in Runs : WF_vars(RunStep(r))

(***************************************************************************)
(* Properties.                                                             *)
(***************************************************************************)
(* A run authenticates, and goes on, only with the key that known_hosts or   *)
(* the user vouched for, although the server is connected to twice and the   *)
(* file is written between.                                                  *)
NoUnseenKey ==
  \A r \in Runs : (client[r] \/ pc[r] = "authenticate") => offered[r] \in vouched[r]

(* No append, of one run or of several at once, changes a line that is there, *)
(* be it one that the user left without a newline, or what a write in part    *)
(* left.  There is one exception: a run that had looked at the last byte      *)
(* before a write in part ended there (looking and writing are not one step)  *)
(* writes on in that line, which can be whole but for its newline; the key of *)
(* that host is then judged to have changed.                                  *)
LinesOf(file) == IF file.state = "text" THEN file.lines ELSE <<>>
GoesOn(r) == r \in early /\ pc[r] = "line" /\ pc'[r] # "line"
LinesStayWhole ==
  [][\A i \in DOMAIN LinesOf(knownHosts) :
       \/ i \in DOMAIN LinesOf(knownHosts') /\ LinesOf(knownHosts')[i] = LinesOf(knownHosts)[i]
       \/ i = Len(LinesOf(knownHosts)) /\ \E r \in Runs : GoesOn(r)]_vars

(* Unless another run was replacing it at that very time, what a run starts  *)
(* as its agent is what it has itself, wherever that can be told: not what   *)
(* a killed run has left, nor another content of the same version.           *)
OnlyItsOwnUnlessDisturbed ==
  \A r \in Runs : (pc[r] = "ready" /\ start.hashes /\ Resolves /\ ~disturbed[r])
                    => launched[r] = WholeOf(Local[r])

(* What is at the place of the binary has been verified as a whole: a        *)
(* temporary file that another run empties, between the check and the move,  *)
(* is not put there.                                                         *)
InPlaceIsWhole == bin # 0 => Version(Contents(bin)) # "notFound"

(* A run goes on with its agent and over the connection it was started over, *)
(* or not at all: an attempt that fails, at first or after a loss, is not    *)
(* followed by one without the agent, and leaves nothing open.               *)
NothingIsLeftOpen ==
  \A r \in Runs :
    /\ pc[r] = "ready" => agent[r]
    /\ agent[r] => client[r] /\ chosen[r]
    /\ pc[r] \in {"stopped", "closed", "killed"} => ~client[r] /\ ~agent[r]

(* Every run comes to its end: a lost connection is made anew once, not until *)
(* it holds.                                                                  *)
EveryRunEnds == <>Ended
=============================================================================
