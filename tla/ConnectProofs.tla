--------------------------- MODULE ConnectProofs ---------------------------
(***************************************************************************)
(* What holds of connecting for any number of runs, losses and kills, and  *)
(* whatever the runs find: the key, the connection and its agent, the      *)
(* lines of known_hosts, and what is started as the agent.                 *)
(***************************************************************************)
EXTENDS Connect, TLAPS

(***************************************************************************)
(* Steps.  Most of them touch the row of one run, and one of three things: *)
(* the route, the files of the agent, or known_hosts.                      *)
(***************************************************************************)
Modes == {"first", "restart", "again"}
HasRows(f) == DOMAIN f = Runs
Typed ==
  /\ HasRows(pc) /\ HasRows(offered) /\ HasRows(vouched) /\ HasRows(launched)
  /\ mode \in [Runs -> Modes]
  /\ client \in [Runs -> BOOLEAN] /\ agent \in [Runs -> BOOLEAN] /\ chosen \in [Runs -> BOOLEAN]
  /\ unended \in [Runs -> BOOLEAN] /\ disturbed \in [Runs -> BOOLEAN]

\* Before there is a connection, and once there is a key for it.
Connecting == {"connect", "key", "ask", "append", "line", "retry", "authenticate"}
HasKey == {"append", "line", "retry", "authenticate"}
Starting == {"sudo", "dir", "version", "installed", "pre", "upload", "half", "rest", "chmod",
             "compare", "try", "move", "launch"}

LEMMA TypedInit == ASSUME Init PROVE Typed
BY DEF Init, Typed, HasRows, Modes

LEMMA RouteTyped ==
  ASSUME Typed, NEW r \in Runs, AgentUnusable(r) \/ NoConnection(r) \/ AgentReady(r) \/ SettleStop(r)
  PROVE  /\ HasRows(pc') /\ mode' \in [Runs -> Modes]
         /\ client' \in [Runs -> BOOLEAN] /\ agent' \in [Runs -> BOOLEAN]
         /\ chosen' \in [Runs -> BOOLEAN]
<1> USE DEF Typed, HasRows, Modes
<1>1. CASE AgentUnusable(r)
  BY <1>1 DEF AgentUnusable, SettleStop, Goto, Hold, routeVars
<1>2. CASE NoConnection(r)
  BY <1>2 DEF NoConnection, Goto, routeVars
<1>3. CASE AgentReady(r)
  BY <1>3 DEF AgentReady, Goto, Hold
<1>4. CASE SettleStop(r)
  BY <1>4 DEF SettleStop, Goto, Hold
<1> QED BY <1>1, <1>2, <1>3, <1>4

LEMMA DisturbTyped ==
  ASSUME Typed, NEW r \in Runs, DisturbOthers(r)
  PROVE  disturbed' \in [Runs -> BOOLEAN]
BY DEF Typed, DisturbOthers

LEMMA TypedStep == ASSUME Typed, [Next]_vars PROVE Typed'
<1> USE DEF Typed, HasRows, Modes
<1>1. ASSUME NEW r \in Runs, Connect(r) PROVE Typed'
  BY <1>1, RouteTyped DEF Connect, Goto, sshVars, routeVars, diskVars
<1>2. ASSUME NEW r \in Runs, PresentKey(r) PROVE Typed'
  BY <1>2, RouteTyped DEF PresentKey, Goto, routeVars, diskVars
<1>3. ASSUME NEW r \in Runs, PresentCertificate(r) PROVE Typed'
  BY <1>3, RouteTyped DEF PresentCertificate, sshVars, diskVars
<1>4. ASSUME NEW r \in Runs, AskUser(r) PROVE Typed'
  BY <1>4, RouteTyped DEF AskUser, Goto, routeVars, diskVars
<1>5. ASSUME NEW r \in Runs, OpenKnownHosts(r) PROVE Typed'
  BY <1>5 DEF OpenKnownHosts, NeedsNewline, Goto, routeVars, diskVars
<1>6. ASSUME NEW r \in Runs, EndLine(r) PROVE Typed'
  BY <1>6 DEF EndLine, Goto, routeVars, diskVars
<1>7. ASSUME NEW r \in Runs, WriteLine(r) PROVE Typed'
  BY <1>7 DEF WriteLine, Goto, sshVars, routeVars, diskVars
<1>8. ASSUME NEW r \in Runs, RetryWithApproved(r) PROVE Typed'
  BY <1>8, RouteTyped DEF RetryWithApproved, Goto, routeVars, diskVars
<1>9. ASSUME NEW r \in Runs, Authenticate(r) PROVE Typed'
  BY <1>9, RouteTyped DEF Authenticate, Goto, sshVars, diskVars
<1>10. ASSUME NEW r \in Runs, LoseConnecting(r) PROVE Typed'
  BY <1>10, RouteTyped DEF LoseConnecting, sshVars, diskVars
<1>11. ASSUME NEW r \in Runs, SudoCheck(r) \/ CheckVersion(r) \/ MakeExecutable(r) PROVE Typed'
  BY <1>11, RouteTyped
     DEF SudoCheck, CheckVersion, MakeExecutable, Goto, sshVars, routeVars, diskVars
<1>12. ASSUME NEW r \in Runs, CheckDir(r) PROVE Typed'
  <2>1. CASE AgentUnusable(r) /\ UNCHANGED diskVars
    BY <1>12, <2>1, RouteTyped DEF CheckDir, sshVars, diskVars
  <2>2. CASE Goto(r, "version") /\ UNCHANGED routeVars /\ DisturbOthers(r)
    BY <1>12, <2>2, DisturbTyped DEF CheckDir, Goto, sshVars, routeVars
  <2>3. CASE Goto(r, "version") /\ UNCHANGED <<disturbed, routeVars>>
    BY <1>12, <2>3 DEF CheckDir, Goto, sshVars, routeVars
  <2> QED BY <1>12, <2>1, <2>2, <2>3 DEF CheckDir
<1>13. ASSUME NEW r \in Runs, CompareInstalled(r) \/ PreWrite(r) PROVE Typed'
  BY <1>13, RouteTyped DEF CompareInstalled, PreWrite, Goto, sshVars, routeVars
<1>14. ASSUME NEW r \in Runs, Upload(r) \/ UploadHalf(r) PROVE Typed'
  BY <1>14 DEF Upload, UploadHalf, DisturbOthers, Goto, sshVars, routeVars
<1>15. ASSUME NEW r \in Runs, CompareSent(r) \/ TrySent(r) PROVE Typed'
  <2>1. CASE Reject(r)
    BY <1>15, <2>1, RouteTyped, DisturbTyped DEF Reject, CompareSent, TrySent, sshVars
  <2>2. CASE \E where \in {"try", "move"} : Goto(r, where) /\ UNCHANGED <<disturbed, routeVars>>
    BY <1>15, <2>2 DEF Goto, CompareSent, TrySent, sshVars, routeVars
  <2> QED BY <1>15, <2>1, <2>2 DEF CompareSent, TrySent
<1>16. ASSUME NEW r \in Runs, MoveSent(r) PROVE Typed'
  <2>1. CASE Goto(r, "launch") /\ DisturbOthers(r) /\ UNCHANGED routeVars
    BY <1>16, <2>1, DisturbTyped DEF MoveSent, Goto, sshVars, routeVars
  <2>2. CASE AgentUnusable(r) /\ UNCHANGED <<bin, tmp, disturbed>>
    BY <1>16, <2>2, RouteTyped DEF MoveSent, sshVars
  <2> QED BY <1>16, <2>1, <2>2 DEF MoveSent
<1>17. ASSUME NEW r \in Runs, Launch(r) PROVE Typed'
  BY <1>17, RouteTyped DEF Launch, sshVars, diskVars
<1>18. ASSUME NEW r \in Runs, LoseStarting(r) PROVE Typed'
  BY <1>18, RouteTyped DEF LoseStarting, sshVars
<1>19. ASSUME NEW r \in Runs, LoseAgent(r) PROVE Typed'
  BY <1>19 DEF LoseAgent, Goto, sshVars, routeVars, diskVars
<1>20. ASSUME NEW r \in Runs, Answer(r) PROVE Typed'
  BY <1>20 DEF Answer, sshVars, diskVars
<1>21. ASSUME NEW r \in Runs, DisconnectAll(r) PROVE Typed'
  BY <1>21 DEF DisconnectAll, Goto, Hold, sshVars, diskVars
<1>22. ASSUME NEW r \in Runs, Kill(r) PROVE Typed'
  BY <1>22 DEF Kill, Goto, Hold, sshVars
<1>23. CASE UNCHANGED vars
  BY <1>23 DEF vars, sshVars, routeVars, diskVars
<1> QED
  BY <1>1, <1>2, <1>3, <1>4, <1>5, <1>6, <1>7, <1>8, <1>9, <1>10, <1>11, <1>12, <1>13, <1>14,
     <1>15, <1>16, <1>17, <1>18, <1>19, <1>20, <1>21, <1>22, <1>23
     DEF Next, RunStep, Done

(***************************************************************************)
(* A step of one run leaves the rows of the others alone, and changes the  *)
(* files under another one that relies on them only when it disturbs it.   *)
(***************************************************************************)
RowsKept(r) ==
  \A o \in Runs \ {r} :
    /\ pc'[o] = pc[o] /\ offered'[o] = offered[o] /\ vouched'[o] = vouched[o]
    /\ unended'[o] = unended[o] /\ chosen'[o] = chosen[o] /\ client'[o] = client[o]
    /\ agent'[o] = agent[o] /\ launched'[o] = launched[o]
FilesKept(r) ==
  \A o \in Runs \ {r} :
    ~disturbed'[o] => /\ ~disturbed[o]
                      /\ pc[o] \in {"launch", "try", "move"} => UNCHANGED <<files, bin, tmp>>

LEMMA RouteKept ==
  ASSUME Typed, NEW r \in Runs, AgentUnusable(r) \/ NoConnection(r) \/ AgentReady(r) \/ SettleStop(r)
  PROVE  \A o \in Runs \ {r} : /\ pc'[o] = pc[o] /\ chosen'[o] = chosen[o]
                                /\ client'[o] = client[o] /\ agent'[o] = agent[o]
<1> USE DEF Typed, HasRows
<1>1. CASE SettleStop(r)
  BY <1>1 DEF SettleStop, Goto, Hold
<1>2. CASE NoConnection(r)
  BY <1>2 DEF NoConnection, Goto, routeVars
<1>3. CASE AgentReady(r)
  BY <1>3 DEF AgentReady, Goto, Hold
<1>4. CASE AgentUnusable(r)
  <2>1. CASE mode[r] = "first"
    BY <1>1, <1>4, <2>1 DEF AgentUnusable
  <2>2. CASE mode[r] = "restart"
    BY <1>4, <2>2 DEF AgentUnusable, Goto, Hold
  <2>3. CASE mode[r] = "again"
    BY <1>4, <2>3 DEF AgentUnusable, Goto, routeVars
  <2> QED BY <2>1, <2>2, <2>3 DEF Modes
<1> QED BY <1>1, <1>2, <1>3, <1>4

LEMMA DisturbKept ==
  ASSUME Typed, NEW r \in Runs, DisturbOthers(r)
  PROVE  \A o \in Runs \ {r} : ~disturbed'[o] => ~disturbed[o] /\ pc[o] \notin {"launch", "try", "move"}
BY DEF Typed, DisturbOthers

LEMMA Kept ==
  ASSUME Typed, NEW r \in Runs, RunStep(r) \/ Kill(r)
  PROVE  RowsKept(r) /\ FilesKept(r)
<1> USE DEF Typed, HasRows, RowsKept, FilesKept
<1>1. ASSUME Connect(r) PROVE RowsKept(r) /\ FilesKept(r)
  BY <1>1, RouteKept DEF Connect, Goto, sshVars, routeVars, diskVars
<1>2. ASSUME PresentKey(r) PROVE RowsKept(r) /\ FilesKept(r)
  BY <1>2, RouteKept DEF PresentKey, Goto, routeVars, diskVars
<1>3. ASSUME PresentCertificate(r) PROVE RowsKept(r) /\ FilesKept(r)
  BY <1>3, RouteKept DEF PresentCertificate, sshVars, diskVars
<1>4. ASSUME AskUser(r) PROVE RowsKept(r) /\ FilesKept(r)
  BY <1>4, RouteKept DEF AskUser, Goto, routeVars, diskVars
<1>5. ASSUME OpenKnownHosts(r) PROVE RowsKept(r) /\ FilesKept(r)
  BY <1>5 DEF OpenKnownHosts, NeedsNewline, Goto, routeVars, diskVars
<1>6. ASSUME EndLine(r) PROVE RowsKept(r) /\ FilesKept(r)
  BY <1>6 DEF EndLine, Goto, routeVars, diskVars
<1>7. ASSUME WriteLine(r) PROVE RowsKept(r) /\ FilesKept(r)
  BY <1>7 DEF WriteLine, Goto, sshVars, routeVars, diskVars
<1>8. ASSUME RetryWithApproved(r) PROVE RowsKept(r) /\ FilesKept(r)
  BY <1>8, RouteKept DEF RetryWithApproved, Goto, routeVars, diskVars
<1>9. ASSUME Authenticate(r) PROVE RowsKept(r) /\ FilesKept(r)
  BY <1>9, RouteKept DEF Authenticate, Goto, sshVars, diskVars
<1>10. ASSUME LoseConnecting(r) PROVE RowsKept(r) /\ FilesKept(r)
  BY <1>10, RouteKept DEF LoseConnecting, sshVars, diskVars
<1>11. ASSUME SudoCheck(r) \/ CheckVersion(r) \/ MakeExecutable(r) PROVE RowsKept(r) /\ FilesKept(r)
  BY <1>11, RouteKept
     DEF SudoCheck, CheckVersion, MakeExecutable, Goto, sshVars, routeVars, diskVars
<1>12. ASSUME CheckDir(r) PROVE RowsKept(r) /\ FilesKept(r)
  <2>1. CASE AgentUnusable(r) /\ UNCHANGED diskVars
    BY <1>12, <2>1, RouteKept DEF CheckDir, sshVars, diskVars
  <2>2. CASE Goto(r, "version") /\ UNCHANGED routeVars /\ DisturbOthers(r)
    BY <1>12, <2>2, DisturbKept DEF CheckDir, Goto, sshVars, routeVars
  <2>3. CASE Goto(r, "version") /\ UNCHANGED <<files, bin, tmp, disturbed, routeVars>>
    BY <1>12, <2>3 DEF CheckDir, Goto, sshVars, routeVars
  <2> QED BY <1>12, <2>1, <2>2, <2>3 DEF CheckDir
<1>13. ASSUME CompareInstalled(r) \/ PreWrite(r) PROVE RowsKept(r) /\ FilesKept(r)
  BY <1>13, RouteKept DEF CompareInstalled, PreWrite, Goto, sshVars, routeVars
<1>14. ASSUME Upload(r) \/ UploadHalf(r) PROVE RowsKept(r) /\ FilesKept(r)
  BY <1>14, DisturbKept DEF Upload, UploadHalf, Goto, sshVars, routeVars
<1>15. ASSUME CompareSent(r) \/ TrySent(r) PROVE RowsKept(r) /\ FilesKept(r)
  <2>1. CASE Reject(r)
    BY <1>15, <2>1, RouteKept, DisturbKept DEF Reject, CompareSent, TrySent, sshVars
  <2>2. CASE \E where \in {"try", "move"} : Goto(r, where) /\ UNCHANGED <<tmp, disturbed, routeVars>>
    BY <1>15, <2>2 DEF Goto, CompareSent, TrySent, sshVars, routeVars
  <2> QED BY <1>15, <2>1, <2>2 DEF CompareSent, TrySent
<1>16. ASSUME MoveSent(r) PROVE RowsKept(r) /\ FilesKept(r)
  <2>1. CASE Goto(r, "launch") /\ DisturbOthers(r) /\ UNCHANGED routeVars
    BY <1>16, <2>1, DisturbKept DEF MoveSent, Goto, sshVars, routeVars
  <2>2. CASE AgentUnusable(r) /\ UNCHANGED <<bin, tmp, disturbed>>
    BY <1>16, <2>2, RouteKept DEF MoveSent, sshVars
  <2> QED BY <1>16, <2>1, <2>2 DEF MoveSent
<1>17. ASSUME Launch(r) PROVE RowsKept(r) /\ FilesKept(r)
  BY <1>17, RouteKept DEF Launch, sshVars, diskVars
<1>18. ASSUME LoseStarting(r) PROVE RowsKept(r) /\ FilesKept(r)
  BY <1>18, RouteKept DEF LoseStarting, sshVars
<1>19. ASSUME LoseAgent(r) PROVE RowsKept(r) /\ FilesKept(r)
  BY <1>19 DEF LoseAgent, Goto, sshVars, routeVars, diskVars
<1>20. ASSUME Answer(r) PROVE RowsKept(r) /\ FilesKept(r)
  BY <1>20 DEF Answer, sshVars, diskVars
<1>21. ASSUME DisconnectAll(r) PROVE RowsKept(r) /\ FilesKept(r)
  BY <1>21 DEF DisconnectAll, Goto, Hold, sshVars, diskVars
<1>22. ASSUME Kill(r) PROVE RowsKept(r) /\ FilesKept(r)
  BY <1>22 DEF Kill, Goto, Hold, sshVars
<1> QED
  BY <1>1, <1>2, <1>3, <1>4, <1>5, <1>6, <1>7, <1>8, <1>9, <1>10, <1>11, <1>12, <1>13, <1>14,
     <1>15, <1>16, <1>17, <1>18, <1>19, <1>20, <1>21, <1>22
     DEF RunStep

(***************************************************************************)
(* The key and the connection.  A run without a connection has no agent;   *)
(* the key it goes on with was vouched for before it had a connection, and *)
(* is not replaced while it has one.                                       *)
(***************************************************************************)
RouteOf(r) ==
  /\ pc[r] \in Connecting => ~client[r] /\ ~agent[r]
  /\ pc[r] \in HasKey \/ client[r] => offered[r] \in vouched[r]
  /\ pc[r] \in Starting => client[r]
  /\ pc[r] = "ready" => agent[r]
  /\ agent[r] => client[r] /\ chosen[r]
  /\ pc[r] \in {"stopped", "closed", "killed"} => ~client[r] /\ ~agent[r]
RouteInv == Typed /\ \A r \in Runs : RouteOf(r)

\* Each way of choosing the route, with the key as it was.
LEMMA RouteMoves ==
  ASSUME Typed, NEW r \in Runs, RouteOf(r),
         \/ SettleStop(r)
         \/ pc[r] \in Connecting /\ NoConnection(r)
         \/ pc[r] \in Starting /\ AgentUnusable(r)
         \/ pc[r] = "launch" /\ AgentReady(r),
         UNCHANGED <<offered, vouched>>
  PROVE  RouteOf(r)'
<1> USE DEF Typed, HasRows, RouteOf, Connecting, HasKey, Starting
<1>1. CASE SettleStop(r)
  BY <1>1 DEF SettleStop, Goto, Hold
<1>2. CASE pc[r] \in Connecting /\ NoConnection(r)
  BY <1>2 DEF NoConnection, Goto, routeVars
<1>3. CASE pc[r] = "launch" /\ AgentReady(r)
  BY <1>3 DEF AgentReady, Goto, Hold
<1>4. CASE pc[r] \in Starting /\ AgentUnusable(r)
  <2>1. CASE mode[r] = "first"
    BY <1>1, <1>4, <2>1 DEF AgentUnusable
  <2>2. CASE mode[r] = "restart"
    BY <1>4, <2>2 DEF AgentUnusable, Goto, Hold
  <2>3. CASE mode[r] = "again"
    BY <1>4, <2>3 DEF AgentUnusable, Goto, routeVars
  <2> QED BY <1>4, <2>1, <2>2, <2>3 DEF Modes
<1> QED BY <1>1, <1>2, <1>3, <1>4

LEMMA RouteStep ==
  ASSUME Typed, NEW r \in Runs, RouteOf(r), RunStep(r) \/ Kill(r)
  PROVE  RouteOf(r)'
<1> USE DEF Typed, HasRows, RouteOf, Connecting, HasKey, Starting
<1>1. ASSUME Connect(r) PROVE RouteOf(r)'
  BY <1>1, RouteMoves DEF Connect, Goto, sshVars, routeVars, diskVars
<1>2. ASSUME PresentKey(r) PROVE RouteOf(r)'
  <2>1. CASE NoConnection(r) /\ UNCHANGED vouched
    BY <1>2, <2>1 DEF PresentKey, NoConnection, Goto, routeVars
  <2>2. CASE /\ pc' = [pc EXCEPT ![r] = "ask"] /\ UNCHANGED <<vouched, routeVars>>
    BY <1>2, <2>2 DEF PresentKey, routeVars
  <2>3. CASE \E key \in Keys : /\ offered' = [offered EXCEPT ![r] = key]
                              /\ Goto(r, "authenticate") /\ UNCHANGED routeVars
                              /\ vouched' = [vouched EXCEPT ![r] = @ \cup {key}]
    BY <1>2, <2>3 DEF PresentKey, Goto, routeVars
  <2> QED BY <1>2, <2>1, <2>2, <2>3 DEF PresentKey, Goto
<1>3. ASSUME PresentCertificate(r) PROVE RouteOf(r)'
  BY <1>3, RouteMoves DEF PresentCertificate, sshVars
<1>4. ASSUME AskUser(r) PROVE RouteOf(r)'
  <2>1. CASE NoConnection(r) /\ UNCHANGED vouched
    BY <1>4, <2>1, RouteMoves DEF AskUser
  <2>2. CASE Goto(r, "append") /\ vouched' = [vouched EXCEPT ![r] = @ \cup {offered[r]}]
             /\ UNCHANGED routeVars
    BY <1>4, <2>2 DEF AskUser, Goto, routeVars
  <2> QED BY <1>4, <2>1, <2>2 DEF AskUser
<1>5. ASSUME OpenKnownHosts(r) PROVE RouteOf(r)'
  BY <1>5 DEF OpenKnownHosts, Goto, routeVars
<1>6. ASSUME EndLine(r) \/ WriteLine(r) PROVE RouteOf(r)'
  BY <1>6 DEF EndLine, WriteLine, Looked, Goto, sshVars, routeVars
<1>7. ASSUME RetryWithApproved(r) PROVE RouteOf(r)'
  <2>1. CASE NoConnection(r) /\ UNCHANGED offered
    BY <1>7, <2>1, RouteMoves DEF RetryWithApproved
  <2>2. CASE /\ Goto(r, "authenticate") /\ offered' = [offered EXCEPT ![r] = offered[r]]
             /\ UNCHANGED routeVars
    BY <1>7, <2>2 DEF RetryWithApproved, Goto, routeVars
  <2> QED BY <1>7, <2>1, <2>2 DEF RetryWithApproved, IsApproved
<1>8. ASSUME Authenticate(r) PROVE RouteOf(r)'
  <2>1. CASE NoConnection(r)
    BY <1>8, <2>1, RouteMoves DEF Authenticate, sshVars
  <2>2. CASE /\ \E where \in {"sudo", "dir"} : Goto(r, where)
             /\ client' = [client EXCEPT ![r] = TRUE] /\ UNCHANGED <<mode, chosen, agent>>
    BY <1>8, <2>2 DEF Authenticate, Goto, sshVars
  <2> QED BY <1>8, <2>1, <2>2 DEF Authenticate
<1>9. ASSUME LoseConnecting(r) PROVE RouteOf(r)'
  BY <1>9, RouteMoves DEF LoseConnecting, sshVars
<1>10. ASSUME SudoCheck(r) \/ CheckVersion(r) \/ MakeExecutable(r) PROVE RouteOf(r)'
  BY <1>10, RouteMoves DEF SudoCheck, CheckVersion, MakeExecutable, Goto, sshVars, routeVars
<1>11. ASSUME CheckDir(r) PROVE RouteOf(r)'
  BY <1>11, RouteMoves DEF CheckDir, Goto, sshVars, routeVars
<1>12. ASSUME CompareInstalled(r) \/ PreWrite(r) PROVE RouteOf(r)'
  BY <1>12, RouteMoves DEF CompareInstalled, PreWrite, Goto, sshVars, routeVars
<1>13. ASSUME Upload(r) \/ UploadHalf(r) PROVE RouteOf(r)'
  BY <1>13 DEF Upload, UploadHalf, Goto, sshVars, routeVars
<1>14. ASSUME CompareSent(r) \/ TrySent(r) PROVE RouteOf(r)'
  BY <1>14, RouteMoves DEF CompareSent, TrySent, Reject, Goto, sshVars, routeVars
<1>15. ASSUME MoveSent(r) PROVE RouteOf(r)'
  BY <1>15, RouteMoves DEF MoveSent, Goto, sshVars, routeVars
<1>16. ASSUME Launch(r) PROVE RouteOf(r)'
  BY <1>16, RouteMoves DEF Launch, sshVars
<1>17. ASSUME LoseStarting(r) PROVE RouteOf(r)'
  BY <1>17, RouteMoves DEF LoseStarting, sshVars
<1>18. ASSUME LoseAgent(r) PROVE RouteOf(r)'
  BY <1>18 DEF LoseAgent, Goto, sshVars, routeVars
<1>19. ASSUME Answer(r) PROVE RouteOf(r)'
  BY <1>19 DEF Answer, sshVars
<1>20. ASSUME DisconnectAll(r) PROVE RouteOf(r)'
  BY <1>20 DEF DisconnectAll, Goto, Hold, sshVars
<1>21. ASSUME Kill(r) PROVE RouteOf(r)'
  BY <1>21 DEF Kill, Goto, Hold, sshVars
<1> QED
  BY <1>1, <1>2, <1>3, <1>4, <1>5, <1>6, <1>7, <1>8, <1>9, <1>10, <1>11, <1>12, <1>13,
     <1>14, <1>15, <1>16, <1>17, <1>18, <1>19, <1>20, <1>21 DEF RunStep

LEMMA RouteInvHolds == Spec => []RouteInv
<1>1. ASSUME Init PROVE RouteInv
  BY <1>1, TypedInit
     DEF Init, RouteInv, RouteOf, Connecting, HasKey, Starting
<1>2. ASSUME RouteInv, [Next]_vars PROVE RouteInv'
  <2>1. Typed'
    BY <1>2, TypedStep DEF RouteInv
  <2>2. ASSUME NEW o \in Runs PROVE RouteOf(o)'
    <3>1. CASE UNCHANGED vars
      BY <1>2, <3>1 DEF RouteInv, RouteOf, vars, sshVars, routeVars
    <3>2. CASE RunStep(o) \/ Kill(o)
      BY <1>2, <3>2, RouteStep DEF RouteInv
    <3>3. ASSUME NEW r \in Runs \ {o}, RunStep(r) \/ Kill(r) PROVE RouteOf(o)'
      <4>1. RowsKept(r) /\ o \in Runs \ {r}
        BY <1>2, <3>3, Kept DEF RouteInv
      <4> QED BY <1>2, <4>1 DEF RowsKept, RouteInv, RouteOf
    <3> QED BY <1>2, <3>1, <3>2, <3>3 DEF Next, Done
  <2> QED BY <2>1, <2>2 DEF RouteInv
<1> QED BY <1>1, <1>2, PTL DEF Spec

(***************************************************************************)
(* For any number of runs, keys and losses, a run authenticates and goes   *)
(* on only with a key that known_hosts or the user vouched for.            *)
(***************************************************************************)
THEOREM OnlyVouchedKeys == Spec => []NoUnseenKey
<1>1. ASSUME RouteInv PROVE NoUnseenKey
  BY <1>1 DEF RouteInv, RouteOf, HasKey, NoUnseenKey
<1> QED BY <1>1, RouteInvHolds, PTL

(***************************************************************************)
(* A run that is ready has its agent, over the connection that it was      *)
(* started over, and a run that has stopped has left nothing open.         *)
(***************************************************************************)
THEOREM AgentOrNothing == Spec => []NothingIsLeftOpen
<1>1. ASSUME RouteInv PROVE NothingIsLeftOpen
  BY <1>1 DEF RouteInv, RouteOf, NothingIsLeftOpen
<1> QED BY <1>1, RouteInvHolds, PTL

(***************************************************************************)
(* The lines of known_hosts.  When a run that has looked at the last byte  *)
(* is about to write, the last line has ended, or a write in part has left *)
(* it since: only then does the run write on in it.                        *)
(***************************************************************************)
HasLines(file) ==
  file.state = "text" =>
    /\ file = Text(file.lines, file.ended) /\ file.ended \in BOOLEAN
    /\ \E S : file.lines \in Seq(S)
Ends(file) == file.ended \/ file.lines = <<>>
LinesInv ==
  /\ Typed
  /\ knownHosts \in {Missing, Unreadable} \/ knownHosts.state = "text"
  /\ HasLines(knownHosts)
  /\ \A r \in Runs :
       pc[r] = "line" => /\ knownHosts.state = "text"
                         /\ ~unended[r] => Ends(knownHosts) \/ r \in early

\* What an append keeps: every line, or every one but a last one without newline.
LEMMA WithLineKeeps ==
  ASSUME NEW S, NEW lines \in Seq(S), NEW ended \in BOOLEAN, NEW line, NEW whole \in BOOLEAN
  PROVE  LET after == WithLine(Text(lines, ended), line, whole)
         IN  /\ after.state = "text" /\ HasLines(after) /\ after.ended = whole
             /\ \A i \in DOMAIN lines :
                  \/ i \in DOMAIN after.lines /\ after.lines[i] = lines[i]
                  \/ i = Len(lines) /\ ~Ends(Text(lines, ended))
<1> DEFINE ends == ended \/ lines = <<>>
           kept == IF ends THEN lines ELSE Front(lines)
           last == IF ends THEN line ELSE Glued(lines[Len(lines)])
           now == Append(kept, last)
           after == WithLine(Text(lines, ended), line, whole)
<1>1. kept \in Seq(S \cup {last}) /\ lines \in Seq(S \cup {last})
  BY DEF Front
<1>2. after = Text(now, whole)
  BY DEF WithLine, Text
<1>3. \A i \in DOMAIN lines : (i \in DOMAIN kept /\ kept[i] = lines[i]) \/ (i = Len(lines) /\ ~ends)
  BY DEF Front
<1>4. Ends(Text(lines, ended)) <=> ends
  BY DEF Ends, Text
<1>5. /\ now \in Seq(S \cup {last})
      /\ \A i \in DOMAIN kept : i \in DOMAIN now /\ now[i] = kept[i]
  BY <1>1
<1> HIDE DEF now, kept, last, after, ends
<1>6. after.state = "text" /\ after.lines = now /\ after.ended = whole
  BY <1>2 DEF Text
<1>7. HasLines(after)
  BY <1>2, <1>5, <1>6 DEF HasLines
<1>8. \A i \in DOMAIN lines :
        \/ i \in DOMAIN after.lines /\ after.lines[i] = lines[i]
        \/ i = Len(lines) /\ ~Ends(Text(lines, ended))
  BY <1>3, <1>4, <1>5, <1>6
<1> QED BY <1>6, <1>7, <1>8 DEF after

Appends(r) == OpenKnownHosts(r) \/ EndLine(r) \/ WriteLine(r)
KeepsLines ==
  \A i \in DOMAIN LinesOf(knownHosts) :
    \/ i \in DOMAIN LinesOf(knownHosts') /\ LinesOf(knownHosts')[i] = LinesOf(knownHosts)[i]
    \/ i = Len(LinesOf(knownHosts)) /\ \E r \in Runs : GoesOn(r)

LEMMA RouteGoes ==
  ASSUME Typed, NEW r \in Runs, AgentUnusable(r) \/ NoConnection(r) \/ SettleStop(r)
  PROVE  pc'[r] \in {"stopped", "connect", "down"}
<1> USE DEF Typed, HasRows
<1>1. CASE SettleStop(r)
  BY <1>1 DEF SettleStop, Goto
<1>2. CASE NoConnection(r)
  BY <1>2 DEF NoConnection, Goto
<1>3. CASE AgentUnusable(r)
  <2>1. CASE mode[r] = "first"
    BY <1>1, <1>3, <2>1 DEF AgentUnusable
  <2>2. CASE mode[r] = "restart"
    BY <1>3, <2>2 DEF AgentUnusable, Goto
  <2>3. CASE mode[r] = "again"
    BY <1>3, <2>3 DEF AgentUnusable, Goto
  <2> QED BY <2>1, <2>2, <2>3 DEF Modes
<1> QED BY <1>1, <1>2, <1>3

LEMMA NotAppending ==
  ASSUME Typed, NEW r \in Runs, RunStep(r) \/ Kill(r), ~Appends(r)
  PROVE  UNCHANGED <<knownHosts, early, unended>> /\ pc'[r] # "line"
<1> USE DEF Typed, HasRows, Goto
<1>1. ASSUME Connect(r) \/ PresentKey(r) \/ PresentCertificate(r) \/ AskUser(r) \/ RetryWithApproved(r)
             \/ Authenticate(r) \/ LoseConnecting(r)
      PROVE  UNCHANGED <<knownHosts, early, unended>> /\ pc'[r] # "line"
  BY <1>1, RouteGoes DEF Connect, PresentKey, PresentCertificate, AskUser, RetryWithApproved,
     Authenticate, LoseConnecting, sshVars
<1>2. ASSUME SudoCheck(r) \/ CheckDir(r) \/ CheckVersion(r) \/ CompareInstalled(r) \/ PreWrite(r)
             \/ Upload(r) \/ UploadHalf(r) \/ MakeExecutable(r)
      PROVE  UNCHANGED <<knownHosts, early, unended>> /\ pc'[r] # "line"
  BY <1>2, RouteGoes DEF SudoCheck, CheckDir, CheckVersion, CompareInstalled, PreWrite, Upload,
     UploadHalf, MakeExecutable, sshVars
<1>3. ASSUME CompareSent(r) \/ TrySent(r) \/ MoveSent(r) \/ Launch(r) \/ LoseStarting(r)
             \/ LoseAgent(r) \/ Answer(r) \/ DisconnectAll(r) \/ Kill(r)
      PROVE  UNCHANGED <<knownHosts, early, unended>> /\ pc'[r] # "line"
  BY <1>3, RouteGoes DEF CompareSent, TrySent, Reject, MoveSent, Launch, AgentReady, LoseStarting,
     LoseAgent, Answer, DisconnectAll, Kill, sshVars
<1> QED BY <1>1, <1>2, <1>3 DEF RunStep, Appends

LEMMA LinesStep ==
  ASSUME LinesInv, NEW r \in Runs, RunStep(r) \/ Kill(r)
  PROVE  LinesInv' /\ KeepsLines
<1>1. Typed' /\ RowsKept(r)
  BY TypedStep, Kept DEF LinesInv, Next
<1> USE DEF LinesInv, HasLines
<1>2. CASE UNCHANGED <<knownHosts, early>> /\ pc'[r] # "line"
  BY <1>1, <1>2 DEF RowsKept, KeepsLines
<1>3. CASE ~Appends(r)
  BY <1>2, <1>3, NotAppending
<1>4. CASE OpenKnownHosts(r)
  <2>1. early' = early /\ (Goto(r, "retry") => pc'[r] # "line")
    BY <1>4 DEF OpenKnownHosts, Goto, Typed, HasRows
  <2>2. CASE /\ knownHosts.state = "text" /\ knownHosts' = knownHosts
             /\ unended' = [unended EXCEPT ![r] = NeedsNewline(knownHosts)]
    <3>1. ~unended'[r] => Ends(knownHosts)
      BY <2>2 DEF NeedsNewline, Ends, Typed
    <3> QED BY <1>1, <2>1, <2>2, <3>1 DEF RowsKept, KeepsLines
  <2>3. CASE knownHosts = Missing /\ knownHosts' = Text(<<>>, TRUE)
    <3>1. knownHosts'.state = "text" /\ HasLines(knownHosts') /\ Ends(knownHosts')
      BY <2>3 DEF Text, Ends
    <3>2. KeepsLines
      BY <2>3 DEF KeepsLines, LinesOf, Missing
    <3> QED BY <1>1, <2>1, <3>1, <3>2 DEF RowsKept
  <2>4. \/ knownHosts' = knownHosts /\ Goto(r, "retry")
        \/ /\ knownHosts.state # "unreadable" /\ knownHosts' = Opened(knownHosts)
           /\ unended' = [unended EXCEPT ![r] = NeedsNewline(knownHosts')]
    BY <1>4 DEF OpenKnownHosts
  <2>5. knownHosts.state # "unreadable" => knownHosts = Missing \/ knownHosts.state = "text"
    BY DEF Unreadable
  <2>6. Opened(Missing) = Text(<<>>, TRUE)
    BY DEF Opened, Missing
  <2>7. knownHosts.state = "text" => Opened(knownHosts) = knownHosts
    BY DEF Opened
  <2> QED BY <1>2, <2>1, <2>2, <2>3, <2>4, <2>5, <2>6, <2>7
<1>5. CASE EndLine(r)
  <2>1. CASE knownHosts' = WithNewline(knownHosts)
    <3>1. knownHosts.state = "text" /\ knownHosts' = Text(knownHosts.lines, TRUE)
      BY <1>5, <2>1 DEF EndLine, WithNewline
    <3>2. /\ knownHosts'.state = "text" /\ HasLines(knownHosts') /\ Ends(knownHosts')
          /\ knownHosts'.lines = knownHosts.lines
      BY <3>1 DEF Text, Ends
    <3> QED BY <1>1, <3>1, <3>2 DEF KeepsLines, LinesOf
  <2>2. CASE Goto(r, "retry") /\ UNCHANGED <<knownHosts, early>>
    BY <1>2, <2>2 DEF Goto, Typed, HasRows
  <2> QED BY <1>5, <2>1, <2>2 DEF EndLine
<1>6. CASE WriteLine(r)
  <2>1. /\ knownHosts.state = "text" /\ r \in Looked
        /\ Ends(knownHosts) \/ GoesOn(r)
        /\ pc'[r] # "line" /\ unended' = unended
    BY <1>6 DEF WriteLine, Looked, GoesOn, Goto, Typed, HasRows, sshVars
  <2>2. CASE knownHosts' = knownHosts /\ early' = early \ {r}
    BY <1>1, <2>1, <2>2 DEF RowsKept, KeepsLines
  <2>3. CASE \E line, whole : /\ whole \in BOOLEAN /\ (whole \/ early' = Looked \ {r})
                             /\ knownHosts' = WithLine(knownHosts, line, whole)
    <3> PICK line, whole : /\ whole \in BOOLEAN /\ (whole \/ early' = Looked \ {r})
                           /\ knownHosts' = WithLine(knownHosts, line, whole)
      BY <2>3
    <3> PICK S : knownHosts.lines \in Seq(S)
      BY <2>1
    <3> DEFINE lines == knownHosts.lines
               ended == knownHosts.ended
    <3>1. knownHosts = Text(lines, ended) /\ ended \in BOOLEAN /\ lines \in Seq(S)
      BY <2>1
    <3> HIDE DEF lines, ended, HasLines
    <3>2. LET after == WithLine(Text(lines, ended), line, whole)
          IN  /\ after.state = "text" /\ HasLines(after) /\ after.ended = whole
              /\ \A i \in DOMAIN lines :
                   \/ i \in DOMAIN after.lines /\ after.lines[i] = lines[i]
                   \/ i = Len(lines) /\ ~Ends(Text(lines, ended))
      BY <3>1, WithLineKeeps
    <3>3. /\ knownHosts'.state = "text" /\ HasLines(knownHosts') /\ knownHosts'.ended = whole
          /\ \A i \in DOMAIN knownHosts.lines :
               \/ i \in DOMAIN knownHosts'.lines /\ knownHosts'.lines[i] = knownHosts.lines[i]
               \/ i = Len(knownHosts.lines) /\ ~Ends(knownHosts)
      BY <3>1, <3>2 DEF lines
    <3>4. KeepsLines
      BY <2>1, <3>3 DEF KeepsLines, LinesOf
    <3>5. ASSUME NEW o \in Runs, pc'[o] = "line", ~unended'[o]
          PROVE  Ends(knownHosts') \/ o \in early'
      <4>1. o # r /\ pc[o] = "line"
        BY <1>1, <2>1, <3>5 DEF RowsKept
      <4>2. o \in Looked
        BY <2>1, <3>5, <4>1 DEF Looked
      <4> QED BY <3>3, <4>1, <4>2 DEF Ends
    <3> QED BY <1>1, <3>3, <3>4, <3>5
  <2> QED BY <1>6, <2>2, <2>3 DEF WriteLine
<1> QED BY <1>3, <1>4, <1>5, <1>6 DEF Appends

(***************************************************************************)
(* Whatever is in known_hosts at first, and however the appends of any     *)
(* number of runs come between one another or are cut off, the newline     *)
(* included, a line that is there stays as it is, but for one: a last line *)
(* that a write in part has left, whole or not, takes what the runs write  *)
(* that had looked at the last byte before.                                *)
(***************************************************************************)
THEOREM LinesAreNeverBroken == Spec => LinesStayWhole
<1>1. ASSUME Init PROVE LinesInv
  <2>1. \E s \in Starts : knownHosts = s.knownHosts
    BY <1>1 DEF Init
  <2>2. (knownHosts \in {Missing, Unreadable} \/ knownHosts.state = "text") /\ HasLines(knownHosts)
    BY <2>1, StartsWithLines DEF HasLines, Missing, Unreadable, Text
  <2> QED BY <1>1, <2>2, TypedInit DEF Init, LinesInv
<1>2. ASSUME LinesInv, [Next]_vars PROVE LinesInv' /\ [KeepsLines]_vars
  <2>1. CASE UNCHANGED vars
    BY <1>2, <2>1, TypedStep DEF LinesInv, vars, sshVars
  <2> QED BY <1>2, <2>1, LinesStep DEF Next, Done
<1> QED BY <1>1, <1>2, PTL DEF Spec, LinesStayWhole, KeepsLines

(***************************************************************************)
(* What is started.  Where the hashes can be compared and no other run has *)
(* changed the files since, a run that is about to start the binary, or to *)
(* put the one it has sent in place, has its own content there.            *)
(***************************************************************************)
CanTell(r) == start.hashes /\ Resolves /\ ~disturbed[r]
OwnFiles(r) ==
  CanTell(r) =>
    /\ pc[r] = "launch" => bin = 0 \/ Contents(bin) = WholeOf(Local[r])
    /\ pc[r] \in {"try", "move"} => tmp = 0 \/ files[tmp] = WholeOf(Local[r])
    /\ pc[r] = "ready" => launched[r] = WholeOf(Local[r])
OwnInv == Typed /\ \A r \in Runs : OwnFiles(r)

LEMMA StartStays ==
  ASSUME NEW r \in Runs, RunStep(r) \/ Kill(r)
  PROVE  start' = start
<1>1. ASSUME Connect(r) \/ PresentKey(r) \/ PresentCertificate(r) \/ AskUser(r) \/ OpenKnownHosts(r)
             \/ EndLine(r) \/ WriteLine(r) \/ RetryWithApproved(r) \/ Authenticate(r)
             \/ LoseConnecting(r)
      PROVE  start' = start
  BY <1>1 DEF Connect, PresentKey, PresentCertificate, AskUser, OpenKnownHosts, EndLine, WriteLine,
     RetryWithApproved, Authenticate, LoseConnecting
<1>2. ASSUME SudoCheck(r) \/ CheckDir(r) \/ CheckVersion(r) \/ CompareInstalled(r) \/ PreWrite(r)
             \/ Upload(r) \/ UploadHalf(r) \/ MakeExecutable(r) \/ CompareSent(r) \/ TrySent(r)
             \/ MoveSent(r) \/ Launch(r) \/ LoseStarting(r)
      PROVE  start' = start
  BY <1>2 DEF SudoCheck, CheckDir, CheckVersion, CompareInstalled, PreWrite, Upload, UploadHalf,
     MakeExecutable, CompareSent, TrySent, MoveSent, Launch, LoseStarting
<1>3. ASSUME LoseAgent(r) \/ Answer(r) \/ DisconnectAll(r) \/ Kill(r) PROVE start' = start
  BY <1>3 DEF LoseAgent, Answer, DisconnectAll, Kill
<1> QED BY <1>1, <1>2, <1>3 DEF RunStep

LEMMA OwnStep ==
  ASSUME Typed, NEW r \in Runs, OwnFiles(r), RunStep(r) \/ Kill(r)
  PROVE  OwnFiles(r)'
<1> DEFINE Elsewhere == pc'[r] \notin {"launch", "try", "move", "ready"}
<1>1. start' = start /\ (Resolves' <=> Resolves)
  BY StartStays DEF Resolves
<1>2. Elsewhere => OwnFiles(r)'
  BY DEF OwnFiles
<1> USE DEF Typed, HasRows, Goto
<1>3. ASSUME Connect(r) \/ PresentKey(r) \/ PresentCertificate(r) \/ AskUser(r) \/ OpenKnownHosts(r)
             \/ EndLine(r) \/ WriteLine(r) \/ RetryWithApproved(r) \/ Authenticate(r)
             \/ LoseConnecting(r)
      PROVE  Elsewhere
  <2>1. ASSUME Connect(r) \/ PresentKey(r) \/ PresentCertificate(r) \/ AskUser(r) PROVE Elsewhere
    BY <2>1, RouteGoes DEF Connect, PresentKey, PresentCertificate, AskUser
  <2>2. ASSUME OpenKnownHosts(r) \/ EndLine(r) \/ WriteLine(r) PROVE Elsewhere
    BY <2>2 DEF OpenKnownHosts, EndLine, WriteLine
  <2>3. ASSUME RetryWithApproved(r) \/ Authenticate(r) \/ LoseConnecting(r) PROVE Elsewhere
    BY <2>3, RouteGoes DEF RetryWithApproved, Authenticate, LoseConnecting
  <2> QED BY <1>3, <2>1, <2>2, <2>3
<1>4. ASSUME SudoCheck(r) \/ CheckDir(r) \/ CheckVersion(r) \/ PreWrite(r) \/ Upload(r)
             \/ UploadHalf(r) \/ MakeExecutable(r) \/ LoseStarting(r) \/ LoseAgent(r)
             \/ DisconnectAll(r) \/ Kill(r)
      PROVE  Elsewhere
  BY <1>4, RouteGoes DEF SudoCheck, CheckDir, CheckVersion, PreWrite, Upload, UploadHalf,
     MakeExecutable, LoseStarting, LoseAgent, DisconnectAll, Kill
<1>5. CASE CompareInstalled(r)
  <2>1. CASE InstalledIsOurs(r) /\ pc'[r] = "launch" /\ UNCHANGED <<files, bin>>
    <3>1. start.hashes /\ Resolves => bin = 0 \/ Contents(bin) = WholeOf(Local[r])
      BY <2>1 DEF InstalledIsOurs
    <3>2. Contents(bin)' = Contents(bin)
      BY <2>1 DEF Contents
    <3> QED BY <1>1, <2>1, <3>1, <3>2 DEF OwnFiles, CanTell
  <2> QED BY <1>2, <1>5, <2>1 DEF CompareInstalled
<1>6. CASE CompareSent(r)
  <2>1. CASE SentIsWhole(r) /\ pc'[r] = "try" /\ UNCHANGED <<files, tmp>>
    BY <1>1, <2>1 DEF SentIsWhole, OwnFiles, CanTell
  <2>2. CASE Reject(r)
    BY <1>2, <2>2, RouteGoes DEF Reject
  <2> QED BY <1>6, <2>1, <2>2 DEF CompareSent
<1>7. CASE TrySent(r)
  <2>1. CASE pc[r] = "try" /\ pc'[r] = "move" /\ UNCHANGED <<files, tmp, disturbed>>
    BY <1>1, <2>1 DEF OwnFiles, CanTell
  <2>2. CASE Reject(r)
    BY <1>2, <2>2, RouteGoes DEF Reject
  <2> QED BY <1>7, <2>1, <2>2 DEF TrySent
<1>8. CASE MoveSent(r)
  <2>1. CASE tmp # 0 /\ bin' = tmp /\ DisturbOthers(r) /\ pc'[r] = "launch"
    <3>1. Contents(bin)' = files[tmp] /\ disturbed'[r] = disturbed[r]
      BY <1>8, <2>1 DEF MoveSent, Contents, DisturbOthers
    <3> QED BY <1>1, <1>8, <2>1, <3>1 DEF MoveSent, OwnFiles, CanTell
  <2>2. CASE AgentUnusable(r)
    BY <1>2, <2>2, RouteGoes
  <2> QED BY <1>8, <2>1, <2>2 DEF MoveSent
<1>9. CASE Launch(r)
  <2>1. CASE AgentReady(r)
    <3>1. bin # 0
      BY <1>9, <2>1, RouteGoes DEF Launch, AgentReady, Contents
    <3> QED BY <1>1, <1>9, <2>1, <3>1 DEF Launch, AgentReady, OwnFiles, CanTell, diskVars
  <2>2. CASE AgentUnusable(r)
    BY <1>2, <2>2, RouteGoes
  <2> QED BY <1>9, <2>1, <2>2 DEF Launch
<1>10. CASE Answer(r)
  BY <1>1, <1>10 DEF Answer, OwnFiles, CanTell, diskVars
<1> QED BY <1>2, <1>3, <1>4, <1>5, <1>6, <1>7, <1>8, <1>9, <1>10 DEF RunStep

(***************************************************************************)
(* For any number of runs, contents, losses and kills, what a run starts   *)
(* as its agent is what it has itself, unless another run was replacing it *)
(* between its check and its start.                                        *)
(***************************************************************************)
THEOREM OwnAgentIsStarted == Spec => []OnlyItsOwnUnlessDisturbed
<1>1. ASSUME Init PROVE OwnInv
  BY <1>1, TypedInit DEF Init, OwnInv, OwnFiles
<1>2. ASSUME OwnInv, [Next]_vars PROVE OwnInv'
  <2>1. Typed'
    BY <1>2, TypedStep DEF OwnInv
  <2>2. ASSUME NEW o \in Runs PROVE OwnFiles(o)'
    <3>1. CASE UNCHANGED vars
      BY <1>2, <3>1 DEF OwnInv, OwnFiles, CanTell, Resolves, Contents, vars, diskVars
    <3>2. CASE RunStep(o) \/ Kill(o)
      BY <1>2, <3>2, OwnStep DEF OwnInv
    <3>3. ASSUME NEW r \in Runs \ {o}, RunStep(r) \/ Kill(r) PROVE OwnFiles(o)'
      <4>1. RowsKept(r) /\ FilesKept(r) /\ o \in Runs \ {r}
        BY <1>2, <3>3, Kept DEF OwnInv
      <4>2. start' = start /\ (Resolves' <=> Resolves)
        BY <3>3, StartStays DEF Resolves
      <4>3. CanTell(o)' => CanTell(o)
        BY <4>1, <4>2 DEF CanTell, FilesKept
      <4>4. CanTell(o)' /\ pc'[o] \in {"launch", "try", "move"}
              => UNCHANGED <<files, bin, tmp>> /\ Contents(bin)' = Contents(bin)
        BY <4>1 DEF CanTell, RowsKept, FilesKept, Contents
      <4>5. pc'[o] = pc[o] /\ launched'[o] = launched[o]
        BY <4>1 DEF RowsKept
      <4>6. OwnFiles(o)
        BY <1>2 DEF OwnInv
      <4> QED BY <4>3, <4>4, <4>5, <4>6 DEF OwnFiles
    <3> QED BY <1>2, <3>1, <3>2, <3>3 DEF Next, Done
  <2> QED BY <2>1, <2>2 DEF OwnInv
<1>3. ASSUME OwnInv PROVE OnlyItsOwnUnlessDisturbed
  BY <1>3 DEF OwnInv, OwnFiles, CanTell, OnlyItsOwnUnlessDisturbed
<1> QED BY <1>1, <1>2, <1>3, PTL DEF Spec
=============================================================================
