---------------------------- MODULE AgentSession ----------------------------
(* The exchange of requests and answers between the client and an agent,   *)
(* and what the agent does in between (AgentFiles). Frames are delivered   *)
(* in order or not at all. A client that waits too long, or cannot make    *)
(* sense of an answer, takes the connection for lost: it drops it, and     *)
(* starts another agent while the one before may still be at work on what  *)
(* it has received. A request that reads is sent once more; one that       *)
(* changes is not, but the entry is looked at.                             *)
EXTENDS AgentFiles

CONSTANTS
  Starts,     \* programs, with the tree they start on and the budgets
  FrameLimit  \* the pieces of content that fit one frame

VARIABLES
  program,    \* the operations that the client is yet to do
  client,     \* what it is doing
  inbox,      \* the requests on their way to each agent
  outbox,     \* the answers on their way from it
  ended,      \* agents to which no more comes; "dead" once they are gone
  results     \* the results of the operations

pipeVars == <<inbox, outbox, ended>>
clientVars == <<program, client, results>>
vars == <<filesVars, job, did, budget, clientVars, pipeVars>>

Changes == {"write", "symlink", "remove", "chmod"}
IsChange(op) == op.kind \in Changes

\* Nothing but an entry below the root is changed, and content comes in at least one part.
IsOperation(op) ==
  /\ op.kind \in Changes \cup {"read", "huge"}
  /\ op.kind \in Changes => op.path \in Paths \ {<<>>}
  /\ op.kind = "write" => op.parts \in Nat \ {0}
  /\ op.kind = "read" => op.paths \in Seq(Paths) /\ op.bad \in BOOLEAN

ASSUME StartsAreWellFormed ==
  /\ FrameLimit \in Nat \ {0}
  /\ \A s \in Starts :
       /\ s.sudo \in BOOLEAN
       /\ s.budget \in [moves : Nat, fails : Nat, losses : Nat, garbled : Nat]
       /\ s.program \in Seq(ToSet(s.program)) /\ \A op \in ToSet(s.program) : IsOperation(op)
       /\ s.tree \in Seq(ToSet(s.tree))
       /\ \A e \in ToSet(s.tree) : e.parts \in Seq(ToSet(e.parts))

(***************************************************************************)
(* What theorems ask of the instance besides.                              *)
(***************************************************************************)
\* The operations that write a path, and a program that writes none twice.
WritesTo(p, op) == op.kind = "write" /\ op.path = p
NoPathTwice(ops) ==
  \A i, j \in DOMAIN ops: (i # j /\ ops[i].kind = "write") => ~WritesTo(ops[i].path, ops[j])
(* What a start must not combine: a frame that the agent cannot read, and  *)
(* two writes of one path. A later part that is not read leaves the file   *)
(* of the part before open under its path (agent/dispatch/mod.rs:143-155   *)
(* is not reached), and a second write to that path on the same connection *)
(* adds to that file instead of opening the entry that is there now.       *)
PartsAreReadable == \A s \in Starts: s.budget.garbled = 0 \/ NoPathTwice(s.program)

IsRename(m) == m.kind = "rename"
\* A path that no other path is below, and the paths that others rename a file to.
Leaf(p) == \A q \in Paths: IsPrefix(p, q) => q = p
RenameTargets == {q \in Paths: \E m \in OthersMay: IsRename(m) /\ m.to = q}
(* Others move an entry only to a leaf, from a path nothing is moved to,   *)
(* and not below itself. An undo names the paths it made entries at: moved *)
(* away while it is removed and moved back afterwards, an entry is left    *)
(* unsaid, and no code that works by path could tell.                      *)
FilesAreMovedAside ==
  \A m \in OthersMay: IsRename(m) => Leaf(m.to) /\ m.path \notin RenameTargets /\ ~IsPrefix(m.path, m.to)
(* Others move no directory. The directories that were made are given to   *)
(* the user by their paths (`own_created`, agent/dispatch/ownership.rs:23- *)
(* 34): when another has taken the place of one that was moved away, the   *)
(* one that was made stays root's.                                         *)
DirectoriesStay == \A m \in OthersMay: IsRename(m) => Leaf(m.path)

Resting == [step |-> "next", agent |-> 1, part |-> 1, attempt |-> 1, id |-> 0,
            got |-> <<>>, open |-> {}]

Init ==
  /\ \E s \in Starts :
       /\ sudo = s.sudo /\ program = s.program /\ budget = s.budget
       /\ nodes = [i \in DOMAIN s.tree |-> [Node(s.tree[i].kind, 0, "other")
                                              EXCEPT !.parts = s.tree[i].parts]]
       /\ names = [p \in Paths |-> IF \E i \in DOMAIN s.tree : s.tree[i].path = p
                                   THEN CHOOSE i \in DOMAIN s.tree : s.tree[i].path = p ELSE 0]
  /\ job = [a \in Agents |-> Idle] /\ writing = [a \in Agents |-> NoFiles] /\ did = <<>>
  /\ client = Resting /\ results = <<>>
  /\ inbox = [a \in Agents |-> <<>>] /\ outbox = [a \in Agents |-> <<>>]
  /\ ended = [a \in Agents |-> "no"]

(* What became of a request at its agent, and of an operation at the       *)
(* client.                                                                 *)
Came(is, got, left, path, wrote, id) ==
  [is |-> is, got |-> got, left |-> left, path |-> path, wrote |-> wrote, id |-> id]
NothingYet == Came("nothing", <<>>, {}, <<>>, FALSE, 0)
Result(is, got) == [op |-> Head(program), id |-> client.id, is |-> is, got |-> got]

(***************************************************************************)
(* The client.                                                             *)
(***************************************************************************)
Op == Head(program)
Mine == client.agent

\* One frame for each part of a file to write; one for everything else.
Request ==
  LET op == Op
  IN  CASE op.kind = "write" ->
             [kind |-> "write", path |-> op.path, id |-> client.id + 1,
              part |-> <<op.name, client.part>>, more |-> client.part < op.parts]
        [] op.kind = "read" -> [kind |-> "read", paths |-> op.paths, bad |-> op.bad,
                                id |-> client.id + 1]
        [] op.kind = "chmod" -> [kind |-> "chmod", path |-> op.path, special |-> op.special,
                                 bits |-> op.bits, id |-> client.id + 1]
        [] OTHER -> [kind |-> op.kind, path |-> op.path, id |-> client.id + 1]

\* A frame over the limit is refused before anything is sent.
SendRequest ==
  /\ client.step = "next" /\ program # <<>>
  /\ IF Op.kind = "huge"
     THEN /\ results' = Append(results, [Result("refused", <<>>) EXCEPT !.id = 0])
          /\ program' = Tail(program) /\ UNCHANGED <<client, did, pipeVars>>
     ELSE /\ inbox' = [inbox EXCEPT ![Mine] = Append(@, Request)]
          /\ did' = Append(did, NothingYet)
          /\ client' = [client EXCEPT !.step = "wait", !.id = @ + 1, !.got = <<>>, !.open = {}]
          /\ UNCHANGED <<program, results, outbox, ended>>
  /\ UNCHANGED <<filesVars, job, budget>>

Finish(is, got) ==
  /\ results' = Append(results, Result(is, got))
  /\ program' = Tail(program)
  /\ client' = [client EXCEPT !.step = "next", !.part = 1, !.attempt = 1]
LoseIt == client' = [client EXCEPT !.step = "lost"] /\ UNCHANGED <<program, results>>

(* Adds a piece to what came before, "open" being the paths whose content  *)
(* is to go on; it is wrong when its path has come, and is not one of      *)
(* them.                                                                   *)
AddPiece(before, piece) ==
  LET known == {k \in DOMAIN before.got : before.got[k].path = piece.path}
  IN  [ok |-> before.ok /\ (piece.path \in before.open \/ known = {}),
       got |-> IF known = {} THEN Append(before.got, [path |-> piece.path, parts |-> piece.parts])
               ELSE [k \in DOMAIN before.got |->
                       IF k \in known THEN [before.got[k] EXCEPT !.parts = @ \o piece.parts]
                       ELSE before.got[k]],
       open |-> IF piece.more THEN before.open \cup {piece.path} ELSE before.open \ {piece.path}]
Joined(got, open, pieces) ==
  LET Add[i \in 0 .. Len(pieces)] ==
        IF i = 0 THEN [ok |-> TRUE, got |-> got, open |-> open] ELSE AddPiece(Add[i - 1], pieces[i])
  IN  Add[Len(pieces)]

ReceiveContents ==
  /\ client.step = "wait" /\ Op.kind = "read" /\ outbox[Mine] # <<>>
  /\ LET frame == Head(outbox[Mine])
     IN  CASE frame.kind = "refused" -> Finish("refused", <<>>)
           [] frame.kind = "contents" ->
                LET joined == Joined(client.got, client.open, frame.pieces)
                    asked == {joined.got[k].path : k \in DOMAIN joined.got} = ToSet(Op.paths)
                IN  IF ~joined.ok THEN LoseIt
                    ELSE IF ~frame.last
                    THEN /\ client' = [client EXCEPT !.got = joined.got, !.open = joined.open]
                         /\ UNCHANGED <<program, results>>
                    ELSE IF joined.open # {} THEN LoseIt
                    ELSE IF frame.bad THEN Finish("refused", <<>>)
                    ELSE IF ~asked THEN LoseIt
                    ELSE Finish("read", joined.got)
           [] OTHER -> LoseIt
  /\ outbox' = [outbox EXCEPT ![Mine] = Tail(@)]
  /\ UNCHANGED <<filesVars, job, did, budget, inbox, ended>>

(* The next part is sent only when the one before was written.             *)
ReceiveChanged ==
  /\ client.step = "wait" /\ Op.kind # "read" /\ outbox[Mine] # <<>>
  /\ LET frame == Head(outbox[Mine])
     IN  CASE frame.kind = "refused" -> Finish("refused", <<>>)
           [] frame.kind = "changed" ->
                IF frame.failure # "none" THEN Finish(frame.failure, <<>>)
                ELSE IF Op.kind = "write" /\ client.part < Op.parts
                THEN /\ client' = [client EXCEPT !.step = "next", !.part = @ + 1]
                     /\ UNCHANGED <<program, results>>
                ELSE Finish("done", <<>>)
           [] OTHER -> LoseIt
  /\ outbox' = [outbox EXCEPT ![Mine] = Tail(@)]
  /\ UNCHANGED <<filesVars, job, did, budget, inbox, ended>>

(* No answer within the timeout, or none that can come any more.           *)
NoAnswer ==
  /\ client.step = "wait" /\ outbox[Mine] = <<>>
  /\ IF ended[Mine] = "dead" THEN UNCHANGED budget
     ELSE budget.losses > 0 /\ budget' = [budget EXCEPT !.losses = @ - 1]
  /\ LoseIt
  /\ UNCHANGED <<filesVars, job, did, pipeVars>>

(* The connection is dropped with whatever is on it; the agent gets what   *)
(* had arrived, and then no more.                                          *)
\* (mutant of Drop: the agent is kept, with the answers that come late)
KeepConnection == client' = [client EXCEPT !.step = "next", !.attempt = 2] /\ UNCHANGED pipeVars
Drop ==
  /\ Mine + 1 \in Agents
  /\ client' = [client EXCEPT !.step = "next", !.attempt = 2, !.agent = @ + 1]
  /\ outbox' = [outbox EXCEPT ![Mine] = <<>>]
  /\ \E arrived \in BOOLEAN : inbox' = [inbox EXCEPT ![Mine] = IF arrived THEN @ ELSE <<>>]
  /\ ended' = [ended EXCEPT ![Mine] = IF @ = "no" THEN "closing" ELSE @]

\* Nothing more is done on a server after a change was lost but to look at the entry.
Look1(op) == [kind |-> "read", paths |-> <<op.path>>, bad |-> FALSE]

Reconnect ==
  /\ client.step = "lost" /\ client.attempt = 1
  /\ Drop
  /\ IF IsChange(Op)
     THEN /\ results' = Append(results, Result("lost", <<>>))
          /\ program' = <<Look1(Op)>>
     ELSE UNCHANGED <<results, program>>
  /\ UNCHANGED <<filesVars, job, did, budget>>

\* The second loss, or a connection that cannot be made: the server is given up.
GiveUp ==
  /\ client.step = "lost"
  /\ client.attempt = 2 \/ Mine + 1 \notin Agents
  /\ results' = Append(results, Result("lost", <<>>))
  /\ program' = <<>> /\ client' = [client EXCEPT !.step = "next"]
  /\ ended' = [ended EXCEPT ![Mine] = IF @ = "no" THEN "closing" ELSE @]
  /\ UNCHANGED <<filesVars, job, did, budget, inbox, outbox>>

Close ==
  /\ client.step = "next" /\ program = <<>> /\ ended[Mine] = "no"
  /\ ended' = [ended EXCEPT ![Mine] = "closing"]
  /\ UNCHANGED <<filesVars, job, did, budget, clientVars, inbox, outbox>>

ClientStep == SendRequest \/ ReceiveContents \/ ReceiveChanged \/ Reconnect \/ GiveUp \/ Close

(***************************************************************************)
(* The agent: one request at a time, in order.                             *)
(***************************************************************************)
Say(a, frame) == outbox' = [outbox EXCEPT ![a] = Append(@, frame)]
Did(a, what) == did' = [did EXCEPT ![job[a].request.id] = what]

FirstStep(a, request) ==
  CASE request.kind = "write" -> IF writing[a][request.path] # 0 THEN "write" ELSE "look"
    [] request.kind = "symlink" -> "parents"
    [] OTHER -> request.kind

(* A request that cannot be read, or names a path that no entry may have,  *)
(* is answered, and changes nothing.                                       *)
Take(a) ==
  /\ ended[a] # "dead" /\ At(a, "idle") /\ inbox[a] # <<>>
  /\ inbox' = [inbox EXCEPT ![a] = Tail(@)]
  /\ LET request == Head(inbox[a])
     IN  \/ /\ Continue(a, [Start(request, FirstStep(a, request))
                              EXCEPT !.id = IF request.kind = "write"
                                            THEN writing[a][request.path] ELSE 0])
            /\ writing' = IF request.kind = "write"
                          THEN [writing EXCEPT ![a][request.path] = 0] ELSE writing
            /\ UNCHANGED <<did, outbox, budget>>
         \/ /\ budget.garbled > 0 /\ budget' = [budget EXCEPT !.garbled = @ - 1]
            /\ did' = [did EXCEPT ![request.id] = Came("refused", <<>>, {}, <<>>, FALSE, 0)]
            /\ Say(a, [kind |-> "refused", id |-> request.id]) /\ UNCHANGED <<job, writing>>
  /\ UNCHANGED <<sudo, names, nodes, ended, clientVars>>

AnswerChange(a) ==
  /\ At(a, "answer") /\ job[a].request.kind # "read"
  /\ LET j == job[a]
     IN  /\ Did(a, Came(IF j.failure = "none" THEN "done" ELSE j.failure, <<>>, j.left,
                        j.request.path, j.wrote, j.id))
         /\ Say(a, [kind |-> "changed", failure |-> j.failure, id |-> j.request.id])
  /\ Continue(a, Idle)
  /\ UNCHANGED <<filesVars, budget, inbox, ended, clientVars>>

(* Each file is read as a whole, then cut into pieces. A path that no      *)
(* entry may have ("bad") is named with the last of them.                  *)
PiecesOf(path, parts) ==
  IF parts = <<>> THEN <<[path |-> path, parts |-> <<>>, more |-> FALSE]>>
  ELSE [i \in DOMAIN parts |-> [path |-> path, parts |-> <<parts[i]>>, more |-> i < Len(parts)]]
\* What cannot be read is answered in place of a content.
Failed(path) == <<[path |-> path, parts |-> <<"failed">>, more |-> FALSE]>>

ReadOne(a) ==
  /\ At(a, "read") /\ job[a].request.paths # <<>>
  /\ LET path == Head(job[a].request.paths)
         pieces == IF Kind(path) = "file" THEN PiecesOf(path, nodes[names[path]].parts)
                   ELSE Failed(path)
     IN  Continue(a, [job[a] EXCEPT !.request.paths = Tail(@), !.made = @ \o pieces])
  /\ UNCHANGED <<filesVars, did, budget, pipeVars, clientVars>>

ContentFrame(a, pieces, last) ==
  [kind |-> "contents", pieces |-> pieces, last |-> last,
   bad |-> last /\ job[a].request.bad, id |-> job[a].request.id]

SayContents(a) ==
  /\ At(a, "read")
  /\ \/ /\ Len(job[a].made) > FrameLimit
        /\ Say(a, ContentFrame(a, SubSeq(job[a].made, 1, FrameLimit), FALSE))
        /\ Continue(a, [job[a] EXCEPT !.todo = @ \o SubSeq(job[a].made, 1, FrameLimit),
                                      !.made = SubSeq(@, FrameLimit + 1, Len(@))])
        /\ UNCHANGED did
     \/ /\ Len(job[a].made) <= FrameLimit /\ job[a].request.paths = <<>>
        /\ Say(a, ContentFrame(a, job[a].made, TRUE))
        /\ Did(a, IF job[a].request.bad THEN Came("refused", <<>>, {}, <<>>, FALSE, 0)
                  ELSE Came("read", Joined(<<>>, {}, job[a].todo \o job[a].made).got,
                            {}, <<>>, FALSE, 0))
        /\ Continue(a, Idle)
  /\ UNCHANGED <<filesVars, budget, inbox, ended, clientVars>>

\* The agent ends when its input does; it may be killed before.
EndAgent(a) ==
  /\ \/ ended[a] = "closing" /\ At(a, "idle") /\ inbox[a] = <<>> /\ UNCHANGED budget
     \/ ended[a] # "dead" /\ budget.losses > 0 /\ budget' = [budget EXCEPT !.losses = @ - 1]
  /\ ended' = [ended EXCEPT ![a] = "dead"]
  /\ inbox' = [inbox EXCEPT ![a] = <<>>] /\ Continue(a, Idle)
  /\ UNCHANGED <<filesVars, did, outbox, clientVars>>

Work(a) ==
  \/ Take(a) \/ AnswerChange(a) \/ ReadOne(a) \/ SayContents(a)
  \/ FilesStep(a) /\ UNCHANGED <<clientVars, pipeVars>>
  \/ ended[a] = "closing" /\ EndAgent(a)

Finished == client.step = "next" /\ program = <<>> /\ \A a \in 1 .. Mine : ended[a] = "dead"
Done == Finished /\ UNCHANGED vars

Next ==
  \/ ClientStep \/ NoAnswer
  \/ \E a \in Agents : Work(a) \/ EndAgent(a)
  \/ OthersMove /\ UNCHANGED <<clientVars, pipeVars>>
  \/ Done

Spec == Init /\ [][Next]_vars

(***************************************************************************)
(* Properties.                                                             *)
(***************************************************************************)
(* Whatever is lost, refused, cut into frames or answered late, the result *)
(* of an operation is what its own request came to at the agent, and never *)
(* the answer to another one.                                              *)
ResultsAreTrue ==
  \A i \in DOMAIN results :
    (results[i].id # 0 /\ results[i].is # "lost") =>
      /\ results[i].is = did[results[i].id].is
      /\ results[i].got = did[results[i].id].got

(* A write that is answered with success has put all its parts, in order   *)
(* and nothing else, into the one file that its first part opened,         *)
(* whatever was left of an earlier write that failed; and the file, with   *)
(* the directories that were made for it, belongs to the user.             *)
WrittenAsSent ==
  LET r == Last(results)
  IN  (results # <<>> /\ client.id = r.id /\ r.op.kind = "write" /\ r.is = "done") =>
        LET file == nodes[did[r.id].id]
        IN  /\ file.parts = [k \in 1 .. r.op.parts |-> <<r.op.name, k>>]
            /\ \A p \in Paths :
                 (names[p] # 0 /\ nodes[names[p]].by > r.id - r.op.parts)
                   => nodes[names[p]].owner = "user"

(* A change that failed before a content was written has left nothing that *)
(* it made, directories included, but what its answer names.               *)
NothingIsLeftUnsaid ==
  \A i \in DOMAIN did :
    (did[i].is \in {"io", "notDirectory", "rootGone", "notFound"} /\ ~did[i].wrote) =>
      \A p \in Paths :
        (IsPrefix(p, did[i].path) /\ names[p] # 0 /\ nodes[names[p]].by = i) => p \in did[i].left

(* What others put at a path that was found free is never opened in place  *)
(* of a new file, and never emptied.                                       *)
NothingThatAppearsIsOpened ==
  \A a \in Agents :
    (~At(a, "idle") /\ job[a].id # 0 /\ ~job[a].seen /\ job[a].request.kind \in {"write", "symlink"}
       /\ job[a].step \in {"own", "unmake", "unlinkMade", "write"})
      => \/ nodes[job[a].id].by = job[a].request.id
         \/ job[a].request.kind = "write" /\ job[a].request.part[2] > 1
=============================================================================
