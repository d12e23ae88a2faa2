-------------------------- MODULE AgentWritesProofs --------------------------
(***************************************************************************)
(* Proofs about the changes of AgentSession: a write opens nothing that    *)
(* appeared after it looked (Fresh, with Streams), a change that failed    *)
(* names what it has left (Left), and a write that is answered with        *)
(* success has put what it was to put (Sent). They stand on the invariant  *)
(* Answered of AgentSessionProofs.                                         *)
(***************************************************************************)
EXTENDS AgentSessionProofs

(***************************************************************************)
(* What a write finds open.                                                *)
(***************************************************************************)
\* A request that puts an entry, and the part of a file that opens it.
Writes(r) == r.kind \in {"write", "symlink"}
FirstPart(r) == r.kind = "write" /\ r.part[2] = 1
\* The file of a job was made by its own request, or is kept from the part before.
MadeByItself(a) ==
  nodes[job[a].id].by = job[a].request.id \/ (job[a].request.kind = "write" /\ job[a].request.part[2] > 1)
\* A file that was seen is opened; any other one was made, or comes from the part before.
FreshAt(a) ==
  (Busy(a) /\ Writes(job[a].request)) =>
    /\ At(a, "open") => job[a].seen
    /\ (job[a].id # 0 /\ ~job[a].seen) => MadeByItself(a)
\* No job of a write has a file that it did not see and that its request did not make.
Fresh == \A a \in Agents: FreshAt(a)

----------------------------------------------------------------------------
\* What a step leaves of the file that a job has.
KeepsFile(a) ==
  \/ job'[a].id = job[a].id /\ job'[a].seen = job[a].seen /\ job'[a].step # "open"
  \/ job'[a].id = 0 /\ (job'[a].step = "open" => job'[a].seen)
  \/ job'[a].seen /\ job[a].seen
  \/ job'[a].id \in DOMAIN nodes' /\ nodes'[job'[a].id].by = job[a].request.id /\ job'[a].step # "open"

\* The step, the file and what was seen of it are what the job is made of.
LEMMA BecomesKeeps ==
  ASSUME NEW a \in Agents, NEW step, NEW seen, NEW todo, NEW made, NEW id, NEW failure, NEW left, NEW wrote,
         Becomes(a, step, seen, todo, made, id, failure, left, wrote)
  PROVE  job'[a].step = step /\ job'[a].id = id /\ job'[a].seen = seen
<1>1. PICK j: /\ j = [request |-> job[a].request, step |-> step, seen |-> seen, todo |-> todo,
                      made |-> made, id |-> id, failure |-> failure, left |-> left, wrote |-> wrote]
              /\ job'[a] = j
  BY DEF Becomes
<1> QED BY <1>1

LEMMA GoesKeeps ==
  ASSUME NEW a \in Agents, NEW step, NEW failure, GoesTo(a, step, failure), step # "open"
  PROVE  KeepsFile(a)
<1>1. job'[a].step = step /\ job'[a].id = job[a].id /\ job'[a].seen = job[a].seen
  BY BecomesKeeps DEF GoesTo
<1> QED BY <1>1 DEF KeepsFile

\* Looking for the entry takes a file only when it was seen there.
LEMMA LooksKeep ==
  ASSUME FilesOK, JobsOK, Fresh, NEW a \in Agents, Look(a) \/ OpenExisting(a) \/ FindParents(a) \/ ParentsMade(a)
  PROVE  KeepsFile(a)
<1>1. CASE Look(a)
  <2>1. Busy(a) /\ IsJob(job[a]) /\ job[a].step = "look"
    BY <1>1, AtIsBusy DEF Look, At
  <2>2. job[a].id = 0
    BY <2>1, JobFacts
  <2>3. PICK step, seen: /\ job'[a].step = step /\ job'[a].id = job[a].id /\ job'[a].seen = seen
                         /\ step = IF names[Path(a)] # 0 THEN "open" ELSE "parents"
                         /\ seen = (names[Path(a)] # 0)
    <3>1. PICK step, seen: /\ step = IF names[Path(a)] # 0 THEN "open" ELSE "parents"
                           /\ seen = (names[Path(a)] # 0)
                           /\ Becomes(a, step, seen, job[a].todo,
                                job[a].made, job[a].id, job[a].failure, job[a].left, job[a].wrote)
      BY <1>1, LookDoes
    <3> QED BY <3>1, BecomesKeeps
  <2>4. step = "open" => seen
    BY <2>3
  <2> QED BY <2>2, <2>3, <2>4 DEF KeepsFile
<1>2. CASE OpenExisting(a)
  <2>1. Busy(a) /\ IsJob(job[a]) /\ At(a, "open") /\ job[a].request.kind = "write"
    BY <1>2, AtIsBusy DEF OpenExisting, At, Steps, Making
  <2>2. job[a].seen
    BY <2>1 DEF Fresh, FreshAt, Writes
  <2>3. \/ GoesTo(a, "parents", job[a].failure)
        \/ \E f \in {"notDirectory", "io"}: GoesTo(a, "answer", f)
        \/ Becomes(a, "write", job[a].seen, job[a].todo, job[a].made, names[Path(a)],
                       job[a].failure, job[a].left, TRUE)
    BY <1>2, OpenExistingDoes
  <2>4. ASSUME Becomes(a, "write", job[a].seen, job[a].todo, job[a].made, names[Path(a)],
                       job[a].failure, job[a].left, TRUE)
        PROVE  KeepsFile(a)
    <3>1. PICK yes \in BOOLEAN: Becomes(a, "write", job[a].seen, job[a].todo, job[a].made, names[Path(a)],
                                        job[a].failure, job[a].left, yes)
      BY <2>4
    <3>2. job'[a].seen = job[a].seen
      BY <3>1, BecomesKeeps
    <3> QED BY <2>2, <3>2 DEF KeepsFile
  <2> QED BY <2>3, <2>4, GoesKeeps
<1>3. CASE FindParents(a)
  <2>1. ASSUME NEW held, Becomes(a, "mkdir", job[a].seen, Below(Path(a), held),
                      job[a].made, job[a].id, job[a].failure, job[a].left, job[a].wrote)
        PROVE  KeepsFile(a)
    BY <2>1, BecomesKeeps DEF KeepsFile
  <2> QED BY <1>3, <2>1, FindParentsDoes, GoesKeeps
<1>4. CASE ParentsMade(a)
  BY <1>4, ParentsMadeDoes, GoesKeeps
<1> QED BY <1>1, <1>2, <1>3, <1>4

\* Making the directories and the entry takes the file that was just made.
LEMMA MakesKeep ==
  ASSUME FilesOK, JobsOK, NEW a \in Agents, MakeParent(a) \/ Create(a) \/ Own(a)
  PROVE  KeepsFile(a)
<1>1. CASE MakeParent(a)
  <2>1. job[a].step = "mkdir"
    BY <1>1 DEF MakeParent, At
  <2>2. ASSUME NEW todo, NEW made, Becomes(a, job[a].step, job[a].seen, todo, made,
                       job[a].id, job[a].failure, job[a].left, job[a].wrote)
        PROVE  KeepsFile(a)
    BY <2>1, <2>2, BecomesKeeps DEF KeepsFile
  <2> QED BY <1>1, <2>2, MakeParentDoes, GoesKeeps
<1>2. CASE Create(a)
  <2>1. Busy(a) /\ Path(a) \in Paths /\ job[a].request.id \in Nat
    BY <1>2, AtMaking DEF Create, Making
  <2>2. CASE GoesTo(a, "undo", "io")
    BY <2>2, GoesKeeps
  <2>3. CASE /\ Place(Path(a), Made(a), job[a].request.id, Maker)
             /\ Becomes(a, AfterMade(a), job[a].seen, Append(job[a].made, Path(a)), job[a].made,
                       Len(nodes) + 1, job[a].failure, job[a].left, job[a].wrote)
    <3>1. PICK step, todo, id: /\ step = AfterMade(a) /\ id = Len(nodes) + 1
                               /\ Becomes(a, step, job[a].seen, todo, job[a].made, id, job[a].failure,
                                          job[a].left, job[a].wrote)
      BY <2>3
    <3>2. job'[a].step = step /\ job'[a].id = id
      BY <3>1, BecomesKeeps
    <3>3. step # "open"
      BY <3>1 DEF AfterMade
    <3>4. Place(Path(a), Made(a), job[a].request.id, Maker)
      BY <2>3
    <3>5. Later /\ Len(nodes') = Len(nodes) + 1
      BY <2>1, <3>4, PlaceFacts
    <3>10. nodes' = Append(nodes, Node(Made(a), job[a].request.id, Maker))
      BY <3>4 DEF Place
    <3>11. PICK node: node = Node(Made(a), job[a].request.id, Maker) /\ nodes' = Append(nodes, node)
      BY <3>10
    <3>12. nodes'[Len(nodes) + 1] = node
      BY <3>11, AppendFacts DEF FilesOK, IsSeq
    <3>6. Len(nodes) \in Nat
      BY SeqFacts DEF FilesOK
    <3>7. DOMAIN nodes' = 1 .. Len(nodes')
      BY <3>5, SeqFacts DEF Later, IsSeq
    <3>8. id \in DOMAIN nodes'
      BY <3>1, <3>5, <3>6, <3>7
    <3>9. nodes'[id].by = job[a].request.id
      BY <3>1, <3>11, <3>12 DEF Node
    <3> QED BY <3>2, <3>3, <3>8, <3>9 DEF KeepsFile
  <2> QED BY <1>2, <2>2, <2>3, CreateDoes
<1>3. CASE Own(a)
  <2>1. ASSUME Becomes(a, AfterGiven(a), job[a].seen, Tail(job[a].todo), job[a].made, job[a].id,
                       job[a].failure, job[a].left, job[a].wrote)
        PROVE  KeepsFile(a)
    <3>1. PICK step, todo: /\ step = AfterGiven(a)
                           /\ Becomes(a, step, job[a].seen, todo, job[a].made, job[a].id, job[a].failure,
                                      job[a].left, job[a].wrote)
      BY <2>1
    <3>2. job'[a].step = step /\ job'[a].id = job[a].id /\ job'[a].seen = job[a].seen
      BY <3>1, BecomesKeeps
    <3>3. step # "open"
      BY <3>1 DEF AfterGiven
    <3> QED BY <3>2, <3>3 DEF KeepsFile
  <2> QED BY <1>3, <2>1, OwnDoes, GoesKeeps
<1> QED BY <1>1, <1>2, <1>3

\* Undoing and ending leave the file as it is.
LEMMA UndoesKeep ==
  ASSUME FilesOK, JobsOK, NEW a \in Agents, Unmake(a) \/ UnlinkMade(a) \/ Undo(a) \/ Undone(a) \/ WritePart(a)
  PROVE  KeepsFile(a)
<1>1. ASSUME NEW step, step # "open", NEW made, NEW left, NEW failure, NEW wrote,
             Becomes(a, step, job[a].seen, job[a].todo, made, job[a].id, failure, left, wrote)
      PROVE  KeepsFile(a)
  BY <1>1, BecomesKeeps DEF KeepsFile
<1>2. CASE Unmake(a)
  BY <1>1, <1>2, UnmakeDoes, GoesKeeps
<1>3. CASE UnlinkMade(a)
  BY <1>1, <1>3, UnlinkMadeDoes, GoesKeeps
<1>4. CASE Undo(a)
  <2>1. job[a].step # "open"
    BY <1>4 DEF Undo, At
  <2> QED BY <1>1, <1>4, <2>1, UndoDoes
<1>5. CASE Undone(a)
  BY <1>5, UndoneDoes, GoesKeeps
<1>6. CASE WritePart(a)
  <2>1. PICK yes \in BOOLEAN: yes = TRUE
    OBVIOUS
  <2>2. \/ Becomes(a, "answer", job[a].seen, job[a].todo, job[a].made, job[a].id, job[a].failure,
                    job[a].left, yes)
        \/ Becomes(a, "answer", job[a].seen, job[a].todo, job[a].made, job[a].id, "io",
                    job[a].left, yes)
    <3>1. \/ Becomes(a, "answer", job[a].seen, job[a].todo, job[a].made, job[a].id, job[a].failure,
                      job[a].left, TRUE)
          \/ Becomes(a, "answer", job[a].seen, job[a].todo, job[a].made, job[a].id, "io",
                      job[a].left, TRUE)
      BY <1>6, WritePartDoes
    <3> QED BY <2>1, <3>1
  <2> QED BY <1>1, <2>2
<1> QED BY <1>2, <1>3, <1>4, <1>5, <1>6

\* So does every step of a job.
LEMMA StepKeeps ==
  ASSUME FilesOK, JobsOK, Fresh, NEW a \in Agents, FilesStep(a), Writes(job[a].request)
  PROVE  KeepsFile(a)
<1>1. CASE LookToRemove(a) \/ Unlink(a) \/ Chmod(a)
  BY <1>1, AtOther DEF LookToRemove, Unlink, Chmod, Writes
<1> QED BY <1>1, LooksKeep, MakesKeep, UndoesKeep DEF FilesStep

----------------------------------------------------------------------------
\* No first part finds a file open for it.
NoneIsOpenForFirst ==
  \A a \in Agents: (inbox[a] # <<>> /\ FirstPart(Head(inbox[a]))) => writing[a][Head(inbox[a]).path] = 0

\* What an agent does not touch stays fresh.
LEMMA FreshOfAnother ==
  ASSUME FilesOK, JobsOK, Later, Fresh, NEW b \in Agents, job'[b] = job[b]
  PROVE  FreshAt(b)'
<1> SUFFICES ASSUME Busy(b)', Writes(job[b].request)'
             PROVE  /\ At(b, "open")' => job'[b].seen
                    /\ (job'[b].id # 0 /\ ~job'[b].seen) => MadeByItself(b)'
  BY DEF FreshAt
<1>1. PICK j: j = job[b] /\ j = job'[b]
  OBVIOUS
<1>2. Busy(b) /\ Writes(j.request)
  BY <1>1 DEF Busy, Writes
<1>3. FreshAt(b) /\ IsJob(j)
  BY <1>1, <1>2 DEF Fresh, JobsOK
<1>4. At(b, "open") = At(b, "open")'
  BY <1>1 DEF At
<1>5. ASSUME j.id # 0, ~j.seen PROVE MadeByItself(b)'
  <2>1. MadeByItself(b)
    BY <1>1, <1>2, <1>3, <1>5 DEF FreshAt
  <2>2. j.id \in DOMAIN nodes
    BY <1>3, <1>5, JobFacts, SeqFacts DEF FilesOK
  <2>3. nodes'[j.id].by = nodes[j.id].by
    BY <2>2 DEF Later
  <2> QED BY <1>1, <2>1, <2>3 DEF MadeByItself
<1> QED BY <1>1, <1>2, <1>3, <1>4, <1>5 DEF FreshAt

LEMMA FreshStep ==
  ASSUME FilesOK, JobsOK, Fresh, NEW a \in Agents, FilesStep(a)
  PROVE  Fresh'
<1>1. FileMoves(a)
  BY FilesStepMoves
<1>2. ASSUME NEW b \in Agents, b # a PROVE FreshAt(b)'
  BY <1>1, <1>2, FreshOfAnother DEF FileMoves, JobMoves
<1>3. FreshAt(a)'
  <2> SUFFICES ASSUME Writes(job[a].request)'
               PROVE  /\ At(a, "open")' => job'[a].seen
                      /\ (job'[a].id # 0 /\ ~job'[a].seen) => MadeByItself(a)'
    BY DEF FreshAt
  <2>1. PICK j, k: j = job[a] /\ k = job'[a]
    OBVIOUS
  <2>2. Busy(a) /\ Later /\ k.request = j.request
    BY <1>1, <2>1 DEF FileMoves, JobMoves
  <2>3. Writes(j.request)
    BY <2>1, <2>2 DEF Writes
  <2>4. FreshAt(a) /\ IsJob(j)
    BY <2>1, <2>2 DEF Fresh, JobsOK
  <2>5. KeepsFile(a)
    BY <2>1, <2>3, StepKeeps
  <2>6. CASE k.id = j.id /\ k.seen = j.seen /\ k.step # "open"
    <3>1. ASSUME k.id # 0, ~k.seen PROVE MadeByItself(a)'
      <4>1. MadeByItself(a)
        BY <2>1, <2>2, <2>3, <2>4, <2>6, <3>1 DEF FreshAt
      <4>2. j.id \in DOMAIN nodes
        BY <2>4, <2>6, <3>1, JobFacts, SeqFacts DEF FilesOK
      <4>3. nodes'[j.id].by = nodes[j.id].by
        BY <2>2, <4>2 DEF Later
      <4> QED BY <2>1, <2>2, <2>6, <4>1, <4>3 DEF MadeByItself
    <3> QED BY <2>1, <2>6, <3>1 DEF At
  <2>7. CASE k.id = 0 /\ (k.step = "open" => k.seen)
    BY <2>1, <2>7 DEF At
  <2>8. CASE k.seen
    BY <2>1, <2>8 DEF At
  <2>9. CASE k.id \in DOMAIN nodes' /\ nodes'[k.id].by = j.request.id /\ k.step # "open"
    BY <2>1, <2>2, <2>9 DEF At, MadeByItself
  <2> QED BY <2>1, <2>5, <2>6, <2>7, <2>8, <2>9 DEF KeepsFile
<1> QED BY <1>2, <1>3 DEF Fresh

LEMMA FreshIdle ==
  ASSUME FilesOK, JobsOK, Later, Fresh, NEW a \in Agents,
         \A b \in Agents \ {a}: job'[b] = job[b],
         job'[a] = Idle \/ job'[a].request.kind = "read"
  PROVE  Fresh'
<1>1. ASSUME NEW b \in Agents, b # a PROVE FreshAt(b)'
  BY <1>1, FreshOfAnother
<1>2. FreshAt(a)'
  BY DEF FreshAt, Busy, Writes
<1> QED BY <1>1, <1>2 DEF Fresh

\* A job that begins has no file, or is a later part.
LEMMA FreshTake ==
  ASSUME FilesOK, JobsOK, PipesOK, NoneIsOpenForFirst, Fresh, NEW a \in Agents, Take(a)
  PROVE  Fresh'
<1>0. Later /\ ~Busy(a) /\ inbox[a] # <<>>
  BY TakeDoes, LaterStays
<1> DEFINE r == Head(inbox[a])
<1>1. CASE UNCHANGED job
  BY <1>0, <1>1, FreshOfAnother DEF Fresh
<1>2. CASE JobIs(a, Taken(a, r))
  <2>1. ASSUME NEW b \in Agents, b # a PROVE FreshAt(b)'
    BY <1>0, <1>2, <2>1, FreshOfAnother DEF JobIs
  <2>2. PICK k: k = job'[a] /\ k = Taken(a, r)
    BY <1>2 DEF JobIs
  <2>3. k.request = r /\ k.seen = FALSE /\ k.id = Found(a, r) /\ k.step = FirstStep(a, r)
    BY <2>2 DEF Taken
  <2>4. IsRequest(r)
    BY <1>0, TailFacts DEF PipesOK
  <2>5. ASSUME Writes(r) PROVE k.step # "open"
    BY <2>3, <2>5 DEF FirstStep, Writes
  <2>6. ASSUME Writes(r), k.id # 0 PROVE r.kind = "write" /\ r.part[2] > 1
    <3>1. r.kind = "write" /\ writing[a][r.path] # 0
      BY <2>3, <2>6 DEF Found
    <3>2. ~FirstPart(r)
      BY <1>0, <3>1 DEF NoneIsOpenForFirst
    <3>3. r.part[2] \in Nat \ {0} /\ r.part[2] # 1
      BY <2>4, <3>1, <3>2 DEF IsRequest, FirstPart
    <3> QED BY <3>1, <3>3
  <2>7. FreshAt(a)'
    BY <2>2, <2>3, <2>5, <2>6 DEF FreshAt, MadeByItself, Writes, At
  <2> QED BY <2>1, <2>7 DEF Fresh
<1> QED BY <1>1, <1>2, TakeDoes

\* Every step of the system keeps the jobs fresh.
LEMMA NextFresh ==
  ASSUME TypesOK, NoneIsOpenForFirst, Fresh, [Next]_vars
  PROVE  Fresh'
<1>0. FilesOK /\ JobsOK /\ PipesOK /\ ClientOK
  BY DEF TypesOK
<1>1. ASSUME UNCHANGED job, Later PROVE Fresh'
  BY <1>0, <1>1, FreshOfAnother DEF Fresh
<1>2. CASE UNCHANGED <<filesVars, job>>
  BY <1>0, <1>1, <1>2, LaterStays DEF filesVars
<1>3. CASE ClientStep
  BY <1>2, <1>3 DEF ClientStep, SendRequest, ReceiveContents, ReceiveChanged, Reconnect, GiveUp, Close
<1>4. CASE NoAnswer
  BY <1>2, <1>4 DEF NoAnswer
<1>5. ASSUME NEW a \in Agents, Work(a) \/ EndAgent(a) PROVE Fresh'
  <2>1. CASE Take(a)
    BY <1>0, <2>1, FreshTake
  <2>2. CASE AnswerChange(a)
    <3>1. JobIs(a, Idle) /\ UNCHANGED filesVars
      BY <1>0, <2>2, AnswerChangeDoes
    <3> QED BY <1>0, <3>1, FreshIdle, LaterStays DEF JobIs, filesVars
  <2>3. CASE ReadOne(a) \/ SayContents(a)
    <3>1. (\E p, t, m: Reading(a, p, t, m)) \/ JobIs(a, Idle)
      BY <1>0, <2>3, ReadOneDoes, SayContentsDoes
    <3>2. UNCHANGED filesVars
      BY <1>0, <2>3, ReadOneDoes, SayContentsDoes
    <3>3. ASSUME NEW p, NEW t, NEW m, Reading(a, p, t, m) PROVE job'[a].request.kind = "read"
      BY <3>3 DEF Reading, JobIs
    <3>4. \A b \in Agents \ {a}: job'[b] = job[b]
      BY <3>1 DEF Reading, JobIs
    <3> QED BY <1>0, <3>1, <3>2, <3>3, <3>4, FreshIdle, LaterStays DEF JobIs, filesVars
  <2>4. CASE EndAgent(a)
    <3>1. JobIs(a, Idle) /\ UNCHANGED filesVars
      BY <1>0, <2>4, EndAgentDoes
    <3> QED BY <1>0, <3>1, FreshIdle, LaterStays DEF JobIs, filesVars
  <2>5. CASE FilesStep(a)
    BY <1>0, <2>5, FreshStep
  <2> QED BY <1>5, <2>1, <2>2, <2>3, <2>4, <2>5 DEF Work
<1>6. CASE OthersMove
  BY <1>0, <1>1, <1>6, OthersDo
<1>7. CASE Done \/ UNCHANGED vars
  BY <1>2, <1>7 DEF Done, vars
<1> QED BY <1>3, <1>4, <1>5, <1>6, <1>7 DEF Next

\* Then nothing that appears is opened.
LEMMA FreshIsEnough ==
  ASSUME JobsOK, Fresh
  PROVE  NothingThatAppearsIsOpened
<1> SUFFICES ASSUME NEW a \in Agents, ~At(a, "idle"), job[a].id # 0, ~job[a].seen,
                    job[a].request.kind \in {"write", "symlink"}
             PROVE  MadeByItself(a)
  BY DEF NothingThatAppearsIsOpened, MadeByItself
<1>1. Busy(a)
  BY DEF Busy, At, Idle
<1> QED BY <1>1 DEF Fresh, FreshAt, Writes

----------------------------------------------------------------------------
(***************************************************************************)
(* Whom an open file is for: the next part of the write that opened it.    *)
(* The agent keeps it by its path (`write`,                                *)
(* agent/dispatch/mod.rs:143-155).                                         *)
(***************************************************************************)
\* What that leaves true along a run.
Readable == budget.garbled > 0 => NoPathTwice(program)
\* A file stays open after a part that was written, when another is to follow.
KeptAt(a) ==
  (Busy(a) /\ job[a].request.kind = "write" /\ writing[a][Path(a)] # 0) =>
    At(a, "answer") /\ job[a].failure = "none" /\ job[a].request.more
\* What is open is for the next part of what the client is doing.
OpenFor(p) ==
  writing[Mine][p] # 0 => \A i \in DOMAIN program: WritesTo(p, program[i]) =>
    /\ WritesTo(p, Op)
    /\ i > 1 \/ client.part > 1 \/ (client.step = "wait" /\ inbox[Mine] = <<>>)
OpenForTheNext == client.step # "lost" => \A p \in Paths: OpenFor(p)
\* The answer says that the next part is to come, or refuses a later part.
GoesOn(frame) ==
  \/ frame.kind = "changed" /\ frame.failure = "none" /\ client.part < Op.parts
  \/ frame.kind = "refused" /\ NoPathTwice(program)
AnswerGoesOn ==
  (client.step = "wait" /\ Op.kind = "write" /\ outbox[Mine] # <<>> /\ writing[Mine][Op.path] # 0) =>
    GoesOn(Head(outbox[Mine]))

\* The parts of one write use one open file, and nobody else finds it.
Streams ==
  Readable /\ NoneIsOpenForFirst /\ (\A a \in Agents: KeptAt(a)) /\ OpenForTheNext /\ AnswerGoesOn

----------------------------------------------------------------------------
\* What an agent does not touch it keeps open for the same part.
LEMMA KeptOfAnother ==
  ASSUME Streams, NEW b \in Agents, job'[b] = job[b], writing'[b] = writing[b]
  PROVE  KeptAt(b)'
<1>1. PICK j, w: j = job[b] /\ j = job'[b] /\ w = writing[b] /\ w = writing'[b]
  OBVIOUS
<1>2. KeptAt(b)
  BY DEF Streams
<1> QED BY <1>1, <1>2 DEF KeptAt, Busy, Path, At

LEMMA KeptIdle ==
  ASSUME NEW a \in Agents, job'[a] = Idle \/ job'[a].request.kind # "write"
  PROVE  KeptAt(a)'
BY DEF KeptAt, Busy

\* An agent works, and the client does nothing.
LEMMA StreamsOfAgent ==
  ASSUME Streams, Mine \in Agents, UNCHANGED <<clientVars, writing>>, budget'.garbled = budget.garbled,
         \A a \in Agents: inbox'[a] = inbox[a] \/ inbox'[a] = <<>>,
         \A a \in Agents: KeptAt(a)', outbox'[Mine] = outbox[Mine] \/ AnswerGoesOn'
  PROVE  Streams'
<1>1. UNCHANGED <<program, client>>
  BY DEF clientVars
<1>2. Readable'
  BY <1>1 DEF Streams, Readable
<1>3. NoneIsOpenForFirst'
  BY DEF Streams, NoneIsOpenForFirst
<1>4. OpenForTheNext'
  BY <1>1 DEF Streams, OpenForTheNext, OpenFor, Op, Mine
<1>5. AnswerGoesOn'
  BY <1>1 DEF Streams, AnswerGoesOn, GoesOn, Op, Mine
<1> QED BY <1>2, <1>3, <1>4, <1>5 DEF Streams

LEMMA FileStepWrites ==
  ASSUME NEW a \in Agents, FilesStep(a), ~WritePart(a)
  PROVE  UNCHANGED writing /\ ~At(a, "answer")
<1>1. UNCHANGED writing
  BY DEF FilesStep, Look, OpenExisting, FindParents, MakeParent, ParentsMade, Create, Own, Unmake,
         UnlinkMade, Undo, Undone, LookToRemove, Unlink, Chmod, filesVars
<1>2. ~At(a, "answer")
  BY DEF FilesStep, Look, OpenExisting, FindParents, MakeParent, ParentsMade, Create, Own, Unmake,
         UnlinkMade, Undo, Undone, LookToRemove, Unlink, Chmod, At
<1> QED BY <1>1, <1>2

\* A job opens no file under another path.
LEMMA FilesStepStreams ==
  ASSUME TypesOK, Streams, NEW a \in Agents, FilesStep(a), ~WritePart(a), UNCHANGED <<clientVars, pipeVars>>
  PROVE  Streams'
<1>0. FilesOK /\ JobsOK /\ Mine \in Agents
  BY DEF TypesOK, ClientOK, Mine
<1>1. FileMoves(a) /\ UNCHANGED writing /\ ~At(a, "answer")
  BY <1>0, FilesStepMoves, FileStepWrites
<1>2. Busy(a) /\ job'[a].request = job[a].request /\ (\A b \in Agents \ {a}: job'[b] = job[b])
      /\ budget'.garbled = budget.garbled
  BY <1>1 DEF FileMoves, JobMoves
<1>3. KeptAt(a)'
  <2>1. KeptAt(a)
    BY DEF Streams
  <2> QED BY <1>1, <1>2, <2>1 DEF KeptAt, Path
<1>4. \A b \in Agents: KeptAt(b)'
  BY <1>1, <1>2, <1>3, KeptOfAnother
<1>5. inbox' = inbox /\ outbox' = outbox
  BY DEF pipeVars
<1> QED BY <1>0, <1>1, <1>2, <1>4, <1>5, StreamsOfAgent

LEMMA QuietStreams ==
  ASSUME TypesOK, Streams, UNCHANGED <<clientVars, writing, job, inbox, outbox>>, budget'.garbled = budget.garbled
  PROVE  Streams'
<1>0. Mine \in Agents
  BY DEF TypesOK, ClientOK, Mine
<1>1. \A b \in Agents: KeptAt(b)'
  BY KeptOfAnother
<1> QED BY <1>0, <1>1, StreamsOfAgent

LEMMA EndAgentStreams ==
  ASSUME TypesOK, Streams, NEW a \in Agents, EndAgent(a)
  PROVE  Streams'
<1>0. FilesOK /\ JobsOK /\ PipesOK /\ Mine \in Agents
  BY DEF TypesOK, ClientOK, Mine
<1>1. /\ BudgetMoves /\ inbox' = [inbox EXCEPT ![a] = <<>>]
      /\ JobIs(a, Idle) /\ UNCHANGED <<filesVars, did, outbox, clientVars>>
  BY <1>0, EndAgentDoes
<1>2. \A b \in Agents: KeptAt(b)'
  <2>1. KeptAt(a)'
    BY <1>1, KeptIdle DEF JobIs
  <2> QED BY <1>1, <2>1, KeptOfAnother DEF JobIs, filesVars
<1>3. \A b \in Agents: inbox'[b] = inbox[b] \/ inbox'[b] = <<>>
  BY <1>0, <1>1 DEF PipesOK
<1> QED BY <1>0, <1>1, <1>2, <1>3, StreamsOfAgent DEF filesVars, BudgetMoves

LEMMA ReadingStreams ==
  ASSUME TypesOK, Wire, Streams, NEW a \in Agents, ReadOne(a) \/ SayContents(a)
  PROVE  Streams'
<1>0. FilesOK /\ JobsOK /\ PipesOK /\ Mine \in Agents
  BY DEF TypesOK, ClientOK, Mine
<1>1. At(a, "read") /\ UNCHANGED <<filesVars, budget, inbox, clientVars>>
  BY <1>0, ReadOneDoes, SayContentsDoes DEF pipeVars
<1>2. Busy(a) /\ job[a].request.kind = "read"
  BY <1>0, <1>1, AtRead
<1>3. (\E p, t, m: Reading(a, p, t, m)) \/ JobIs(a, Idle)
  BY <1>0, ReadOneDoes, SayContentsDoes
<1>4. KeptAt(a)'
  <2>1. ASSUME NEW p, NEW t, NEW m, Reading(a, p, t, m) PROVE job'[a].request.kind = "read"
    BY <2>1 DEF Reading, JobIs
  <2>2. JobIs(a, Idle) => job'[a] = Idle
    BY DEF JobIs
  <2> QED BY <1>3, <2>1, <2>2, KeptIdle
<1>5. \A b \in Agents \ {a}: job'[b] = job[b]
  BY <1>3 DEF Reading, JobIs
<1>6. \A b \in Agents: KeptAt(b)'
  BY <1>1, <1>4, <1>5, KeptOfAnother DEF filesVars
<1>7. outbox'[Mine] = outbox[Mine] \/ AnswerGoesOn'
  <2>1. CASE a = Mine
    <3> SUFFICES ASSUME client'.step = "wait" PROVE Op'.kind # "write"
      BY DEF AnswerGoesOn
    <3>1. client.step = "wait" /\ Op' = Op
      BY <1>1 DEF clientVars, Op
    <3>2. inbox[a] = <<>>
      BY <1>2 DEF Wire
    <3>3. Pending(Mine) /\ Asked(Mine) = job[a].request
      BY <1>2, <2>1, <3>2 DEF Pending, Asked
    <3>4. IsFor(Asked(Mine))
      BY <3>1, <3>3 DEF Wire
    <3> QED BY <1>2, <3>1, <3>3, <3>4 DEF IsFor
  <2>2. CASE a # Mine
    <3>1. outbox' = outbox \/ \E frame: Say(a, frame)
      BY <1>0, ReadOneDoes, SayContentsDoes DEF pipeVars
    <3> QED BY <1>0, <2>2, <3>1 DEF Say, PipesOK
  <2> QED BY <2>1, <2>2
<1> QED BY <1>0, <1>1, <1>6, <1>7, StreamsOfAgent DEF filesVars

----------------------------------------------------------------------------
\* What the agent has in hand is for what the client is doing.
LEMMA InHandIsFor ==
  ASSUME Wire, Mine \in Agents, Busy(Mine), client.step # "next"
  PROVE  IsFor(job[Mine].request) /\ inbox[Mine] = <<>>
<1>1. inbox[Mine] = <<>>
  BY DEF Wire
<1>2. Pending(Mine) /\ Asked(Mine) = job[Mine].request
  BY <1>1 DEF Pending, Asked
<1>3. IsFor(Asked(Mine))
  BY <1>2 DEF Wire
<1> QED BY <1>1, <1>2, <1>3 DEF IsFor

\* While it is in hand, nothing but parts of a content is on its way.
LEMMA InHandIsUnanswered ==
  ASSUME PipesOK, Frames, Mine \in Agents, Pending(Mine), client.step = "wait", Op.kind # "read"
  PROVE  outbox[Mine] = <<>>
<1>1. \A k \in DOMAIN outbox[Mine]: Partial(outbox[Mine][k])
  BY DEF Frames
<1>2. DOMAIN outbox[Mine] = {}
  BY <1>1 DEF Partial
<1>3. PICK s: s = outbox[Mine] /\ IsSeq(s) /\ DOMAIN s = {}
  BY <1>2 DEF PipesOK
<1>4. Len(s) \in Nat /\ DOMAIN s = 1 .. Len(s) /\ (s = <<>> <=> Len(s) = 0)
  BY <1>3, SeqFacts
<1>5. Len(s) = 0
  <2> SUFFICES ASSUME Len(s) # 0 PROVE FALSE
    OBVIOUS
  <2>1. PICK n \in Nat: n = Len(s)
    BY <1>4
  <2>2. 1 \in 1 .. n
    BY <2>1
  <2> QED BY <1>3, <1>4, <2>1, <2>2
<1> QED BY <1>3, <1>4, <1>5

\* A part that was written keeps its file for the next one, or closes it.
LEMMA WritePartStreams ==
  ASSUME TypesOK, Wire, Frames, Streams, NEW a \in Agents, WritePart(a), UNCHANGED <<clientVars, pipeVars>>
  PROVE  Streams'
<1>0. FilesOK /\ JobsOK /\ PipesOK /\ Mine \in Agents
  BY DEF TypesOK, ClientOK, Mine
<1>1. Busy(a) /\ Path(a) \in Paths /\ job[a].request.kind = "write" /\ IsJob(job[a]) /\ job[a].step = "write"
  BY <1>0, AtOther DEF WritePart
<1>2. FileMoves(a) /\ inbox[a] = <<>>
  <2>1. FilesStep(a)
    BY DEF FilesStep
  <2> QED BY <1>0, <1>1, <2>1, FilesStepMoves DEF Wire
<1>3. \/ /\ writing' = [writing EXCEPT ![a][Path(a)] = IF job[a].request.more THEN job[a].id ELSE 0]
         /\ job'[a].step = "answer" /\ job'[a].failure = "none"
      \/ /\ writing' = [writing EXCEPT ![a][Path(a)] = 0]
  <2>1. job[a].failure = "none"
    BY <1>1, JobFacts
  <2>2. ASSUME NEW failure, NEW yes,
               Becomes(a, "answer", job[a].seen, job[a].todo, job[a].made, job[a].id, failure, job[a].left, yes)
        PROVE  job'[a].step = "answer" /\ job'[a].failure = failure
    BY <2>2 DEF Becomes
  <2>3. PICK yes \in BOOLEAN: yes = TRUE
    OBVIOUS
  <2>4. CASE /\ writing' = [writing EXCEPT ![a][Path(a)] = IF job[a].request.more THEN job[a].id ELSE 0]
             /\ Becomes(a, "answer", job[a].seen, job[a].todo, job[a].made, job[a].id, job[a].failure,
                        job[a].left, TRUE)
    <3>1. Becomes(a, "answer", job[a].seen, job[a].todo, job[a].made, job[a].id, job[a].failure,
                  job[a].left, yes)
      BY <2>3, <2>4
    <3> QED BY <2>1, <2>2, <2>4, <3>1
  <2> QED BY <1>0, <2>4, WritePartDoes
<1>4. PICK w: /\ writing' = [writing EXCEPT ![a][Path(a)] = w]
              /\ w # 0 => job[a].request.more /\ job'[a].step = "answer" /\ job'[a].failure = "none"
  BY <1>3
<1>5. /\ \A b \in Agents \ {a}: writing'[b] = writing[b] /\ job'[b] = job[b]
      /\ \A p \in Paths \ {Path(a)}: writing'[a][p] = writing[a][p]
      /\ writing'[a][Path(a)] = w
      /\ job'[a].request = job[a].request
  BY <1>0, <1>1, <1>2, <1>4 DEF FilesOK, FileMoves, JobMoves
<1>6. UNCHANGED <<program, client, inbox, outbox>> /\ budget'.garbled = budget.garbled
  BY <1>2 DEF clientVars, pipeVars, FileMoves
<1>7. Readable'
  BY <1>6 DEF Streams, Readable
<1>8. NoneIsOpenForFirst'
  <2> SUFFICES ASSUME NEW b \in Agents, inbox[b] # <<>>, FirstPart(Head(inbox[b]))
               PROVE  writing'[b][Head(inbox[b]).path] = 0
    BY <1>6 DEF NoneIsOpenForFirst
  <2>1. b # a
    BY <1>2
  <2> QED BY <1>5, <2>1 DEF Streams, NoneIsOpenForFirst
<1>9. \A b \in Agents: KeptAt(b)'
  <2>1. KeptAt(a)'
    BY <1>4, <1>5 DEF KeptAt, Path, At
  <2> QED BY <1>5, <2>1, KeptOfAnother
<1>10. OpenForTheNext'
  <2> SUFFICES ASSUME client.step # "lost", NEW p \in Paths, writing'[Mine][p] # 0,
                      NEW i \in DOMAIN program, WritesTo(p, program[i])
               PROVE  /\ WritesTo(p, Op)
                      /\ i > 1 \/ client.part > 1 \/ (client.step = "wait" /\ inbox[Mine] = <<>>)
    BY <1>6 DEF OpenForTheNext, OpenFor, Op, Mine
  <2>1. CASE a = Mine /\ p = Path(a)
    <3>1. Pending(Mine)
      BY <1>1, <2>1 DEF Pending
    <3>2. program # <<>>
      BY <1>0, SeqFacts DEF TypesOK, ClientOK
    <3>3. client.step # "next"
      BY <3>1, <3>2 DEF Wire
    <3>4. client.step = "wait"
      BY <3>3 DEF TypesOK, ClientOK
    <3>5. IsFor(job[Mine].request) /\ inbox[Mine] = <<>>
      BY <1>0, <1>1, <2>1, <3>3, InHandIsFor
    <3> QED BY <1>1, <2>1, <3>4, <3>5 DEF IsFor, WritesTo, Changes, Path
  <2>2. CASE ~(a = Mine /\ p = Path(a))
    <3>1. writing[Mine][p] # 0
      BY <1>0, <1>5, <2>2
    <3> QED BY <3>1 DEF Streams, OpenForTheNext, OpenFor
  <2> QED BY <2>1, <2>2
<1>11. AnswerGoesOn'
  <2> SUFFICES ASSUME client.step = "wait", Op.kind = "write", outbox[Mine] # <<>>,
                      writing'[Mine][Op.path] # 0
               PROVE  GoesOn(Head(outbox[Mine]))
    BY <1>6 DEF AnswerGoesOn, GoesOn, Op, Mine
  <2>1. CASE a = Mine
    BY <1>0, <1>1, <2>1, InHandIsUnanswered DEF Pending
  <2>2. CASE a # Mine
    BY <1>0, <1>5, <2>2 DEF Streams, AnswerGoesOn
  <2> QED BY <2>1, <2>2
<1> QED BY <1>7, <1>8, <1>9, <1>10, <1>11 DEF Streams

\* The answer tells the client whether another part is to come.
LEMMA AnswerChangeStreams ==
  ASSUME TypesOK, Wire, Frames, Streams, NEW a \in Agents, AnswerChange(a)
  PROVE  Streams'
<1>0. FilesOK /\ JobsOK /\ PipesOK /\ Mine \in Agents
  BY DEF TypesOK, ClientOK, Mine
<1>1. /\ At(a, "answer") /\ Busy(a) /\ JobIs(a, Idle)
      /\ UNCHANGED <<filesVars, budget, inbox, clientVars>>
  BY <1>0, AnswerChangeDoes
<1>2. \A b \in Agents: KeptAt(b)'
  <2>1. KeptAt(a)'
    BY <1>1, KeptIdle DEF JobIs
  <2> QED BY <1>1, <2>1, KeptOfAnother DEF JobIs, filesVars
<1>3. PICK frame: /\ outbox' = [outbox EXCEPT ![a] = Append(@, frame)]
                  /\ frame.kind = "changed" /\ frame.failure = job[a].failure
  <2>1. Say(a, [kind |-> "changed", failure |-> job[a].failure, id |-> job[a].request.id])
    BY <1>0, AnswerChangeDoes
  <2>2. PICK f: f = [kind |-> "changed", failure |-> job[a].failure, id |-> job[a].request.id]
    OBVIOUS
  <2>3. f.kind = "changed" /\ f.failure = job[a].failure
    BY <2>2
  <2> QED BY <2>1, <2>2, <2>3 DEF Say
<1>4. outbox'[Mine] = outbox[Mine] \/ AnswerGoesOn'
  <2>1. CASE a # Mine
    BY <1>0, <1>3, <2>1 DEF PipesOK
  <2>2. CASE a = Mine
    <3> SUFFICES ASSUME client.step = "wait", Op.kind = "write", writing[Mine][Op.path] # 0
                 PROVE  GoesOn(Head(outbox'[Mine]))
      BY <1>1 DEF AnswerGoesOn, GoesOn, Op, Mine, clientVars, filesVars
    <3>1. outbox[Mine] = <<>>
      BY <1>0, <1>1, <2>2, InHandIsUnanswered DEF Pending
    <3>2. Head(outbox'[Mine]) = frame
      <4>1. PICK s: s = Append(outbox[Mine], frame) /\ outbox'[Mine] = s
        BY <1>0, <1>3, <2>2 DEF PipesOK
      <4>2. s = <<frame>>
        BY <3>1, <4>1
      <4> QED BY <4>1, <4>2
    <3>3. IsFor(job[Mine].request)
      BY <1>0, <1>1, <2>2, InHandIsFor
    <3>4. job[a].request.kind = "write" /\ Path(a) = Op.path /\ job[a].request.more = (client.part < Op.parts)
      BY <2>2, <3>3 DEF IsFor, Changes, Path
    <3>5. job[a].failure = "none" /\ job[a].request.more
      BY <1>1, <2>2, <3>4 DEF Streams, KeptAt
    <3> QED BY <1>3, <3>2, <3>4, <3>5 DEF GoesOn
  <2> QED BY <2>1, <2>2
<1> QED BY <1>0, <1>1, <1>2, <1>4, StreamsOfAgent DEF filesVars

\* Taking a request: a part that is read takes the file, one that is not leaves it.
LEMMA TakeStreams ==
  ASSUME TypesOK, Wire, Streams, NEW a \in Agents, Take(a)
  PROVE  Streams'
<1>0. FilesOK /\ JobsOK /\ PipesOK /\ Mine \in Agents
  BY DEF TypesOK, ClientOK, Mine
<1> DEFINE r == Head(inbox[a])
<1>1. /\ ~Busy(a) /\ inbox[a] # <<>> /\ inbox' = [inbox EXCEPT ![a] = Tail(@)]
      /\ UNCHANGED clientVars
  BY <1>0, TakeDoes
<1>2. /\ inbox'[a] = <<>> /\ \A b \in Agents \ {a}: inbox'[b] = inbox[b]
  <2>1. PICK s: s = inbox[a] /\ Len(s) = 1 /\ IsSeq(s)
    BY <1>0, <1>1 DEF Wire, PipesOK
  <2>2. Tail(s) = <<>>
    <3>1. s # <<>>
      BY <1>1, <2>1
    <3>2. IsSeq(Tail(s)) /\ Len(Tail(s)) = 0
      BY <2>1, <3>1, TailFacts
    <3> QED BY <3>2, SeqFacts
  <2> QED BY <1>0, <1>1, <2>1, <2>2 DEF PipesOK
<1>3. UNCHANGED <<program, client>>
  BY <1>1 DEF clientVars
<1>4. CASE /\ JobIs(a, Taken(a, r)) /\ UNCHANGED <<outbox, budget>>
           /\ writing' = IF r.kind = "write" THEN [writing EXCEPT ![a][r.path] = 0] ELSE writing
  <2>0. r.kind = "write" => r.path \in Paths
    <3>1. IsRequest(r)
      BY <1>0, <1>1, TailFacts DEF PipesOK
    <3> QED BY <3>1 DEF IsRequest, Changes
  <2>1. /\ \A b \in Agents \ {a}: writing'[b] = writing[b]
        /\ \A p \in Paths: writing'[a][p] \in {writing[a][p], 0}
        /\ r.kind = "write" => writing'[a][r.path] = 0
    BY <1>0, <1>4, <2>0 DEF FilesOK
  <2>2. Readable'
    BY <1>3, <1>4 DEF Streams, Readable
  <2>3. NoneIsOpenForFirst'
    <3> SUFFICES ASSUME NEW b \in Agents, inbox'[b] # <<>>, FirstPart(Head(inbox'[b]))
                 PROVE  writing'[b][Head(inbox'[b]).path] = 0
      BY DEF NoneIsOpenForFirst
    <3>1. b # a
      BY <1>2
    <3> QED BY <1>2, <2>1, <3>1 DEF Streams, NoneIsOpenForFirst
  <2>4. \A b \in Agents: KeptAt(b)'
    <3>1. KeptAt(a)'
      <4>1. job'[a].request = r
        BY <1>4 DEF JobIs, Taken
      <4> QED BY <2>1, <4>1 DEF KeptAt, Path
    <3> QED BY <1>4, <2>1, <3>1, KeptOfAnother DEF JobIs
  <2>5. \A p \in Paths: writing'[Mine][p] # 0 => writing[Mine][p] # 0
    BY <1>0, <2>1
  <2>6. OpenForTheNext'
    <3> SUFFICES ASSUME client.step # "lost", NEW p \in Paths, writing'[Mine][p] # 0,
                        NEW i \in DOMAIN program, WritesTo(p, program[i])
                 PROVE  /\ WritesTo(p, Op)
                        /\ i > 1 \/ client.part > 1 \/ (client.step = "wait" /\ inbox'[Mine] = <<>>)
      BY <1>3 DEF OpenForTheNext, OpenFor, Op, Mine
    <3>1. writing[Mine][p] # 0
      BY <2>5
    <3>2. /\ WritesTo(p, Op)
          /\ i > 1 \/ client.part > 1 \/ (client.step = "wait" /\ inbox[Mine] = <<>>)
      BY <3>1 DEF Streams, OpenForTheNext, OpenFor
    <3> QED BY <1>0, <1>2, <3>2
  <2>7. AnswerGoesOn'
    <3> SUFFICES ASSUME client.step = "wait", Op.kind = "write", outbox[Mine] # <<>>,
                        writing'[Mine][Op.path] # 0
                 PROVE  GoesOn(Head(outbox[Mine]))
      BY <1>3, <1>4 DEF AnswerGoesOn, GoesOn, Op, Mine
    <3>1. Op.path \in Paths
      <4>1. program # <<>> /\ ClientOK
        BY DEF TypesOK, ClientOK
      <4>2. IsOperation(Op)
        BY <4>1, OpFacts
      <4> QED BY <4>2 DEF IsOperation, Changes
    <3> QED BY <2>5, <3>1 DEF Streams, AnswerGoesOn
  <2> QED BY <2>2, <2>3, <2>4, <2>6, <2>7 DEF Streams
<1>5. CASE /\ budget.garbled > 0 /\ budget' = [budget EXCEPT !.garbled = @ - 1]
           /\ outbox' = [outbox EXCEPT ![a] = Append(@, [kind |-> "refused", id |-> r.id])]
           /\ UNCHANGED <<job, writing>>
  <2>1. NoPathTwice(program)
    BY <1>5 DEF Streams, Readable
  <2>2. Readable'
    BY <1>3, <2>1 DEF Readable, NoPathTwice
  <2>3. NoneIsOpenForFirst'
    <3> SUFFICES ASSUME NEW b \in Agents, inbox'[b] # <<>>, FirstPart(Head(inbox'[b]))
                 PROVE  writing'[b][Head(inbox'[b]).path] = 0
      BY DEF NoneIsOpenForFirst
    <3>1. b # a
      BY <1>2
    <3> QED BY <1>2, <1>5, <3>1 DEF Streams, NoneIsOpenForFirst
  <2>4. \A b \in Agents: KeptAt(b)'
    BY <1>5, KeptOfAnother
  <2>5. OpenForTheNext'
    BY <1>0, <1>2, <1>3, <1>5 DEF Streams, OpenForTheNext, OpenFor, Op, Mine
  <2>6. AnswerGoesOn'
    <3> SUFFICES ASSUME client.step = "wait", Op.kind = "write", outbox'[Mine] # <<>>,
                        writing[Mine][Op.path] # 0
                 PROVE  GoesOn(Head(outbox'[Mine]))
      BY <1>3, <1>5 DEF AnswerGoesOn, GoesOn, Op, Mine, NoPathTwice
    <3>1. CASE a = Mine
      <4>1. outbox[Mine] = <<>>
        BY <1>1, <3>1 DEF Wire
      <4>2. PICK s, frame: /\ frame = [kind |-> "refused", id |-> r.id]
                           /\ s = Append(outbox[Mine], frame) /\ outbox'[Mine] = s
        BY <1>0, <1>5, <3>1 DEF PipesOK
      <4>3. s = <<frame>>
        BY <4>1, <4>2
      <4>4. Head(outbox'[Mine]).kind = "refused"
        BY <4>2, <4>3
      <4> QED BY <2>1, <4>4 DEF GoesOn
    <3>2. CASE a # Mine
      BY <1>0, <1>5, <3>2 DEF Streams, AnswerGoesOn, PipesOK
    <3> QED BY <3>1, <3>2
  <2> QED BY <2>2, <2>3, <2>4, <2>5, <2>6 DEF Streams
<1> QED BY <1>0, <1>4, <1>5, TakeDoes

----------------------------------------------------------------------------
\* The client goes on with its program, and no agent moves.
Sends == UNCHANGED <<filesVars, job, budget>>

LEMMA StreamsOfClient ==
  ASSUME Streams, Sends, Readable', NoneIsOpenForFirst', OpenForTheNext', AnswerGoesOn'
  PROVE  Streams'
<1>1. \A b \in Agents: KeptAt(b)'
  BY KeptOfAnother DEF Sends, filesVars
<1> QED BY <1>1 DEF Streams

LEMMA FirstStays ==
  ASSUME Streams, UNCHANGED writing, \A a \in Agents: inbox'[a] = inbox[a] \/ inbox'[a] = <<>>
  PROVE  NoneIsOpenForFirst'
BY DEF Streams, NoneIsOpenForFirst

\* The rest of a program names no path twice when the whole does not.
LEMMA RestIsReadable ==
  ASSUME TypesOK, Streams, program # <<>>, UNCHANGED budget, program' = Tail(program)
  PROVE  Readable'
<1>1. ClientOK
  BY DEF TypesOK
<1>2. PICK ops: ops = Tail(program) /\ program' = ops
  OBVIOUS
<1>3. \A i \in DOMAIN ops: ops[i] = program[i + 1] /\ i + 1 \in DOMAIN program
  BY <1>1, <1>2, OpFacts
<1>4. DOMAIN ops \subseteq Nat
  BY <1>1, <1>2, TailFacts DEF ClientOK
<1>5. ASSUME NoPathTwice(program) PROVE NoPathTwice(ops)
  <2> SUFFICES ASSUME NEW i \in DOMAIN ops, NEW j \in DOMAIN ops, i # j, ops[i].kind = "write"
               PROVE  ~WritesTo(ops[i].path, ops[j])
    BY DEF NoPathTwice
  <2>1. i + 1 # j + 1
    BY <1>4
  <2>2. ops[i] = program[i + 1] /\ ops[j] = program[j + 1] /\ i + 1 \in DOMAIN program /\ j + 1 \in DOMAIN program
    BY <1>3
  <2> QED BY <1>5, <2>1, <2>2 DEF NoPathTwice
<1> QED BY <1>2, <1>5 DEF Streams, Readable

\* After an operation nothing is open for what is left of the program.
NoneIsOpen == \A p \in Paths: \A i \in DOMAIN program: writing[Mine][p] # 0 => ~WritesTo(p, program[i])

\* Going on to the next operation leaves no file open for it.
LEMMA FinishStreams ==
  ASSUME TypesOK, Streams, client.step # "lost", program # <<>>, Sends, program' = Tail(program), Mine' = Mine,
         \A p \in Paths: (writing[Mine][p] # 0 /\ WritesTo(p, Op)) => NoPathTwice(program)
  PROVE  /\ Readable' /\ NoneIsOpen'
<1>1. ClientOK
  BY DEF TypesOK
<1>2. PICK ops: ops = Tail(program) /\ program' = ops
  OBVIOUS
<1>3. Readable'
  BY RestIsReadable DEF Sends
<1>4. ASSUME NEW p \in Paths, NEW i \in DOMAIN ops, writing[Mine][p] # 0, WritesTo(p, ops[i])
      PROVE  FALSE
  <2>1. ops[i] = program[i + 1] /\ i + 1 \in DOMAIN program /\ i + 1 # 1 /\ 1 \in DOMAIN program /\ Op = program[1]
    <3>1. i \in Nat \ {0}
      BY <1>1, <1>2, <1>4, TailFacts DEF ClientOK
    <3> QED BY <1>1, <1>2, <3>1, OpFacts
  <2>2. WritesTo(p, Op)
    BY <1>4, <2>1 DEF Streams, OpenForTheNext, OpenFor
  <2>3. NoPathTwice(program)
    BY <1>4, <2>2
  <2> QED BY <1>4, <2>1, <2>2, <2>3 DEF NoPathTwice, WritesTo
<1>5. NoneIsOpen'
  BY <1>2, <1>4 DEF NoneIsOpen, Sends, filesVars, WritesTo
<1> QED BY <1>3, <1>5

\* Sending a part: the first finds nothing open, a later one its own file.
LEMMA SendRequestStreams ==
  ASSUME TypesOK, Wire, Streams, SendRequest
  PROVE  Streams'
<1>0. ClientOK /\ PipesOK /\ Mine \in Agents
  BY DEF TypesOK, ClientOK, Mine
<1>1. client.step = "next" /\ program # <<>> /\ Sends
  BY <1>0, SendRequestDoes DEF Sends
<1>2. CASE Op.kind = "huge" /\ program' = Tail(program) /\ UNCHANGED <<client, pipeVars>>
  <2>1. Mine' = Mine /\ inbox' = inbox
    BY <1>2 DEF Mine, pipeVars
  <2>2. \A p: ~WritesTo(p, Op)
    BY <1>2 DEF WritesTo
  <2>3. Readable' /\ NoneIsOpen'
    BY <1>1, <1>2, <2>1, <2>2, FinishStreams
  <2>4. OpenForTheNext'
    BY <2>3 DEF NoneIsOpen, OpenForTheNext, OpenFor
  <2>5. AnswerGoesOn'
    BY <1>1, <1>2 DEF AnswerGoesOn
  <2>6. NoneIsOpenForFirst'
    BY <1>1, <2>1, FirstStays DEF Sends, filesVars
  <2> QED BY <1>1, <2>3, <2>4, <2>5, <2>6, StreamsOfClient
<1>3. CASE /\ Op.kind # "huge" /\ inbox' = [inbox EXCEPT ![Mine] = Append(@, Request)]
           /\ ClientIs("wait", client.agent, client.part, client.attempt, client.id + 1, <<>>, {})
           /\ UNCHANGED <<program, results, outbox, ended>>
  <2>1. client'.step = "wait" /\ client'.part = client.part /\ client'.agent = client.agent
    BY <1>3 DEF ClientIs
  <2>2. inbox[Mine] = <<>> /\ outbox[Mine] = <<>>
    BY <1>1 DEF Wire, Pending
  <2>3. PICK s: s = Append(inbox[Mine], Request) /\ inbox'[Mine] = s
    BY <1>0, <1>3 DEF PipesOK
  <2>4. s = <<Request>>
    BY <2>2, <2>3
  <2>5. Head(inbox'[Mine]) = Request
    BY <2>3, <2>4
  <2>6. \A b \in Agents \ {Mine}: inbox'[b] = inbox[b]
    BY <1>3
  <2>7. /\ Op' = Op /\ Mine' = Mine /\ UNCHANGED writing
    BY <1>1, <1>3, <2>1 DEF Op, Mine, Sends, filesVars
  <2>8. Readable'
    BY <1>1, <1>3 DEF Streams, Readable, Sends
  <2>9. ASSUME NEW p \in Paths, NEW i \in DOMAIN program, writing[Mine][p] # 0, WritesTo(p, program[i])
        PROVE  WritesTo(p, Op) /\ (i > 1 \/ client.part > 1)
    BY <1>1, <2>9 DEF Streams, OpenForTheNext, OpenFor
  <2>10. NoneIsOpenForFirst'
    <3> SUFFICES ASSUME NEW b \in Agents, inbox'[b] # <<>>, FirstPart(Head(inbox'[b]))
                 PROVE  writing[b][Head(inbox'[b]).path] = 0
      BY <2>7 DEF NoneIsOpenForFirst
    <3>1. CASE b # Mine
      BY <2>6, <3>1 DEF Streams, NoneIsOpenForFirst
    <3>2. CASE b = Mine
      <4>1. FirstPart(Request)
        BY <2>5, <3>2
      <4>2. Op.kind = "write" /\ Request.path = Op.path /\ client.part = 1
        <5>1. CASE Op.kind = "write"
          <6>1. PICK q: q = [kind |-> "write", path |-> Op.path, id |-> client.id + 1,
                             part |-> <<Op.name, client.part>>, more |-> client.part < Op.parts]
                        /\ q = Request
            BY <5>1 DEF Request
          <6> QED BY <4>1, <5>1, <6>1 DEF FirstPart
        <5>2. CASE Op.kind # "write"
          BY <4>1, <5>2 DEF Request, FirstPart
        <5> QED BY <5>1, <5>2
      <4>3. IsOperation(Op) /\ Op = program[1] /\ 1 \in DOMAIN program
        BY <1>0, <1>1, OpFacts
      <4>4. Op.path \in Paths /\ WritesTo(Op.path, program[1])
        BY <4>2, <4>3 DEF IsOperation, Changes, WritesTo
      <4>5. writing[Mine][Op.path] = 0
        BY <2>9, <4>2, <4>3, <4>4
      <4> QED BY <2>5, <3>2, <4>2, <4>5
    <3> QED BY <3>1, <3>2
  <2>11. OpenForTheNext'
    BY <1>3, <2>1, <2>7, <2>9 DEF OpenForTheNext, OpenFor, WritesTo
  <2>12. AnswerGoesOn'
    BY <1>3, <2>2, <2>7 DEF AnswerGoesOn
  <2> QED BY <1>1, <2>8, <2>10, <2>11, <2>12, StreamsOfClient
<1> QED BY <1>0, <1>2, <1>3, SendRequestDoes

\* A connection is taken for lost.
LEMMA LostStreams ==
  ASSUME TypesOK, Streams, UNCHANGED <<filesVars, job>>, budget'.garbled = budget.garbled,
         UNCHANGED <<program, inbox>>, client'.step = "lost"
  PROVE  Streams'
<1>1. Readable'
  BY DEF Streams, Readable
<1>2. NoneIsOpenForFirst'
  BY FirstStays DEF filesVars
<1>3. OpenForTheNext' /\ AnswerGoesOn'
  BY DEF OpenForTheNext, AnswerGoesOn
<1>4. \A b \in Agents: KeptAt(b)'
  BY KeptOfAnother DEF filesVars
<1> QED BY <1>1, <1>2, <1>3, <1>4 DEF Streams

\* What is left of the program when an operation is done.
LEMMA FinishedStreams ==
  ASSUME TypesOK, Streams, client.step = "wait", Received, NEW is, NEW got, Finish(is, got),
         \A p \in Paths: (writing[Mine][p] # 0 /\ WritesTo(p, Op)) => NoPathTwice(program)
  PROVE  Streams'
<1>0. ClientOK
  BY DEF TypesOK
<1>1. /\ ClientIs("next", client.agent, 1, 1, client.id, client.got, client.open)
      /\ program' = Tail(program)
  BY <1>0, FinishDoes
<1>2. client'.step = "next" /\ Mine' = Mine
  BY <1>1 DEF ClientIs, Mine
<1>3. program # <<>>
  BY <1>0 DEF ClientOK
<1>4. Sends /\ inbox' = inbox
  BY DEF Received, Sends
<1>5. Readable' /\ NoneIsOpen'
  BY <1>1, <1>2, <1>3, <1>4, FinishStreams
<1>6. OpenForTheNext' /\ AnswerGoesOn'
  BY <1>2, <1>5 DEF NoneIsOpen, OpenForTheNext, OpenFor, AnswerGoesOn
<1>7. NoneIsOpenForFirst'
  BY <1>4, FirstStays DEF Sends, filesVars
<1> QED BY <1>4, <1>5, <1>6, <1>7, StreamsOfClient

LEMMA ReceiveContentsStreams ==
  ASSUME TypesOK, Streams, ReceiveContents
  PROVE  Streams'
<1>0. ClientOK
  BY DEF TypesOK
<1>1. client.step = "wait" /\ Op.kind = "read" /\ Received
  BY <1>0, ReceiveContentsDoes
<1>2. \A p: ~WritesTo(p, Op)
  BY <1>1 DEF WritesTo
<1>3. ASSUME NEW is, NEW got, Finish(is, got) PROVE Streams'
  BY <1>1, <1>2, <1>3, FinishedStreams
<1>4. CASE LoseIt
  <2>1. client'.step = "lost" /\ UNCHANGED program
    BY <1>0, <1>4, LoseItDoes DEF ClientIs
  <2> QED BY <1>1, <2>1, LostStreams DEF Received
<1>5. ASSUME NEW got, NEW open,
             ClientIs("wait", client.agent, client.part, client.attempt, client.id, got, open),
             UNCHANGED <<program, results>>
      PROVE  Streams'
  <2>1. client'.step = "wait" /\ client'.part = client.part /\ Mine' = Mine /\ Op' = Op
    BY <1>5 DEF ClientIs, Mine, Op
  <2>2. Sends /\ inbox' = inbox
    BY <1>1 DEF Received, Sends
  <2>3. Readable'
    BY <1>5, <2>2 DEF Streams, Readable, Sends
  <2>4. OpenForTheNext'
    BY <1>1, <1>5, <2>1, <2>2 DEF Streams, OpenForTheNext, OpenFor, Sends, filesVars
  <2>5. AnswerGoesOn'
    BY <1>1, <2>1 DEF AnswerGoesOn
  <2>6. NoneIsOpenForFirst'
    BY <2>2, FirstStays DEF Sends, filesVars
  <2> QED BY <2>2, <2>3, <2>4, <2>5, <2>6, StreamsOfClient
<1> QED BY <1>0, <1>3, <1>4, <1>5, ReceiveContentsDoes

LEMMA ReceiveChangedStreams ==
  ASSUME TypesOK, Streams, ReceiveChanged
  PROVE  Streams'
<1>0. ClientOK
  BY DEF TypesOK
<1> DEFINE frame == Head(outbox[Mine])
<1>1. client.step = "wait" /\ outbox[Mine] # <<>> /\ Received
  BY <1>0, ReceiveChangedDoes
<1>2. ASSUME NEW p \in Paths, writing[Mine][p] # 0, WritesTo(p, Op) PROVE GoesOn(frame) /\ Op.kind = "write"
  BY <1>1, <1>2 DEF Streams, AnswerGoesOn, WritesTo
<1>3. ASSUME NEW is, NEW got, Finish(is, got),
             \A p \in Paths: (writing[Mine][p] # 0 /\ WritesTo(p, Op)) => NoPathTwice(program)
      PROVE  Streams'
  BY <1>1, <1>3, FinishedStreams
<1>4. CASE frame.kind = "refused" /\ Finish("refused", <<>>)
  BY <1>2, <1>3, <1>4 DEF GoesOn
<1>5. CASE frame.kind = "changed" /\ frame.failure # "none" /\ Finish(frame.failure, <<>>)
  BY <1>2, <1>3, <1>5 DEF GoesOn
<1>6. CASE /\ frame.kind = "changed" /\ (Op.kind = "write" => ~(client.part < Op.parts)) /\ Finish("done", <<>>)
  BY <1>2, <1>3, <1>6 DEF GoesOn
<1>7. CASE LoseIt
  <2>1. client'.step = "lost" /\ UNCHANGED program
    BY <1>0, <1>7, LoseItDoes DEF ClientIs
  <2> QED BY <1>1, <2>1, LostStreams DEF Received
<1>8. CASE /\ ClientIs("next", client.agent, client.part + 1, client.attempt, client.id, client.got, client.open)
           /\ UNCHANGED <<program, results>>
  <2>1. client'.step = "next" /\ client'.part = client.part + 1 /\ Mine' = Mine /\ Op' = Op
    BY <1>8 DEF ClientIs, Mine, Op
  <2>2. Sends /\ inbox' = inbox
    BY <1>1 DEF Received, Sends
  <2>3. Readable'
    BY <1>8, <2>2 DEF Streams, Readable, Sends
  <2>4. client.part + 1 > 1
    BY <1>0 DEF ClientOK
  <2>5. OpenForTheNext'
    BY <1>1, <1>8, <2>1, <2>2, <2>4 DEF Streams, OpenForTheNext, OpenFor, Sends, filesVars
  <2>6. AnswerGoesOn'
    BY <2>1 DEF AnswerGoesOn
  <2>7. NoneIsOpenForFirst'
    BY <2>2, FirstStays DEF Sends, filesVars
  <2> QED BY <2>2, <2>3, <2>5, <2>6, <2>7, StreamsOfClient
<1> QED BY <1>0, <1>4, <1>5, <1>6, <1>7, <1>8, ReceiveChangedDoes

\* A new connection is served by an agent that has nothing open.
LEMMA ReconnectStreams ==
  ASSUME TypesOK, Wire, Streams, Reconnect
  PROVE  Streams'
<1>0. ClientOK /\ PipesOK /\ Mine \in Agents /\ Mine \in Nat
  BY AgentsAreNumbered DEF TypesOK, ClientOK, Mine
<1>1. /\ Mine + 1 \in Agents
      /\ ClientIs("next", client.agent + 1, client.part, 2, client.id, client.got, client.open)
      /\ \E frames \in {inbox[Mine], <<>>}: inbox' = [inbox EXCEPT ![Mine] = frames]
      /\ program' = program \/ program' = <<Look1(Op)>>
      /\ Sends
  BY <1>0, ReconnectDoes DEF Sends
<1>2. client'.step = "next" /\ Mine' = Mine + 1
  BY <1>1 DEF ClientIs, Mine
<1>3. Readable'
  <2>1. CASE program' = program
    BY <1>1, <2>1 DEF Streams, Readable, Sends
  <2>2. CASE program' = <<Look1(Op)>>
    <3>1. PICK ops, op: op = Look1(Op) /\ ops = <<op>> /\ program' = ops
      BY <2>2
    <3>2. DOMAIN ops = {1}
      BY <3>1
    <3>3. NoPathTwice(ops)
      BY <3>2 DEF NoPathTwice
    <3> QED BY <3>1, <3>3 DEF Readable
  <2> QED BY <1>1, <2>1, <2>2
<1>4. \A b \in Agents: inbox'[b] = inbox[b] \/ inbox'[b] = <<>>
  BY <1>0, <1>1 DEF PipesOK
<1>5. NoneIsOpenForFirst'
  BY <1>1, <1>4, FirstStays DEF Sends, filesVars
<1>6. OpenForTheNext'
  <2>1. writing[Mine + 1] = NoFiles
    BY <1>0, <1>1 DEF Wire
  <2>2. \A p \in Paths: writing'[Mine'][p] = 0
    BY <1>1, <1>2, <2>1 DEF NoFiles, Sends, filesVars
  <2> QED BY <2>2 DEF OpenForTheNext, OpenFor
<1>7. AnswerGoesOn'
  BY <1>2 DEF AnswerGoesOn
<1> QED BY <1>1, <1>3, <1>5, <1>6, <1>7, StreamsOfClient

LEMMA GiveUpStreams ==
  ASSUME TypesOK, Streams, GiveUp
  PROVE  Streams'
<1>0. ClientOK
  BY DEF TypesOK
<1>1. /\ program' = <<>> /\ UNCHANGED inbox /\ Sends
      /\ ClientIs("next", client.agent, client.part, client.attempt, client.id, client.got, client.open)
  BY <1>0, GiveUpDoes DEF Sends
<1>2. DOMAIN program' = {}
  BY <1>1
<1>3. Readable' /\ OpenForTheNext'
  BY <1>2 DEF Readable, NoPathTwice, OpenForTheNext, OpenFor
<1>4. AnswerGoesOn'
  <2>1. client'.step = "next"
    BY <1>1 DEF ClientIs
  <2> QED BY <2>1 DEF AnswerGoesOn
<1>5. NoneIsOpenForFirst'
  BY <1>1, FirstStays DEF Sends, filesVars
<1> QED BY <1>1, <1>3, <1>4, <1>5, StreamsOfClient

\* Every step of the system keeps the streams apart.
LEMMA NextStreams ==
  ASSUME TypesOK, Exchange, Streams, [Next]_vars
  PROVE  Streams'
<1>0. FilesOK /\ JobsOK /\ ClientOK /\ Wire /\ Frames
  BY DEF TypesOK, Exchange
<1>1. CASE UNCHANGED <<clientVars, writing, job, budget, inbox, outbox>>
  BY <1>1, QuietStreams
<1>2. CASE Close
  BY <1>1, <1>2 DEF Close, filesVars
<1>3. CASE NoAnswer
  <2>1. client'.step = "lost"
    BY <1>0, <1>3, NoAnswerDoes DEF ClientIs
  <2>2. UNCHANGED <<filesVars, job, program, inbox>> /\ budget'.garbled = budget.garbled
    BY <1>0, <1>3, NoAnswerDoes DEF BudgetMoves, pipeVars
  <2> QED BY <2>1, <2>2, LostStreams
<1>4. ASSUME NEW a \in Agents, Work(a) \/ EndAgent(a) PROVE Streams'
  BY <1>0, <1>4, TakeStreams, AnswerChangeStreams, ReadingStreams, EndAgentStreams, WritePartStreams,
     FilesStepStreams DEF Work
<1>5. CASE OthersMove /\ UNCHANGED <<clientVars, pipeVars>>
  <2>1. UNCHANGED <<writing, job>> /\ budget'.garbled = budget.garbled
    BY <1>0, <1>5, OthersDo
  <2> QED BY <1>5, <2>1, QuietStreams DEF pipeVars
<1>6. CASE Done \/ UNCHANGED vars
  BY <1>1, <1>6 DEF Done, vars, filesVars, pipeVars
<1>7. CASE ClientStep
  BY <1>0, <1>2, <1>7, SendRequestStreams, ReceiveContentsStreams, ReceiveChangedStreams, ReconnectStreams,
     GiveUpStreams DEF ClientStep
<1> QED BY <1>3, <1>4, <1>5, <1>6, <1>7 DEF Next

LEMMA InitStreams ==
  ASSUME PartsAreReadable, Init
  PROVE  Streams
<1>1. PICK s \in Starts: program = s.program /\ budget = s.budget
  BY DEF Init
<1>2. Readable
  <2>1. s.budget.garbled = 0 \/ NoPathTwice(s.program)
    BY DEF PartsAreReadable
  <2> QED BY <1>1, <2>1 DEF Readable
<1>3. \A a \in Agents: \A p \in Paths: writing[a][p] = 0
  BY DEF Init, NoFiles
<1>4. \A a \in Agents: inbox[a] = <<>> /\ job[a] = Idle
  BY DEF Init
<1>5. client.step = "next" /\ Mine \in Agents
  BY AgentsAreNumbered DEF Init, Resting, Mine
<1>6. NoneIsOpenForFirst
  BY <1>4 DEF NoneIsOpenForFirst
<1>7. \A a \in Agents: KeptAt(a)
  BY <1>4 DEF KeptAt, Busy
<1>8. OpenForTheNext
  BY <1>3, <1>5 DEF OpenForTheNext, OpenFor
<1>9. AnswerGoesOn
  BY <1>5 DEF AnswerGoesOn
<1> QED BY <1>2, <1>6, <1>7, <1>8, <1>9 DEF Streams

LEMMA InitFresh == Init => Fresh
BY DEF Init, Fresh, FreshAt, Busy

(* A write never opens what appeared at its path after it looked: a job    *)
(* that saw no entry holds only a file its own request made, or the file   *)
(* the part before has opened (`open_for_write_with`, `open_existing`,     *)
(* machine_ops/ open.rs:45-71; `write_first`, `write_more`,                *)
(* agent/dispatch/writes.rs:23-49).                                        *)
THEOREM NothingThatAppearsIsOpenedHolds ==
  ASSUME PartsAreReadable
  PROVE  Spec => []NothingThatAppearsIsOpened
<1>1. Init => TypesOK /\ Exchange /\ Contents /\ Streams /\ Fresh
  BY InitTypes, InitExchange, InitContents, InitStreams, InitFresh
<1>2. TypesOK /\ Exchange /\ Contents /\ Streams /\ Fresh /\ [Next]_vars
        => (TypesOK /\ Exchange /\ Contents /\ Streams /\ Fresh)'
  BY NextTypes, NextExchange, NextContents, NextStreams, NextFresh DEF Streams
<1>3. TypesOK /\ Exchange /\ Contents /\ Streams /\ Fresh => NothingThatAppearsIsOpened
  BY FreshIsEnough DEF TypesOK
<1> QED BY <1>1, <1>2, <1>3, PTL DEF Spec

----------------------------------------------------------------------------
(***************************************************************************)
(* What is left of a change that failed: the answer names it.              *)
(***************************************************************************)

Failures == {"io", "notDirectory", "rootGone", "notFound"}
\* What a request made that still has a name.
Has(p, id) == names[p] # 0 /\ nodes[names[p]].by = id
NothingBy(id) == \A n \in DOMAIN nodes: nodes[n].by # id
(* All that a request made and that still has a name is on the way to its  *)
(* path and in `there', or others have moved it.                           *)
AllBy(id, path, there) ==
  \A p \in Paths: Has(p, id) => \/ p \in RenameTargets /\ p # path
                                \/ IsPrefix(p, path) /\ p \in there

\* A job that is to succeed, or whose failure comes after a content was written.
Succeeds(j) == j.step = "write" \/ j.wrote \/ (j.step = "answer" /\ j.failure = "none")
\* What a job says it has made, or will say it left.
Named == {"own", "unmake", "unlinkMade"}
There(j) == ToSet(j.made) \cup j.left \cup (IF j.step \in Named THEN {j.request.path} ELSE {})
Ends == {"answer", "remove", "unlink", "chmod"}
\* A job that fails accounts for everything its request made.
LeftOf(j) ==
  (j.request.kind # "read" /\ ~Succeeds(j)) =>
    /\ AllBy(j.request.id, j.request.path, There(j))
    /\ j.step \in Ends => j.made = <<>>
\* The directories a job is to make are on the way to its path.
AllToDo(j) == j.step = "mkdir" => \A k \in DOMAIN j.todo: IsPrefix(j.todo[k], j.request.path)

\* Nothing more comes to be of what a request made.
NoMore(id) == \A p \in Paths: Has(p, id)' => Has(p, id)

----------------------------------------------------------------------------
\* What was not renamed or made anew was there before.
LEMMA KnownNode ==
  ASSUME FilesOK, Later, NEW q \in Paths, names'[q] = names[q], NEW id, Has(q, id)'
  PROVE  Has(q, id)
<1>1. PICK n: n = names[q] /\ n = names'[q]
  OBVIOUS
<1>2. n # 0 /\ nodes'[n].by = id
  BY <1>1 DEF Has
<1>3. n \in DOMAIN nodes
  BY <1>1, <1>2, SeqFacts DEF FilesOK
<1>4. nodes'[n].by = nodes[n].by
  BY <1>3 DEF Later
<1> QED BY <1>1, <1>2, <1>4 DEF Has

LEMMA FewerNames ==
  ASSUME FilesOK, Later, UNCHANGED names \/ \E p: names' = [names EXCEPT ![p] = 0], NEW id
  PROVE  NoMore(id)
<1> SUFFICES ASSUME NEW q \in Paths, Has(q, id)' PROVE Has(q, id)
  BY DEF NoMore
<1>1. names'[q] # 0
  BY DEF Has
<1>2. names'[q] = names[q]
  BY <1>1 DEF FilesOK
<1> QED BY <1>2, KnownNode

LEMMA PlacedByAnother ==
  ASSUME FilesOK, NEW p \in Paths, NEW kind, NEW by \in Nat, NEW owner, Place(p, kind, by, owner)
  PROVE  /\ \A id: id # by => NoMore(id)
         /\ \A q \in Paths: q # p => (Has(q, by)' => Has(q, by))
<1>1. /\ Later /\ names'[p] = Len(nodes) + 1 /\ \A q \in Paths \ {p}: names'[q] = names[q]
  BY PlaceFacts
<1>2. nodes'[Len(nodes) + 1].by = by
  <2>1. PICK node: node = Node(kind, by, owner) /\ nodes' = Append(nodes, node)
    BY DEF Place
  <2>2. nodes'[Len(nodes) + 1] = node
    BY <2>1, AppendFacts DEF FilesOK, IsSeq
  <2> QED BY <2>1, <2>2 DEF Node
<1>3. ASSUME NEW id, NEW q \in Paths, q # p, Has(q, id)' PROVE Has(q, id)
  BY <1>1, <1>3, KnownNode
<1>4. ASSUME NEW id, id # by, Has(p, id)' PROVE FALSE
  BY <1>1, <1>2, <1>4 DEF Has
<1> QED BY <1>3, <1>4 DEF NoMore

LEMMA AllByStays ==
  ASSUME NEW id, NEW path, NEW there, AllBy(id, path, there), NoMore(id)
  PROVE  AllBy(id, path, there)'
BY DEF AllBy, NoMore

LEMMA NothingStays ==
  ASSUME FilesOK, NEW id, NothingBy(id), Later,
         \A n \in DOMAIN nodes' \ DOMAIN nodes: nodes'[n].by # id
  PROVE  NothingBy(id)'
BY DEF NothingBy, Later

LEMMA NothingIsAll ==
  ASSUME FilesOK, NEW id, NothingBy(id), NEW path, NEW there
  PROVE  AllBy(id, path, there)
<1> SUFFICES ASSUME NEW p \in Paths, Has(p, id) PROVE FALSE
  BY DEF AllBy
<1>1. names[p] \in DOMAIN nodes
  BY SeqFacts DEF FilesOK, Has
<1> QED BY <1>1 DEF NothingBy, Has

\* A path is a prefix of itself.
LEMMA PrefixOfItself ==
  ASSUME NEW p \in Paths
  PROVE  IsPrefix(p, p)
<1>1. IsSeq(p)
  BY TreeIsClosed DEF IsSeq
<1>2. Len(p) \in Nat
  BY <1>1, SeqFacts
<1> QED BY <1>2 DEF IsPrefix

----------------------------------------------------------------------------
\* The parts of the record a job becomes.
LEMMA BecomesFields ==
  ASSUME NEW a \in Agents, NEW step, NEW seen, NEW todo, NEW made, NEW id, NEW failure, NEW left, NEW wrote,
         Becomes(a, step, seen, todo, made, id, failure, left, wrote)
  PROVE  /\ job'[a].step = step /\ job'[a].todo = todo /\ job'[a].made = made /\ job'[a].failure = failure
         /\ job'[a].left = left /\ job'[a].wrote = wrote /\ job'[a].request = job[a].request
<1>1. PICK k: /\ k = [request |-> job[a].request, step |-> step, seen |-> seen, todo |-> todo,
                      made |-> made, id |-> id, failure |-> failure, left |-> left, wrote |-> wrote]
              /\ job'[a] = k
  BY DEF Becomes
<1> QED BY <1>1

(* A step keeps what it says of what was made, when it makes nothing that  *)
(* is not named, and names what it leaves.                                 *)
LEMMA LeftIf ==
  ASSUME NEW j, NEW k, LeftOf(j), k.request = j.request, j.step \notin {"write", "answer"},
         j.wrote => k.wrote,
         k.step \in Ends => k.made = <<>> \/ (k.made = j.made /\ j.step \in Ends) \/ Succeeds(k),
         \A q \in Paths: Has(q, j.request.id)' =>
           \/ Has(q, j.request.id)
           \/ IsPrefix(q, j.request.path) /\ (q \in There(k) \/ Succeeds(k)),
         \A q \in There(j): q \in There(k) \/ names'[q] = 0 \/ Succeeds(k)
  PROVE  LeftOf(k)'
<1> SUFFICES ASSUME j.request.kind # "read", ~Succeeds(k)
             PROVE  /\ AllBy(j.request.id, j.request.path, There(k))'
                    /\ k.step \in Ends => k.made = <<>>
  BY DEF LeftOf
<1>1. ~Succeeds(j)
  BY DEF Succeeds
<1>2. /\ AllBy(j.request.id, j.request.path, There(j))
      /\ j.step \in Ends => j.made = <<>>
  BY <1>1 DEF LeftOf
<1>3. ASSUME NEW q \in Paths, Has(q, j.request.id)'
      PROVE  \/ q \in RenameTargets /\ q # j.request.path
             \/ IsPrefix(q, j.request.path) /\ q \in There(k)
  <2>1. CASE Has(q, j.request.id)
    <3>1. \/ q \in RenameTargets /\ q # j.request.path
          \/ IsPrefix(q, j.request.path) /\ q \in There(j)
      BY <1>2, <2>1 DEF AllBy
    <3>2. names'[q] # 0
      BY <1>3 DEF Has
    <3> QED BY <3>1, <3>2
  <2>2. CASE IsPrefix(q, j.request.path) /\ q \in There(k)
    BY <2>2
  <2> QED BY <1>3, <2>1, <2>2
<1> QED BY <1>2, <1>3 DEF AllBy

----------------------------------------------------------------------------
\* What a job at `step' accounts for, and whether it is to succeed.
Told(step, made, left, path) == ToSet(made) \cup left \cup (IF step \in Named THEN {path} ELSE {})
Right(step, failure, wrote) == step = "write" \/ wrote \/ (step = "answer" /\ failure = "none")

\* A step that goes on with the same account, or a larger one.
LEMMA BecomesLeft ==
  ASSUME NEW a \in Agents, LeftOf(job[a]), job[a].step \notin {"write", "answer"},
         NEW step, NEW seen, NEW todo, NEW made, NEW id, NEW failure, NEW left, NEW wrote,
         Becomes(a, step, seen, todo, made, id, failure, left, wrote),
         job[a].wrote => wrote,
         step \in Ends => \/ made = <<>>
                          \/ made = job[a].made /\ job[a].step \in Ends
                          \/ Right(step, failure, wrote),
         NEW by, by = job[a].request.id,
         \A q \in Paths: Has(q, by)' =>
           \/ Has(q, by)
           \/ IsPrefix(q, Path(a)) /\ (q \in Told(step, made, left, Path(a)) \/ Right(step, failure, wrote)),
         \A q \in There(job[a]): \/ q \in Told(step, made, left, Path(a)) \/ names'[q] = 0
                                 \/ Right(step, failure, wrote)
  PROVE  LeftOf(job[a])'
<1>1. PICK j, k: j = job[a] /\ k = job'[a]
  OBVIOUS
<1>2. /\ k.step = step /\ k.todo = todo /\ k.made = made /\ k.failure = failure /\ k.left = left
      /\ k.wrote = wrote /\ k.request = j.request
  BY <1>1, BecomesFields
<1>3. Told(step, made, left, Path(a)) = There(k)
  BY <1>1, <1>2 DEF Told, There, Path
<1>4. Right(step, failure, wrote) <=> Succeeds(k)
  BY <1>2 DEF Right, Succeeds
<1>5. LeftOf(j) /\ j.step \notin {"write", "answer"} /\ (j.wrote => k.wrote)
  BY <1>1, <1>2
<1>6. k.step \in Ends => k.made = <<>> \/ (k.made = j.made /\ j.step \in Ends) \/ Succeeds(k)
  BY <1>1, <1>2, <1>4
<1>7. \A q \in Paths: Has(q, j.request.id)' =>
        \/ Has(q, j.request.id)
        \/ IsPrefix(q, j.request.path) /\ (q \in There(k) \/ Succeeds(k))
  BY <1>1, <1>2, <1>3, <1>4 DEF Path
<1>8. \A q \in There(j): q \in There(k) \/ names'[q] = 0 \/ Succeeds(k)
  BY <1>1, <1>3, <1>4
<1>9. LeftOf(k)'
  BY <1>2, <1>5, <1>6, <1>7, <1>8, LeftIf
<1> QED BY <1>1, <1>9 DEF LeftOf, AllBy, Has, There, Succeeds

\* A step that makes nothing, and names what it leaves.
LEMMA QuietLeft ==
  ASSUME NEW a \in Agents, LeftOf(job[a]), job[a].step \notin {"write", "answer"},
         NEW step, NEW seen, NEW todo, NEW made, NEW id, NEW failure, NEW left, NEW wrote,
         Becomes(a, step, seen, todo, made, id, failure, left, wrote),
         job[a].wrote => wrote, \A by: NoMore(by),
         step \in Ends => \/ made = <<>>
                          \/ made = job[a].made /\ job[a].step \in Ends
                          \/ Right(step, failure, wrote),
         \A q \in There(job[a]): \/ q \in Told(step, made, left, Path(a)) \/ names'[q] = 0
                                 \/ Right(step, failure, wrote)
  PROVE  LeftOf(job[a])'
<1>1. PICK by: by = job[a].request.id
  OBVIOUS
<1>2. \A q \in Paths: Has(q, by)' => Has(q, by)
  BY DEF NoMore
<1> QED BY <1>1, <1>2, BecomesLeft

\* What goes on to a step with what it has made and left.
LEMMA GoesLeft ==
  ASSUME NEW a \in Agents, LeftOf(job[a]), job[a].step \notin {"write", "answer"}, \A by: NoMore(by),
         NEW step, NEW failure, GoesTo(a, step, failure),
         step \in Ends => job[a].made = <<>> \/ job[a].step \in Ends \/ (step = "answer" /\ failure = "none"),
         job[a].step \in Named => \/ step \in Named \/ names'[Path(a)] = 0 \/ step = "write"
                                  \/ (step = "answer" /\ failure = "none")
  PROVE  LeftOf(job[a])'
<1>1. \A q \in There(job[a]): \/ q \in Told(step, job[a].made, job[a].left, Path(a)) \/ names'[q] = 0
                              \/ Right(step, failure, job[a].wrote)
  BY DEF There, Told, Right, Path
<1>2. step \in Ends => \/ job[a].made = <<>> \/ (job[a].made = job[a].made /\ job[a].step \in Ends)
                       \/ Right(step, failure, job[a].wrote)
  BY DEF Right
<1> QED BY <1>1, <1>2, QuietLeft DEF GoesTo

LEMMA GoesFields ==
  ASSUME NEW a \in Agents, NEW step, NEW failure, GoesTo(a, step, failure)
  PROVE  job'[a].step = step /\ job'[a].todo = job[a].todo
BY BecomesFields DEF GoesTo

\* Where there is nothing to make, nothing is to be below the path.
LEMMA NotMaking ==
  ASSUME NEW a \in Agents, job'[a].step # "mkdir"
  PROVE  AllToDo(job[a])'
BY DEF AllToDo

\* What a step of a job leaves of what was made, and is to be made.
Leaves(a) == (\A id: id # job[a].request.id => NoMore(id)) /\ LeftOf(job[a])' /\ AllToDo(job[a])'

LEMMA QuietLeaves ==
  ASSUME NEW a \in Agents, LeftOf(job[a]), job[a].step \notin {"write", "answer"}, \A id: NoMore(id),
         NEW step, step # "mkdir", NEW failure, GoesTo(a, step, failure),
         step \in Ends => job[a].made = <<>> \/ job[a].step \in Ends \/ (step = "answer" /\ failure = "none"),
         job[a].step \in Named => \/ step \in Named \/ names'[Path(a)] = 0 \/ step = "write"
                                  \/ (step = "answer" /\ failure = "none")
  PROVE  Leaves(a)
<1>1. LeftOf(job[a])'
  BY GoesLeft
<1>2. job'[a].step = step
  BY GoesFields
<1> QED BY <1>1, <1>2, NotMaking DEF Leaves

\* Looking makes nothing.
LEMMA LooksLeave ==
  ASSUME FilesOK, JobsOK, NEW a \in Agents, LeftOf(job[a]), AllToDo(job[a]),
         Look(a) \/ OpenExisting(a) \/ FindParents(a) \/ ParentsMade(a)
  PROVE  Leaves(a)
<1>0. FilesStep(a) /\ UNCHANGED names
  BY DEF FilesStep, Look, OpenExisting, FindParents, ParentsMade, filesVars
<1>1. Later /\ \A id: NoMore(id)
  BY <1>0, FilesStepMoves, FewerNames DEF FileMoves
<1>2. /\ Busy(a) /\ IsJob(job[a]) /\ job[a].step \in {"look", "open", "parents", "mkdir"}
      /\ job[a].step \in {"look", "open", "parents"} => job[a].made = <<>>
      /\ job[a].step = "mkdir" => ParentsMade(a)
  <2>1. PICK s \in {"look", "open", "parents", "mkdir"}: At(a, s)
    BY DEF Look, OpenExisting, FindParents, ParentsMade
  <2>2. Busy(a) /\ IsJob(job[a]) /\ job[a].step = s
    BY <2>1, AtIsBusy DEF At
  <2>3. job[a].step = "mkdir" => ParentsMade(a)
    BY DEF Look, OpenExisting, FindParents, At
  <2> QED BY <2>2, <2>3, JobFacts
<1>3. CASE Look(a)
  <2>1. PICK step, seen: /\ step = IF names[Path(a)] # 0 THEN "open" ELSE "parents"
                         /\ seen = (names[Path(a)] # 0)
                         /\ Becomes(a, step, seen, job[a].todo,
                              job[a].made, job[a].id, job[a].failure, job[a].left, job[a].wrote)
    BY <1>3, LookDoes
  <2>2. step \notin Ends /\ step # "mkdir"
    BY <2>1 DEF Ends
  <2>3. \A q \in There(job[a]): q \in Told(step, job[a].made, job[a].left, Path(a))
    BY <1>2 DEF There, Told, Named
  <2>4. LeftOf(job[a])'
    BY <1>1, <1>2, <2>1, <2>2, <2>3, QuietLeft
  <2>5. job'[a].step = step
    BY <2>1, BecomesFields
  <2> QED BY <1>1, <2>2, <2>4, <2>5, NotMaking DEF Leaves
<1>4. CASE OpenExisting(a)
  <2>0. job[a].step = "open" /\ job[a].made = <<>>
    BY <1>2, <1>4 DEF OpenExisting, At
  <2>1. CASE GoesTo(a, "parents", job[a].failure)
    BY <1>1, <2>0, <2>1, QuietLeaves DEF Ends, Named
  <2>2. ASSUME NEW f, GoesTo(a, "answer", f) PROVE Leaves(a)
    BY <1>1, <2>0, <2>2, QuietLeaves DEF Ends, Named
  <2>3. CASE Becomes(a, "write", job[a].seen, job[a].todo, job[a].made, names[Path(a)],
                     job[a].failure, job[a].left, TRUE)
    <3>1. PICK yes \in BOOLEAN: Becomes(a, "write", job[a].seen, job[a].todo, job[a].made, names[Path(a)],
                                        job[a].failure, job[a].left, yes)
      BY <2>3
    <3>2. job'[a].step = "write"
      BY <3>1, BecomesFields
    <3>3. LeftOf(job[a])'
      BY <3>2 DEF LeftOf, Succeeds
    <3> QED BY <1>1, <3>2, <3>3, NotMaking DEF Leaves
  <2> QED BY <1>4, <2>1, <2>2, <2>3, OpenExistingDoes
<1>5. CASE FindParents(a)
  <2>0. job[a].step = "parents" /\ job[a].made = <<>> /\ Path(a) \in Paths \ {<<>>}
    BY <1>2, <1>5, AtMaking DEF FindParents, At, Making
  <2>1. CASE GoesTo(a, "answer", "rootGone")
    BY <1>1, <2>0, <2>1, QuietLeaves DEF Ends, Named
  <2>2. ASSUME NEW held \in 0 .. Len(Path(a)) - 1, Becomes(a, "mkdir", job[a].seen, Below(Path(a), held),
                      job[a].made, job[a].id, job[a].failure, job[a].left, job[a].wrote)
        PROVE  Leaves(a)
    <3>1. PICK todo: todo = Below(Path(a), held) /\ Becomes(a, "mkdir", job[a].seen, todo,
                      job[a].made, job[a].id, job[a].failure, job[a].left, job[a].wrote)
      BY <2>2
    <3>2. job'[a].todo = todo /\ job'[a].request = job[a].request
      BY <3>1, BecomesFields
    <3>3. \A k \in DOMAIN todo: IsPrefix(todo[k], Path(a))
      BY <2>0, <2>2, <3>1, BelowFacts
    <3>4. AllToDo(job[a])'
      BY <3>2, <3>3 DEF AllToDo, Path
    <3>5. \A q \in There(job[a]): q \in Told("mkdir", job[a].made, job[a].left, Path(a))
      BY <2>0 DEF There, Told, Named
    <3>6. "mkdir" \notin Ends
      BY DEF Ends
    <3>7. LeftOf(job[a])'
      BY <1>1, <2>0, <3>1, <3>5, <3>6, QuietLeft
    <3> QED BY <1>1, <3>4, <3>7 DEF Leaves
  <2> QED BY <1>5, <2>1, <2>2, FindParentsDoes
<1>6. CASE ParentsMade(a)
  <2>0. job[a].step = "mkdir"
    BY <1>6 DEF ParentsMade, At
  <2>1. CASE GoesTo(a, "create", job[a].failure)
    BY <1>1, <2>0, <2>1, QuietLeaves DEF Ends, Named
  <2>2. CASE GoesTo(a, "undo", "notDirectory")
    BY <1>1, <2>0, <2>2, QuietLeaves DEF Ends, Named
  <2> QED BY <1>6, <2>1, <2>2, ParentsMadeDoes
<1> QED BY <1>3, <1>4, <1>5, <1>6

----------------------------------------------------------------------------
\* The elements of a sequence that grows or is cut at its end.
LEMMA InToSet ==
  ASSUME NEW s, IsSeq(s), NEW e, e \in ToSet(s)
  PROVE  \E i \in DOMAIN s: s[i] = e
BY SeqFacts DEF ToSet

LEMMA ToSetOfAppend ==
  ASSUME NEW s, IsSeq(s), NEW e
  PROVE  ToSet(s) \subseteq ToSet(Append(s, e)) /\ e \in ToSet(Append(s, e))
<1>1. PICK t: t = Append(s, e)
  OBVIOUS
<1>2. PICK n \in Nat: n = Len(s)
  BY SeqFacts
<1>3. /\ DOMAIN s = 1 .. n /\ DOMAIN t = 1 .. n + 1 /\ t[n + 1] = e
      /\ \A i \in DOMAIN s: t[i] = s[i]
  BY <1>1, <1>2, AppendFacts, SeqFacts
<1>4. ASSUME NEW x \in ToSet(s) PROVE x \in ToSet(t)
  <2>1. PICK i \in DOMAIN s: s[i] = x
    BY InToSet
  <2>2. i \in DOMAIN t /\ t[i] = x
    BY <1>3, <2>1
  <2> QED BY <2>2 DEF ToSet
<1>5. e \in ToSet(t)
  <2>1. n + 1 \in DOMAIN t
    BY <1>3
  <2> QED BY <1>3, <2>1 DEF ToSet
<1> QED BY <1>1, <1>4, <1>5

LEMMA ToSetOfFront ==
  ASSUME NEW S, NEW s \in Seq(S), s # <<>>, NEW e \in ToSet(s)
  PROVE  e \in ToSet(Front(s)) \/ e = Last(s)
<1>1. PICK t, l: t = Front(s) /\ l = Last(s)
  OBVIOUS
<1>2. IsSeq(s)
  BY AnySeq
<1>3. PICK n \in Nat: n = Len(s) /\ DOMAIN s = 1 .. n
  BY <1>2, SeqFacts
<1>4. DOMAIN t = 1 .. n - 1 /\ l = s[n] /\ \A i \in DOMAIN t: t[i] = s[i]
  BY <1>1, <1>3, FrontFacts
<1>5. PICK i \in 1 .. n: s[i] = e
  BY <1>2, <1>3, InToSet
<1>6. CASE i = n
  BY <1>1, <1>4, <1>5, <1>6
<1>7. CASE i # n
  <2>1. i \in DOMAIN t
    BY <1>4, <1>5, <1>7
  <2>2. t[i] = e
    BY <1>4, <1>5, <2>1
  <2> QED BY <1>1, <2>1, <2>2 DEF ToSet
<1> QED BY <1>6, <1>7

\* A directory that is made is noted (`create_parents_with`, parents.rs:37-71).
LEMMA MakeParentLeaves ==
  ASSUME FilesOK, JobsOK, NEW a \in Agents, LeftOf(job[a]), AllToDo(job[a]), MakeParent(a)
  PROVE  Leaves(a)
<1>0. FilesStep(a)
  BY DEF FilesStep
<1>1. /\ Later /\ Busy(a) /\ IsJob(job[a]) /\ job[a].step = "mkdir" /\ job[a].todo # <<>>
      /\ IsSeq(job[a].todo) /\ IsSeq(job[a].made) /\ job[a].todo \in Seq(Paths)
      /\ job[a].request.id \in Nat
  <2>1. Later
    BY <1>0, FilesStepMoves DEF FileMoves
  <2>2. At(a, "mkdir") /\ job[a].todo # <<>>
    BY DEF MakeParent
  <2>3. /\ Busy(a) /\ IsJob(job[a]) /\ job[a].step = "mkdir" /\ job[a].todo \in Seq(Paths)
        /\ job[a].request.id \in Nat
    BY <2>2, AtMaking DEF Making
  <2> QED BY <2>1, <2>2, <2>3, JobFacts
<1>2. PICK todo, rest, dir: todo = job[a].todo /\ rest = Tail(todo) /\ dir = Head(todo)
  OBVIOUS
<1>3. /\ dir \in Paths /\ IsPrefix(dir, Path(a))
      /\ \A k \in DOMAIN rest: IsPrefix(rest[k], Path(a))
  <2>1. \A k \in DOMAIN todo: IsPrefix(todo[k], Path(a))
    BY <1>1, <1>2 DEF AllToDo, Path
  <2>2. IsSeq(todo) /\ todo # <<>> /\ todo \in Seq(Paths)
    BY <1>1, <1>2
  <2>3. dir = todo[1] /\ 1 \in DOMAIN todo /\ \A k \in DOMAIN rest: rest[k] = todo[k + 1] /\ k + 1 \in DOMAIN todo
    BY <1>2, <2>2, TailFacts
  <2>4. \A k \in DOMAIN todo: todo[k] \in Paths
    BY <2>2, AnySeq
  <2> QED BY <2>1, <2>3, <2>4
<1>4. job'[a].todo = rest /\ job'[a].request = job[a].request => AllToDo(job[a])'
  BY <1>3 DEF AllToDo, Path
<1>5. CASE /\ names[dir] = 0 /\ Place(dir, "dir", job[a].request.id, Maker)
           /\ Becomes(a, job[a].step, job[a].seen, rest, Append(job[a].made, dir),
                      job[a].id, job[a].failure, job[a].left, job[a].wrote)
  <2>1. PICK made, by: /\ made = Append(job[a].made, dir) /\ by = job[a].request.id /\ by \in Nat
                       /\ Becomes(a, "mkdir", job[a].seen, rest, made,
                                  job[a].id, job[a].failure, job[a].left, job[a].wrote)
    BY <1>1, <1>5
  <2>2. /\ \A id: id # by => NoMore(id)
        /\ \A q \in Paths: q # dir => (Has(q, by)' => Has(q, by))
    BY <1>3, <1>5, <2>1, PlacedByAnother
  <2>3. ToSet(job[a].made) \subseteq ToSet(made) /\ dir \in ToSet(made)
    BY <1>1, <2>1, ToSetOfAppend
  <2>4. \A q \in Paths: Has(q, by)' =>
          Has(q, by) \/ (IsPrefix(q, Path(a)) /\ q \in Told("mkdir", made, job[a].left, Path(a)))
    BY <1>3, <2>2, <2>3 DEF Told
  <2>5. \A q \in There(job[a]): q \in Told("mkdir", made, job[a].left, Path(a))
    BY <1>1, <2>3 DEF There, Told, Named
  <2>6. "mkdir" \notin Ends
    BY DEF Ends
  <2>7. LeftOf(job[a])'
    BY <1>1, <2>1, <2>4, <2>5, <2>6, BecomesLeft
  <2>8. job'[a].todo = rest /\ job'[a].request = job[a].request
    BY <2>1, BecomesFields
  <2> QED BY <1>4, <2>1, <2>2, <2>7, <2>8 DEF Leaves
<1>6. ASSUME UNCHANGED names PROVE \A id: NoMore(id)
  BY <1>1, <1>6, FewerNames
<1>7. CASE /\ UNCHANGED names
           /\ Becomes(a, job[a].step, job[a].seen, rest, job[a].made, job[a].id,
                      job[a].failure, job[a].left, job[a].wrote)
  <2>1. Becomes(a, "mkdir", job[a].seen, rest, job[a].made, job[a].id,
                      job[a].failure, job[a].left, job[a].wrote)
    BY <1>1, <1>7
  <2>2. \A q \in There(job[a]): q \in Told("mkdir", job[a].made, job[a].left, Path(a))
    BY <1>1 DEF There, Told, Named
  <2>3. "mkdir" \notin Ends
    BY DEF Ends
  <2>4. \A id: NoMore(id)
    BY <1>6, <1>7
  <2>5. LeftOf(job[a])'
    BY <1>1, <2>1, <2>2, <2>3, <2>4, QuietLeft
  <2>6. job'[a].todo = rest /\ job'[a].request = job[a].request
    BY <2>1, BecomesFields
  <2> QED BY <1>4, <2>4, <2>5, <2>6 DEF Leaves
<1>8. ASSUME UNCHANGED names, NEW f, GoesTo(a, "undo", f) PROVE Leaves(a)
  BY <1>1, <1>6, <1>8, QuietLeaves DEF Ends, Named
<1> QED BY <1>2, <1>5, <1>7, <1>8, MakeParentDoes

\* An entry that is made is the one of the request's path.
LEMMA CreateLeaves ==
  ASSUME FilesOK, JobsOK, NEW a \in Agents, LeftOf(job[a]), Create(a)
  PROVE  Leaves(a)
<1>0. FilesStep(a)
  BY DEF FilesStep
<1>1. /\ Later /\ Busy(a) /\ IsJob(job[a]) /\ job[a].step = "create" /\ job[a].failure = "none"
      /\ job[a].request.id \in Nat /\ Path(a) \in Paths
  <2>1. Later
    BY <1>0, FilesStepMoves DEF FileMoves
  <2>2. At(a, "create")
    BY DEF Create
  <2>3. /\ Busy(a) /\ IsJob(job[a]) /\ job[a].step = "create" /\ job[a].request.id \in Nat /\ Path(a) \in Paths
    BY <2>2, AtMaking DEF Making
  <2> QED BY <2>1, <2>3, JobFacts
<1>2. CASE /\ Place(Path(a), Made(a), job[a].request.id, Maker)
           /\ Becomes(a, AfterMade(a), job[a].seen, Append(job[a].made, Path(a)), job[a].made,
                       Len(nodes) + 1, job[a].failure, job[a].left, job[a].wrote)
  <2>1. PICK step, todo, id, by, p:
          /\ step = AfterMade(a) /\ by = job[a].request.id /\ by \in Nat /\ p = Path(a) /\ p \in Paths
          /\ Place(p, Made(a), by, Maker)
          /\ Becomes(a, step, job[a].seen, todo, job[a].made, id, job[a].failure, job[a].left, job[a].wrote)
    BY <1>1, <1>2
  <2>2. /\ \A i: i # by => NoMore(i)
        /\ \A q \in Paths: q # p => (Has(q, by)' => Has(q, by))
    BY <2>1, PlacedByAnother
  <2>3. IsPrefix(p, p)
    BY <2>1, PrefixOfItself
  <2>4. p \in Told(step, job[a].made, job[a].left, Path(a)) \/ Right(step, job[a].failure, job[a].wrote)
    BY <1>1, <2>1 DEF AfterMade, Told, Named, Right
  <2>5. \A q \in Paths: Has(q, by)' =>
          \/ Has(q, by)
          \/ /\ IsPrefix(q, Path(a))
             /\ q \in Told(step, job[a].made, job[a].left, Path(a)) \/ Right(step, job[a].failure, job[a].wrote)
    BY <2>1, <2>2, <2>3, <2>4
  <2>6. \A q \in There(job[a]): q \in Told(step, job[a].made, job[a].left, Path(a))
    BY <1>1 DEF There, Told, Named
  <2>7. step \in Ends => Right(step, job[a].failure, job[a].wrote)
    BY <1>1, <2>1 DEF AfterMade, Ends, Right
  <2>8. LeftOf(job[a])'
    BY <1>1, <2>1, <2>5, <2>6, <2>7, BecomesLeft
  <2>9. job'[a].step # "mkdir"
    BY <2>1, BecomesFields DEF AfterMade
  <2> QED BY <2>1, <2>2, <2>8, <2>9, NotMaking DEF Leaves
<1>3. ASSUME UNCHANGED names, GoesTo(a, "undo", "io") PROVE Leaves(a)
  BY <1>1, <1>3, FewerNames, QuietLeaves DEF Ends, Named
<1> QED BY <1>2, <1>3, CreateDoes

LEMMA OwnLeaves ==
  ASSUME FilesOK, JobsOK, NEW a \in Agents, LeftOf(job[a]), Own(a)
  PROVE  Leaves(a)
<1>0. FilesStep(a) /\ UNCHANGED names
  BY DEF FilesStep, Own
<1>1. /\ Busy(a) /\ IsJob(job[a]) /\ job[a].step = "own" /\ job[a].failure = "none"
      /\ \A id: NoMore(id)
  <2>1. \A id: NoMore(id)
    BY <1>0, FilesStepMoves, FewerNames DEF FileMoves
  <2>2. At(a, "own")
    BY DEF Own
  <2>3. Busy(a) /\ IsJob(job[a]) /\ job[a].step = "own"
    BY <2>2, AtMaking DEF Making
  <2> QED BY <2>1, <2>3, JobFacts
<1>2. CASE Becomes(a, AfterGiven(a), job[a].seen, Tail(job[a].todo), job[a].made, job[a].id,
                   job[a].failure, job[a].left, job[a].wrote)
  <2>1. PICK step, todo: /\ step = AfterGiven(a)
                         /\ Becomes(a, step, job[a].seen, todo, job[a].made, job[a].id,
                                    job[a].failure, job[a].left, job[a].wrote)
    BY <1>2
  <2>2. step \in Named \/ Right(step, job[a].failure, job[a].wrote)
    BY <1>1, <2>1 DEF AfterGiven, Named, Right
  <2>3. \A q \in There(job[a]): \/ q \in Told(step, job[a].made, job[a].left, Path(a))
                                \/ Right(step, job[a].failure, job[a].wrote)
    BY <2>2 DEF There, Told, Path
  <2>4. step \in Ends => Right(step, job[a].failure, job[a].wrote)
    BY <1>1, <2>1 DEF AfterGiven, Ends, Right
  <2>5. LeftOf(job[a])'
    BY <1>1, <2>1, <2>3, <2>4, QuietLeft
  <2>6. job'[a].step # "mkdir"
    BY <2>1, BecomesFields DEF AfterGiven
  <2> QED BY <1>1, <2>5, <2>6, NotMaking DEF Leaves
<1>3. CASE GoesTo(a, "unmake", "io")
  BY <1>1, <1>3, QuietLeaves DEF Ends, Named
<1> QED BY <1>2, <1>3, OwnDoes

\* A step that adds what it could not remove to what is left.
LEMMA AddsToLeft ==
  ASSUME NEW a \in Agents, LeftOf(job[a]), job[a].step \notin {"write", "answer"}, \A id: NoMore(id),
         NEW made, NEW q, NEW failure,
         Becomes(a, "undo", job[a].seen, job[a].todo, made, job[a].id, failure,
                 job[a].left \cup {q}, job[a].wrote),
         ToSet(job[a].made) \subseteq ToSet(made) \cup {q}, job[a].step \in Named => q = Path(a)
  PROVE  Leaves(a)
<1>1. PICK left: /\ left = job[a].left \cup {q}
                 /\ Becomes(a, "undo", job[a].seen, job[a].todo, made, job[a].id, failure, left, job[a].wrote)
  OBVIOUS
<1>2. \A p \in There(job[a]): p \in Told("undo", made, left, Path(a))
  BY <1>1 DEF There, Told, Path
<1>3. "undo" \notin Ends
  BY DEF Ends
<1>4. LeftOf(job[a])'
  BY <1>1, <1>2, <1>3, QuietLeft
<1>5. job'[a].step = "undo"
  BY <1>1, BecomesFields
<1> QED BY <1>4, <1>5, NotMaking DEF Leaves

\* What the undo does not remove it names (`undo_parents`, parents.rs:107-138).
LEMMA UndoesLeave ==
  ASSUME FilesOK, JobsOK, NEW a \in Agents, LeftOf(job[a]), Unmake(a) \/ UnlinkMade(a) \/ Undo(a) \/ Undone(a)
  PROVE  Leaves(a)
<1>0. FilesStep(a)
  BY DEF FilesStep
<1>1. PICK s \in {"unmake", "unlinkMade", "undo"}: At(a, s)
  BY DEF Unmake, UnlinkMade, Undo, Undone
<1>2. /\ Later /\ Busy(a) /\ IsJob(job[a]) /\ job[a].step = s /\ Path(a) \in Paths /\ IsSeq(job[a].made)
      /\ job[a].made \in Seq(Paths)
  <2>1. Later
    BY <1>0, FilesStepMoves DEF FileMoves
  <2>3. Busy(a) /\ IsJob(job[a]) /\ job[a].step = s /\ Path(a) \in Paths /\ job[a].made \in Seq(Paths)
    BY <1>1, AtMaking DEF Making
  <2> QED BY <2>1, <2>3, JobFacts
<1>3. ASSUME UNCHANGED names \/ \E p: names' = [names EXCEPT ![p] = 0] PROVE \A id: NoMore(id)
  BY <1>2, <1>3, FewerNames
<1>4. CASE Unmake(a)
  <2>1. UNCHANGED names
    BY <1>4 DEF Unmake, filesVars
  <2>2. \A id: NoMore(id)
    BY <1>3, <2>1
  <2>3. CASE GoesTo(a, "unlinkMade", job[a].failure)
    BY <1>2, <2>2, <2>3, QuietLeaves DEF Ends, Named
  <2>4. CASE names[Path(a)] = 0 /\ GoesTo(a, "undo", job[a].failure)
    <3>1. names'[Path(a)] = 0 \/ job[a].step \notin Named
      <4>1. PICK p: p = Path(a) /\ names'[p] = 0
        BY <2>1, <2>4
      <4> QED BY <4>1
    <3> QED BY <1>2, <2>2, <2>4, <3>1, QuietLeaves DEF Ends
  <2>5. CASE Becomes(a, "undo", job[a].seen, job[a].todo, job[a].made, job[a].id, job[a].failure,
                     job[a].left \cup {Path(a)}, job[a].wrote)
    BY <1>2, <2>2, <2>5, AddsToLeft
  <2> QED BY <1>4, <2>3, <2>4, <2>5, UnmakeDoes
<1>5. CASE UnlinkMade(a)
  <2>1. CASE names' = [names EXCEPT ![Path(a)] = 0] /\ GoesTo(a, "undo", job[a].failure)
    <3>1. \A id: NoMore(id)
      BY <1>3, <2>1
    <3>2. job'[a].request = job[a].request
      BY <2>1, BecomesFields DEF GoesTo
    <3>3. PICK p: p = Path(a) /\ names'[p] = 0
      BY <1>2, <2>1 DEF FilesOK
    <3>4. Becomes(a, "undo", job[a].seen, job[a].todo, job[a].made, job[a].id, job[a].failure,
                  job[a].left, job[a].wrote)
      BY <2>1 DEF GoesTo
    <3>5. \A q \in There(job[a]): \/ q \in Told("undo", job[a].made, job[a].left, Path(a)) \/ names'[q] = 0
      BY <3>3 DEF There, Told, Path
    <3>6. "undo" \notin Ends
      BY DEF Ends
    <3>7. LeftOf(job[a])'
      BY <1>2, <3>1, <3>4, <3>5, <3>6, QuietLeft
    <3>8. job'[a].step = "undo"
      BY <3>4, BecomesFields
    <3> QED BY <3>1, <3>7, <3>8, NotMaking DEF Leaves
  <2>2. CASE /\ UNCHANGED names
             /\ Becomes(a, "undo", job[a].seen, job[a].todo, job[a].made, job[a].id, job[a].failure,
                       job[a].left \cup {Path(a)}, job[a].wrote)
    <3>1. \A id: NoMore(id)
      BY <1>3, <2>2
    <3> QED BY <1>2, <2>2, <3>1, AddsToLeft
  <2> QED BY <1>5, <2>1, <2>2, UnlinkMadeDoes
<1>6. CASE Undo(a)
  <2>1. job[a].step = "undo" /\ job[a].made # <<>>
    BY <1>6 DEF Undo, At
  <2>2. PICK made, last: made = Front(job[a].made) /\ last = Last(job[a].made)
    OBVIOUS
  <2>3. ToSet(job[a].made) \subseteq ToSet(made) \cup {last} /\ last \in Paths
    BY <1>2, <2>1, <2>2, ToSetOfFront, FrontFacts
  <2>4. CASE /\ names' = [names EXCEPT ![last] = 0]
             /\ Becomes(a, "undo", job[a].seen, job[a].todo, made, job[a].id,
                       job[a].failure, job[a].left, job[a].wrote)
    <3>1. \A id: NoMore(id)
      BY <1>3, <2>4
    <3>2. names'[last] = 0
      BY <2>3, <2>4 DEF FilesOK
    <3>3. \A q \in There(job[a]): \/ q \in Told("undo", made, job[a].left, Path(a)) \/ names'[q] = 0
      BY <2>1, <2>3, <3>2 DEF There, Told, Named
    <3>4. "undo" \notin Ends
      BY DEF Ends
    <3>5. LeftOf(job[a])'
      BY <1>2, <2>4, <3>1, <3>3, <3>4, QuietLeft
    <3>6. job'[a].step = "undo"
      BY <2>4, BecomesFields
    <3> QED BY <3>1, <3>5, <3>6, NotMaking DEF Leaves
  <2>5. CASE /\ UNCHANGED names
             /\ Becomes(a, "undo", job[a].seen, job[a].todo, made, job[a].id,
                       job[a].failure, job[a].left \cup {last}, job[a].wrote)
    <3>1. \A id: NoMore(id)
      BY <1>3, <2>5
    <3>2. job[a].step \in Named => last = Path(a)
      BY <2>1 DEF Named
    <3> QED BY <1>2, <2>3, <2>5, <3>1, <3>2, AddsToLeft
  <2> QED BY <1>6, <2>1, <2>2, <2>4, <2>5, UndoDoes
<1>7. CASE Undone(a)
  <2>1. UNCHANGED names /\ job[a].made = <<>> /\ job[a].step = "undo"
    BY <1>7 DEF Undone, filesVars, At
  <2>2. GoesTo(a, "answer", job[a].failure)
    BY <1>7, UndoneDoes
  <2> QED BY <1>3, <2>1, <2>2, QuietLeaves DEF Ends, Named
<1> QED BY <1>4, <1>5, <1>6, <1>7

LEMMA WritePartLeaves ==
  ASSUME FilesOK, JobsOK, NEW a \in Agents, WritePart(a)
  PROVE  Leaves(a)
<1>1. FilesStep(a) /\ UNCHANGED names
  BY DEF FilesStep, WritePart
<1>2. \A id: NoMore(id)
  BY <1>1, FilesStepMoves, FewerNames DEF FileMoves
<1>3. PICK yes \in BOOLEAN: yes = TRUE
  OBVIOUS
<1>4. ASSUME NEW f, Becomes(a, "answer", job[a].seen, job[a].todo, job[a].made, job[a].id, f, job[a].left, yes)
      PROVE  Leaves(a)
  <2>1. job'[a].wrote = yes /\ job'[a].step = "answer"
    BY <1>4, BecomesFields
  <2>2. LeftOf(job[a])'
    BY <1>3, <2>1 DEF LeftOf, Succeeds
  <2> QED BY <1>2, <2>1, <2>2, NotMaking DEF Leaves
<1>5. \/ Becomes(a, "answer", job[a].seen, job[a].todo, job[a].made, job[a].id, job[a].failure, job[a].left, TRUE)
      \/ Becomes(a, "answer", job[a].seen, job[a].todo, job[a].made, job[a].id, "io", job[a].left, TRUE)
  BY WritePartDoes
<1>6. \/ Becomes(a, "answer", job[a].seen, job[a].todo, job[a].made, job[a].id, job[a].failure, job[a].left, yes)
      \/ Becomes(a, "answer", job[a].seen, job[a].todo, job[a].made, job[a].id, "io", job[a].left, yes)
  BY <1>3, <1>5
<1> QED BY <1>4, <1>6

LEMMA OtherLeaves ==
  ASSUME FilesOK, JobsOK, NEW a \in Agents, LeftOf(job[a]), LookToRemove(a) \/ Unlink(a) \/ Chmod(a)
  PROVE  Leaves(a)
<1>0. FilesStep(a) /\ (UNCHANGED names \/ names' = [names EXCEPT ![Path(a)] = 0])
  BY DEF FilesStep, LookToRemove, Unlink, Chmod, filesVars
<1>1. \A id: NoMore(id)
  BY <1>0, FilesStepMoves, FewerNames DEF FileMoves
<1>2. job[a].step \in {"remove", "unlink", "chmod"}
  BY DEF LookToRemove, Unlink, Chmod, At
<1>3. (\E f: GoesTo(a, "answer", f)) \/ GoesTo(a, "unlink", job[a].failure)
  BY LookToRemoveDoes, UnlinkDoes, ChmodDoes
<1>4. ASSUME NEW f, NEW s \in {"answer", "unlink"}, GoesTo(a, s, f) PROVE Leaves(a)
  BY <1>1, <1>2, <1>4, QuietLeaves DEF Ends, Named
<1> QED BY <1>3, <1>4

\* So every step of a job accounts for what its request made.
LEMMA StepLeaves ==
  ASSUME FilesOK, JobsOK, NEW a \in Agents, LeftOf(job[a]), AllToDo(job[a]), FilesStep(a)
  PROVE  Leaves(a)
BY LooksLeave, MakeParentLeaves, CreateLeaves, OwnLeaves, UndoesLeave, WritePartLeaves, OtherLeaves DEF FilesStep

----------------------------------------------------------------------------
\* Entries are made by requests that were sent, and none by one that waits.
ByKnown == \A n \in DOMAIN nodes: nodes[n].by <= client.id
NothingMadeYet == \A a \in Agents: inbox[a] # <<>> => NothingBy(Head(inbox[a]).id)
\* A job accounts for its request; an answer the client has, for the one it answered.
JobTells(a) == LeftOf(job[a]) /\ AllToDo(job[a])
ToldBy(came, i) ==
  (came.is \in Failures /\ ~came.wrote) => came.path \in Paths /\ AllBy(i, came.path, came.left)
AnswerTells(i) ==
  /\ did[i].is # "nothing" => \A a \in Agents: Pending(a) => Asked(a).id # i
  /\ ToldBy(did[i], i)

\* All that a failed change made is named: by its job first, by its answer then.
Left ==
  /\ ByKnown /\ NothingMadeYet
  /\ \A a \in Agents: Busy(a) => JobTells(a)
  /\ \A i \in DOMAIN did: AnswerTells(i)

\* No agent is asked anything new, and what is made is made by one request.
FewerAsked == \A b \in Agents: Pending(b)' => Pending(b) /\ (Asked(b)').id = Asked(b).id
NewBy(by) == \A n \in DOMAIN nodes' \ DOMAIN nodes: nodes'[n].by = by

----------------------------------------------------------------------------
\* Requests are numbered, and no two agents have the same one.
LEMMA AskedIsNat ==
  ASSUME TypesOK, NEW b \in Agents, Pending(b)
  PROVE  Asked(b).id \in Nat \ {0}
<1>1. CASE inbox[b] # <<>>
  BY <1>1, TailFacts DEF TypesOK, PipesOK, Asked, IsRequest
<1>2. CASE inbox[b] = <<>>
  BY <1>2 DEF TypesOK, JobsOK, IsJob, IsRequest, Asked, Pending
<1> QED BY <1>1, <1>2

LEMMA AskedDiffer ==
  ASSUME TypesOK, Wire, NEW a \in Agents, NEW b \in Agents, a # b, Pending(a), Pending(b)
  PROVE  Asked(a).id # Asked(b).id
<1>1. Asked(a).id \in Nat /\ Asked(b).id \in Nat
  BY AskedIsNat
<1>2. a < b \/ b < a
  BY AgentsAreNumbered
<1>3. Asked(a).id < Asked(b).id \/ Asked(b).id < Asked(a).id
  BY <1>2 DEF Wire
<1> QED BY <1>1, <1>3

LEMMA ToldStays ==
  ASSUME NEW came, NEW i, ToldBy(came, i), NoMore(i)
  PROVE  ToldBy(came, i)'
BY DEF ToldBy, AllBy, NoMore

LEMMA JobStaysTold ==
  ASSUME NEW b \in Agents, JobTells(b), job'[b] = job[b], NEW by, by = job[b].request.id, NoMore(by)
  PROVE  JobTells(b)'
<1>1. PICK j: j = job[b] /\ j = job'[b]
  OBVIOUS
<1>2. AllToDo(job[b])'
  BY <1>1 DEF JobTells, AllToDo
<1>3. LeftOf(job[b])'
  <2>1. LeftOf(j) /\ j.request.id = by
    BY <1>1 DEF JobTells
  <2> SUFFICES ASSUME j.request.kind # "read", ~Succeeds(j)
               PROVE  /\ AllBy(by, j.request.path, There(j))'
                      /\ j.step \in Ends => j.made = <<>>
    BY <1>1, <2>1 DEF LeftOf, Succeeds, AllBy, Has, There
  <2>2. AllBy(by, j.request.path, There(j)) /\ (j.step \in Ends => j.made = <<>>)
    BY <2>1 DEF LeftOf
  <2> QED BY <2>2 DEF AllBy, NoMore
<1> QED BY <1>2, <1>3 DEF JobTells

LEMMA AnswerStays ==
  ASSUME NEW i \in DOMAIN did, AnswerTells(i), did'[i] = did[i], FewerAsked,
         did[i].is # "nothing" => NoMore(i)
  PROVE  AnswerTells(i)'
<1>1. PICK came: came = did[i] /\ came = did'[i]
  OBVIOUS
<1>2. came.is # "nothing" => \A a \in Agents: Pending(a)' => (Asked(a)').id # i
  BY <1>1 DEF AnswerTells, FewerAsked
<1>3. ToldBy(came, i)
  BY <1>1 DEF AnswerTells
<1>4. ToldBy(came, i)'
  <2>1. CASE came.is = "nothing"
    BY <2>1 DEF ToldBy, Failures
  <2>2. CASE came.is # "nothing"
    BY <1>1, <1>3, <2>2, ToldStays
  <2> QED BY <2>1, <2>2
<1> QED BY <1>1, <1>2, <1>4 DEF AnswerTells, ToldBy, AllBy, Has

\* What others leave alone stays told.
LEMMA LeftKept ==
  ASSUME TypesOK, Left, Later, client'.id = client.id, NEW by \in Nat, NewBy(by), by <= client.id,
         \A b \in Agents: inbox'[b] \in {inbox[b], <<>>},
         \A b \in Agents: inbox[b] # <<>> => UNCHANGED nodes \/ by # Head(inbox[b]).id,
         \A b \in Agents: Busy(b)' => JobTells(b)',
         \A i \in DOMAIN did': AnswerTells(i)'
  PROVE  Left'
<1>0. FilesOK
  BY DEF TypesOK
<1>1. ByKnown'
  BY DEF Left, ByKnown, Later, NewBy
<1>2. NothingMadeYet'
  <2> SUFFICES ASSUME NEW b \in Agents, inbox'[b] # <<>>, NEW n \in DOMAIN nodes'
               PROVE  nodes'[n].by # Head(inbox'[b]).id
    BY DEF NothingMadeYet, NothingBy
  <2>1. PICK id: id = Head(inbox[b]).id /\ id = Head(inbox'[b]).id /\ inbox[b] # <<>>
    OBVIOUS
  <2>2. \A k \in DOMAIN nodes: nodes[k].by # id
    BY <2>1 DEF Left, NothingMadeYet, NothingBy
  <2>3. CASE n \in DOMAIN nodes
    BY <2>1, <2>2, <2>3 DEF Later
  <2>4. CASE n \notin DOMAIN nodes
    BY <2>1, <2>4 DEF NewBy
  <2> QED BY <2>3, <2>4
<1> QED BY <1>1, <1>2 DEF Left

LEMMA NewByNone ==
  ASSUME DOMAIN nodes' = DOMAIN nodes, NEW by
  PROVE  NewBy(by)
BY DEF NewBy

LEMMA NewByPlaced ==
  ASSUME FilesOK, NEW p \in Paths, NEW kind, NEW by \in Nat, NEW owner, Place(p, kind, by, owner)
  PROVE  NewBy(by)
<1>1. PICK node: node = Node(kind, by, owner) /\ nodes' = Append(nodes, node)
  BY DEF Place
<1>2. PICK n \in Nat: n = Len(nodes) /\ DOMAIN nodes = 1 .. n /\ DOMAIN nodes' = 1 .. n + 1
  BY <1>1, AppendFacts, SeqFacts DEF FilesOK
<1>3. nodes'[n + 1] = node
  BY <1>1, <1>2, AppendFacts DEF FilesOK
<1>4. node.by = by
  BY <1>1 DEF Node
<1> QED BY <1>2, <1>3, <1>4 DEF NewBy

\* A step of a job makes entries of its own request only.
LEMMA StepMakes ==
  ASSUME FilesOK, JobsOK, NEW a \in Agents, FilesStep(a), NEW by, by = job[a].request.id
  PROVE  NewBy(by)
<1>1. CASE Look(a) \/ FindParents(a) \/ ParentsMade(a) \/ Unmake(a) \/ UnlinkMade(a) \/ Undo(a) \/ Undone(a)
           \/ LookToRemove(a) \/ Unlink(a)
  <2>1. UNCHANGED nodes
    BY <1>1 DEF Look, FindParents, ParentsMade, Unmake, UnlinkMade, Undo, Undone, LookToRemove, Unlink, filesVars
  <2> QED BY <2>1, NewByNone
<1>2. CASE OpenExisting(a) \/ Own(a) \/ WritePart(a) \/ Chmod(a)
  <2>1. DOMAIN nodes' = DOMAIN nodes
    BY <1>2, OpenExistingDoes, OwnDoes, WritePartDoes, ChmodDoes DEF Written
  <2> QED BY <2>1, NewByNone
<1>3. CASE MakeParent(a)
  <2>1. At(a, "mkdir") /\ job[a].todo # <<>>
    BY <1>3 DEF MakeParent
  <2>2. by \in Nat /\ job[a].todo \in Seq(Paths)
    BY <2>1, AtMaking DEF Making
  <2>3. Head(job[a].todo) \in Paths
    BY <2>1, <2>2, AnySeq, TailFacts
  <2>4. UNCHANGED nodes \/ Place(Head(job[a].todo), "dir", by, Maker)
    BY <1>3, MakeParentDoes
  <2> QED BY <2>2, <2>3, <2>4, NewByNone, NewByPlaced
<1>4. CASE Create(a)
  <2>1. At(a, "create")
    BY <1>4 DEF Create
  <2>2. by \in Nat /\ Path(a) \in Paths
    BY <2>1, AtMaking DEF Making
  <2>3. UNCHANGED nodes \/ Place(Path(a), Made(a), by, Maker)
    BY <1>4, CreateDoes
  <2> QED BY <2>2, <2>3, NewByNone, NewByPlaced
<1> QED BY <1>1, <1>2, <1>3, <1>4 DEF FilesStep

\* A step of a job.
LEMMA FilesStepLeft ==
  ASSUME TypesOK, Wire, Left, NEW a \in Agents, FilesStep(a), UNCHANGED <<clientVars, pipeVars>>
  PROVE  Left'
<1>0. FilesOK /\ JobsOK
  BY DEF TypesOK
<1>1. FileMoves(a) /\ JobMoves(a) /\ Later
  BY <1>0, FilesStepMoves DEF FileMoves
<1>2. Pending(a) /\ inbox[a] = <<>> /\ Asked(a) = job[a].request /\ Busy(a)
  BY <1>1 DEF JobMoves, Wire, Pending, Asked
<1>3. PICK by: by = job[a].request.id /\ by \in Nat /\ by <= client.id
  BY <1>2, AskedIsNat DEF Wire
<1>4. JobTells(a)
  BY <1>2 DEF Left
<1>5. Leaves(a)
  BY <1>0, <1>4, StepLeaves DEF JobTells
<1>6. NewBy(by)
  BY <1>0, <1>3, StepMakes
<1>7. UNCHANGED <<client, inbox, did>>
  BY <1>1 DEF clientVars, pipeVars, FileMoves
<1>8. \A b \in Agents \ {a}: Pending(b) => Asked(b).id # by
  BY <1>2, <1>3, AskedDiffer
<1>9. FewerAsked
  <2> SUFFICES ASSUME NEW b \in Agents, Pending(b)'
               PROVE  Pending(b) /\ (Asked(b)').id = Asked(b).id
    BY DEF FewerAsked
  <2>1. CASE b = a
    BY <1>1, <1>2, <1>7, <2>1 DEF JobMoves, Asked
  <2>2. CASE b # a
    <3>1. job'[b] = job[b] /\ inbox'[b] = inbox[b]
      BY <1>1, <1>7, <2>2 DEF JobMoves
    <3> QED BY <3>1 DEF Pending, Asked, Busy
  <2> QED BY <2>1, <2>2
<1>10. \A b \in Agents: inbox[b] # <<>> => by # Head(inbox[b]).id
  <2> SUFFICES ASSUME NEW b \in Agents, inbox[b] # <<>>
               PROVE  by # Head(inbox[b]).id
    OBVIOUS
  <2>1. b # a /\ Pending(b) /\ Asked(b) = Head(inbox[b])
    BY <1>2 DEF Pending, Asked
  <2> QED BY <1>8, <2>1
<1>11. \A b \in Agents: Busy(b)' => JobTells(b)'
  <2> SUFFICES ASSUME NEW b \in Agents, Busy(b)'
               PROVE  JobTells(b)'
    OBVIOUS
  <2>1. CASE b = a
    BY <1>5, <2>1 DEF Leaves, JobTells
  <2>2. CASE b # a
    <3>1. job'[b] = job[b] /\ Busy(b)
      BY <1>1, <2>2 DEF JobMoves, Busy
    <3>2. inbox[b] = <<>> /\ Pending(b) /\ Asked(b) = job[b].request
      BY <3>1 DEF Wire, Pending, Asked
    <3>3. PICK id: id = job[b].request.id /\ id # by
      BY <1>8, <2>2, <3>2
    <3>4. NoMore(id)
      BY <1>3, <1>5, <3>3 DEF Leaves
    <3>5. JobTells(b)
      BY <3>1 DEF Left
    <3> QED BY <3>1, <3>3, <3>4, <3>5, JobStaysTold
  <2> QED BY <2>1, <2>2
<1>12. \A i \in DOMAIN did': AnswerTells(i)'
  <2> SUFFICES ASSUME NEW i \in DOMAIN did
               PROVE  AnswerTells(i)'
    BY <1>7
  <2>1. AnswerTells(i) /\ did'[i] = did[i]
    BY <1>7 DEF Left
  <2>2. ASSUME did[i].is # "nothing" PROVE NoMore(i)
    <3>1. i # by
      BY <1>2, <1>3, <2>1, <2>2 DEF AnswerTells
    <3> QED BY <1>3, <1>5, <3>1 DEF Leaves
  <2> QED BY <1>9, <2>1, <2>2, AnswerStays
<1> QED BY <1>1, <1>3, <1>6, <1>7, <1>10, <1>11, <1>12, LeftKept

----------------------------------------------------------------------------
\* An agent that ends or answers is asked no more.
LEMMA FewerIf ==
  ASSUME NEW a \in Agents, \A b \in Agents \ {a}: job'[b] = job[b] /\ inbox'[b] = inbox[b],
         Pending(a)' => Pending(a) /\ (Asked(a)').id = Asked(a).id
  PROVE  FewerAsked
<1> SUFFICES ASSUME NEW b \in Agents, b # a, Pending(b)'
             PROVE  Pending(b) /\ (Asked(b)').id = Asked(b).id
  BY DEF FewerAsked
<1>1. job'[b] = job[b] /\ inbox'[b] = inbox[b]
  OBVIOUS
<1> QED BY <1>1 DEF Pending, Asked, Busy

LEMMA NothingMade ==
  ASSUME FilesOK, UNCHANGED <<names, nodes>>
  PROVE  Later /\ \A id: NoMore(id)
BY LaterStays, FewerNames

LEMMA SameFilesLeft ==
  ASSUME TypesOK, Left, UNCHANGED <<names, nodes>>, client'.id = client.id, FewerAsked,
         \A b \in Agents: inbox'[b] \in {inbox[b], <<>>},
         \A b \in Agents: Busy(b)' => job'[b] = job[b] \/ JobTells(b)',
         \A i \in DOMAIN did': (i \in DOMAIN did /\ did'[i] = did[i]) \/ AnswerTells(i)'
  PROVE  Left'
<1>1. Later /\ \A id: NoMore(id)
  BY NothingMade DEF TypesOK
<1>2. 0 \in Nat /\ 0 <= client.id /\ NewBy(0)
  BY NewByNone, SeqFacts DEF TypesOK, ClientOK
<1>3. \A b \in Agents: Busy(b)' => JobTells(b)'
  <2> SUFFICES ASSUME NEW b \in Agents, Busy(b)', job'[b] = job[b]
               PROVE  JobTells(b)'
    OBVIOUS
  <2>1. PICK id: id = job[b].request.id
    OBVIOUS
  <2>2. JobTells(b)
    BY DEF Left, Busy
  <2> QED BY <1>1, <2>1, <2>2, JobStaysTold
<1>4. \A i \in DOMAIN did': AnswerTells(i)'
  <2> SUFFICES ASSUME NEW i \in DOMAIN did, did'[i] = did[i]
               PROVE  AnswerTells(i)'
    OBVIOUS
  <2> QED BY <1>1, AnswerStays DEF Left
<1> QED BY <1>1, <1>2, <1>3, <1>4, LeftKept

\* The answer carries the account of the job.
LEMMA AnsweredLeft ==
  ASSUME TypesOK, Wire, Left, NEW a \in Agents, Pending(a), ~Pending(a)', UNCHANGED <<names, nodes, client>>,
         inbox'[a] = <<>>, \A b \in Agents \ {a}: job'[b] = job[b] /\ inbox'[b] = inbox[b],
         NEW id, id = Asked(a).id, NEW came, ToldBy(came, id), did' = [did EXCEPT ![id] = came]
  PROVE  Left'
<1>1. FewerAsked
  BY FewerIf
<1>2. \A b \in Agents: Busy(b)' => job'[b] = job[b]
  BY DEF Pending
<1>3. \A i \in DOMAIN did': i \in DOMAIN did /\ (i # id => did'[i] = did[i])
  OBVIOUS
<1>4. ASSUME id \in DOMAIN did PROVE AnswerTells(id)'
  <2>1. did'[id] = came
    BY <1>4
  <2>2. \A b \in Agents: Pending(b)' => (Asked(b)').id # id
    <3> SUFFICES ASSUME NEW b \in Agents, Pending(b)' PROVE (Asked(b)').id # id
      OBVIOUS
    <3>1. b # a /\ Pending(b) /\ (Asked(b)').id = Asked(b).id
      BY <1>1 DEF FewerAsked
    <3> QED BY <3>1, AskedDiffer
  <2>3. ToldBy(came, id)'
    BY NothingMade, ToldStays DEF TypesOK
  <2> QED BY <2>1, <2>2, <2>3 DEF AnswerTells, ToldBy, AllBy, Has
<1> QED BY <1>1, <1>2, <1>3, <1>4, SameFilesLeft

LEMMA ReadingTells ==
  ASSUME NEW a \in Agents, NEW paths, NEW todo, NEW made, Reading(a, paths, todo, made)
  PROVE  JobTells(a)' /\ \A b \in Agents \ {a}: job'[b] = job[b]
<1>1. job'[a].step = "read" /\ job'[a].request.kind = "read" /\ \A b \in Agents \ {a}: job'[b] = job[b]
  BY DEF Reading, JobIs
<1> QED BY <1>1 DEF JobTells, LeftOf, AllToDo

LEMMA ReadingLeft ==
  ASSUME TypesOK, Wire, Left, NEW a \in Agents, ReadOne(a) \/ SayContents(a)
  PROVE  Left'
<1>0. FilesOK /\ JobsOK /\ PipesOK
  BY DEF TypesOK
<1>1. At(a, "read") /\ UNCHANGED <<filesVars, budget, inbox, clientVars>>
  BY <1>0, ReadOneDoes, SayContentsDoes DEF pipeVars
<1>2. Busy(a) /\ job[a].request.kind = "read" /\ Pending(a) /\ inbox[a] = <<>> /\ Asked(a) = job[a].request
  BY <1>0, <1>1, AtRead DEF Wire, Pending, Asked
<1>3. UNCHANGED <<names, nodes, client>>
  BY <1>1 DEF filesVars, clientVars
<1>4. ASSUME UNCHANGED did, NEW paths, NEW todo, NEW made, Reading(a, paths, todo, made)
      PROVE  Left'
  <2>1. JobTells(a)' /\ \A b \in Agents \ {a}: job'[b] = job[b] /\ inbox'[b] = inbox[b]
    BY <1>1, <1>4, ReadingTells
  <2>2. (Asked(a)').id = Asked(a).id
    <3>1. job'[a].request.id = job[a].request.id
      <4>1. PICK r: r = [kind |-> "read", paths |-> paths, bad |-> job[a].request.bad, id |-> job[a].request.id]
                    /\ job'[a].request = r
        BY <1>4 DEF Reading, JobIs
      <4> QED BY <4>1
    <3> QED BY <1>1, <1>2, <3>1 DEF Asked
  <2>3. FewerAsked
    BY <1>2, <2>1, <2>2, FewerIf
  <2> QED BY <1>1, <1>3, <1>4, <2>1, <2>3, SameFilesLeft
<1>5. ASSUME JobIs(a, Idle), NEW came, Did(a, came), came.is \in {"refused", "read"}
      PROVE  Left'
  <2>1. PICK id: id = job[a].request.id /\ did' = [did EXCEPT ![id] = came]
    BY <1>5 DEF Did
  <2>2. ~Pending(a)' /\ \A b \in Agents \ {a}: job'[b] = job[b] /\ inbox'[b] = inbox[b]
    BY <1>1, <1>2, <1>5 DEF Pending, Busy, JobIs
  <2>3. ToldBy(came, id)
    BY <1>5 DEF ToldBy, Failures
  <2> QED BY <1>1, <1>2, <1>3, <2>1, <2>2, <2>3, AnsweredLeft
<1>6. CASE ReadOne(a)
  BY <1>0, <1>4, <1>6, ReadOneDoes
<1>7. CASE SayContents(a)
  <2>1. CASE /\ UNCHANGED did
             /\ Reading(a, job[a].request.paths, job[a].todo \o SubSeq(job[a].made, 1, FrameLimit),
                        SubSeq(job[a].made, FrameLimit + 1, Len(job[a].made)))
    BY <1>4, <2>1
  <2>2. CASE /\ JobIs(a, Idle)
             /\ Did(a, IF job[a].request.bad THEN Came("refused", <<>>, {}, <<>>, FALSE, 0)
                         ELSE Came("read", Joined(<<>>, {}, job[a].todo \o job[a].made).got,
                                   {}, <<>>, FALSE, 0))
    <3>1. PICK came: /\ Did(a, came)
                     /\ came = IF job[a].request.bad THEN Came("refused", <<>>, {}, <<>>, FALSE, 0)
                               ELSE Came("read", Joined(<<>>, {}, job[a].todo \o job[a].made).got,
                                         {}, <<>>, FALSE, 0)
      BY <2>2
    <3>2. came.is \in {"refused", "read"}
      BY <3>1 DEF Came
    <3> QED BY <1>5, <2>2, <3>1, <3>2
  <2> QED BY <1>0, <1>7, <2>1, <2>2, SayContentsDoes
<1> QED BY <1>6, <1>7

LEMMA AnswerChangeLeft ==
  ASSUME TypesOK, Wire, Left, NEW a \in Agents, AnswerChange(a)
  PROVE  Left'
<1>0. FilesOK /\ JobsOK
  BY DEF TypesOK
<1>1. /\ At(a, "answer") /\ Busy(a) /\ job[a].request.kind # "read" /\ JobIs(a, Idle)
      /\ UNCHANGED <<filesVars, inbox, clientVars>>
      /\ Did(a, Came(IF job[a].failure = "none" THEN "done" ELSE job[a].failure, <<>>, job[a].left,
                     Path(a), job[a].wrote, job[a].id))
  BY <1>0, AnswerChangeDoes
<1>2. Pending(a) /\ inbox[a] = <<>> /\ Asked(a) = job[a].request /\ ~Pending(a)'
  BY <1>1 DEF Wire, Pending, Asked, Busy, JobIs
<1>3. PICK j, id: j = job[a] /\ id = j.request.id
  OBVIOUS
<1>4. PICK is: is = IF j.failure = "none" THEN "done" ELSE j.failure
  OBVIOUS
<1>5. PICK came: /\ came = Came(is, <<>>, j.left, j.request.path, j.wrote, j.id)
                 /\ did' = [did EXCEPT ![id] = came]
  BY <1>1, <1>3, <1>4 DEF Did, Path
<1>6. came.is = is /\ came.left = j.left /\ came.path = j.request.path /\ came.wrote = j.wrote
  BY <1>5 DEF Came
<1>7. ToldBy(came, id)
  <2> SUFFICES ASSUME is \in Failures, ~j.wrote
               PROVE  j.request.path \in Paths /\ AllBy(id, j.request.path, j.left)
    BY <1>6 DEF ToldBy
  <2>1. j.failure # "none" /\ j.step = "answer"
    BY <1>1, <1>3, <1>4 DEF Failures, At
  <2>2. j.request.path \in Paths
    BY <1>0, <1>1, <1>3 DEF JobsOK, IsJob, IsRequest
  <2>3. LeftOf(j)
    BY <1>1, <1>3 DEF Left, JobTells
  <2>4. AllBy(id, j.request.path, There(j)) /\ j.made = <<>>
    BY <1>1, <1>3, <2>1, <2>3 DEF LeftOf, Succeeds, Ends
  <2>5. ToSet(j.made) = {}
    BY <2>4, EmptyIsSeq DEF ToSet
  <2>6. There(j) = j.left
    BY <2>1, <2>5 DEF There, Named
  <2> QED BY <2>2, <2>4, <2>6
<1>8. UNCHANGED <<names, nodes, client>> /\ \A b \in Agents \ {a}: job'[b] = job[b] /\ inbox'[b] = inbox[b]
  BY <1>1 DEF filesVars, clientVars, JobIs
<1> QED BY <1>1, <1>2, <1>3, <1>5, <1>7, <1>8, AnsweredLeft

LEMMA TakeLeft ==
  ASSUME TypesOK, Wire, Left, NEW a \in Agents, Take(a)
  PROVE  Left'
<1>0. FilesOK /\ JobsOK /\ PipesOK
  BY DEF TypesOK
<1>1. PICK r: r = Head(inbox[a])
  OBVIOUS
<1>2. /\ ~Busy(a) /\ inbox[a] # <<>> /\ inbox' = [inbox EXCEPT ![a] = Tail(@)]
      /\ UNCHANGED <<names, nodes, clientVars>> /\ Pending(a) /\ Asked(a) = r
  BY <1>0, <1>1, TakeDoes DEF Pending, Asked
<1>3. /\ inbox'[a] = <<>> /\ \A b \in Agents \ {a}: inbox'[b] = inbox[b]
  <2>1. PICK s: s = inbox[a] /\ Len(s) = 1 /\ IsSeq(s)
    BY <1>0, <1>2 DEF Wire, PipesOK
  <2>2. Tail(s) = <<>>
    <3>1. s # <<>>
      BY <1>2, <2>1
    <3>2. IsSeq(Tail(s)) /\ Len(Tail(s)) = 0
      BY <2>1, <3>1, TailFacts
    <3> QED BY <3>2, SeqFacts
  <2> QED BY <1>0, <1>2, <2>1, <2>2 DEF PipesOK
<1>4. UNCHANGED client
  BY <1>2 DEF clientVars
<1>5. CASE JobIs(a, Taken(a, r)) /\ UNCHANGED did
  <2>1. PICK k: k = Taken(a, r) /\ job'[a] = k /\ \A b \in Agents \ {a}: job'[b] = job[b]
    BY <1>5 DEF JobIs
  <2>2. k.request = r /\ k.made = <<>> /\ k.step = FirstStep(a, r)
    BY <2>1 DEF Taken
  <2>3. FewerAsked
    <3>1. (Asked(a))' = r
      BY <1>3, <2>1, <2>2 DEF Asked
    <3> QED BY <1>2, <1>3, <2>1, <3>1, FewerIf
  <2>4. JobTells(a)'
    <3>1. IsRequest(r)
      BY <1>0, <1>1, <1>2, TailFacts DEF PipesOK
    <3>2. k.step # "mkdir"
      BY <2>2, <3>1 DEF FirstStep, IsRequest, Changes
    <3>3. PICK id: id = r.id
      OBVIOUS
    <3>4. NothingBy(id)
      BY <1>1, <1>2, <3>3 DEF Left, NothingMadeYet
    <3>5. AllBy(id, r.path, There(k))
      BY <1>0, <3>4, NothingIsAll
    <3>6. AllBy(id, r.path, There(k))'
      <4>1. NoMore(id)
        BY <1>0, <1>2, NothingMade
      <4> QED BY <3>5, <4>1 DEF AllBy, NoMore
    <3>7. LeftOf(k)'
      BY <2>2, <3>3, <3>6 DEF LeftOf
    <3>8. LeftOf(job[a])'
      BY <2>1, <3>7 DEF LeftOf, AllBy, Has, There, Succeeds
    <3>9. AllToDo(job[a])'
      BY <2>1, <3>2 DEF AllToDo
    <3> QED BY <3>8, <3>9 DEF JobTells
  <2> QED BY <1>2, <1>3, <1>4, <1>5, <2>1, <2>3, <2>4, SameFilesLeft
<1>6. CASE /\ did' = [did EXCEPT ![r.id] = Came("refused", <<>>, {}, <<>>, FALSE, 0)]
           /\ UNCHANGED job
  <2>1. PICK came, id: /\ came = Came("refused", <<>>, {}, <<>>, FALSE, 0) /\ id = r.id
                       /\ did' = [did EXCEPT ![id] = came]
    BY <1>6
  <2>2. ToldBy(came, id)
    BY <2>1 DEF Came, ToldBy, Failures
  <2>3. ~Pending(a)'
    BY <1>2, <1>3, <1>6 DEF Pending, Busy
  <2> QED BY <1>2, <1>3, <1>4, <1>6, <2>1, <2>2, <2>3, AnsweredLeft
<1> QED BY <1>0, <1>1, <1>5, <1>6, TakeDoes

LEMMA EndAgentLeft ==
  ASSUME TypesOK, Wire, Left, NEW a \in Agents, EndAgent(a)
  PROVE  Left'
<1>0. FilesOK /\ JobsOK /\ PipesOK
  BY DEF TypesOK
<1>1. /\ inbox' = [inbox EXCEPT ![a] = <<>>] /\ JobIs(a, Idle)
      /\ UNCHANGED <<filesVars, did, outbox, clientVars>>
  BY <1>0, EndAgentDoes
<1>2. /\ inbox'[a] = <<>> /\ job'[a] = Idle /\ \A b \in Agents \ {a}: job'[b] = job[b] /\ inbox'[b] = inbox[b]
  BY <1>0, <1>1 DEF PipesOK, JobIs
<1>3. FewerAsked /\ \A b \in Agents: Busy(b)' => job'[b] = job[b]
  BY <1>2, FewerIf DEF Pending, Busy
<1>4. UNCHANGED <<names, nodes, client>>
  BY <1>1 DEF filesVars, clientVars
<1> QED BY <1>1, <1>2, <1>3, <1>4, SameFilesLeft

----------------------------------------------------------------------------
\* The client goes on, and no agent is asked anything.
LEMMA ClientLeft ==
  ASSUME TypesOK, Wire, Left, UNCHANGED <<names, nodes, job, did>>, client'.id = client.id,
         \A b \in Agents: inbox'[b] \in {inbox[b], <<>>}
  PROVE  Left'
<1>1. FewerAsked
  <2> SUFFICES ASSUME NEW b \in Agents, Pending(b)'
               PROVE  Pending(b) /\ (Asked(b)').id = Asked(b).id
    BY DEF FewerAsked
  <2>1. job'[b] = job[b] /\ inbox'[b] \in {inbox[b], <<>>} /\ (Busy(b) => inbox[b] = <<>>)
    BY DEF Wire
  <2> QED BY <2>1 DEF Pending, Asked, Busy
<1> QED BY <1>1, SameFilesLeft

\* A request that is sent has made nothing yet.
LEMMA SendRequestLeft ==
  ASSUME TypesOK, Wire, Left, SendRequest
  PROVE  Left'
<1>0. ClientOK /\ PipesOK /\ FilesOK /\ Mine \in Agents /\ client.id \in Nat
  BY SeqFacts DEF TypesOK, ClientOK, Mine
<1>1. client.step = "next" /\ program # <<>> /\ UNCHANGED <<filesVars, job, budget>>
  BY <1>0, SendRequestDoes
<1>2. UNCHANGED <<names, nodes, job>>
  BY <1>1 DEF filesVars
<1>3. CASE UNCHANGED <<client, did, pipeVars>>
  BY <1>2, <1>3, ClientLeft DEF pipeVars
<1>4. CASE /\ Op.kind # "huge" /\ inbox' = [inbox EXCEPT ![Mine] = Append(@, Request)]
           /\ did' = Append(did, NothingYet)
           /\ ClientIs("wait", client.agent, client.part, client.attempt, client.id + 1, <<>>, {})
  <2>1. PICK m, r, n: m \in Agents /\ m = Mine /\ r = Request /\ n = client.id + 1
    BY <1>0
  <2>2. r.id = n /\ n \in Nat /\ client'.id = n
    BY <1>0, <1>1, <1>4, <2>1, RequestIsRequest DEF ClientIs
  <2>3. inbox[m] = <<>> /\ ~Busy(m)
    BY <1>1, <2>1 DEF Wire, Pending
  <2>4. inbox'[m] # <<>> /\ Head(inbox'[m]) = r /\ \A b \in Agents \ {m}: inbox'[b] = inbox[b]
    <3>1. PICK frames: frames = Append(<<>>, r) /\ inbox' = [inbox EXCEPT ![m] = frames]
      BY <1>4, <2>1, <2>3
    <3>2. Head(frames) = r /\ frames # <<>>
      BY <3>1
    <3> QED BY <1>0, <2>1, <3>1, <3>2 DEF PipesOK
  <2>5. Later /\ \A id: NoMore(id)
    BY <1>0, <1>2, NothingMade
  <2>6. \A k \in DOMAIN nodes: nodes[k].by <= client.id /\ nodes[k].by \in Nat
    BY <1>0 DEF Left, ByKnown, FilesOK, IsNode
  <2>7. ByKnown'
    BY <1>0, <1>2, <2>1, <2>2, <2>6 DEF ByKnown
  <2>8. NothingMadeYet'
    <3> SUFFICES ASSUME NEW b \in Agents, inbox'[b] # <<>>, NEW k \in DOMAIN nodes
                 PROVE  nodes[k].by # Head(inbox'[b]).id
      BY <1>2 DEF NothingMadeYet, NothingBy
    <3>1. CASE b = m
      BY <1>0, <2>1, <2>2, <2>4, <2>6, <3>1
    <3>2. CASE b # m
      BY <2>4, <3>2 DEF Left, NothingMadeYet, NothingBy
    <3> QED BY <3>1, <3>2
  <2>9. \A b \in Agents: Busy(b)' => JobTells(b)'
    <3> SUFFICES ASSUME NEW b \in Agents, Busy(b)' PROVE JobTells(b)'
      OBVIOUS
    <3>1. PICK id: id = job[b].request.id
      OBVIOUS
    <3>2. JobTells(b) /\ job'[b] = job[b]
      BY <1>2 DEF Left, Busy
    <3> QED BY <2>5, <3>1, <3>2, JobStaysTold
  <2>10. PICK came: came = NothingYet /\ did' = Append(did, came)
    BY <1>4
  <2>11. /\ IsSeq(did) /\ DOMAIN did = 1 .. client.id /\ DOMAIN did' = 1 .. n /\ did'[n] = came
         /\ \A i \in DOMAIN did: did'[i] = did[i]
    BY <1>0, <2>1, <2>10, AppendFacts, SeqFacts DEF ClientOK
  <2>12. AnswerTells(n)'
    <3>1. did'[n].is = "nothing"
      <4>1. NothingYet.is = "nothing"
        BY DEF NothingYet, Came
      <4>2. n \in 1 .. n
        BY <1>0, <2>1
      <4> QED BY <2>10, <2>11, <4>1, <4>2
    <3> QED BY <3>1 DEF AnswerTells, ToldBy, Failures
  <2>13. ASSUME NEW i \in DOMAIN did PROVE AnswerTells(i)'
    <3>1. AnswerTells(i) /\ did'[i] = did[i] /\ i # n
      BY <1>0, <2>1, <2>11 DEF Left
    <3>2. \A b \in Agents: (did[i].is # "nothing" /\ Pending(b)') => (Asked(b)').id # i
      <4> SUFFICES ASSUME NEW b \in Agents, did[i].is # "nothing", Pending(b)'
                   PROVE  (Asked(b)').id # i
        OBVIOUS
      <4>1. CASE b = m
        BY <2>2, <2>4, <3>1, <4>1 DEF Asked
      <4>2. CASE b # m
        <5>1. job'[b] = job[b] /\ inbox'[b] = inbox[b]
          BY <1>2, <2>4, <4>2
        <5>2. Pending(b) /\ (Asked(b))' = Asked(b)
          BY <5>1 DEF Pending, Asked, Busy
        <5> QED BY <3>1, <5>2 DEF AnswerTells
      <4> QED BY <4>1, <4>2
    <3>3. PICK c: c = did[i] /\ c = did'[i]
      BY <3>1
    <3>4. ToldBy(c, i)'
      BY <2>5, <3>1, <3>3, ToldStays DEF AnswerTells
    <3> QED BY <3>2, <3>3, <3>4 DEF AnswerTells, ToldBy, AllBy, Has
  <2>14. \A i \in DOMAIN did': AnswerTells(i)'
    <3> SUFFICES ASSUME NEW i \in DOMAIN did' PROVE AnswerTells(i)'
      OBVIOUS
    <3>1. i \in DOMAIN did \/ i = n
      BY <1>0, <2>1, <2>11
    <3> QED BY <2>12, <2>13, <3>1
  <2> QED BY <2>7, <2>8, <2>9, <2>14 DEF Left
<1> QED BY <1>0, <1>3, <1>4, SendRequestDoes

----------------------------------------------------------------------------
(* What others do leaves every account true: they make nothing of a        *)
(* request, and what they move they move aside.                            *)
LEMMA OthersKeepAll ==
  ASSUME FilesOK, FilesAreMovedAside, OthersMove, NEW id, id # 0, NEW path \in Paths, NEW there,
         AllBy(id, path, there)
  PROVE  AllBy(id, path, there)'
<1>1. PICK m \in OthersMay:
        \/ UNCHANGED nodes /\ names' = [names EXCEPT ![m.path] = 0]
        \/ /\ IsRename(m) /\ names[m.path] # 0 /\ names[m.to] = 0 /\ UNCHANGED nodes
           /\ names' = [names EXCEPT ![m.path] = 0, ![m.to] = names[m.path]]
        \/ Place(m.path, m.kind, 0, "other")
  BY OthersDo
<1>2. m.path \in Paths /\ (IsRename(m) => m.to \in Paths)
  BY OthersStayInTheTree DEF IsRename
<1>3. Later
  BY OthersDo
<1>4. CASE UNCHANGED nodes /\ names' = [names EXCEPT ![m.path] = 0]
  BY <1>3, <1>4, FewerNames, AllByStays
<1>5. CASE Place(m.path, m.kind, 0, "other")
  <2>1. 0 \in Nat
    OBVIOUS
  <2>2. NoMore(id)
    BY <1>2, <1>5, <2>1, PlacedByAnother
  <2> QED BY <2>2, AllByStays
<1>6. CASE /\ IsRename(m) /\ names[m.path] # 0 /\ names[m.to] = 0 /\ UNCHANGED nodes
           /\ names' = [names EXCEPT ![m.path] = 0, ![m.to] = names[m.path]]
  <2>1. PICK p \in Paths, q \in Paths: p = m.path /\ q = m.to /\ p # q
    BY <1>2, <1>6
  <2>2. /\ names'[p] = 0 /\ names'[q] = names[p]
        /\ \A x \in Paths: (x # p /\ x # q) => names'[x] = names[x]
    BY <1>6, <2>1 DEF FilesOK
  <2>3. /\ ~IsPrefix(p, q) /\ p \notin RenameTargets /\ q \in RenameTargets
    BY <1>6, <2>1 DEF FilesAreMovedAside, RenameTargets
  <2> SUFFICES ASSUME NEW x \in Paths, Has(x, id)'
               PROVE  (x \in RenameTargets /\ x # path) \/ (IsPrefix(x, path) /\ x \in there)
    BY DEF AllBy
  <2>4. x # p
    BY <2>2 DEF Has
  <2>5. CASE x = q
    <3>1. Has(p, id)
      BY <1>6, <2>2, <2>5 DEF Has
    <3>2. IsPrefix(p, path)
      BY <2>3, <3>1 DEF AllBy
    <3>3. path # q
      BY <2>3, <3>2
    <3> QED BY <2>1, <2>3, <2>5, <3>3
  <2>6. CASE x # q
    <3>1. Has(x, id)
      BY <1>6, <2>2, <2>4, <2>6 DEF Has
    <3> QED BY <3>1 DEF AllBy
  <2> QED BY <2>5, <2>6
<1> QED BY <1>1, <1>4, <1>5, <1>6

LEMMA OthersLeft ==
  ASSUME TypesOK, Wire, FilesAreMovedAside, Left, OthersMove, UNCHANGED <<clientVars, pipeVars>>
  PROVE  Left'
<1>0. FilesOK /\ JobsOK
  BY DEF TypesOK
<1>1. Later /\ UNCHANGED <<job, did, inbox, client>>
  BY <1>0, OthersDo DEF clientVars, pipeVars
<1>2. NewBy(0)
  <2>1. PICK m \in OthersMay: UNCHANGED nodes \/ Place(m.path, m.kind, 0, "other")
    BY <1>0, OthersDo
  <2>2. m.path \in Paths /\ 0 \in Nat
    BY OthersStayInTheTree
  <2> QED BY <1>0, <2>1, <2>2, NewByNone, NewByPlaced
<1>3. 0 \in Nat /\ 0 <= client.id
  BY SeqFacts DEF TypesOK, ClientOK
<1>4. \A b \in Agents: /\ Pending(b)' <=> Pending(b)
                       /\ (Asked(b))' = Asked(b)
  BY <1>1 DEF Pending, Asked, Busy
<1>5. \A b \in Agents: inbox[b] # <<>> => 0 # Head(inbox[b]).id
  <2> SUFFICES ASSUME NEW b \in Agents, inbox[b] # <<>> PROVE 0 # Head(inbox[b]).id
    OBVIOUS
  <2>1. Pending(b) /\ Asked(b) = Head(inbox[b])
    BY DEF Pending, Asked
  <2> QED BY <2>1, AskedIsNat
<1>6. \A b \in Agents: Busy(b)' => JobTells(b)'
  <2> SUFFICES ASSUME NEW b \in Agents, Busy(b)' PROVE JobTells(b)'
    OBVIOUS
  <2>1. PICK j: j = job[b] /\ j = job'[b]
    BY <1>1
  <2>2. JobTells(b) /\ IsJob(j) /\ j.request.id # 0
    BY <1>0, <2>1 DEF Left, Busy, JobsOK, IsJob, IsRequest
  <2>3. AllToDo(job[b])'
    BY <2>1, <2>2 DEF JobTells, AllToDo
  <2>4. LeftOf(j)
    BY <2>1, <2>2 DEF JobTells
  <2>5. ASSUME j.request.kind # "read", ~Succeeds(j)
        PROVE  /\ AllBy(j.request.id, j.request.path, There(j))'
               /\ j.step \in Ends => j.made = <<>>
    <3>1. AllBy(j.request.id, j.request.path, There(j)) /\ (j.step \in Ends => j.made = <<>>)
      BY <2>4, <2>5 DEF LeftOf
    <3>2. j.request.path \in Paths
      BY <2>2, <2>5 DEF IsJob, IsRequest
    <3> QED BY <1>0, <2>2, <3>1, <3>2, OthersKeepAll
  <2>6. LeftOf(j)'
    BY <2>5 DEF LeftOf
  <2>7. LeftOf(job[b])'
    BY <2>1, <2>6 DEF LeftOf, AllBy, Has, There, Succeeds
  <2> QED BY <2>3, <2>7 DEF JobTells
<1>7. \A i \in DOMAIN did': AnswerTells(i)'
  <2> SUFFICES ASSUME NEW i \in DOMAIN did PROVE AnswerTells(i)'
    BY <1>1
  <2>1. PICK came: came = did[i] /\ came = did'[i]
    BY <1>1
  <2>2. AnswerTells(i)
    BY DEF Left
  <2>3. came.is # "nothing" => \A a \in Agents: Pending(a)' => (Asked(a)').id # i
    BY <1>4, <2>1, <2>2 DEF AnswerTells
  <2>4. ToldBy(came, i)
    BY <2>1, <2>2 DEF AnswerTells
  <2>5. i # 0
    BY SeqFacts DEF TypesOK, ClientOK
  <2>6. ASSUME came.is \in Failures, ~came.wrote
        PROVE  came.path \in Paths /\ AllBy(i, came.path, came.left)'
    BY <1>0, <2>4, <2>5, <2>6, OthersKeepAll DEF ToldBy
  <2>7. ToldBy(came, i)'
    BY <2>6 DEF ToldBy
  <2> QED BY <2>1, <2>3, <2>7 DEF AnswerTells, ToldBy, AllBy, Has
<1> QED BY <1>1, <1>2, <1>3, <1>5, <1>6, <1>7, LeftKept

\* Every step of the system keeps the accounts.
LEMMA NextLeft ==
  ASSUME TypesOK, Wire, FilesAreMovedAside, Left, [Next]_vars
  PROVE  Left'
<1>0. FilesOK /\ JobsOK /\ ClientOK /\ PipesOK
  BY DEF TypesOK
<1>1. ASSUME UNCHANGED <<filesVars, job, did>>, client'.id = client.id,
             \A b \in Agents: inbox'[b] \in {inbox[b], <<>>}
      PROVE  Left'
  BY <1>1, ClientLeft DEF filesVars
<1>2. CASE ReceiveContents \/ ReceiveChanged
  <2>1. UNCHANGED <<filesVars, job, did, inbox>>
    BY <1>2 DEF ReceiveContents, ReceiveChanged
  <2>2. client'.id = client.id
    <3>1. ASSUME NEW is, NEW got, Finish(is, got) PROVE client'.id = client.id
      BY <1>0, <3>1, FinishDoes DEF ClientIs
    <3>2. LoseIt => client'.id = client.id
      BY <1>0, LoseItDoes DEF ClientIs
    <3>3. ASSUME NEW step, NEW part, NEW got, NEW open,
                 ClientIs(step, client.agent, part, client.attempt, client.id, got, open)
          PROVE  client'.id = client.id
      BY <3>3 DEF ClientIs
    <3>4. CASE ReceiveContents
      BY <1>0, <3>1, <3>2, <3>3, <3>4, ReceiveContentsDoes
    <3>5. CASE ReceiveChanged
      BY <1>0, <3>1, <3>2, <3>3, <3>5, ReceiveChangedDoes
    <3> QED BY <1>2, <3>4, <3>5
  <2> QED BY <1>1, <2>1, <2>2
<1>3. CASE Reconnect
  <2>1. client'.id = client.id /\ UNCHANGED <<filesVars, job, did>>
    BY <1>0, <1>3, ReconnectDoes DEF ClientIs
  <2>2. \A b \in Agents: inbox'[b] \in {inbox[b], <<>>}
    BY <1>0, <1>3, ReconnectDoes DEF PipesOK
  <2> QED BY <1>1, <2>1, <2>2
<1>4. CASE GiveUp
  <2>1. client'.id = client.id /\ UNCHANGED <<filesVars, job, did, inbox>>
    BY <1>0, <1>4, GiveUpDoes DEF ClientIs
  <2> QED BY <1>1, <2>1
<1>5. CASE Close
  BY <1>1, <1>5 DEF Close, clientVars
<1>6. CASE ClientStep
  BY <1>2, <1>3, <1>4, <1>5, <1>6, SendRequestLeft DEF ClientStep
<1>7. CASE NoAnswer
  <2>1. client'.id = client.id /\ UNCHANGED <<filesVars, job, did, inbox>>
    BY <1>0, <1>7, NoAnswerDoes DEF ClientIs, pipeVars
  <2> QED BY <1>1, <2>1
<1>8. ASSUME NEW a \in Agents, Work(a) \/ EndAgent(a) PROVE Left'
  BY <1>8, TakeLeft, AnswerChangeLeft, ReadingLeft, EndAgentLeft, FilesStepLeft DEF Work
<1>9. CASE OthersMove /\ UNCHANGED <<clientVars, pipeVars>>
  BY <1>9, OthersLeft
<1>10. CASE Done \/ UNCHANGED vars
  BY <1>1, <1>10 DEF Done, vars, clientVars, pipeVars
<1> QED BY <1>6, <1>7, <1>8, <1>9, <1>10 DEF Next

LEMMA InitLeft == Init => Left
<1> SUFFICES ASSUME Init PROVE Left
  OBVIOUS
<1>1. PICK s \in Starts:
        nodes = [i \in DOMAIN s.tree |-> [Node(s.tree[i].kind, 0, "other") EXCEPT !.parts = s.tree[i].parts]]
  BY DEF Init
<1>2. \A n \in DOMAIN nodes: nodes[n].by = 0
  <2> SUFFICES ASSUME NEW n \in DOMAIN s.tree PROVE nodes[n].by = 0
    BY <1>1
  <2>1. PICK k, e: k = Node(s.tree[n].kind, 0, "other") /\ e = [k EXCEPT !.parts = s.tree[n].parts] /\ nodes[n] = e
    BY <1>1
  <2> QED BY <2>1 DEF Node
<1>3. client.id = 0
  BY DEF Init, Resting
<1>4. ByKnown
  BY <1>2, <1>3 DEF ByKnown
<1>5. NothingMadeYet /\ (\A a \in Agents: ~Busy(a)) /\ DOMAIN did = {}
  BY DEF Init, NothingMadeYet, Busy
<1> QED BY <1>4, <1>5 DEF Left

LEMMA LeftIsEnough ==
  ASSUME FilesAreMovedAside, Left
  PROVE  NothingIsLeftUnsaid
<1> SUFFICES ASSUME NEW i \in DOMAIN did, did[i].is \in Failures, ~did[i].wrote, NEW p \in Paths,
                    IsPrefix(p, did[i].path), Has(p, i)
             PROVE  p \in did[i].left
  BY DEF NothingIsLeftUnsaid, Failures, Has
<1>1. did[i].path \in Paths /\ AllBy(i, did[i].path, did[i].left)
  BY DEF Left, AnswerTells, ToldBy
<1>2. ~(p \in RenameTargets /\ p # did[i].path)
  BY <1>1 DEF RenameTargets, FilesAreMovedAside, Leaf
<1> QED BY <1>1, <1>2 DEF AllBy

(* A change that failed before a content was written has left nothing that *)
(* its request made but what its answer names (`create_parents_with` and   *)
(* `undo_parents`, machine_ops/parents.rs:37-71 and 107-138;               *)
(* `create_symlink_creating`, machine_ops/change.rs:46-64; `remove_entry`, *)
(* agent/dispatch/writes.rs:92-115).                                       *)
THEOREM NothingIsLeftUnsaidHolds ==
  ASSUME FilesAreMovedAside
  PROVE  Spec => []NothingIsLeftUnsaid
<1>1. Init => TypesOK /\ Exchange /\ Contents /\ Left
  BY InitTypes, InitExchange, InitContents, InitLeft
<1>2. TypesOK /\ Exchange /\ Contents /\ Left /\ [Next]_vars => (TypesOK /\ Exchange /\ Contents /\ Left)'
  BY NextTypes, NextExchange, NextContents, NextLeft DEF Exchange
<1>3. Left => NothingIsLeftUnsaid
  BY LeftIsEnough
<1> QED BY <1>1, <1>2, <1>3, PTL DEF Spec

(***************************************************************************)
(* What a write has put: its parts, in the file of its first one, and the  *)
(* entries that it made, which are the user's.                             *)
(***************************************************************************)
\* The client asks for no more changes, and has no write to account for.
NoMoreChanges ==
  /\ \A i \in DOMAIN program: ~IsChange(program[i])
  /\ ~(results # <<>> /\ Last(results).op.kind = "write" /\ Last(results).is = "done")
AskedToChange(a) == Pending(a) /\ Asked(a).kind # "read"
\* No agent changes anything while the client has another one at work on a change.
OneChanges == \A a \in Agents: AskedToChange(a) => (a = Mine /\ client.step # "next") \/ NoMoreChanges

\* The parts that a file is to have, and those that were made since a request.
PartsTo(name, k) == [i \in 1 .. k |-> <<name, i>>]
HasParts(n, name, k) == n \in DOMAIN nodes /\ nodes[n].parts = PartsTo(name, k)
MadeSince(p, lo) == names[p] # 0 /\ nodes[names[p]].by > lo
Owned(p) == nodes[names[p]].owner = "user"
OwnedSince(lo) == \A p \in Paths: MadeSince(p, lo) => Owned(p)

\* What a job is still to give to the user.
Due(j, p) ==
  sudo /\ \/ j.step \in {"mkdir", "create"} /\ p \in ToSet(j.made)
          \/ j.step = "own" /\ (names[p] = j.id \/ (p # j.request.path /\ p \in ToSet(j.todo)))
\* The directories it gives are no leaves, and the file is the last that it gives.
OnTheWay(p, path) == p # path /\ ~Leaf(p)
Dirs(j) ==
  /\ j.step = "mkdir" => \A k \in DOMAIN j.todo: OnTheWay(j.todo[k], j.request.path)
  /\ j.step \in {"mkdir", "create"} => \A p \in ToSet(j.made): OnTheWay(p, j.request.path)
  /\ j.step = "own" => /\ \A k \in DOMAIN j.todo: j.todo[k] # j.request.path => ~Leaf(j.todo[k])
                       /\ j.todo[Len(j.todo)] = j.request.path
Placing == {"look", "open", "parents", "mkdir", "create"}
\* A job of a write that has not failed, and one that may have.
GoesWell(j, lo, open) ==
  /\ \A p \in Paths: MadeSince(p, lo) => Owned(p) \/ Due(j, p)
  /\ Dirs(j)
  /\ j.step \in Placing => j.request.part[2] = 1
  /\ j.step \in {"own", "write"} => HasParts(j.id, j.request.part[1], j.request.part[2] - 1)
  /\ j.step = "answer" => /\ HasParts(j.id, j.request.part[1], j.request.part[2])
                          /\ j.request.more => open[j.request.path] = j.id
JobSends(j, lo, open) ==
  /\ j.failure # "done"
  /\ j.step \in {"unmake", "unlinkMade", "undo"} => j.failure # "none"
  /\ j.failure = "none" => GoesWell(j, lo, open)

\* Before a part: the parts before it are in the file that is open for it.
Ready(op, part, lo, open) == OwnedSince(lo) /\ (part > 1 => HasParts(open[op.path], op.name, part - 1))
\* The answer to a part, and to the last one.
AnswerSends(frame, came, op, part, lo, open) ==
  frame.kind = "changed" =>
    /\ frame.failure # "done"
    /\ frame.failure = "none" =>
         /\ HasParts(came.id, op.name, part) /\ OwnedSince(lo)
         /\ part < op.parts => open[op.path] = came.id
Wrote(r, came, id) ==
  id - r.op.parts \in Nat /\ HasParts(came.id, r.op.name, r.op.parts) /\ OwnedSince(id - r.op.parts)

\* From the first part to the result.
LastIsWrite ==
  /\ results # <<>> /\ Last(results).op.kind = "write" /\ Last(results).is = "done"
  /\ Last(results).id = client.id
HasWritten == LastIsWrite => client.step = "next" /\ Wrote(Last(results), did[client.id], client.id)
Between ==
  (client.step = "next" /\ program # <<>> /\ Op.kind = "write" /\ client.part > 1) =>
    client.part - 1 <= client.id /\ Ready(Op, client.part, client.id - (client.part - 1), writing[Mine])
Lo == client.id - client.part
Sending == client.step = "wait" /\ Op.kind = "write"
WaitsWell ==
  /\ client.part <= client.id
  /\ inbox[Mine] # <<>> => Ready(Op, client.part, Lo, writing[Mine])
  /\ Busy(Mine) => JobSends(job[Mine], Lo, writing[Mine])
  /\ outbox[Mine] # <<>> =>
       AnswerSends(Head(outbox[Mine]), did[client.id], Op, client.part, Lo, writing[Mine])
Waits == Sending => WaitsWell

\* Every part that was sent is in the file, and everything that was made is the user's.
Sent == ByKnown /\ HasWritten /\ Between /\ Waits

----------------------------------------------------------------------------
\* Whoever is asked for no more changes is not asked for one again.
LEMMA NoMoreIf ==
  ASSUME NoMoreChanges, IsSeq(program), IsSeq(program'),
         \A i \in DOMAIN program': \/ i \in DOMAIN program /\ program'[i] = program[i]
                                   \/ i + 1 \in DOMAIN program /\ program'[i] = program[i + 1]
                                   \/ ~IsChange(program'[i]),
         \/ UNCHANGED results
         \/ ~(Last(results').op.kind = "write" /\ Last(results').is = "done")
  PROVE  NoMoreChanges'
<1>1. \A i \in DOMAIN program': ~IsChange(program'[i])
  BY DEF NoMoreChanges
<1> QED BY <1>1 DEF NoMoreChanges, IsChange

\* The client does nothing, and no agent is asked anything new.
LEMMA OneChangesIf ==
  ASSUME OneChanges, UNCHANGED clientVars,
         \A a \in Agents: AskedToChange(a)' => AskedToChange(a)
  PROVE  OneChanges'
BY DEF OneChanges, clientVars, NoMoreChanges, Mine, IsChange

LEMMA FilesStepOneChanges ==
  ASSUME TypesOK, OneChanges, NEW a \in Agents, FilesStep(a), UNCHANGED <<clientVars, pipeVars>>
  PROVE  OneChanges'
<1>1. FileMoves(a) /\ inbox' = inbox
  BY FilesStepMoves DEF TypesOK, pipeVars
<1>2. ASSUME NEW b \in Agents PROVE AskedToChange(b)' => AskedToChange(b)
  BY <1>1 DEF FileMoves, JobMoves, AskedToChange, Pending, Asked, Busy
<1> QED BY <1>2, OneChangesIf

LEMMA TakeOneChanges ==
  ASSUME TypesOK, Wire, OneChanges, NEW a \in Agents, Take(a)
  PROVE  OneChanges'
<1>0. FilesOK /\ JobsOK /\ PipesOK
  BY DEF TypesOK
<1>1. /\ inbox[a] # <<>> /\ ~Busy(a) /\ inbox' = [inbox EXCEPT ![a] = Tail(@)] /\ UNCHANGED clientVars
      /\ JobIs(a, Taken(a, Head(inbox[a]))) \/ UNCHANGED job
  BY <1>0, TakeDoes
<1>2. PICK r: r = Head(inbox[a])
  OBVIOUS
<1>3. PICK frames: frames = Tail(inbox[a]) /\ inbox' = [inbox EXCEPT ![a] = frames]
  BY <1>1
<1>4. frames = <<>>
  <2>1. Len(inbox[a]) = 1 /\ IsSeq(inbox[a])
    BY <1>0, <1>1 DEF Wire, PipesOK
  <2>2. IsSeq(frames) /\ Len(frames) = 0
    BY <1>1, <1>3, <2>1, TailFacts
  <2> QED BY <2>2, SeqFacts
<1>5. inbox'[a] = <<>> /\ \A b \in Agents \ {a}: inbox'[b] = inbox[b]
  BY <1>0, <1>3, <1>4 DEF PipesOK
<1>6. AskedToChange(a)' => AskedToChange(a)
  <2>1. CASE UNCHANGED job
    BY <1>1, <1>5, <2>1 DEF AskedToChange, Pending, Busy
  <2>2. CASE JobIs(a, Taken(a, Head(inbox[a])))
    <3>1. PICK k: k = Taken(a, r) /\ job'[a] = k
      BY <1>2, <2>2 DEF JobIs
    <3>2. k.request = r
      BY <3>1 DEF Taken
    <3> QED BY <1>1, <1>2, <1>5, <3>1, <3>2 DEF AskedToChange, Pending, Asked
  <2> QED BY <1>1, <2>1, <2>2
<1>7. ASSUME NEW b \in Agents, b # a PROVE AskedToChange(b)' => AskedToChange(b)
  <2>1. job'[b] = job[b] /\ inbox'[b] = inbox[b]
    BY <1>1, <1>5, <1>7 DEF JobIs
  <2> QED BY <2>1 DEF AskedToChange, Pending, Asked, Busy
<1> QED BY <1>1, <1>6, <1>7, OneChangesIf

\* An agent that answers, or ends, is asked for nothing.
LEMMA DoneOneChanges ==
  ASSUME TypesOK, Wire, OneChanges, NEW a \in Agents, AnswerChange(a) \/ EndAgent(a) \/ ReadOne(a) \/ SayContents(a)
  PROVE  OneChanges'
<1>0. FilesOK /\ JobsOK /\ PipesOK
  BY DEF TypesOK
<1>1. UNCHANGED clientVars
  BY DEF AnswerChange, EndAgent, ReadOne, SayContents
<1>2. /\ \A b \in Agents \ {a}: job'[b] = job[b] /\ inbox'[b] = inbox[b]
      /\ ~AskedToChange(a)'
  <2>1. CASE AnswerChange(a)
    <3>1. Busy(a) /\ JobIs(a, Idle) /\ UNCHANGED inbox
      BY <1>0, <2>1, AnswerChangeDoes
    <3>2. inbox[a] = <<>>
      BY <3>1 DEF Wire
    <3> QED BY <3>1, <3>2 DEF JobIs, AskedToChange, Pending, Busy
  <2>2. CASE EndAgent(a)
    <3>1. inbox' = [inbox EXCEPT ![a] = <<>>] /\ JobIs(a, Idle)
      BY <1>0, <2>2, EndAgentDoes
    <3> QED BY <1>0, <3>1 DEF PipesOK, JobIs, AskedToChange, Pending, Busy
  <2>3. CASE ReadOne(a) \/ SayContents(a)
    <3>1. Busy(a) /\ UNCHANGED inbox
      BY <1>0, <2>3, ReadOneDoes, SayContentsDoes, AtRead DEF pipeVars
    <3>2. inbox[a] = <<>>
      BY <3>1 DEF Wire
    <3>3. JobIs(a, Idle) \/ \E paths, todo, made: Reading(a, paths, todo, made)
      BY <1>0, <2>3, ReadOneDoes, SayContentsDoes
    <3>4. CASE JobIs(a, Idle)
      BY <3>1, <3>2, <3>4 DEF JobIs, AskedToChange, Pending, Busy
    <3>5. ASSUME NEW paths, NEW todo, NEW made, Reading(a, paths, todo, made)
          PROVE  job'[a].request.kind = "read" /\ \A b \in Agents \ {a}: job'[b] = job[b]
      BY <3>5 DEF Reading, JobIs
    <3> QED BY <3>1, <3>2, <3>3, <3>4, <3>5 DEF AskedToChange, Pending, Asked
  <2> QED BY <2>1, <2>2, <2>3
<1>3. ASSUME NEW b \in Agents, b # a PROVE AskedToChange(b)' => AskedToChange(b)
  BY <1>2, <1>3 DEF AskedToChange, Pending, Asked, Busy
<1> QED BY <1>1, <1>2, <1>3, OneChangesIf

----------------------------------------------------------------------------
\* A result that is added is the last one.
LEMMA LastOfAppend ==
  ASSUME ClientOK, NEW r, results' = Append(results, r)
  PROVE  results' # <<>> /\ Last(results') = r
BY AppendFacts DEF ClientOK

\* A frame over the limit is refused, and sends nothing.
LEMMA HugeDoes ==
  ASSUME ClientOK, SendRequest, Op.kind = "huge"
  PROVE  /\ Last(results').is = "refused" /\ Last(results').id = 0 /\ Last(results').op = Op
         /\ program' = Tail(program)
         /\ UNCHANGED <<client, did, pipeVars, filesVars, job>>
<1>1. PICK r: r = [Result("refused", <<>>) EXCEPT !.id = 0] /\ results' = Append(results, r)
  BY DEF SendRequest
<1>2. r.is = "refused" /\ r.id = 0 /\ r.op = Op
  BY <1>1 DEF Result, Op
<1>3. program' = Tail(program) /\ UNCHANGED <<client, did, pipeVars, filesVars, job>>
  BY DEF SendRequest
<1> QED BY <1>1, <1>2, <1>3, LastOfAppend

\* The client does something, and no agent moves.
LEMMA OneChangesOfClient ==
  ASSUME OneChanges, UNCHANGED job, \A a \in Agents: inbox'[a] \in {inbox[a], <<>>},
         \A a \in Agents: Busy(a) => inbox[a] = <<>>,
         NoMoreChanges => NoMoreChanges',
         NoMoreChanges' \/ (Mine' = Mine /\ client'.step # "next") \/ ~AskedToChange(Mine)
  PROVE  OneChanges'
<1> SUFFICES ASSUME NEW a \in Agents, AskedToChange(a)', ~NoMoreChanges'
             PROVE  a = Mine' /\ client'.step # "next"
  BY DEF OneChanges
<1>1. AskedToChange(a)
  BY DEF AskedToChange, Pending, Asked, Busy
<1>2. a = Mine
  BY <1>1 DEF OneChanges
<1> QED BY <1>1, <1>2

LEMMA SendRequestOneChanges ==
  ASSUME TypesOK, Wire, OneChanges, SendRequest
  PROVE  OneChanges'
<1>0. ClientOK /\ PipesOK /\ Mine \in Agents
  BY DEF TypesOK, ClientOK, Mine
<1>1. client.step = "next" /\ program # <<>> /\ UNCHANGED job
  BY <1>0, SendRequestDoes
<1>2. ~Pending(Mine) /\ inbox[Mine] = <<>>
  BY <1>1 DEF Wire, Pending
<1>3. CASE Op.kind = "huge"
  <2>1. /\ Last(results').op = Op /\ program' = Tail(program) /\ UNCHANGED pipeVars
    BY <1>0, <1>3, HugeDoes
  <2>2. IsSeq(program) /\ IsSeq(program')
        /\ \A i \in DOMAIN program': i + 1 \in DOMAIN program /\ program'[i] = program[i + 1]
    BY <1>0, <1>1, <2>1, TailFacts DEF ClientOK
  <2>3. NoMoreChanges => NoMoreChanges'
    BY <1>3, <2>1, <2>2, NoMoreIf
  <2>4. ~AskedToChange(Mine)
    BY <1>2 DEF AskedToChange
  <2>5. UNCHANGED inbox /\ \A a \in Agents: Busy(a) => inbox[a] = <<>>
    BY <2>1 DEF pipeVars, Wire
  <2> QED BY <1>1, <2>3, <2>4, <2>5, OneChangesOfClient
<1>4. CASE Op.kind # "huge"
  <2>1. /\ inbox' = [inbox EXCEPT ![Mine] = Append(@, Request)] /\ UNCHANGED <<program, results>>
        /\ ClientIs("wait", client.agent, client.part, client.attempt, client.id + 1, <<>>, {})
    BY <1>0, <1>4, SendRequestDoes
  <2>2. Mine' = Mine /\ client'.step = "wait"
    BY <2>1 DEF ClientIs, Mine
  <2>3. PICK m \in Agents: m = Mine
    BY <1>0
  <2>4. PICK frames: inbox' = [inbox EXCEPT ![m] = frames]
    BY <2>1, <2>3
  <2>5. \A a \in Agents: a # Mine => inbox'[a] = inbox[a]
    BY <1>0, <2>3, <2>4 DEF PipesOK
  <2>6. NoMoreChanges => NoMoreChanges'
    BY <2>1 DEF NoMoreChanges, IsChange
  <2>7. ASSUME NEW a \in Agents, AskedToChange(a)', a # Mine PROVE AskedToChange(a)
    BY <1>1, <2>5, <2>7 DEF AskedToChange, Pending, Asked, Busy
  <2>8. ASSUME NEW a \in Agents, AskedToChange(a)' PROVE (a = Mine' /\ client'.step # "next") \/ NoMoreChanges'
    BY <2>2, <2>6, <2>7, <2>8 DEF OneChanges
  <2> QED BY <2>8 DEF OneChanges
<1> QED BY <1>3, <1>4

\* Nothing is asked of the agent that has answered.
LEMMA AnsweredIsNotAsked ==
  ASSUME TypesOK, Wire, Frames, client.step = "wait", outbox[Mine] # <<>> \/ Op.kind = "read"
  PROVE  ~AskedToChange(Mine)
<1>1. Mine \in Agents /\ PipesOK
  BY DEF TypesOK, ClientOK, Mine
<1>2. CASE Op.kind = "read"
  <2>1. Pending(Mine) => IsFor(Asked(Mine))
    BY DEF Wire
  <2> QED BY <1>2, <2>1 DEF AskedToChange, IsFor
<1>3. CASE Op.kind # "read"
  BY <1>1, <1>3, InHandIsUnanswered DEF AskedToChange
<1> QED BY <1>2, <1>3

\* A result of the operation at hand is a write's only if that one changes.
LEMMA FinishNoMore ==
  ASSUME ClientOK, program # <<>>, NoMoreChanges, NEW is, NEW got, results' = Append(results, Result(is, got)),
         IsSeq(program'),
         \A i \in DOMAIN program': \/ i \in DOMAIN program /\ program'[i] = program[i]
                                   \/ i + 1 \in DOMAIN program /\ program'[i] = program[i + 1]
                                   \/ ~IsChange(program'[i])
  PROVE  NoMoreChanges'
<1>1. PICK r: r = Result(is, got) /\ results' = Append(results, r)
  OBVIOUS
<1>2. Last(results') = r /\ r.op = Op
  BY <1>1, LastOfAppend DEF Result, Op
<1>3. ~IsChange(Op) /\ IsSeq(program)
  BY OpFacts DEF NoMoreChanges, ClientOK
<1>4. Op.kind # "write"
  BY <1>3 DEF IsChange, Changes
<1> QED BY <1>2, <1>3, <1>4, NoMoreIf

LEMMA ReceiveOneChanges ==
  ASSUME TypesOK, Wire, Frames, OneChanges, ReceiveContents \/ ReceiveChanged
  PROVE  OneChanges'
<1>0. ClientOK /\ PipesOK
  BY DEF TypesOK
<1>1. /\ client.step = "wait" /\ outbox[Mine] # <<>> /\ UNCHANGED <<job, inbox>>
      /\ \A a \in Agents: Busy(a) => inbox[a] = <<>>
  BY DEF ReceiveContents, ReceiveChanged, Wire
<1>2. ~AskedToChange(Mine) /\ program # <<>>
  BY <1>0, <1>1, AnsweredIsNotAsked DEF ClientOK
<1>3. (\E is, got: Finish(is, got)) \/ UNCHANGED <<program, results>>
  <2>1. CASE ReceiveContents
    BY <1>0, <2>1, ReceiveContentsDoes, LoseItDoes
  <2>2. CASE ReceiveChanged
    BY <1>0, <2>2, ReceiveChangedDoes, LoseItDoes
  <2> QED BY <2>1, <2>2
<1>4. NoMoreChanges => NoMoreChanges'
  <2>1. ASSUME NEW is, NEW got, Finish(is, got), NoMoreChanges PROVE NoMoreChanges'
    <3>1. program' = Tail(program) /\ results' = Append(results, Result(is, got))
      BY <1>0, <2>1, FinishDoes
    <3>2. IsSeq(program')
          /\ \A i \in DOMAIN program': i + 1 \in DOMAIN program /\ program'[i] = program[i + 1]
      BY <1>0, <1>2, <3>1, OpFacts
    <3> QED BY <1>0, <1>2, <2>1, <3>1, <3>2, FinishNoMore
  <2>2. UNCHANGED <<program, results>> /\ NoMoreChanges => NoMoreChanges'
    BY DEF NoMoreChanges, IsChange
  <2> QED BY <1>3, <2>1, <2>2
<1> QED BY <1>1, <1>2, <1>4, OneChangesOfClient

LEMMA LosingOneChanges ==
  ASSUME TypesOK, Wire, OneChanges, NoAnswer \/ Reconnect \/ GiveUp
  PROVE  OneChanges'
<1>0. ClientOK /\ PipesOK /\ FilesOK
  BY DEF TypesOK
<1>1. UNCHANGED job /\ \A a \in Agents: Busy(a) => inbox[a] = <<>>
  BY DEF NoAnswer, Reconnect, GiveUp, Wire
<1>2. CASE NoAnswer
  <2>1. Mine' = Mine /\ client'.step = "lost" /\ UNCHANGED <<program, results, inbox>>
    BY <1>0, <1>2, NoAnswerDoes DEF ClientIs, Mine, pipeVars
  <2>2. NoMoreChanges => NoMoreChanges'
    BY <2>1 DEF NoMoreChanges, IsChange
  <2> QED BY <1>1, <2>1, <2>2, OneChangesOfClient
<1>3. CASE Reconnect
  <2>1. client.step = "lost" /\ program # <<>>
    BY <1>0, <1>3 DEF Reconnect, ClientOK
  <2>2. \A a \in Agents: inbox'[a] \in {inbox[a], <<>>}
    BY <1>0, <1>3, ReconnectDoes DEF PipesOK
  <2>3. CASE IsChange(Op) /\ results' = Append(results, Result("lost", <<>>)) /\ program' = <<Look1(Op)>>
    <3>1. PICK r, one: r = Result("lost", <<>>) /\ one = Look1(Op) /\ results' = Append(results, r) /\ program' = <<one>>
      BY <2>3
    <3>2. r.is = "lost" /\ one.kind = "read"
      BY <3>1 DEF Result, Look1
    <3>3. Last(results').is = "lost"
      BY <1>0, <3>1, <3>2, LastOfAppend
    <3>4. DOMAIN program' = {1} /\ program'[1] = one
      BY <3>1
    <3>5. NoMoreChanges'
      BY <3>2, <3>3, <3>4 DEF NoMoreChanges, IsChange, Changes
    <3> QED BY <1>1, <2>2, <3>5, OneChangesOfClient
  <2>4. CASE ~IsChange(Op) /\ UNCHANGED <<results, program>>
    <3>1. ~AskedToChange(Mine)
      <4>1. Pending(Mine) => IsFor(Asked(Mine))
        BY <2>1 DEF Wire
      <4>2. Mine \in Agents /\ (Pending(Mine) => IsRequest(Asked(Mine)))
        <5>1. Mine \in Agents
          BY <1>0 DEF ClientOK, Mine
        <5>2. inbox[Mine] # <<>> => IsRequest(Head(inbox[Mine]))
          BY <1>0, <5>1, TailFacts DEF PipesOK
        <5>3. Busy(Mine) => IsRequest(job[Mine].request)
          BY <5>1 DEF TypesOK, JobsOK, IsJob
        <5> QED BY <5>1, <5>2, <5>3 DEF Pending, Asked
      <4> QED BY <2>4, <4>1, <4>2 DEF AskedToChange, IsFor, IsChange, IsRequest
    <3>2. NoMoreChanges => NoMoreChanges'
      BY <2>4 DEF NoMoreChanges, IsChange
    <3> QED BY <1>1, <2>2, <3>1, <3>2, OneChangesOfClient
  <2> QED BY <1>0, <1>3, <2>3, <2>4, ReconnectDoes
<1>4. CASE GiveUp
  <2>1. program' = <<>> /\ results' = Append(results, Result("lost", <<>>)) /\ UNCHANGED inbox
    BY <1>0, <1>4, GiveUpDoes
  <2>2. PICK r: r = Result("lost", <<>>) /\ results' = Append(results, r)
    BY <2>1
  <2>3. Last(results').is = "lost"
    BY <1>0, <2>2, LastOfAppend DEF Result
  <2>4. NoMoreChanges'
    BY <2>1, <2>3 DEF NoMoreChanges
  <2> QED BY <1>1, <2>1, <2>4, OneChangesOfClient
<1> QED BY <1>2, <1>3, <1>4

\* No step of the system makes two agents change the tree for the client.
LEMMA NextOneChanges ==
  ASSUME TypesOK, Exchange, OneChanges, [Next]_vars
  PROVE  OneChanges'
<1>0. FilesOK /\ Wire /\ Frames
  BY DEF TypesOK, Exchange
<1>1. ASSUME UNCHANGED <<job, inbox, clientVars>> PROVE OneChanges'
  BY <1>1, OneChangesIf DEF AskedToChange, Pending, Asked, Busy
<1>2. CASE ClientStep
  <2>1. Close => UNCHANGED <<job, inbox, clientVars>>
    BY DEF Close
  <2> QED BY <1>0, <1>1, <1>2, <2>1, SendRequestOneChanges, ReceiveOneChanges, LosingOneChanges DEF ClientStep
<1>3. CASE NoAnswer
  BY <1>0, <1>3, LosingOneChanges
<1>4. ASSUME NEW a \in Agents, Work(a) \/ EndAgent(a) PROVE OneChanges'
  BY <1>0, <1>4, TakeOneChanges, DoneOneChanges, FilesStepOneChanges DEF Work
<1>5. CASE OthersMove /\ UNCHANGED <<clientVars, pipeVars>>
  BY <1>0, <1>1, <1>5, OthersDo DEF pipeVars
<1>6. CASE Done \/ UNCHANGED vars
  BY <1>1, <1>6 DEF Done, vars, pipeVars
<1> QED BY <1>2, <1>3, <1>4, <1>5, <1>6 DEF Next

LEMMA InitOneChanges == Init => OneChanges
BY DEF Init, OneChanges, AskedToChange, Pending, Busy

----------------------------------------------------------------------------
\* One part more.
LEMMA PartsGrow ==
  ASSUME NEW name, NEW k \in Nat
  PROVE  Append(PartsTo(name, k), <<name, k + 1>>) = PartsTo(name, k + 1)
<1> DEFINE s == PartsTo(name, k)
           S == {<<name, i>>: i \in 1 .. k + 1}
<1>1. s \in Seq(S) /\ Len(s) = k /\ DOMAIN s = 1 .. k
  BY DEF PartsTo
<1>2. PICK t: t = Append(s, <<name, k + 1>>)
  OBVIOUS
<1>3. /\ DOMAIN t = 1 .. k + 1 /\ \A i \in 1 .. k: t[i] = s[i]
      /\ t[k + 1] = <<name, k + 1>> /\ t = [i \in DOMAIN t |-> t[i]]
  BY <1>1, <1>2
<1>4. \A i \in 1 .. k: t[i] = <<name, i>>
  BY <1>3 DEF PartsTo
<1>5. \A i \in 1 .. k + 1: t[i] = <<name, i>>
  BY <1>3, <1>4
<1>6. t = [i \in 1 .. k + 1 |-> <<name, i>>]
  BY <1>3, <1>5
<1> QED BY <1>2, <1>6 DEF PartsTo

LEMMA NoParts == \A name: PartsTo(name, 0) = <<>>
BY DEF PartsTo

\* What others do: a node stays as it is, and has another name at most.
Undisturbed ==
  /\ \A n \in DOMAIN nodes: /\ n \in DOMAIN nodes' /\ nodes'[n].parts = nodes[n].parts
                            /\ nodes'[n].by = nodes[n].by /\ nodes'[n].owner = nodes[n].owner
  /\ \A p \in Paths: \/ names'[p] = 0 \/ names'[p] = names[p] \/ nodes'[names'[p]].by = 0
                     \/ \E q \in Paths: Leaf(q) /\ names[q] # 0 /\ names'[p] = names[q]

LEMMA PartsStay ==
  ASSUME Undisturbed, NEW n, NEW name, NEW k, HasParts(n, name, k)
  PROVE  HasParts(n, name, k)'
BY DEF Undisturbed, HasParts

\* Where a path's node came from.
LEMMA NodeOfName ==
  ASSUME FilesOK, NEW p \in Paths, names[p] # 0
  PROVE  names[p] \in DOMAIN nodes
BY SeqFacts DEF FilesOK

LEMMA CameFrom ==
  ASSUME FilesOK, Undisturbed, NEW lo \in Nat, NEW p \in Paths, MadeSince(p, lo)'
  PROVE  \E q \in Paths: /\ names'[p] = names[q] /\ names[q] # 0 /\ MadeSince(q, lo) /\ (q = p \/ Leaf(q))
                         /\ Owned(q) <=> Owned(p)'
<1>1. PICK q \in Paths: names'[p] = names[q] /\ names[q] # 0 /\ (q = p \/ Leaf(q))
  BY DEF Undisturbed, MadeSince
<1>2. names[q] \in DOMAIN nodes
  BY <1>1, NodeOfName
<1>3. MadeSince(q, lo) /\ (Owned(q) <=> Owned(p)')
  BY <1>1, <1>2 DEF Undisturbed, MadeSince, Owned
<1> QED BY <1>1, <1>3

LEMMA OwnedStay ==
  ASSUME FilesOK, Undisturbed, NEW lo \in Nat, OwnedSince(lo)
  PROVE  OwnedSince(lo)'
<1> SUFFICES ASSUME NEW p \in Paths, MadeSince(p, lo)' PROVE Owned(p)'
  BY DEF OwnedSince
<1> QED BY CameFrom DEF OwnedSince

\* What a job is to give is not moved away from it.
LEMMA DueStays ==
  ASSUME FilesOK, Undisturbed, UNCHANGED sudo, NEW lo \in Nat, NEW j, IsJob(j), Dirs(j),
         \A q \in Paths: MadeSince(q, lo) => Owned(q) \/ Due(j, q), NEW p \in Paths, MadeSince(p, lo)'
  PROVE  Owned(p)' \/ Due(j, p)'
<1>1. PICK q \in Paths: /\ names'[p] = names[q] /\ names[q] # 0 /\ MadeSince(q, lo) /\ (q = p \/ Leaf(q))
                        /\ Owned(q) <=> Owned(p)'
  BY CameFrom
<1>2. CASE Owned(q)
  BY <1>1, <1>2
<1>3. CASE q = p /\ Due(j, q)
  BY <1>1, <1>3 DEF Due
<1>4. CASE Leaf(q) /\ Due(j, q)
  <2>1. ~(j.step \in {"mkdir", "create"} /\ q \in ToSet(j.made))
    BY <1>4 DEF Dirs, OnTheWay
  <2>2. ASSUME j.step = "own", q \in ToSet(j.todo), q # j.request.path PROVE FALSE
    <3>1. PICK i \in DOMAIN j.todo: j.todo[i] = q
      BY <2>2, InToSet DEF IsJob
    <3> QED BY <1>4, <2>2, <3>1 DEF Dirs
  <2>3. sudo /\ j.step = "own" /\ names[q] = j.id
    BY <1>4, <2>1, <2>2 DEF Due
  <2> QED BY <1>1, <2>3 DEF Due
<1> QED BY <1>1, <1>2, <1>3, <1>4

LEMMA GoesWellStays ==
  ASSUME FilesOK, Undisturbed, UNCHANGED sudo, NEW lo \in Nat, NEW j, IsJob(j), NEW open, GoesWell(j, lo, open)
  PROVE  GoesWell(j, lo, open)'
<1>1. \A p \in Paths: MadeSince(p, lo)' => Owned(p)' \/ Due(j, p)'
  BY DueStays DEF GoesWell
<1>2. Dirs(j)'
  BY DEF GoesWell, Dirs, OnTheWay, Leaf
<1>3. j.step \in {"own", "write"} => HasParts(j.id, j.request.part[1], j.request.part[2] - 1)'
  BY PartsStay DEF GoesWell
<1>4. j.step = "answer" => /\ HasParts(j.id, j.request.part[1], j.request.part[2])'
                           /\ j.request.more => open[j.request.path] = j.id
  BY PartsStay DEF GoesWell
<1>5. j.step \in Placing => j.request.part[2] = 1
  BY DEF GoesWell
<1> QED BY <1>1, <1>2, <1>3, <1>4, <1>5 DEF GoesWell

LEMMA JobSendsStays ==
  ASSUME FilesOK, Undisturbed, UNCHANGED sudo, NEW lo \in Nat, NEW j, IsJob(j), NEW open, JobSends(j, lo, open)
  PROVE  JobSends(j, lo, open)'
<1>1. j.failure = "none" => GoesWell(j, lo, open)'
  BY GoesWellStays DEF JobSends
<1> QED BY <1>1 DEF JobSends

LEMMA ReadyStays ==
  ASSUME FilesOK, Undisturbed, NEW op, NEW part, NEW lo \in Nat, NEW open, Ready(op, part, lo, open)
  PROVE  Ready(op, part, lo, open)'
<1>1. PICK n, name, k: n = open[op.path] /\ name = op.name /\ k = part - 1
  OBVIOUS
<1>2. part > 1 => HasParts(n, name, k)'
  BY <1>1, PartsStay DEF Ready
<1>3. OwnedSince(lo)'
  BY OwnedStay DEF Ready
<1> QED BY <1>1, <1>2, <1>3 DEF Ready

LEMMA AnswerSendsStays ==
  ASSUME FilesOK, Undisturbed, NEW frame, NEW came, NEW op, NEW part, NEW lo \in Nat, NEW open,
         AnswerSends(frame, came, op, part, lo, open)
  PROVE  AnswerSends(frame, came, op, part, lo, open)'
<1>1. PICK n, name: n = came.id /\ name = op.name
  OBVIOUS
<1>2. (frame.kind = "changed" /\ frame.failure = "none") => HasParts(n, name, part)' /\ OwnedSince(lo)'
  BY <1>1, PartsStay, OwnedStay DEF AnswerSends
<1> QED BY <1>1, <1>2 DEF AnswerSends

LEMMA WroteStays ==
  ASSUME FilesOK, Undisturbed, NEW r, NEW came, NEW id, Wrote(r, came, id)
  PROVE  Wrote(r, came, id)'
<1>1. PICK n, name, k, lo: n = came.id /\ name = r.op.name /\ k = r.op.parts /\ lo = id - r.op.parts /\ lo \in Nat
  BY DEF Wrote
<1>2. HasParts(n, name, k)' /\ OwnedSince(lo)'
  BY <1>1, PartsStay, OwnedStay DEF Wrote
<1> QED BY <1>1, <1>2 DEF Wrote

----------------------------------------------------------------------------
\* The job of a write after a step.
SendsOn(a, lo) == \A j, open: (j = job'[a] /\ open = writing'[a]) => JobSends(j, lo, open)'
WritesOne(a, lo) == job[a].request.kind = "write" /\ JobSends(job[a], lo, writing[a])

\* One that has failed, and one that goes on.
LEMMA FailsSend ==
  ASSUME NEW a \in Agents, NEW step, NEW seen, NEW todo, NEW made, NEW id, NEW failure, NEW left, NEW wrote,
         Becomes(a, step, seen, todo, made, id, failure, left, wrote), failure \notin {"none", "done"}, NEW lo
  PROVE  SendsOn(a, lo)
BY BecomesFields DEF SendsOn, JobSends

LEMMA GoesFails ==
  ASSUME NEW a \in Agents, NEW step, NEW failure, GoesTo(a, step, failure), failure \notin {"none", "done"}, NEW lo
  PROVE  SendsOn(a, lo)
BY FailsSend DEF GoesTo

LEMMA GoesOnWell ==
  ASSUME NEW a \in Agents, NEW lo, NEW k, k = job'[a], NEW open, open = writing'[a],
         k.failure = "none", k.step \notin {"unmake", "unlinkMade", "undo"}, GoesWell(k, lo, open)'
  PROVE  SendsOn(a, lo)
BY DEF SendsOn, JobSends

\* Where nothing is made, nothing more is to be given.
LEMMA SameMade ==
  ASSUME UNCHANGED <<names, nodes>>, NEW lo, NEW p \in Paths, MadeSince(p, lo)'
  PROVE  MadeSince(p, lo) /\ (Owned(p) => Owned(p)')
BY DEF MadeSince, Owned

LEMMA PlacedMade ==
  ASSUME FilesOK, NEW p \in Paths, NEW kind, NEW by \in Nat, NEW owner, Place(p, kind, by, owner), NEW lo
  PROVE  /\ \A q \in Paths \ {p}: MadeSince(q, lo)' => MadeSince(q, lo) /\ (Owned(q) => Owned(q)')
         /\ \A q \in Paths \ {p}: names'[q] = names[q]
         /\ names'[p] = Len(nodes) + 1 /\ Len(nodes) + 1 \in DOMAIN nodes'
         /\ owner = "user" => Owned(p)'
         /\ nodes'[Len(nodes) + 1].parts = <<>>
<1>0. PICK node: node = Node(kind, by, owner) /\ nodes' = Append(nodes, node)
  BY DEF Place
<1>1. /\ Later /\ names'[p] = Len(nodes) + 1 /\ \A q \in Paths \ {p}: names'[q] = names[q]
      /\ \A n \in DOMAIN nodes: nodes'[n] = nodes[n]
      /\ Len(nodes') = Len(nodes) + 1
  <2>1. Later /\ Len(nodes') = Len(nodes) + 1
    BY PlaceFacts
  <2>2. names'[p] = Len(nodes) + 1 /\ \A q \in Paths \ {p}: names'[q] = names[q]
    BY DEF Place, FilesOK
  <2>3. \A n \in DOMAIN nodes: nodes'[n] = nodes[n]
    BY <1>0, AppendFacts DEF FilesOK
  <2> QED BY <2>1, <2>2, <2>3
<1>2. ASSUME NEW q \in Paths \ {p}, MadeSince(q, lo)' PROVE MadeSince(q, lo) /\ (Owned(q) => Owned(q)')
  <2>1. names'[q] = names[q] /\ names[q] \in DOMAIN nodes
    BY <1>1, <1>2, NodeOfName DEF MadeSince
  <2> QED BY <1>1, <1>2, <2>1 DEF MadeSince, Owned
<1>3. Len(nodes) + 1 \in DOMAIN nodes'
  <2>1. Len(nodes) \in Nat /\ DOMAIN nodes' = 1 .. Len(nodes')
    BY <1>1, SeqFacts DEF FilesOK, Later, IsSeq
  <2> QED BY <1>1, <2>1
<1>4. nodes'[Len(nodes) + 1].parts = <<>> /\ nodes'[Len(nodes) + 1].owner = owner
  <2>1. nodes'[Len(nodes) + 1] = node
    BY <1>0, AppendFacts DEF FilesOK
  <2> QED BY <1>0, <2>1 DEF Node
<1> QED BY <1>1, <1>2, <1>3, <1>4 DEF Owned

\* While the place is looked for, everything that was made is the user's.
LEMMA NothingDue ==
  ASSUME NEW a \in Agents, NEW lo, WritesOne(a, lo), job[a].failure = "none",
         job[a].step \notin {"mkdir", "create", "own"}, NEW p \in Paths, MadeSince(p, lo)
  PROVE  Owned(p)
BY DEF WritesOne, JobSends, GoesWell, Due

LEMMA LooksSend ==
  ASSUME FilesOK, JobsOK, NEW a \in Agents, NEW lo, WritesOne(a, lo), Look(a)
  PROVE  SendsOn(a, lo)
<1>1. Busy(a) /\ IsJob(job[a]) /\ job[a].step = "look"
  BY AtIsBusy DEF Look, At
<1>2. job[a].failure = "none" /\ UNCHANGED <<names, nodes>>
  BY <1>1, JobFacts DEF Look, filesVars
<1>3. PICK step, seen: /\ step = IF names[Path(a)] # 0 THEN "open" ELSE "parents"
                       /\ Becomes(a, step, seen, job[a].todo,
                            job[a].made, job[a].id, job[a].failure, job[a].left, job[a].wrote)
  <2>1. PICK step, seen: /\ step = IF names[Path(a)] # 0 THEN "open" ELSE "parents"
                         /\ seen = (names[Path(a)] # 0)
    OBVIOUS
  <2> QED BY <2>1, LookDoes
<1>4. PICK k, open: k = job'[a] /\ open = writing'[a]
  OBVIOUS
<1>5. k.step = step /\ k.failure = "none" /\ k.request = job[a].request
  BY <1>2, <1>3, <1>4, BecomesFields
<1>6. k.step \in {"open", "parents"}
  BY <1>3, <1>5
<1>7. \A p \in Paths: MadeSince(p, lo)' => Owned(p)'
  BY <1>1, <1>2, SameMade, NothingDue
<1>8. k.request.part[2] = 1
  BY <1>1, <1>2, <1>5 DEF WritesOne, JobSends, GoesWell, Placing
<1>9. GoesWell(k, lo, open)'
  BY <1>6, <1>7, <1>8 DEF GoesWell, Dirs
<1> QED BY <1>4, <1>5, <1>6, <1>9, GoesOnWell

LEMMA OpenExistingSends ==
  ASSUME FilesOK, JobsOK, NEW a \in Agents, NEW lo, WritesOne(a, lo), OpenExisting(a)
  PROVE  SendsOn(a, lo)
<1>1. Busy(a) /\ IsJob(job[a]) /\ job[a].step = "open"
  BY AtIsBusy DEF OpenExisting, At
<1>2. job[a].failure = "none" /\ UNCHANGED <<names, sudo>>
  BY <1>1, JobFacts DEF OpenExisting
<1>3. PICK k, open: k = job'[a] /\ open = writing'[a]
  OBVIOUS
<1>4. job[a].request.part[2] = 1
  BY <1>1, <1>2 DEF WritesOne, JobSends, GoesWell, Placing
<1>5. CASE UNCHANGED nodes /\ GoesTo(a, "parents", job[a].failure)
  <2>1. k.step = "parents" /\ k.failure = "none" /\ k.request = job[a].request
    BY <1>2, <1>3, <1>5, BecomesFields DEF GoesTo
  <2>2. \A p \in Paths: MadeSince(p, lo)' => Owned(p)'
    BY <1>1, <1>2, <1>5, SameMade, NothingDue
  <2>3. GoesWell(k, lo, open)'
    BY <1>4, <2>1, <2>2 DEF GoesWell, Dirs
  <2> QED BY <1>3, <2>1, <2>3, GoesOnWell
<1>6. CASE /\ names[Path(a)] # 0 /\ nodes' = [nodes EXCEPT ![names[Path(a)]].parts = <<>>]
           /\ Becomes(a, "write", job[a].seen, job[a].todo, job[a].made, names[Path(a)],
                      job[a].failure, job[a].left, TRUE)
  <2>0. PICK n, none: n = names[Path(a)] /\ none = <<>>
    OBVIOUS
  <2>1. /\ nodes' = [nodes EXCEPT ![n].parts = none]
        /\ \E yes \in BOOLEAN: Becomes(a, "write", job[a].seen, job[a].todo, job[a].made, n,
                                       job[a].failure, job[a].left, yes)
    BY <1>6, <2>0
  <2>2. n \in DOMAIN nodes
    <3>1. Path(a) \in Paths
      BY <1>1, JobFacts DEF WritesOne, Path, Changes
    <3> QED BY <1>6, <2>0, <3>1, NodeOfName
  <2>3. IsSeq(none)
    BY <2>0, EmptyIsSeq
  <2>4. /\ DOMAIN nodes' = DOMAIN nodes /\ nodes'[n].parts = none
        /\ \A i \in DOMAIN nodes: nodes'[i].by = nodes[i].by /\ nodes'[i].owner = nodes[i].owner
    <3>1. /\ DOMAIN nodes' = DOMAIN nodes
          /\ \A i \in DOMAIN nodes: /\ nodes'[i].by = nodes[i].by /\ nodes'[i].owner = nodes[i].owner
                                    /\ nodes'[i].parts = IF i = n THEN none ELSE nodes[i].parts
      BY <2>1, <2>2, <2>3, PartsChange
    <3> QED BY <2>2, <3>1
  <2>5. k.step = "write" /\ k.failure = "none" /\ k.request = job[a].request /\ k.id = n
    BY <1>2, <1>3, <2>1, BecomesFields, BecomesKeeps
  <2>6. ASSUME NEW p \in Paths, MadeSince(p, lo)' PROVE Owned(p)'
    <3>1. names[p] \in DOMAIN nodes
      BY <1>2, <2>6, NodeOfName DEF MadeSince
    <3>2. MadeSince(p, lo)
      BY <1>2, <2>4, <2>6, <3>1 DEF MadeSince
    <3>3. Owned(p)
      BY <1>1, <1>2, <3>2, NothingDue
    <3> QED BY <1>2, <2>4, <3>1, <3>3 DEF Owned
  <2>7. HasParts(k.id, k.request.part[1], k.request.part[2] - 1)'
    <3>1. PICK m, name, z: m = k.id /\ name = k.request.part[1] /\ z = k.request.part[2] - 1
      OBVIOUS
    <3>2. z = 0 /\ m = n
      BY <1>4, <2>5, <3>1
    <3>3. HasParts(m, name, z)'
      BY <2>0, <2>2, <2>4, <3>2, NoParts DEF HasParts
    <3> QED BY <3>1, <3>3
  <2>8. GoesWell(k, lo, open)'
    BY <2>5, <2>6, <2>7 DEF GoesWell, Dirs, Placing
  <2> QED BY <1>3, <2>5, <2>8, GoesOnWell
<1>7. CASE \E f \in {"notDirectory", "io"}: GoesTo(a, "answer", f)
  BY <1>7, GoesFails
<1>8. Kind(Path(a)) = "file" => names[Path(a)] # 0
  BY DEF Kind
<1> QED BY <1>5, <1>6, <1>7, <1>8, OpenExistingDoes

----------------------------------------------------------------------------
\* The directories that are to be made lead to the path, and are no leaves.
LEMMA BelowIsOnTheWay ==
  ASSUME NEW p \in Paths, p # <<>>, NEW held \in 0 .. Len(p) - 1
  PROVE  \A k \in DOMAIN Below(p, held): OnTheWay(Below(p, held)[k], p)
<1>1. /\ Len(p) \in Nat \ {0} /\ Parents(p) \in Seq(Paths) /\ Len(Parents(p)) = Len(p) - 1
      /\ \A i \in 1 .. Len(p) - 1: /\ Parents(p)[i] = SubSeq(p, 1, i) /\ IsPrefix(SubSeq(p, 1, i), p)
                                   /\ SubSeq(p, 1, i) \in Paths \ {p, <<>>}
  BY ParentsFacts
<1>2. PICK parents, n: parents = Parents(p) /\ n = Len(p) - 1
  OBVIOUS
<1>3. IsSeq(parents) /\ Len(parents) = n /\ n \in Nat /\ DOMAIN parents = 1 .. n
  BY <1>1, <1>2, AnySeq
<1>4. PICK m: m = held + 1 /\ m \in 1 .. n + 1
  BY <1>2, <1>3
<1>5. \A k \in DOMAIN SubSeq(parents, m, n): /\ m + k - 1 \in DOMAIN parents
                                             /\ SubSeq(parents, m, n)[k] = parents[m + k - 1]
  BY <1>3, <1>4, SubSeqFacts
<1> SUFFICES ASSUME NEW k \in DOMAIN SubSeq(parents, m, n)
             PROVE  OnTheWay(SubSeq(parents, m, n)[k], p)
  BY <1>2, <1>4 DEF Below
<1>6. PICK i: i \in 1 .. n /\ SubSeq(parents, m, n)[k] = parents[i]
  BY <1>3, <1>5
<1>7. PICK q: q = parents[i] /\ q = SubSeq(p, 1, i)
  BY <1>1, <1>2, <1>6
<1>8. IsPrefix(q, p) /\ q # p
  BY <1>1, <1>2, <1>6, <1>7
<1> QED BY <1>6, <1>7, <1>8 DEF OnTheWay, Leaf

LEMMA FindParentsSends ==
  ASSUME FilesOK, JobsOK, NEW a \in Agents, NEW lo, WritesOne(a, lo), FindParents(a)
  PROVE  SendsOn(a, lo)
<1>1. Busy(a) /\ IsJob(job[a]) /\ job[a].step = "parents" /\ Path(a) \in Paths /\ Path(a) # <<>>
  BY AtMaking DEF FindParents, Making
<1>2. job[a].failure = "none" /\ job[a].made = <<>> /\ UNCHANGED <<names, nodes>>
  BY <1>1, JobFacts DEF FindParents, filesVars
<1>3. PICK k, open: k = job'[a] /\ open = writing'[a]
  OBVIOUS
<1>4. CASE GoesTo(a, "answer", "rootGone")
  BY <1>4, GoesFails
<1>5. ASSUME NEW held \in 0 .. Len(Path(a)) - 1,
             Becomes(a, "mkdir", job[a].seen, Below(Path(a), held),
                     job[a].made, job[a].id, job[a].failure, job[a].left, job[a].wrote)
      PROVE  SendsOn(a, lo)
  <2>1. PICK todo: todo = Below(Path(a), held)
                   /\ Becomes(a, "mkdir", job[a].seen, todo,
                        job[a].made, job[a].id, job[a].failure, job[a].left, job[a].wrote)
    BY <1>5
  <2>2. k.step = "mkdir" /\ k.failure = "none" /\ k.request = job[a].request /\ k.todo = todo /\ k.made = <<>>
    BY <1>2, <1>3, <2>1, BecomesFields
  <2>3. \A i \in DOMAIN todo: OnTheWay(todo[i], Path(a))
    BY <1>1, <2>1, BelowIsOnTheWay
  <2>4. ToSet(k.made) = {}
    BY <2>2, EmptyIsSeq DEF ToSet
  <2>5. Dirs(k)
    BY <2>2, <2>3, <2>4 DEF Dirs, Path
  <2>6. \A p \in Paths: MadeSince(p, lo)' => Owned(p)'
    BY <1>1, <1>2, SameMade, NothingDue
  <2>7. k.request.part[2] = 1
    BY <1>1, <1>2, <2>2 DEF WritesOne, JobSends, GoesWell, Placing
  <2>8. GoesWell(k, lo, open)'
    BY <2>2, <2>5, <2>6, <2>7 DEF GoesWell, Dirs, OnTheWay, Leaf
  <2> QED BY <1>3, <2>2, <2>8, GoesOnWell
<1> QED BY <1>4, <1>5, FindParentsDoes

LEMMA MakeParentSends ==
  ASSUME FilesOK, JobsOK, NEW a \in Agents, NEW lo, WritesOne(a, lo), MakeParent(a)
  PROVE  SendsOn(a, lo)
<1>1. /\ Busy(a) /\ IsJob(job[a]) /\ job[a].step = "mkdir" /\ Path(a) \in Paths /\ job[a].request.id \in Nat
      /\ job[a].todo # <<>> /\ job[a].todo \in Seq(Paths)
  BY AtMaking DEF MakeParent, Making
<1>2. job[a].failure = "none" /\ UNCHANGED sudo
  BY <1>1, JobFacts DEF MakeParent
<1>3. PICK j, k, open: j = job[a] /\ k = job'[a] /\ open = writing'[a]
  OBVIOUS
<1>4. GoesWell(j, lo, writing[a])
  BY <1>2, <1>3 DEF WritesOne, JobSends
<1>5. /\ \A i \in DOMAIN j.todo: OnTheWay(j.todo[i], j.request.path)
      /\ \A p \in ToSet(j.made): OnTheWay(p, j.request.path)
      /\ j.request.part[2] = 1
  BY <1>1, <1>3, <1>4 DEF GoesWell, Dirs, Placing
<1>6. PICK dir: dir = Head(j.todo)
  OBVIOUS
<1>7. IsSeq(j.todo) /\ IsSeq(j.made) /\ dir \in Paths /\ OnTheWay(dir, j.request.path)
  <2>1. IsSeq(j.todo) /\ IsSeq(j.made) /\ 1 \in DOMAIN j.todo /\ dir = j.todo[1]
    BY <1>1, <1>3, <1>6, TailFacts, JobFacts
  <2> QED BY <1>1, <1>3, <1>5, <2>1, AnySeq
<1>8. PICK rest: rest = Tail(j.todo)
  OBVIOUS
<1>9. \A i \in DOMAIN rest: OnTheWay(rest[i], j.request.path)
  BY <1>1, <1>3, <1>5, <1>7, <1>8, TailFacts
\* A directory that was made.
<1>10. CASE /\ Place(dir, "dir", j.request.id, Maker)
            /\ Becomes(a, j.step, j.seen, rest, Append(j.made, dir), j.id, j.failure, j.left, j.wrote)
  <2>1. PICK made: /\ made = Append(j.made, dir)
                   /\ Becomes(a, j.step, j.seen, rest, made, j.id, j.failure, j.left, j.wrote)
    BY <1>10
  <2>2. /\ k.step = "mkdir" /\ k.failure = "none" /\ k.request = j.request /\ k.todo = rest /\ k.made = made
    <3>1. PICK step, seen, id, failure, left, wrote:
            /\ step = j.step /\ failure = j.failure
            /\ Becomes(a, step, seen, rest, made, id, failure, left, wrote)
      BY <2>1
    <3>2. /\ job'[a].step = step /\ job'[a].todo = rest /\ job'[a].made = made /\ job'[a].failure = failure
          /\ job'[a].request = job[a].request
      BY <3>1, BecomesFields
    <3> QED BY <1>1, <1>2, <1>3, <3>1, <3>2
  <2>3. IsSeq(made) /\ ToSet(j.made) \subseteq ToSet(made) /\ dir \in ToSet(made)
    BY <1>7, <2>1, ToSetOfAppend, AppendFacts
  <2>4. ASSUME NEW p \in ToSet(made) PROVE OnTheWay(p, j.request.path)
    <3>1. PICK i \in DOMAIN made: made[i] = p
      BY <2>3, InToSet
    <3>2. p = dir \/ \E i1 \in DOMAIN j.made: p = j.made[i1]
      BY <1>7, <2>1, <3>1, AppendFacts, SeqFacts
    <3> QED BY <1>5, <1>7, <3>2 DEF ToSet
  <2>5. Dirs(k)
    BY <1>9, <2>2, <2>4 DEF Dirs
  <2>6. PICK owner: owner = Maker /\ Place(dir, "dir", j.request.id, owner)
    BY <1>10
  <2>7. /\ \A q \in Paths \ {dir}: MadeSince(q, lo)' => MadeSince(q, lo) /\ (Owned(q) => Owned(q)')
        /\ owner = "user" => Owned(dir)'
    BY <1>1, <1>3, <1>7, <2>6, PlacedMade
  <2>8. ASSUME NEW p \in Paths, MadeSince(p, lo)' PROVE Owned(p)' \/ Due(k, p)'
    <3>1. CASE p = dir
      BY <1>2, <2>2, <2>3, <2>6, <2>7, <3>1 DEF Maker, Due
    <3>2. CASE p # dir
      <4>1. (Owned(p) \/ Due(j, p)) /\ (Owned(p) => Owned(p)')
        BY <1>4, <2>7, <2>8, <3>2 DEF GoesWell
      <4>2. Due(j, p) => Due(k, p)'
        BY <1>1, <1>2, <1>3, <2>2, <2>3 DEF Due
      <4> QED BY <4>1, <4>2
    <3> QED BY <3>1, <3>2
  <2>9. GoesWell(k, lo, open)'
    BY <1>5, <2>2, <2>5, <2>8 DEF GoesWell, Dirs, OnTheWay, Leaf
  <2> QED BY <1>3, <2>2, <2>9, GoesOnWell
\* One that was there.
<1>11. CASE /\ UNCHANGED <<names, nodes>>
            /\ Becomes(a, j.step, j.seen, rest, j.made, j.id, j.failure, j.left, j.wrote)
  <2>1. /\ k.step = "mkdir" /\ k.failure = "none" /\ k.request = j.request /\ k.todo = rest /\ k.made = j.made
    BY <1>1, <1>2, <1>3, <1>11, BecomesFields
  <2>2. Dirs(k)
    BY <1>5, <1>9, <2>1 DEF Dirs
  <2>3. ASSUME NEW p \in Paths, MadeSince(p, lo)' PROVE Owned(p)' \/ Due(k, p)'
    <3>1. (Owned(p) \/ Due(j, p)) /\ (Owned(p) => Owned(p)')
      BY <1>4, <1>11, <2>3, SameMade DEF GoesWell
    <3>2. Due(j, p) => Due(k, p)'
      BY <1>1, <1>2, <1>3, <2>1 DEF Due
    <3> QED BY <3>1, <3>2
  <2>4. GoesWell(k, lo, open)'
    BY <1>5, <2>1, <2>2, <2>3 DEF GoesWell, Dirs, OnTheWay, Leaf
  <2> QED BY <1>3, <2>1, <2>4, GoesOnWell
<1>12. CASE \E f \in {"notDirectory", "io"}: GoesTo(a, "undo", f)
  BY <1>12, GoesFails
<1> QED BY <1>3, <1>6, <1>8, <1>10, <1>11, <1>12, MakeParentDoes

LEMMA ParentsMadeSends ==
  ASSUME FilesOK, JobsOK, NEW a \in Agents, NEW lo, WritesOne(a, lo), ParentsMade(a)
  PROVE  SendsOn(a, lo)
<1>1. /\ IsJob(job[a]) /\ job[a].step = "mkdir"
  BY AtMaking DEF ParentsMade, Making
<1>2. job[a].failure = "none" /\ UNCHANGED <<sudo, names, nodes>>
  BY <1>1, JobFacts DEF ParentsMade, filesVars
<1>3. PICK j, k, open: j = job[a] /\ k = job'[a] /\ open = writing'[a]
  OBVIOUS
<1>4. GoesWell(j, lo, writing[a])
  BY <1>2, <1>3 DEF WritesOne, JobSends
<1>5. CASE GoesTo(a, "undo", "notDirectory")
  BY <1>5, GoesFails
<1>6. CASE GoesTo(a, "create", job[a].failure)
  <2>1. k.step = "create" /\ k.failure = "none" /\ k.request = j.request /\ k.made = j.made
    BY <1>2, <1>3, <1>6, BecomesFields DEF GoesTo
  <2>2. ASSUME NEW p \in Paths, MadeSince(p, lo)' PROVE Owned(p)' \/ Due(k, p)'
    <3>1. (Owned(p) \/ Due(j, p)) /\ (Owned(p) => Owned(p)')
      BY <1>2, <1>4, <2>2, SameMade DEF GoesWell
    <3>2. Due(j, p) => Due(k, p)'
      BY <1>1, <1>2, <1>3, <2>1 DEF Due
    <3> QED BY <3>1, <3>2
  <2>3. Dirs(k) /\ k.request.part[2] = 1
    BY <1>1, <1>3, <1>4, <2>1 DEF GoesWell, Dirs, Placing
  <2>4. GoesWell(k, lo, open)'
    BY <2>1, <2>2, <2>3 DEF GoesWell, Dirs, OnTheWay, Leaf
  <2> QED BY <1>3, <2>1, <2>4, GoesOnWell
<1> QED BY <1>5, <1>6, ParentsMadeDoes

----------------------------------------------------------------------------
\* The file is new and empty; the agent of root gives it to the user last.
LEMMA CreateSends ==
  ASSUME FilesOK, JobsOK, NEW a \in Agents, NEW lo, WritesOne(a, lo), Create(a)
  PROVE  SendsOn(a, lo)
<1>1. /\ Busy(a) /\ IsJob(job[a]) /\ job[a].step = "create" /\ Path(a) \in Paths /\ job[a].request.id \in Nat
      /\ job[a].request.kind = "write"
  BY AtMaking DEF Create, Making, WritesOne
<1>2. job[a].failure = "none" /\ UNCHANGED sudo /\ IsSeq(job[a].made)
  BY <1>1, JobFacts DEF Create
<1>3. PICK j, k, open, path: j = job[a] /\ k = job'[a] /\ open = writing'[a] /\ path = Path(a)
  OBVIOUS
<1>4. GoesWell(j, lo, writing[a]) /\ j.request.path = path
  BY <1>2, <1>3 DEF WritesOne, JobSends, Path
<1>5. (\A p \in ToSet(j.made): OnTheWay(p, path)) /\ j.request.part[2] = 1
  BY <1>1, <1>3, <1>4 DEF GoesWell, Dirs, Placing
<1>6. CASE GoesTo(a, "undo", "io")
  BY <1>6, GoesFails
<1>7. CASE /\ Place(path, Made(a), j.request.id, Maker)
           /\ Becomes(a, AfterMade(a), j.seen, Append(j.made, path), j.made,
                      Len(nodes) + 1, j.failure, j.left, j.wrote)
  <2>1. PICK step, todo, id: /\ step = AfterMade(a) /\ id = Len(nodes) + 1 /\ todo = Append(j.made, path)
                             /\ Becomes(a, step, j.seen, todo, j.made, id, j.failure, j.left, j.wrote)
    BY <1>7
  <2>2. step = IF sudo THEN "own" ELSE "write"
    BY <1>1, <2>1 DEF AfterMade
  <2>3. /\ k.step = step /\ k.failure = "none" /\ k.request = j.request /\ k.todo = todo /\ k.id = id
    <3>1. /\ job'[a].step = step /\ job'[a].todo = todo /\ job'[a].id = id /\ job'[a].failure = j.failure
          /\ job'[a].request = job[a].request
      <4>1. PICK seen, failure, made, left, wrote:
              failure = j.failure /\ Becomes(a, step, seen, todo, made, id, failure, left, wrote)
        BY <2>1
      <4>2. /\ job'[a].step = step /\ job'[a].todo = todo /\ job'[a].failure = failure
            /\ job'[a].request = job[a].request
        BY <4>1, BecomesFields
      <4>3. job'[a].id = id
        BY <4>1, BecomesKeeps
      <4> QED BY <4>1, <4>2, <4>3
    <3> QED BY <1>2, <1>3, <3>1
  <2>4. /\ IsSeq(todo) /\ Len(todo) = Len(j.made) + 1 /\ todo[Len(j.made) + 1] = path
        /\ DOMAIN todo = 1 .. Len(j.made) + 1 /\ \A i \in DOMAIN j.made: todo[i] = j.made[i]
        /\ ToSet(j.made) \subseteq ToSet(todo) /\ DOMAIN j.made = 1 .. Len(j.made) /\ Len(j.made) \in Nat
    <3>1. IsSeq(j.made)
      BY <1>2, <1>3
    <3>2. /\ IsSeq(todo) /\ Len(todo) = Len(j.made) + 1 /\ todo[Len(j.made) + 1] = path
          /\ DOMAIN todo = 1 .. Len(j.made) + 1 /\ \A i \in DOMAIN j.made: todo[i] = j.made[i]
      BY <2>1, <3>1, AppendFacts
    <3>3. ToSet(j.made) \subseteq ToSet(todo)
      BY <2>1, <3>1, ToSetOfAppend
    <3> QED BY <3>1, <3>2, <3>3, SeqFacts
  <2>5. Dirs(k)
    <3>1. ASSUME NEW i \in DOMAIN todo, todo[i] # path PROVE ~Leaf(todo[i])
      <4>1. i \in DOMAIN j.made /\ todo[i] = j.made[i]
        BY <2>4, <3>1
      <4> QED BY <1>5, <4>1 DEF ToSet, OnTheWay
    <3> QED BY <1>4, <2>2, <2>3, <2>4, <3>1 DEF Dirs
  <2>6. PICK kind, owner: kind = Made(a) /\ owner = Maker /\ Place(path, kind, j.request.id, owner)
    BY <1>7
  <2>7. /\ \A q \in Paths \ {path}: MadeSince(q, lo)' => MadeSince(q, lo) /\ (Owned(q) => Owned(q)')
        /\ names'[path] = id /\ id \in DOMAIN nodes' /\ nodes'[id].parts = <<>>
        /\ owner = "user" => Owned(path)'
    <3>1. path \in Paths /\ j.request.id \in Nat
      BY <1>1, <1>3
    <3>2. /\ \A q \in Paths \ {path}: MadeSince(q, lo)' => MadeSince(q, lo) /\ (Owned(q) => Owned(q)')
          /\ names'[path] = Len(nodes) + 1 /\ Len(nodes) + 1 \in DOMAIN nodes'
          /\ nodes'[Len(nodes) + 1].parts = <<>>
          /\ owner = "user" => Owned(path)'
      BY <2>6, <3>1, PlacedMade
    <3> QED BY <2>1, <3>2
  <2>8. ASSUME NEW p \in Paths, MadeSince(p, lo)' PROVE Owned(p)' \/ Due(k, p)'
    <3>1. CASE p = path
      BY <1>2, <2>2, <2>3, <2>6, <2>7, <3>1 DEF Maker, Due
    <3>2. CASE p # path
      <4>1. (Owned(p) \/ Due(j, p)) /\ (Owned(p) => Owned(p)')
        BY <1>4, <2>7, <2>8, <3>2 DEF GoesWell
      <4>2. Due(j, p) => Due(k, p)'
        BY <1>1, <1>2, <1>3, <1>4, <2>2, <2>3, <2>4, <3>2 DEF Due
      <4> QED BY <4>1, <4>2
    <3> QED BY <3>1, <3>2
  <2>9. HasParts(k.id, k.request.part[1], k.request.part[2] - 1)'
    <3>1. PICK m, name, z: m = k.id /\ name = k.request.part[1] /\ z = k.request.part[2] - 1
      OBVIOUS
    <3>2. z = 0 /\ m = id
      BY <1>5, <2>3, <3>1
    <3>3. HasParts(m, name, z)'
      BY <2>7, <3>2, NoParts DEF HasParts
    <3> QED BY <3>1, <3>3
  <2>10. GoesWell(k, lo, open)'
    BY <2>2, <2>3, <2>5, <2>8, <2>9 DEF GoesWell, Dirs, Leaf, Placing
  <2> QED BY <1>3, <2>2, <2>3, <2>10, GoesOnWell
<1> QED BY <1>3, <1>6, <1>7, CreateDoes

\* What is given becomes the user's, and the rest is still to be given.
LEMMA OwnSends ==
  ASSUME FilesOK, JobsOK, NEW a \in Agents, NEW lo, WritesOne(a, lo), Own(a)
  PROVE  SendsOn(a, lo)
<1>1. /\ Busy(a) /\ IsJob(job[a]) /\ job[a].step = "own" /\ Path(a) \in Paths
      /\ job[a].request.kind = "write" /\ job[a].todo \in Seq(Paths)
  BY AtMaking DEF Own, Making, WritesOne
<1>2. /\ job[a].failure = "none" /\ UNCHANGED <<sudo, names>> /\ IsSeq(job[a].todo) /\ job[a].todo # <<>>
      /\ job[a].id # 0 /\ job[a].id \in 0 .. Len(nodes)
  BY <1>1, JobFacts DEF Own
<1>3. PICK j, k, open, path: j = job[a] /\ k = job'[a] /\ open = writing'[a] /\ path = Path(a)
  OBVIOUS
<1>4. GoesWell(j, lo, writing[a]) /\ j.request.path = path
  BY <1>2, <1>3 DEF WritesOne, JobSends, Path
<1>5. /\ \A i \in DOMAIN j.todo: j.todo[i] # path => ~Leaf(j.todo[i])
      /\ j.todo[Len(j.todo)] = path
      /\ HasParts(j.id, j.request.part[1], j.request.part[2] - 1)
  BY <1>1, <1>3, <1>4 DEF GoesWell, Dirs
<1>6. CASE GoesTo(a, "unmake", "io")
  BY <1>6, GoesFails
<1>7. CASE /\ Given(a) # 0 /\ nodes' = [nodes EXCEPT ![Given(a)].owner = "user"]
           /\ Becomes(a, AfterGiven(a), job[a].seen, Tail(job[a].todo), job[a].made, job[a].id,
                      job[a].failure, job[a].left, job[a].wrote)
  <2>1. PICK n, step, rest:
          /\ n = Given(a) /\ step = AfterGiven(a) /\ rest = Tail(j.todo)
          /\ n # 0 /\ nodes' = [nodes EXCEPT ![n].owner = "user"]
          /\ Becomes(a, step, j.seen, rest, j.made, j.id, j.failure, j.left, j.wrote)
    BY <1>3, <1>7
  <2>2. /\ step = IF Len(j.todo) = 1 THEN "write" ELSE "own"
        /\ n = IF Len(j.todo) = 1 THEN j.id ELSE names[Head(j.todo)]
    BY <1>1, <1>3, <2>1 DEF AfterGiven, Given, IsLast
  <2>3. /\ k.step = step /\ k.failure = "none" /\ k.request = j.request /\ k.todo = rest /\ k.id = j.id
    <3>1. /\ job'[a].step = step /\ job'[a].todo = rest /\ job'[a].id = j.id /\ job'[a].failure = j.failure
          /\ job'[a].request = job[a].request
      BY <2>1, BecomesFields, BecomesKeeps
    <3> QED BY <1>2, <1>3, <3>1
  <2>4. /\ Len(j.todo) \in Nat \ {0} /\ Head(j.todo) = j.todo[1] /\ 1 \in DOMAIN j.todo /\ Len(j.todo) \in DOMAIN j.todo
        /\ IsSeq(rest) /\ Len(rest) = Len(j.todo) - 1 /\ DOMAIN rest = 1 .. Len(j.todo) - 1
        /\ \A i \in DOMAIN rest: rest[i] = j.todo[i + 1] /\ i + 1 \in DOMAIN j.todo
        /\ DOMAIN j.todo = 1 .. Len(j.todo)
    BY <1>2, <1>3, <2>1, TailFacts, SeqFacts
  <2>5. n \in DOMAIN nodes
    <3>1. Len(nodes) \in Nat /\ DOMAIN nodes = 1 .. Len(nodes)
      BY SeqFacts DEF FilesOK
    <3>2. Head(j.todo) \in Paths
      BY <1>1, <1>3, <2>4, AnySeq
    <3>3. names[Head(j.todo)] \in 0 .. Len(nodes)
      BY <3>2 DEF FilesOK
    <3> QED BY <1>2, <1>3, <2>1, <2>2, <3>1, <3>3
  <2>6. /\ DOMAIN nodes' = DOMAIN nodes
        /\ \A i \in DOMAIN nodes: /\ nodes'[i].by = nodes[i].by /\ nodes'[i].parts = nodes[i].parts
                                  /\ nodes'[i].owner = IF i = n THEN "user" ELSE nodes[i].owner
    BY <2>1, <2>5, OwnerChange
  <2>7. ASSUME NEW p \in Paths, MadeSince(p, lo)' PROVE Owned(p)' \/ Due(k, p)'
    <3>1. names[p] \in DOMAIN nodes /\ names'[p] = names[p]
      BY <1>2, <2>7, NodeOfName DEF MadeSince
    <3>2. MadeSince(p, lo)
      BY <2>6, <2>7, <3>1 DEF MadeSince
    <3>3. Owned(p) \/ Due(j, p)
      BY <1>4, <3>2 DEF GoesWell
    <3>4. Owned(p) => Owned(p)'
      BY <2>6, <3>1 DEF Owned
    <3>5. names[p] = n => Owned(p)'
      BY <2>6, <3>1 DEF Owned
    <3>6. CASE Due(j, p) /\ names[p] = j.id
      <4>1. CASE Len(j.todo) = 1
        BY <2>2, <3>5, <3>6, <4>1
      <4>2. CASE Len(j.todo) # 1
        BY <1>2, <2>2, <2>3, <3>1, <3>6, <4>2 DEF Due
      <4> QED BY <4>1, <4>2
    <3>7. CASE Due(j, p) /\ p # path /\ p \in ToSet(j.todo)
      <4>1. PICK i \in DOMAIN j.todo: j.todo[i] = p
        BY <1>2, <1>3, <3>7, InToSet
      <4>2. Len(j.todo) # 1
        <5>1. PICK len \in Nat: len = Len(j.todo) /\ DOMAIN j.todo = 1 .. len
          BY <2>4
        <5>2. i # len /\ i \in 1 .. len
          BY <1>5, <3>7, <4>1, <5>1
        <5>3. len # 1
          <6>1. PICK at: at = i /\ at \in 1 .. len /\ at # len
            BY <5>2
          <6> QED BY <6>1
        <5> QED BY <5>1, <5>3
      <4>3. CASE i = 1
        BY <2>2, <2>4, <3>5, <4>1, <4>2, <4>3
      <4>4. CASE i # 1
        <5>1. i - 1 \in DOMAIN rest /\ rest[i - 1] = p
          BY <2>4, <4>1, <4>4
        <5>2. p \in ToSet(rest)
          BY <5>1 DEF ToSet
        <5> QED BY <1>2, <1>4, <2>2, <2>3, <3>7, <4>2, <5>2 DEF Due
      <4> QED BY <4>3, <4>4
    <3> QED BY <1>1, <1>3, <1>4, <3>3, <3>4, <3>6, <3>7 DEF Due
  <2>8. Dirs(k)
    <3>1. ASSUME NEW i \in DOMAIN rest, rest[i] # path PROVE ~Leaf(rest[i])
      BY <1>5, <2>4, <3>1
    <3>2. ASSUME step = "own" PROVE rest[Len(rest)] = path
      <4>1. Len(j.todo) # 1
        BY <2>2, <3>2
      <4>2. Len(rest) \in DOMAIN rest /\ Len(rest) + 1 = Len(j.todo)
        <5>1. PICK len \in Nat \ {0}: len = Len(j.todo)
          BY <2>4
        <5>2. PICK m: m = Len(rest)
          OBVIOUS
        <5>3. DOMAIN rest = 1 .. len - 1 /\ m = len - 1 /\ len # 1
          BY <2>4, <4>1, <5>1, <5>2
        <5>4. m \in 1 .. len - 1 /\ m + 1 = len
          BY <5>3
        <5> QED BY <5>1, <5>2, <5>3, <5>4
      <4> QED BY <1>5, <2>4, <4>2
    <3> QED BY <1>4, <2>2, <2>3, <3>1, <3>2 DEF Dirs
  <2>9. HasParts(k.id, k.request.part[1], k.request.part[2] - 1)'
    <3>1. PICK m, name, z: m = j.id /\ name = j.request.part[1] /\ z = j.request.part[2] - 1
      OBVIOUS
    <3>2. HasParts(m, name, z)'
      BY <1>5, <2>6, <3>1 DEF HasParts
    <3> QED BY <2>3, <3>1, <3>2
  <2>10. GoesWell(k, lo, open)'
    BY <2>2, <2>3, <2>7, <2>8, <2>9 DEF GoesWell, Dirs, Leaf, Placing
  <2> QED BY <1>3, <2>2, <2>3, <2>10, GoesOnWell
<1> QED BY <1>6, <1>7, OwnDoes

\* What is undone has failed, and stays failed.
LEMMA UndoesSend ==
  ASSUME JobsOK, NEW a \in Agents, NEW lo, WritesOne(a, lo), Unmake(a) \/ UnlinkMade(a) \/ Undo(a) \/ Undone(a)
  PROVE  SendsOn(a, lo)
<1>1. job[a].step \in {"unmake", "unlinkMade", "undo"}
  BY DEF Unmake, UnlinkMade, Undo, Undone, At
<1>2. job[a].failure \notin {"none", "done"}
  BY <1>1 DEF WritesOne, JobSends
<1> QED BY <1>2, UnmakeDoes, UnlinkMadeDoes, UndoDoes, UndoneDoes, FailsSend, GoesFails

----------------------------------------------------------------------------
\* A part that was written follows the parts before it.
LEMMA WritePartSends ==
  ASSUME FilesOK, JobsOK, NEW a \in Agents, NEW lo, WritesOne(a, lo), WritePart(a),
         NEW name, NEW n \in Nat \ {0}, job[a].request.part = <<name, n>>
  PROVE  SendsOn(a, lo)
<1>1. /\ Busy(a) /\ IsJob(job[a]) /\ job[a].step = "write" /\ Path(a) \in Paths
      /\ job[a].failure = "none" /\ job[a].id # 0
  BY AtOther, JobFacts DEF WritePart
<1>2. UNCHANGED names
  BY DEF WritePart
<1>3. PICK j, k, open, path: j = job[a] /\ k = job'[a] /\ open = writing'[a] /\ path = Path(a)
  OBVIOUS
<1>4. GoesWell(j, lo, writing[a]) /\ j.request.path = path
  BY <1>1, <1>3 DEF WritesOne, JobSends, Path
<1>5. HasParts(j.id, name, n - 1)
  <2>1. PICK x, z: x = j.request.part[1] /\ z = j.request.part[2] /\ HasParts(j.id, x, z - 1)
    BY <1>1, <1>3, <1>4 DEF GoesWell
  <2> QED BY <1>3, <2>1
<1>6. CASE Becomes(a, "answer", job[a].seen, job[a].todo, job[a].made, job[a].id, "io", job[a].left, TRUE)
  <2>1. PICK yes: Becomes(a, "answer", job[a].seen, job[a].todo, job[a].made, job[a].id, "io", job[a].left, yes)
    BY <1>6
  <2> QED BY <2>1, FailsSend
<1>7. CASE /\ nodes' = Written(a)
           /\ writing' = [writing EXCEPT ![a][Path(a)] = IF job[a].request.more THEN job[a].id ELSE 0]
           /\ Becomes(a, "answer", job[a].seen, job[a].todo, job[a].made, job[a].id, job[a].failure,
                      job[a].left, TRUE)
  <2>1. PICK id, parts, new:
          /\ id = j.id /\ parts = Append(nodes[id].parts, <<name, n>>)
          /\ nodes' = [nodes EXCEPT ![id].parts = parts]
          /\ new = (IF j.request.more THEN id ELSE 0) /\ writing' = [writing EXCEPT ![a][path] = new]
    <3>1. PICK id, parts, new: /\ id = j.id /\ parts = Append(nodes[id].parts, <<name, n>>)
                               /\ new = (IF j.request.more THEN id ELSE 0)
      OBVIOUS
    <3>2. nodes' = [nodes EXCEPT ![id].parts = parts]
      BY <1>3, <1>7, <3>1 DEF Written
    <3>3. writing' = [writing EXCEPT ![a][path] = new]
      BY <1>3, <1>7, <3>1
    <3> QED BY <3>1, <3>2, <3>3
  <2>2. PICK seen, todo, made, left, yes, failure:
          failure = j.failure /\ Becomes(a, "answer", seen, todo, made, id, failure, left, yes)
    BY <1>3, <1>7, <2>1
  <2>3. k.step = "answer" /\ k.failure = "none" /\ k.request = j.request /\ k.id = id
    BY <1>1, <1>3, <2>2, BecomesFields, BecomesKeeps
  <2>4. id \in DOMAIN nodes /\ nodes[id].parts = PartsTo(name, n - 1)
    BY <1>5, <2>1 DEF HasParts
  <2>5. parts = PartsTo(name, n)
    <3>1. PICK z: z = n - 1 /\ z \in Nat /\ z + 1 = n
      OBVIOUS
    <3> QED BY <2>1, <2>4, <3>1, PartsGrow
  <2>6. IsSeq(parts)
    <3>1. IsSeq(nodes[id].parts)
      BY <2>4 DEF FilesOK, IsNode
    <3> QED BY <2>1, <3>1, AppendFacts
  <2>7. /\ DOMAIN nodes' = DOMAIN nodes
        /\ \A i \in DOMAIN nodes: /\ nodes'[i].by = nodes[i].by /\ nodes'[i].owner = nodes[i].owner
                                  /\ nodes'[i].parts = IF i = id THEN parts ELSE nodes[i].parts
    BY <2>1, <2>4, <2>6, PartsChange
  <2>8. ASSUME NEW p \in Paths, MadeSince(p, lo)' PROVE Owned(p)'
    <3>1. names[p] \in DOMAIN nodes /\ names'[p] = names[p]
      BY <1>2, <2>8, NodeOfName DEF MadeSince
    <3>2. MadeSince(p, lo)
      BY <2>7, <2>8, <3>1 DEF MadeSince
    <3>3. Owned(p)
      BY <1>1, <3>2, NothingDue
    <3> QED BY <2>7, <3>1, <3>3 DEF Owned
  <2>9. HasParts(k.id, k.request.part[1], k.request.part[2])'
    <3>1. HasParts(id, name, n)'
      BY <2>4, <2>5, <2>7 DEF HasParts
    <3>2. PICK x, z: x = k.request.part[1] /\ z = k.request.part[2]
      OBVIOUS
    <3>3. x = name /\ z = n
      BY <1>3, <2>3, <3>2
    <3>4. HasParts(id, x, z)'
      BY <3>1, <3>3
    <3> QED BY <2>3, <3>2, <3>4
  <2>10. k.request.more => open[k.request.path] = k.id
    BY <1>1, <1>3, <1>4, <2>1, <2>3 DEF FilesOK
  <2>11. GoesWell(k, lo, open)'
    BY <2>3, <2>8, <2>9, <2>10 DEF GoesWell, Dirs, Placing
  <2> QED BY <1>3, <2>3, <2>11, GoesOnWell
<1> QED BY <1>6, <1>7, WritePartDoes

\* So does every step of the job.
LEMMA StepSends ==
  ASSUME FilesOK, JobsOK, NEW a \in Agents, NEW lo, WritesOne(a, lo), FilesStep(a),
         NEW name, NEW n \in Nat \ {0}, job[a].request.part = <<name, n>>
  PROVE  SendsOn(a, lo)
<1>1. ~(LookToRemove(a) \/ Unlink(a) \/ Chmod(a))
  BY AtOther DEF LookToRemove, Unlink, Chmod, WritesOne
<1> QED BY <1>1, LooksSend, OpenExistingSends, FindParentsSends, MakeParentSends, ParentsMadeSends,
           CreateSends, OwnSends, UndoesSend, WritePartSends DEF FilesStep

----------------------------------------------------------------------------
\* What makes the parts of the invariant, when the client does nothing.
LEMMA WaitsIf ==
  ASSUME UNCHANGED clientVars, NEW op, NEW part, NEW lo, NEW m, NEW id,
         op = Op, part = client.part, lo = Lo, m = Mine, id = client.id,
         Sending => part <= id,
         (Sending /\ inbox'[m] # <<>>) => \A open: open = writing'[m] => Ready(op, part, lo, open)',
         (Sending /\ job'[m] # Idle) => SendsOn(m, lo),
         (Sending /\ outbox'[m] # <<>>) =>
           \A frame, came, open:
             (frame = Head(outbox'[m]) /\ came = did'[id] /\ open = writing'[m]) =>
               AnswerSends(frame, came, op, part, lo, open)'
  PROVE  Waits'
<1> SUFFICES ASSUME Sending' PROVE WaitsWell'
  BY DEF Waits
<1>1. /\ Sending /\ Op' = op /\ client'.part = part /\ Lo' = lo /\ Mine' = m /\ client'.id = id
  BY DEF clientVars, Sending, Op, Lo, Mine
<1>2. PICK j, open, frame, came: j = job'[m] /\ open = writing'[m] /\ frame = Head(outbox'[m]) /\ came = did'[id]
  OBVIOUS
<1>3. inbox'[m] # <<>> => Ready(op, part, lo, open)'
  BY <1>1, <1>2
<1>4. job'[m] # Idle => JobSends(j, lo, open)'
  BY <1>1, <1>2 DEF SendsOn
<1>5. outbox'[m] # <<>> => AnswerSends(frame, came, op, part, lo, open)'
  BY <1>1, <1>2
<1>6. Ready(op, part, lo, open)' => (Ready(Op, client.part, Lo, writing[Mine]))'
  BY <1>1, <1>2
<1>7. JobSends(j, lo, open)' => (JobSends(job[Mine], Lo, writing[Mine]))'
  BY <1>1, <1>2
<1>8. AnswerSends(frame, came, op, part, lo, open)' =>
        (AnswerSends(Head(outbox[Mine]), did[client.id], Op, client.part, Lo, writing[Mine]))'
  BY <1>1, <1>2
<1> QED BY <1>1, <1>3, <1>4, <1>5, <1>6, <1>7, <1>8 DEF WaitsWell, Busy

----------------------------------------------------------------------------
LEMMA SameIsUndisturbed ==
  ASSUME FilesOK, UNCHANGED <<names, nodes>>
  PROVE  Undisturbed
BY DEF Undisturbed

LEMMA HasWrittenKept ==
  ASSUME FilesOK, Undisturbed, UNCHANGED clientVars, HasWritten, LastIsWrite => did'[client.id] = did[client.id]
  PROVE  HasWritten'
<1> SUFFICES ASSUME LastIsWrite' PROVE client'.step = "next" /\ (Wrote(Last(results), did[client.id], client.id))'
  BY DEF HasWritten
<1>1. PICK r, came, id: r = Last(results) /\ came = did[client.id] /\ id = client.id
  OBVIOUS
<1>2. LastIsWrite /\ client'.step = client.step /\ Last(results') = r /\ client'.id = id
  BY <1>1 DEF clientVars, LastIsWrite
<1>3. client.step = "next" /\ Wrote(r, came, id)
  BY <1>1, <1>2 DEF HasWritten
<1>4. Wrote(r, came, id)'
  BY <1>3, WroteStays
<1>5. did'[id] = came
  BY <1>1, <1>2
<1> QED BY <1>2, <1>3, <1>4, <1>5

\* Where no write has a result, none has one after a step that adds none.
LEMMA NoneHasWritten ==
  ASSUME HasWritten, client.step # "next", UNCHANGED results, client'.id = client.id
  PROVE  HasWritten'
BY DEF HasWritten, LastIsWrite

LEMMA BetweenKept ==
  ASSUME FilesOK, ClientOK, Undisturbed, UNCHANGED clientVars, Between,
         (client.step = "next" /\ program # <<>>) => writing'[Mine] = writing[Mine]
  PROVE  Between'
<1> SUFFICES ASSUME client'.step = "next", program' # <<>>, Op'.kind = "write", client'.part > 1
             PROVE  client'.part - 1 <= client'.id
                    /\ (Ready(Op, client.part, client.id - (client.part - 1), writing[Mine]))'
  BY DEF Between
<1>1. PICK op, part, lo, open: op = Op /\ part = client.part /\ lo = client.id - (client.part - 1) /\ open = writing[Mine]
  OBVIOUS
<1>2. /\ client.step = "next" /\ program # <<>> /\ Op.kind = "write" /\ client.part > 1
      /\ Op' = op /\ client'.part = part /\ client'.id = client.id /\ Mine' = Mine
  BY <1>1 DEF clientVars, Op, Mine
<1>3. client.part - 1 <= client.id /\ Ready(op, part, lo, open)
  BY <1>1, <1>2 DEF Between
<1>4. lo \in Nat
  BY <1>1, <1>3, SeqFacts DEF ClientOK
<1>5. Ready(op, part, lo, open)'
  BY <1>3, <1>4, ReadyStays
<1>6. writing'[Mine'] = open /\ client'.id - (client'.part - 1) = lo
  BY <1>1, <1>2
<1>7. (Ready(Op, client.part, client.id - (client.part - 1), writing[Mine]))'
  BY <1>2, <1>5, <1>6
<1>8. client'.part - 1 <= client'.id
  BY <1>1, <1>2, <1>3
<1> QED BY <1>7, <1>8

\* What is on its way, or in hand, stays or is dropped.
WaitsOn(m) ==
  /\ writing'[m] = writing[m] /\ did'[client.id] = did[client.id]
  /\ inbox'[m] \in {inbox[m], <<>>} /\ job'[m] \in {job[m], Idle} /\ outbox'[m] \in {outbox[m], <<>>}

LEMMA WaitsKept ==
  ASSUME FilesOK, ClientOK, JobsOK, Undisturbed, UNCHANGED <<sudo, clientVars>>, Waits, Sending => WaitsOn(Mine)
  PROVE  Waits'
<1>1. PICK op, part, lo, m, id: op = Op /\ part = client.part /\ lo = Lo /\ m = Mine /\ id = client.id
  OBVIOUS
<1>2. ASSUME Sending PROVE WaitsWell /\ WaitsOn(m) /\ part <= id /\ lo \in Nat /\ m \in Agents
  BY <1>1, <1>2, SeqFacts DEF Waits, WaitsWell, ClientOK, Lo, Mine
<1>3. ASSUME Sending, inbox'[m] # <<>>, NEW open, open = writing'[m] PROVE Ready(op, part, lo, open)'
  BY <1>1, <1>2, <1>3, ReadyStays DEF WaitsWell, WaitsOn
<1>4. ASSUME Sending, job'[m] # Idle PROVE SendsOn(m, lo)
  <2>1. PICK j, open: j = job[m] /\ open = writing[m]
    OBVIOUS
  <2>2. JobSends(j, lo, open) /\ IsJob(j) /\ job'[m] = j /\ writing'[m] = open
    BY <1>1, <1>2, <1>4, <2>1 DEF WaitsWell, WaitsOn, Busy, JobsOK
  <2>3. JobSends(j, lo, open)'
    BY <1>2, <1>4, <2>2, JobSendsStays
  <2> QED BY <2>2, <2>3 DEF SendsOn
<1>5. ASSUME Sending, outbox'[m] # <<>>, NEW frame, NEW came, NEW open,
             frame = Head(outbox'[m]), came = did'[id], open = writing'[m]
      PROVE  AnswerSends(frame, came, op, part, lo, open)'
  <2>1. frame = Head(outbox[m]) /\ came = did[id] /\ open = writing[m] /\ outbox[m] # <<>>
    BY <1>1, <1>2, <1>5 DEF WaitsOn
  <2>2. AnswerSends(frame, came, op, part, lo, open)
    BY <1>1, <1>2, <1>5, <2>1 DEF WaitsWell
  <2> QED BY <1>2, <1>5, <2>2, AnswerSendsStays
<1> QED BY <1>1, <1>2, <1>3, <1>4, <1>5, WaitsIf

\* The client is asked for nothing that it did not number.
LEMMA KnownIf ==
  ASSUME ByKnown, Later, NEW by, NewBy(by), by <= client.id, client'.id = client.id
  PROVE  ByKnown'
<1> SUFFICES ASSUME NEW n \in DOMAIN nodes' PROVE nodes'[n].by <= client.id
  BY DEF ByKnown
<1>1. CASE n \in DOMAIN nodes
  BY <1>1 DEF ByKnown, Later
<1>2. CASE n \notin DOMAIN nodes
  BY <1>2 DEF NewBy
<1> QED BY <1>1, <1>2

\* An agent or another actor moves, and what the client has of its write stays.
LEMMA SentKept ==
  ASSUME FilesOK, ClientOK, JobsOK, Sent, Undisturbed, UNCHANGED <<sudo, clientVars>>, ByKnown',
         LastIsWrite => did'[client.id] = did[client.id],
         (client.step = "next" /\ program # <<>>) => writing'[Mine] = writing[Mine],
         Sending => WaitsOn(Mine)
  PROVE  Sent'
BY HasWrittenKept, BetweenKept, WaitsKept DEF Sent

\* Where no more changes are to come, there is nothing to show.
LEMMA NoMoreIsSent ==
  ASSUME ClientOK', NoMoreChanges', ByKnown'
  PROVE  Sent'
<1>1. program' # <<>> => Op'.kind # "write"
  <2>1. ASSUME program' # <<>> PROVE Op' = program'[1] /\ 1 \in DOMAIN program'
    BY <2>1, TailFacts DEF ClientOK, Op, IsSeq
  <2> QED BY <2>1 DEF NoMoreChanges, IsChange, Changes
<1>2. HasWritten'
  BY DEF HasWritten, LastIsWrite, NoMoreChanges
<1>3. Between'
  BY <1>1 DEF Between
<1>4. client'.step = "wait" => program' # <<>>
  BY DEF ClientOK
<1>5. Waits'
  BY <1>1, <1>4 DEF Waits, Sending
<1> QED BY <1>2, <1>3, <1>5 DEF Sent

\* What an earlier agent answers is not what the client waits for, nor has a result of.
LEMMA AnswersAnother ==
  ASSUME TypesOK, Wire, Settled, NEW a \in Agents, Pending(a),
         LastIsWrite \/ (client.step # "next" /\ a # Mine)
  PROVE  Asked(a).id # client.id
<1>1. CASE client.step # "next" /\ a # Mine
  <2>1. Asked(a).id < client.id /\ client.id \in Nat /\ Asked(a).id \in Nat
    BY <1>1, AskedIsNat, SeqFacts DEF Wire, TypesOK, ClientOK
  <2> QED BY <2>1
<1>2. CASE LastIsWrite
  <2>1. PICK i \in DOMAIN results: results[i] = Last(results)
    BY <1>2, TailFacts DEF LastIsWrite, Last, TypesOK, ClientOK
  <2>2. results[i].id = client.id /\ results[i].is = "done"
    BY <1>2, <2>1 DEF LastIsWrite
  <2>3. Asked(a).id # 0
    BY AskedIsNat
  <2> QED BY <2>2, <2>3 DEF Settled
<1> QED BY <1>1, <1>2

----------------------------------------------------------------------------
\* Only a request to change makes an agent touch the files.
LEMMA StepIsAsked ==
  ASSUME JobsOK, Wire, NEW a \in Agents, FilesStep(a)
  PROVE  Busy(a) /\ inbox[a] = <<>> /\ AskedToChange(a)
<1>1. job[a].step \in Making \cup {"look", "open", "write", "remove", "unlink", "chmod"}
  BY DEF FilesStep, Making, At, Look, OpenExisting, FindParents, MakeParent, ParentsMade, Create, Own, Unmake,
         UnlinkMade, Undo, Undone, WritePart, LookToRemove, Unlink, Chmod
<1>2. Busy(a) /\ job[a].step \in Steps(job[a].request.kind)
  BY <1>1, AtIsBusy DEF At, Making
<1>3. job[a].request.kind # "read"
  BY <1>1, <1>2 DEF Steps, Making
<1>4. inbox[a] = <<>>
  BY <1>2 DEF Wire
<1> QED BY <1>2, <1>3, <1>4 DEF AskedToChange, Pending, Asked

LEMMA FilesStepSent ==
  ASSUME TypesOK, Wire, Frames, OneChanges, Sent, NEW a \in Agents, FilesStep(a), UNCHANGED <<clientVars, pipeVars>>
  PROVE  Sent'
<1>0. FilesOK /\ JobsOK /\ PipesOK /\ ClientOK /\ Mine \in Agents
  BY DEF TypesOK, ClientOK, Mine
<1>1. FileMoves(a)
  BY <1>0, FilesStepMoves
<1>2. Busy(a) /\ inbox[a] = <<>> /\ AskedToChange(a)
  BY <1>0, StepIsAsked
<1>3. ByKnown'
  <2>1. PICK by: by = job[a].request.id /\ NewBy(by)
    BY <1>0, StepMakes
  <2>2. by <= client.id
    BY <1>2, <2>1 DEF Wire, Pending, Asked
  <2>3. Later /\ client'.id = client.id
    BY <1>1 DEF FileMoves, clientVars
  <2> QED BY <2>1, <2>2, <2>3, KnownIf DEF Sent
<1>4. CASE NoMoreChanges
  <2>1. NoMoreChanges'
    BY <1>4 DEF NoMoreChanges, clientVars, IsChange
  <2>2. ClientOK'
    BY <1>0, <1>1, ClientStays DEF FileMoves
  <2> QED BY <1>3, <2>1, <2>2, NoMoreIsSent
<1>5. CASE a = Mine /\ client.step # "next"
  <2>1. HasWritten' /\ Between'
    BY <1>5, NoneHasWritten DEF Sent, clientVars, Between
  <2>2. PICK op, part, lo, m, id: op = Op /\ part = client.part /\ lo = Lo /\ m = Mine /\ id = client.id
    OBVIOUS
  <2>3. m = a /\ inbox'[m] = <<>>
    BY <1>2, <1>5, <2>2 DEF pipeVars
  <2>4. Sending => part <= id
    BY <2>2 DEF Sent, Waits, WaitsWell
  <2>5. Sending => outbox'[m] = <<>>
    BY <1>0, <1>2, <1>5, <2>2, InHandIsUnanswered DEF Pending, Sending, pipeVars
  <2>6. ASSUME Sending PROVE SendsOn(m, lo)
    <3>1. IsFor(job[a].request) /\ JobSends(job[a], lo, writing[a])
      BY <1>2, <1>5, <2>2, <2>6, InHandIsFor DEF Sending, Sent, Waits, WaitsWell
    <3>2. job[a].request.kind = "write" /\ job[a].request.part = <<Op.name, client.part>>
      BY <2>6, <3>1 DEF IsFor, Sending
    <3>3. client.part \in Nat \ {0}
      BY <1>0 DEF ClientOK
    <3> QED BY <1>0, <2>3, <3>1, <3>2, <3>3, StepSends DEF WritesOne
  <2>7. Waits'
    BY <2>2, <2>3, <2>4, <2>5, <2>6, WaitsIf
  <2> QED BY <1>3, <2>1, <2>7 DEF Sent
<1> QED BY <1>2, <1>4, <1>5 DEF OneChanges

\* What an agent does that touches no file.
LEMMA SameFilesSent ==
  ASSUME TypesOK, Sent, UNCHANGED <<sudo, names, nodes, clientVars>>,
         LastIsWrite => did'[client.id] = did[client.id],
         (client.step = "next" /\ program # <<>>) => writing'[Mine] = writing[Mine],
         (Sending => WaitsOn(Mine)) \/ Waits'
  PROVE  Sent'
<1>0. FilesOK /\ JobsOK /\ ClientOK /\ Undisturbed
  BY SameIsUndisturbed DEF TypesOK
<1>1. ByKnown'
  BY DEF ByKnown, Sent, clientVars
<1>2. CASE Sending => WaitsOn(Mine)
  BY <1>0, <1>1, <1>2, SentKept
<1>3. CASE Waits'
  BY <1>0, <1>1, <1>3, HasWrittenKept, BetweenKept DEF Sent
<1> QED BY <1>2, <1>3

\* An agent answers: what it answers is told of its own request.
LEMMA DidAnother ==
  ASSUME TypesOK, Wire, Settled, NEW a \in Agents, Pending(a), NEW what, did' = [did EXCEPT ![Asked(a).id] = what]
  PROVE  (LastIsWrite \/ (client.step # "next" /\ a # Mine)) => did'[client.id] = did[client.id]
BY AnswersAnother

LEMMA EndAgentSent ==
  ASSUME TypesOK, Sent, NEW a \in Agents, EndAgent(a)
  PROVE  Sent'
<1>0. FilesOK /\ JobsOK /\ PipesOK /\ Mine \in Agents
  BY DEF TypesOK, ClientOK, Mine
<1>1. /\ inbox' = [inbox EXCEPT ![a] = <<>>] /\ JobIs(a, Idle)
      /\ UNCHANGED <<filesVars, did, outbox, clientVars>>
  BY <1>0, EndAgentDoes
<1>2. WaitsOn(Mine)
  BY <1>0, <1>1 DEF WaitsOn, JobIs, PipesOK, filesVars
<1> QED BY <1>1, <1>2, SameFilesSent DEF filesVars

LEMMA ReadingSent ==
  ASSUME TypesOK, Wire, Settled, Sent, NEW a \in Agents, ReadOne(a) \/ SayContents(a)
  PROVE  Sent'
<1>0. FilesOK /\ JobsOK /\ PipesOK /\ ClientOK /\ Mine \in Agents
  BY DEF TypesOK, ClientOK, Mine
<1>1. /\ Busy(a) /\ job[a].request.kind = "read" /\ UNCHANGED <<filesVars, clientVars, inbox>>
  BY <1>0, ReadOneDoes, SayContentsDoes, AtRead DEF pipeVars
<1>2. Pending(a) /\ Asked(a) = job[a].request
  BY <1>1 DEF Wire, Pending, Asked
<1>3. UNCHANGED did \/ \E what: did' = [did EXCEPT ![Asked(a).id] = what]
  <2>1. CASE ReadOne(a)
    BY <1>0, <2>1, ReadOneDoes
  <2>2. CASE SayContents(a)
    BY <1>0, <1>2, <2>2, SayContentsDoes DEF Did
  <2> QED BY <2>1, <2>2
<1>4. (LastIsWrite \/ (client.step # "next" /\ a # Mine)) => did'[client.id] = did[client.id]
  BY <1>2, <1>3, DidAnother
<1>5. ASSUME Sending PROVE WaitsOn(Mine)
  <2>1. a # Mine
    BY <1>0, <1>1, <1>5, InHandIsFor DEF IsFor, Sending
  <2>2. job'[Mine] = job[Mine]
    <3>1. JobIs(a, Idle) \/ \E paths, todo, made: Reading(a, paths, todo, made)
      BY <1>0, ReadOneDoes, SayContentsDoes
    <3>2. CASE JobIs(a, Idle)
      BY <1>0, <2>1, <3>2 DEF JobIs
    <3>3. ASSUME NEW paths, NEW todo, NEW made, Reading(a, paths, todo, made) PROVE job'[Mine] = job[Mine]
      BY <1>0, <2>1, <3>3 DEF Reading, JobIs
    <3> QED BY <3>1, <3>2, <3>3
  <2>3. outbox'[Mine] = outbox[Mine]
    <3>1. UNCHANGED outbox \/ \E frame: outbox' = [outbox EXCEPT ![a] = Append(@, frame)]
      BY <1>0, ReadOneDoes, SayContentsDoes DEF Say, pipeVars
    <3>2. UNCHANGED outbox \/ \E frames: outbox' = [outbox EXCEPT ![a] = frames]
      BY <3>1
    <3> QED BY <1>0, <2>1, <3>2 DEF PipesOK
  <2> QED BY <1>1, <1>4, <1>5, <2>1, <2>2, <2>3 DEF WaitsOn, Sending, filesVars
<1> QED BY <1>1, <1>4, <1>5, SameFilesSent DEF filesVars

----------------------------------------------------------------------------
\* A part that is taken finds the parts before it in the file that is open for it.
LEMMA TakenSends ==
  ASSUME FilesOK, ClientOK, NEW a \in Agents, UNCHANGED <<names, nodes>>, NEW r, IsFor(r), Op.kind = "write",
         FirstPart(r) => writing[a][r.path] = 0, NEW k, k = Taken(a, r), job'[a] = k, program # <<>>,
         NEW op, op = Op, NEW part, part = client.part, NEW lo, Ready(op, part, lo, writing[a])
  PROVE  SendsOn(a, lo)
<1>1. r.kind = "write" /\ r.path = op.path /\ r.part = <<op.name, part>> /\ part \in Nat \ {0}
  BY DEF IsFor, Changes, ClientOK
<1>2. PICK name, n, open: name = r.part[1] /\ n = r.part[2] /\ open = writing'[a]
  OBVIOUS
<1>3. name = op.name /\ n = part
  BY <1>1, <1>2
<1>4. /\ k.request = r /\ k.failure = "none" /\ k.id = writing[a][op.path]
      /\ k.step = IF writing[a][op.path] # 0 THEN "write" ELSE "look"
  BY <1>1 DEF Taken, Found, FirstStep
<1>5. \A p \in Paths: MadeSince(p, lo)' => Owned(p)'
  BY SameMade DEF Ready, OwnedSince
<1>6. part = 1 <=> writing[a][op.path] = 0
  <2>1. part = 1 => writing[a][op.path] = 0
    BY <1>1, <1>2, <1>3 DEF FirstPart
  <2>2. ASSUME part # 1 PROVE writing[a][op.path] # 0
    <3>1. writing[a][op.path] \in DOMAIN nodes
      BY <1>1, <2>2 DEF Ready, HasParts
    <3> QED BY <3>1, SeqFacts DEF FilesOK
  <2> QED BY <2>1, <2>2
<1>7. CASE part = 1
  <2>1. k.step = "look"
    BY <1>4, <1>6, <1>7
  <2>2. GoesWell(k, lo, open)'
    BY <1>2, <1>3, <1>4, <1>5, <1>7, <2>1 DEF GoesWell, Dirs, Placing
  <2> QED BY <1>2, <1>4, <2>1, <2>2, GoesOnWell
<1>8. CASE part # 1
  <2>1. k.step = "write"
    BY <1>4, <1>6, <1>8
  <2>2. HasParts(k.id, k.request.part[1], k.request.part[2] - 1)'
    <3>1. PICK id, x, z: id = k.id /\ x = k.request.part[1] /\ z = k.request.part[2]
      OBVIOUS
    <3>2. id = writing[a][op.path] /\ x = op.name /\ z = part
      BY <1>2, <1>3, <1>4, <3>1
    <3>3. HasParts(id, x, z - 1)
      BY <1>1, <1>8, <3>2 DEF Ready
    <3>4. HasParts(id, x, z - 1)'
      BY <3>3 DEF HasParts
    <3> QED BY <3>1, <3>4
  <2>3. GoesWell(k, lo, open)'
    BY <1>5, <2>1, <2>2 DEF GoesWell, Dirs, Placing
  <2> QED BY <1>2, <1>4, <2>1, <2>3, GoesOnWell
<1> QED BY <1>7, <1>8

\* What taking a request leaves on its way.
LEMMA TakeLeaves ==
  ASSUME TypesOK, Wire, NEW a \in Agents, Take(a)
  PROVE  /\ inbox'[a] = <<>>
         /\ \A b \in Agents \ {a}: /\ inbox'[b] = inbox[b] /\ job'[b] = job[b]
                                   /\ writing'[b] = writing[b] /\ outbox'[b] = outbox[b]
<1>0. FilesOK /\ JobsOK /\ PipesOK
  BY DEF TypesOK
<1>1. PICK r: r = Head(inbox[a])
  OBVIOUS
<1>2. inbox[a] # <<>> /\ inbox' = [inbox EXCEPT ![a] = Tail(@)]
  BY <1>0, TakeDoes
<1>3. PICK frames: frames = Tail(inbox[a]) /\ inbox' = [inbox EXCEPT ![a] = frames]
  BY <1>2
<1>4. frames = <<>>
  <2>1. Len(inbox[a]) = 1 /\ IsSeq(inbox[a])
    BY <1>0, <1>2 DEF Wire, PipesOK
  <2>2. IsSeq(frames) /\ Len(frames) = 0
    BY <1>2, <1>3, <2>1, TailFacts
  <2> QED BY <2>2, SeqFacts
<1>5. inbox'[a] = <<>> /\ \A b \in Agents \ {a}: inbox'[b] = inbox[b]
  BY <1>0, <1>3, <1>4 DEF PipesOK
<1>6. CASE /\ JobIs(a, Taken(a, r)) /\ UNCHANGED outbox
           /\ writing' = IF r.kind = "write" THEN [writing EXCEPT ![a][r.path] = 0] ELSE writing
  <2>1. \A b \in Agents \ {a}: job'[b] = job[b]
    BY <1>6 DEF JobIs
  <2>2. \A b \in Agents \ {a}: writing'[b] = writing[b]
    BY <1>0, <1>6 DEF FilesOK
  <2> QED BY <1>5, <1>6, <2>1, <2>2
<1>7. ASSUME UNCHANGED <<job, writing>>, NEW frame, outbox' = [outbox EXCEPT ![a] = Append(@, frame)]
      PROVE  \A b \in Agents \ {a}: /\ job'[b] = job[b] /\ writing'[b] = writing[b] /\ outbox'[b] = outbox[b]
  BY <1>0, <1>7 DEF PipesOK
<1>8. \/ /\ JobIs(a, Taken(a, r)) /\ UNCHANGED outbox
         /\ writing' = IF r.kind = "write" THEN [writing EXCEPT ![a][r.path] = 0] ELSE writing
      \/ UNCHANGED <<job, writing>> /\ \E frame: outbox' = [outbox EXCEPT ![a] = Append(@, frame)]
  BY <1>0, <1>1, TakeDoes
<1> QED BY <1>5, <1>6, <1>7, <1>8

\* The client's own part is taken, or is refused.
LEMMA TakeMineSent ==
  ASSUME TypesOK, Wire, Streams, Sent, NEW a \in Agents, Take(a), Sending, a = Mine
  PROVE  Waits'
<1>0. FilesOK /\ JobsOK /\ PipesOK /\ ClientOK
  BY DEF TypesOK
<1>1. PICK r: r = Head(inbox[a])
  OBVIOUS
<1>2. /\ inbox[a] # <<>> /\ ~Busy(a) /\ UNCHANGED <<names, nodes, clientVars>> /\ inbox'[a] = <<>>
  BY <1>0, TakeDoes, TakeLeaves
<1>3. Pending(a) /\ Asked(a) = r /\ IsFor(r) /\ outbox[a] = <<>> /\ program # <<>>
  <2>1. Pending(a) /\ Asked(a) = r
    BY <1>1, <1>2 DEF Pending, Asked
  <2>2. client.step = "wait" /\ Op.kind = "write"
    BY DEF Sending
  <2> QED BY <1>0, <1>2, <2>1, <2>2 DEF Wire, ClientOK
<1>4. PICK op, part, lo, m, id: op = Op /\ part = client.part /\ lo = Lo /\ m = Mine /\ id = client.id
  OBVIOUS
<1>5. part <= id /\ Ready(op, part, lo, writing[a])
  BY <1>2, <1>4 DEF Sent, Waits, WaitsWell
<1>6. CASE JobIs(a, Taken(a, r)) /\ UNCHANGED outbox
  <2>1. PICK k: k = Taken(a, r)
    OBVIOUS
  <2>2. job'[a] = k
    BY <1>6, <2>1 DEF JobIs
  <2>3. FirstPart(r) => writing[a][r.path] = 0
    BY <1>1, <1>2 DEF Streams, NoneIsOpenForFirst
  <2>4. SendsOn(a, lo)
    BY <1>0, <1>2, <1>3, <1>4, <1>5, <2>1, <2>2, <2>3, TakenSends DEF Sending
  <2> QED BY <1>2, <1>3, <1>4, <1>5, <1>6, <2>4, WaitsIf
<1>7. ASSUME UNCHANGED job, NEW frame, frame.kind = "refused", outbox' = [outbox EXCEPT ![a] = Append(@, frame)]
      PROVE  Waits'
  <2>1. outbox'[a] = Append(outbox[a], frame)
    BY <1>0, <1>7, OutboxGrows
  <2>2. Head(outbox'[a]) = frame
    <3>1. IsSeq(<<>>) /\ Append(<<>>, frame)[Len(<<>>) + 1] = frame /\ Len(<<>>) = 0
          /\ IsSeq(Append(<<>>, frame)) /\ Append(<<>>, frame) # <<>>
      BY EmptyIsSeq, AppendFacts
    <3>2. PICK one: one = outbox'[a] /\ IsSeq(one) /\ one # <<>> /\ one[1] = frame
      BY <1>3, <2>1, <3>1
    <3> QED BY <3>2, TailFacts
  <2>3. \A came, open: AnswerSends(frame, came, op, part, lo, open)'
    BY <1>7 DEF AnswerSends
  <2>4. job'[a] = Idle
    BY <1>2, <1>7 DEF Busy
  <2> QED BY <1>2, <1>4, <1>5, <2>2, <2>3, <2>4, WaitsIf
<1>8. \/ JobIs(a, Taken(a, r)) /\ UNCHANGED outbox
      \/ UNCHANGED job /\ \E frame: frame.kind = "refused" /\ outbox' = [outbox EXCEPT ![a] = Append(@, frame)]
  <2>1. PICK frame: frame = [kind |-> "refused", id |-> r.id]
    OBVIOUS
  <2>2. frame.kind = "refused"
    BY <2>1
  <2>3. \/ JobIs(a, Taken(a, r)) /\ UNCHANGED outbox
        \/ UNCHANGED job /\ outbox' = [outbox EXCEPT ![a] = Append(@, frame)]
    BY <1>0, <1>1, <2>1, TakeDoes
  <2> QED BY <2>2, <2>3
<1> QED BY <1>6, <1>7, <1>8

LEMMA TakeSent ==
  ASSUME TypesOK, Wire, Settled, Streams, Sent, NEW a \in Agents, Take(a)
  PROVE  Sent'
<1>0. FilesOK /\ JobsOK /\ PipesOK /\ Mine \in Agents
  BY DEF TypesOK, ClientOK, Mine
<1>1. inbox[a] # <<>> /\ UNCHANGED <<sudo, names, nodes, clientVars>>
  BY <1>0, TakeDoes
<1>2. Pending(a) /\ Asked(a) = Head(inbox[a])
  BY <1>1 DEF Pending, Asked
<1>3. UNCHANGED did \/ \E what: did' = [did EXCEPT ![Asked(a).id] = what]
  BY <1>0, <1>2, TakeDoes
<1>4. (LastIsWrite \/ (client.step # "next" /\ a # Mine)) => did'[client.id] = did[client.id]
  BY <1>2, <1>3, DidAnother
<1>5. (client.step = "next" /\ program # <<>>) => a # Mine
  BY <1>2 DEF Wire
<1>6. a # Mine => /\ inbox'[Mine] = inbox[Mine] /\ job'[Mine] = job[Mine]
                  /\ writing'[Mine] = writing[Mine] /\ outbox'[Mine] = outbox[Mine]
  BY <1>0, TakeLeaves
<1>7. (Sending => WaitsOn(Mine)) \/ Waits'
  <2>1. CASE ~Sending
    BY <2>1
  <2>2. CASE Sending /\ a = Mine
    BY <2>2, TakeMineSent
  <2>3. CASE Sending /\ a # Mine
    BY <1>4, <1>6, <2>3 DEF WaitsOn, Sending
  <2> QED BY <2>1, <2>2, <2>3
<1> QED BY <1>1, <1>4, <1>5, <1>6, <1>7, SameFilesSent

----------------------------------------------------------------------------
\* A frame is the first of those on their way, when it is the only one.
LEMMA OnlyFrame ==
  ASSUME PipesOK, NEW a \in Agents, outbox[a] = <<>>, NEW frame, outbox' = [outbox EXCEPT ![a] = Append(@, frame)]
  PROVE  Head(outbox'[a]) = frame
<1>1. outbox'[a] = Append(outbox[a], frame)
  BY OutboxGrows
<1>2. PICK none: none = outbox[a] /\ IsSeq(none) /\ Len(none) = 0
  BY EmptyIsSeq
<1>3. PICK one: one = Append(none, frame)
  OBVIOUS
<1>4. IsSeq(one) /\ one # <<>> /\ one[Len(none) + 1] = frame
  BY <1>2, <1>3, AppendFacts
<1>5. one[1] = frame
  BY <1>2, <1>4
<1> QED BY <1>1, <1>2, <1>3, <1>4, <1>5, TailFacts

\* The answer to the client's own part.
LEMMA AnswerMineSent ==
  ASSUME TypesOK, Wire, Frames, Sent, NEW a \in Agents, AnswerChange(a), Sending, a = Mine
  PROVE  Waits'
<1>0. FilesOK /\ JobsOK /\ PipesOK /\ ClientOK
  BY DEF TypesOK
<1>1. /\ At(a, "answer") /\ Busy(a) /\ JobIs(a, Idle) /\ UNCHANGED <<filesVars, inbox, clientVars>>
  BY <1>0, AnswerChangeDoes
<1>2. PICK j: j = job[a]
  OBVIOUS
<1>3. PICK came: /\ did' = [did EXCEPT ![j.request.id] = came] /\ came.id = j.id
  <2>1. PICK came: came = Came(IF j.failure = "none" THEN "done" ELSE j.failure, <<>>, j.left,
                               j.request.path, j.wrote, j.id)
    OBVIOUS
  <2>2. came.id = j.id
    BY <2>1 DEF Came
  <2>3. did' = [did EXCEPT ![j.request.id] = came]
    BY <1>0, <1>2, <2>1, AnswerChangeDoes DEF Did, Path
  <2> QED BY <2>2, <2>3
<1>4. PICK frame: /\ outbox' = [outbox EXCEPT ![a] = Append(@, frame)] /\ frame.failure = j.failure
  <2>1. PICK frame: frame = [kind |-> "changed", failure |-> j.failure, id |-> j.request.id]
    OBVIOUS
  <2>2. frame.failure = j.failure
    BY <2>1
  <2>3. outbox' = [outbox EXCEPT ![a] = Append(@, frame)]
    BY <1>0, <1>2, <2>1, AnswerChangeDoes DEF Say
  <2> QED BY <2>2, <2>3
<1>5. PICK op, part, lo, m, id: op = Op /\ part = client.part /\ lo = Lo /\ m = Mine /\ id = client.id
  OBVIOUS
<1>6. IsFor(j.request) /\ inbox[a] = <<>> /\ outbox[a] = <<>> /\ j.request.id = id /\ id \in DOMAIN did
  <2>1. client.step = "wait" /\ Op.kind = "write" /\ Pending(a)
    BY <1>1 DEF Sending, Pending
  <2>2. IsFor(j.request) /\ inbox[a] = <<>>
    BY <1>1, <1>2, <2>1, InHandIsFor
  <2>3. outbox[a] = <<>>
    BY <1>0, <2>1, InHandIsUnanswered
  <2>4. Asked(a) = j.request
    BY <1>2, <2>2 DEF Asked
  <2>5. j.request.id = id
    BY <1>5, <2>1, <2>4 DEF Wire
  <2>6. id \in DOMAIN did
    BY <1>0, <1>5, <2>1, SeqFacts DEF ClientOK
  <2> QED BY <2>2, <2>3, <2>5, <2>6
<1>7. part <= id /\ JobSends(j, lo, writing[a])
  BY <1>1, <1>2, <1>5 DEF Sent, Waits, WaitsWell
<1>8. did'[id] = came /\ Head(outbox'[a]) = frame
  BY <1>0, <1>3, <1>4, <1>6, OnlyFrame
<1>9. PICK open: open = writing[a] /\ open = writing'[a]
  BY <1>1 DEF filesVars
<1>10. AnswerSends(frame, came, op, part, lo, open)
  <2>1. frame.failure # "done"
    BY <1>4, <1>7 DEF JobSends
  <2>2. ASSUME frame.failure = "none"
        PROVE  /\ HasParts(came.id, op.name, part) /\ OwnedSince(lo)
               /\ part < op.parts => open[op.path] = came.id
    <3>1. GoesWell(j, lo, open) /\ j.step = "answer"
      BY <1>1, <1>2, <1>4, <1>7, <1>9, <2>2 DEF JobSends, At
    <3>2. /\ j.request.part = <<op.name, part>> /\ j.request.more = (part < op.parts)
          /\ j.request.path = op.path
      BY <1>5, <1>6 DEF IsFor, Sending, Changes
    <3>3. PICK x, z: x = j.request.part[1] /\ z = j.request.part[2] /\ HasParts(j.id, x, z)
      BY <3>1 DEF GoesWell
    <3>4. HasParts(came.id, op.name, part)
      BY <1>3, <3>2, <3>3
    <3>5. OwnedSince(lo)
      BY <3>1 DEF GoesWell, Due, OwnedSince
    <3>6. part < op.parts => open[op.path] = came.id
      BY <1>3, <3>1, <3>2 DEF GoesWell
    <3> QED BY <3>4, <3>5, <3>6
  <2> QED BY <2>1, <2>2 DEF AnswerSends
<1>11. lo \in Nat
  BY <1>0, <1>5, <1>7, SeqFacts DEF ClientOK, Lo
<1>12. Undisturbed
  BY <1>0, <1>1, SameIsUndisturbed DEF filesVars
<1>13. AnswerSends(frame, came, op, part, lo, open)'
  BY <1>0, <1>10, <1>11, <1>12, AnswerSendsStays
<1>14. inbox'[a] = <<>> /\ job'[a] = Idle
  BY <1>1, <1>6 DEF JobIs
<1> QED BY <1>1, <1>5, <1>7, <1>8, <1>9, <1>13, <1>14, WaitsIf

LEMMA AnswerChangeSent ==
  ASSUME TypesOK, Exchange, Sent, NEW a \in Agents, AnswerChange(a)
  PROVE  Sent'
<1>0. FilesOK /\ JobsOK /\ PipesOK /\ Wire /\ Frames /\ Settled /\ Mine \in Agents
  BY DEF TypesOK, ClientOK, Mine, Exchange
<1>1. Busy(a) /\ JobIs(a, Idle) /\ UNCHANGED <<filesVars, inbox, clientVars>>
  BY <1>0, AnswerChangeDoes
<1>2. Pending(a) /\ Asked(a) = job[a].request
  BY <1>0, <1>1 DEF Wire, Pending, Asked
<1>3. /\ \E what: did' = [did EXCEPT ![Asked(a).id] = what]
      /\ \E frame: outbox' = [outbox EXCEPT ![a] = Append(@, frame)]
  BY <1>0, <1>2, AnswerChangeDoes DEF Did, Say
<1>4. (LastIsWrite \/ (client.step # "next" /\ a # Mine)) => did'[client.id] = did[client.id]
  BY <1>0, <1>2, <1>3, DidAnother
<1>5. (Sending => WaitsOn(Mine)) \/ Waits'
  <2>1. CASE ~Sending
    BY <2>1
  <2>2. CASE Sending /\ a = Mine
    BY <1>0, <2>2, AnswerMineSent
  <2>3. CASE Sending /\ a # Mine
    <3>1. job'[Mine] = job[Mine] /\ outbox'[Mine] = outbox[Mine]
      BY <1>0, <1>1, <1>3, <2>3 DEF JobIs, PipesOK
    <3> QED BY <1>1, <1>4, <2>3, <3>1 DEF WaitsOn, Sending, filesVars
  <2> QED BY <2>1, <2>2, <2>3
<1> QED BY <1>1, <1>4, <1>5, SameFilesSent DEF filesVars

----------------------------------------------------------------------------
\* What others do: they move no directory, and give nothing to a request.
LEMMA OthersLeaveIt ==
  ASSUME FilesOK, DirectoriesStay, OthersMove
  PROVE  Undisturbed /\ NewBy(0)
<1>1. PICK m \in OthersMay:
        \/ UNCHANGED nodes /\ names' = [names EXCEPT ![m.path] = 0]
        \/ /\ IsRename(m) /\ names[m.path] # 0 /\ names[m.to] = 0 /\ UNCHANGED nodes
           /\ names' = [names EXCEPT ![m.path] = 0, ![m.to] = names[m.path]]
        \/ Place(m.path, m.kind, 0, "other")
  BY OthersDo
<1>2. m.path \in Paths /\ (IsRename(m) => m.to \in Paths /\ Leaf(m.path)) /\ 0 \in Nat
  BY OthersStayInTheTree DEF IsRename, DirectoriesStay
<1>3. PICK from: from = m.path
  OBVIOUS
<1>4. CASE UNCHANGED nodes /\ names' = [names EXCEPT ![from] = 0]
  <2>1. \A p \in Paths: names'[p] = 0 \/ names'[p] = names[p]
    BY <1>4 DEF FilesOK
  <2> QED BY <1>4, <2>1, NewByNone DEF Undisturbed
<1>5. CASE /\ IsRename(m) /\ names[from] # 0 /\ names[m.to] = 0 /\ UNCHANGED nodes
           /\ names' = [names EXCEPT ![from] = 0, ![m.to] = names[from]]
  <2>1. PICK to, n: to = m.to /\ n = names[from] /\ names' = [names EXCEPT ![from] = 0, ![to] = n]
    BY <1>5
  <2>2. \A p \in Paths: names'[p] = 0 \/ names'[p] = names[p] \/ names'[p] = n
    BY <2>1 DEF FilesOK
  <2>3. from \in Paths /\ Leaf(from) /\ names[from] # 0
    BY <1>2, <1>3, <1>5
  <2> QED BY <1>5, <2>1, <2>2, <2>3, NewByNone DEF Undisturbed
<1>6. CASE Place(from, m.kind, 0, "other")
  <2>1. PICK kind, by, owner: by = 0 /\ Place(from, kind, by, owner)
    BY <1>6
  <2>2. /\ names'[from] = Len(nodes) + 1 /\ \A q \in Paths \ {from}: names'[q] = names[q]
        /\ nodes'[Len(nodes) + 1] = Node(kind, by, owner)
        /\ \A n \in DOMAIN nodes: nodes'[n] = nodes[n]
        /\ Later
    <3>1. from \in Paths /\ by \in Nat
      BY <1>2, <1>3, <2>1
    <3>2. names'[from] = Len(nodes) + 1 /\ \A q \in Paths \ {from}: names'[q] = names[q]
      BY <2>1, <3>1, PlaceFacts
    <3>3. PICK node: node = Node(kind, by, owner) /\ nodes' = Append(nodes, node)
      BY <2>1 DEF Place
    <3>5. nodes'[Len(nodes) + 1] = node /\ \A n \in DOMAIN nodes: nodes'[n] = nodes[n]
      BY <3>3, AppendFacts DEF FilesOK
    <3>4. Later
      BY <2>1, <3>1, PlaceFacts
    <3> QED BY <3>2, <3>3, <3>4, <3>5
  <2>3. nodes'[names'[from]].by = 0
    BY <2>1, <2>2 DEF Node
  <2>4. \A n \in DOMAIN nodes: n \in DOMAIN nodes'
    BY <2>2 DEF Later
  <2>5. NewBy(0)
    BY <1>2, <1>3, <2>1, NewByPlaced
  <2> QED BY <2>2, <2>3, <2>4, <2>5 DEF Undisturbed
<1> QED BY <1>1, <1>3, <1>4, <1>5, <1>6

LEMMA OthersSent ==
  ASSUME TypesOK, DirectoriesStay, Sent, OthersMove, UNCHANGED <<clientVars, pipeVars>>
  PROVE  Sent'
<1>0. FilesOK /\ JobsOK /\ ClientOK
  BY DEF TypesOK
<1>1. Undisturbed /\ NewBy(0) /\ Later /\ UNCHANGED <<sudo, job, writing, did>>
  BY <1>0, OthersDo, OthersLeaveIt
<1>2. ByKnown'
  <2>1. 0 <= client.id /\ client'.id = client.id
    BY <1>0, SeqFacts DEF ClientOK, clientVars
  <2> QED BY <1>1, <2>1, KnownIf DEF Sent
<1>3. WaitsOn(Mine)
  BY <1>1 DEF WaitsOn, pipeVars
<1> QED BY <1>0, <1>1, <1>2, <1>3, SentKept

----------------------------------------------------------------------------
\* The client numbers its requests upwards.
LEMMA KnownOfClient ==
  ASSUME FilesOK, ClientOK, ByKnown, UNCHANGED nodes, client'.id \in {client.id, client.id + 1}
  PROVE  ByKnown'
<1> SUFFICES ASSUME NEW n \in DOMAIN nodes PROVE nodes[n].by <= client'.id
  BY DEF ByKnown
<1>1. nodes[n].by <= client.id /\ nodes[n].by \in Nat /\ client.id \in Nat
  BY SeqFacts DEF ByKnown, FilesOK, IsNode, ClientOK
<1> QED BY <1>1

\* The client sends a part: those before it are in the file that is open for it.
LEMMA SendRequestSent ==
  ASSUME TypesOK, Wire, Settled, Sent, SendRequest
  PROVE  Sent'
<1>0. FilesOK /\ ClientOK /\ PipesOK /\ Mine \in Agents
  BY DEF TypesOK, ClientOK, Mine
<1>1. client.step = "next" /\ program # <<>> /\ UNCHANGED <<filesVars, job>>
  BY <1>0, SendRequestDoes
<1>2. CASE Op.kind = "huge"
  <2>1. Last(results').is = "refused" /\ program' = Tail(program) /\ UNCHANGED client
    BY <1>0, <1>2, HugeDoes
  <2>2. ByKnown'
    BY <1>0, <1>1, <2>1, KnownOfClient DEF Sent, filesVars
  <2>3. HasWritten' /\ Waits'
    BY <1>1, <2>1 DEF HasWritten, LastIsWrite, Waits, Sending
  <2>4. Between'
    <3> SUFFICES ASSUME program' # <<>>, Op'.kind = "write", client'.part > 1 PROVE FALSE
      BY DEF Between
    <3>1. Op' = program'[1] /\ 1 \in DOMAIN program'
      BY <1>0, <1>1, <2>1, OpFacts, TailFacts DEF Op
    <3>2. program'[1] = program[2] /\ 2 \in DOMAIN program
      BY <1>0, <1>1, <2>1, <3>1, OpFacts
    <3>3. client.part # 1 /\ Op.kind # "write"
      BY <1>2, <2>1
    <3>4. ~IsChange(program[2])
      BY <1>0, <1>1, <3>2, <3>3 DEF ClientOK
    <3> QED BY <3>1, <3>2, <3>4 DEF IsChange, Changes
  <2> QED BY <2>2, <2>3, <2>4 DEF Sent
<1>3. CASE Op.kind # "huge"
  <2>1. /\ ClientIs("wait", client.agent, client.part, client.attempt, client.id + 1, <<>>, {})
        /\ UNCHANGED <<program, results, outbox>>
    BY <1>0, <1>3, SendRequestDoes
  <2>2. /\ client'.step = "wait" /\ client'.part = client.part /\ client'.id = client.id + 1
        /\ Mine' = Mine /\ Op' = Op
    BY <2>1 DEF ClientIs, Mine, Op
  <2>3. ByKnown'
    BY <1>0, <1>1, <2>2, KnownOfClient DEF Sent, filesVars
  <2>4. HasWritten'
    <3> SUFFICES ASSUME LastIsWrite' PROVE FALSE
      BY DEF HasWritten
    <3>1. results # <<>> /\ Last(results).id = client.id + 1 /\ client.id \in Nat
      BY <1>0, <2>1, <2>2, SeqFacts DEF LastIsWrite, ClientOK
    <3>2. PICK i \in DOMAIN results: results[i] = Last(results)
      BY <1>0, <3>1, TailFacts DEF Last, ClientOK
    <3> QED BY <3>1, <3>2 DEF Settled
  <2>5. Between'
    BY <2>2 DEF Between
  <2>6. Waits'
    <3> SUFFICES ASSUME Op.kind = "write" PROVE WaitsWell'
      BY <2>2 DEF Waits, Sending
    <3>1. PICK op, part, lo, open: op = Op /\ part = client.part /\ lo = (client.id + 1) - client.part /\ open = writing[Mine]
      OBVIOUS
    <3>2. part \in Nat \ {0} /\ client.id \in Nat
      BY <1>0, <3>1, SeqFacts DEF ClientOK
    <3>3. part <= client.id + 1 /\ Ready(op, part, lo, open)
      <4>1. CASE part = 1
        <5>1. lo = client.id
          BY <3>1, <3>2, <4>1
        <5>2. ASSUME NEW p \in Paths, MadeSince(p, lo) PROVE FALSE
          <6>1. names[p] \in DOMAIN nodes
            BY <1>0, <5>2, NodeOfName DEF MadeSince
          <6>2. nodes[names[p]].by <= client.id /\ nodes[names[p]].by \in Nat
            BY <1>0, <6>1 DEF Sent, ByKnown, FilesOK, IsNode
          <6> QED BY <3>2, <5>1, <5>2, <6>2 DEF MadeSince
        <5> QED BY <3>2, <4>1, <5>2 DEF Ready, OwnedSince
      <4>2. CASE part > 1
        <5>1. part - 1 <= client.id /\ Ready(op, part, client.id - (part - 1), open)
          BY <1>1, <3>1, <4>2 DEF Sent, Between
        <5>2. client.id - (part - 1) = lo
          BY <3>1, <3>2
        <5>3. part <= client.id + 1
          BY <3>2, <5>1
        <5> QED BY <5>1, <5>2, <5>3
      <4> QED BY <3>2, <4>1, <4>2
    <3>4. lo \in Nat
      BY <3>1, <3>2, <3>3
    <3>5. Ready(op, part, lo, open)'
      <4>1. Undisturbed
        BY <1>0, <1>1, SameIsUndisturbed DEF filesVars
      <4> QED BY <1>0, <3>3, <3>4, <4>1, ReadyStays
    <3>6. Lo' = lo /\ writing'[Mine'] = open
      <4>1. Lo' = client'.id - client'.part
        BY DEF Lo
      <4>2. Lo' = lo
        <5>1. client'.id = client.id + 1 /\ client'.part = client.part
          BY <2>2
        <5>2. client'.id - client'.part = (client.id + 1) - client.part
          BY <5>1
        <5> QED BY <3>1, <4>1, <5>2
      <4>3. UNCHANGED writing
        BY <1>1 DEF filesVars
      <4> QED BY <2>2, <3>1, <4>2, <4>3
    <3>7. (Ready(Op, client.part, Lo, writing[Mine]))'
      BY <2>2, <3>1, <3>5, <3>6
    <3>8. ~Busy(Mine)' /\ outbox'[Mine'] = <<>>
      <4>1. ~Pending(Mine) /\ outbox[Mine] = <<>>
        BY <1>1 DEF Wire
      <4> QED BY <1>1, <2>1, <2>2, <4>1 DEF Pending, Busy
    <3>9. client'.part <= client'.id
      BY <2>2, <3>1, <3>3
    <3> QED BY <3>7, <3>8, <3>9 DEF WaitsWell
  <2> QED BY <2>3, <2>4, <2>5, <2>6 DEF Sent
<1> QED BY <1>2, <1>3

----------------------------------------------------------------------------
\* An operation ends, with a result that tells of a write only what was written.
LEMMA FinishSent ==
  ASSUME FilesOK, ClientOK, Sent, UNCHANGED <<names, nodes, did>>, NEW is, NEW got, Finish(is, got),
         NEW r, r = Result(is, got), (is = "done" /\ Op.kind = "write") => Wrote(r, did[client.id], client.id)
  PROVE  Sent'
<1>1. /\ ClientIs("next", client.agent, 1, 1, client.id, client.got, client.open)
      /\ results' = Append(results, r)
  BY FinishDoes
<1>2. client'.step = "next" /\ client'.part = 1 /\ client'.id = client.id
  BY <1>1 DEF ClientIs
<1>3. ByKnown'
  BY <1>2, KnownOfClient DEF Sent
<1>4. Between' /\ Waits'
  BY <1>2 DEF Between, Waits, Sending
<1>5. HasWritten'
  <2> SUFFICES ASSUME LastIsWrite' PROVE (Wrote(Last(results), did[client.id], client.id))'
    BY <1>2 DEF HasWritten
  <2>1. PICK came, id: came = did[client.id] /\ id = client.id
    OBVIOUS
  <2>2. Last(results') = r
    BY <1>1, LastOfAppend
  <2>3. r.op = Op /\ r.is = is
    BY DEF Result, Op
  <2>4. Wrote(r, came, id)
    BY <2>1, <2>2, <2>3 DEF LastIsWrite
  <2>5. Wrote(r, came, id)'
    BY <2>4, WroteStays, SameIsUndisturbed
  <2> QED BY <1>2, <2>1, <2>2, <2>5
<1> QED BY <1>3, <1>4, <1>5 DEF Sent

\* A connection is taken for lost, and no operation ends by that.
LEMMA LosesSent ==
  ASSUME FilesOK, ClientOK, Sent, client.step # "next", UNCHANGED <<nodes, results>>, client'.id = client.id,
         Between', Waits'
  PROVE  Sent'
BY KnownOfClient, NoneHasWritten DEF Sent

\* A change that was lost, or a server that is given up, has no result of a write.
LEMMA LostIsSent ==
  ASSUME FilesOK, ClientOK, Sent, UNCHANGED nodes, results' = Append(results, Result("lost", <<>>)),
         client'.id = client.id, Between', Waits'
  PROVE  Sent'
<1>1. PICK r: r = Result("lost", <<>>) /\ results' = Append(results, r)
  OBVIOUS
<1>2. Last(results') = r /\ r.is = "lost"
  BY <1>1, LastOfAppend DEF Result
<1>3. HasWritten'
  BY <1>2 DEF HasWritten, LastIsWrite
<1> QED BY <1>3, KnownOfClient DEF Sent

----------------------------------------------------------------------------
LEMMA ReceiveContentsSent ==
  ASSUME TypesOK, Sent, ReceiveContents
  PROVE  Sent'
<1>0. FilesOK /\ ClientOK
  BY DEF TypesOK
<1>1. client.step = "wait" /\ Op.kind = "read" /\ UNCHANGED <<names, nodes, did>>
  BY <1>0, ReceiveContentsDoes DEF Received, filesVars
<1>2. ASSUME NEW is, NEW got, Finish(is, got) PROVE Sent'
  <2>1. PICK r: r = Result(is, got)
    OBVIOUS
  <2> QED BY <1>0, <1>1, <1>2, <2>1, FinishSent
<1>3. ASSUME NEW got, NEW open,
             ClientIs("wait", client.agent, client.part, client.attempt, client.id, got, open),
             UNCHANGED <<program, results>>
      PROVE  Sent'
  <2>1. client'.step = "wait" /\ client'.id = client.id /\ Op' = Op
    BY <1>3 DEF ClientIs, Op
  <2>2. Between' /\ Waits'
    BY <1>1, <2>1 DEF Between, Waits, Sending
  <2> QED BY <1>0, <1>1, <1>3, <2>1, <2>2, LosesSent
<1>4. CASE LoseIt
  <2>1. client'.step = "lost" /\ client'.id = client.id /\ UNCHANGED results
    BY <1>0, <1>4, LoseItDoes DEF ClientIs
  <2>2. Between' /\ Waits'
    BY <2>1 DEF Between, Waits, Sending
  <2> QED BY <1>0, <1>1, <2>1, <2>2, LosesSent
<1> QED BY <1>0, <1>2, <1>3, <1>4, ReceiveContentsDoes

\* The answer to a part: the next one is to come, or all of them are in the file.
LEMMA ReceiveChangedSent ==
  ASSUME TypesOK, Sent, ReceiveChanged
  PROVE  Sent'
<1>0. FilesOK /\ ClientOK
  BY DEF TypesOK
<1>1. /\ client.step = "wait" /\ Op.kind # "read" /\ outbox[Mine] # <<>>
      /\ UNCHANGED <<names, nodes, did, writing>> /\ program # <<>>
  BY <1>0, ReceiveChangedDoes DEF Received, filesVars, ClientOK
<1>2. PICK frame, came, op, part, lo, open:
        /\ frame = Head(outbox[Mine]) /\ came = did[client.id] /\ op = Op /\ part = client.part
        /\ lo = Lo /\ open = writing[Mine]
  OBVIOUS
<1>3. part \in Nat \ {0} /\ client.id \in Nat
  BY <1>0, <1>2, SeqFacts DEF ClientOK
<1>4. ASSUME Op.kind = "write" PROVE part <= client.id /\ AnswerSends(frame, came, op, part, lo, open)
  BY <1>1, <1>2, <1>4 DEF Sent, Waits, WaitsWell, Sending
<1>5. ASSUME NEW is, NEW got, Finish(is, got), is # "done" PROVE Sent'
  <2>1. PICK r: r = Result(is, got)
    OBVIOUS
  <2> QED BY <1>0, <1>1, <1>5, <2>1, FinishSent
<1>6. CASE frame.kind = "changed" /\ frame.failure # "none" /\ Finish(frame.failure, <<>>)
  <2>1. CASE Op.kind = "write"
    <3>1. frame.failure # "done"
      BY <1>4, <1>6, <2>1 DEF AnswerSends
    <3> QED BY <1>5, <1>6, <3>1
  <2>2. CASE Op.kind # "write"
    <3>1. PICK is, got: is = frame.failure /\ got = <<>> /\ Finish(is, got)
      BY <1>6
    <3>2. PICK r: r = Result(is, got)
      OBVIOUS
    <3> QED BY <1>0, <1>1, <2>2, <3>1, <3>2, FinishSent
  <2> QED BY <2>1, <2>2
<1>7. CASE /\ frame.kind = "changed" /\ frame.failure = "none" /\ Op.kind = "write" /\ client.part < Op.parts
           /\ ClientIs("next", client.agent, client.part + 1, client.attempt, client.id, client.got, client.open)
           /\ UNCHANGED <<program, results>>
  <2>1. /\ client'.step = "next" /\ client'.part = part + 1 /\ client'.id = client.id
        /\ Mine' = Mine /\ Op' = op
    BY <1>2, <1>7 DEF ClientIs, Mine, Op
  <2>2. Waits'
    BY <2>1 DEF Waits, Sending
  <2>3. Between'
    <3>2. HasParts(open[op.path], op.name, part) /\ OwnedSince(lo)
      BY <1>2, <1>4, <1>7 DEF AnswerSends
    <3>3. PICK next: next = part + 1 /\ next - 1 = part
      BY <1>3
    <3>4. Ready(op, next, lo, open)
      BY <3>2, <3>3 DEF Ready
    <3>5. lo \in Nat /\ lo = client.id - part
      BY <1>2, <1>3, <1>4, <1>7 DEF Lo
    <3>6. Ready(op, next, lo, open)'
      <4>1. Undisturbed
        BY <1>0, <1>1, SameIsUndisturbed
      <4> QED BY <1>0, <3>4, <3>5, <4>1, ReadyStays
    <3>7. writing'[Mine'] = open /\ client'.part = next /\ client'.id - (client'.part - 1) = lo
      BY <1>1, <1>2, <2>1, <3>3, <3>5
    <3>8. (Ready(Op, client.part, client.id - (client.part - 1), writing[Mine]))'
      BY <2>1, <3>6, <3>7
    <3>9. client'.part - 1 <= client'.id
      BY <1>4, <1>7, <2>1, <3>3
    <3> QED BY <3>8, <3>9 DEF Between
  <2> QED BY <1>0, <1>1, <1>7, <2>1, <2>2, <2>3, LosesSent
<1>8. CASE /\ frame.kind = "changed" /\ frame.failure = "none" /\ (Op.kind = "write" => ~(client.part < Op.parts))
           /\ Finish("done", <<>>)
  <2>1. PICK is, got: is = "done" /\ got = <<>> /\ Finish(is, got)
    BY <1>8
  <2>2. PICK r: r = Result(is, got)
    OBVIOUS
  <2>3. r.op = op
    BY <1>2, <2>2 DEF Result, Op
  <2>4. ASSUME Op.kind = "write" PROVE Wrote(r, did[client.id], client.id)
    <3>1. IsOperation(op) /\ part <= op.parts
      BY <1>0, <1>1, <1>2, <2>4, OpFacts DEF ClientOK
    <3>2. op.parts = part
      BY <1>2, <1>3, <1>8, <2>4, <3>1 DEF IsOperation
    <3>3. HasParts(came.id, op.name, part) /\ OwnedSince(lo)
      BY <1>4, <1>8, <2>4 DEF AnswerSends
    <3>4. client.id - r.op.parts = lo /\ lo \in Nat
      BY <1>2, <1>3, <1>4, <2>3, <2>4, <3>2 DEF Lo
    <3> QED BY <1>2, <2>3, <3>2, <3>3, <3>4 DEF Wrote
  <2> QED BY <1>0, <1>1, <2>1, <2>2, <2>4, FinishSent
<1>9. CASE LoseIt
  <2>1. client'.step = "lost" /\ client'.id = client.id /\ UNCHANGED results
    BY <1>0, <1>9, LoseItDoes DEF ClientIs
  <2>2. Between' /\ Waits'
    BY <2>1 DEF Between, Waits, Sending
  <2> QED BY <1>0, <1>1, <2>1, <2>2, LosesSent
<1>10. \/ Finish("refused", <<>>)
       \/ frame.kind = "changed" /\ frame.failure # "none" /\ Finish(frame.failure, <<>>)
       \/ /\ frame.kind = "changed" /\ frame.failure = "none" /\ Op.kind = "write" /\ client.part < Op.parts
          /\ ClientIs("next", client.agent, client.part + 1, client.attempt, client.id, client.got, client.open)
          /\ UNCHANGED <<program, results>>
       \/ /\ frame.kind = "changed" /\ frame.failure = "none" /\ (Op.kind = "write" => ~(client.part < Op.parts))
          /\ Finish("done", <<>>)
       \/ LoseIt
  BY <1>0, <1>2, ReceiveChangedDoes
<1> QED BY <1>5, <1>6, <1>7, <1>8, <1>9, <1>10

LEMMA LosingSent ==
  ASSUME TypesOK, Sent, NoAnswer \/ Reconnect \/ GiveUp
  PROVE  Sent'
<1>0. FilesOK /\ ClientOK
  BY DEF TypesOK
<1>1. CASE NoAnswer
  <2>1. /\ client.step # "next" /\ UNCHANGED <<nodes, results>>
        /\ client'.step = "lost" /\ client'.id = client.id
    BY <1>0, <1>1, NoAnswerDoes DEF ClientIs, filesVars
  <2>2. Between' /\ Waits'
    BY <2>1 DEF Between, Waits, Sending
  <2> QED BY <1>0, <2>1, <2>2, LosesSent
<1>2. CASE Reconnect
  <2>1. client.step # "next" /\ UNCHANGED nodes /\ client'.step = "next" /\ client'.id = client.id
    BY <1>0, <1>2, ReconnectDoes DEF ClientIs, filesVars
  <2>2. Waits'
    BY <2>1 DEF Waits, Sending
  <2>3. CASE IsChange(Op) /\ results' = Append(results, Result("lost", <<>>)) /\ program' = <<Look1(Op)>>
    <3>1. PICK one: one = Look1(Op) /\ program' = <<one>>
      BY <2>3
    <3>2. Op' = one /\ one.kind = "read"
      BY <3>1 DEF Op, Look1
    <3>3. Between'
      BY <3>2 DEF Between
    <3> QED BY <1>0, <2>1, <2>2, <2>3, <3>3, LostIsSent
  <2>4. CASE ~IsChange(Op) /\ UNCHANGED <<results, program>>
    <3>1. Op'.kind # "write"
      BY <2>4 DEF IsChange, Changes, Op
    <3>2. Between'
      BY <3>1 DEF Between
    <3> QED BY <1>0, <2>1, <2>2, <2>4, <3>2, LosesSent
  <2> QED BY <1>0, <1>2, <2>3, <2>4, ReconnectDoes
<1>3. CASE GiveUp
  <2>1. /\ UNCHANGED nodes /\ program' = <<>> /\ results' = Append(results, Result("lost", <<>>))
        /\ client'.step = "next" /\ client'.id = client.id
    BY <1>0, <1>3, GiveUpDoes DEF ClientIs, filesVars
  <2>2. Between' /\ Waits'
    BY <2>1 DEF Between, Waits, Sending
  <2> QED BY <1>0, <2>1, <2>2, LostIsSent
<1> QED BY <1>1, <1>2, <1>3

----------------------------------------------------------------------------
\* Every step of the system keeps what was sent.
LEMMA NextSent ==
  ASSUME TypesOK, Exchange, Streams, OneChanges, DirectoriesStay, Sent, [Next]_vars
  PROVE  Sent'
<1>0. Wire /\ Frames /\ Settled
  BY DEF Exchange
<1>1. ASSUME UNCHANGED <<filesVars, clientVars, did, job, inbox, outbox>> PROVE Sent'
  <2>1. WaitsOn(Mine)
    BY <1>1 DEF WaitsOn, filesVars
  <2> QED BY <1>1, <2>1, SameFilesSent DEF filesVars
<1>2. CASE ClientStep
  <2>1. Close => UNCHANGED <<filesVars, clientVars, did, job, inbox, outbox>>
    BY DEF Close
  <2> QED BY <1>0, <1>1, <1>2, <2>1, SendRequestSent, ReceiveContentsSent, ReceiveChangedSent, LosingSent
          DEF ClientStep
<1>3. CASE NoAnswer
  BY <1>3, LosingSent
<1>4. ASSUME NEW a \in Agents, Work(a) \/ EndAgent(a) PROVE Sent'
  BY <1>0, <1>4, TakeSent, AnswerChangeSent, ReadingSent, FilesStepSent, EndAgentSent DEF Work
<1>5. CASE OthersMove /\ UNCHANGED <<clientVars, pipeVars>>
  BY <1>5, OthersSent
<1>6. CASE Done \/ UNCHANGED vars
  BY <1>1, <1>6 DEF Done, vars, pipeVars
<1> QED BY <1>2, <1>3, <1>4, <1>5, <1>6 DEF Next

LEMMA InitSent == Init => Sent
<1> SUFFICES ASSUME Init PROVE Sent
  OBVIOUS
<1>1. client.step = "next" /\ client.part = 1 /\ client.id = 0 /\ results = <<>>
  BY DEF Init, Resting
<1>2. HasWritten /\ Between /\ Waits
  BY <1>1 DEF HasWritten, LastIsWrite, Between, Waits, Sending
<1>3. ByKnown
  BY InitLeft DEF Left
<1> QED BY <1>2, <1>3 DEF Sent

LEMMA SentIsEnough == Sent => WrittenAsSent
BY DEF Sent, HasWritten, LastIsWrite, Wrote, HasParts, PartsTo, OwnedSince, MadeSince, Owned, WrittenAsSent

(* A write that is answered with success has put its parts, in order and   *)
(* nothing else, into the file of its first one, whatever an earlier write *)
(* left and whatever is lost, refused or late; and what was made for it is *)
(* the user's (`write_file`, client/ops.rs:69-86, which sends the parts    *)
(* one by one; `write_first` and `write_more`, agent/dispatch/writes.rs:   *)
(* 23-49; `own_created`, agent/dispatch/ownership.rs:23-34).               *)
THEOREM WrittenAsSentHolds ==
  ASSUME PartsAreReadable, DirectoriesStay
  PROVE  Spec => []WrittenAsSent
<1> DEFINE All == TypesOK /\ Exchange /\ Contents /\ Streams /\ OneChanges /\ Sent
<1>1. Init => All
  BY InitTypes, InitExchange, InitContents, InitStreams, InitOneChanges, InitSent
<1>2. All /\ [Next]_vars => All'
  BY NextTypes, NextExchange, NextContents, NextStreams, NextOneChanges, NextSent DEF Exchange
<1>3. All => WrittenAsSent
  BY SentIsEnough
<1> QED BY <1>1, <1>2, <1>3, PTL DEF Spec
=============================================================================
