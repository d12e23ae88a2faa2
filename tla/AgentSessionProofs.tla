------------------------- MODULE AgentSessionProofs -------------------------
EXTENDS AgentSession, SequenceTheorems, WellFoundedInduction, TLAPS

(***************************************************************************)
(* Types.                                                                  *)
(***************************************************************************)
\* A sequence, of whatever it holds.
IsSeq(s) == s \in Seq(ToSet(s))

\* The files, and what each agent has open of them.
IsNode(n) ==
  /\ n = [kind |-> n.kind, by |-> n.by, owner |-> n.owner, parts |-> n.parts, mode |-> n.mode]
  /\ n.by \in Nat /\ IsSeq(n.parts)

FilesOK ==
  /\ sudo \in BOOLEAN
  /\ IsSeq(nodes) /\ \A n \in DOMAIN nodes: IsNode(nodes[n])
  /\ names \in [Paths -> 0 .. Len(nodes)]
  /\ writing \in [Agents -> [Paths -> 0 .. Len(nodes)]]
  /\ budget \in [moves : Nat, fails : Nat, losses : Nat, garbled : Nat]

\* Requests, and the steps that a job takes for each kind of them.
IsRequest(r) ==
  /\ r.kind \in Changes \cup {"read"} /\ r.id \in Nat \ {0}
  /\ r.kind \in Changes => r.path \in Paths \ {<<>>}
  /\ r.kind = "write" => r.part[2] \in Nat \ {0} /\ r.more \in BOOLEAN
  /\ r.kind = "read" => /\ r = [kind |-> "read", paths |-> r.paths, bad |-> r.bad, id |-> r.id]
                        /\ r.paths \in Seq(Paths)

Making == {"parents", "mkdir", "create", "own", "unmake", "unlinkMade", "undo"}
Steps(kind) ==
  IF kind = "write" THEN Making \cup {"look", "open", "write", "answer"}
  ELSE IF kind = "symlink" THEN Making \cup {"answer"}
  ELSE IF kind = "remove" THEN {"remove", "unlink", "answer"}
  ELSE IF kind = "chmod" THEN {"chmod", "answer"}
  ELSE {"read"}

(* A job in hand.  A step that changes a file has one; a step that looks for *)
(* the place has none, and has not failed.                                   *)
JobFields(j) ==
  j = [request |-> j.request, step |-> j.step, seen |-> j.seen, todo |-> j.todo, made |-> j.made,
       id |-> j.id, failure |-> j.failure, left |-> j.left, wrote |-> j.wrote]
IsJob(j) ==
  /\ JobFields(j)
  /\ IsRequest(j.request) /\ j.step \in Steps(j.request.kind)
  /\ j.seen \in BOOLEAN /\ j.wrote \in BOOLEAN /\ j.left \subseteq Paths
  /\ IsSeq(j.todo) /\ IsSeq(j.made)
  /\ j.request.kind \in Changes => j.todo \in Seq(Paths) /\ j.made \in Seq(Paths)
  /\ j.id \in 0 .. Len(nodes)
  /\ j.step = "own" => j.todo # <<>>
  /\ j.step \in {"look", "open", "parents", "mkdir", "create"} => j.id = 0 /\ j.failure = "none"
  /\ j.step \in {"look", "open", "parents"} => j.made = <<>> /\ j.todo = <<>>
  /\ j.step \in {"own", "unmake", "unlinkMade", "write"} => j.id # 0
  /\ j.step \in {"own", "write"} => j.failure = "none"

Busy(a) == job[a] # Idle
Pending(a) == Busy(a) \/ inbox[a] # <<>>
\* The request that an agent has in hand, or is about to take.
Asked(a) == IF inbox[a] # <<>> THEN Head(inbox[a]) ELSE job[a].request

JobsOK == DOMAIN job = Agents /\ \A a \in Agents: Busy(a) => IsJob(job[a])

\* What is on its way, and what the client is doing.
PipesOK ==
  /\ DOMAIN inbox = Agents /\ DOMAIN outbox = Agents /\ DOMAIN ended = Agents
  /\ \A a \in Agents: IsSeq(inbox[a]) /\ \A k \in DOMAIN inbox[a]: IsRequest(inbox[a][k])
  /\ \A a \in Agents: IsSeq(outbox[a])

ClientOK ==
  /\ client = [step |-> client.step, agent |-> client.agent, part |-> client.part,
               attempt |-> client.attempt, id |-> client.id, got |-> client.got,
               open |-> client.open]
  /\ client.step \in {"next", "wait", "lost"} /\ client.agent \in Agents
  /\ client.part \in Nat \ {0}
  /\ IsSeq(program) /\ \A i \in DOMAIN program: IsOperation(program[i])
  /\ IsSeq(results) /\ IsSeq(did)
  /\ client.id = Len(did)
  /\ client.step # "next" => program # <<>> /\ Op.kind # "huge" /\ client.id # 0
  /\ (program # <<>> /\ Op.kind = "write") => client.part <= Op.parts
  /\ (program # <<>> /\ Op.kind # "write" /\ client.part # 1) =>
       \A i \in DOMAIN program: ~IsChange(program[i])

TypesOK == FilesOK /\ JobsOK /\ PipesOK /\ ClientOK

(***************************************************************************)
(* The exchange.  At most one request is on its way to an agent or in hand *)
(* there; those that earlier agents still have are older than the client's *)
(* own; and before a request is sent nothing is on its way, unless the     *)
(* client has given up.                                                    *)
(***************************************************************************)
\* A request of the client for what it is doing.
IsFor(r) ==
  /\ r.kind = Op.kind
  /\ r.kind \in Changes => r.path = Op.path
  /\ r.kind = "write" => r.part = <<Op.name, client.part>> /\ r.more = (client.part < Op.parts)

Wire ==
  /\ \A a \in Agents: inbox[a] # <<>> => Len(inbox[a]) = 1 /\ ~Busy(a)
  /\ \A a \in Agents: Pending(a) => a <= Mine /\ Asked(a).id <= client.id
  /\ \A a \in Agents: (Pending(a) /\ a # Mine /\ client.step # "next") => Asked(a).id < client.id
  /\ \A a, b \in Agents: (Pending(a) /\ Pending(b) /\ a < b) => Asked(a).id < Asked(b).id
  /\ \A a \in Agents: a > Mine => outbox[a] = <<>> /\ writing[a] = NoFiles
  /\ client.step = "next" =>
       \/ ~Pending(Mine) /\ outbox[Mine] = <<>>
       \/ program = <<>> /\ results # <<>> /\ Last(results).is = "lost"
  /\ (client.step # "next" /\ Pending(Mine)) => Asked(Mine).id = client.id /\ IsFor(Asked(Mine))
  /\ (client.step = "wait" /\ inbox[Mine] # <<>>) => outbox[Mine] = <<>>

(* The frames on their way to a client that waits: parts of the answer, and  *)
(* at the end, once the agent is done, one that tells what became of it.     *)
Partial(frame) == Op.kind = "read" /\ frame.kind = "contents" /\ ~frame.last
Final(frame) ==
  LET came == did[client.id]
  IN  \/ frame.kind = "refused" /\ came.is = "refused" /\ came.got = <<>>
      \/ /\ frame.kind = "changed" /\ Op.kind # "read" /\ came.got = <<>>
         /\ came.is = IF frame.failure = "none" THEN "done" ELSE frame.failure
      \/ /\ frame.kind = "contents" /\ Op.kind = "read" /\ frame.last
         /\ came.is = IF frame.bad THEN "refused" ELSE "read"
         /\ frame.bad => came.got = <<>>
Frames ==
  client.step = "wait" => \A k \in DOMAIN outbox[Mine]:
    IF Pending(Mine) \/ k < Len(outbox[Mine]) THEN Partial(outbox[Mine][k])
    ELSE Partial(outbox[Mine][k]) \/ Final(outbox[Mine][k])

(* A result is of a request that no agent has any more, and is what became   *)
(* of it.                                                                    *)
Agrees(result, came) == result.is = came.is /\ result.got = came.got
Settled ==
  \A i \in DOMAIN results:
    /\ results[i].id \in 0 .. client.id
    /\ (results[i].id # 0 /\ results[i].is # "lost") =>
         /\ \A a \in Agents: Pending(a) => Asked(a).id # results[i].id
         /\ Agrees(results[i], did[results[i].id])

----------------------------------------------------------------------------
\* Sequences of anything.
LEMMA AnySeq ==
  ASSUME NEW S, NEW s \in Seq(S)
  PROVE  /\ IsSeq(s) /\ Len(s) \in Nat /\ DOMAIN s = 1 .. Len(s)
         /\ s = <<>> <=> Len(s) = 0
         /\ \A i \in DOMAIN s: s[i] \in S
<1>1. s \in [1 .. Len(s) -> S] /\ Len(s) \in Nat /\ DOMAIN s = 1 .. Len(s)
  BY LenProperties
<1>2. s \in [1 .. Len(s) -> ToSet(s)]
  BY <1>1 DEF ToSet
<1>3. IsSeq(s)
  BY <1>1, <1>2, SeqDef DEF IsSeq
<1>4. s = <<>> <=> Len(s) = 0
  BY EmptySeq
<1> QED BY <1>1, <1>3, <1>4

LEMMA SeqFacts ==
  ASSUME NEW s, IsSeq(s)
  PROVE  /\ Len(s) \in Nat /\ DOMAIN s = 1 .. Len(s)
         /\ s = <<>> <=> Len(s) = 0
BY AnySeq DEF IsSeq

LEMMA EmptyIsSeq == IsSeq(<<>>) /\ Len(<<>>) = 0 /\ DOMAIN <<>> = {}
<1>1. <<>> \in Seq({})
  BY EmptySeq
<1>2. IsSeq(<<>>)
  BY <1>1, AnySeq
<1>3. Len(<<>>) = 0 /\ DOMAIN <<>> = 1 .. Len(<<>>)
  BY <1>2, SeqFacts, EmptySeq
<1> QED BY <1>2, <1>3

LEMMA AppendFacts ==
  ASSUME NEW s, IsSeq(s), NEW e
  PROVE  /\ IsSeq(Append(s, e)) /\ Len(Append(s, e)) = Len(s) + 1
         /\ DOMAIN Append(s, e) = 1 .. Len(s) + 1 /\ Append(s, e) # <<>>
         /\ \A i \in DOMAIN s: Append(s, e)[i] = s[i]
         /\ Append(s, e)[Len(s) + 1] = e
         /\ Last(Append(s, e)) = e
<1> DEFINE S == ToSet(s) \cup {e}
<1>1. s \in Seq(S) /\ e \in S
  <2>1. s \in Seq(ToSet(s)) /\ ToSet(s) \subseteq S
    BY DEF IsSeq
  <2> QED BY <2>1, SeqMonotonic
<1>2. /\ Append(s, e) \in Seq(S) /\ Append(s, e) # <<>> /\ Len(Append(s, e)) = Len(s) + 1
      /\ \A i \in 1 .. Len(s) : Append(s, e)[i] = s[i]
      /\ Append(s, e)[Len(s) + 1] = e
  BY <1>1, AppendProperties
<1>3. IsSeq(Append(s, e)) /\ DOMAIN Append(s, e) = 1 .. Len(s) + 1
  BY <1>2, AnySeq
<1> QED BY <1>2, <1>3, SeqFacts DEF Last

LEMMA TailFacts ==
  ASSUME NEW s, IsSeq(s), s # <<>>
  PROVE  /\ IsSeq(Tail(s)) /\ Len(Tail(s)) = Len(s) - 1 /\ DOMAIN Tail(s) = 1 .. Len(s) - 1
         /\ \A i \in DOMAIN Tail(s): Tail(s)[i] = s[i + 1] /\ i + 1 \in DOMAIN s
         /\ Len(s) \in Nat \ {0} /\ Head(s) = s[1] /\ 1 \in DOMAIN s /\ Len(s) \in DOMAIN s
<1>1. s \in Seq(ToSet(s))
  BY DEF IsSeq
<1>2. /\ Tail(s) \in Seq(ToSet(s)) /\ Len(Tail(s)) = Len(s) - 1
      /\ \A i \in 1 .. Len(Tail(s)) : Tail(s)[i] = s[i + 1]
  BY <1>1, HeadTailProperties
<1>3. IsSeq(Tail(s)) /\ DOMAIN Tail(s) = 1 .. Len(Tail(s))
  BY <1>2, AnySeq
<1>4. Head(s) = s[1]
  BY <1>1
<1> QED BY <1>2, <1>3, <1>4, SeqFacts

LEMMA SetAt ==
  ASSUME NEW s, IsSeq(s), NEW i \in DOMAIN s, NEW e, NEW t, t = [s EXCEPT ![i] = e]
  PROVE  /\ IsSeq(t) /\ Len(t) = Len(s) /\ DOMAIN t = DOMAIN s
         /\ \A j \in DOMAIN s: t[j] = IF j = i THEN e ELSE s[j]
<1> DEFINE S == ToSet(s) \cup {e}
<1>1. s \in Seq(S) /\ e \in S
  <2>1. s \in Seq(ToSet(s)) /\ ToSet(s) \subseteq S
    BY DEF IsSeq
  <2> QED BY <2>1, SeqMonotonic
<1>2. i \in 1 .. Len(s) /\ DOMAIN s = 1 .. Len(s)
  BY SeqFacts
<1>3. /\ t \in Seq(S) /\ Len(t) = Len(s)
      /\ \A j \in 1 .. Len(s) : t[j] = IF j = i THEN e ELSE s[j]
  BY <1>1, <1>2, ExceptSeq
<1> QED BY <1>2, <1>3, AnySeq

LEMMA ConcatFacts ==
  ASSUME NEW s, IsSeq(s), NEW t, IsSeq(t)
  PROVE  /\ IsSeq(s \o t) /\ Len(s \o t) = Len(s) + Len(t) /\ DOMAIN (s \o t) = 1 .. Len(s) + Len(t)
         /\ \A i \in 1 .. Len(s) + Len(t): (s \o t)[i] = IF i <= Len(s) THEN s[i] ELSE t[i - Len(s)]
<1> DEFINE S == ToSet(s) \cup ToSet(t)
<1>1. s \in Seq(S) /\ t \in Seq(S)
  <2>1. s \in Seq(ToSet(s)) /\ t \in Seq(ToSet(t)) /\ ToSet(s) \subseteq S /\ ToSet(t) \subseteq S
    BY DEF IsSeq
  <2> QED BY <2>1, SeqMonotonic
<1>2. /\ s \o t \in Seq(S) /\ Len(s \o t) = Len(s) + Len(t)
      /\ \A i \in 1 .. Len(s) + Len(t): (s \o t)[i] = IF i <= Len(s) THEN s[i] ELSE t[i - Len(s)]
  BY <1>1, ConcatProperties
<1>3. IsSeq(s \o t) /\ DOMAIN (s \o t) = 1 .. Len(s \o t)
  BY <1>2, AnySeq
<1> QED BY <1>2, <1>3

LEMMA SubSeqFacts ==
  ASSUME NEW s, IsSeq(s), NEW m \in 1 .. Len(s) + 1, NEW n \in m - 1 .. Len(s)
  PROVE  /\ IsSeq(SubSeq(s, m, n)) /\ Len(SubSeq(s, m, n)) = n - m + 1
         /\ DOMAIN SubSeq(s, m, n) = 1 .. n - m + 1
         /\ \A i \in 1 .. n - m + 1: SubSeq(s, m, n)[i] = s[m + i - 1] /\ m + i - 1 \in DOMAIN s
<1>1. Len(s) \in Nat /\ DOMAIN s = 1 .. Len(s) /\ m \in Int /\ n \in Int
  BY SeqFacts
<1>2. \A i \in m .. n: s[i] \in ToSet(s)
  BY <1>1 DEF ToSet
<1>3. /\ SubSeq(s, m, n) \in Seq(ToSet(s))
      /\ Len(SubSeq(s, m, n)) = IF m <= n THEN n - m + 1 ELSE 0
      /\ \A i \in 1 .. n - m + 1 : SubSeq(s, m, n)[i] = s[m + i - 1]
  BY <1>1, <1>2, SubSeqProperties
<1>4. IsSeq(SubSeq(s, m, n)) /\ DOMAIN SubSeq(s, m, n) = 1 .. Len(SubSeq(s, m, n))
  BY <1>3, AnySeq
<1>5. Len(SubSeq(s, m, n)) = n - m + 1
  BY <1>1, <1>3
<1> QED BY <1>1, <1>3, <1>4, <1>5

----------------------------------------------------------------------------
\* The tree after a step.
Later ==
  /\ IsSeq(nodes)' /\ Len(nodes) <= Len(nodes')
  /\ \A n \in DOMAIN nodes': IsNode(nodes'[n])
  /\ \A n \in DOMAIN nodes: n \in DOMAIN nodes' /\ nodes'[n].by = nodes[n].by

LEMMA LaterStays ==
  ASSUME FilesOK, UNCHANGED nodes
  PROVE  Later
BY SeqFacts DEF FilesOK, Later

LEMMA PlaceFacts ==
  ASSUME FilesOK, NEW p \in Paths, NEW kind, NEW by \in Nat, NEW owner, Place(p, kind, by, owner)
  PROVE  /\ Later /\ Len(nodes') = Len(nodes) + 1
         /\ names' \in [Paths -> 0 .. Len(nodes')]
         /\ names'[p] = Len(nodes) + 1 /\ \A q \in Paths \ {p}: names'[q] = names[q]
         /\ nodes'[Len(nodes) + 1] = Node(kind, by, owner)
         /\ \A n \in DOMAIN nodes: nodes'[n] = nodes[n]
         /\ Len(nodes) + 1 \notin DOMAIN nodes
<1>1. /\ IsSeq(nodes)' /\ Len(nodes') = Len(nodes) + 1 /\ DOMAIN nodes' = 1 .. Len(nodes) + 1
      /\ \A n \in DOMAIN nodes: nodes'[n] = nodes[n]
      /\ nodes'[Len(nodes) + 1] = Node(kind, by, owner)
  BY AppendFacts DEF FilesOK, Place, IsSeq
<1>2. Len(nodes) \in Nat /\ DOMAIN nodes = 1 .. Len(nodes)
  BY SeqFacts DEF FilesOK
<1>3. IsNode(Node(kind, by, owner))
  BY EmptyIsSeq DEF IsNode, Node
<1>4. Later
  BY <1>1, <1>2, <1>3 DEF FilesOK, Later
<1>5. /\ names' \in [Paths -> 0 .. Len(nodes')]
      /\ names'[p] = Len(nodes) + 1 /\ \A q \in Paths \ {p}: names'[q] = names[q]
  BY <1>1, <1>2 DEF FilesOK, Place
<1> QED BY <1>1, <1>2, <1>4, <1>5

\* A node is changed in one field or another, but never in who made it.
LEMMA NodeChanges ==
  ASSUME FilesOK, NEW n \in DOMAIN nodes, NEW node, IsNode(node), node.by = nodes[n].by,
         nodes' = [nodes EXCEPT ![n] = node]
  PROVE  Later /\ Len(nodes') = Len(nodes) /\ DOMAIN nodes' = DOMAIN nodes
         /\ \A k \in DOMAIN nodes: nodes'[k] = IF k = n THEN node ELSE nodes[k]
<1>1. IsSeq(nodes) /\ Len(nodes) \in Nat
  BY SeqFacts DEF FilesOK
<1>2. IsSeq(nodes)'
  BY <1>1, SetAt DEF IsSeq
<1>3. Len(nodes') = Len(nodes) /\ DOMAIN nodes' = DOMAIN nodes
  BY <1>1, SetAt
<1>4. \A k \in DOMAIN nodes: nodes'[k] = IF k = n THEN node ELSE nodes[k]
  OBVIOUS
<1>5. \A k \in DOMAIN nodes': IsNode(nodes'[k])
  BY <1>3, <1>4 DEF FilesOK
<1> QED BY <1>1, <1>2, <1>3, <1>4, <1>5 DEF Later

\* A job may go on with what it has, and a request stays what it is.
LEMMA JobStays ==
  ASSUME FilesOK, Later, NEW j, IsJob(j)
  PROVE  /\ j.id \in 0 .. Len(nodes')
         /\ IsSeq(j.todo) /\ IsSeq(j.made)
<1>1. Len(nodes) \in Nat /\ Len(nodes') \in Nat
  BY SeqFacts DEF FilesOK, Later, IsSeq
<1> QED BY <1>1 DEF IsJob, Later

LEMMA RestIsKept ==
  ASSUME FilesOK, Later, UNCHANGED <<names, writing>>
  PROVE  /\ names' \in [Paths -> 0 .. Len(nodes')]
         /\ writing' \in [Agents -> [Paths -> 0 .. Len(nodes')]]
<1>1. Len(nodes) \in Nat /\ Len(nodes') \in Nat /\ Len(nodes) <= Len(nodes')
  BY SeqFacts DEF FilesOK, Later, IsSeq
<1>2. 0 .. Len(nodes) \subseteq 0 .. Len(nodes')
  BY <1>1
<1> QED BY <1>2 DEF FilesOK
LEMMA WritingIsKept ==
  ASSUME FilesOK, Later, UNCHANGED writing
  PROVE  writing' \in [Agents -> [Paths -> 0 .. Len(nodes')]]
<1>1. Len(nodes) \in Nat /\ Len(nodes') \in Nat /\ Len(nodes) <= Len(nodes')
  BY SeqFacts DEF FilesOK, Later, IsSeq
<1>2. 0 .. Len(nodes) \subseteq 0 .. Len(nodes')
  BY <1>1
<1> QED BY <1>2 DEF FilesOK

----------------------------------------------------------------------------
\* What the step of a job makes of it.
Becomes(a, step, seen, todo, made, id, failure, left, wrote) ==
  /\ DOMAIN job' = Agents /\ \A b \in Agents \ {a}: job'[b] = job[b]
  /\ job'[a] = [request |-> job[a].request, step |-> step, seen |-> seen, todo |-> todo,
                made |-> made, id |-> id, failure |-> failure, left |-> left, wrote |-> wrote]
GoesTo(a, step, failure) ==
  Becomes(a, step, job[a].seen, job[a].todo, job[a].made, job[a].id, failure, job[a].left, job[a].wrote)

JobMoves(a) ==
  /\ Busy(a) /\ DOMAIN job' = Agents /\ \A b \in Agents \ {a}: job'[b] = job[b]
  /\ job'[a].request = job[a].request /\ job'[a] # Idle
  /\ IsJob(job[a])'

\* A job is at no step before it is taken.
LEMMA AtIsBusy ==
  ASSUME JobsOK, NEW a \in Agents, NEW s, At(a, s), s # "idle"
  PROVE  Busy(a) /\ IsJob(job[a]) /\ JobFields(job[a]) /\ s \in Steps(job[a].request.kind)
BY DEF JobsOK, Busy, Idle, At, IsJob

LEMMA ToDoes ==
  ASSUME JobsOK, NEW a \in Agents, JobFields(job[a]), NEW s, To(a, s)
  PROVE  GoesTo(a, s, job[a].failure)
<1>1. PICK j: j = [job[a] EXCEPT !.step = s] /\ job' = [job EXCEPT ![a] = j]
  BY DEF To, Continue
<1>2. j = [request |-> job[a].request, step |-> s, seen |-> job[a].seen, todo |-> job[a].todo,
           made |-> job[a].made, id |-> job[a].id, failure |-> job[a].failure,
           left |-> job[a].left, wrote |-> job[a].wrote]
  BY <1>1 DEF JobFields
<1> QED BY <1>1, <1>2 DEF GoesTo, Becomes, JobsOK

LEMMA FailDoes ==
  ASSUME JobsOK, NEW a \in Agents, JobFields(job[a]), NEW f, Fail(a, f)
  PROVE  GoesTo(a, "answer", f)
<1>1. PICK j: j = [job[a] EXCEPT !.step = "answer", !.failure = f] /\ job' = [job EXCEPT ![a] = j]
  BY DEF Fail, Continue
<1>2. j = [request |-> job[a].request, step |-> "answer", seen |-> job[a].seen, todo |-> job[a].todo,
           made |-> job[a].made, id |-> job[a].id, failure |-> f,
           left |-> job[a].left, wrote |-> job[a].wrote]
  BY <1>1 DEF JobFields
<1> QED BY <1>1, <1>2 DEF GoesTo, Becomes, JobsOK

LEMMA FailUndoingDoes ==
  ASSUME JobsOK, NEW a \in Agents, JobFields(job[a]), NEW f, FailUndoing(a, f)
  PROVE  GoesTo(a, "undo", f)
<1>1. PICK j: j = [job[a] EXCEPT !.step = "undo", !.failure = f] /\ job' = [job EXCEPT ![a] = j]
  BY DEF FailUndoing, Continue
<1>2. j = [request |-> job[a].request, step |-> "undo", seen |-> job[a].seen, todo |-> job[a].todo,
           made |-> job[a].made, id |-> job[a].id, failure |-> f,
           left |-> job[a].left, wrote |-> job[a].wrote]
  BY <1>1 DEF JobFields
<1> QED BY <1>1, <1>2 DEF GoesTo, Becomes, JobsOK

LEMMA LookDoes ==
  ASSUME JobsOK, NEW a \in Agents, Look(a)
  PROVE  Becomes(a, IF names[Path(a)] # 0 THEN "open" ELSE "parents", names[Path(a)] # 0, job[a].todo,
                 job[a].made, job[a].id, job[a].failure, job[a].left, job[a].wrote)
<1>0. JobFields(job[a])
  BY AtIsBusy DEF Look
<1>1. PICK found \in BOOLEAN: found = (names[Path(a)] # 0)
  OBVIOUS
<1>2. PICK j: /\ j = [job[a] EXCEPT !.seen = found, !.step = IF found THEN "open" ELSE "parents"]
              /\ job' = [job EXCEPT ![a] = j]
  BY <1>1 DEF Look, Continue
<1>3. j = [request |-> job[a].request, step |-> IF found THEN "open" ELSE "parents",
           seen |-> found, todo |-> job[a].todo,
           made |-> job[a].made, id |-> job[a].id, failure |-> job[a].failure,
           left |-> job[a].left, wrote |-> job[a].wrote]
  BY <1>0, <1>2 DEF JobFields
<1> QED BY <1>1, <1>2, <1>3 DEF Becomes, JobsOK

LEMMA ContinueDoes ==
  ASSUME JobsOK, NEW a \in Agents, NEW step, NEW seen, NEW todo, NEW made, NEW id, NEW failure,
         NEW left, NEW wrote, NEW j, Continue(a, j),
         j = [request |-> job[a].request, step |-> step, seen |-> seen, todo |-> todo, made |-> made,
              id |-> id, failure |-> failure, left |-> left, wrote |-> wrote]
  PROVE  Becomes(a, step, seen, todo, made, id, failure, left, wrote)
BY DEF Continue, Becomes, JobsOK

LEMMA OpenExistingDoes ==
  ASSUME JobsOK, NEW a \in Agents, OpenExisting(a)
  PROVE  \/ UNCHANGED nodes /\ GoesTo(a, "parents", job[a].failure)
         \/ UNCHANGED nodes /\ \E f \in {"notDirectory", "io"}: GoesTo(a, "answer", f)
         \/ /\ Kind(Path(a)) = "file" /\ nodes' = [nodes EXCEPT ![names[Path(a)]].parts = <<>>]
            /\ Becomes(a, "write", job[a].seen, job[a].todo, job[a].made, names[Path(a)],
                       job[a].failure, job[a].left, TRUE)
<1>0. JobFields(job[a])
  BY AtIsBusy DEF OpenExisting
<1>1. ASSUME UNCHANGED nodes, IF Blocked(Path(a)) THEN Fail(a, "notDirectory") ELSE To(a, "parents")
      PROVE  GoesTo(a, "answer", "notDirectory") \/ GoesTo(a, "parents", job[a].failure)
  BY <1>0, <1>1, ToDoes, FailDoes
<1>2. ASSUME Fail(a, "io")
      PROVE  GoesTo(a, "answer", "io")
  BY <1>0, <1>2, FailDoes
<1>3. ASSUME Continue(a, [job[a] EXCEPT !.id = names[Path(a)], !.step = "write", !.wrote = TRUE])
      PROVE  Becomes(a, "write", job[a].seen, job[a].todo, job[a].made, names[Path(a)],
                     job[a].failure, job[a].left, TRUE)
  <2>1. PICK j: j = [job[a] EXCEPT !.id = names[Path(a)], !.step = "write", !.wrote = TRUE]
                /\ Continue(a, j)
    BY <1>3
  <2>2. j = [request |-> job[a].request, step |-> "write", seen |-> job[a].seen, todo |-> job[a].todo,
             made |-> job[a].made, id |-> names[Path(a)], failure |-> job[a].failure,
             left |-> job[a].left, wrote |-> TRUE]
    BY <1>0, <2>1 DEF JobFields
  <2> QED BY <2>1, <2>2, ContinueDoes
<1> QED BY <1>1, <1>2, <1>3 DEF OpenExisting

\* The parents that are made, when those up to one place are there.
Below(p, held) == SubSeq(Parents(p), held + 1, Len(p) - 1)

LEMMA FindParentsDoes ==
  ASSUME JobsOK, NEW a \in Agents, FindParents(a)
  PROVE  \/ GoesTo(a, "answer", "rootGone")
         \/ \E held \in 0 .. Len(Path(a)) - 1:
              Becomes(a, "mkdir", job[a].seen, Below(Path(a), held),
                      job[a].made, job[a].id, job[a].failure, job[a].left, job[a].wrote)
<1>0. JobFields(job[a])
  BY AtIsBusy DEF FindParents
<1>1. ASSUME NEW missing, Continue(a, [job[a] EXCEPT !.step = "mkdir", !.todo = missing])
      PROVE  Becomes(a, "mkdir", job[a].seen, missing, job[a].made, job[a].id, job[a].failure,
                     job[a].left, job[a].wrote)
  <2>1. PICK j: j = [job[a] EXCEPT !.step = "mkdir", !.todo = missing] /\ Continue(a, j)
    BY <1>1
  <2>2. j = [request |-> job[a].request, step |-> "mkdir", seen |-> job[a].seen, todo |-> missing,
             made |-> job[a].made, id |-> job[a].id, failure |-> job[a].failure,
             left |-> job[a].left, wrote |-> job[a].wrote]
    BY <1>0, <2>1 DEF JobFields
  <2> QED BY <2>1, <2>2, ContinueDoes
<1>2. ASSUME Fail(a, "rootGone")
      PROVE  GoesTo(a, "answer", "rootGone")
  BY <1>0, <1>2, FailDoes
<1> QED BY <1>1, <1>2 DEF FindParents, Below

LEMMA MakeParentDoes ==
  ASSUME JobsOK, NEW a \in Agents, MakeParent(a)
  PROVE  \/ /\ names[Head(job[a].todo)] = 0
            /\ Place(Head(job[a].todo), "dir", job[a].request.id, Maker)
            /\ Becomes(a, job[a].step, job[a].seen, Tail(job[a].todo),
                       Append(job[a].made, Head(job[a].todo)),
                       job[a].id, job[a].failure, job[a].left, job[a].wrote)
         \/ /\ UNCHANGED <<names, nodes>>
            /\ Becomes(a, job[a].step, job[a].seen, Tail(job[a].todo), job[a].made, job[a].id,
                       job[a].failure, job[a].left, job[a].wrote)
         \/ UNCHANGED <<names, nodes>> /\ \E f \in {"notDirectory", "io"}: GoesTo(a, "undo", f)
<1>0. JobFields(job[a])
  BY AtIsBusy DEF MakeParent
<1> DEFINE dir == Head(job[a].todo)
           rest == [job[a] EXCEPT !.todo = Tail(@)]
<1>1. ASSUME Continue(a, [rest EXCEPT !.made = Append(@, dir)])
      PROVE  Becomes(a, job[a].step, job[a].seen, Tail(job[a].todo), Append(job[a].made, dir),
                     job[a].id, job[a].failure, job[a].left, job[a].wrote)
  <2>1. PICK r: r = [job[a] EXCEPT !.todo = Tail(@)] /\ Continue(a, [r EXCEPT !.made = Append(@, dir)])
    BY <1>1
  <2>2. PICK j: j = [r EXCEPT !.made = Append(@, dir)] /\ Continue(a, j)
    BY <2>1
  <2>3. r = [request |-> job[a].request, step |-> job[a].step, seen |-> job[a].seen,
             todo |-> Tail(job[a].todo), made |-> job[a].made, id |-> job[a].id,
             failure |-> job[a].failure, left |-> job[a].left, wrote |-> job[a].wrote]
    BY <1>0, <2>1 DEF JobFields
  <2>4. j = [request |-> job[a].request, step |-> job[a].step, seen |-> job[a].seen,
             todo |-> Tail(job[a].todo), made |-> Append(job[a].made, dir), id |-> job[a].id,
             failure |-> job[a].failure, left |-> job[a].left, wrote |-> job[a].wrote]
    BY <2>2, <2>3
  <2> QED BY <2>2, <2>4, ContinueDoes
<1>2. ASSUME Continue(a, rest)
      PROVE  Becomes(a, job[a].step, job[a].seen, Tail(job[a].todo), job[a].made,
                     job[a].id, job[a].failure, job[a].left, job[a].wrote)
  <2>1. PICK r: r = [job[a] EXCEPT !.todo = Tail(@)] /\ Continue(a, r)
    BY <1>2
  <2>2. r = [request |-> job[a].request, step |-> job[a].step, seen |-> job[a].seen,
             todo |-> Tail(job[a].todo), made |-> job[a].made, id |-> job[a].id,
             failure |-> job[a].failure, left |-> job[a].left, wrote |-> job[a].wrote]
    BY <1>0, <2>1 DEF JobFields
  <2> QED BY <2>1, <2>2, ContinueDoes
<1>3. ASSUME NEW f, FailUndoing(a, f)
      PROVE  GoesTo(a, "undo", f)
  BY <1>0, <1>3, FailUndoingDoes
<1> QED BY <1>1, <1>2, <1>3 DEF MakeParent

LEMMA ParentsMadeDoes ==
  ASSUME JobsOK, NEW a \in Agents, ParentsMade(a)
  PROVE  GoesTo(a, "create", job[a].failure) \/ GoesTo(a, "undo", "notDirectory")
<1>0. JobFields(job[a])
  BY AtIsBusy DEF ParentsMade
<1> QED BY <1>0, ToDoes, FailUndoingDoes DEF ParentsMade

\* The kind of entry that a request makes, and what follows when it is made.
Made(a) == IF job[a].request.kind = "symlink" THEN "link" ELSE "file"
AfterMade(a) == IF sudo THEN "own" ELSE IF job[a].request.kind = "symlink" THEN "answer" ELSE "write"

LEMMA CreateDoes ==
  ASSUME JobsOK, NEW a \in Agents, Create(a)
  PROVE  \/ /\ names[Path(a)] = 0 /\ Place(Path(a), Made(a), job[a].request.id, Maker)
            /\ Becomes(a, AfterMade(a), job[a].seen, Append(job[a].made, Path(a)), job[a].made,
                       Len(nodes) + 1, job[a].failure, job[a].left, job[a].wrote)
         \/ UNCHANGED <<names, nodes>> /\ GoesTo(a, "undo", "io")
<1>0. JobFields(job[a])
  BY AtIsBusy DEF Create
<1>1. ASSUME NEW id, NEW next,
             Continue(a, [job[a] EXCEPT !.id = id, !.step = next,
                                        !.todo = Append(job[a].made, Path(a))])
      PROVE  Becomes(a, next, job[a].seen, Append(job[a].made, Path(a)), job[a].made,
                     id, job[a].failure, job[a].left, job[a].wrote)
  <2>1. PICK j: j = [job[a] EXCEPT !.id = id, !.step = next, !.todo = Append(job[a].made, Path(a))]
                /\ Continue(a, j)
    BY <1>1
  <2>2. j = [request |-> job[a].request, step |-> next, seen |-> job[a].seen,
             todo |-> Append(job[a].made, Path(a)),
             made |-> job[a].made, id |-> id, failure |-> job[a].failure,
             left |-> job[a].left, wrote |-> job[a].wrote]
    BY <1>0, <2>1 DEF JobFields
  <2> QED BY <2>1, <2>2, ContinueDoes
<1>2. ASSUME FailUndoing(a, "io")
      PROVE  GoesTo(a, "undo", "io")
  BY <1>0, <1>2, FailUndoingDoes
<1>3. (IF sudo THEN "own" ELSE IF Made(a) = "file" THEN "write" ELSE "answer") = AfterMade(a)
  BY DEF Made, AfterMade
<1> QED BY <1>1, <1>2, <1>3 DEF Create, MakesNew, Made

\* What an agent of root gives to the user next.
IsLast(a) == Len(job[a].todo) = 1
Given(a) == IF IsLast(a) /\ job[a].request.kind = "write" THEN job[a].id ELSE names[Head(job[a].todo)]
AfterGiven(a) == IF ~IsLast(a) THEN "own" ELSE IF job[a].request.kind = "write" THEN "write" ELSE "answer"

LEMMA OwnDoes ==
  ASSUME JobsOK, NEW a \in Agents, Own(a)
  PROVE  \/ /\ Given(a) # 0 /\ nodes' = [nodes EXCEPT ![Given(a)].owner = "user"]
            /\ Becomes(a, AfterGiven(a), job[a].seen, Tail(job[a].todo), job[a].made, job[a].id,
                       job[a].failure, job[a].left, job[a].wrote)
         \/ /\ UNCHANGED nodes
            /\ GoesTo(a, "unmake", "io")
<1>0. JobFields(job[a])
  BY AtIsBusy DEF Own
<1>1. ASSUME NEW next, Continue(a, [job[a] EXCEPT !.todo = Tail(@), !.step = next])
      PROVE  Becomes(a, next, job[a].seen, Tail(job[a].todo), job[a].made, job[a].id,
                     job[a].failure, job[a].left, job[a].wrote)
  <2>1. PICK j: j = [job[a] EXCEPT !.todo = Tail(@), !.step = next] /\ Continue(a, j)
    BY <1>1
  <2>2. j = [request |-> job[a].request, step |-> next, seen |-> job[a].seen,
             todo |-> Tail(job[a].todo),
             made |-> job[a].made, id |-> job[a].id, failure |-> job[a].failure,
             left |-> job[a].left, wrote |-> job[a].wrote]
    BY <1>0, <2>1 DEF JobFields
  <2> QED BY <2>1, <2>2, ContinueDoes
<1>2. ASSUME Continue(a, [job[a] EXCEPT !.step = "unmake", !.failure = "io"])
      PROVE  GoesTo(a, "unmake", "io")
  <2>1. PICK j: j = [job[a] EXCEPT !.step = "unmake", !.failure = "io"] /\ Continue(a, j)
    BY <1>2
  <2>2. j = [request |-> job[a].request, step |-> "unmake", seen |-> job[a].seen, todo |-> job[a].todo,
             made |-> job[a].made, id |-> job[a].id, failure |-> "io",
             left |-> job[a].left, wrote |-> job[a].wrote]
    BY <1>0, <2>1 DEF JobFields
  <2> QED BY <2>1, <2>2, ContinueDoes DEF GoesTo
<1> QED BY <1>1, <1>2 DEF Own, Given, IsLast, AfterGiven

LEMMA UnmakeDoes ==
  ASSUME JobsOK, NEW a \in Agents, Unmake(a)
  PROVE  \/ GoesTo(a, "unlinkMade", job[a].failure)
         \/ names[Path(a)] = 0 /\ GoesTo(a, "undo", job[a].failure)
         \/ Becomes(a, "undo", job[a].seen, job[a].todo, job[a].made, job[a].id, job[a].failure,
                    job[a].left \cup {Path(a)}, job[a].wrote)
<1>0. JobFields(job[a])
  BY AtIsBusy DEF Unmake
<1> DEFINE gone == names[Path(a)] = 0
           other == job[a].request.kind = "write" /\ ~gone /\ names[Path(a)] # job[a].id
<1>1. PICK j: /\ j = [job[a] EXCEPT !.step = IF gone \/ other THEN "undo" ELSE "unlinkMade",
                                    !.left = IF other THEN @ \cup {Path(a)} ELSE @]
              /\ Continue(a, j)
  BY DEF Unmake
<1>2. j = [request |-> job[a].request, step |-> IF gone \/ other THEN "undo" ELSE "unlinkMade",
           seen |-> job[a].seen, todo |-> job[a].todo,
           made |-> job[a].made, id |-> job[a].id, failure |-> job[a].failure,
           left |-> IF other THEN job[a].left \cup {Path(a)} ELSE job[a].left, wrote |-> job[a].wrote]
  BY <1>0, <1>1 DEF JobFields
<1> QED BY <1>1, <1>2, ContinueDoes DEF GoesTo

LEMMA UnlinkMadeDoes ==
  ASSUME JobsOK, NEW a \in Agents, UnlinkMade(a)
  PROVE  \/ names' = [names EXCEPT ![Path(a)] = 0] /\ GoesTo(a, "undo", job[a].failure)
         \/ /\ UNCHANGED names
            /\ Becomes(a, "undo", job[a].seen, job[a].todo, job[a].made, job[a].id, job[a].failure,
                       job[a].left \cup {Path(a)}, job[a].wrote)
<1>0. JobFields(job[a])
  BY AtIsBusy DEF UnlinkMade
<1>1. ASSUME To(a, "undo")
      PROVE  GoesTo(a, "undo", job[a].failure)
  BY <1>0, <1>1, ToDoes
<1>2. ASSUME Continue(a, [job[a] EXCEPT !.step = "undo", !.left = @ \cup {Path(a)}])
      PROVE  Becomes(a, "undo", job[a].seen, job[a].todo, job[a].made, job[a].id, job[a].failure,
                     job[a].left \cup {Path(a)}, job[a].wrote)
  <2>1. PICK j: j = [job[a] EXCEPT !.step = "undo", !.left = @ \cup {Path(a)}] /\ Continue(a, j)
    BY <1>2
  <2>2. j = [request |-> job[a].request, step |-> "undo", seen |-> job[a].seen, todo |-> job[a].todo,
             made |-> job[a].made, id |-> job[a].id, failure |-> job[a].failure,
             left |-> job[a].left \cup {Path(a)}, wrote |-> job[a].wrote]
    BY <1>0, <2>1 DEF JobFields
  <2> QED BY <2>1, <2>2, ContinueDoes
<1> QED BY <1>1, <1>2 DEF UnlinkMade

LEMMA UndoDoes ==
  ASSUME JobsOK, NEW a \in Agents, Undo(a)
  PROVE  \/ /\ names' = [names EXCEPT ![Last(job[a].made)] = 0]
            /\ Becomes(a, job[a].step, job[a].seen, job[a].todo, Front(job[a].made), job[a].id,
                       job[a].failure, job[a].left, job[a].wrote)
         \/ /\ UNCHANGED names
            /\ Becomes(a, job[a].step, job[a].seen, job[a].todo, Front(job[a].made), job[a].id,
                       job[a].failure, job[a].left \cup {Last(job[a].made)}, job[a].wrote)
<1>0. JobFields(job[a])
  BY AtIsBusy DEF Undo
<1> DEFINE dir == Last(job[a].made)
           rest == [job[a] EXCEPT !.made = Front(@)]
<1>1. ASSUME Continue(a, [rest EXCEPT !.left = @ \cup {dir}])
      PROVE  Becomes(a, job[a].step, job[a].seen, job[a].todo, Front(job[a].made), job[a].id,
                     job[a].failure, job[a].left \cup {dir}, job[a].wrote)
  <2>1. PICK r: r = [job[a] EXCEPT !.made = Front(@)] /\ Continue(a, [r EXCEPT !.left = @ \cup {dir}])
    BY <1>1
  <2>2. PICK j: j = [r EXCEPT !.left = @ \cup {dir}] /\ Continue(a, j)
    BY <2>1
  <2>3. r = [request |-> job[a].request, step |-> job[a].step, seen |-> job[a].seen,
             todo |-> job[a].todo, made |-> Front(job[a].made), id |-> job[a].id,
             failure |-> job[a].failure, left |-> job[a].left, wrote |-> job[a].wrote]
    BY <1>0, <2>1 DEF JobFields
  <2>4. j = [request |-> job[a].request, step |-> job[a].step, seen |-> job[a].seen,
             todo |-> job[a].todo, made |-> Front(job[a].made), id |-> job[a].id,
             failure |-> job[a].failure, left |-> job[a].left \cup {dir}, wrote |-> job[a].wrote]
    BY <2>2, <2>3
  <2> QED BY <2>2, <2>4, ContinueDoes
<1>2. ASSUME Continue(a, rest)
      PROVE  Becomes(a, job[a].step, job[a].seen, job[a].todo, Front(job[a].made), job[a].id,
                     job[a].failure, job[a].left, job[a].wrote)
  <2>1. PICK r: r = [job[a] EXCEPT !.made = Front(@)] /\ Continue(a, r)
    BY <1>2
  <2>2. r = [request |-> job[a].request, step |-> job[a].step, seen |-> job[a].seen,
             todo |-> job[a].todo, made |-> Front(job[a].made), id |-> job[a].id,
             failure |-> job[a].failure, left |-> job[a].left, wrote |-> job[a].wrote]
    BY <1>0, <2>1 DEF JobFields
  <2> QED BY <2>1, <2>2, ContinueDoes
<1> QED BY <1>1, <1>2 DEF Undo

LEMMA UndoneDoes ==
  ASSUME JobsOK, NEW a \in Agents, Undone(a)
  PROVE  GoesTo(a, "answer", job[a].failure)
BY AtIsBusy, ToDoes DEF Undone

\* A part is added to the file that the job has open.
Written(a) == [nodes EXCEPT ![job[a].id].parts = Append(@, job[a].request.part)]

LEMMA WritePartDoes ==
  ASSUME JobsOK, NEW a \in Agents, WritePart(a)
  PROVE  \/ /\ nodes' = Written(a)
            /\ writing' = [writing EXCEPT ![a][Path(a)] = IF job[a].request.more THEN job[a].id ELSE 0]
            /\ Becomes(a, "answer", job[a].seen, job[a].todo, job[a].made, job[a].id, job[a].failure,
                       job[a].left, TRUE)
         \/ /\ nodes' \in {nodes, Written(a)}
            /\ writing' = [writing EXCEPT ![a][Path(a)] = 0]
            /\ Becomes(a, "answer", job[a].seen, job[a].todo, job[a].made, job[a].id, "io",
                       job[a].left, TRUE)
<1>0. JobFields(job[a])
  BY AtIsBusy DEF WritePart
<1>1. ASSUME Continue(a, [job[a] EXCEPT !.step = "answer", !.wrote = TRUE])
      PROVE  Becomes(a, "answer", job[a].seen, job[a].todo, job[a].made, job[a].id, job[a].failure,
                     job[a].left, TRUE)
  <2>1. PICK j: j = [job[a] EXCEPT !.step = "answer", !.wrote = TRUE] /\ Continue(a, j)
    BY <1>1
  <2>2. j = [request |-> job[a].request, step |-> "answer", seen |-> job[a].seen, todo |-> job[a].todo,
             made |-> job[a].made, id |-> job[a].id, failure |-> job[a].failure,
             left |-> job[a].left, wrote |-> TRUE]
    BY <1>0, <2>1 DEF JobFields
  <2> QED BY <2>1, <2>2, ContinueDoes
<1>2. ASSUME Continue(a, [job[a] EXCEPT !.step = "answer", !.wrote = TRUE, !.failure = "io"])
      PROVE  Becomes(a, "answer", job[a].seen, job[a].todo, job[a].made, job[a].id, "io",
                     job[a].left, TRUE)
  <2>1. PICK j: j = [job[a] EXCEPT !.step = "answer", !.wrote = TRUE, !.failure = "io"]
                /\ Continue(a, j)
    BY <1>2
  <2>2. j = [request |-> job[a].request, step |-> "answer", seen |-> job[a].seen, todo |-> job[a].todo,
             made |-> job[a].made, id |-> job[a].id, failure |-> "io",
             left |-> job[a].left, wrote |-> TRUE]
    BY <1>0, <2>1 DEF JobFields
  <2> QED BY <2>1, <2>2, ContinueDoes
<1>3. /\ StaysOpen(job[a].request, TRUE) = (job[a].request.more /\ TRUE)
      /\ StaysOpen(job[a].request, FALSE) = FALSE
  BY DEF StaysOpen
<1> QED BY <1>1, <1>2, <1>3 DEF WritePart, Written

LEMMA LookToRemoveDoes ==
  ASSUME JobsOK, NEW a \in Agents, LookToRemove(a)
  PROVE  \/ GoesTo(a, "unlink", job[a].failure)
         \/ \E f \in {"notFound", "io"}: GoesTo(a, "answer", f)
<1>0. JobFields(job[a])
  BY AtIsBusy DEF LookToRemove
<1> QED BY <1>0, ToDoes, FailDoes DEF LookToRemove

LEMMA UnlinkDoes ==
  ASSUME JobsOK, NEW a \in Agents, Unlink(a)
  PROVE  \/ names' = [names EXCEPT ![Path(a)] = 0] /\ GoesTo(a, "answer", job[a].failure)
         \/ UNCHANGED names /\ \E f \in {"notFound", "io"}: GoesTo(a, "answer", f)
<1>0. JobFields(job[a])
  BY AtIsBusy DEF Unlink
<1> QED BY <1>0, ToDoes, FailDoes DEF Unlink

LEMMA ChmodDoes ==
  ASSUME JobsOK, NEW a \in Agents, Chmod(a)
  PROVE  \/ /\ names[Path(a)] # 0
            /\ nodes' = [nodes EXCEPT ![names[Path(a)]].mode =
                           Resulting(nodes[names[Path(a)]], job[a].request.bits)]
            /\ GoesTo(a, "answer", job[a].failure)
         \/ UNCHANGED nodes /\ \E f \in {"notFound", "io"}: GoesTo(a, "answer", f)
<1>0. JobFields(job[a])
  BY AtIsBusy DEF Chmod
<1>1. Kind(Path(a)) \notin {"none", "link"} => names[Path(a)] # 0
  BY DEF Kind
<1> QED BY <1>0, <1>1, ToDoes, FailDoes DEF Chmod

----------------------------------------------------------------------------
\* What a job may come to.
JobAs(kind, step, seen, todo, made, id, failure, left, wrote) ==
  /\ step \in Steps(kind) /\ seen \in BOOLEAN /\ wrote \in BOOLEAN /\ left \subseteq Paths
  /\ IsSeq(todo) /\ IsSeq(made)
  /\ kind \in Changes => todo \in Seq(Paths) /\ made \in Seq(Paths)
  /\ id \in 0 .. Len(nodes')
  /\ step = "own" => todo # <<>>
  /\ step \in {"look", "open", "parents", "mkdir", "create"} => id = 0 /\ failure = "none"
  /\ step \in {"look", "open", "parents"} => made = <<>> /\ todo = <<>>
  /\ step \in {"own", "unmake", "unlinkMade", "write"} => id # 0
  /\ step \in {"own", "write"} => failure = "none"

LEMMA BecomesAJob ==
  ASSUME JobsOK, NEW a \in Agents, Busy(a),
         NEW step, NEW seen, NEW todo, NEW made, NEW id, NEW failure, NEW left, NEW wrote,
         Becomes(a, step, seen, todo, made, id, failure, left, wrote),
         JobAs(job[a].request.kind, step, seen, todo, made, id, failure, left, wrote)
  PROVE  JobMoves(a)
<1>1. IsRequest(job[a].request)
  BY DEF JobsOK, IsJob
<1>2. job'[a].request = job[a].request /\ job'[a].step = step
  BY DEF Becomes
<1>3. JobFields(job[a])'
  BY DEF Becomes, JobFields
<1>4. IsJob(job[a])'
  BY <1>1, <1>3 DEF Becomes, IsJob, IsSeq, IsRequest, JobAs
<1>5. job'[a] # Idle
  <2>1. step # "idle"
    BY DEF Steps, Making, JobAs
  <2> QED BY <1>2, <2>1 DEF Idle
<1> QED BY <1>2, <1>4, <1>5 DEF JobMoves, Becomes

\* A job of which only the place and the failure change.
LEMMA GoesToAJob ==
  ASSUME FilesOK, JobsOK, Later, NEW a \in Agents, Busy(a), NEW step, NEW failure,
         GoesTo(a, step, failure), step \in Steps(job[a].request.kind),
         step = "own" => job[a].todo # <<>>,
         step \in {"look", "open", "parents", "mkdir", "create"} => job[a].id = 0 /\ failure = "none",
         step \in {"look", "open", "parents"} => job[a].made = <<>> /\ job[a].todo = <<>>,
         step \in {"own", "unmake", "unlinkMade", "write"} => job[a].id # 0,
         step \in {"own", "write"} => failure = "none"
  PROVE  JobMoves(a)
<1>1. IsJob(job[a])
  BY DEF JobsOK
<1>2. /\ job[a].seen \in BOOLEAN /\ job[a].wrote \in BOOLEAN /\ job[a].left \subseteq Paths
      /\ IsSeq(job[a].todo) /\ IsSeq(job[a].made)
      /\ job[a].request.kind \in Changes => job[a].todo \in Seq(Paths) /\ job[a].made \in Seq(Paths)
  BY <1>1 DEF IsJob
<1>3. job[a].id \in 0 .. Len(nodes')
  BY <1>1, JobStays
<1>4. JobAs(job[a].request.kind, step, job[a].seen, job[a].todo, job[a].made, job[a].id, failure,
            job[a].left, job[a].wrote)
  BY <1>2, <1>3 DEF JobAs
<1> QED BY <1>4, BecomesAJob DEF GoesTo

\* One field of a node.
LEMMA PartsChange ==
  ASSUME FilesOK, NEW n \in DOMAIN nodes, NEW parts, IsSeq(parts), nodes' = [nodes EXCEPT ![n].parts = parts]
  PROVE  /\ Later /\ DOMAIN nodes' = DOMAIN nodes /\ Len(nodes') = Len(nodes)
         /\ \A k \in DOMAIN nodes: /\ nodes'[k].by = nodes[k].by /\ nodes'[k].owner = nodes[k].owner
                                   /\ nodes'[k].parts = IF k = n THEN parts ELSE nodes[k].parts
<1>1. PICK node: node = [nodes[n] EXCEPT !.parts = parts] /\ nodes' = [nodes EXCEPT ![n] = node]
  OBVIOUS
<1>2. IsNode(nodes[n])
  BY DEF FilesOK
<1>3. node = [kind |-> nodes[n].kind, by |-> nodes[n].by, owner |-> nodes[n].owner, parts |-> parts,
              mode |-> nodes[n].mode]
  BY <1>1, <1>2 DEF IsNode
<1>4. IsNode(node) /\ node.by = nodes[n].by /\ node.owner = nodes[n].owner /\ node.parts = parts
  BY <1>2, <1>3 DEF IsNode
<1> QED BY <1>1, <1>4, NodeChanges

LEMMA OwnerChange ==
  ASSUME FilesOK, NEW n \in DOMAIN nodes, nodes' = [nodes EXCEPT ![n].owner = "user"]
  PROVE  /\ Later /\ DOMAIN nodes' = DOMAIN nodes /\ Len(nodes') = Len(nodes)
         /\ \A k \in DOMAIN nodes: /\ nodes'[k].by = nodes[k].by /\ nodes'[k].parts = nodes[k].parts
                                   /\ nodes'[k].owner = IF k = n THEN "user" ELSE nodes[k].owner
<1>1. PICK node: node = [nodes[n] EXCEPT !.owner = "user"] /\ nodes' = [nodes EXCEPT ![n] = node]
  OBVIOUS
<1>2. IsNode(nodes[n])
  BY DEF FilesOK
<1>3. node = [kind |-> nodes[n].kind, by |-> nodes[n].by, owner |-> "user", parts |-> nodes[n].parts,
              mode |-> nodes[n].mode]
  BY <1>1, <1>2 DEF IsNode
<1>4. IsNode(node) /\ node.by = nodes[n].by /\ node.owner = "user" /\ node.parts = nodes[n].parts
  BY <1>2, <1>3 DEF IsNode
<1> QED BY <1>1, <1>4, NodeChanges

LEMMA ModeChange ==
  ASSUME FilesOK, NEW n \in DOMAIN nodes, NEW mode, nodes' = [nodes EXCEPT ![n].mode = mode]
  PROVE  /\ Later /\ DOMAIN nodes' = DOMAIN nodes /\ Len(nodes') = Len(nodes)
         /\ \A k \in DOMAIN nodes: /\ nodes'[k].by = nodes[k].by /\ nodes'[k].parts = nodes[k].parts
                                   /\ nodes'[k].owner = nodes[k].owner
<1>1. PICK node: node = [nodes[n] EXCEPT !.mode = mode] /\ nodes' = [nodes EXCEPT ![n] = node]
  OBVIOUS
<1>2. IsNode(nodes[n])
  BY DEF FilesOK
<1>3. node = [kind |-> nodes[n].kind, by |-> nodes[n].by, owner |-> nodes[n].owner,
              parts |-> nodes[n].parts, mode |-> mode]
  BY <1>1, <1>2 DEF IsNode
<1>4. IsNode(node) /\ node.by = nodes[n].by /\ node.owner = nodes[n].owner /\ node.parts = nodes[n].parts
  BY <1>2, <1>3 DEF IsNode
<1> QED BY <1>1, <1>4, NodeChanges

----------------------------------------------------------------------------
\* What a step of a job does to the types.
FileMoves(a) ==
  /\ Later /\ FilesOK' /\ JobMoves(a) /\ UNCHANGED <<sudo, did>>
  /\ \A b \in Agents \ {a}: writing'[b] = writing[b]
  /\ budget'.garbled = budget.garbled

BudgetMoves == budget' \in [moves : Nat, fails : Nat, losses : Nat, garbled : Nat] /\ budget'.garbled = budget.garbled
NamesMove == names' \in [Paths -> 0 .. Len(nodes')]
WritingMoves(a) == writing' \in [Agents -> [Paths -> 0 .. Len(nodes')]] /\ \A b \in Agents \ {a}: writing'[b] = writing[b]

LEMMA FileMovesIf ==
  ASSUME FilesOK, NEW a \in Agents, Later, UNCHANGED <<sudo, did>>, BudgetMoves, NamesMove, WritingMoves(a),
         JobMoves(a)
  PROVE  FileMoves(a)
BY DEF FileMoves, FilesOK, Later, BudgetMoves, NamesMove, WritingMoves, IsSeq, IsNode

LEMMA BudgetStays ==
  ASSUME FilesOK, UNCHANGED budget \/ MayFail
  PROVE  BudgetMoves
<1>1. CASE UNCHANGED budget
  BY <1>1 DEF FilesOK, BudgetMoves
<1>2. CASE MayFail
  <2>1. PICK b: b = [budget EXCEPT !.fails = @ - 1] /\ budget' = b
    BY <1>2 DEF MayFail
  <2>2. budget.fails - 1 \in Nat
    BY <1>2 DEF MayFail, FilesOK
  <2>3. b \in [moves : Nat, fails : Nat, losses : Nat, garbled : Nat] /\ b.garbled = budget.garbled
    BY <2>1, <2>2 DEF FilesOK
  <2> QED BY <2>1, <2>3 DEF BudgetMoves
<1> QED BY <1>1, <1>2

LEMMA NamesStay ==
  ASSUME FilesOK, Later, UNCHANGED names \/ \E p \in Paths: names' = [names EXCEPT ![p] = 0]
  PROVE  NamesMove
<1>1. Len(nodes) \in Nat /\ Len(nodes') \in Nat /\ Len(nodes) <= Len(nodes')
  BY SeqFacts DEF FilesOK, Later, IsSeq
<1>2. 0 .. Len(nodes) \subseteq 0 .. Len(nodes') /\ 0 \in 0 .. Len(nodes')
  BY <1>1
<1> QED BY <1>2 DEF FilesOK, NamesMove

LEMMA WritingStays ==
  ASSUME FilesOK, Later, UNCHANGED writing, NEW a \in Agents
  PROVE  WritingMoves(a)
BY WritingIsKept DEF WritingMoves

LEMMA JobFacts ==
  ASSUME NEW j, IsJob(j)
  PROVE  /\ IsRequest(j.request) /\ j.step \in Steps(j.request.kind)
         /\ j.seen \in BOOLEAN /\ j.wrote \in BOOLEAN /\ j.left \subseteq Paths
         /\ IsSeq(j.todo) /\ IsSeq(j.made) /\ j.id \in 0 .. Len(nodes)
         /\ j.request.kind \in Changes => j.todo \in Seq(Paths) /\ j.made \in Seq(Paths) /\ j.request.path \in Paths \ {<<>>}
         /\ j.step \in {"own", "unmake", "unlinkMade", "write"} => j.id # 0
         /\ j.step = "own" => j.todo # <<>>
         /\ j.step \in {"own", "write"} => j.failure = "none"
         /\ j.step \in {"look", "open", "parents", "mkdir", "create"} => j.id = 0 /\ j.failure = "none"
         /\ j.step \in {"look", "open", "parents"} => j.made = <<>> /\ j.todo = <<>>
BY DEF IsJob, IsRequest

LEMMA StepMoves ==
  ASSUME FilesOK, NEW a \in Agents, Later, UNCHANGED <<sudo, did, writing>>, UNCHANGED budget \/ MayFail,
         UNCHANGED names \/ \E p \in Paths: names' = [names EXCEPT ![p] = 0],
         JobMoves(a)
  PROVE  FileMoves(a)
<1>1. BudgetMoves
  BY BudgetStays
<1>2. NamesMove
  BY NamesStay
<1>3. WritingMoves(a)
  BY WritingStays
<1> QED BY <1>1, <1>2, <1>3, FileMovesIf

\* A step of a request that ends in a failure, or goes on.
LEMMA GoesMoves ==
  ASSUME FilesOK, JobsOK, NEW a \in Agents, Busy(a), UNCHANGED <<sudo, did, writing, nodes>>,
         UNCHANGED budget \/ MayFail,
         UNCHANGED names \/ \E p \in Paths: names' = [names EXCEPT ![p] = 0],
         NEW step, NEW failure, GoesTo(a, step, failure), step \in Steps(job[a].request.kind),
         \/ step \in {"answer", "undo", "remove", "unlink", "chmod"}
         \/ step = "unmake" /\ job[a].id # 0
         \/ step = "unlinkMade" /\ job[a].id # 0
         \/ step \in {"create", "mkdir"} /\ job[a].id = 0 /\ failure = "none"
         \/ step = "parents" /\ job[a].id = 0 /\ failure = "none" /\ job[a].made = <<>> /\ job[a].todo = <<>>
  PROVE  FileMoves(a)
<1>1. Later
  BY LaterStays
<1>2. JobMoves(a)
  <2>1. step # "own" /\ step # "write" /\ step \notin {"look", "open"}
    OBVIOUS
  <2> QED BY <1>1, <2>1, GoesToAJob
<1> QED BY <1>1, <1>2, StepMoves

LEMMA ParentsFacts ==
  ASSUME NEW p \in Paths, p # <<>>
  PROVE  /\ Len(p) \in Nat \ {0} /\ Parents(p) \in Seq(Paths) /\ Len(Parents(p)) = Len(p) - 1
         /\ \A i \in 1 .. Len(p) - 1: Parents(p)[i] = SubSeq(p, 1, i) /\ IsPrefix(SubSeq(p, 1, i), p)
                                       /\ SubSeq(p, 1, i) \in Paths \ {p, <<>>}
<1>1. IsSeq(p) /\ \A i \in 0 .. Len(p): SubSeq(p, 1, i) \in Paths
  BY TreeIsClosed DEF IsSeq
<1>2. Len(p) \in Nat \ {0}
  BY <1>1, SeqFacts
<1>3. \A i \in 1 .. Len(p) - 1: SubSeq(p, 1, i) \in Paths
  BY <1>1, <1>2
<1>4. Parents(p) \in [1 .. Len(p) - 1 -> Paths] /\ \A i \in 1 .. Len(p) - 1: Parents(p)[i] = SubSeq(p, 1, i)
  BY <1>3 DEF Parents
<1>5. Parents(p) \in Seq(Paths) /\ Len(Parents(p)) = Len(p) - 1
  BY <1>2, <1>4, SeqDef, LenProperties
<1>6. ASSUME NEW i \in 1 .. Len(p) - 1
      PROVE  IsPrefix(SubSeq(p, 1, i), p) /\ SubSeq(p, 1, i) \notin {p, <<>>}
  <2>1. IsSeq(SubSeq(p, 1, i)) /\ Len(SubSeq(p, 1, i)) = i
    BY <1>1, <1>2, SubSeqFacts
  <2>2. SubSeq(SubSeq(p, 1, i), 1, i) = SubSeq(p, 1, i)
    BY <2>1, SubSeqFull DEF IsSeq
  <2> QED BY <1>2, <2>1, <2>2, EmptyIsSeq DEF IsPrefix
<1> QED BY <1>2, <1>3, <1>4, <1>5, <1>6

LEMMA BelowFacts ==
  ASSUME NEW p \in Paths, p # <<>>, NEW held \in 0 .. Len(p) - 1
  PROVE  /\ IsSeq(Below(p, held)) /\ Below(p, held) \in Seq(Paths)
         /\ \A k \in DOMAIN Below(p, held): IsPrefix(Below(p, held)[k], p)
<1>1. Len(p) \in Nat \ {0} /\ Parents(p) \in Seq(Paths) /\ Len(Parents(p)) = Len(p) - 1
  BY ParentsFacts
<1>2. IsSeq(Parents(p))
  BY <1>1, AnySeq
<1>3. /\ IsSeq(Below(p, held)) /\ Len(Below(p, held)) = Len(p) - 1 - held
      /\ DOMAIN Below(p, held) = 1 .. Len(p) - 1 - held
      /\ \A k \in DOMAIN Below(p, held): Below(p, held)[k] = Parents(p)[held + k] /\ held + k \in 1 .. Len(p) - 1
  <2> DEFINE m == held + 1
             n == Len(p) - 1
  <2>1. m \in 1 .. Len(Parents(p)) + 1 /\ n \in m - 1 .. Len(Parents(p))
    BY <1>1
  <2>2. /\ IsSeq(SubSeq(Parents(p), m, n)) /\ Len(SubSeq(Parents(p), m, n)) = n - m + 1
        /\ DOMAIN SubSeq(Parents(p), m, n) = 1 .. n - m + 1
        /\ \A i \in 1 .. n - m + 1: SubSeq(Parents(p), m, n)[i] = Parents(p)[m + i - 1]
    BY <1>2, <2>1, SubSeqFacts
  <2>3. n - m + 1 = Len(p) - 1 - held /\ \A i \in 1 .. n - m + 1: m + i - 1 = held + i
    BY <1>1
  <2> QED BY <1>1, <2>2, <2>3 DEF Below
<1>4. \A k \in DOMAIN Below(p, held): Below(p, held)[k] \in Paths /\ IsPrefix(Below(p, held)[k], p)
  <2> TAKE k \in DOMAIN Below(p, held)
  <2>1. PICK i \in 1 .. Len(p) - 1: Below(p, held)[k] = Parents(p)[i]
    BY <1>3
  <2>2. Parents(p)[i] = SubSeq(p, 1, i) /\ IsPrefix(SubSeq(p, 1, i), p) /\ SubSeq(p, 1, i) \in Paths
    BY ParentsFacts
  <2> QED BY <2>1, <2>2
<1>5. Below(p, held) \in Seq(Paths)
  <2>1. Below(p, held) \in Seq(ToSet(Below(p, held))) /\ ToSet(Below(p, held)) \subseteq Paths
    BY <1>3, <1>4 DEF IsSeq, ToSet
  <2> QED BY <2>1, SeqMonotonic
<1> QED BY <1>3, <1>4, <1>5

LEMMA LookMoves ==
  ASSUME FilesOK, JobsOK, NEW a \in Agents, Look(a)
  PROVE  FileMoves(a)
<1>1. Busy(a) /\ IsJob(job[a]) /\ job[a].request.kind = "write"
  BY AtIsBusy DEF Look, Steps, Making, IsJob, IsRequest, Changes
<1>2. Later /\ BudgetMoves /\ NamesMove /\ WritingMoves(a) /\ UNCHANGED <<sudo, did, nodes>>
  BY LaterStays, BudgetStays, NamesStay, WritingStays DEF Look, filesVars
<1>3. JobMoves(a)
  <2> DEFINE found == names[Path(a)] # 0
  <2>1. Becomes(a, IF found THEN "open" ELSE "parents", found, job[a].todo,
                job[a].made, job[a].id, job[a].failure, job[a].left, job[a].wrote)
    BY LookDoes
  <2>2. found \in BOOLEAN /\ job[a].id \in 0 .. Len(nodes')
    BY <1>1, <1>2, JobStays
  <2> HIDE DEF found
  <2>3. (IF found THEN "open" ELSE "parents") \in {"open", "parents"}
    BY <2>2
  <2>4. {"open", "parents"} \subseteq Steps(job[a].request.kind) /\ job[a].step = "look"
    BY <1>1 DEF Steps, Making, Look, At
  <2> QED BY <1>1, <1>2, <2>1, <2>2, <2>3, <2>4, BecomesAJob DEF JobAs, IsJob
<1> QED BY <1>2, <1>3, FileMovesIf

LEMMA OpenExistingMoves ==
  ASSUME FilesOK, JobsOK, NEW a \in Agents, OpenExisting(a)
  PROVE  FileMoves(a)
<1>1. Busy(a) /\ IsJob(job[a]) /\ job[a].request.kind = "write" /\ job[a].step = "open"
  BY AtIsBusy DEF OpenExisting, Steps, Making, IsJob, IsRequest, Changes, At
<1>2. (UNCHANGED budget \/ MayFail) /\ UNCHANGED <<sudo, did, names, writing>>
  BY DEF OpenExisting
<1>3. {"answer", "parents", "write"} \subseteq Steps(job[a].request.kind)
  BY <1>1 DEF Steps, Making
<1>4. job[a].made = <<>> /\ job[a].todo = <<>> /\ job[a].id = 0 /\ job[a].failure = "none"
  BY <1>1 DEF IsJob
<1>5. CASE UNCHANGED nodes /\ \E f: GoesTo(a, "answer", f)
  BY <1>1, <1>2, <1>3, <1>5, GoesMoves
<1>6. CASE UNCHANGED nodes /\ GoesTo(a, "parents", job[a].failure)
  BY <1>1, <1>2, <1>3, <1>4, <1>6, GoesMoves
<1>7. CASE /\ Kind(Path(a)) = "file" /\ nodes' = [nodes EXCEPT ![names[Path(a)]].parts = <<>>]
           /\ Becomes(a, "write", job[a].seen, job[a].todo, job[a].made, names[Path(a)],
                      job[a].failure, job[a].left, TRUE)
  <2>1. Path(a) \in Paths
    BY <1>1 DEF IsJob, IsRequest, Path, Changes
  <2>2. names[Path(a)] \in DOMAIN nodes /\ names[Path(a)] # 0
    <3>1. names[Path(a)] # 0
      BY <1>7 DEF Kind
    <3> QED BY <2>1, <3>1, SeqFacts DEF FilesOK
  <2>3. Later /\ Len(nodes') = Len(nodes)
    <3>1. PICK n: n = names[Path(a)] /\ nodes' = [nodes EXCEPT ![n].parts = <<>>]
      BY <1>7
    <3> QED BY <2>2, <3>1, PartsChange, EmptyIsSeq
  <2>4. names[Path(a)] \in 0 .. Len(nodes')
    BY <2>1, <2>3 DEF FilesOK
  <2>5. JobMoves(a)
    <3> HIDE DEF Later
    <3>1. PICK n \in 0 .. Len(nodes'), yes \in BOOLEAN:
            n # 0 /\ Becomes(a, "write", job[a].seen, job[a].todo, job[a].made, n,
                              job[a].failure, job[a].left, yes)
      BY <1>7, <2>2, <2>4
    <3>2. /\ job[a].seen \in BOOLEAN /\ job[a].left \subseteq Paths
          /\ IsSeq(job[a].todo) /\ IsSeq(job[a].made)
          /\ job[a].request.kind \in Changes => job[a].todo \in Seq(Paths) /\ job[a].made \in Seq(Paths)
      BY <1>1, JobFacts
    <3>3. "write" \in Steps(job[a].request.kind) /\ job[a].failure = "none" /\ Busy(a) /\ Later
      BY <1>1, <1>3, <1>4, <2>3
    <3> QED BY <3>1, <3>2, <3>3, BecomesAJob DEF JobAs
  <2>6. UNCHANGED names /\ UNCHANGED <<sudo, did, writing>> /\ Later
    BY <1>2, <2>3
  <2> HIDE DEF Later
  <2> QED BY <1>2, <2>5, <2>6, StepMoves
<1> QED BY <1>5, <1>6, <1>7, OpenExistingDoes

----------------------------------------------------------------------------
LEMMA AtMaking ==
  ASSUME JobsOK, NEW a \in Agents, NEW s \in Making, At(a, s)
  PROVE  /\ Busy(a) /\ IsJob(job[a]) /\ job[a].step = s /\ job[a].request.kind \in {"write", "symlink"}
         /\ Path(a) \in Paths \ {<<>>} /\ job[a].request.id \in Nat \ {0}
         /\ Making \cup {"answer"} \subseteq Steps(job[a].request.kind)
         /\ job[a].todo \in Seq(Paths) /\ job[a].made \in Seq(Paths)
         /\ job[a].id \in 0 .. Len(nodes)
<1>1. Busy(a) /\ IsJob(job[a]) /\ s \in Steps(job[a].request.kind)
  BY AtIsBusy DEF Making
<1>2. job[a].request.kind \in {"write", "symlink"}
  BY <1>1 DEF Steps, Making
<1>3. Making \cup {"answer"} \subseteq Steps(job[a].request.kind)
  BY <1>2 DEF Steps
<1> QED BY <1>1, <1>2, <1>3, JobFacts DEF Path, At, Changes, IsRequest

LEMMA FindParentsMoves ==
  ASSUME FilesOK, JobsOK, NEW a \in Agents, FindParents(a)
  PROVE  FileMoves(a)
<1>1. /\ Busy(a) /\ IsJob(job[a]) /\ job[a].step = "parents" /\ Path(a) \in Paths \ {<<>>}
      /\ {"mkdir", "answer"} \subseteq Steps(job[a].request.kind)
  BY AtMaking DEF FindParents, Making
<1>2. UNCHANGED <<budget, sudo, did, names, nodes, writing>> /\ Later
  BY LaterStays DEF FindParents, filesVars
<1>3. ASSUME NEW held \in 0 .. Len(Path(a)) - 1,
             Becomes(a, "mkdir", job[a].seen, Below(Path(a), held),
                     job[a].made, job[a].id, job[a].failure, job[a].left, job[a].wrote)
      PROVE  JobMoves(a)
  <2>1. IsSeq(Below(Path(a), held)) /\ Below(Path(a), held) \in Seq(Paths)
    BY <1>1, BelowFacts
  <2>2. job[a].id \in 0 .. Len(nodes')
    BY <1>1, <1>2, JobStays
  <2>3. /\ job[a].seen \in BOOLEAN /\ job[a].wrote \in BOOLEAN /\ job[a].left \subseteq Paths
        /\ IsSeq(job[a].made) /\ job[a].made = <<>> /\ job[a].id = 0 /\ job[a].failure = "none"
        /\ job[a].request.kind \in Changes => job[a].made \in Seq(Paths)
    BY <1>1, JobFacts
  <2>4. JobAs(job[a].request.kind, "mkdir", job[a].seen, Below(Path(a), held), job[a].made, job[a].id,
              job[a].failure, job[a].left, job[a].wrote)
    BY <1>1, <2>1, <2>2, <2>3 DEF JobAs
  <2> QED BY <1>1, <1>3, <2>4, BecomesAJob
<1>4. ASSUME GoesTo(a, "answer", "rootGone")
      PROVE  FileMoves(a)
  BY <1>1, <1>2, <1>4, GoesMoves
<1> QED BY <1>2, <1>3, <1>4, FindParentsDoes, StepMoves

LEMMA MakeParentMoves ==
  ASSUME FilesOK, JobsOK, NEW a \in Agents, MakeParent(a)
  PROVE  FileMoves(a)
<1>1. /\ Busy(a) /\ IsJob(job[a]) /\ job[a].step = "mkdir" /\ Path(a) \in Paths \ {<<>>}
      /\ {"mkdir", "undo"} \subseteq Steps(job[a].request.kind) /\ job[a].request.id \in Nat
      /\ job[a].todo \in Seq(Paths) /\ job[a].made \in Seq(Paths)
  BY AtMaking DEF MakeParent, Making
<1>2. (UNCHANGED budget \/ MayFail) /\ UNCHANGED <<sudo, did, writing>> /\ job[a].todo # <<>>
  BY DEF MakeParent
<1>3. job[a].id = 0 /\ job[a].failure = "none"
  BY <1>1, JobFacts
<1>4. /\ Head(job[a].todo) \in Paths /\ IsSeq(Tail(job[a].todo)) /\ Tail(job[a].todo) \in Seq(Paths)
      /\ IsSeq(job[a].made)
  BY <1>1, <1>2, AnySeq, HeadTailProperties
<1>5. ASSUME NEW made \in Seq(Paths), Later,
             Becomes(a, job[a].step, job[a].seen, Tail(job[a].todo), made,
                     job[a].id, job[a].failure, job[a].left, job[a].wrote)
      PROVE  JobMoves(a)
  <2>1. IsSeq(made)
    BY AnySeq
  <2>2. job[a].id \in 0 .. Len(nodes')
    BY <1>1, <1>5, JobStays
  <2>3. job[a].seen \in BOOLEAN /\ job[a].wrote \in BOOLEAN /\ job[a].left \subseteq Paths
    BY <1>1, JobFacts
  <2>4. JobAs(job[a].request.kind, job[a].step, job[a].seen, Tail(job[a].todo), made, job[a].id,
              job[a].failure, job[a].left, job[a].wrote)
    BY <1>1, <1>3, <1>4, <2>1, <2>2, <2>3 DEF JobAs
  <2> QED BY <1>1, <1>5, <2>4, BecomesAJob
<1>6. CASE /\ names[Head(job[a].todo)] = 0
           /\ Place(Head(job[a].todo), "dir", job[a].request.id, Maker)
           /\ Becomes(a, job[a].step, job[a].seen, Tail(job[a].todo),
                      Append(job[a].made, Head(job[a].todo)),
                      job[a].id, job[a].failure, job[a].left, job[a].wrote)
  <2>1. Append(job[a].made, Head(job[a].todo)) \in Seq(Paths)
    BY <1>1, <1>4, AppendProperties
  <2>2. Later /\ NamesMove
    BY <1>1, <1>4, <1>6, PlaceFacts DEF NamesMove
  <2>3. JobMoves(a)
    BY <1>5, <1>6, <2>1, <2>2
  <2>4. WritingMoves(a) /\ BudgetMoves
    BY <1>2, <2>2, WritingStays, BudgetStays
  <2> QED BY <1>2, <2>2, <2>3, <2>4, FileMovesIf
<1>7. CASE /\ UNCHANGED <<names, nodes>>
           /\ Becomes(a, job[a].step, job[a].seen, Tail(job[a].todo), job[a].made, job[a].id,
                      job[a].failure, job[a].left, job[a].wrote)
  <2>1. Later
    BY <1>7, LaterStays
  <2>2. JobMoves(a)
    BY <1>1, <1>5, <1>7, <2>1
  <2> QED BY <1>2, <1>7, <2>1, <2>2, StepMoves
<1>8. CASE UNCHANGED <<names, nodes>> /\ \E f: GoesTo(a, "undo", f)
  BY <1>1, <1>2, <1>8, GoesMoves
<1> QED BY <1>6, <1>7, <1>8, MakeParentDoes

LEMMA ParentsMadeMoves ==
  ASSUME FilesOK, JobsOK, NEW a \in Agents, ParentsMade(a)
  PROVE  FileMoves(a)
<1>1. /\ Busy(a) /\ IsJob(job[a]) /\ job[a].step = "mkdir"
      /\ {"create", "undo"} \subseteq Steps(job[a].request.kind)
  BY AtMaking DEF ParentsMade, Making
<1>2. UNCHANGED <<budget, sudo, did, names, nodes, writing>>
  BY DEF ParentsMade, filesVars
<1>3. job[a].id = 0 /\ job[a].failure = "none"
  BY <1>1, JobFacts
<1> QED BY <1>1, <1>2, <1>3, ParentsMadeDoes, GoesMoves

LEMMA CreateMoves ==
  ASSUME FilesOK, JobsOK, NEW a \in Agents, Create(a)
  PROVE  FileMoves(a)
<1>1. /\ Busy(a) /\ IsJob(job[a]) /\ job[a].step = "create" /\ Path(a) \in Paths \ {<<>>}
      /\ Making \cup {"answer"} \subseteq Steps(job[a].request.kind) /\ job[a].request.id \in Nat
      /\ job[a].request.kind \in {"write", "symlink"} /\ job[a].made \in Seq(Paths)
  BY AtMaking DEF Create, Making
<1>2. (UNCHANGED budget \/ MayFail) /\ UNCHANGED <<sudo, did, writing>>
  BY DEF Create
<1>3. CASE /\ names[Path(a)] = 0 /\ Place(Path(a), Made(a), job[a].request.id, Maker)
           /\ Becomes(a, AfterMade(a), job[a].seen, Append(job[a].made, Path(a)), job[a].made,
                      Len(nodes) + 1, job[a].failure, job[a].left, job[a].wrote)
  <2>1. Append(job[a].made, Path(a)) \in Seq(Paths) /\ Append(job[a].made, Path(a)) # <<>>
    BY <1>1, AppendProperties
  <2>0. IsSeq(Append(job[a].made, Path(a))) /\ IsSeq(job[a].made)
    BY <1>1, <2>1, AnySeq
  <2>2. Later /\ NamesMove /\ Len(nodes') = Len(nodes) + 1
    BY <1>1, <1>3, PlaceFacts DEF NamesMove
  <2>3. Len(nodes) + 1 \in 0 .. Len(nodes') /\ Len(nodes) + 1 # 0
    BY <2>2, SeqFacts DEF FilesOK
  <2>4. AfterMade(a) \in {"own", "write", "answer"} /\ AfterMade(a) \in Steps(job[a].request.kind)
    BY <1>1 DEF AfterMade, Steps, Making
  <2>5. job[a].seen \in BOOLEAN /\ job[a].wrote \in BOOLEAN /\ job[a].left \subseteq Paths /\ job[a].failure = "none"
    BY <1>1, JobFacts
  <2>6. JobMoves(a)
    <3>1. JobAs(job[a].request.kind, AfterMade(a), job[a].seen, Append(job[a].made, Path(a)), job[a].made,
                Len(nodes) + 1, job[a].failure, job[a].left, job[a].wrote)
      BY <1>1, <2>0, <2>1, <2>3, <2>4, <2>5 DEF JobAs
    <3> QED BY <1>1, <1>3, <3>1, BecomesAJob
  <2>7. WritingMoves(a) /\ BudgetMoves
    BY <1>2, <2>2, WritingStays, BudgetStays
  <2> QED BY <1>2, <2>2, <2>6, <2>7, FileMovesIf
<1>4. CASE UNCHANGED <<names, nodes>> /\ GoesTo(a, "undo", "io")
  <2>1. "undo" \in Steps(job[a].request.kind)
    BY <1>1 DEF Making
  <2> QED BY <1>1, <1>2, <1>4, <2>1, GoesMoves
<1> QED BY <1>3, <1>4, CreateDoes

----------------------------------------------------------------------------
LEMMA FrontFacts ==
  ASSUME NEW S, NEW s \in Seq(S), s # <<>>
  PROVE  /\ Front(s) \in Seq(S) /\ IsSeq(Front(s)) /\ Len(Front(s)) = Len(s) - 1
         /\ DOMAIN Front(s) = 1 .. Len(s) - 1 /\ Last(s) \in S /\ Last(s) = s[Len(s)]
         /\ \A i \in DOMAIN Front(s): Front(s)[i] = s[i] /\ i \in DOMAIN s
         /\ Len(s) \in DOMAIN s
<1>1. IsSeq(s) /\ Len(s) \in Nat \ {0} /\ DOMAIN s = 1 .. Len(s) /\ \A i \in DOMAIN s: s[i] \in S
  BY AnySeq
<1>2. 1 \in 1 .. Len(s) + 1 /\ Len(s) - 1 \in 1 - 1 .. Len(s)
  BY <1>1
<1>3. /\ IsSeq(Front(s)) /\ Len(Front(s)) = Len(s) - 1 - 1 + 1
      /\ DOMAIN Front(s) = 1 .. Len(s) - 1 - 1 + 1
      /\ \A i \in 1 .. Len(s) - 1 - 1 + 1: Front(s)[i] = s[1 + i - 1] /\ 1 + i - 1 \in DOMAIN s
  BY <1>1, <1>2, SubSeqFacts DEF Front
<1>4. /\ Len(Front(s)) = Len(s) - 1 /\ DOMAIN Front(s) = 1 .. Len(s) - 1
      /\ \A i \in DOMAIN Front(s): Front(s)[i] = s[i] /\ i \in DOMAIN s
  BY <1>1, <1>3
<1>5. Front(s) \in Seq(S)
  <2>1. Front(s) \in Seq(ToSet(Front(s))) /\ ToSet(Front(s)) \subseteq S
    BY <1>1, <1>3, <1>4 DEF IsSeq, ToSet
  <2> QED BY <2>1, SeqMonotonic
<1> QED BY <1>1, <1>3, <1>4, <1>5 DEF Last

LEMMA OwnMoves ==
  ASSUME FilesOK, JobsOK, NEW a \in Agents, Own(a)
  PROVE  FileMoves(a)
<1>1. /\ Busy(a) /\ IsJob(job[a]) /\ job[a].step = "own" /\ Path(a) \in Paths \ {<<>>}
      /\ "unmake" \in Steps(job[a].request.kind)
      /\ job[a].request.kind \in {"write", "symlink"} /\ job[a].todo \in Seq(Paths) /\ job[a].made \in Seq(Paths)
  BY AtMaking DEF Own, Making
<1>2. (UNCHANGED budget \/ MayFail) /\ UNCHANGED <<sudo, did, writing, names>>
  BY DEF Own
<1>3. job[a].todo # <<>> /\ job[a].id # 0 /\ job[a].failure = "none" /\ job[a].id \in 0 .. Len(nodes)
  BY <1>1, JobFacts
<1>4. CASE /\ Given(a) # 0 /\ nodes' = [nodes EXCEPT ![Given(a)].owner = "user"]
           /\ Becomes(a, AfterGiven(a), job[a].seen, Tail(job[a].todo), job[a].made, job[a].id,
                      job[a].failure, job[a].left, job[a].wrote)
  <2>1. Head(job[a].todo) \in Paths /\ Tail(job[a].todo) \in Seq(Paths)
    BY <1>1, <1>3, HeadTailProperties
  <2>2. Given(a) \in DOMAIN nodes
    <3>1. DOMAIN nodes = 1 .. Len(nodes) /\ Len(nodes) \in Nat
      BY SeqFacts DEF FilesOK
    <3>2. names[Head(job[a].todo)] \in 0 .. Len(nodes)
      BY <2>1 DEF FilesOK
    <3> QED BY <1>3, <1>4, <3>1, <3>2 DEF Given
  <2>3. Later
    BY <1>4, <2>2, OwnerChange
  <2>4. IsSeq(Tail(job[a].todo)) /\ IsSeq(job[a].made)
    BY <1>1, <2>1, AnySeq
  <2>5. AfterGiven(a) = "own" => Tail(job[a].todo) # <<>>
    <3>1. IsSeq(job[a].todo) /\ Len(Tail(job[a].todo)) = Len(job[a].todo) - 1
      BY <1>1, <1>3, AnySeq, TailFacts
    <3>2. Len(job[a].todo) \in Nat
      BY <3>1, SeqFacts
    <3>3. AfterGiven(a) = "own" => Len(job[a].todo) # 1
      BY <1>1 DEF AfterGiven, IsLast
    <3> SUFFICES ASSUME AfterGiven(a) = "own", Tail(job[a].todo) = <<>> PROVE FALSE
      OBVIOUS
    <3>4. Len(Tail(job[a].todo)) = 0
      BY EmptyIsSeq
    <3> QED BY <3>1, <3>2, <3>3, <3>4
  <2>6. AfterGiven(a) \in {"own", "write", "answer"} /\ AfterGiven(a) \in Steps(job[a].request.kind)
    BY <1>1 DEF AfterGiven, Steps, Making
  <2>7. /\ job[a].seen \in BOOLEAN /\ job[a].wrote \in BOOLEAN /\ job[a].left \subseteq Paths
        /\ job[a].id \in 0 .. Len(nodes')
    BY <1>1, <2>3, JobFacts, JobStays
  <2>8. JobAs(job[a].request.kind, AfterGiven(a), job[a].seen, Tail(job[a].todo), job[a].made, job[a].id,
              job[a].failure, job[a].left, job[a].wrote)
    BY <1>1, <1>3, <2>1, <2>4, <2>5, <2>6, <2>7 DEF JobAs
  <2>9. JobMoves(a)
    BY <1>1, <1>4, <2>8, BecomesAJob
  <2> QED BY <1>2, <2>3, <2>9, StepMoves
<1>5. CASE UNCHANGED nodes /\ GoesTo(a, "unmake", "io")
  BY <1>1, <1>2, <1>3, <1>5, GoesMoves
<1> QED BY <1>4, <1>5, OwnDoes

\* A job that also keeps a path as left.
LEMMA LeavesMoves ==
  ASSUME FilesOK, JobsOK, NEW a \in Agents, Busy(a), UNCHANGED <<sudo, did, writing, nodes>>,
         UNCHANGED budget \/ MayFail,
         UNCHANGED names \/ \E p \in Paths: names' = [names EXCEPT ![p] = 0],
         NEW made \in Seq(Paths), NEW left \in SUBSET Paths,
         Becomes(a, "undo", job[a].seen, job[a].todo, made, job[a].id, job[a].failure, left, job[a].wrote),
         "undo" \in Steps(job[a].request.kind)
  PROVE  FileMoves(a)
<1>1. Later
  BY LaterStays
<1>2. IsJob(job[a])
  BY DEF JobsOK
<1>3. /\ job[a].seen \in BOOLEAN /\ job[a].wrote \in BOOLEAN /\ IsSeq(job[a].todo) /\ IsSeq(made)
      /\ job[a].request.kind \in Changes => job[a].todo \in Seq(Paths)
      /\ job[a].id \in 0 .. Len(nodes')
  BY <1>1, <1>2, JobFacts, JobStays, AnySeq
<1>4. JobAs(job[a].request.kind, "undo", job[a].seen, job[a].todo, made, job[a].id,
            job[a].failure, left, job[a].wrote)
  BY <1>3 DEF JobAs
<1> QED BY <1>1, <1>4, BecomesAJob, StepMoves

LEMMA UnmakeMoves ==
  ASSUME FilesOK, JobsOK, NEW a \in Agents, Unmake(a)
  PROVE  FileMoves(a)
<1>1. /\ Busy(a) /\ IsJob(job[a]) /\ job[a].step = "unmake" /\ Path(a) \in Paths \ {<<>>}
      /\ "undo" \in Steps(job[a].request.kind) /\ "unlinkMade" \in Steps(job[a].request.kind)
      /\ job[a].made \in Seq(Paths)
  BY AtMaking DEF Unmake, Making
<1>2. UNCHANGED <<budget, sudo, did, writing, names, nodes>>
  BY DEF Unmake, filesVars
<1>3. job[a].id # 0 /\ job[a].left \cup {Path(a)} \in SUBSET Paths
  BY <1>1, JobFacts
<1> QED BY <1>1, <1>2, <1>3, UnmakeDoes, GoesMoves, LeavesMoves

LEMMA UnlinkMadeMoves ==
  ASSUME FilesOK, JobsOK, NEW a \in Agents, UnlinkMade(a)
  PROVE  FileMoves(a)
<1>1. /\ Busy(a) /\ IsJob(job[a]) /\ job[a].step = "unlinkMade" /\ Path(a) \in Paths \ {<<>>}
      /\ "undo" \in Steps(job[a].request.kind) /\ job[a].made \in Seq(Paths)
  BY AtMaking DEF UnlinkMade, Making
<1>2. (UNCHANGED budget \/ MayFail) /\ UNCHANGED <<sudo, did, writing, nodes>>
  BY DEF UnlinkMade
<1>3. job[a].left \cup {Path(a)} \in SUBSET Paths
  BY <1>1, JobFacts
<1>4. CASE names' = [names EXCEPT ![Path(a)] = 0] /\ GoesTo(a, "undo", job[a].failure)
  BY <1>1, <1>2, <1>4, GoesMoves
<1>5. CASE /\ UNCHANGED names
           /\ Becomes(a, "undo", job[a].seen, job[a].todo, job[a].made, job[a].id, job[a].failure,
                      job[a].left \cup {Path(a)}, job[a].wrote)
  BY <1>1, <1>2, <1>3, <1>5, LeavesMoves
<1> QED BY <1>4, <1>5, UnlinkMadeDoes

LEMMA UndoMoves ==
  ASSUME FilesOK, JobsOK, NEW a \in Agents, Undo(a)
  PROVE  FileMoves(a)
<1>1. /\ Busy(a) /\ IsJob(job[a]) /\ job[a].step = "undo" /\ Path(a) \in Paths \ {<<>>}
      /\ "undo" \in Steps(job[a].request.kind) /\ job[a].made \in Seq(Paths)
  BY AtMaking DEF Undo, Making
<1>2. (UNCHANGED budget \/ MayFail) /\ UNCHANGED <<sudo, did, writing, nodes>> /\ job[a].made # <<>>
  BY DEF Undo
<1>3. Front(job[a].made) \in Seq(Paths) /\ Last(job[a].made) \in Paths
  BY <1>1, <1>2, FrontFacts
<1>4. job[a].left \in SUBSET Paths /\ job[a].left \cup {Last(job[a].made)} \in SUBSET Paths
  BY <1>1, <1>3, JobFacts
<1>5. CASE /\ names' = [names EXCEPT ![Last(job[a].made)] = 0]
           /\ Becomes(a, job[a].step, job[a].seen, job[a].todo, Front(job[a].made), job[a].id,
                      job[a].failure, job[a].left, job[a].wrote)
  BY <1>1, <1>2, <1>3, <1>4, <1>5, LeavesMoves
<1>6. CASE /\ UNCHANGED names
           /\ Becomes(a, job[a].step, job[a].seen, job[a].todo, Front(job[a].made), job[a].id,
                      job[a].failure, job[a].left \cup {Last(job[a].made)}, job[a].wrote)
  BY <1>1, <1>2, <1>3, <1>4, <1>6, LeavesMoves
<1> QED BY <1>5, <1>6, UndoDoes

LEMMA UndoneMoves ==
  ASSUME FilesOK, JobsOK, NEW a \in Agents, Undone(a)
  PROVE  FileMoves(a)
<1>1. Busy(a) /\ "answer" \in Steps(job[a].request.kind)
  BY AtMaking DEF Undone, Making
<1>2. UNCHANGED <<budget, sudo, did, writing, names, nodes>>
  BY DEF Undone, filesVars
<1> QED BY <1>1, <1>2, UndoneDoes, GoesMoves

\* Of the other changes: what they go on to.
LEMMA AtOther ==
  ASSUME JobsOK, NEW a \in Agents, NEW s \in {"write", "remove", "unlink", "chmod"}, At(a, s)
  PROVE  /\ Busy(a) /\ IsJob(job[a]) /\ job[a].step = s /\ Path(a) \in Paths \ {<<>>}
         /\ job[a].request.kind \in Changes /\ "answer" \in Steps(job[a].request.kind)
         /\ s = "write" => job[a].request.kind = "write"
         /\ s = "remove" => "unlink" \in Steps(job[a].request.kind)
         /\ s \in {"remove", "unlink", "chmod"} => job[a].request.kind \notin {"write", "symlink"}
<1>1. Busy(a) /\ IsJob(job[a]) /\ s \in Steps(job[a].request.kind)
  BY AtIsBusy
<1>2. IsRequest(job[a].request)
  BY <1>1 DEF IsJob
<1> QED BY <1>1, <1>2 DEF Steps, Making, IsRequest, Changes, Path, At

LEMMA LookToRemoveMoves ==
  ASSUME FilesOK, JobsOK, NEW a \in Agents, LookToRemove(a)
  PROVE  FileMoves(a)
<1>1. Busy(a) /\ "answer" \in Steps(job[a].request.kind) /\ "unlink" \in Steps(job[a].request.kind)
  BY AtOther DEF LookToRemove
<1>2. UNCHANGED <<budget, sudo, did, writing, names, nodes>>
  BY DEF LookToRemove, filesVars
<1> QED BY <1>1, <1>2, LookToRemoveDoes, GoesMoves

LEMMA UnlinkMoves ==
  ASSUME FilesOK, JobsOK, NEW a \in Agents, Unlink(a)
  PROVE  FileMoves(a)
<1>1. Busy(a) /\ "answer" \in Steps(job[a].request.kind) /\ Path(a) \in Paths
  BY AtOther DEF Unlink
<1>2. (UNCHANGED budget \/ MayFail) /\ UNCHANGED <<sudo, did, writing, nodes>>
  BY DEF Unlink
<1> QED BY <1>1, <1>2, UnlinkDoes, GoesMoves

LEMMA ChmodMoves ==
  ASSUME FilesOK, JobsOK, NEW a \in Agents, Chmod(a)
  PROVE  FileMoves(a)
<1>1. Busy(a) /\ "answer" \in Steps(job[a].request.kind) /\ Path(a) \in Paths
  BY AtOther DEF Chmod
<1>2. (UNCHANGED budget \/ MayFail) /\ UNCHANGED <<sudo, did, writing, names>>
  BY DEF Chmod
<1>3. CASE /\ names[Path(a)] # 0
           /\ nodes' = [nodes EXCEPT ![names[Path(a)]].mode =
                           Resulting(nodes[names[Path(a)]], job[a].request.bits)]
           /\ GoesTo(a, "answer", job[a].failure)
  <2>1. names[Path(a)] \in DOMAIN nodes
    BY <1>1, <1>3, SeqFacts DEF FilesOK
  <2>2. PICK n, mode: n = names[Path(a)] /\ nodes' = [nodes EXCEPT ![n].mode = mode]
    BY <1>3
  <2>3. Later
    BY <2>1, <2>2, ModeChange
  <2>4. JobMoves(a)
    BY <1>1, <1>3, <2>3, GoesToAJob
  <2> QED BY <1>2, <2>3, <2>4, StepMoves
<1>4. CASE UNCHANGED nodes /\ \E f: GoesTo(a, "answer", f)
  BY <1>1, <1>2, <1>4, GoesMoves
<1> QED BY <1>3, <1>4, ChmodDoes

LEMMA WritePartMoves ==
  ASSUME FilesOK, JobsOK, NEW a \in Agents, WritePart(a)
  PROVE  FileMoves(a)
<1>1. /\ Busy(a) /\ IsJob(job[a]) /\ job[a].step = "write" /\ Path(a) \in Paths
      /\ job[a].request.kind = "write" /\ "answer" \in Steps(job[a].request.kind)
  BY AtOther DEF WritePart
<1>2. (UNCHANGED budget \/ MayFail) /\ UNCHANGED <<sudo, did, names>>
  BY DEF WritePart
<1>3. job[a].id \in DOMAIN nodes /\ job[a].id \in 0 .. Len(nodes)
  BY <1>1, JobFacts, SeqFacts DEF FilesOK
<1>4. Later /\ Len(nodes') = Len(nodes)
  <2>1. CASE UNCHANGED nodes
    BY <2>1, LaterStays
  <2>2. CASE nodes' = Written(a)
    <3>1. PICK n, parts: /\ n = job[a].id /\ parts = Append(nodes[n].parts, job[a].request.part)
                         /\ nodes' = [nodes EXCEPT ![n].parts = parts]
      BY <2>2 DEF Written
    <3>2. IsSeq(parts)
      BY <1>3, <3>1, AppendFacts DEF FilesOK, IsNode
    <3> QED BY <1>3, <3>1, <3>2, PartsChange
  <2> QED BY <2>1, <2>2, WritePartDoes
<1>5. WritingMoves(a)
  <2>1. PICK id \in 0 .. Len(nodes): writing' = [writing EXCEPT ![a][Path(a)] = id]
    <3>1. 0 \in 0 .. Len(nodes) /\ (IF job[a].request.more THEN job[a].id ELSE 0) \in 0 .. Len(nodes)
      BY <1>3, SeqFacts DEF FilesOK
    <3> QED BY <3>1, WritePartDoes
  <2> QED BY <1>1, <1>4, <2>1 DEF FilesOK, WritingMoves
<1>6. \E f: Becomes(a, "answer", job[a].seen, job[a].todo, job[a].made, job[a].id, f, job[a].left, TRUE)
  BY WritePartDoes
<1>7. ASSUME NEW f,
             Becomes(a, "answer", job[a].seen, job[a].todo, job[a].made, job[a].id, f, job[a].left, TRUE)
      PROVE  JobMoves(a)
  <2>0. PICK yes \in BOOLEAN:
          Becomes(a, "answer", job[a].seen, job[a].todo, job[a].made, job[a].id, f, job[a].left, yes)
    BY <1>7
  <2>1. JobAs(job[a].request.kind, "answer", job[a].seen, job[a].todo, job[a].made, job[a].id, f,
              job[a].left, yes)
    BY <1>1, <1>3, <1>4, JobFacts DEF JobAs
  <2> QED BY <1>1, <2>0, <2>1, BecomesAJob
<1>8. BudgetMoves /\ NamesMove
  BY <1>2, <1>4, BudgetStays, NamesStay
<1> QED BY <1>2, <1>4, <1>5, <1>6, <1>7, <1>8, FileMovesIf

LEMMA FilesStepMoves ==
  ASSUME FilesOK, JobsOK, NEW a \in Agents, FilesStep(a)
  PROVE  FileMoves(a)
BY LookMoves, OpenExistingMoves, FindParentsMoves, MakeParentMoves, ParentsMadeMoves, CreateMoves,
   OwnMoves, UnmakeMoves, UnlinkMadeMoves, UndoMoves, UndoneMoves, WritePartMoves, LookToRemoveMoves,
   UnlinkMoves, ChmodMoves DEF FilesStep

----------------------------------------------------------------------------
\* Jobs go on while the tree grows.
LEMMA JobsStay ==
  ASSUME FilesOK, JobsOK, Later, UNCHANGED job
  PROVE  JobsOK'
<1>1. Len(nodes) \in Nat /\ Len(nodes') \in Nat /\ Len(nodes) <= Len(nodes')
  BY SeqFacts DEF FilesOK, Later, IsSeq
<1>2. 0 .. Len(nodes) \subseteq 0 .. Len(nodes')
  BY <1>1
<1> QED BY <1>2 DEF JobsOK, Busy, IsJob, JobFields, IsRequest, IsSeq, Steps

LEMMA FileMovesJobs ==
  ASSUME FilesOK, JobsOK, NEW a \in Agents, FileMoves(a)
  PROVE  JobsOK'
<1>1. Len(nodes) \in Nat /\ Len(nodes') \in Nat /\ Len(nodes) <= Len(nodes')
  BY SeqFacts DEF FilesOK, FileMoves, Later, IsSeq
<1>2. 0 .. Len(nodes) \subseteq 0 .. Len(nodes')
  BY <1>1
<1>3. ASSUME NEW b \in Agents, Busy(b)'
      PROVE  IsJob(job[b])'
  <2>1. CASE b = a
    BY <2>1 DEF FileMoves, JobMoves
  <2>2. CASE b # a
    <3>1. job'[b] = job[b]
      BY <2>2 DEF FileMoves, JobMoves
    <3>2. IsJob(job[b])
      BY <1>3, <3>1 DEF JobsOK, Busy
    <3> QED BY <1>2, <3>1, <3>2 DEF IsJob, JobFields, IsRequest, IsSeq, Steps
  <2> QED BY <2>1, <2>2
<1> QED BY <1>3 DEF JobsOK, FileMoves, JobMoves

LEMMA OthersDo ==
  ASSUME FilesOK, OthersMove
  PROVE  /\ Later /\ FilesOK' /\ UNCHANGED <<sudo, job, writing, did>>
         /\ budget'.garbled = budget.garbled
         /\ \E m \in OthersMay:
              \/ UNCHANGED nodes /\ names' = [names EXCEPT ![m.path] = 0]
              \/ /\ IsRename(m) /\ names[m.path] # 0 /\ names[m.to] = 0 /\ UNCHANGED nodes
                 /\ names' = [names EXCEPT ![m.path] = 0, ![m.to] = names[m.path]]
              \/ Place(m.path, m.kind, 0, "other")
<1>1. UNCHANGED <<sudo, job, writing, did>>
  BY DEF OthersMove
<1>2. BudgetMoves
  <2>1. PICK b: b = [budget EXCEPT !.moves = @ - 1] /\ budget' = b
    BY DEF OthersMove
  <2>2. budget.moves - 1 \in Nat
    BY DEF OthersMove, FilesOK
  <2>3. b \in [moves : Nat, fails : Nat, losses : Nat, garbled : Nat] /\ b.garbled = budget.garbled
    BY <2>1, <2>2 DEF FilesOK
  <2> QED BY <2>1, <2>3 DEF BudgetMoves
<1>3. PICK m \in OthersMay:
              \/ UNCHANGED nodes /\ names' = [names EXCEPT ![m.path] = 0]
              \/ /\ IsRename(m) /\ names[m.path] # 0 /\ names[m.to] = 0 /\ UNCHANGED nodes
                 /\ names' = [names EXCEPT ![m.path] = 0, ![m.to] = names[m.path]]
              \/ Place(m.path, m.kind, 0, "other")
  BY DEF OthersMove, IsRename
<1>4. m.path \in Paths /\ (m.kind = "rename" => m.to \in Paths)
  BY OthersStayInTheTree
<1>5. CASE UNCHANGED nodes /\ names' = [names EXCEPT ![m.path] = 0]
  BY <1>1, <1>2, <1>3, <1>4, <1>5, LaterStays, NamesStay, WritingIsKept
     DEF FilesOK, Later, BudgetMoves, NamesMove, IsSeq, IsNode
<1>6. CASE /\ IsRename(m) /\ names[m.path] # 0 /\ names[m.to] = 0 /\ UNCHANGED nodes
           /\ names' = [names EXCEPT ![m.path] = 0, ![m.to] = names[m.path]]
  <2>1. Later
    BY <1>6, LaterStays
  <2>2. names' \in [Paths -> 0 .. Len(nodes')]
    BY <1>4, <1>6, SeqFacts DEF FilesOK, IsRename
  <2> QED BY <1>1, <1>2, <1>3, <2>1, <2>2, WritingIsKept DEF FilesOK, Later, BudgetMoves, IsSeq, IsNode
<1>7. CASE Place(m.path, m.kind, 0, "other")
  <2>1. Later /\ names' \in [Paths -> 0 .. Len(nodes')]
    BY <1>4, <1>7, PlaceFacts
  <2> QED BY <1>1, <1>2, <1>3, <2>1, WritingIsKept DEF FilesOK, Later, BudgetMoves, IsSeq, IsNode
<1> QED BY <1>3, <1>5, <1>6, <1>7

----------------------------------------------------------------------------
\* What a step of the client makes of it.
ClientIs(step, agent, part, attempt, id, got, open) ==
  client' = [step |-> step, agent |-> agent, part |-> part, attempt |-> attempt, id |-> id,
             got |-> got, open |-> open]

LEMMA FinishDoes ==
  ASSUME ClientOK, NEW is, NEW got, Finish(is, got)
  PROVE  /\ ClientIs("next", client.agent, 1, 1, client.id, client.got, client.open)
         /\ program' = Tail(program) /\ results' = Append(results, Result(is, got))
<1>1. PICK c: c = [client EXCEPT !.step = "next", !.part = 1, !.attempt = 1] /\ client' = c
  BY DEF Finish
<1>2. c = [step |-> "next", agent |-> client.agent, part |-> 1, attempt |-> 1, id |-> client.id,
           got |-> client.got, open |-> client.open]
  BY <1>1 DEF ClientOK
<1> QED BY <1>1, <1>2 DEF ClientIs, Finish

LEMMA LoseItDoes ==
  ASSUME ClientOK, LoseIt
  PROVE  /\ ClientIs("lost", client.agent, client.part, client.attempt, client.id, client.got, client.open)
         /\ UNCHANGED <<program, results>>
<1>1. PICK c: c = [client EXCEPT !.step = "lost"] /\ client' = c
  BY DEF LoseIt
<1>2. c = [step |-> "lost", agent |-> client.agent, part |-> client.part, attempt |-> client.attempt,
           id |-> client.id, got |-> client.got, open |-> client.open]
  BY <1>1 DEF ClientOK
<1> QED BY <1>1, <1>2 DEF ClientIs, LoseIt

LEMMA SendRequestDoes ==
  ASSUME ClientOK, SendRequest
  PROVE  /\ client.step = "next" /\ program # <<>> /\ UNCHANGED <<filesVars, job, budget>>
         /\ \/ /\ Op.kind = "huge" /\ program' = Tail(program) /\ UNCHANGED <<client, did, pipeVars>>
               /\ \E r: r.id = 0 /\ results' = Append(results, r)
            \/ /\ Op.kind # "huge" /\ inbox' = [inbox EXCEPT ![Mine] = Append(@, Request)]
               /\ did' = Append(did, NothingYet)
               /\ ClientIs("wait", client.agent, client.part, client.attempt, client.id + 1, <<>>, {})
               /\ UNCHANGED <<program, results, outbox, ended>>
<1>1. CASE Op.kind = "huge"
  <2>1. [Result("refused", <<>>) EXCEPT !.id = 0].id = 0
    BY DEF Result
  <2> QED BY <1>1, <2>1 DEF SendRequest
<1>2. CASE Op.kind # "huge"
  <2>1. PICK c: c = [client EXCEPT !.step = "wait", !.id = @ + 1, !.got = <<>>, !.open = {}] /\ client' = c
    BY <1>2 DEF SendRequest
  <2>2. c = [step |-> "wait", agent |-> client.agent, part |-> client.part, attempt |-> client.attempt,
             id |-> client.id + 1, got |-> <<>>, open |-> {}]
    BY <2>1 DEF ClientOK
  <2> QED BY <1>2, <2>1, <2>2 DEF SendRequest, ClientIs
<1> QED BY <1>1, <1>2

\* A frame is received.
Received == UNCHANGED <<filesVars, job, did, budget, inbox, ended>> /\ outbox' = [outbox EXCEPT ![Mine] = Tail(@)]

LEMMA ReceiveContentsDoes ==
  ASSUME ClientOK, ReceiveContents
  PROVE  /\ client.step = "wait" /\ Op.kind = "read" /\ outbox[Mine] # <<>> /\ Received
         /\ LET frame == Head(outbox[Mine])
                joined == Joined(client.got, client.open, frame.pieces)
            IN \/ frame.kind = "refused" /\ Finish("refused", <<>>)
               \/ /\ frame.kind = "contents" /\ ~frame.last /\ joined.ok
                  /\ ClientIs("wait", client.agent, client.part, client.attempt, client.id, joined.got, joined.open)
                  /\ UNCHANGED <<program, results>>
               \/ frame.kind = "contents" /\ frame.last /\ frame.bad /\ Finish("refused", <<>>)
               \/ /\ frame.kind = "contents" /\ frame.last /\ ~frame.bad /\ joined.ok /\ joined.open = {}
                  /\ Finish("read", joined.got)
               \/ LoseIt
<1> DEFINE frame == Head(outbox[Mine])
<1>0. /\ client.step = "wait" /\ Op.kind = "read" /\ outbox[Mine] # <<>> /\ Received
  BY DEF ReceiveContents, Received
<1>1. PICK joined: joined = Joined(client.got, client.open, frame.pieces)
  OBVIOUS
<1>2. ASSUME client' = [client EXCEPT !.got = joined.got, !.open = joined.open]
      PROVE  ClientIs("wait", client.agent, client.part, client.attempt, client.id, joined.got, joined.open)
  <2>0. PICK g, o: g = joined.got /\ o = joined.open
    OBVIOUS
  <2>1. PICK c: c = [client EXCEPT !.got = g, !.open = o] /\ client' = c
    BY <1>2, <2>0
  <2>2. c = [step |-> "wait", agent |-> client.agent, part |-> client.part, attempt |-> client.attempt,
             id |-> client.id, got |-> g, open |-> o]
    BY <1>0, <2>1 DEF ClientOK
  <2> QED BY <2>0, <2>1, <2>2 DEF ClientIs
<1> HIDE DEF frame
<1>3. CASE frame.kind = "refused"
  BY <1>0, <1>3 DEF ReceiveContents, frame
<1>4. CASE frame.kind = "contents"
  BY <1>0, <1>1, <1>2, <1>4 DEF ReceiveContents, frame
<1>5. CASE frame.kind # "refused" /\ frame.kind # "contents"
  BY <1>0, <1>5 DEF ReceiveContents, frame
<1> QED BY <1>3, <1>4, <1>5

LEMMA ReceiveChangedDoes ==
  ASSUME ClientOK, ReceiveChanged
  PROVE  /\ client.step = "wait" /\ Op.kind # "read" /\ outbox[Mine] # <<>> /\ Received
         /\ LET frame == Head(outbox[Mine])
            IN \/ frame.kind = "refused" /\ Finish("refused", <<>>)
               \/ frame.kind = "changed" /\ frame.failure # "none" /\ Finish(frame.failure, <<>>)
               \/ /\ frame.kind = "changed" /\ frame.failure = "none"
                  /\ Op.kind = "write" /\ client.part < Op.parts
                  /\ ClientIs("next", client.agent, client.part + 1, client.attempt, client.id, client.got, client.open)
                  /\ UNCHANGED <<program, results>>
               \/ /\ frame.kind = "changed" /\ frame.failure = "none"
                  /\ Op.kind = "write" => ~(client.part < Op.parts)
                  /\ Finish("done", <<>>)
               \/ frame.kind \notin {"refused", "changed"} /\ LoseIt
<1> DEFINE frame == Head(outbox[Mine])
<1>0. /\ client.step = "wait" /\ Op.kind # "read" /\ outbox[Mine] # <<>> /\ Received
  BY DEF ReceiveChanged, Received
<1>2. ASSUME client' = [client EXCEPT !.step = "next", !.part = @ + 1]
      PROVE  ClientIs("next", client.agent, client.part + 1, client.attempt, client.id, client.got, client.open)
  <2>1. PICK c: c = [client EXCEPT !.step = "next", !.part = @ + 1] /\ client' = c
    BY <1>2
  <2>2. c = [step |-> "next", agent |-> client.agent, part |-> client.part + 1, attempt |-> client.attempt,
             id |-> client.id, got |-> client.got, open |-> client.open]
    BY <2>1 DEF ClientOK
  <2> QED BY <2>1, <2>2 DEF ClientIs
<1> HIDE DEF frame
<1>3. CASE frame.kind = "refused"
  BY <1>0, <1>3 DEF ReceiveChanged, frame
<1>4. CASE frame.kind = "changed"
  BY <1>0, <1>2, <1>4 DEF ReceiveChanged, frame
<1>5. CASE frame.kind # "refused" /\ frame.kind # "changed"
  BY <1>0, <1>5 DEF ReceiveChanged, frame
<1> QED BY <1>3, <1>4, <1>5

LEMMA ReconnectDoes ==
  ASSUME ClientOK, Reconnect
  PROVE  /\ client.step = "lost" /\ client.attempt = 1 /\ Mine + 1 \in Agents
         /\ ClientIs("next", client.agent + 1, client.part, 2, client.id, client.got, client.open)
         /\ outbox' = [outbox EXCEPT ![Mine] = <<>>]
         /\ \E frames \in {inbox[Mine], <<>>}: inbox' = [inbox EXCEPT ![Mine] = frames]
         /\ ended' = [ended EXCEPT ![Mine] = IF @ = "no" THEN "closing" ELSE @]
         /\ \/ IsChange(Op) /\ results' = Append(results, Result("lost", <<>>)) /\ program' = <<Look1(Op)>>
            \/ ~IsChange(Op) /\ UNCHANGED <<results, program>>
         /\ UNCHANGED <<filesVars, job, did, budget>>
<1>1. PICK c: c = [client EXCEPT !.step = "next", !.attempt = 2, !.agent = @ + 1] /\ client' = c
  BY DEF Reconnect, Drop
<1>2. c = [step |-> "next", agent |-> client.agent + 1, part |-> client.part, attempt |-> 2,
           id |-> client.id, got |-> client.got, open |-> client.open]
  BY <1>1 DEF ClientOK
<1>3. \E frames \in {inbox[Mine], <<>>}: inbox' = [inbox EXCEPT ![Mine] = frames]
  BY DEF Reconnect, Drop
<1> QED BY <1>1, <1>2, <1>3 DEF Reconnect, Drop, ClientIs

LEMMA GiveUpDoes ==
  ASSUME ClientOK, GiveUp
  PROVE  /\ client.step = "lost" /\ program' = <<>> /\ results' = Append(results, Result("lost", <<>>))
         /\ ClientIs("next", client.agent, client.part, client.attempt, client.id, client.got, client.open)
         /\ ended' = [ended EXCEPT ![Mine] = IF @ = "no" THEN "closing" ELSE @]
         /\ UNCHANGED <<filesVars, job, did, budget, inbox, outbox>>
<1>1. PICK c: c = [client EXCEPT !.step = "next"] /\ client' = c
  BY DEF GiveUp
<1>2. c = [step |-> "next", agent |-> client.agent, part |-> client.part, attempt |-> client.attempt,
           id |-> client.id, got |-> client.got, open |-> client.open]
  BY <1>1 DEF ClientOK
<1> QED BY <1>1, <1>2 DEF GiveUp, ClientIs

----------------------------------------------------------------------------
\* What an agent does between its jobs.
Found(a, r) == IF r.kind = "write" THEN writing[a][r.path] ELSE 0
Taken(a, r) ==
  [request |-> r, step |-> FirstStep(a, r), seen |-> FALSE, todo |-> <<>>, made |-> <<>>,
   id |-> Found(a, r), failure |-> "none", left |-> {}, wrote |-> FALSE]
JobIs(a, j) == DOMAIN job' = Agents /\ job'[a] = j /\ \A b \in Agents \ {a}: job'[b] = job[b]

LEMMA NotBusy ==
  ASSUME JobsOK, NEW a \in Agents, At(a, "idle")
  PROVE  ~Busy(a)
BY DEF JobsOK, IsJob, Steps, Making, At, Busy

LEMMA ContinueIs ==
  ASSUME JobsOK, NEW a \in Agents, NEW j, Continue(a, j)
  PROVE  JobIs(a, j)
BY DEF JobsOK, Continue, JobIs

LEMMA TakeDoes ==
  ASSUME FilesOK, JobsOK, NEW a \in Agents, Take(a)
  PROVE  /\ ended[a] # "dead" /\ ~Busy(a) /\ inbox[a] # <<>> /\ inbox' = [inbox EXCEPT ![a] = Tail(@)]
         /\ UNCHANGED <<sudo, names, nodes, ended, clientVars>>
         /\ LET request == Head(inbox[a])
            IN  \/ /\ JobIs(a, Taken(a, request)) /\ UNCHANGED <<did, outbox, budget>>
                   /\ writing' = IF request.kind = "write"
                                 THEN [writing EXCEPT ![a][request.path] = 0] ELSE writing
                \/ /\ budget.garbled > 0 /\ budget' = [budget EXCEPT !.garbled = @ - 1]
                   /\ did' = [did EXCEPT ![request.id] = Came("refused", <<>>, {}, <<>>, FALSE, 0)]
                   /\ outbox' = [outbox EXCEPT ![a] = Append(@, [kind |-> "refused", id |-> request.id])]
                   /\ UNCHANGED <<job, writing>>
<1>1. ~Busy(a)
  BY NotBusy DEF Take
<1>2. ASSUME NEW r, NEW s, NEW id, Continue(a, [Start(r, s) EXCEPT !.id = id])
      PROVE  JobIs(a, [request |-> r, step |-> s, seen |-> FALSE, todo |-> <<>>, made |-> <<>>,
                       id |-> id, failure |-> "none", left |-> {}, wrote |-> FALSE])
  <2>1. PICK j: j = [Start(r, s) EXCEPT !.id = id] /\ Continue(a, j)
    BY <1>2
  <2>2. j = [request |-> r, step |-> s, seen |-> FALSE, todo |-> <<>>, made |-> <<>>,
             id |-> id, failure |-> "none", left |-> {}, wrote |-> FALSE]
    BY <2>1 DEF Start
  <2> QED BY <2>1, <2>2, ContinueIs
<1>3. CASE UNCHANGED budget
  <2> DEFINE r == Head(inbox[a])
  <2>1. Continue(a, [Start(r, FirstStep(a, r)) EXCEPT !.id = Found(a, r)]) \/ budget.garbled > 0
    BY DEF Take, Found
  <2>2. Continue(a, [Start(r, FirstStep(a, r)) EXCEPT !.id = Found(a, r)]) => JobIs(a, Taken(a, r))
    BY <1>2 DEF Taken
  <2> QED BY <1>1, <1>3, <2>1, <2>2 DEF Take, Found, Say
<1>4. CASE budget' = [budget EXCEPT !.garbled = @ - 1] /\ budget.garbled > 0 /\ ~UNCHANGED budget
  BY <1>1, <1>4 DEF Take, Say
<1> QED BY <1>3, <1>4 DEF Take

LEMMA AnswerChangeDoes ==
  ASSUME JobsOK, NEW a \in Agents, AnswerChange(a)
  PROVE  /\ At(a, "answer") /\ Busy(a) /\ job[a].request.kind # "read" /\ JobIs(a, Idle)
         /\ UNCHANGED <<filesVars, budget, inbox, ended, clientVars>>
         /\ Did(a, Came(IF job[a].failure = "none" THEN "done" ELSE job[a].failure, <<>>, job[a].left,
                        Path(a), job[a].wrote, job[a].id))
         /\ Say(a, [kind |-> "changed", failure |-> job[a].failure, id |-> job[a].request.id])
BY AtIsBusy, ContinueIs DEF AnswerChange, Path

\* What a path is read as.
Pieces(p) == IF Kind(p) = "file" THEN PiecesOf(p, nodes[names[p]].parts) ELSE Failed(p)
Reading(a, paths, todo, made) ==
  JobIs(a, [request |-> [kind |-> "read", paths |-> paths, bad |-> job[a].request.bad,
                         id |-> job[a].request.id],
            step |-> "read", seen |-> job[a].seen, todo |-> todo, made |-> made, id |-> job[a].id,
            failure |-> job[a].failure, left |-> job[a].left, wrote |-> job[a].wrote])

LEMMA AtRead ==
  ASSUME JobsOK, NEW a \in Agents, At(a, "read")
  PROVE  /\ Busy(a) /\ IsJob(job[a]) /\ job[a].step = "read" /\ job[a].request.kind = "read"
         /\ job[a].request = [kind |-> "read", paths |-> job[a].request.paths, bad |-> job[a].request.bad,
                              id |-> job[a].request.id]
         /\ job[a].request.paths \in Seq(Paths) /\ IsSeq(job[a].made) /\ IsSeq(job[a].todo)
<1>1. Busy(a) /\ IsJob(job[a]) /\ "read" \in Steps(job[a].request.kind)
  BY AtIsBusy
<1>2. IsRequest(job[a].request)
  BY <1>1, JobFacts
<1>3. job[a].request.kind = "read"
  BY <1>1, <1>2 DEF Steps, Making, IsRequest, Changes
<1> QED BY <1>1, <1>2, <1>3, JobFacts DEF IsRequest, At

LEMMA ReadOneDoes ==
  ASSUME JobsOK, NEW a \in Agents, ReadOne(a)
  PROVE  /\ At(a, "read") /\ job[a].request.paths # <<>>
         /\ UNCHANGED <<filesVars, did, budget, pipeVars, clientVars>>
         /\ Reading(a, Tail(job[a].request.paths), job[a].todo,
                    job[a].made \o Pieces(Head(job[a].request.paths)))
<1>1. PICK pieces: /\ pieces = Pieces(Head(job[a].request.paths))
                   /\ Continue(a, [job[a] EXCEPT !.request.paths = Tail(@), !.made = @ \o pieces])
  BY DEF ReadOne, Pieces
<1>2. PICK r: r = [job[a].request EXCEPT !.paths = Tail(@)]
  OBVIOUS
<1>0. PICK made: made = job[a].made \o pieces
  OBVIOUS
<1>3. PICK j: j = [job[a] EXCEPT !.request = r, !.made = made] /\ Continue(a, j)
  BY <1>0, <1>1, <1>2
<1>4. JobFields(job[a])
  BY AtIsBusy DEF ReadOne
<1>5. r = [kind |-> "read", paths |-> Tail(job[a].request.paths), bad |-> job[a].request.bad,
           id |-> job[a].request.id]
  <2>1. PICK q: q = job[a].request
    OBVIOUS
  <2>2. q = [kind |-> "read", paths |-> q.paths, bad |-> q.bad, id |-> q.id]
    <3>1. At(a, "read")
      BY DEF ReadOne
    <3> QED BY <2>1, <3>1, AtRead
  <2>3. PICK rest: rest = Tail(q.paths)
    OBVIOUS
  <2>4. r = [q EXCEPT !.paths = rest]
    BY <1>2, <2>1, <2>3
  <2>5. r = [kind |-> "read", paths |-> rest, bad |-> q.bad, id |-> q.id]
    BY <2>2, <2>4
  <2> QED BY <2>1, <2>3, <2>5
<1>6. j = [request |-> r, step |-> "read", seen |-> job[a].seen, todo |-> job[a].todo,
           made |-> made, id |-> job[a].id,
           failure |-> job[a].failure, left |-> job[a].left, wrote |-> job[a].wrote]
  <2>1. PICK k: k = job[a] /\ JobFields(k) /\ j = [k EXCEPT !.request = r, !.made = made]
                /\ k.step = "read"
    BY <1>3, <1>4, AtRead DEF ReadOne
  <2>2. j = [request |-> r, step |-> k.step, seen |-> k.seen, todo |-> k.todo, made |-> made,
             id |-> k.id, failure |-> k.failure, left |-> k.left, wrote |-> k.wrote]
    BY <2>1 DEF JobFields
  <2> QED BY <2>1, <2>2
<1>7. Reading(a, Tail(job[a].request.paths), job[a].todo, job[a].made \o pieces)
  BY <1>0, <1>3, <1>5, <1>6, ContinueIs DEF Reading
<1> QED BY <1>1, <1>7 DEF ReadOne

LEMMA SayContentsDoes ==
  ASSUME JobsOK, NEW a \in Agents, SayContents(a)
  PROVE  /\ At(a, "read") /\ UNCHANGED <<filesVars, budget, inbox, ended, clientVars>>
         /\ \/ /\ Len(job[a].made) > FrameLimit /\ UNCHANGED did
               /\ Say(a, ContentFrame(a, SubSeq(job[a].made, 1, FrameLimit), FALSE))
               /\ Reading(a, job[a].request.paths, job[a].todo \o SubSeq(job[a].made, 1, FrameLimit),
                          SubSeq(job[a].made, FrameLimit + 1, Len(job[a].made)))
            \/ /\ Len(job[a].made) <= FrameLimit /\ job[a].request.paths = <<>> /\ JobIs(a, Idle)
               /\ Say(a, ContentFrame(a, job[a].made, TRUE))
               /\ Did(a, IF job[a].request.bad THEN Came("refused", <<>>, {}, <<>>, FALSE, 0)
                         ELSE Came("read", Joined(<<>>, {}, job[a].todo \o job[a].made).got,
                                   {}, <<>>, FALSE, 0))
<1>1. ASSUME Continue(a, [job[a] EXCEPT !.todo = @ \o SubSeq(job[a].made, 1, FrameLimit),
                                        !.made = SubSeq(@, FrameLimit + 1, Len(@))])
      PROVE  Reading(a, job[a].request.paths, job[a].todo \o SubSeq(job[a].made, 1, FrameLimit),
                     SubSeq(job[a].made, FrameLimit + 1, Len(job[a].made)))
  <2>1. PICK todo, made: /\ todo = job[a].todo \o SubSeq(job[a].made, 1, FrameLimit)
                         /\ made = SubSeq(job[a].made, FrameLimit + 1, Len(job[a].made))
    OBVIOUS
  <2>2. PICK j: j = [job[a] EXCEPT !.todo = todo, !.made = made] /\ Continue(a, j)
    BY <1>1, <2>1
  <2>3. JobFields(job[a])
    BY AtIsBusy DEF SayContents
  <2>4. j = [request |-> job[a].request, step |-> "read", seen |-> job[a].seen, todo |-> todo,
             made |-> made, id |-> job[a].id,
             failure |-> job[a].failure, left |-> job[a].left, wrote |-> job[a].wrote]
    BY <2>2, <2>3 DEF JobFields, SayContents, At
  <2>5. Reading(a, job[a].request.paths, todo, made)
    BY <2>2, <2>4, ContinueIs, AtRead DEF Reading, SayContents
  <2> QED BY <2>1, <2>5
<1>2. ASSUME Continue(a, Idle)
      PROVE  JobIs(a, Idle)
  BY <1>2, ContinueIs
<1> QED BY <1>1, <1>2 DEF SayContents

LEMMA EndAgentDoes ==
  ASSUME FilesOK, JobsOK, NEW a \in Agents, EndAgent(a)
  PROVE  /\ BudgetMoves /\ ended' = [ended EXCEPT ![a] = "dead"] /\ inbox' = [inbox EXCEPT ![a] = <<>>]
         /\ JobIs(a, Idle) /\ UNCHANGED <<filesVars, did, outbox, clientVars>>
<1>1. CASE UNCHANGED budget
  BY <1>1, BudgetStays, ContinueIs DEF EndAgent
<1>2. CASE budget.losses > 0 /\ budget' = [budget EXCEPT !.losses = @ - 1]
  <2>1. PICK b: b = [budget EXCEPT !.losses = @ - 1] /\ budget' = b
    BY <1>2
  <2>2. budget.losses - 1 \in Nat
    BY <1>2 DEF FilesOK
  <2>3. b \in [moves : Nat, fails : Nat, losses : Nat, garbled : Nat] /\ b.garbled = budget.garbled
    BY <2>1, <2>2 DEF FilesOK
  <2> QED BY <2>1, <2>3, ContinueIs DEF EndAgent, BudgetMoves
<1> QED BY <1>1, <1>2 DEF EndAgent

LEMMA NoAnswerDoes ==
  ASSUME FilesOK, ClientOK, NoAnswer
  PROVE  /\ client.step = "wait" /\ BudgetMoves /\ UNCHANGED <<filesVars, job, did, pipeVars, program, results>>
         /\ ClientIs("lost", client.agent, client.part, client.attempt, client.id, client.got, client.open)
         /\ outbox[Mine] = <<>>
<1>0. LoseIt
  BY DEF NoAnswer
<1>1. CASE UNCHANGED budget
  BY <1>0, <1>1, BudgetStays, LoseItDoes DEF NoAnswer
<1>2. CASE budget.losses > 0 /\ budget' = [budget EXCEPT !.losses = @ - 1]
  <2>1. PICK b: b = [budget EXCEPT !.losses = @ - 1] /\ budget' = b
    BY <1>2
  <2>2. budget.losses - 1 \in Nat
    BY <1>2 DEF FilesOK
  <2>3. b \in [moves : Nat, fails : Nat, losses : Nat, garbled : Nat] /\ b.garbled = budget.garbled
    BY <2>1, <2>2 DEF FilesOK
  <2> QED BY <1>0, <2>1, <2>3, LoseItDoes DEF NoAnswer, BudgetMoves
<1> QED BY <1>1, <1>2 DEF NoAnswer

----------------------------------------------------------------------------
LEMMA InitTypes == Init => TypesOK
<1> SUFFICES ASSUME Init PROVE TypesOK
  OBVIOUS
<1>1. PICK s \in Starts:
       /\ sudo = s.sudo /\ program = s.program /\ budget = s.budget
       /\ nodes = [i \in DOMAIN s.tree |-> [Node(s.tree[i].kind, 0, "other")
                                              EXCEPT !.parts = s.tree[i].parts]]
       /\ names = [p \in Paths |-> IF \E i \in DOMAIN s.tree : s.tree[i].path = p
                                   THEN CHOOSE i \in DOMAIN s.tree : s.tree[i].path = p ELSE 0]
  BY DEF Init
<1>2. /\ s.sudo \in BOOLEAN
      /\ s.budget \in [moves : Nat, fails : Nat, losses : Nat, garbled : Nat]
      /\ IsSeq(s.program) /\ \A op \in ToSet(s.program) : IsOperation(op)
      /\ IsSeq(s.tree) /\ \A e \in ToSet(s.tree) : IsSeq(e.parts)
  BY StartsAreWellFormed DEF IsSeq
<1>3. Len(s.tree) \in Nat /\ DOMAIN s.tree = 1 .. Len(s.tree)
  BY <1>2, SeqFacts
<1>4. ASSUME NEW i \in DOMAIN s.tree
      PROVE  IsNode(nodes[i])
  <2>1. IsSeq(s.tree[i].parts)
    BY <1>2, <1>4 DEF ToSet
  <2>2. PICK n: n = [Node(s.tree[i].kind, 0, "other") EXCEPT !.parts = s.tree[i].parts] /\ nodes[i] = n
    BY <1>1, <1>4
  <2>3. n = [kind |-> s.tree[i].kind, by |-> 0, owner |-> "other", parts |-> s.tree[i].parts,
             mode |-> [special |-> FALSE, bits |-> 0]]
    BY <2>2 DEF Node
  <2> QED BY <2>1, <2>2, <2>3 DEF IsNode
<1>5. IsSeq(nodes) /\ Len(nodes) = Len(s.tree) /\ DOMAIN nodes = DOMAIN s.tree
  <2>1. nodes \in [1 .. Len(s.tree) -> ToSet(nodes)]
    BY <1>1, <1>3 DEF ToSet
  <2>2. nodes \in Seq(ToSet(nodes))
    BY <1>3, <2>1, SeqDef
  <2> QED BY <1>1, <1>3, <2>2, SeqFacts DEF IsSeq
<1>6. names \in [Paths -> 0 .. Len(nodes)]
  BY <1>1, <1>3, <1>5
<1>7. writing \in [Agents -> [Paths -> 0 .. Len(nodes)]]
  BY <1>3, <1>5 DEF Init, NoFiles
<1>8. FilesOK
  BY <1>1, <1>2, <1>4, <1>5, <1>6, <1>7 DEF FilesOK
<1>9. JobsOK
  BY DEF Init, JobsOK, Busy
<1>10. PipesOK
  BY EmptyIsSeq DEF Init, PipesOK
<1>11. ClientOK
  <2>1. /\ client = [step |-> "next", agent |-> 1, part |-> 1, attempt |-> 1, id |-> 0,
                     got |-> <<>>, open |-> {}]
        /\ did = <<>> /\ results = <<>>
    BY DEF Init, Resting
  <2>2. \A i \in DOMAIN program: IsOperation(program[i])
    BY <1>1, <1>2 DEF ToSet
  <2>3. (program # <<>> /\ Op.kind = "write") => client.part <= Op.parts
    <3> SUFFICES ASSUME program # <<>>, Op.kind = "write" PROVE 1 <= Op.parts
      BY <2>1
    <3>1. IsOperation(Op)
      BY <1>1, <1>2, <2>2, TailFacts DEF Op
    <3> QED BY <3>1 DEF IsOperation, Changes
  <2> QED BY <1>1, <1>2, <2>1, <2>2, <2>3, EmptyIsSeq, AgentsAreNumbered DEF ClientOK
<1> QED BY <1>8, <1>9, <1>10, <1>11 DEF TypesOK

LEMMA FilesStay ==
  ASSUME FilesOK, UNCHANGED filesVars, BudgetMoves
  PROVE  Later /\ FilesOK'
BY LaterStays DEF FilesOK, filesVars, IsSeq, IsNode, BudgetMoves

LEMMA PipesStay ==
  ASSUME PipesOK, UNCHANGED pipeVars
  PROVE  PipesOK'
BY DEF PipesOK, pipeVars, IsSeq, IsRequest

LEMMA ClientStays ==
  ASSUME ClientOK, UNCHANGED <<clientVars, did>>
  PROVE  ClientOK'
BY DEF ClientOK, clientVars, IsSeq, IsOperation, Op, IsChange

LEMMA OpFacts ==
  ASSUME ClientOK, program # <<>>
  PROVE  /\ IsOperation(Op) /\ Op = program[1] /\ 1 \in DOMAIN program
         /\ IsSeq(Tail(program)) /\ \A i \in DOMAIN Tail(program): IsOperation(Tail(program)[i])
         /\ \A i \in DOMAIN Tail(program): Tail(program)[i] = program[i + 1] /\ i + 1 \in DOMAIN program
BY TailFacts DEF ClientOK, Op

LEMMA FirstPartFits ==
  ASSUME NEW ops, IsSeq(ops), \A i \in DOMAIN ops: IsOperation(ops[i])
  PROVE  (ops # <<>> /\ Head(ops).kind = "write") => 1 <= Head(ops).parts
<1> SUFFICES ASSUME ops # <<>>, Head(ops).kind = "write" PROVE 1 <= Head(ops).parts
  OBVIOUS
<1>1. IsOperation(Head(ops))
  BY TailFacts
<1> QED BY <1>1 DEF IsOperation, Changes

LEMMA RequestIsRequest ==
  ASSUME ClientOK, program # <<>>, Op.kind # "huge"
  PROVE  /\ IsRequest(Request) /\ Request.id = client.id + 1 /\ Request.kind = Op.kind
         /\ Op.kind \in Changes => Request.path = Op.path
         /\ Op.kind = "write" => Request.part = <<Op.name, client.part>>
                                 /\ Request.more = (client.part < Op.parts)
         /\ Op.kind = "read" => Request.paths = Op.paths /\ Request.bad = Op.bad
<1>1. IsOperation(Op) /\ client.id \in Nat /\ client.part \in Nat \ {0}
  BY OpFacts, SeqFacts DEF ClientOK
<1>2. CASE Op.kind = "write"
  <2>1. PICK r: /\ r = [kind |-> "write", path |-> Op.path, id |-> client.id + 1,
                       part |-> <<Op.name, client.part>>, more |-> client.part < Op.parts]
                /\ Request = r
    BY <1>2 DEF Request
  <2>2. Op.path \in Paths \ {<<>>} /\ Op.parts \in Nat
    BY <1>1, <1>2 DEF IsOperation, Changes
  <2>3. r.part = <<Op.name, client.part>> /\ r.part[2] = client.part
    BY <2>1
  <2>4. r.more = (client.part < Op.parts) /\ r.more \in BOOLEAN
    BY <2>1
  <2>5. r.kind = "write" /\ r.path = Op.path /\ r.id = client.id + 1
    BY <2>1
  <2>6. IsRequest(r)
    BY <1>1, <2>2, <2>3, <2>4, <2>5 DEF IsRequest, Changes
  <2>7. Request.more = (client.part < Op.parts)
    BY <2>1, <2>4
  <2>8. IsRequest(Request) /\ Request.id = client.id + 1 /\ Request.kind = Op.kind /\ Request.path = Op.path
        /\ Request.part = <<Op.name, client.part>>
    BY <1>2, <2>1, <2>3, <2>5, <2>6
  <2>9. Op.kind # "read"
    BY <1>2
  <2> QED BY <2>7, <2>8, <2>9
<1>3. CASE Op.kind = "read"
  <2>1. Request = [kind |-> "read", paths |-> Op.paths, bad |-> Op.bad, id |-> client.id + 1]
    BY <1>3 DEF Request
  <2>2. Op.paths \in Seq(Paths)
    BY <1>1, <1>3 DEF IsOperation
  <2> QED BY <1>1, <1>3, <2>1, <2>2 DEF IsRequest, Changes
<1>4. CASE Op.kind = "chmod"
  <2>1. Request = [kind |-> "chmod", path |-> Op.path, special |-> Op.special,
                   bits |-> Op.bits, id |-> client.id + 1]
    BY <1>4 DEF Request
  <2>2. Op.path \in Paths \ {<<>>}
    BY <1>1, <1>4 DEF IsOperation, Changes
  <2> QED BY <1>1, <1>4, <2>1, <2>2 DEF IsRequest, Changes
<1>5. CASE Op.kind \in {"symlink", "remove"}
  <2>1. Request = [kind |-> Op.kind, path |-> Op.path, id |-> client.id + 1]
    BY <1>5 DEF Request
  <2>2. Op.path \in Paths \ {<<>>}
    BY <1>1, <1>5 DEF IsOperation, Changes
  <2> QED BY <1>1, <1>5, <2>1, <2>2 DEF IsRequest, Changes
<1> QED BY <1>1, <1>2, <1>3, <1>4, <1>5 DEF IsOperation, Changes

LEMMA SetDid ==
  ASSUME ClientOK, NEW i, NEW what, did' = [did EXCEPT ![i] = what], UNCHANGED clientVars
  PROVE  ClientOK'
<1>1. IsSeq(did)' /\ Len(did') = Len(did)
  <2>1. CASE i \in DOMAIN did
    <3>1. PICK t: did' = t
      OBVIOUS
    <3>0. t = [did EXCEPT ![i] = what]
      BY <3>1
    <3>2. IsSeq(did)
      BY DEF ClientOK
    <3>3. IsSeq(t)
      BY <2>1, <3>0, <3>2, SetAt
    <3>4. Len(t) = Len(did)
      BY <2>1, <3>0, <3>2, SetAt
    <3> QED BY <3>1, <3>3, <3>4 DEF IsSeq
  <2>2. CASE i \notin DOMAIN did
    <3>1. did' = did
      <4>1. did = [k \in 1 .. Len(did) |-> did[k]] /\ DOMAIN did = 1 .. Len(did)
        BY SeqFacts, LenProperties DEF ClientOK, IsSeq
      <4> QED BY <2>2, <4>1
    <3> QED BY <3>1 DEF ClientOK, IsSeq
  <2> QED BY <2>1, <2>2
<1> QED BY <1>1 DEF ClientOK, clientVars, IsSeq, IsOperation, Op, IsChange

----------------------------------------------------------------------------
\* The types hold after a step of the client: its own state, and the pipes.
LEMMA BudgetKept ==
  ASSUME FilesOK, UNCHANGED budget
  PROVE  BudgetMoves
BY BudgetStays

LEMMA InboxSet ==
  ASSUME PipesOK, NEW a \in Agents, NEW frames, IsSeq(frames), \A k \in DOMAIN frames: IsRequest(frames[k]),
         inbox' = [inbox EXCEPT ![a] = frames]
  PROVE  /\ DOMAIN inbox' = Agents /\ inbox'[a] = frames /\ \A b \in Agents \ {a}: inbox'[b] = inbox[b]
         /\ \A b \in Agents: IsSeq(inbox'[b]) /\ \A k \in DOMAIN inbox'[b]: IsRequest(inbox'[b][k])
BY DEF PipesOK

LEMMA OutboxSet ==
  ASSUME PipesOK, NEW a \in Agents, NEW frames, IsSeq(frames), outbox' = [outbox EXCEPT ![a] = frames]
  PROVE  /\ DOMAIN outbox' = Agents /\ outbox'[a] = frames /\ \A b \in Agents \ {a}: outbox'[b] = outbox[b]
         /\ \A b \in Agents: IsSeq(outbox'[b])
BY DEF PipesOK

LEMMA PipesIf ==
  ASSUME DOMAIN inbox' = Agents, DOMAIN outbox' = Agents, DOMAIN ended' = Agents,
         \A b \in Agents: IsSeq(inbox'[b]) /\ \A k \in DOMAIN inbox'[b]: IsRequest(inbox'[b][k]),
         \A b \in Agents: IsSeq(outbox'[b])
  PROVE  PipesOK'
BY DEF PipesOK, IsSeq, IsRequest

LEMMA ClientIf ==
  ASSUME NEW step \in {"next", "wait", "lost"}, NEW agent \in Agents, NEW part \in Nat \ {0}, NEW attempt,
         NEW id, NEW got, NEW open, ClientIs(step, agent, part, attempt, id, got, open),
         IsSeq(program'), \A i \in DOMAIN program': IsOperation(program'[i]),
         IsSeq(results'), IsSeq(did'), id = Len(did'),
         step # "next" => program' # <<>> /\ Head(program').kind # "huge" /\ id # 0,
         (program' # <<>> /\ Head(program').kind = "write") => part <= Head(program').parts,
         (program' # <<>> /\ Head(program').kind # "write" /\ part # 1) =>
           \A i \in DOMAIN program': ~IsChange(program'[i])
  PROVE  ClientOK'
<1>1. /\ client' = [step |-> client'.step, agent |-> client'.agent, part |-> client'.part,
                    attempt |-> client'.attempt, id |-> client'.id, got |-> client'.got, open |-> client'.open]
      /\ client'.step = step /\ client'.agent = agent /\ client'.part = part /\ client'.id = id
  BY DEF ClientIs
<1> QED BY <1>1 DEF ClientOK, IsSeq, Op, IsOperation, IsChange

LEMMA FinishTypes ==
  ASSUME ClientOK, client.step # "next", UNCHANGED did, NEW is, NEW got, Finish(is, got)
  PROVE  ClientOK'
<1>1. /\ ClientIs("next", client.agent, 1, 1, client.id, client.got, client.open)
      /\ program' = Tail(program) /\ results' = Append(results, Result(is, got))
  BY FinishDoes
<1>2. IsSeq(results') /\ IsSeq(did') /\ client.id = Len(did') /\ client.agent \in Agents
  BY <1>1, AppendFacts DEF ClientOK
<1>3. IsSeq(program') /\ \A i \in DOMAIN program': IsOperation(program'[i])
  BY <1>1, OpFacts DEF ClientOK
<1>4. (program' # <<>> /\ Head(program').kind = "write") => 1 <= Head(program').parts
  BY <1>3, FirstPartFits
<1> QED BY <1>1, <1>2, <1>3, <1>4, ClientIf

LEMMA LoseItTypes ==
  ASSUME ClientOK, client.step # "next", UNCHANGED <<did, program, results>>,
         ClientIs("lost", client.agent, client.part, client.attempt, client.id, client.got, client.open)
  PROVE  ClientOK'
BY ClientIf DEF ClientOK, Op

LEMMA SendRequestTypes ==
  ASSUME TypesOK, SendRequest
  PROVE  TypesOK'
<1>0. FilesOK /\ JobsOK /\ PipesOK /\ ClientOK
  BY DEF TypesOK
<1>1. /\ client.step = "next" /\ program # <<>> /\ UNCHANGED <<filesVars, job, budget>>
      /\ \/ /\ Op.kind = "huge" /\ program' = Tail(program) /\ UNCHANGED <<client, did, pipeVars>>
            /\ \E r: r.id = 0 /\ results' = Append(results, r)
         \/ /\ Op.kind # "huge" /\ inbox' = [inbox EXCEPT ![Mine] = Append(@, Request)]
            /\ did' = Append(did, NothingYet)
            /\ ClientIs("wait", client.agent, client.part, client.attempt, client.id + 1, <<>>, {})
            /\ UNCHANGED <<program, results, outbox, ended>>
  BY <1>0, SendRequestDoes
<1>2. FilesOK' /\ JobsOK'
  BY <1>0, <1>1, FilesStay, BudgetKept, JobsStay
<1>3. CASE /\ Op.kind = "huge" /\ program' = Tail(program) /\ UNCHANGED <<client, did, pipeVars>>
           /\ \E r: r.id = 0 /\ results' = Append(results, r)
  <2>1. IsSeq(program') /\ \A i \in DOMAIN program': IsOperation(program'[i])
    BY <1>0, <1>1, <1>3, OpFacts
  <2>2. IsSeq(results')
    BY <1>0, <1>3, AppendFacts DEF ClientOK
  <2>3. client.part = 1 \/ \A i \in DOMAIN program': ~IsChange(program'[i])
    BY <1>0, <1>1, <1>3, OpFacts DEF ClientOK
  <2>4. (program' # <<>> /\ Head(program').kind = "write") => 1 <= Head(program').parts
    BY <2>1, FirstPartFits
  <2>5. (program' # <<>> /\ Head(program').kind = "write") => IsChange(program'[1]) /\ 1 \in DOMAIN program'
    BY <2>1, TailFacts DEF IsChange, Changes
  <2>6. ClientIs(client.step, client.agent, client.part, client.attempt, client.id, client.got, client.open)
    BY <1>0, <1>3 DEF ClientOK, ClientIs
  <2>7. ClientOK'
    BY <1>0, <1>1, <1>3, <2>1, <2>2, <2>3, <2>4, <2>5, <2>6, ClientIf DEF ClientOK
  <2> QED BY <1>0, <1>2, <1>3, <2>7, PipesStay DEF TypesOK
<1>4. CASE /\ Op.kind # "huge" /\ inbox' = [inbox EXCEPT ![Mine] = Append(@, Request)]
           /\ did' = Append(did, NothingYet)
           /\ ClientIs("wait", client.agent, client.part, client.attempt, client.id + 1, <<>>, {})
           /\ UNCHANGED <<program, results, outbox, ended>>
  <2>1. IsRequest(Request) /\ Mine \in Agents /\ IsSeq(inbox[Mine])
    BY <1>0, <1>1, <1>4, RequestIsRequest DEF ClientOK, Mine, PipesOK
  <2>2. PICK frames: frames = Append(inbox[Mine], Request) /\ inbox' = [inbox EXCEPT ![Mine] = frames]
    BY <1>4
  <2>3. IsSeq(frames) /\ \A k \in DOMAIN frames: IsRequest(frames[k])
    <3>1. /\ IsSeq(frames) /\ DOMAIN frames = 1 .. Len(inbox[Mine]) + 1
          /\ \A i \in DOMAIN inbox[Mine]: frames[i] = inbox[Mine][i]
          /\ frames[Len(inbox[Mine]) + 1] = Request
      BY <2>1, <2>2, AppendFacts
    <3>2. DOMAIN inbox[Mine] = 1 .. Len(inbox[Mine]) /\ Len(inbox[Mine]) \in Nat
      BY <2>1, SeqFacts
    <3>3. \A i \in DOMAIN inbox[Mine]: IsRequest(inbox[Mine][i])
      BY <1>0, <2>1 DEF PipesOK
    <3> QED BY <2>1, <3>1, <3>2, <3>3
  <2>4. PipesOK'
    <3>1. DOMAIN inbox' = Agents /\ \A b \in Agents: IsSeq(inbox'[b]) /\ \A k \in DOMAIN inbox'[b]: IsRequest(inbox'[b][k])
      BY <1>0, <2>1, <2>2, <2>3, InboxSet
    <3> QED BY <1>0, <1>4, <3>1, PipesIf DEF PipesOK
  <2>5. IsSeq(did') /\ Len(did') = client.id + 1 /\ client.id + 1 # 0
    BY <1>0, <1>4, AppendFacts, SeqFacts DEF ClientOK
  <2>6. ClientOK'
    BY <1>0, <1>1, <1>4, <2>5, ClientIf DEF ClientOK, Op
  <2> QED BY <1>2, <2>4, <2>6 DEF TypesOK
<1> QED BY <1>1, <1>3, <1>4

LEMMA ReceivedTypes ==
  ASSUME TypesOK, Received, client.step = "wait", outbox[Mine] # <<>>
  PROVE  FilesOK' /\ JobsOK' /\ PipesOK' /\ UNCHANGED did
<1>0. FilesOK /\ JobsOK /\ PipesOK /\ ClientOK /\ Mine \in Agents
  BY DEF TypesOK, ClientOK, Mine
<1>1. FilesOK' /\ JobsOK' /\ UNCHANGED did
  BY <1>0, FilesStay, BudgetKept, JobsStay DEF Received
<1>2. PICK frames: frames = Tail(outbox[Mine]) /\ outbox' = [outbox EXCEPT ![Mine] = frames]
  BY DEF Received
<1>3. IsSeq(frames)
  BY <1>0, <1>2, TailFacts DEF PipesOK
<1>4. DOMAIN outbox' = Agents /\ \A b \in Agents: IsSeq(outbox'[b])
  BY <1>0, <1>2, <1>3, OutboxSet
<1> QED BY <1>0, <1>1, <1>4, PipesIf DEF PipesOK, Received

LEMMA ReceiveTypes ==
  ASSUME TypesOK, ReceiveContents \/ ReceiveChanged
  PROVE  TypesOK'
<1>0. ClientOK
  BY DEF TypesOK
<1>1. Received /\ client.step = "wait" /\ outbox[Mine] # <<>>
  BY <1>0, ReceiveContentsDoes, ReceiveChangedDoes
<1>2. FilesOK' /\ JobsOK' /\ PipesOK' /\ UNCHANGED did
  BY <1>1, ReceivedTypes
<1>3. \/ \E is, got: Finish(is, got)
      \/ LoseIt
      \/ \E got, open: ClientIs("wait", client.agent, client.part, client.attempt, client.id, got, open)
                       /\ UNCHANGED <<program, results>>
      \/ /\ Op.kind = "write" /\ client.part < Op.parts
         /\ ClientIs("next", client.agent, client.part + 1, client.attempt, client.id, client.got, client.open)
         /\ UNCHANGED <<program, results>>
  <2>1. CASE ReceiveContents
    BY <1>0, <2>1, ReceiveContentsDoes
  <2>2. CASE ReceiveChanged
    BY <1>0, <2>2, ReceiveChangedDoes
  <2> QED BY <2>1, <2>2
<1>4. CASE \E is, got: Finish(is, got)
  BY <1>0, <1>1, <1>2, <1>4, FinishTypes DEF TypesOK
<1>5. CASE LoseIt
  BY <1>0, <1>1, <1>2, <1>5, LoseItDoes, LoseItTypes DEF TypesOK
<1>6. CASE \E got, open: ClientIs("wait", client.agent, client.part, client.attempt, client.id, got, open)
                       /\ UNCHANGED <<program, results>>
  <2>1. ClientOK'
    BY <1>0, <1>1, <1>2, <1>6, ClientIf DEF ClientOK, Op
  <2> QED BY <1>2, <2>1 DEF TypesOK
<1>7. CASE /\ Op.kind = "write" /\ client.part < Op.parts
           /\ ClientIs("next", client.agent, client.part + 1, client.attempt, client.id, client.got, client.open)
           /\ UNCHANGED <<program, results>>
  <2>1. client.part + 1 \in Nat \ {0} /\ program # <<>>
    BY <1>0, <1>1 DEF ClientOK
  <2>2. Op.parts \in Nat
    BY <1>0, <1>7, <2>1, OpFacts DEF IsOperation, Changes
  <2>3. client.part + 1 <= Op.parts
    BY <1>0, <1>7, <2>2 DEF ClientOK
  <2>4. ClientOK'
    BY <1>0, <1>1, <1>2, <1>7, <2>1, <2>3, ClientIf DEF ClientOK, Op
  <2> QED BY <1>2, <2>4 DEF TypesOK
<1> QED BY <1>3, <1>4, <1>5, <1>6, <1>7

LEMMA NoAnswerTypes ==
  ASSUME TypesOK, NoAnswer
  PROVE  TypesOK'
<1>0. FilesOK /\ JobsOK /\ PipesOK /\ ClientOK
  BY DEF TypesOK
<1>1. /\ client.step = "wait" /\ BudgetMoves /\ UNCHANGED <<filesVars, job, did, pipeVars, program, results>>
      /\ ClientIs("lost", client.agent, client.part, client.attempt, client.id, client.got, client.open)
  BY <1>0, NoAnswerDoes
<1>2. FilesOK' /\ JobsOK'
  BY <1>0, <1>1, FilesStay, JobsStay
<1> QED BY <1>0, <1>1, <1>2, PipesStay, LoseItTypes DEF TypesOK

----------------------------------------------------------------------------
LEMMA ReconnectTypes ==
  ASSUME TypesOK, Reconnect
  PROVE  TypesOK'
<1>0. FilesOK /\ JobsOK /\ PipesOK /\ ClientOK /\ Mine \in Agents
  BY DEF TypesOK, ClientOK, Mine
<1>1. /\ client.step = "lost" /\ Mine + 1 \in Agents
      /\ ClientIs("next", client.agent + 1, client.part, 2, client.id, client.got, client.open)
      /\ outbox' = [outbox EXCEPT ![Mine] = <<>>]
      /\ \E frames \in {inbox[Mine], <<>>}: inbox' = [inbox EXCEPT ![Mine] = frames]
      /\ ended' = [ended EXCEPT ![Mine] = IF @ = "no" THEN "closing" ELSE @]
      /\ \/ IsChange(Op) /\ results' = Append(results, Result("lost", <<>>)) /\ program' = <<Look1(Op)>>
         \/ ~IsChange(Op) /\ UNCHANGED <<results, program>>
      /\ UNCHANGED <<filesVars, job, did, budget>>
  BY <1>0, ReconnectDoes
<1>2. FilesOK' /\ JobsOK'
  BY <1>0, <1>1, FilesStay, BudgetKept, JobsStay
<1>3. PipesOK'
  <2>1. PICK frames \in {inbox[Mine], <<>>}: inbox' = [inbox EXCEPT ![Mine] = frames]
    BY <1>1
  <2>2. IsSeq(frames) /\ \A k \in DOMAIN frames: IsRequest(frames[k])
    BY <1>0, EmptyIsSeq DEF PipesOK
  <2>3. DOMAIN inbox' = Agents /\ \A b \in Agents: IsSeq(inbox'[b]) /\ \A k \in DOMAIN inbox'[b]: IsRequest(inbox'[b][k])
    BY <1>0, <2>1, <2>2, InboxSet
  <2>4. DOMAIN outbox' = Agents /\ \A b \in Agents: IsSeq(outbox'[b])
    BY <1>0, <1>1, EmptyIsSeq, OutboxSet
  <2>5. DOMAIN ended' = Agents
    BY <1>0, <1>1 DEF PipesOK
  <2> QED BY <2>3, <2>4, <2>5, PipesIf
<1>4. IsSeq(results') /\ IsSeq(did') /\ client.id = Len(did') /\ program # <<>>
  <2>1. results' = results \/ \E e: results' = Append(results, e)
    BY <1>1
  <2>2. IsSeq(results) /\ IsSeq(did) /\ client.id = Len(did) /\ program # <<>>
    BY <1>0, <1>1 DEF ClientOK
  <2>3. IsSeq(results')
    BY <2>1, <2>2, AppendFacts
  <2> QED BY <1>1, <2>2, <2>3
<1>5. CASE ~IsChange(Op) /\ UNCHANGED <<results, program>>
  <2>1. /\ client.agent + 1 \in Agents /\ client.part \in Nat \ {0} /\ IsSeq(program')
        /\ \A i \in DOMAIN program': IsOperation(program'[i])
    BY <1>0, <1>1, <1>5 DEF ClientOK, Mine
  <2>2. /\ (program' # <<>> /\ Head(program').kind = "write") => client.part <= Head(program').parts
        /\ (program' # <<>> /\ Head(program').kind # "write" /\ client.part # 1) =>
             \A i \in DOMAIN program': ~IsChange(program'[i])
    BY <1>0, <1>5 DEF ClientOK, Op, IsChange
  <2>3. ClientOK'
    BY <1>1, <1>4, <2>1, <2>2, ClientIf
  <2> QED BY <1>2, <1>3, <2>3 DEF TypesOK
<1>6. CASE IsChange(Op) /\ program' = <<Look1(Op)>>
  <2>1. Op.path \in Paths
    BY <1>0, <1>4, <1>6, OpFacts DEF IsOperation, IsChange
  <2>2. IsOperation(Look1(Op)) /\ ~IsChange(Look1(Op)) /\ Look1(Op).kind = "read"
    BY <2>1 DEF Look1, IsOperation, IsChange, Changes
  <2>3. /\ IsSeq(program') /\ DOMAIN program' = 1 .. 1 /\ program'[1] = Look1(Op) /\ Head(program') = Look1(Op)
    <3>1. PICK op: op = Look1(Op) /\ program' = <<op>>
      BY <1>6
    <3>2. <<op>> \in Seq({op}) /\ Len(<<op>>) = 1 /\ <<op>>[1] = op
      OBVIOUS
    <3>3. IsSeq(<<op>>) /\ DOMAIN <<op>> = 1 .. 1
      BY <3>2, AnySeq
    <3>4. Head(<<op>>) = op
      OBVIOUS
    <3> QED BY <3>1, <3>2, <3>3, <3>4
  <2>4. ClientOK'
    <3>1. client.agent + 1 \in Agents /\ client.part \in Nat \ {0}
      BY <1>0, <1>1 DEF ClientOK, Mine
    <3> QED BY <1>1, <1>4, <2>2, <2>3, <3>1, ClientIf
  <2> QED BY <1>2, <1>3, <2>4 DEF TypesOK
<1> QED BY <1>1, <1>5, <1>6

LEMMA GiveUpTypes ==
  ASSUME TypesOK, GiveUp
  PROVE  TypesOK'
<1>0. FilesOK /\ JobsOK /\ PipesOK /\ ClientOK /\ Mine \in Agents
  BY DEF TypesOK, ClientOK, Mine
<1>1. /\ client.step = "lost" /\ program' = <<>> /\ results' = Append(results, Result("lost", <<>>))
      /\ ClientIs("next", client.agent, client.part, client.attempt, client.id, client.got, client.open)
      /\ ended' = [ended EXCEPT ![Mine] = IF @ = "no" THEN "closing" ELSE @]
      /\ UNCHANGED <<filesVars, job, did, budget, inbox, outbox>>
  BY <1>0, GiveUpDoes
<1>2. FilesOK' /\ JobsOK'
  BY <1>0, <1>1, FilesStay, BudgetKept, JobsStay
<1>3. PipesOK'
  BY <1>0, <1>1, PipesIf DEF PipesOK
<1>4. IsSeq(results') /\ IsSeq(did') /\ client.id = Len(did')
  BY <1>0, <1>1, AppendFacts DEF ClientOK
<1>5. IsSeq(program') /\ DOMAIN program' = {}
  BY <1>1, EmptyIsSeq
<1>6. ClientOK'
  BY <1>0, <1>1, <1>4, <1>5, ClientIf DEF ClientOK
<1> QED BY <1>2, <1>3, <1>6 DEF TypesOK

LEMMA CloseTypes ==
  ASSUME TypesOK, Close
  PROVE  TypesOK'
<1>0. FilesOK /\ JobsOK /\ PipesOK /\ ClientOK /\ Mine \in Agents
  BY DEF TypesOK, ClientOK, Mine
<1>1. FilesOK' /\ JobsOK' /\ ClientOK'
  BY <1>0, FilesStay, BudgetKept, JobsStay, ClientStays DEF Close
<1>2. PipesOK'
  BY <1>0, PipesIf DEF PipesOK, Close
<1> QED BY <1>1, <1>2 DEF TypesOK

----------------------------------------------------------------------------
\* After a step of an agent.
LEMMA NewJob ==
  ASSUME NEW r, IsRequest(r),
         NEW step, NEW seen, NEW todo, NEW made, NEW id, NEW failure, NEW left, NEW wrote,
         JobAs(r.kind, step, seen, todo, made, id, failure, left, wrote),
         NEW a \in Agents,
         job'[a] = [request |-> r, step |-> step, seen |-> seen, todo |-> todo, made |-> made, id |-> id,
                    failure |-> failure, left |-> left, wrote |-> wrote]
  PROVE  IsJob(job[a])' /\ Busy(a)'
<1>1. JobFields(job[a])' /\ job'[a].request = r /\ job'[a].step = step
  BY DEF JobFields
<1>2. IsJob(job[a])'
  BY <1>1 DEF IsJob, IsSeq, IsRequest, JobAs
<1>3. job'[a] # Idle
  <2>1. step # "idle"
    BY DEF Steps, Making, JobAs
  <2> QED BY <1>1, <2>1 DEF Idle
<1> QED BY <1>2, <1>3 DEF Busy

LEMMA JobSet ==
  ASSUME JobsOK, FilesOK, Later, NEW a \in Agents, NEW j, JobIs(a, j), j = Idle \/ IsJob(job[a])'
  PROVE  JobsOK'
<1>1. Len(nodes) \in Nat /\ Len(nodes') \in Nat /\ Len(nodes) <= Len(nodes')
  BY SeqFacts DEF FilesOK, Later, IsSeq
<1>2. 0 .. Len(nodes) \subseteq 0 .. Len(nodes')
  BY <1>1
<1>3. ASSUME NEW b \in Agents, Busy(b)'
      PROVE  IsJob(job[b])'
  <2>1. CASE b = a
    BY <1>3, <2>1 DEF JobIs, Busy
  <2>2. CASE b # a
    <3>1. job'[b] = job[b]
      BY <2>2 DEF JobIs
    <3>2. IsJob(job[b])
      BY <1>3, <3>1 DEF JobsOK, Busy
    <3> QED BY <1>2, <3>1, <3>2 DEF IsJob, JobFields, IsRequest, IsSeq, Steps
  <2> QED BY <2>1, <2>2
<1> QED BY <1>3 DEF JobsOK, JobIs

LEMMA OutboxGrows ==
  ASSUME PipesOK, NEW a \in Agents, NEW frame, outbox' = [outbox EXCEPT ![a] = Append(@, frame)]
  PROVE  /\ DOMAIN outbox' = Agents /\ \A b \in Agents: IsSeq(outbox'[b])
         /\ outbox'[a] = Append(outbox[a], frame) /\ \A b \in Agents \ {a}: outbox'[b] = outbox[b]
<1>1. PICK frames: frames = Append(outbox[a], frame) /\ outbox' = [outbox EXCEPT ![a] = frames]
  OBVIOUS
<1>2. IsSeq(frames)
  BY <1>1, AppendFacts DEF PipesOK
<1> QED BY <1>1, <1>2, OutboxSet

LEMMA TakeTypes ==
  ASSUME TypesOK, NEW a \in Agents, Take(a)
  PROVE  TypesOK'
<1>0. FilesOK /\ JobsOK /\ PipesOK /\ ClientOK
  BY DEF TypesOK
<1> DEFINE request == Head(inbox[a])
<1>1. /\ inbox[a] # <<>> /\ inbox' = [inbox EXCEPT ![a] = Tail(@)]
      /\ UNCHANGED <<sudo, names, nodes, ended, clientVars>>
      /\ \/ /\ JobIs(a, Taken(a, request)) /\ UNCHANGED <<did, outbox, budget>>
            /\ writing' = IF request.kind = "write"
                          THEN [writing EXCEPT ![a][request.path] = 0] ELSE writing
         \/ /\ budget.garbled > 0 /\ budget' = [budget EXCEPT !.garbled = @ - 1]
            /\ did' = [did EXCEPT ![request.id] = Came("refused", <<>>, {}, <<>>, FALSE, 0)]
            /\ outbox' = [outbox EXCEPT ![a] = Append(@, [kind |-> "refused", id |-> request.id])]
            /\ UNCHANGED <<job, writing>>
  BY <1>0, TakeDoes
<1> HIDE DEF request
<1>2. IsRequest(request) /\ Later
  BY <1>0, <1>1, TailFacts, LaterStays DEF PipesOK, request
<1>3. DOMAIN inbox' = Agents /\ \A b \in Agents: IsSeq(inbox'[b]) /\ \A k \in DOMAIN inbox'[b]: IsRequest(inbox'[b][k])
  <2>1. PICK frames: frames = Tail(inbox[a]) /\ inbox' = [inbox EXCEPT ![a] = frames]
    BY <1>1
  <2>2. IsSeq(frames) /\ \A k \in DOMAIN frames: IsRequest(frames[k])
    BY <1>0, <1>1, <2>1, TailFacts DEF PipesOK
  <2> QED BY <1>0, <2>1, <2>2, InboxSet
<1>4. CASE /\ JobIs(a, Taken(a, request)) /\ UNCHANGED <<did, outbox, budget>>
           /\ writing' = IF request.kind = "write"
                         THEN [writing EXCEPT ![a][request.path] = 0] ELSE writing
  <2>1. Len(nodes) \in Nat /\ request.kind \in Changes \cup {"read"}
        /\ (request.kind = "write" => request.path \in Paths)
    BY <1>0, <1>2, SeqFacts DEF FilesOK, IsRequest, Changes
  <2>2. FilesOK'
    <3>1. writing' \in [Agents -> [Paths -> 0 .. Len(nodes)]]
      BY <1>0, <1>4, <2>1 DEF FilesOK
    <3> QED BY <1>0, <1>1, <1>4, <3>1 DEF FilesOK, IsSeq, IsNode
  <2>3. Found(a, request) \in 0 .. Len(nodes)
    BY <1>0, <2>1 DEF Found, FilesOK
  <2>4. FirstStep(a, request) \in Steps(request.kind)
    BY <2>1 DEF FirstStep, Steps, Making, Changes
  <2>5. /\ FirstStep(a, request) \notin {"own", "unmake", "unlinkMade", "open", "mkdir", "create"}
        /\ FirstStep(a, request) \in {"look", "parents"} => Found(a, request) = 0
        /\ FirstStep(a, request) = "write" => Found(a, request) # 0
    BY <2>1 DEF FirstStep, Found, Changes
  <2>6. IsJob(job[a])'
    <3>1. PICK no \in BOOLEAN, left \in SUBSET Paths:
            job'[a] = [request |-> request, step |-> FirstStep(a, request), seen |-> no, todo |-> <<>>,
                       made |-> <<>>, id |-> Found(a, request), failure |-> "none", left |-> left, wrote |-> no]
      BY <1>4 DEF JobIs, Taken
    <3>2. <<>> \in Seq(Paths) /\ IsSeq(<<>>)
      BY EmptyIsSeq
    <3>3. Found(a, request) \in 0 .. Len(nodes')
      BY <1>1, <2>3
    <3>4. JobAs(request.kind, FirstStep(a, request), no, <<>>, <<>>, Found(a, request), "none", left, no)
      BY <2>4, <2>5, <3>2, <3>3 DEF JobAs
    <3> QED BY <1>2, <3>1, <3>4, NewJob
  <2>7. JobsOK'
    BY <1>0, <1>2, <1>4, <2>6, JobSet
  <2>8. PipesOK'
    BY <1>0, <1>1, <1>3, <1>4, PipesIf DEF PipesOK
  <2> QED BY <1>0, <1>1, <1>4, <2>2, <2>7, <2>8, ClientStays DEF TypesOK
<1>5. CASE /\ budget.garbled > 0 /\ budget' = [budget EXCEPT !.garbled = @ - 1]
           /\ did' = [did EXCEPT ![request.id] = Came("refused", <<>>, {}, <<>>, FALSE, 0)]
           /\ outbox' = [outbox EXCEPT ![a] = Append(@, [kind |-> "refused", id |-> request.id])]
           /\ UNCHANGED <<job, writing>>
  <2>1. FilesOK'
    <3>1. PICK b: b = [budget EXCEPT !.garbled = @ - 1] /\ budget' = b
      BY <1>5
    <3>2. budget.garbled - 1 \in Nat
      BY <1>0, <1>5 DEF FilesOK
    <3>3. b \in [moves : Nat, fails : Nat, losses : Nat, garbled : Nat]
      BY <1>0, <3>1, <3>2 DEF FilesOK
    <3> QED BY <1>0, <1>1, <1>5, <3>1, <3>3 DEF FilesOK, IsSeq, IsNode
  <2>2. PICK i, what: did' = [did EXCEPT ![i] = what]
    BY <1>5
  <2>3. ClientOK'
    BY <1>0, <1>1, <2>2, SetDid
  <2>4. PipesOK'
    BY <1>0, <1>1, <1>3, <1>5, OutboxGrows, PipesIf DEF PipesOK
  <2> QED BY <1>0, <1>2, <1>5, <2>1, <2>3, <2>4, JobsStay DEF TypesOK
<1> QED BY <1>1, <1>4, <1>5

----------------------------------------------------------------------------
LEMMA AnswerChangeTypes ==
  ASSUME TypesOK, NEW a \in Agents, AnswerChange(a)
  PROVE  TypesOK'
<1>0. FilesOK /\ JobsOK /\ PipesOK /\ ClientOK
  BY DEF TypesOK
<1>1. JobIs(a, Idle) /\ UNCHANGED <<filesVars, budget, inbox, ended, clientVars>>
  BY <1>0, AnswerChangeDoes
<1>2. \E frame: Say(a, frame)
  BY <1>0, AnswerChangeDoes
<1>3. \E what: Did(a, what)
  BY <1>0, AnswerChangeDoes
<1>4. FilesOK' /\ Later
  BY <1>0, <1>1, FilesStay, BudgetKept
<1>5. JobsOK'
  BY <1>0, <1>1, <1>4, JobSet
<1>6. PipesOK'
  BY <1>0, <1>1, <1>2, OutboxGrows, PipesIf DEF PipesOK, Say
<1>7. ClientOK'
  BY <1>0, <1>1, <1>3, SetDid DEF Did
<1> QED BY <1>4, <1>5, <1>6, <1>7 DEF TypesOK

LEMMA PiecesFacts ==
  ASSUME FilesOK, NEW p \in Paths
  PROVE  IsSeq(Pieces(p))
<1>1. ASSUME NEW e PROVE IsSeq(<<e>>)
  <2>1. <<e>> \in Seq({e})
    OBVIOUS
  <2> QED BY <2>1, AnySeq
<1>2. ASSUME NEW parts, IsSeq(parts)
      PROVE  IsSeq(PiecesOf(p, parts))
  <2>1. CASE parts = <<>>
    BY <1>1, <2>1 DEF PiecesOf
  <2>2. CASE parts # <<>>
    <3>1. PICK t: t = [i \in DOMAIN parts |-> [path |-> p, parts |-> <<parts[i]>>, more |-> i < Len(parts)]]
                  /\ t = PiecesOf(p, parts)
      BY <2>2 DEF PiecesOf
    <3>2. DOMAIN parts = 1 .. Len(parts) /\ Len(parts) \in Nat
      BY <1>2, SeqFacts
    <3>3. t \in [1 .. Len(parts) -> ToSet(t)]
      BY <3>1, <3>2 DEF ToSet
    <3>4. t \in Seq(ToSet(t))
      BY <3>2, <3>3, SeqDef
    <3> QED BY <3>1, <3>4 DEF IsSeq
  <2> QED BY <2>1, <2>2
<1>3. CASE Kind(p) = "file"
  <2>1. names[p] \in DOMAIN nodes
    <3>1. names[p] # 0
      BY <1>3 DEF Kind
    <3> QED BY <3>1, SeqFacts DEF FilesOK
  <2>2. IsSeq(nodes[names[p]].parts)
    BY <2>1 DEF FilesOK, IsNode
  <2> QED BY <1>2, <1>3, <2>2 DEF Pieces
<1>4. CASE Kind(p) # "file"
  BY <1>1, <1>4 DEF Pieces, Failed
<1> QED BY <1>3, <1>4

LEMMA ReadingTypes ==
  ASSUME FilesOK, JobsOK, Later, NEW a \in Agents, At(a, "read"), NEW paths \in Seq(Paths), NEW todo, IsSeq(todo),
         NEW made, IsSeq(made), Reading(a, paths, todo, made)
  PROVE  JobsOK'
<1>1. /\ Busy(a) /\ IsJob(job[a]) /\ job[a].request.kind = "read"
      /\ job[a].seen \in BOOLEAN /\ job[a].wrote \in BOOLEAN /\ job[a].left \subseteq Paths
      /\ job[a].id \in 0 .. Len(nodes') /\ job[a].request.id \in Nat \ {0}
  BY AtRead, JobFacts, JobStays DEF IsRequest
<1>2. PICK r: r = [kind |-> "read", paths |-> paths, bad |-> job[a].request.bad, id |-> job[a].request.id]
  OBVIOUS
<1>3. IsRequest(r) /\ r.kind = "read"
  BY <1>1, <1>2 DEF IsRequest, Changes
<1>4. JobAs(r.kind, "read", job[a].seen, todo, made, job[a].id, job[a].failure, job[a].left, job[a].wrote)
  BY <1>1, <1>3 DEF JobAs, Steps, Changes
<1>5. job'[a] = [request |-> r, step |-> "read", seen |-> job[a].seen, todo |-> todo, made |-> made,
                 id |-> job[a].id, failure |-> job[a].failure, left |-> job[a].left, wrote |-> job[a].wrote]
  BY <1>2 DEF Reading, JobIs
<1>6. IsJob(job[a])'
  BY <1>3, <1>4, <1>5, NewJob
<1> QED BY <1>6, JobSet DEF Reading

LEMMA ReadOneTypes ==
  ASSUME TypesOK, NEW a \in Agents, ReadOne(a)
  PROVE  TypesOK'
<1>0. FilesOK /\ JobsOK /\ PipesOK /\ ClientOK
  BY DEF TypesOK
<1>1. /\ At(a, "read") /\ job[a].request.paths # <<>>
      /\ UNCHANGED <<filesVars, did, budget, pipeVars, clientVars>>
      /\ Reading(a, Tail(job[a].request.paths), job[a].todo,
                 job[a].made \o Pieces(Head(job[a].request.paths)))
  BY <1>0, ReadOneDoes
<1>2. FilesOK' /\ Later
  BY <1>0, <1>1, FilesStay, BudgetKept
<1>3. job[a].request.paths \in Seq(Paths) /\ IsSeq(job[a].made) /\ IsSeq(job[a].todo)
  BY <1>0, <1>1, AtRead
<1>4. Head(job[a].request.paths) \in Paths /\ Tail(job[a].request.paths) \in Seq(Paths)
  BY <1>1, <1>3, HeadTailProperties
<1>5. IsSeq(job[a].made \o Pieces(Head(job[a].request.paths)))
  BY <1>0, <1>3, <1>4, PiecesFacts, ConcatFacts
<1>6. JobsOK'
  BY <1>0, <1>1, <1>2, <1>3, <1>4, <1>5, ReadingTypes
<1> QED BY <1>0, <1>1, <1>2, <1>6, PipesStay, ClientStays DEF TypesOK

LEMMA SayContentsTypes ==
  ASSUME TypesOK, NEW a \in Agents, SayContents(a)
  PROVE  TypesOK'
<1>0. FilesOK /\ JobsOK /\ PipesOK /\ ClientOK
  BY DEF TypesOK
<1>1. At(a, "read") /\ UNCHANGED <<filesVars, budget, inbox, ended, clientVars>>
  BY <1>0, SayContentsDoes
<1>2. FilesOK' /\ Later
  BY <1>0, <1>1, FilesStay, BudgetKept
<1>3. job[a].request.paths \in Seq(Paths) /\ IsSeq(job[a].made) /\ IsSeq(job[a].todo)
  BY <1>0, <1>1, AtRead
<1>4. PipesOK'
  <2>1. \E frame: Say(a, frame)
    BY <1>0, SayContentsDoes
  <2> QED BY <1>0, <1>1, <2>1, OutboxGrows, PipesIf DEF PipesOK, Say
<1>5. CASE /\ Len(job[a].made) > FrameLimit /\ UNCHANGED did
           /\ Reading(a, job[a].request.paths, job[a].todo \o SubSeq(job[a].made, 1, FrameLimit),
                      SubSeq(job[a].made, FrameLimit + 1, Len(job[a].made)))
  <2>1. Len(job[a].made) \in Nat /\ FrameLimit \in Nat \ {0}
    BY <1>3, SeqFacts, StartsAreWellFormed
  <2>2. IsSeq(SubSeq(job[a].made, 1, FrameLimit))
    <3>1. 1 \in 1 .. Len(job[a].made) + 1 /\ FrameLimit \in 1 - 1 .. Len(job[a].made)
      BY <1>5, <2>1
    <3> QED BY <1>3, <3>1, SubSeqFacts
  <2>3. IsSeq(SubSeq(job[a].made, FrameLimit + 1, Len(job[a].made)))
    <3>1. FrameLimit + 1 \in 1 .. Len(job[a].made) + 1 /\ Len(job[a].made) \in (FrameLimit + 1) - 1 .. Len(job[a].made)
      BY <1>5, <2>1
    <3> QED BY <1>3, <3>1, SubSeqFacts
  <2>4. IsSeq(job[a].todo \o SubSeq(job[a].made, 1, FrameLimit))
    BY <1>3, <2>2, ConcatFacts
  <2>5. JobsOK'
    BY <1>0, <1>1, <1>2, <1>3, <1>5, <2>3, <2>4, ReadingTypes
  <2> QED BY <1>0, <1>1, <1>2, <1>4, <1>5, <2>5, ClientStays DEF TypesOK
<1>6. CASE JobIs(a, Idle) /\ \E what: Did(a, what)
  <2>1. JobsOK'
    BY <1>0, <1>2, <1>6, JobSet
  <2>2. ClientOK'
    BY <1>0, <1>1, <1>6, SetDid DEF Did
  <2> QED BY <1>2, <1>4, <2>1, <2>2 DEF TypesOK
<1> QED BY <1>0, <1>5, <1>6, SayContentsDoes

LEMMA EndAgentTypes ==
  ASSUME TypesOK, NEW a \in Agents, EndAgent(a)
  PROVE  TypesOK'
<1>0. FilesOK /\ JobsOK /\ PipesOK /\ ClientOK
  BY DEF TypesOK
<1>1. /\ BudgetMoves /\ ended' = [ended EXCEPT ![a] = "dead"] /\ inbox' = [inbox EXCEPT ![a] = <<>>]
      /\ JobIs(a, Idle) /\ UNCHANGED <<filesVars, did, outbox, clientVars>>
  BY <1>0, EndAgentDoes
<1>2. FilesOK' /\ Later
  BY <1>0, <1>1, FilesStay
<1>3. JobsOK'
  BY <1>0, <1>1, <1>2, JobSet
<1>4. DOMAIN inbox' = Agents /\ \A b \in Agents: IsSeq(inbox'[b]) /\ \A k \in DOMAIN inbox'[b]: IsRequest(inbox'[b][k])
  BY <1>0, <1>1, EmptyIsSeq, InboxSet
<1>5. PipesOK'
  BY <1>0, <1>1, <1>4, PipesIf DEF PipesOK
<1> QED BY <1>0, <1>1, <1>2, <1>3, <1>5, ClientStays DEF TypesOK

LEMMA OthersTypes ==
  ASSUME TypesOK, OthersMove, UNCHANGED <<clientVars, pipeVars>>
  PROVE  TypesOK'
<1>0. FilesOK /\ JobsOK /\ PipesOK /\ ClientOK
  BY DEF TypesOK
<1> QED BY <1>0, OthersDo, JobsStay, PipesStay, ClientStays DEF TypesOK

LEMMA FilesStepTypes ==
  ASSUME TypesOK, NEW a \in Agents, FilesStep(a), UNCHANGED <<clientVars, pipeVars>>
  PROVE  TypesOK'
<1>0. FilesOK /\ JobsOK /\ PipesOK /\ ClientOK
  BY DEF TypesOK
<1>1. FileMoves(a)
  BY <1>0, FilesStepMoves
<1>2. FilesOK' /\ UNCHANGED did
  BY <1>1 DEF FileMoves
<1> QED BY <1>0, <1>1, <1>2, FileMovesJobs, PipesStay, ClientStays DEF TypesOK

LEMMA StutterTypes ==
  ASSUME TypesOK, UNCHANGED vars
  PROVE  TypesOK'
<1>0. FilesOK /\ JobsOK /\ PipesOK /\ ClientOK
  BY DEF TypesOK
<1> QED BY <1>0, FilesStay, BudgetKept, JobsStay, PipesStay, ClientStays DEF TypesOK, vars

LEMMA NextTypes ==
  ASSUME TypesOK, [Next]_vars
  PROVE  TypesOK'
<1>1. CASE ClientStep
  BY <1>1, SendRequestTypes, ReceiveTypes, ReconnectTypes, GiveUpTypes, CloseTypes DEF ClientStep
<1>2. CASE NoAnswer
  BY <1>2, NoAnswerTypes
<1>3. CASE \E a \in Agents : Work(a) \/ EndAgent(a)
  BY <1>3, TakeTypes, AnswerChangeTypes, ReadOneTypes, SayContentsTypes, EndAgentTypes, FilesStepTypes DEF Work
<1>4. CASE OthersMove /\ UNCHANGED <<clientVars, pipeVars>>
  BY <1>4, OthersTypes
<1>5. CASE Done \/ UNCHANGED vars
  BY <1>5, StutterTypes DEF Done
<1> QED BY <1>1, <1>2, <1>3, <1>4, <1>5 DEF Next

(* Every step of a job finds what it needs: the file that a part is written  *)
(* to is one that is there, an answer is of a request that was sent, and the *)
(* parts of a write are counted no further than there are.                   *)
THEOREM TypeCorrect == Spec => []TypesOK
<1>1. Init => TypesOK
  BY InitTypes
<1>2. TypesOK /\ [Next]_vars => TypesOK'
  BY NextTypes
<1> QED BY <1>1, <1>2, PTL DEF Spec

----------------------------------------------------------------------------
\* What is read piece by piece.
LEMMA Least ==
  ASSUME NEW T, T \subseteq Nat, T # {}
  PROVE  \E x \in T: \A y \in T: ~(y < x)
<1>1. \E x \in T: \A y \in T: ~(<<y, x>> \in OpToRel(<, Nat))
  BY NatLessThanWellFounded, WFMin
<1> QED BY <1>1 DEF OpToRel

Runs(h, pieces, n, f) ==
  f = [i \in 0 .. n |-> IF i = 0 THEN h ELSE AddPiece(f[i - 1], pieces[i])]
LEMMA RunExists ==
  ASSUME NEW h, NEW pieces, NEW n \in Nat
  PROVE  \E f: Runs(h, pieces, n, f)
<1> DEFINE T == {k \in Nat: ~\E f: Runs(h, pieces, k, f)}
<1> SUFFICES ASSUME T # {} PROVE FALSE
  OBVIOUS
<1>1. PICK k \in T: \A y \in T: ~(y < k)
  BY Least
<1>2. CASE k = 0
  <2>1. PICK f: f = [i \in 0 .. 0 |-> h]
    OBVIOUS
  <2>2. Runs(h, pieces, 0, f)
    BY <2>1 DEF Runs
  <2> QED BY <1>2, <2>2
<1>3. CASE k # 0
  <2>1. k - 1 \in Nat /\ k - 1 < k
    BY <1>3
  <2>2. PICK f: Runs(h, pieces, k - 1, f)
    BY <1>1, <2>1
  <2>3. PICK g: g = [i \in 0 .. k |-> IF i = k THEN AddPiece(f[k - 1], pieces[k]) ELSE f[i]]
    OBVIOUS
  <2>4. ASSUME NEW i \in 0 .. k
        PROVE  g[i] = IF i = 0 THEN h ELSE AddPiece(g[i - 1], pieces[i])
    <3>1. CASE i = 0
      <4>1. g[i] = f[i]
        BY <1>3, <2>3, <3>1
      <4>2. f[0] = h
        BY <2>1, <2>2 DEF Runs
      <4> QED BY <3>1, <4>1, <4>2
    <3>2. CASE i # 0 /\ i # k
      <4>1. g[i] = f[i] /\ g[i - 1] = f[i - 1] /\ i \in 0 .. k - 1
        BY <1>3, <2>3, <3>2
      <4>2. f[i] = AddPiece(f[i - 1], pieces[i])
        BY <2>2, <3>2, <4>1 DEF Runs
      <4> QED BY <3>2, <4>1, <4>2
    <3>3. CASE i = k
      <4>1. g[k] = AddPiece(f[k - 1], pieces[k]) /\ g[k - 1] = f[k - 1]
        BY <1>3, <2>3
      <4> QED BY <1>3, <3>3, <4>1
    <3> QED BY <3>1, <3>2, <3>3
  <2>5. g = [i \in 0 .. k |-> IF i = 0 THEN h ELSE AddPiece(g[i - 1], pieces[i])]
    BY <2>3, <2>4
  <2>6. Runs(h, pieces, k, g)
    BY <2>5 DEF Runs
  <2> QED BY <2>6
<1> QED BY <1>2, <1>3

Held(got, open) == [got |-> got, open |-> open]
After(h, pieces) ==
  LET joined == Joined(h.got, h.open, pieces) IN [got |-> joined.got, open |-> joined.open]

LEMMA JoinedRuns ==
  ASSUME NEW got, NEW open, NEW pieces, Len(pieces) \in Nat
  PROVE  \E f: /\ Runs([ok |-> TRUE, got |-> got, open |-> open], pieces, Len(pieces), f)
               /\ Joined(got, open, pieces) = f[Len(pieces)]
<1>1. \E f: Runs([ok |-> TRUE, got |-> got, open |-> open], pieces, Len(pieces), f)
  BY RunExists
<1>2. PICK f: f = CHOOSE g: Runs([ok |-> TRUE, got |-> got, open |-> open], pieces, Len(pieces), g)
  OBVIOUS
<1>3. Runs([ok |-> TRUE, got |-> got, open |-> open], pieces, Len(pieces), f)
  BY <1>1, <1>2
<1> QED BY <1>2, <1>3 DEF Joined, Runs

Alike(a, b) == a.got = b.got /\ a.open = b.open
LEMMA PieceAlike ==
  ASSUME NEW a, NEW b, Alike(a, b), NEW piece
  PROVE  Alike(AddPiece(a, piece), AddPiece(b, piece))
BY DEF Alike, AddPiece

Beside(u, p, m, v, q, n) ==
  \A i \in 1 .. n: /\ u[m + i] = AddPiece(u[m + i - 1], p[m + i])
                   /\ v[i] = AddPiece(v[i - 1], q[i]) /\ p[m + i] = q[i]
Follows(f, pieces, n) == \A i \in 1 .. n: f[i] = AddPiece(f[i - 1], pieces[i])
\* Two runs over the same pieces, from states that are alike.
LEMMA RunsAlike ==
  ASSUME NEW n, n \in Nat, NEW m, m \in Nat, NEW u, NEW v, NEW p, NEW q, Alike(u[m], v[0]),
         Beside(u, p, m, v, q, n)
  PROVE  Alike(u[m + n], v[n])
<1> DEFINE T == {k \in Nat: k <= n /\ ~Alike(u[m + k], v[k])}
<1> SUFFICES ASSUME T # {} PROVE FALSE
  OBVIOUS
<1>1. PICK k \in T: \A y \in T: ~(y < k)
  BY Least
<1>2. k # 0
  BY <1>1
<1>3. k - 1 \in Nat /\ k - 1 <= n /\ k - 1 < k /\ k \in 1 .. n
  BY <1>1, <1>2
<1>4. Alike(u[m + (k - 1)], v[k - 1])
  BY <1>1, <1>3
<1>5. m + (k - 1) = m + k - 1
  BY <1>3
<1>6. PICK piece: piece = q[k] /\ u[m + k] = AddPiece(u[m + k - 1], piece) /\ v[k] = AddPiece(v[k - 1], piece)
  BY <1>3 DEF Beside
<1>7. Alike(u[m + k], v[k])
  BY <1>4, <1>5, <1>6, PieceAlike
<1> QED BY <1>1, <1>7

LEMMA RunSteps ==
  ASSUME NEW h, NEW pieces, NEW n, n \in Nat, NEW f, Runs(h, pieces, n, f)
  PROVE  f[0] = h /\ Follows(f, pieces, n)
BY DEF Runs, Follows

LEMMA RunsMeet ==
  ASSUME NEW m, m \in Nat, NEW n, n \in Nat, NEW p, NEW s, NEW t, NEW a, NEW b, NEW u, NEW v, NEW w,
         Runs(a, p, m + n, u), Runs(a, s, m, v), Runs(b, t, n, w), Alike(v[m], b),
         \A i \in 1 .. m: p[i] = s[i], \A i \in 1 .. n: p[m + i] = t[i]
  PROVE  Alike(u[m + n], w[n])
<1>0. m + n \in Nat
  OBVIOUS
<1>1. u[0] = a /\ Follows(u, p, m + n)
  BY <1>0, RunSteps
<1>2. v[0] = a /\ Follows(v, s, m)
  BY RunSteps
<1>3. w[0] = b /\ Follows(w, t, n)
  BY RunSteps
<1>4. Alike(u[m], v[m])
  <2>1. Alike(u[0], v[0])
    BY <1>1, <1>2 DEF Alike
  <2>2. ASSUME NEW i \in 1 .. m
        PROVE  /\ u[0 + i] = AddPiece(u[0 + i - 1], p[0 + i])
               /\ v[i] = AddPiece(v[i - 1], s[i]) /\ p[0 + i] = s[i]
    <3>1. i \in 1 .. m + n /\ 0 + i = i /\ 0 + i - 1 = i - 1
      OBVIOUS
    <3>2. u[i] = AddPiece(u[i - 1], p[i])
      BY <1>1, <3>1 DEF Follows
    <3>3. v[i] = AddPiece(v[i - 1], s[i])
      BY <1>2 DEF Follows
    <3> QED BY <3>1, <3>2, <3>3
  <2>3. Beside(u, p, 0, v, s, m)
    BY <2>2 DEF Beside
  <2>4. Alike(u[0 + m], v[m])
    BY <2>1, <2>3, RunsAlike
  <2> QED BY <2>4
<1>5. Alike(u[m], w[0])
  BY <1>3, <1>4 DEF Alike
<1>6. ASSUME NEW i \in 1 .. n
      PROVE  /\ u[m + i] = AddPiece(u[m + i - 1], p[m + i])
             /\ w[i] = AddPiece(w[i - 1], t[i]) /\ p[m + i] = t[i]
  <2>1. m + i \in 1 .. m + n
    OBVIOUS
  <2>2. u[m + i] = AddPiece(u[m + i - 1], p[m + i])
    BY <1>1, <2>1 DEF Follows
  <2>3. w[i] = AddPiece(w[i - 1], t[i])
    BY <1>3 DEF Follows
  <2> QED BY <2>2, <2>3
<1>7. Beside(u, p, m, w, t, n)
  BY <1>6 DEF Beside
<1> QED BY <1>5, <1>7, RunsAlike

LEMMA JoinedIs ==
  ASSUME NEW h, NEW pieces, IsSeq(pieces)
  PROVE  \E f: /\ Runs([ok |-> TRUE, got |-> h.got, open |-> h.open], pieces, Len(pieces), f)
               /\ After(h, pieces).got = f[Len(pieces)].got
               /\ After(h, pieces).open = f[Len(pieces)].open
<1>1. Len(pieces) \in Nat
  BY SeqFacts
<1>2. PICK f: /\ Runs([ok |-> TRUE, got |-> h.got, open |-> h.open], pieces, Len(pieces), f)
              /\ Joined(h.got, h.open, pieces) = f[Len(pieces)]
  BY <1>1, JoinedRuns
<1> QED BY <1>2 DEF After

\* What is joined in two goes is what is joined in one.
LEMMA AfterBoth ==
  ASSUME NEW h, NEW s, IsSeq(s), NEW t, IsSeq(t)
  PROVE  After(After(h, s), t) = After(h, s \o t)
<1>1. PICK m, n, p: m = Len(s) /\ n = Len(t) /\ p = s \o t
  OBVIOUS
<1>2. m \in Nat /\ n \in Nat
  BY <1>1, SeqFacts
<1>3. IsSeq(p) /\ Len(p) = m + n /\ \A i \in 1 .. m + n: p[i] = IF i <= m THEN s[i] ELSE t[i - m]
  BY <1>1, ConcatFacts
<1>4. ASSUME NEW i \in 1 .. m PROVE p[i] = s[i]
  <2>1. i \in 1 .. m + n /\ i <= m
    BY <1>2
  <2> QED BY <1>3, <2>1
<1>5. ASSUME NEW i \in 1 .. n PROVE p[m + i] = t[i]
  <2>1. PICK k: k = m + i
    OBVIOUS
  <2>2. k \in 1 .. m + n /\ ~(k <= m) /\ k - m = i
    BY <1>2, <2>1
  <2>3. p[k] = IF k <= m THEN s[k] ELSE t[k - m]
    BY <1>3, <2>2
  <2>4. p[k] = t[i]
    BY <2>2, <2>3
  <2> QED BY <2>1, <2>4
<1>6. PICK k: k = After(h, s)
  OBVIOUS
<1>7. PICK a, b: /\ a = [ok |-> TRUE, got |-> h.got, open |-> h.open]
                 /\ b = [ok |-> TRUE, got |-> k.got, open |-> k.open]
  OBVIOUS
<1>8. PICK u: Runs(a, p, m + n, u) /\ After(h, p).got = u[m + n].got /\ After(h, p).open = u[m + n].open
  BY <1>3, <1>7, JoinedIs
<1>9. PICK v: Runs(a, s, m, v) /\ k.got = v[m].got /\ k.open = v[m].open
  BY <1>1, <1>6, <1>7, JoinedIs
<1>10. PICK w: Runs(b, t, n, w) /\ After(k, t).got = w[n].got /\ After(k, t).open = w[n].open
  BY <1>1, <1>7, JoinedIs
<1>11. Alike(v[m], b)
  BY <1>7, <1>9 DEF Alike
<1>12. Alike(u[m + n], w[n])
  BY <1>2, <1>4, <1>5, <1>8, <1>9, <1>10, <1>11, RunsMeet
<1>13. After(k, t).got = After(h, p).got /\ After(k, t).open = After(h, p).open
  BY <1>8, <1>10, <1>12 DEF Alike
<1>14. After(k, t) = After(h, p)
  BY <1>13 DEF After
<1> QED BY <1>1, <1>6, <1>14

LEMMA AfterNothing ==
  ASSUME NEW got, NEW open
  PROVE  After(Held(got, open), <<>>) = Held(got, open)
<1>1. PICK none: none = <<>> /\ IsSeq(none) /\ Len(none) = 0
  BY EmptyIsSeq
<1>2. PICK h: h = [got |-> got, open |-> open]
  OBVIOUS
<1>3. PICK v: /\ Runs([ok |-> TRUE, got |-> h.got, open |-> h.open], none, 0, v)
              /\ After(h, none).got = v[0].got
              /\ After(h, none).open = v[0].open
  BY <1>1, JoinedIs
<1>4. v[0] = [ok |-> TRUE, got |-> h.got, open |-> h.open]
  BY <1>3, RunSteps
<1>5. After(h, none).got = got /\ After(h, none).open = open
  BY <1>2, <1>3, <1>4
<1>6. After(h, none) = Held(got, open)
  BY <1>5 DEF After, Held
<1> QED BY <1>1, <1>2, <1>6 DEF Held

----------------------------------------------------------------------------
\* What the client will have joined after each of the frames on their way to
\* it, from what it holds.
Nothing == Held(<<>>, {})
HeldAfter(st, frames, h) ==
  /\ st[0] = h
  /\ \A k \in 1 .. Len(frames): frames[k].kind = "contents" => st[k] = After(st[k - 1], frames[k].pieces)
\* It ends in what the agent has said, or in what became of the request.
EndsIn(h, frame, pending, todo, came) ==
  /\ pending => h = After(Nothing, todo)
  /\ (~pending /\ frame.kind = "contents" /\ frame.last /\ ~frame.bad) => came.got = h.got
Adds(frames, h, pending, todo, came) ==
  \E st: /\ HeldAfter(st, frames, h)
         /\ (pending \/ frames # <<>>) =>
              EndsIn(st[Len(frames)], frames[Len(frames)], pending, todo, came)
Todo(a) == IF Busy(a) THEN job[a].todo ELSE <<>>
Contents ==
  (client.step = "wait" /\ Op.kind = "read") =>
    Adds(outbox[Mine], Held(client.got, client.open), Pending(Mine), Todo(Mine), did[client.id])

LEMMA ContentsAre ==
  Contents <=> ((client.step = "wait" /\ Op.kind = "read") =>
    Adds(outbox[Mine], Held(client.got, client.open), Pending(Mine), Todo(Mine), did[client.id]))
BY DEF Contents
LEMMA ContentsBecome ==
  Contents' <=> ((client'.step = "wait" /\ Head(program').kind = "read") =>
    Adds(outbox'[client'.agent], Held(client'.got, client'.open), Pending(client.agent)',
         Todo(client.agent)', did'[client'.id]))
BY DEF Contents, Mine, Op

\* The only frame there is.
LEMMA OneFrame ==
  ASSUME NEW frames, IsSeq(frames), frames # <<>>, Tail(frames) = <<>>, NEW frame, frame = Head(frames), NEW h, NEW todo, NEW came,
         Adds(frames, h, FALSE, todo, came), frame.kind = "contents", frame.last, ~frame.bad
  PROVE  came.got = Joined(h.got, h.open, frame.pieces).got
<1>1. Len(frames) = 1 /\ frames[1] = frame /\ frames # <<>>
  <2>1. PICK n, m: n = Len(frames) /\ n \in Nat \ {0} /\ m = Len(Tail(frames)) /\ m = n - 1
    BY TailFacts
  <2>2. m = 0
    BY <2>1, EmptyIsSeq
  <2>3. n = 1
    BY <2>1, <2>2
  <2> QED BY <2>1, <2>3, TailFacts
<1>2. PICK st: /\ HeldAfter(st, frames, h)
               /\ EndsIn(st[Len(frames)], frames[Len(frames)], FALSE, todo, came)
  BY <1>1 DEF Adds
<1>3. st[1] = After(h, frame.pieces)
  <2>1. 1 \in 1 .. Len(frames) /\ 1 - 1 = 0
    BY <1>1
  <2>2. st[1] = After(st[1 - 1], frames[1].pieces) /\ st[0] = h
    BY <1>1, <1>2, <2>1 DEF HeldAfter
  <2> QED BY <1>1, <2>1, <2>2
<1>4. came.got = st[1].got
  BY <1>1, <1>2 DEF EndsIn
<1> QED BY <1>3, <1>4 DEF After

\* One frame less.
LEMMA AddsTail ==
  ASSUME NEW frames, IsSeq(frames), frames # <<>>, Head(frames).kind = "contents", NEW h, NEW h1,
         h1 = After(h, Head(frames).pieces), NEW pending \in BOOLEAN, NEW todo, NEW came,
         Adds(frames, h, pending, todo, came)
  PROVE  Adds(Tail(frames), h1, pending, todo, came)
<1>1. PICK rest, n: rest = Tail(frames) /\ n = Len(rest)
  OBVIOUS
<1>2. /\ n \in Nat /\ Len(frames) = n + 1 /\ Head(frames) = frames[1] /\ IsSeq(rest)
      /\ \A i \in 1 .. n: rest[i] = frames[i + 1]
  <2>1. PICK m: m = Len(frames) /\ m \in Nat \ {0} /\ n = m - 1
    BY <1>1, TailFacts
  <2>2. n \in Nat /\ m = n + 1
    BY <2>1
  <2> QED BY <1>1, <2>1, <2>2, TailFacts
<1>3. PICK st: /\ HeldAfter(st, frames, h)
               /\ EndsIn(st[Len(frames)], frames[Len(frames)], pending, todo, came)
  BY DEF Adds
<1>4. PICK su: su = [i \in 0 .. n |-> st[i + 1]]
  OBVIOUS
<1>5. \A i \in 0 .. n: su[i] = st[i + 1]
  BY <1>4
<1>6. \A k \in 1 .. n + 1: frames[k].kind = "contents" => st[k] = After(st[k - 1], frames[k].pieces)
  BY <1>2, <1>3 DEF HeldAfter
<1>7. st[0] = h
  BY <1>3 DEF HeldAfter
<1>8. su[0] = h1
  <2>1. 1 \in 1 .. n + 1 /\ 1 - 1 = 0 /\ 0 \in 0 .. n /\ 0 + 1 = 1
    BY <1>2
  <2>2. st[1] = After(st[0], frames[1].pieces)
    BY <1>2, <1>6, <2>1
  <2>3. su[0] = st[1]
    BY <1>5, <2>1
  <2> QED BY <1>2, <1>7, <2>2, <2>3
<1>9. ASSUME NEW k \in 1 .. n, rest[k].kind = "contents"
      PROVE  su[k] = After(su[k - 1], rest[k].pieces)
  <2>1. PICK j: j = k + 1
    OBVIOUS
  <2>2. j \in 1 .. n + 1 /\ j - 1 = k /\ k \in 0 .. n /\ k - 1 \in 0 .. n /\ k - 1 + 1 = k
    BY <1>2, <2>1
  <2>3. rest[k] = frames[j]
    BY <1>2, <2>1
  <2>4. st[j] = After(st[j - 1], frames[j].pieces)
    BY <1>6, <1>9, <2>2, <2>3
  <2>5. su[k] = st[j]
    BY <1>5, <2>1, <2>2
  <2>6. su[k - 1] = st[k]
    BY <1>5, <2>2
  <2> QED BY <2>2, <2>3, <2>4, <2>5, <2>6
<1>10. HeldAfter(su, rest, h1)
  BY <1>1, <1>8, <1>9 DEF HeldAfter
<1>11. su[n] = st[n + 1]
  <2>1. n \in 0 .. n
    BY <1>2
  <2> QED BY <1>5, <2>1
<1>12. CASE rest = <<>>
  BY <1>1, <1>2, <1>3, <1>10, <1>11, <1>12 DEF Adds, EndsIn
<1>13. CASE rest # <<>>
  <2>1. n # 0
    BY <1>1, <1>2, <1>13, SeqFacts
  <2>2. n \in 1 .. n
    BY <1>2, <2>1
  <2>3. rest[n] = frames[n + 1]
    BY <1>2, <2>2
  <2>4. EndsIn(su[n], rest[n], pending, todo, came)
    BY <1>2, <1>3, <1>11, <2>3
  <2> QED BY <1>1, <1>10, <2>4 DEF Adds
<1> QED BY <1>12, <1>13

\* One frame more.
LEMMA AddsAppend ==
  ASSUME NEW frames, IsSeq(frames), NEW h, NEW todo, NEW came, Adds(frames, h, TRUE, todo, came),
         NEW frame, NEW g, NEW pending \in BOOLEAN, NEW todo1, NEW came1,
         frame.kind = "contents" => g = After(After(Nothing, todo), frame.pieces),
         EndsIn(g, frame, pending, todo1, came1)
  PROVE  Adds(Append(frames, frame), h, pending, todo1, came1)
<1>1. PICK more, n: more = Append(frames, frame) /\ n = Len(frames)
  OBVIOUS
<1>2. /\ n \in Nat /\ Len(more) = n + 1 /\ more # <<>> /\ more[n + 1] = frame
      /\ \A i \in 1 .. n: more[i] = frames[i]
  BY <1>1, AppendFacts, SeqFacts
<1>3. PICK st: HeldAfter(st, frames, h) /\ EndsIn(st[n], frames[n], TRUE, todo, came)
  BY <1>1 DEF Adds
<1>4. PICK su: su = [i \in 0 .. n + 1 |-> IF i = n + 1 THEN g ELSE st[i]]
  OBVIOUS
<1>5. su[n + 1] = g /\ \A i \in 0 .. n: su[i] = st[i]
  <2>1. n + 1 \in 0 .. n + 1
    BY <1>2
  <2>2. \A i \in 0 .. n: i \in 0 .. n + 1 /\ i # n + 1
    BY <1>2
  <2> QED BY <1>4, <2>1, <2>2
<1>6. su[0] = h
  <2>1. 0 \in 0 .. n
    BY <1>2
  <2> QED BY <1>3, <1>5, <2>1 DEF HeldAfter
<1>7. ASSUME NEW k \in 1 .. n + 1, more[k].kind = "contents"
      PROVE  su[k] = After(su[k - 1], more[k].pieces)
  <2>1. CASE k = n + 1
    <3>1. k - 1 = n /\ n \in 0 .. n
      BY <1>2, <2>1
    <3>2. su[k - 1] = After(Nothing, todo)
      BY <1>3, <1>5, <3>1 DEF EndsIn
    <3> QED BY <1>2, <1>5, <1>7, <2>1, <3>2
  <2>2. CASE k # n + 1
    <3>1. k \in 1 .. n /\ k \in 0 .. n /\ k - 1 \in 0 .. n
      BY <1>2, <2>2
    <3>2. more[k] = frames[k]
      BY <1>2, <3>1
    <3>3. st[k] = After(st[k - 1], frames[k].pieces)
      BY <1>1, <1>3, <1>7, <3>1, <3>2 DEF HeldAfter
    <3>4. su[k] = st[k]
      BY <1>5, <3>1
    <3>5. su[k - 1] = st[k - 1]
      BY <1>5, <3>1
    <3> QED BY <3>2, <3>3, <3>4, <3>5
  <2> QED BY <2>1, <2>2
<1>8. HeldAfter(su, more, h)
  BY <1>2, <1>6, <1>7 DEF HeldAfter
<1>9. EndsIn(su[Len(more)], more[Len(more)], pending, todo1, came1)
  BY <1>2, <1>5
<1> QED BY <1>1, <1>8, <1>9 DEF Adds

\* No more comes of an answer that was not said to its end.
LEMMA AddsEnded ==
  ASSUME NEW frames, IsSeq(frames), NEW h, NEW todo, NEW came, Adds(frames, h, TRUE, todo, came),
         \A k \in DOMAIN frames: ~frames[k].last, NEW todo1, NEW came1
  PROVE  Adds(frames, h, FALSE, todo1, came1)
<1>1. PICK st: HeldAfter(st, frames, h)
  BY DEF Adds
<1>2. ASSUME frames # <<>>
      PROVE  EndsIn(st[Len(frames)], frames[Len(frames)], FALSE, todo1, came1)
  <2>1. Len(frames) \in DOMAIN frames
    BY <1>2, TailFacts
  <2> QED BY <2>1 DEF EndsIn
<1> QED BY <1>1, <1>2 DEF Adds

\* Before anything is said.
LEMMA AddsNone ==
  ASSUME NEW pending \in BOOLEAN, NEW came
  PROVE  Adds(<<>>, Nothing, pending, <<>>, came)
<1>1. PICK none: none = <<>> /\ Len(none) = 0
  BY EmptyIsSeq
<1>2. PICK st: st = [i \in 0 .. 0 |-> Nothing]
  OBVIOUS
<1>3. st[0] = Nothing
  BY <1>2
<1>4. HeldAfter(st, none, Nothing)
  BY <1>1, <1>3 DEF HeldAfter
<1>5. Nothing = After(Nothing, none)
  BY <1>1, AfterNothing DEF Nothing
<1> QED BY <1>1, <1>3, <1>4, <1>5 DEF Adds, EndsIn

----------------------------------------------------------------------------
\* What a step that is not the client's leaves of the requests.
Withdrawn ==
  /\ UNCHANGED clientVars
  /\ DOMAIN inbox' = Agents
  /\ \A b \in Agents:
       /\ Pending(b)' => /\ Pending(b) /\ (Asked(b)').id = Asked(b).id
                         /\ IsFor(Asked(b)) => IsFor(Asked(b))'
       /\ inbox'[b] # <<>> => inbox'[b] = inbox[b] /\ ~Busy(b)' /\ outbox'[b] = outbox[b]
       /\ ~Pending(b) => outbox'[b] = outbox[b] /\ writing'[b] = writing[b]

LEMMA WithdrawnWire ==
  ASSUME TypesOK, Wire, Withdrawn
  PROVE  Wire'
<1>0. /\ client' = client /\ program' = program /\ results' = results /\ Mine' = Mine /\ Mine \in Agents
  BY DEF Withdrawn, clientVars, Mine, TypesOK, ClientOK
<1>1. \A a \in Agents: inbox'[a] # <<>> => Len(inbox'[a]) = 1 /\ ~Busy(a)'
  BY DEF Withdrawn, Wire
<1>2. \A a \in Agents: Pending(a)' => a <= Mine /\ (Asked(a)').id <= client.id
  BY DEF Withdrawn, Wire
<1>3. \A a \in Agents: (Pending(a)' /\ a # Mine /\ client.step # "next") => (Asked(a)').id < client.id
  BY DEF Withdrawn, Wire
<1>4. \A a, b \in Agents: (Pending(a)' /\ Pending(b)' /\ a < b) => (Asked(a)').id < (Asked(b)').id
  BY DEF Withdrawn, Wire
<1>5. \A a \in Agents: a > Mine => outbox'[a] = <<>> /\ writing'[a] = NoFiles
  <2> TAKE a \in Agents
  <2> HAVE a > Mine
  <2>1. ~Pending(a)
    <3>1. a \in Nat /\ Mine \in Nat
      BY <1>0, AgentsAreNumbered
    <3> QED BY <3>1 DEF Wire
  <2> QED BY <2>1 DEF Withdrawn, Wire
<1>6. client.step = "next" =>
       \/ ~Pending(Mine)' /\ outbox'[Mine] = <<>>
       \/ program = <<>> /\ results # <<>> /\ Last(results).is = "lost"
  BY <1>0 DEF Withdrawn, Wire
<1>7. (client.step # "next" /\ Pending(Mine)') => (Asked(Mine)').id = client.id /\ IsFor(Asked(Mine))'
  BY <1>0 DEF Withdrawn, Wire
<1>8. (client.step = "wait" /\ inbox'[Mine] # <<>>) => outbox'[Mine] = <<>>
  BY <1>0 DEF Withdrawn, Wire
<1> QED BY <1>0, <1>1, <1>2, <1>3, <1>4, <1>5, <1>6, <1>7, <1>8 DEF Wire

----------------------------------------------------------------------------
\* What a final frame tells of what became of a request of a kind.
Tells(frame, came, kind) ==
  \/ frame.kind = "refused" /\ came.is = "refused" /\ came.got = <<>>
  \/ /\ frame.kind = "changed" /\ kind # "read" /\ came.got = <<>>
     /\ came.is = IF frame.failure = "none" THEN "done" ELSE frame.failure
  \/ /\ frame.kind = "contents" /\ kind = "read" /\ frame.last
     /\ came.is = IF frame.bad THEN "refused" ELSE "read"
     /\ frame.bad => came.got = <<>>
PartOf(frame, kind) == kind = "read" /\ frame.kind = "contents" /\ ~frame.last
InOrder(frames, pending, came, kind) ==
  \A k \in DOMAIN frames:
    IF pending \/ k < Len(frames) THEN PartOf(frames[k], kind)
    ELSE PartOf(frames[k], kind) \/ Tells(frames[k], came, kind)

LEMMA FramesAre ==
  Frames <=> (client.step = "wait" => InOrder(outbox[Mine], Pending(Mine), did[client.id], Op.kind))
BY DEF Frames, InOrder, Partial, PartOf, Final, Tells
LEMMA FramesBecome ==
  Frames' <=> (client'.step = "wait" =>
                 InOrder(outbox'[client'.agent], Pending(client.agent)', did'[client'.id], Head(program').kind))
BY DEF Frames, InOrder, Partial, PartOf, Final, Tells, Mine, Op

\* An agent is done with a request, and says so.
Answers(a) ==
  /\ Pending(a) /\ ~Pending(a)'
  /\ \E frame, came:
       /\ Tells(frame, came, Asked(a).kind)
       /\ outbox' = [outbox EXCEPT ![a] = Append(@, frame)]
       /\ did' = [did EXCEPT ![Asked(a).id] = came]
\* It says a part of the answer, or nothing.
SaysSome(a) ==
  /\ UNCHANGED did
  /\ \/ UNCHANGED outbox
     \/ /\ Pending(a) /\ Asked(a).kind = "read"
        /\ \E frame: /\ frame.kind = "contents" /\ ~frame.last
                     /\ outbox' = [outbox EXCEPT ![a] = Append(@, frame)]

LEMMA FramesOfAnother ==
  ASSUME Frames, Withdrawn, Mine \in Agents, outbox'[Mine] = outbox[Mine],
         client.step = "wait" => did'[client.id] = did[client.id]
  PROVE  Frames'
<1>0. client' = client /\ program' = program /\ client.agent = Mine
  BY DEF Withdrawn, clientVars, Mine
<1>1. Pending(client.agent)' => Pending(Mine)
  <2>1. PICK b \in Agents: b = client.agent
    BY <1>0
  <2>2. Pending(b)' => Pending(b)
    BY DEF Withdrawn
  <2>3. Pending(client.agent)' <=> Pending(b)'
    BY <1>0, <2>1 DEF Pending, Busy
  <2> QED BY <1>0, <2>1, <2>2, <2>3
<1>3. client.step = "wait" => InOrder(outbox[Mine], Pending(Mine), did[client.id], Op.kind)
  BY FramesAre
<1>4. client.step = "wait" => InOrder(outbox[Mine], Pending(client.agent)', did[client.id], Op.kind)
  BY <1>1, <1>3 DEF InOrder
<1> QED BY <1>0, <1>4, FramesBecome DEF Op

LEMMA SettledIf ==
  ASSUME TypesOK, Settled, Withdrawn,
         \A i: (\A a \in Agents: Pending(a) => Asked(a).id # i) => did'[i] = did[i]
  PROVE  Settled'
<1>0. client' = client /\ results' = results
  BY DEF Withdrawn, clientVars
<1> SUFFICES ASSUME NEW i \in DOMAIN results, results[i].id # 0, results[i].is # "lost"
             PROVE  /\ \A a \in Agents: Pending(a)' => (Asked(a)').id # results[i].id
                    /\ Agrees(results[i], did'[results[i].id])
  BY <1>0 DEF Settled
<1>1. /\ \A a \in Agents: Pending(a) => Asked(a).id # results[i].id
      /\ Agrees(results[i], did[results[i].id])
  BY DEF Settled
<1> QED BY <1>1 DEF Withdrawn

LEMMA SomeKept ==
  ASSUME TypesOK, Wire, Frames, Settled, Withdrawn, NEW a \in Agents, SaysSome(a)
  PROVE  Frames' /\ Settled'
<1>0. /\ client' = client /\ program' = program /\ client.agent = Mine /\ Mine \in Agents /\ PipesOK
      /\ UNCHANGED did
  BY DEF Withdrawn, clientVars, Mine, TypesOK, ClientOK, SaysSome
<1>1. Settled'
  BY <1>0, SettledIf
<1>2. CASE outbox'[Mine] = outbox[Mine]
  BY <1>0, <1>1, <1>2, FramesOfAnother
<1>3. CASE outbox'[Mine] # outbox[Mine]
  <2>1. PICK frame: /\ frame.kind = "contents" /\ ~frame.last
                    /\ outbox' = [outbox EXCEPT ![a] = Append(@, frame)]
    BY <1>3 DEF SaysSome
  <2>2. a = Mine /\ Pending(Mine) /\ Asked(Mine).kind = "read"
    BY <1>0, <1>3, <2>1 DEF SaysSome, PipesOK
  <2>3. outbox'[Mine] = Append(outbox[Mine], frame) /\ IsSeq(outbox[Mine])
    BY <1>0, <2>1, <2>2, OutboxGrows DEF PipesOK
  <2> SUFFICES ASSUME client.step = "wait"
               PROVE  \A k \in DOMAIN outbox'[Mine]: PartOf(outbox'[Mine][k], Op.kind)
    <3>1. client.step = "wait" => InOrder(outbox'[Mine], Pending(client.agent)', did'[client.id], Op.kind)
      BY DEF InOrder
    <3> QED BY <1>0, <1>1, <3>1, FramesBecome DEF Op
  <2>4. Op.kind = "read"
    BY <2>2 DEF Wire, IsFor
  <2>5. \A k \in DOMAIN outbox[Mine]: PartOf(outbox[Mine][k], Op.kind)
    BY <2>2, FramesAre DEF InOrder
  <2>6. /\ DOMAIN outbox'[Mine] = 1 .. Len(outbox[Mine]) + 1
        /\ \A i \in DOMAIN outbox[Mine]: outbox'[Mine][i] = outbox[Mine][i]
        /\ outbox'[Mine][Len(outbox[Mine]) + 1] = frame
        /\ DOMAIN outbox[Mine] = 1 .. Len(outbox[Mine]) /\ Len(outbox[Mine]) \in Nat
    BY <2>3, AppendFacts, SeqFacts
  <2>7. PartOf(frame, Op.kind)
    BY <2>1, <2>4 DEF PartOf
  <2> QED BY <2>5, <2>6, <2>7
<1> QED BY <1>1, <1>2, <1>3

LEMMA AnswerKept ==
  ASSUME TypesOK, Wire, Frames, Settled, Withdrawn, NEW a \in Agents, Answers(a)
  PROVE  Frames' /\ Settled'
<1>0. /\ client' = client /\ program' = program /\ client.agent = Mine /\ Mine \in Agents /\ PipesOK
      /\ ClientOK
  BY DEF Withdrawn, clientVars, Mine, TypesOK, ClientOK
<1>1. PICK frame, came:
       /\ Tells(frame, came, Asked(a).kind)
       /\ outbox' = [outbox EXCEPT ![a] = Append(@, frame)]
       /\ did' = [did EXCEPT ![Asked(a).id] = came]
  BY DEF Answers
<1>2. Settled'
  <2>1. \A i: i # Asked(a).id => did'[i] = did[i]
    BY <1>1
  <2>2. Pending(a)
    BY DEF Answers
  <2> QED BY <2>1, <2>2, SettledIf
<1>3. CASE a # Mine
  <2>1. outbox'[Mine] = outbox[Mine]
    BY <1>0, <1>1, <1>3 DEF PipesOK
  <2>2. client.step = "wait" => Asked(a).id < client.id
    BY <1>3 DEF Wire, Answers
  <2>3. client.step = "wait" => Asked(a).id # client.id
    <3>1. client.id \in Nat
      BY <1>0, SeqFacts DEF ClientOK
    <3> QED BY <2>2, <3>1
  <2>4. client.step = "wait" => did'[client.id] = did[client.id]
    BY <1>1, <2>3
  <2> QED BY <1>0, <1>2, <2>1, <2>4, FramesOfAnother
<1>4. CASE a = Mine
  <2> SUFFICES ASSUME client.step = "wait"
               PROVE  InOrder(outbox'[Mine], FALSE, did'[client.id], Op.kind)
    <3>1. ~Pending(client.agent)'
      BY <1>0, <1>4 DEF Answers, Pending, Busy
    <3>2. client.step = "wait" => InOrder(outbox'[Mine], Pending(client.agent)', did'[client.id], Op.kind)
      BY <3>1 DEF InOrder
    <3> QED BY <1>0, <1>2, <3>2, FramesBecome DEF Op
  <2>1. outbox'[Mine] = Append(outbox[Mine], frame) /\ IsSeq(outbox[Mine])
    BY <1>0, <1>1, <1>4, OutboxGrows DEF PipesOK
  <2>2. /\ DOMAIN outbox'[Mine] = 1 .. Len(outbox[Mine]) + 1 /\ Len(outbox'[Mine]) = Len(outbox[Mine]) + 1
        /\ \A i \in DOMAIN outbox[Mine]: outbox'[Mine][i] = outbox[Mine][i]
        /\ outbox'[Mine][Len(outbox[Mine]) + 1] = frame
        /\ DOMAIN outbox[Mine] = 1 .. Len(outbox[Mine]) /\ Len(outbox[Mine]) \in Nat
    BY <2>1, AppendFacts, SeqFacts
  <2>3. Asked(Mine).id = client.id /\ Asked(Mine).kind = Op.kind /\ Pending(Mine)
    BY <1>4 DEF Wire, IsFor, Answers
  <2>4. client.id \in DOMAIN did
    BY <1>0, SeqFacts DEF ClientOK
  <2>5. did'[client.id] = came
    BY <1>1, <1>4, <2>3, <2>4
  <2>6. \A k \in DOMAIN outbox[Mine]: PartOf(outbox[Mine][k], Op.kind)
    BY <2>3, FramesAre DEF InOrder
  <2>7. Tells(frame, came, Op.kind)
    BY <1>1, <1>4, <2>3
  <2> QED BY <2>2, <2>5, <2>6, <2>7 DEF InOrder
<1> QED BY <1>3, <1>4

----------------------------------------------------------------------------
\* A step of one agent.
Alone(a) ==
  /\ UNCHANGED clientVars /\ DOMAIN inbox' = Agents
  /\ \A b \in Agents \ {a}: /\ job'[b] = job[b] /\ inbox'[b] = inbox[b]
                            /\ outbox'[b] = outbox[b] /\ writing'[b] = writing[b]

LEMMA SameAsked ==
  ASSUME UNCHANGED clientVars, NEW b \in Agents, job'[b] = job[b], inbox'[b] = inbox[b]
  PROVE  /\ Busy(b)' <=> Busy(b)
         /\ Pending(b)' <=> Pending(b)
         /\ (Asked(b))' = Asked(b)
         /\ IsFor(Asked(b))' <=> IsFor(Asked(b))
BY DEF Busy, Pending, Asked, IsFor, clientVars, Op

LEMMA WithdrawnIf ==
  ASSUME Wire, NEW a \in Agents, Alone(a), Pending(a),
         Pending(a)' => (Asked(a)').id = Asked(a).id /\ (IsFor(Asked(a)) => IsFor(Asked(a))'),
         inbox'[a] # <<>> => inbox'[a] = inbox[a] /\ ~Busy(a)' /\ outbox'[a] = outbox[a]
  PROVE  Withdrawn
<1> SUFFICES ASSUME NEW b \in Agents
             PROVE  /\ Pending(b)' => /\ Pending(b) /\ (Asked(b)').id = Asked(b).id
                                      /\ IsFor(Asked(b)) => IsFor(Asked(b))'
                    /\ inbox'[b] # <<>> => inbox'[b] = inbox[b] /\ ~Busy(b)' /\ outbox'[b] = outbox[b]
                    /\ ~Pending(b) => outbox'[b] = outbox[b] /\ writing'[b] = writing[b]
  BY DEF Withdrawn, Alone
<1>1. CASE b = a
  BY <1>1
<1>2. CASE b # a
  <2>1. /\ Busy(b)' <=> Busy(b)
        /\ Pending(b)' <=> Pending(b)
        /\ (Asked(b))' = Asked(b)
        /\ IsFor(Asked(b))' <=> IsFor(Asked(b))
    BY <1>2, SameAsked DEF Alone
  <2>2. inbox'[b] = inbox[b] /\ outbox'[b] = outbox[b] /\ writing'[b] = writing[b]
    BY <1>2 DEF Alone
  <2>3. inbox[b] # <<>> => ~Busy(b)
    BY DEF Wire
  <2> QED BY <2>1, <2>2, <2>3
<1> QED BY <1>1, <1>2

Exchange == Wire /\ Frames /\ Settled

LEMMA SayingKeeps ==
  ASSUME TypesOK, Exchange, Withdrawn, \E a \in Agents: SaysSome(a) \/ Answers(a)
  PROVE  Exchange'
BY WithdrawnWire, SomeKept, AnswerKept DEF Exchange

\* A job in hand goes on.
LEMMA GoesOnWithdrawn ==
  ASSUME TypesOK, Wire, NEW a \in Agents, Busy(a), UNCHANGED <<clientVars, inbox>>,
         \A b \in Agents \ {a}: job'[b] = job[b] /\ outbox'[b] = outbox[b] /\ writing'[b] = writing[b],
         job'[a].request.id = job[a].request.id,
         IsFor(job[a].request) => IsFor(job[a].request)'
  PROVE  Withdrawn
<1>1. inbox[a] = <<>> /\ inbox'[a] = <<>> /\ DOMAIN inbox' = Agents
  BY DEF Wire, TypesOK, PipesOK
<1>2. Asked(a) = job[a].request /\ (Asked(a))' = job'[a].request /\ Pending(a)
  BY <1>1 DEF Asked, Pending
<1>3. IsFor(Asked(a)) => IsFor(Asked(a))'
  BY <1>2 DEF IsFor
<1>4. Alone(a)
  BY <1>1 DEF Alone
<1> QED BY <1>1, <1>2, <1>3, <1>4, WithdrawnIf

LEMMA FilesStepExchange ==
  ASSUME TypesOK, Exchange, NEW a \in Agents, FilesStep(a), UNCHANGED <<clientVars, pipeVars>>
  PROVE  Exchange'
<1>0. FilesOK /\ JobsOK /\ Wire
  BY DEF TypesOK, Exchange
<1>1. FileMoves(a)
  BY <1>0, FilesStepMoves
<1>2. Busy(a) /\ UNCHANGED did /\ job'[a].request = job[a].request
      /\ \A b \in Agents \ {a}: job'[b] = job[b] /\ writing'[b] = writing[b]
  BY <1>1 DEF FileMoves, JobMoves
<1>3. IsFor(job[a].request) => IsFor(job[a].request)'
  BY <1>2 DEF IsFor, clientVars, Op
<1>4. Withdrawn
  BY <1>0, <1>2, <1>3, GoesOnWithdrawn DEF pipeVars
<1>5. SaysSome(a)
  BY <1>2 DEF SaysSome, pipeVars
<1> QED BY <1>4, <1>5, SayingKeeps

LEMMA ReadingFor ==
  ASSUME UNCHANGED clientVars, NEW a \in Agents, NEW paths, NEW todo, NEW made, Reading(a, paths, todo, made),
         job[a].request.kind = "read"
  PROVE  /\ job'[a].request.id = job[a].request.id
         /\ IsFor(job[a].request) => IsFor(job[a].request)'
         /\ \A b \in Agents \ {a}: job'[b] = job[b]
<1>1. /\ job'[a].request.id = job[a].request.id /\ job'[a].request.kind = "read"
      /\ \A b \in Agents \ {a}: job'[b] = job[b]
  BY DEF Reading, JobIs
<1>2. IsFor(job[a].request) => IsFor(job[a].request)'
  BY <1>1 DEF IsFor, clientVars, Op, Changes
<1> QED BY <1>1, <1>2

LEMMA ReadOneExchange ==
  ASSUME TypesOK, Exchange, NEW a \in Agents, ReadOne(a)
  PROVE  Exchange'
<1>0. FilesOK /\ JobsOK /\ Wire
  BY DEF TypesOK, Exchange
<1>1. /\ At(a, "read") /\ UNCHANGED <<filesVars, did, budget, pipeVars, clientVars>>
      /\ Reading(a, Tail(job[a].request.paths), job[a].todo,
                 job[a].made \o Pieces(Head(job[a].request.paths)))
  BY <1>0, ReadOneDoes
<1>2. Busy(a) /\ job[a].request.kind = "read"
  BY <1>0, <1>1, AtRead
<1>3. Withdrawn
  BY <1>0, <1>1, <1>2, ReadingFor, GoesOnWithdrawn DEF pipeVars, filesVars
<1>4. SaysSome(a)
  BY <1>1 DEF SaysSome, pipeVars
<1> QED BY <1>3, <1>4, SayingKeeps

\* A job in hand ends, with an answer or none.
LEMMA EndsWithdrawn ==
  ASSUME TypesOK, Wire, NEW a \in Agents, Pending(a), UNCHANGED clientVars, DOMAIN inbox' = Agents,
         inbox'[a] = <<>>, ~Busy(a)',
         \A b \in Agents \ {a}: /\ job'[b] = job[b] /\ inbox'[b] = inbox[b]
                                /\ outbox'[b] = outbox[b] /\ writing'[b] = writing[b]
  PROVE  Withdrawn /\ ~Pending(a)'
<1>1. ~Pending(a)'
  BY DEF Pending
<1>2. Alone(a)
  BY DEF Alone
<1> QED BY <1>1, <1>2, WithdrawnIf

LEMMA AnswerChangeExchange ==
  ASSUME TypesOK, Exchange, NEW a \in Agents, AnswerChange(a)
  PROVE  Exchange'
<1>0. FilesOK /\ JobsOK /\ Wire /\ PipesOK
  BY DEF TypesOK, Exchange
<1>1. /\ At(a, "answer") /\ Busy(a) /\ job[a].request.kind # "read" /\ JobIs(a, Idle)
      /\ UNCHANGED <<filesVars, budget, inbox, ended, clientVars>>
      /\ Did(a, Came(IF job[a].failure = "none" THEN "done" ELSE job[a].failure, <<>>, job[a].left,
                     Path(a), job[a].wrote, job[a].id))
      /\ Say(a, [kind |-> "changed", failure |-> job[a].failure, id |-> job[a].request.id])
  BY <1>0, AnswerChangeDoes
<1>2. inbox[a] = <<>> /\ inbox'[a] = <<>> /\ DOMAIN inbox' = Agents /\ Asked(a) = job[a].request /\ Pending(a)
  BY <1>0, <1>1 DEF Wire, PipesOK, Asked, Pending
<1>3. PICK frame, came:
        /\ frame = [kind |-> "changed", failure |-> job[a].failure, id |-> job[a].request.id]
        /\ came = Came(IF job[a].failure = "none" THEN "done" ELSE job[a].failure, <<>>, job[a].left,
                       Path(a), job[a].wrote, job[a].id)
        /\ outbox' = [outbox EXCEPT ![a] = Append(@, frame)]
        /\ did' = [did EXCEPT ![Asked(a).id] = came]
  BY <1>1, <1>2 DEF Say, Did
<1>4. Tells(frame, came, Asked(a).kind)
  BY <1>1, <1>2, <1>3 DEF Tells, Came
<1>5. Withdrawn /\ ~Pending(a)'
  <2>1. ~Busy(a)' /\ \A b \in Agents \ {a}: job'[b] = job[b] /\ writing'[b] = writing[b] /\ inbox'[b] = inbox[b]
    BY <1>1 DEF JobIs, Busy, filesVars
  <2>2. \A b \in Agents \ {a}: outbox'[b] = outbox[b]
    BY <1>0, <1>3 DEF PipesOK
  <2> QED BY <1>0, <1>1, <1>2, <2>1, <2>2, EndsWithdrawn
<1>6. Answers(a)
  BY <1>2, <1>3, <1>4, <1>5 DEF Answers
<1> QED BY <1>5, <1>6, SayingKeeps

LEMMA SayContentsExchange ==
  ASSUME TypesOK, Exchange, NEW a \in Agents, SayContents(a)
  PROVE  Exchange'
<1>0. FilesOK /\ JobsOK /\ Wire /\ PipesOK
  BY DEF TypesOK, Exchange
<1>1. /\ At(a, "read") /\ UNCHANGED <<filesVars, budget, inbox, ended, clientVars>>
      /\ \/ /\ Len(job[a].made) > FrameLimit /\ UNCHANGED did
            /\ Say(a, ContentFrame(a, SubSeq(job[a].made, 1, FrameLimit), FALSE))
            /\ Reading(a, job[a].request.paths, job[a].todo \o SubSeq(job[a].made, 1, FrameLimit),
                       SubSeq(job[a].made, FrameLimit + 1, Len(job[a].made)))
         \/ /\ Len(job[a].made) <= FrameLimit /\ job[a].request.paths = <<>> /\ JobIs(a, Idle)
            /\ Say(a, ContentFrame(a, job[a].made, TRUE))
            /\ Did(a, IF job[a].request.bad THEN Came("refused", <<>>, {}, <<>>, FALSE, 0)
                      ELSE Came("read", Joined(<<>>, {}, job[a].todo \o job[a].made).got,
                                {}, <<>>, FALSE, 0))
  BY <1>0, SayContentsDoes
<1>2. Busy(a) /\ job[a].request.kind = "read"
  BY <1>0, <1>1, AtRead
<1>3. inbox[a] = <<>> /\ inbox'[a] = <<>> /\ DOMAIN inbox' = Agents /\ Asked(a) = job[a].request /\ Pending(a)
  BY <1>0, <1>1, <1>2 DEF Wire, PipesOK, Asked, Pending
<1>4. CASE /\ UNCHANGED did
           /\ Say(a, ContentFrame(a, SubSeq(job[a].made, 1, FrameLimit), FALSE))
           /\ Reading(a, job[a].request.paths, job[a].todo \o SubSeq(job[a].made, 1, FrameLimit),
                      SubSeq(job[a].made, FrameLimit + 1, Len(job[a].made)))
  <2>1. PICK frame: /\ frame = ContentFrame(a, SubSeq(job[a].made, 1, FrameLimit), FALSE)
                    /\ outbox' = [outbox EXCEPT ![a] = Append(@, frame)]
    BY <1>4 DEF Say
  <2>2. frame.kind = "contents" /\ ~frame.last
    BY <2>1 DEF ContentFrame
  <2>3. SaysSome(a)
    BY <1>2, <1>3, <1>4, <2>1, <2>2 DEF SaysSome
  <2>4. \A b \in Agents \ {a}: outbox'[b] = outbox[b] /\ writing'[b] = writing[b]
    BY <1>0, <1>1, <2>1 DEF PipesOK, filesVars
  <2>5. Withdrawn
    BY <1>0, <1>1, <1>2, <1>4, <2>4, ReadingFor, GoesOnWithdrawn
  <2> QED BY <2>3, <2>5, SayingKeeps
<1>5. CASE /\ JobIs(a, Idle)
           /\ Say(a, ContentFrame(a, job[a].made, TRUE))
           /\ Did(a, IF job[a].request.bad THEN Came("refused", <<>>, {}, <<>>, FALSE, 0)
                      ELSE Came("read", Joined(<<>>, {}, job[a].todo \o job[a].made).got,
                                {}, <<>>, FALSE, 0))
  <2>1. PICK frame, came:
        /\ frame = ContentFrame(a, job[a].made, TRUE)
        /\ came = IF job[a].request.bad THEN Came("refused", <<>>, {}, <<>>, FALSE, 0)
                      ELSE Came("read", Joined(<<>>, {}, job[a].todo \o job[a].made).got,
                                {}, <<>>, FALSE, 0)
        /\ outbox' = [outbox EXCEPT ![a] = Append(@, frame)]
        /\ did' = [did EXCEPT ![Asked(a).id] = came]
    BY <1>3, <1>5 DEF Say, Did
  <2>2. Tells(frame, came, Asked(a).kind)
    <3>1. frame.kind = "contents" /\ (frame.bad <=> job[a].request.bad) /\ frame.last = TRUE
      BY <2>1 DEF ContentFrame
    <3>2. CASE job[a].request.bad
      BY <1>2, <1>3, <2>1, <3>1, <3>2 DEF Tells, Came
    <3>3. CASE ~job[a].request.bad
      <4>1. came.is = "read"
        BY <2>1, <3>3 DEF Came
      <4> QED BY <1>2, <1>3, <3>1, <3>3, <4>1 DEF Tells
    <3> QED BY <3>2, <3>3
  <2>3. Withdrawn /\ ~Pending(a)'
    <3>1. ~Busy(a)' /\ \A b \in Agents \ {a}: job'[b] = job[b] /\ writing'[b] = writing[b] /\ inbox'[b] = inbox[b]
      BY <1>1, <1>5 DEF JobIs, Busy, filesVars
    <3>2. \A b \in Agents \ {a}: outbox'[b] = outbox[b]
      BY <1>0, <2>1 DEF PipesOK
    <3> QED BY <1>0, <1>1, <1>3, <3>1, <3>2, EndsWithdrawn
  <2>4. Answers(a)
    BY <1>3, <2>1, <2>2, <2>3 DEF Answers
  <2> QED BY <2>3, <2>4, SayingKeeps
<1> QED BY <1>1, <1>4, <1>5

----------------------------------------------------------------------------
LEMMA TakeExchange ==
  ASSUME TypesOK, Exchange, NEW a \in Agents, Take(a)
  PROVE  Exchange'
<1>0. FilesOK /\ JobsOK /\ Wire /\ PipesOK
  BY DEF TypesOK, Exchange
<1> DEFINE request == Head(inbox[a])
<1>1. /\ inbox[a] # <<>> /\ ~Busy(a) /\ inbox' = [inbox EXCEPT ![a] = Tail(@)]
      /\ UNCHANGED <<sudo, names, nodes, ended, clientVars>>
      /\ \/ /\ JobIs(a, Taken(a, request)) /\ UNCHANGED <<did, outbox, budget>>
            /\ writing' = IF request.kind = "write"
                          THEN [writing EXCEPT ![a][request.path] = 0] ELSE writing
         \/ /\ budget.garbled > 0 /\ budget' = [budget EXCEPT !.garbled = @ - 1]
            /\ did' = [did EXCEPT ![request.id] = Came("refused", <<>>, {}, <<>>, FALSE, 0)]
            /\ outbox' = [outbox EXCEPT ![a] = Append(@, [kind |-> "refused", id |-> request.id])]
            /\ UNCHANGED <<job, writing>>
  BY <1>0, TakeDoes
<1> HIDE DEF request
<1>2. Asked(a) = request /\ Pending(a)
  BY <1>1 DEF Asked, Pending, request
<1>3. /\ inbox'[a] = <<>> /\ DOMAIN inbox' = Agents /\ \A b \in Agents \ {a}: inbox'[b] = inbox[b]
  <2>1. PICK frames: frames = Tail(inbox[a]) /\ inbox' = [inbox EXCEPT ![a] = frames]
    BY <1>1
  <2>2. IsSeq(frames) /\ Len(frames) = 0
    BY <1>0, <1>1, <2>1, TailFacts DEF PipesOK, Wire
  <2>3. frames = <<>>
    BY <2>2, SeqFacts
  <2> QED BY <1>0, <2>1, <2>3 DEF PipesOK
<1>4. CASE /\ JobIs(a, Taken(a, request)) /\ UNCHANGED <<did, outbox, budget>>
           /\ writing' = IF request.kind = "write"
                         THEN [writing EXCEPT ![a][request.path] = 0] ELSE writing
  <2>1. job'[a].request = request /\ \A b \in Agents \ {a}: job'[b] = job[b]
    BY <1>4 DEF JobIs, Taken
  <2>2. (Asked(a))' = request
    BY <1>3, <2>1 DEF Asked
  <2>3. (Asked(a)').id = Asked(a).id /\ (IsFor(Asked(a)) => IsFor(Asked(a))')
    BY <1>1, <1>2, <2>2 DEF IsFor, clientVars, Op
  <2>4. \A b \in Agents \ {a}: writing'[b] = writing[b]
    BY <1>0, <1>4 DEF FilesOK
  <2>5. Alone(a)
    BY <1>1, <1>3, <1>4, <2>1, <2>4 DEF Alone
  <2>6. Withdrawn
    BY <1>0, <1>2, <1>3, <2>3, <2>5, WithdrawnIf
  <2>7. SaysSome(a)
    BY <1>4 DEF SaysSome
  <2> QED BY <2>6, <2>7, SayingKeeps
<1>5. CASE /\ did' = [did EXCEPT ![request.id] = Came("refused", <<>>, {}, <<>>, FALSE, 0)]
           /\ outbox' = [outbox EXCEPT ![a] = Append(@, [kind |-> "refused", id |-> request.id])]
           /\ UNCHANGED <<job, writing>>
  <2>1. PICK frame, came: /\ frame = [kind |-> "refused", id |-> request.id]
                          /\ came = Came("refused", <<>>, {}, <<>>, FALSE, 0)
                          /\ outbox' = [outbox EXCEPT ![a] = Append(@, frame)]
                          /\ did' = [did EXCEPT ![Asked(a).id] = came]
    BY <1>2, <1>5
  <2>2. Tells(frame, came, Asked(a).kind)
    BY <2>1 DEF Tells, Came
  <2>3. Withdrawn /\ ~Pending(a)'
    <3>1. ~Busy(a)'
      BY <1>1, <1>5 DEF Busy
    <3>2. \A b \in Agents \ {a}: job'[b] = job[b] /\ outbox'[b] = outbox[b] /\ writing'[b] = writing[b]
      BY <1>0, <1>5, <2>1 DEF PipesOK
    <3> QED BY <1>0, <1>1, <1>2, <1>3, <3>1, <3>2, EndsWithdrawn
  <2>4. Answers(a)
    BY <1>2, <2>1, <2>2, <2>3 DEF Answers
  <2> QED BY <2>3, <2>4, SayingKeeps
<1> QED BY <1>1, <1>4, <1>5

LEMMA EndAgentExchange ==
  ASSUME TypesOK, Exchange, NEW a \in Agents, EndAgent(a)
  PROVE  Exchange'
<1>0. FilesOK /\ JobsOK /\ Wire /\ PipesOK
  BY DEF TypesOK, Exchange
<1>1. /\ inbox' = [inbox EXCEPT ![a] = <<>>]
      /\ JobIs(a, Idle) /\ UNCHANGED <<filesVars, did, outbox, clientVars>>
  BY <1>0, EndAgentDoes
<1>2. SaysSome(a)
  BY <1>1 DEF SaysSome
<1>3. Withdrawn
  <2>1. DOMAIN inbox' = Agents /\ inbox'[a] = <<>> /\ \A b \in Agents \ {a}: inbox'[b] = inbox[b]
    BY <1>0, <1>1 DEF PipesOK
  <2>2. ~Pending(a)'
    BY <1>1, <2>1 DEF JobIs, Pending, Busy
  <2> SUFFICES ASSUME NEW b \in Agents
               PROVE  /\ Pending(b)' => /\ Pending(b) /\ (Asked(b)').id = Asked(b).id
                                        /\ IsFor(Asked(b)) => IsFor(Asked(b))'
                      /\ inbox'[b] # <<>> => inbox'[b] = inbox[b] /\ ~Busy(b)' /\ outbox'[b] = outbox[b]
                      /\ ~Pending(b) => outbox'[b] = outbox[b] /\ writing'[b] = writing[b]
    BY <1>1, <2>1 DEF Withdrawn
  <2>3. CASE b = a
    BY <1>1, <2>1, <2>2, <2>3 DEF filesVars
  <2>4. CASE b # a
    <3>1. /\ Busy(b)' <=> Busy(b)
          /\ Pending(b)' <=> Pending(b)
          /\ (Asked(b))' = Asked(b)
          /\ IsFor(Asked(b))' <=> IsFor(Asked(b))
      BY <1>1, <2>1, <2>4, SameAsked DEF JobIs
    <3>2. inbox'[b] = inbox[b] /\ outbox'[b] = outbox[b] /\ writing'[b] = writing[b]
      BY <1>1, <2>1, <2>4 DEF filesVars
    <3>3. inbox[b] # <<>> => ~Busy(b)
      BY <1>0 DEF Wire
    <3> QED BY <3>1, <3>2, <3>3
  <2> QED BY <2>3, <2>4
<1> QED BY <1>2, <1>3, SayingKeeps

LEMMA QuietExchange ==
  ASSUME TypesOK, Exchange, UNCHANGED <<clientVars, inbox, outbox, job, did, writing>>
  PROVE  Exchange'
<1>0. FilesOK /\ JobsOK /\ Wire /\ PipesOK /\ 1 \in Agents
  BY AgentsAreNumbered DEF TypesOK, Exchange
<1>1. SaysSome(1)
  BY DEF SaysSome
<1>2. Withdrawn
  <2> SUFFICES ASSUME NEW b \in Agents
               PROVE  /\ Pending(b)' => /\ Pending(b) /\ (Asked(b)').id = Asked(b).id
                                        /\ IsFor(Asked(b)) => IsFor(Asked(b))'
                      /\ inbox'[b] # <<>> => inbox'[b] = inbox[b] /\ ~Busy(b)' /\ outbox'[b] = outbox[b]
                      /\ ~Pending(b) => outbox'[b] = outbox[b] /\ writing'[b] = writing[b]
    BY <1>0 DEF Withdrawn, PipesOK
  <2>1. /\ Busy(b)' <=> Busy(b)
        /\ Pending(b)' <=> Pending(b)
        /\ (Asked(b))' = Asked(b)
        /\ IsFor(Asked(b))' <=> IsFor(Asked(b))
    BY SameAsked
  <2>2. inbox[b] # <<>> => ~Busy(b)
    BY <1>0 DEF Wire
  <2> QED BY <2>1, <2>2
<1> QED BY <1>0, <1>1, <1>2, SayingKeeps

LEMMA OthersExchange ==
  ASSUME TypesOK, Exchange, OthersMove, UNCHANGED <<clientVars, pipeVars>>
  PROVE  Exchange'
BY QuietExchange DEF OthersMove, pipeVars

LEMMA CloseExchange ==
  ASSUME TypesOK, Exchange, Close
  PROVE  Exchange'
BY QuietExchange DEF Close, filesVars

LEMMA StutterExchange ==
  ASSUME TypesOK, Exchange, UNCHANGED vars
  PROVE  Exchange'
BY QuietExchange DEF vars, filesVars, pipeVars

----------------------------------------------------------------------------
\* The steps of the client.
LEMMA WireIf ==
  ASSUME NEW id, NEW step, NEW mine \in Agents,
         client'.id = id, client'.step = step, client'.agent = mine,
         \A a \in Agents: inbox'[a] # <<>> => Len(inbox'[a]) = 1 /\ ~Busy(a)',
         \A a \in Agents: Pending(a)' => a <= mine /\ (Asked(a)').id <= id,
         \A a \in Agents: (Pending(a)' /\ a # mine /\ step # "next") => (Asked(a)').id < id,
         \A a, b \in Agents: (Pending(a)' /\ Pending(b)' /\ a < b) => (Asked(a)').id < (Asked(b)').id,
         \A a \in Agents: a > mine => outbox'[a] = <<>> /\ writing'[a] = NoFiles,
         step = "next" => \/ (inbox'[mine] = <<>> /\ job'[mine] = Idle) /\ outbox'[mine] = <<>>
                          \/ program' = <<>> /\ results' # <<>> /\ Last(results').is = "lost",
         (step # "next" /\ Pending(mine)') => (Asked(mine)').id = id /\ IsFor(Asked(mine))',
         (step = "wait" /\ inbox'[mine] # <<>>) => outbox'[mine] = <<>>
  PROVE  Wire'
BY DEF Wire, Mine, Pending, Busy, Asked, IsFor

----------------------------------------------------------------------------
LEMMA SettledBecomes ==
  ASSUME NEW id, client'.id = id,
         \A i \in DOMAIN results':
            /\ results'[i].id \in 0 .. id
            /\ (results'[i].id # 0 /\ results'[i].is # "lost") =>
                 /\ \A a \in Agents: Pending(a)' => (Asked(a)').id # results'[i].id
                 /\ Agrees(results'[i], did'[results'[i].id])
  PROVE  Settled'
BY DEF Settled

LEMMA RequestsKept ==
  ASSUME UNCHANGED <<inbox, job>>, NEW b \in Agents
  PROVE  /\ Busy(b)' <=> Busy(b)
         /\ Pending(b)' <=> Pending(b)
         /\ (Asked(b))' = Asked(b)
BY DEF Busy, Pending, Asked

\* One more result, of the request that was in hand or of none.
LEMMA ResultsGrow ==
  ASSUME ClientOK, Settled, NEW e, results' = Append(results, e), client'.id = client.id, UNCHANGED did,
         \A a \in Agents: Pending(a)' => Pending(a) /\ (Asked(a)').id = Asked(a).id,
         e.id \in 0 .. client.id,
         (e.id # 0 /\ e.is # "lost") =>
            /\ \A a \in Agents: Pending(a) => Asked(a).id # e.id
            /\ Agrees(e, did[e.id])
  PROVE  Settled'
<1>1. IsSeq(results)
  BY DEF ClientOK
<1>2. /\ DOMAIN results' = 1 .. Len(results) + 1
      /\ \A i \in DOMAIN results: results'[i] = results[i]
      /\ results'[Len(results) + 1] = e
      /\ DOMAIN results = 1 .. Len(results) /\ Len(results) \in Nat
  BY <1>1, AppendFacts, SeqFacts
<1>3. ASSUME NEW i \in DOMAIN results'
      PROVE  /\ results'[i].id \in 0 .. client.id
             /\ (results'[i].id # 0 /\ results'[i].is # "lost") =>
                  /\ \A a \in Agents: Pending(a)' => (Asked(a)').id # results'[i].id
                  /\ Agrees(results'[i], did'[results'[i].id])
  <2>1. CASE i \in DOMAIN results
    <3>1. results'[i] = results[i]
      BY <1>2, <2>1
    <3> QED BY <2>1, <3>1 DEF Settled
  <2>2. CASE i = Len(results) + 1
    <3>1. results'[i] = e
      BY <1>2, <2>2
    <3> QED BY <3>1
  <2> QED BY <1>2, <2>1, <2>2
<1> QED BY <1>3, SettledBecomes

LEMMA SettledStays ==
  ASSUME Settled, UNCHANGED results, client'.id = client.id, UNCHANGED did,
         \A a \in Agents: Pending(a)' => Pending(a) /\ (Asked(a)').id = Asked(a).id
  PROVE  Settled'
<1>1. ASSUME NEW i \in DOMAIN results'
      PROVE  /\ results'[i].id \in 0 .. client.id
             /\ (results'[i].id # 0 /\ results'[i].is # "lost") =>
                  /\ \A a \in Agents: Pending(a)' => (Asked(a)').id # results'[i].id
                  /\ Agrees(results'[i], did'[results'[i].id])
  BY DEF Settled
<1> QED BY <1>1, SettledBecomes

\* The first frame of those on their way is received.
LEMMA FirstFrame ==
  ASSUME TypesOK, Exchange, Received, client.step = "wait", outbox[Mine] # <<>>
  PROVE  /\ Mine \in Agents /\ IsSeq(outbox[Mine]) /\ UNCHANGED <<inbox, job, did, writing>>
         /\ outbox'[Mine] = Tail(outbox[Mine]) /\ \A b \in Agents \ {Mine}: outbox'[b] = outbox[b]
         /\ ~PartOf(Head(outbox[Mine]), Op.kind) =>
              /\ ~Pending(Mine) /\ outbox'[Mine] = <<>>
              /\ Tells(Head(outbox[Mine]), did[client.id], Op.kind)
         /\ PartOf(Head(outbox[Mine]), Op.kind) =>
              InOrder(outbox'[Mine], Pending(Mine), did[client.id], Op.kind)
<1>1. /\ Mine \in Agents /\ IsSeq(outbox[Mine]) /\ UNCHANGED <<inbox, job, did, writing>> /\ PipesOK
  BY DEF TypesOK, ClientOK, Mine, PipesOK, Received, filesVars
<1>2. outbox'[Mine] = Tail(outbox[Mine]) /\ \A b \in Agents \ {Mine}: outbox'[b] = outbox[b]
  BY <1>1 DEF Received, PipesOK
<1>3. InOrder(outbox[Mine], Pending(Mine), did[client.id], Op.kind)
  BY FramesAre DEF Exchange
<1>4. /\ IsSeq(outbox'[Mine]) /\ Len(outbox'[Mine]) = Len(outbox[Mine]) - 1
      /\ DOMAIN outbox'[Mine] = 1 .. Len(outbox[Mine]) - 1
      /\ \A i \in DOMAIN outbox'[Mine]: outbox'[Mine][i] = outbox[Mine][i + 1] /\ i + 1 \in DOMAIN outbox[Mine]
      /\ Len(outbox[Mine]) \in Nat \ {0} /\ Head(outbox[Mine]) = outbox[Mine][1] /\ 1 \in DOMAIN outbox[Mine]
  <2>1. PICK rest: rest = Tail(outbox[Mine]) /\ outbox'[Mine] = rest
    BY <1>2
  <2>2. /\ IsSeq(rest) /\ Len(rest) = Len(outbox[Mine]) - 1 /\ DOMAIN rest = 1 .. Len(outbox[Mine]) - 1
        /\ \A i \in DOMAIN rest: rest[i] = outbox[Mine][i + 1] /\ i + 1 \in DOMAIN outbox[Mine]
        /\ Len(outbox[Mine]) \in Nat \ {0} /\ Head(outbox[Mine]) = outbox[Mine][1] /\ 1 \in DOMAIN outbox[Mine]
    BY <1>1, <2>1, TailFacts
  <2> QED BY <2>1, <2>2
<1>5. ASSUME ~PartOf(Head(outbox[Mine]), Op.kind)
      PROVE  /\ ~Pending(Mine) /\ outbox'[Mine] = <<>>
             /\ Tells(Head(outbox[Mine]), did[client.id], Op.kind)
  <2>1. ~Pending(Mine) /\ ~(1 < Len(outbox[Mine])) /\ Tells(Head(outbox[Mine]), did[client.id], Op.kind)
    BY <1>3, <1>4, <1>5 DEF InOrder
  <2>2. Len(outbox'[Mine]) = 0
    <3>1. PICK n, m: n = Len(outbox[Mine]) /\ m = Len(outbox'[Mine])
      OBVIOUS
    <3>2. n \in Nat \ {0}
      BY <1>4, <3>1
    <3>3. m = n - 1
      BY <1>4, <3>1
    <3>4. ~(1 < n)
      BY <2>1, <3>1
    <3>5. m = 0
      BY <3>2, <3>3, <3>4
    <3> QED BY <3>1, <3>5
  <2>3. outbox'[Mine] = <<>>
    <3>1. PICK rest: rest = outbox'[Mine]
      OBVIOUS
    <3>2. IsSeq(rest) /\ Len(rest) = 0
      BY <1>4, <2>2, <3>1
    <3> QED BY <3>1, <3>2, SeqFacts
  <2> QED BY <2>1, <2>3
<1>6. InOrder(outbox'[Mine], Pending(Mine), did[client.id], Op.kind)
  BY <1>3, <1>4 DEF InOrder
<1> QED BY <1>1, <1>2, <1>5, <1>6

LEMMA FinishExchange ==
  ASSUME TypesOK, Exchange, Received, client.step = "wait", outbox[Mine] # <<>>, NEW is, NEW got,
         Finish(is, got), ~PartOf(Head(outbox[Mine]), Op.kind),
         Tells(Head(outbox[Mine]), did[client.id], Op.kind) => is = did[client.id].is /\ got = did[client.id].got
  PROVE  Exchange'
<1>0. ClientOK /\ Wire /\ Settled
  BY DEF TypesOK, Exchange
<1>1. /\ ClientIs("next", client.agent, 1, 1, client.id, client.got, client.open)
      /\ results' = Append(results, Result(is, got))
  BY <1>0, FinishDoes
<1>2. /\ Mine \in Agents /\ UNCHANGED <<inbox, job, did, writing>> /\ ~Pending(Mine) /\ outbox'[Mine] = <<>>
      /\ \A b \in Agents \ {Mine}: outbox'[b] = outbox[b]
      /\ is = did[client.id].is /\ got = did[client.id].got
  BY FirstFrame
<1>3. client'.id = client.id /\ client'.step = "next" /\ client'.agent = Mine
  BY <1>1 DEF ClientIs, Mine
<1>4. \A a \in Agents: /\ Busy(a)' <=> Busy(a)
                       /\ Pending(a)' <=> Pending(a)
                       /\ (Asked(a))' = Asked(a)
  BY <1>2, RequestsKept
<1>5. Frames'
  BY <1>3, FramesBecome
<1>6. Settled'
  <2>1. PICK e: e = Result(is, got) /\ results' = Append(results, e)
    BY <1>1
  <2>2. e.id = client.id /\ e.is = is /\ Agrees(e, did[e.id])
    BY <1>2, <2>1 DEF Result, Agrees
  <2>3. client.id \in 0 .. client.id
    BY <1>0, SeqFacts DEF ClientOK
  <2>4. ASSUME NEW a \in Agents, Pending(a) PROVE Asked(a).id # client.id
    <3>1. a # Mine
      BY <1>2, <2>4
    <3>2. Asked(a).id < client.id
      BY <1>0, <2>4, <3>1 DEF Wire
    <3> QED BY <2>3, <3>2
  <2> QED BY <1>0, <1>2, <1>3, <1>4, <2>1, <2>2, <2>3, <2>4, ResultsGrow
<1>7. Wire'
  <2>1. inbox'[Mine] = <<>> /\ job'[Mine] = Idle
    BY <1>2 DEF Pending, Busy
  <2>2. \A a \in Agents: inbox'[a] # <<>> => Len(inbox'[a]) = 1 /\ ~Busy(a)'
    BY <1>0, <1>2, <1>4 DEF Wire
  <2>3. \A a \in Agents: Pending(a)' => a <= Mine /\ (Asked(a)').id <= client.id
    BY <1>0, <1>4 DEF Wire
  <2>4. \A a, b \in Agents: (Pending(a)' /\ Pending(b)' /\ a < b) => (Asked(a)').id < (Asked(b)').id
    BY <1>0, <1>4 DEF Wire
  <2>5. \A a \in Agents: a > Mine => outbox'[a] = <<>> /\ writing'[a] = NoFiles
    BY <1>0, <1>2 DEF Wire
  <2> QED BY <1>2, <1>3, <2>1, <2>2, <2>3, <2>4, <2>5, WireIf
<1> QED BY <1>5, <1>6, <1>7 DEF Exchange

\* The client goes on, or waits on, with no new result, and the agent is the same.
LEMMA ClientWire ==
  ASSUME TypesOK, Wire, UNCHANGED <<inbox, job, writing, program>>, client.step = "wait",
         NEW m \in Agents, m = Mine, client'.id = client.id, client'.agent = m,
         \A b \in Agents: outbox'[b] = outbox[b] \/ (b = m /\ outbox[b] # <<>>),
         \/ client'.step \in {"wait", "lost"} /\ client'.part = client.part
         \/ client'.step = "next" /\ ~Pending(m) /\ outbox'[m] = <<>>
  PROVE  Wire'
<1>1. PICK step: step = client'.step
  OBVIOUS
<1>2. \A a \in Agents: /\ Busy(a)' <=> Busy(a)
                       /\ Pending(a)' <=> Pending(a)
                       /\ (Asked(a))' = Asked(a)
  BY RequestsKept
<1>3. \A a \in Agents: inbox'[a] # <<>> => Len(inbox'[a]) = 1 /\ ~Busy(a)'
  BY <1>2 DEF Wire
<1>4. \A a \in Agents: Pending(a)' => a <= m /\ (Asked(a)').id <= client.id
  BY <1>2 DEF Wire
<1>5. \A a, b \in Agents: (Pending(a)' /\ Pending(b)' /\ a < b) => (Asked(a)').id < (Asked(b)').id
  BY <1>2 DEF Wire
<1>6. \A a \in Agents: a > m => outbox'[a] = <<>> /\ writing'[a] = NoFiles
  <2> TAKE a \in Agents
  <2> HAVE a > m
  <2>1. a # m
    <3>1. m \in Nat
      BY AgentsAreNumbered
    <3> QED BY <3>1
  <2> QED BY <2>1 DEF Wire
<1>7. \A a \in Agents: (Pending(a)' /\ a # m /\ step # "next") => (Asked(a)').id < client.id
  BY <1>2 DEF Wire
<1>8. (step # "next" /\ Pending(m)') => (Asked(m)').id = client.id /\ IsFor(Asked(m))'
  <2> SUFFICES ASSUME step # "next", Pending(m) PROVE Asked(m).id = client.id /\ IsFor(Asked(m))'
    BY <1>2
  <2>1. Asked(m).id = client.id /\ IsFor(Asked(m))
    BY DEF Wire
  <2>2. client'.part = client.part
    BY <1>1
  <2>3. (Asked(m))' = Asked(m)
    BY <1>2
  <2> QED BY <2>1, <2>2, <2>3 DEF IsFor, Op
<1>9. step = "next" => (inbox'[m] = <<>> /\ job'[m] = Idle) /\ outbox'[m] = <<>>
  BY <1>1 DEF Pending, Busy
<1>10. (step = "wait" /\ inbox'[m] # <<>>) => outbox'[m] = <<>>
  BY DEF Wire
<1> QED BY <1>1, <1>3, <1>4, <1>5, <1>6, <1>7, <1>8, <1>9, <1>10, WireIf

----------------------------------------------------------------------------
\* The client takes the connection for lost.
LEMMA LostExchange ==
  ASSUME TypesOK, Exchange, client.step = "wait", UNCHANGED <<inbox, job, did, writing, program, results>>,
         \A b \in Agents: outbox'[b] = outbox[b] \/ (b = Mine /\ outbox[b] # <<>>),
         ClientIs("lost", client.agent, client.part, client.attempt, client.id, client.got, client.open)
  PROVE  Exchange'
<1>0. ClientOK /\ Wire /\ Settled /\ Mine \in Agents
  BY DEF TypesOK, Exchange, ClientOK, Mine
<1>1. client'.id = client.id /\ client'.step = "lost" /\ client'.agent = Mine /\ client'.part = client.part
  BY DEF ClientIs, Mine
<1>2. Wire'
  BY <1>0, <1>1, ClientWire
<1>3. Frames'
  BY <1>1, FramesBecome
<1>4. Settled'
  BY <1>0, <1>1, SettledStays, RequestsKept
<1> QED BY <1>2, <1>3, <1>4 DEF Exchange

LEMMA NoAnswerExchange ==
  ASSUME TypesOK, Exchange, NoAnswer
  PROVE  Exchange'
BY NoAnswerDoes, LostExchange DEF TypesOK, pipeVars, filesVars

LEMMA ReceiveContentsExchange ==
  ASSUME TypesOK, Exchange, Contents, ReceiveContents
  PROVE  Exchange'
<1>0. ClientOK /\ Wire /\ Settled
  BY DEF TypesOK, Exchange
<1> DEFINE frame == Head(outbox[Mine])
           joined == Joined(client.got, client.open, frame.pieces)
<1>1. /\ client.step = "wait" /\ Op.kind = "read" /\ outbox[Mine] # <<>> /\ Received
      /\ \/ frame.kind = "refused" /\ Finish("refused", <<>>)
         \/ /\ frame.kind = "contents" /\ ~frame.last /\ joined.ok
            /\ ClientIs("wait", client.agent, client.part, client.attempt, client.id, joined.got, joined.open)
            /\ UNCHANGED <<program, results>>
         \/ frame.kind = "contents" /\ frame.last /\ frame.bad /\ Finish("refused", <<>>)
         \/ /\ frame.kind = "contents" /\ frame.last /\ ~frame.bad /\ joined.ok /\ joined.open = {}
            /\ Finish("read", joined.got)
         \/ LoseIt
  BY <1>0, ReceiveContentsDoes
<1> HIDE DEF frame
<1>2. /\ Mine \in Agents /\ UNCHANGED <<inbox, job, did, writing>>
      /\ outbox'[Mine] = Tail(outbox[Mine]) /\ \A b \in Agents \ {Mine}: outbox'[b] = outbox[b]
      /\ PartOf(frame, Op.kind) => InOrder(outbox'[Mine], Pending(Mine), did[client.id], Op.kind)
  BY <1>1, FirstFrame DEF frame
<1>3. CASE frame.kind = "refused" /\ Finish("refused", <<>>)
  <2>1. ~PartOf(frame, Op.kind)
    BY <1>3 DEF PartOf
  <2>2. Tells(frame, did[client.id], Op.kind) => "refused" = did[client.id].is /\ <<>> = did[client.id].got
    BY <1>3 DEF Tells
  <2> QED BY <1>1, <1>3, <2>1, <2>2, FinishExchange DEF frame
<1>4. CASE frame.kind = "contents" /\ frame.last /\ frame.bad /\ Finish("refused", <<>>)
  <2>1. ~PartOf(frame, Op.kind)
    BY <1>4 DEF PartOf
  <2>2. Tells(frame, did[client.id], Op.kind) => "refused" = did[client.id].is /\ <<>> = did[client.id].got
    BY <1>4 DEF Tells
  <2> QED BY <1>1, <1>4, <2>1, <2>2, FinishExchange DEF frame
<1>5. CASE frame.kind = "contents" /\ frame.last /\ ~frame.bad /\ Finish("read", joined.got)
  <2>1. ~PartOf(frame, Op.kind)
    BY <1>5 DEF PartOf
  <2>2. Tells(frame, did[client.id], Op.kind) => "read" = did[client.id].is
    BY <1>5 DEF Tells
  <2>3. PICK got: got = joined.got /\ Finish("read", got)
    BY <1>5
  <2>4. /\ ~Pending(Mine) /\ outbox'[Mine] = <<>> /\ IsSeq(outbox[Mine])
        /\ outbox'[Mine] = Tail(outbox[Mine])
    BY <1>1, <2>1, FirstFrame DEF frame
  <2>5. PICK frames, h, todo, came: /\ frames = outbox[Mine] /\ h = Held(client.got, client.open)
                                   /\ todo = Todo(Mine) /\ came = did[client.id]
    OBVIOUS
  <2>6. Adds(frames, h, FALSE, todo, came)
    <3>1. Pending(Mine) = FALSE
      BY <2>4 DEF Pending
    <3>2. Adds(outbox[Mine], Held(client.got, client.open), Pending(Mine), Todo(Mine), did[client.id])
      BY <1>1, ContentsAre
    <3>3. Adds(outbox[Mine], Held(client.got, client.open), FALSE, Todo(Mine), did[client.id])
      BY <3>1, <3>2
    <3> QED BY <2>5, <3>3
  <2>7. frames # <<>> /\ IsSeq(frames) /\ Tail(frames) = <<>> /\ frame = Head(frames)
    BY <1>1, <2>4, <2>5 DEF frame
  <2>8. came.got = Joined(h.got, h.open, frame.pieces).got
    BY <1>5, <2>6, <2>7, OneFrame
  <2>9. h.got = client.got /\ h.open = client.open
    BY <2>5 DEF Held
  <2>10. got = did[client.id].got
    BY <2>3, <2>5, <2>8, <2>9
  <2> QED BY <1>1, <2>1, <2>2, <2>3, <2>10, FinishExchange DEF frame
<1>6. CASE LoseIt
  BY <1>0, <1>1, <1>2, <1>6, LoseItDoes, LostExchange
<1>7. CASE /\ frame.kind = "contents" /\ ~frame.last
           /\ ClientIs("wait", client.agent, client.part, client.attempt, client.id, joined.got, joined.open)
           /\ UNCHANGED <<program, results>>
  <2>1. client'.id = client.id /\ client'.step = "wait" /\ client'.agent = Mine /\ client'.part = client.part
    BY <1>7 DEF ClientIs, Mine
  <2>2. Wire'
    BY <1>0, <1>1, <1>2, <1>7, <2>1, ClientWire
  <2>3. Settled'
    BY <1>0, <1>2, <1>7, <2>1, SettledStays, RequestsKept
  <2>4. Frames'
    <3>1. PartOf(frame, Op.kind)
      BY <1>1, <1>7 DEF PartOf
    <3>2. InOrder(outbox'[Mine], Pending(Mine), did[client.id], Op.kind)
      BY <1>2, <3>1
    <3>3. Pending(client.agent)' <=> Pending(Mine)
      BY <1>2, <2>1 DEF Pending, Busy, Mine
    <3>4. Head(program').kind = Op.kind
      BY <1>7 DEF Op
    <3>5. outbox'[client'.agent] = outbox'[Mine] /\ did'[client'.id] = did[client.id]
      BY <1>2, <2>1
    <3>6. InOrder(outbox'[client'.agent], Pending(client.agent)', did'[client'.id], Head(program').kind)
      BY <3>2, <3>3, <3>4, <3>5 DEF InOrder
    <3> QED BY <3>6, FramesBecome
  <2> QED BY <2>2, <2>3, <2>4 DEF Exchange
<1> QED BY <1>1, <1>3, <1>4, <1>5, <1>6, <1>7

LEMMA ReceiveChangedExchange ==
  ASSUME TypesOK, Exchange, ReceiveChanged
  PROVE  Exchange'
<1>0. ClientOK /\ Wire /\ Settled
  BY DEF TypesOK, Exchange
<1> DEFINE frame == Head(outbox[Mine])
<1>1. /\ client.step = "wait" /\ Op.kind # "read" /\ outbox[Mine] # <<>> /\ Received
      /\ \/ frame.kind = "refused" /\ Finish("refused", <<>>)
         \/ frame.kind = "changed" /\ frame.failure # "none" /\ Finish(frame.failure, <<>>)
         \/ /\ frame.kind = "changed" /\ frame.failure = "none"
            /\ Op.kind = "write" /\ client.part < Op.parts
            /\ ClientIs("next", client.agent, client.part + 1, client.attempt, client.id, client.got, client.open)
            /\ UNCHANGED <<program, results>>
         \/ /\ frame.kind = "changed" /\ frame.failure = "none"
            /\ Op.kind = "write" => ~(client.part < Op.parts)
            /\ Finish("done", <<>>)
         \/ frame.kind \notin {"refused", "changed"} /\ LoseIt
  BY <1>0, ReceiveChangedDoes
<1> HIDE DEF frame
<1>2. ~PartOf(frame, Op.kind)
  BY <1>1 DEF PartOf
<1>3. /\ Mine \in Agents /\ UNCHANGED <<inbox, job, did, writing>>
      /\ ~Pending(Mine) /\ outbox'[Mine] = <<>> /\ \A b \in Agents \ {Mine}: outbox'[b] = outbox[b]
  BY <1>1, <1>2, FirstFrame DEF frame
<1>4. CASE frame.kind = "refused" /\ Finish("refused", <<>>)
  <2>1. Tells(frame, did[client.id], Op.kind) => "refused" = did[client.id].is /\ <<>> = did[client.id].got
    BY <1>4 DEF Tells
  <2> QED BY <1>1, <1>2, <1>4, <2>1, FinishExchange DEF frame
<1>5. CASE frame.kind = "changed" /\ frame.failure # "none" /\ Finish(frame.failure, <<>>)
  <2>1. Tells(frame, did[client.id], Op.kind) => frame.failure = did[client.id].is /\ <<>> = did[client.id].got
    BY <1>5 DEF Tells
  <2> QED BY <1>1, <1>2, <1>5, <2>1, FinishExchange DEF frame
<1>6. CASE frame.kind = "changed" /\ frame.failure = "none" /\ Finish("done", <<>>)
  <2>1. Tells(frame, did[client.id], Op.kind) => "done" = did[client.id].is /\ <<>> = did[client.id].got
    BY <1>6 DEF Tells
  <2> QED BY <1>1, <1>2, <1>6, <2>1, FinishExchange DEF frame
<1>7. CASE LoseIt
  BY <1>0, <1>1, <1>3, <1>7, LoseItDoes, LostExchange
<1>8. CASE /\ ClientIs("next", client.agent, client.part + 1, client.attempt, client.id, client.got, client.open)
           /\ UNCHANGED <<program, results>>
  <2>1. client'.id = client.id /\ client'.step = "next" /\ client'.agent = Mine
    BY <1>8 DEF ClientIs, Mine
  <2>2. Wire'
    BY <1>0, <1>1, <1>3, <1>8, <2>1, ClientWire
  <2>3. Settled'
    BY <1>0, <1>3, <1>8, <2>1, SettledStays, RequestsKept
  <2>4. Frames'
    BY <2>1, FramesBecome
  <2> QED BY <2>2, <2>3, <2>4 DEF Exchange
<1> QED BY <1>1, <1>4, <1>5, <1>6, <1>7, <1>8

----------------------------------------------------------------------------
LEMMA SendRequestExchange ==
  ASSUME TypesOK, Exchange, SendRequest
  PROVE  Exchange'
<1>0. ClientOK /\ Wire /\ Settled /\ PipesOK /\ Mine \in Agents /\ client.id \in Nat
  <2>1. ClientOK /\ PipesOK
    BY DEF TypesOK
  <2>2. Wire /\ Settled
    BY DEF Exchange
  <2>3. Mine \in Agents /\ client.id \in Nat
    BY <2>1, SeqFacts DEF ClientOK, Mine
  <2> QED BY <2>1, <2>2, <2>3
<1>1. /\ client.step = "next" /\ program # <<>> /\ UNCHANGED <<filesVars, job, budget>>
      /\ \/ /\ Op.kind = "huge" /\ program' = Tail(program) /\ UNCHANGED <<client, did, pipeVars>>
            /\ \E r: r.id = 0 /\ results' = Append(results, r)
         \/ /\ Op.kind # "huge" /\ inbox' = [inbox EXCEPT ![Mine] = Append(@, Request)]
            /\ did' = Append(did, NothingYet)
            /\ ClientIs("wait", client.agent, client.part, client.attempt, client.id + 1, <<>>, {})
            /\ UNCHANGED <<program, results, outbox, ended>>
  BY <1>0, SendRequestDoes
<1>2. ~Pending(Mine) /\ outbox[Mine] = <<>> /\ inbox[Mine] = <<>> /\ ~Busy(Mine)
  BY <1>0, <1>1 DEF Wire, Pending
<1>3. CASE /\ Op.kind = "huge" /\ program' = Tail(program) /\ UNCHANGED <<client, did, pipeVars>>
           /\ \E r: r.id = 0 /\ results' = Append(results, r)
  <2>0. UNCHANGED <<inbox, job, outbox, writing, client, did>>
    BY <1>1, <1>3 DEF pipeVars, filesVars
  <2>1. \A a \in Agents: /\ Busy(a)' <=> Busy(a)
                         /\ Pending(a)' <=> Pending(a)
                         /\ (Asked(a))' = Asked(a)
    BY <2>0, RequestsKept
  <2>2. Wire'
    <3>1. \A a \in Agents: inbox'[a] # <<>> => Len(inbox'[a]) = 1 /\ ~Busy(a)'
      BY <1>0, <2>0, <2>1 DEF Wire
    <3>2. \A a \in Agents: Pending(a)' => a <= Mine /\ (Asked(a)').id <= client.id
      BY <1>0, <2>1 DEF Wire
    <3>3. \A a, b \in Agents: (Pending(a)' /\ Pending(b)' /\ a < b) => (Asked(a)').id < (Asked(b)').id
      BY <1>0, <2>1 DEF Wire
    <3>4. \A a \in Agents: a > Mine => outbox'[a] = <<>> /\ writing'[a] = NoFiles
      BY <1>0, <2>0 DEF Wire
    <3>5. inbox'[Mine] = <<>> /\ job'[Mine] = Idle /\ outbox'[Mine] = <<>>
      BY <1>2, <2>0 DEF Busy
    <3>6. client'.id = client.id /\ client'.step = "next" /\ client'.agent = Mine
      BY <1>1, <2>0 DEF Mine
    <3> QED BY <1>0, <3>1, <3>2, <3>3, <3>4, <3>5, <3>6, WireIf
  <2>3. Settled'
    <3>1. PICK r: r.id = 0 /\ results' = Append(results, r)
      BY <1>3
    <3>2. r.id \in 0 .. client.id
      BY <1>0, <3>1
    <3> QED BY <1>0, <2>0, <2>1, <3>1, <3>2, ResultsGrow
  <2>4. Frames'
    BY <1>1, <2>0, FramesBecome
  <2> QED BY <2>2, <2>3, <2>4 DEF Exchange
<1>4. CASE /\ Op.kind # "huge" /\ inbox' = [inbox EXCEPT ![Mine] = Append(@, Request)]
           /\ did' = Append(did, NothingYet)
           /\ ClientIs("wait", client.agent, client.part, client.attempt, client.id + 1, <<>>, {})
           /\ UNCHANGED <<program, results, outbox, ended>>
  <2>0. PICK m \in Agents: m = Mine
    BY <1>0
  <2>1. client'.id = client.id + 1 /\ client'.step = "wait" /\ client'.agent = m /\ client'.part = client.part
    BY <1>4, <2>0 DEF ClientIs, Mine
  <2>2. Request.id = client.id + 1 /\ IsFor(Request)
    BY <1>0, <1>1, <1>4, RequestIsRequest DEF IsFor
  <2>3. inbox'[m] # <<>> /\ Len(inbox'[m]) = 1 /\ Head(inbox'[m]) = Request
        /\ \A b \in Agents \ {m}: inbox'[b] = inbox[b]
    <3>1. PICK r, frames: r = Request /\ frames = Append(<<>>, r) /\ inbox' = [inbox EXCEPT ![m] = frames]
      BY <1>2, <1>4, <2>0
    <3>2. Len(frames) = 1 /\ Head(frames) = r /\ frames # <<>>
      BY <3>1
    <3> QED BY <1>0, <3>1, <3>2 DEF PipesOK
  <2>4. /\ Pending(m)' /\ ~Busy(m)'
        /\ (Asked(m))' = Request
    BY <1>1, <1>2, <2>0, <2>3 DEF Pending, Asked, Busy
  <2>5. \A b \in Agents \ {m}: /\ Busy(b)' <=> Busy(b)
                               /\ Pending(b)' <=> Pending(b)
                               /\ (Asked(b))' = Asked(b)
    BY <1>1, <2>3 DEF Pending, Asked, Busy
  <2>6. \A b \in Agents: Pending(b) => b # m /\ b <= m /\ Asked(b).id <= client.id
    BY <1>0, <1>2, <2>0 DEF Wire
  <2>7. \A b \in Agents: Pending(b) => Asked(b).id \in Nat
    <3> SUFFICES ASSUME NEW b \in Agents, Pending(b) PROVE Asked(b).id \in Nat
      OBVIOUS
    <3>1. CASE inbox[b] # <<>>
      BY <1>0, <3>1, TailFacts DEF PipesOK, Asked, IsRequest
    <3>2. CASE inbox[b] = <<>>
      BY <3>2 DEF TypesOK, JobsOK, IsJob, IsRequest, Asked, Pending
    <3> QED BY <3>1, <3>2
  <2>8. Wire'
    <3>1. \A a \in Agents: inbox'[a] # <<>> => Len(inbox'[a]) = 1 /\ ~Busy(a)'
      BY <1>0, <2>3, <2>4, <2>5 DEF Wire
    <3>2. \A a \in Agents: (Pending(a)' /\ a # m) => a <= m /\ (Asked(a)').id < client.id + 1
      BY <1>0, <2>5, <2>6, <2>7
    <3>3. m <= m
      BY AgentsAreNumbered
    <3>4. \A a \in Agents: Pending(a)' => a <= m /\ (Asked(a)').id <= client.id + 1
      BY <1>0, <2>2, <2>4, <2>5, <2>6, <2>7, <3>3
    <3>5. ASSUME NEW a \in Agents, NEW b \in Agents, Pending(a)', Pending(b)', a < b
          PROVE  (Asked(a)').id < (Asked(b)').id
      <4>1. CASE b = m
        <5>1. a # m
          BY <2>0, <3>5, <4>1, AgentsAreNumbered
        <5> QED BY <2>2, <2>4, <3>2, <3>5, <4>1, <5>1
      <4>2. CASE b # m /\ a = m
        <5>1. b <= m /\ a \in Nat /\ b \in Nat
          BY <3>2, <3>5, <4>2, AgentsAreNumbered
        <5> QED BY <3>5, <4>2, <5>1
      <4>3. CASE b # m /\ a # m
        BY <1>0, <2>5, <3>5, <4>3 DEF Wire
      <4> QED BY <4>1, <4>2, <4>3
    <3>6. \A a \in Agents: a > m => outbox'[a] = <<>> /\ writing'[a] = NoFiles
      BY <1>0, <1>1, <1>4, <2>0 DEF Wire, filesVars
    <3>7. (Asked(m)').id = client.id + 1 /\ IsFor(Asked(m))'
      <4>1. (Asked(m)').id = client.id + 1
        BY <2>2, <2>4
      <4>2. IsFor(Asked(m))'
        BY <1>4, <2>1, <2>2, <2>4 DEF IsFor, Op
      <4> QED BY <4>1, <4>2
    <3>8. outbox'[m] = <<>>
      BY <1>2, <1>4, <2>0
    <3> QED BY <2>1, <3>1, <3>2, <3>4, <3>5, <3>6, <3>7, <3>8, WireIf
  <2>9. Settled'
    <3>1. IsSeq(did) /\ client.id = Len(did) /\ DOMAIN did = 1 .. client.id
      BY <1>0, SeqFacts DEF ClientOK
    <3>2. \A i \in DOMAIN did: did'[i] = did[i]
      BY <1>4, <3>1, AppendFacts
    <3> SUFFICES ASSUME NEW i \in DOMAIN results
                 PROVE  /\ results[i].id \in 0 .. client.id + 1
                        /\ (results[i].id # 0 /\ results[i].is # "lost") =>
                             /\ \A a \in Agents: Pending(a)' => (Asked(a)').id # results[i].id
                             /\ Agrees(results[i], did'[results[i].id])
      BY <1>4, <2>1, SettledBecomes
    <3>3. /\ results[i].id \in 0 .. client.id
          /\ (results[i].id # 0 /\ results[i].is # "lost") =>
                  /\ \A a \in Agents: Pending(a) => Asked(a).id # results[i].id
                  /\ Agrees(results[i], did[results[i].id])
      BY <1>0 DEF Settled
    <3>4. results[i].id \in 0 .. client.id + 1 /\ results[i].id # client.id + 1
      BY <1>0, <3>3
    <3>5. results[i].id # 0 => results[i].id \in DOMAIN did
      BY <1>0, <3>1, <3>3
    <3>6. ASSUME results[i].id # 0, results[i].is # "lost"
          PROVE  \A a \in Agents: Pending(a)' => (Asked(a)').id # results[i].id
      BY <2>2, <2>4, <2>5, <3>3, <3>4, <3>6
    <3>7. ASSUME results[i].id # 0, results[i].is # "lost"
          PROVE  Agrees(results[i], did'[results[i].id])
      BY <3>2, <3>3, <3>5, <3>7
    <3> QED BY <3>4, <3>6, <3>7
  <2>10. Frames'
    <3>1. IsSeq(<<>>) /\ outbox'[client'.agent] = <<>> /\ DOMAIN <<>> = {}
      BY <1>2, <1>4, <2>0, <2>1, EmptyIsSeq
    <3> QED BY <3>1, FramesBecome DEF InOrder
  <2> QED BY <2>8, <2>9, <2>10 DEF Exchange
<1> QED BY <1>1, <1>3, <1>4

LEMMA GiveUpExchange ==
  ASSUME TypesOK, Exchange, GiveUp
  PROVE  Exchange'
<1>0. ClientOK /\ Wire /\ Settled /\ PipesOK
  BY DEF TypesOK, Exchange
<1>1. /\ client.step = "lost" /\ program' = <<>> /\ results' = Append(results, Result("lost", <<>>))
      /\ ClientIs("next", client.agent, client.part, client.attempt, client.id, client.got, client.open)
      /\ UNCHANGED <<filesVars, job, did, budget, inbox, outbox>>
  BY <1>0, GiveUpDoes
<1>2. PICK m \in Agents: m = Mine
  BY <1>0 DEF ClientOK, Mine
<1>3. client'.id = client.id /\ client'.step = "next" /\ client'.agent = m
  BY <1>1, <1>2 DEF ClientIs, Mine
<1>4. \A a \in Agents: /\ Busy(a)' <=> Busy(a)
                       /\ Pending(a)' <=> Pending(a)
                       /\ (Asked(a))' = Asked(a)
  BY <1>1, RequestsKept
<1>5. PICK e: e = Result("lost", <<>>) /\ results' = Append(results, e)
  BY <1>1
<1>6. e.id = client.id /\ e.is = "lost" /\ client.id \in 0 .. client.id
  BY <1>0, <1>5, SeqFacts DEF Result, ClientOK
<1>7. results' # <<>> /\ Last(results') = e
  BY <1>0, <1>5, AppendFacts DEF ClientOK
<1>8. Settled'
  BY <1>0, <1>1, <1>3, <1>4, <1>5, <1>6, ResultsGrow
<1>9. Wire'
  <3>1. \A a \in Agents: inbox'[a] # <<>> => Len(inbox'[a]) = 1 /\ ~Busy(a)'
    BY <1>0, <1>1, <1>4 DEF Wire
  <3>2. \A a \in Agents: Pending(a)' => a <= m /\ (Asked(a)').id <= client.id
    BY <1>0, <1>2, <1>4 DEF Wire
  <3>3. \A a, b \in Agents: (Pending(a)' /\ Pending(b)' /\ a < b) => (Asked(a)').id < (Asked(b)').id
    BY <1>0, <1>4 DEF Wire
  <3>4. \A a \in Agents: a > m => outbox'[a] = <<>> /\ writing'[a] = NoFiles
    BY <1>0, <1>1, <1>2 DEF Wire, filesVars
  <3> QED BY <1>1, <1>3, <1>6, <1>7, <3>1, <3>2, <3>3, <3>4, WireIf
<1>10. Frames'
  BY <1>3, FramesBecome
<1> QED BY <1>8, <1>9, <1>10 DEF Exchange

LEMMA ReconnectExchange ==
  ASSUME TypesOK, Exchange, Reconnect
  PROVE  Exchange'
<1>0. ClientOK /\ Wire /\ Settled /\ PipesOK /\ Mine \in Agents
  BY DEF TypesOK, Exchange, ClientOK, Mine
<1>1. /\ client.step = "lost" /\ Mine + 1 \in Agents
      /\ ClientIs("next", client.agent + 1, client.part, 2, client.id, client.got, client.open)
      /\ outbox' = [outbox EXCEPT ![Mine] = <<>>]
      /\ \E frames \in {inbox[Mine], <<>>}: inbox' = [inbox EXCEPT ![Mine] = frames]
      /\ \/ IsChange(Op) /\ results' = Append(results, Result("lost", <<>>)) /\ program' = <<Look1(Op)>>
         \/ ~IsChange(Op) /\ UNCHANGED <<results, program>>
      /\ UNCHANGED <<filesVars, job, did, budget>>
  BY <1>0, ReconnectDoes
<1>2. PICK m \in Agents: m = Mine + 1
  BY <1>1
<1>3. client'.id = client.id /\ client'.step = "next" /\ client'.agent = m /\ Mine \in Nat /\ m \in Nat
  BY <1>0, <1>1, <1>2, AgentsAreNumbered DEF ClientIs, Mine
<1>4. \A a \in Agents: inbox'[a] \in {inbox[a], <<>>}
  BY <1>0, <1>1 DEF PipesOK
<1>5. \A a \in Agents: /\ Busy(a)' <=> Busy(a)
                       /\ Pending(a)' => Pending(a)
                       /\ Pending(a)' => (Asked(a))' = Asked(a)
  <2> TAKE a \in Agents
  <2>1. job'[a] = job[a] /\ inbox'[a] \in {inbox[a], <<>>}
    BY <1>1, <1>4
  <2>2. Busy(a) => inbox[a] = <<>>
    BY <1>0 DEF Wire
  <2> QED BY <2>1, <2>2 DEF Busy, Pending, Asked
<1>6. Wire'
  <3>1. \A a \in Agents: inbox'[a] # <<>> => Len(inbox'[a]) = 1 /\ ~Busy(a)'
    BY <1>0, <1>4, <1>5 DEF Wire
  <3>2. \A a \in Agents: Pending(a)' => a <= m /\ (Asked(a)').id <= client.id /\ a # m
    <4> TAKE a \in Agents
    <4> HAVE Pending(a)'
    <4>1. a <= Mine /\ Asked(a).id <= client.id
      BY <1>0, <1>5 DEF Wire
    <4>2. a \in Nat
      BY AgentsAreNumbered
    <4> QED BY <1>2, <1>3, <1>5, <4>1, <4>2
  <3>3. \A a, b \in Agents: (Pending(a)' /\ Pending(b)' /\ a < b) => (Asked(a)').id < (Asked(b)').id
    BY <1>0, <1>5 DEF Wire
  <3>4. \A a \in Agents: a > Mine => outbox'[a] = <<>> /\ writing'[a] = NoFiles
    <4> TAKE a \in Agents
    <4> HAVE a > Mine
    <4>1. outbox[a] = <<>> /\ writing[a] = NoFiles
      BY <1>0 DEF Wire
    <4> QED BY <1>0, <1>1, <4>1 DEF PipesOK, filesVars
  <3>5. \A a \in Agents: a > m => a > Mine
    BY <1>2, <1>3, AgentsAreNumbered
  <3>6. m > Mine
    BY <1>2, <1>3
  <3>7. inbox'[m] = <<>> /\ job'[m] = Idle
    BY <3>2 DEF Pending, Busy
  <3> QED BY <1>3, <3>1, <3>2, <3>3, <3>4, <3>5, <3>6, <3>7, WireIf
<1>7. Frames'
  BY <1>3, FramesBecome
<1>8. CASE UNCHANGED results
  BY <1>0, <1>1, <1>3, <1>5, <1>6, <1>7, <1>8, SettledStays DEF Exchange
<1>9. CASE results' = Append(results, Result("lost", <<>>))
  <2>1. PICK e: e = Result("lost", <<>>) /\ results' = Append(results, e)
    BY <1>9
  <2>2. e.id = client.id /\ e.is = "lost" /\ client.id \in 0 .. client.id
    BY <1>0, <2>1, SeqFacts DEF Result, ClientOK
  <2>3. Settled'
    BY <1>0, <1>1, <1>3, <1>5, <2>1, <2>2, ResultsGrow
  <2> QED BY <1>6, <1>7, <2>3 DEF Exchange
<1> QED BY <1>1, <1>8, <1>9

LEMMA InitExchange == Init => Exchange
<1> SUFFICES ASSUME Init PROVE Exchange
  OBVIOUS
<1>1. /\ client.step = "next" /\ client.agent = 1 /\ results = <<>> /\ DOMAIN <<>> = {}
      /\ inbox = [a \in Agents |-> <<>>] /\ outbox = [a \in Agents |-> <<>>]
      /\ job = [a \in Agents |-> Idle] /\ writing = [a \in Agents |-> NoFiles]
  BY EmptyIsSeq DEF Init, Resting
<1>2. \A a \in Agents: ~Pending(a)
  BY <1>1 DEF Pending, Busy
<1> QED BY <1>1, <1>2, AgentsAreNumbered DEF Exchange, Wire, Frames, Settled, Mine

LEMMA NextExchange ==
  ASSUME TypesOK, Exchange, Contents, [Next]_vars
  PROVE  Exchange'
<1>1. CASE ClientStep
  BY <1>1, SendRequestExchange, ReceiveContentsExchange, ReceiveChangedExchange, ReconnectExchange,
     GiveUpExchange, CloseExchange DEF ClientStep
<1>2. CASE NoAnswer
  BY <1>2, NoAnswerExchange
<1>3. CASE \E a \in Agents : Work(a) \/ EndAgent(a)
  BY <1>3, TakeExchange, AnswerChangeExchange, ReadOneExchange, SayContentsExchange, EndAgentExchange,
     FilesStepExchange DEF Work
<1>4. CASE OthersMove /\ UNCHANGED <<clientVars, pipeVars>>
  BY <1>4, OthersExchange
<1>5. CASE Done \/ UNCHANGED vars
  BY <1>5, StutterExchange DEF Done
<1> QED BY <1>1, <1>2, <1>3, <1>4, <1>5 DEF Next

----------------------------------------------------------------------------
\* A step that leaves what is on its way to the client as it is.
LEMMA ContentsKept ==
  ASSUME Contents, NEW m \in Agents, m = Mine, UNCHANGED clientVars,
         outbox'[m] = outbox[m], inbox'[m] = inbox[m],
         job'[m] = job[m] \/ (Busy(m) /\ Busy(m)' /\ job'[m].todo = job[m].todo),
         client.step = "wait" => did'[client.id] = did[client.id]
  PROVE  Contents'
<1>1. client' = client /\ program' = program /\ client.agent = m
  BY DEF clientVars, Mine
<1>2. Busy(m)' <=> Busy(m)
  BY DEF Busy
<1>3. (Todo(m))' = Todo(m)
  BY <1>2 DEF Todo
<1>4. Pending(m)' = Pending(m)
  BY <1>2 DEF Pending
<1>5. Pending(client.agent)' = Pending(m) /\ (Todo(client.agent))' = Todo(m)
  BY <1>1, <1>3, <1>4 DEF Pending, Todo, Busy
<1> SUFFICES ASSUME client.step = "wait", Op.kind = "read"
             PROVE  Adds(outbox'[m], Held(client.got, client.open), Pending(client.agent)',
                         Todo(client.agent)', did'[client.id])
  BY <1>1, ContentsBecome DEF Op
<1>6. Adds(outbox[m], Held(client.got, client.open), Pending(m), Todo(m), did[client.id])
  BY ContentsAre
<1> QED BY <1>5, <1>6

\* A step of another agent than the client's.
LEMMA ContentsOfAnother ==
  ASSUME TypesOK, Wire, Contents, NEW a \in Agents, a # Mine, UNCHANGED clientVars, Pending(a),
         \A b \in Agents \ {a}: /\ job'[b] = job[b] /\ inbox'[b] = inbox[b] /\ outbox'[b] = outbox[b],
         UNCHANGED did \/ \E came: did' = [did EXCEPT ![Asked(a).id] = came]
  PROVE  Contents'
<1>1. Mine \in Agents
  BY DEF TypesOK, ClientOK, Mine
<1>2. ASSUME client.step = "wait" PROVE did'[client.id] = did[client.id]
  <2>1. Asked(a).id < client.id
    BY <1>2 DEF Wire
  <2>2. client.id \in Nat
    BY SeqFacts DEF TypesOK, ClientOK
  <2>3. Asked(a).id # client.id
    BY <2>1, <2>2
  <2>4. ASSUME NEW came, did' = [did EXCEPT ![Asked(a).id] = came]
        PROVE  did'[client.id] = did[client.id]
    <3>1. PICK i: i = Asked(a).id /\ did' = [did EXCEPT ![i] = came]
      BY <2>4
    <3>2. IsSeq(did) /\ client.id \in DOMAIN did
      BY <1>2, SeqFacts DEF TypesOK, ClientOK
    <3> QED BY <2>3, <3>1, <3>2
  <2> QED BY <2>4
<1> QED BY <1>1, <1>2, ContentsKept

\* What the client's agent says next, of a read.
LEMMA ContentsSaid ==
  ASSUME TypesOK, Wire, Contents, UNCHANGED clientVars, NEW m \in Agents, m = Mine, Pending(m),
         NEW frame, outbox' = [outbox EXCEPT ![m] = Append(@, frame)],
         NEW g, NEW pending \in BOOLEAN, Pending(m)' = pending,
         frame.kind = "contents" => g = After(After(Nothing, Todo(m)), frame.pieces),
         (client.step = "wait" /\ Op.kind = "read") => EndsIn(g, frame, pending, Todo(m)', did'[client.id])
  PROVE  Contents'
<1>1. client' = client /\ program' = program /\ client.agent = m
  BY DEF clientVars, Mine
<1>2. Pending(client.agent)' = pending /\ (Todo(client.agent))' = (Todo(m))'
  BY <1>1 DEF Pending, Todo, Busy
<1> SUFFICES ASSUME client.step = "wait", Op.kind = "read"
             PROVE  Adds(outbox'[m], Held(client.got, client.open), Pending(client.agent)',
                         Todo(client.agent)', did'[client.id])
  BY <1>1, ContentsBecome DEF Op
<1>3. PICK frames, h, todo, came, todo1, came1:
        /\ frames = outbox[m] /\ h = Held(client.got, client.open) /\ todo = Todo(m) /\ came = did[client.id]
        /\ todo1 = (Todo(m))' /\ came1 = did'[client.id]
  OBVIOUS
<1>4. IsSeq(frames) /\ outbox'[m] = Append(frames, frame)
  BY <1>3, OutboxGrows DEF TypesOK, PipesOK
<1>5. Adds(frames, h, TRUE, todo, came)
  <2>1. Pending(m) = TRUE
    BY DEF Pending
  <2>2. Adds(outbox[m], Held(client.got, client.open), Pending(m), Todo(m), did[client.id])
    BY ContentsAre
  <2>3. Adds(outbox[m], Held(client.got, client.open), TRUE, Todo(m), did[client.id])
    BY <2>1, <2>2
  <2> QED BY <1>3, <2>3
<1>6. EndsIn(g, frame, pending, todo1, came1)
  BY <1>3
<1>7. frame.kind = "contents" => g = After(After(Nothing, todo), frame.pieces)
  BY <1>3
<1>8. Adds(Append(frames, frame), h, pending, todo1, came1)
  BY <1>4, <1>5, <1>6, <1>7, AddsAppend
<1> QED BY <1>2, <1>3, <1>4, <1>8

LEMMA TakeContents ==
  ASSUME TypesOK, Exchange, Contents, NEW a \in Agents, Take(a)
  PROVE  Contents'
<1>0. FilesOK /\ JobsOK /\ Wire /\ PipesOK /\ ClientOK /\ Mine \in Agents
  BY DEF TypesOK, Exchange, ClientOK, Mine
<1>1. /\ inbox[a] # <<>> /\ ~Busy(a) /\ inbox' = [inbox EXCEPT ![a] = Tail(@)] /\ UNCHANGED clientVars
      /\ \/ JobIs(a, Taken(a, Head(inbox[a]))) /\ UNCHANGED <<did, outbox>>
         \/ /\ did' = [did EXCEPT ![Head(inbox[a]).id] = Came("refused", <<>>, {}, <<>>, FALSE, 0)]
            /\ outbox' = [outbox EXCEPT ![a] = Append(@, [kind |-> "refused", id |-> Head(inbox[a]).id])]
            /\ UNCHANGED job
  BY <1>0, TakeDoes
<1>2. Asked(a) = Head(inbox[a]) /\ Pending(a)
  BY <1>1 DEF Asked, Pending
<1>3. inbox'[a] = <<>> /\ \A b \in Agents \ {a}: inbox'[b] = inbox[b]
  <2>1. PICK frames: frames = Tail(inbox[a]) /\ inbox' = [inbox EXCEPT ![a] = frames]
    BY <1>1
  <2>2. IsSeq(frames) /\ Len(frames) = 0
    BY <1>0, <1>1, <2>1, TailFacts DEF PipesOK, Wire
  <2>3. frames = <<>>
    BY <2>2, SeqFacts
  <2> QED BY <1>0, <2>1, <2>3 DEF PipesOK
<1>4. CASE a # Mine
  <2>1. \A b \in Agents \ {a}: job'[b] = job[b] /\ inbox'[b] = inbox[b] /\ outbox'[b] = outbox[b]
    BY <1>0, <1>1, <1>3 DEF JobIs, PipesOK
  <2>2. UNCHANGED did \/ \E came: did' = [did EXCEPT ![Asked(a).id] = came]
    BY <1>1, <1>2
  <2> QED BY <1>0, <1>1, <1>2, <1>4, <2>1, <2>2, ContentsOfAnother
<1>5. CASE a = Mine /\ JobIs(a, Taken(a, Head(inbox[a]))) /\ UNCHANGED <<did, outbox>>
  <2>0. client' = client /\ program' = program /\ client.agent = a
    BY <1>1, <1>5 DEF clientVars, Mine
  <2>1. Busy(a)' /\ job'[a].todo = <<>>
    BY <1>5 DEF JobIs, Taken, Busy, Idle
  <2>2. (Todo(a))' = <<>> /\ Todo(a) = <<>> /\ Pending(a)' = TRUE /\ Pending(a) = TRUE
    BY <1>1, <2>1 DEF Todo, Pending
  <2>3. Pending(client.agent)' = TRUE /\ (Todo(client.agent))' = <<>>
    BY <2>0, <2>2 DEF Pending, Todo, Busy
  <2> SUFFICES ASSUME client.step = "wait", Op.kind = "read"
               PROVE  Adds(outbox'[a], Held(client.got, client.open), Pending(client.agent)',
                           Todo(client.agent)', did'[client.id])
    BY <2>0, ContentsBecome DEF Op
  <2>4. Adds(outbox[a], Held(client.got, client.open), Pending(a), Todo(a), did[client.id])
    BY <1>5, ContentsAre
  <2> QED BY <1>5, <2>2, <2>3, <2>4
<1>6. CASE /\ a = Mine
           /\ outbox' = [outbox EXCEPT ![a] = Append(@, [kind |-> "refused", id |-> Head(inbox[a]).id])]
           /\ UNCHANGED job
  <2>1. PICK frame: /\ frame = [kind |-> "refused", id |-> Head(inbox[a]).id]
                    /\ outbox' = [outbox EXCEPT ![a] = Append(@, frame)]
    BY <1>6
  <2>2. Pending(a)' = FALSE
    BY <1>1, <1>3, <1>6 DEF Pending, Busy
  <2>3. frame.kind # "contents"
    BY <2>1
  <2>4. EndsIn(Nothing, frame, FALSE, (Todo(a))', did'[client.id])
    BY <2>3 DEF EndsIn
  <2> QED BY <1>0, <1>1, <1>2, <1>6, <2>1, <2>2, <2>3, <2>4, ContentsSaid
<1> QED BY <1>1, <1>4, <1>5, <1>6

----------------------------------------------------------------------------
\* A job that reads takes no step among the files.
LEMMA NotAFilesStep ==
  ASSUME JobsOK, NEW a \in Agents, FilesStep(a)
  PROVE  job[a].request.kind # "read"
<1>1. ASSUME NEW s, At(a, s), s \notin {"idle", "read"} PROVE job[a].request.kind # "read"
  BY <1>1, AtIsBusy DEF Steps, Changes
<1>2. CASE Look(a) \/ OpenExisting(a) \/ FindParents(a) \/ MakeParent(a) \/ ParentsMade(a)
  BY <1>1, <1>2 DEF Look, OpenExisting, FindParents, MakeParent, ParentsMade
<1>3. CASE Create(a) \/ Own(a) \/ Unmake(a) \/ UnlinkMade(a) \/ Undo(a)
  BY <1>1, <1>3 DEF Create, Own, Unmake, UnlinkMade, Undo
<1>4. CASE Undone(a) \/ WritePart(a) \/ LookToRemove(a) \/ Unlink(a) \/ Chmod(a)
  BY <1>1, <1>4 DEF Undone, WritePart, LookToRemove, Unlink, Chmod
<1> QED BY <1>2, <1>3, <1>4 DEF FilesStep

\* What the client waits for is not a read.
LEMMA NoContents ==
  ASSUME Wire, UNCHANGED clientVars, NEW m \in Agents, m = Mine, Pending(m), Asked(m).kind # "read"
  PROVE  Contents'
<1>1. client' = client /\ program' = program
  BY DEF clientVars
<1>2. client.step = "wait" => Op.kind # "read"
  BY DEF Wire, IsFor
<1> QED BY <1>1, <1>2, ContentsBecome DEF Op

LEMMA FilesStepContents ==
  ASSUME TypesOK, Exchange, Contents, NEW a \in Agents, FilesStep(a), UNCHANGED <<clientVars, pipeVars>>
  PROVE  Contents'
<1>0. FilesOK /\ JobsOK /\ Wire /\ Mine \in Agents
  BY DEF TypesOK, Exchange, ClientOK, Mine
<1>1. Busy(a) /\ UNCHANGED <<did, inbox, outbox>> /\ \A b \in Agents \ {a}: job'[b] = job[b]
  BY <1>0, FilesStepMoves DEF FileMoves, JobMoves, pipeVars
<1>2. inbox[a] = <<>> /\ Pending(a) /\ Asked(a) = job[a].request
  BY <1>0, <1>1 DEF Wire, Pending, Asked
<1>3. CASE a = Mine
  BY <1>0, <1>2, <1>3, NotAFilesStep, NoContents
<1>4. CASE a # Mine
  BY <1>0, <1>1, <1>2, <1>4, ContentsOfAnother
<1> QED BY <1>3, <1>4

LEMMA ReadingIs ==
  ASSUME NEW a \in Agents, NEW paths, NEW todo, NEW made, Reading(a, paths, todo, made)
  PROVE  Busy(a)' /\ job'[a].todo = todo /\ \A b \in Agents \ {a}: job'[b] = job[b]
<1>1. PICK j: j = job'[a]
  OBVIOUS
<1>2. j.step = "read" /\ j.todo = todo /\ \A b \in Agents \ {a}: job'[b] = job[b]
  BY <1>1 DEF Reading, JobIs
<1>3. Idle.step = "idle"
  BY DEF Idle
<1>4. j # Idle
  BY <1>2, <1>3
<1> QED BY <1>1, <1>2, <1>4 DEF Busy

LEMMA ReadOneContents ==
  ASSUME TypesOK, Exchange, Contents, NEW a \in Agents, ReadOne(a)
  PROVE  Contents'
<1>0. FilesOK /\ JobsOK /\ Wire /\ Mine \in Agents
  BY DEF TypesOK, Exchange, ClientOK, Mine
<1>1. /\ At(a, "read") /\ UNCHANGED <<did, inbox, outbox, clientVars>>
      /\ Reading(a, Tail(job[a].request.paths), job[a].todo,
                 job[a].made \o Pieces(Head(job[a].request.paths)))
  BY <1>0, ReadOneDoes DEF pipeVars
<1>2. Busy(a) /\ Busy(a)' /\ job'[a].todo = job[a].todo /\ \A b \in Agents \ {a}: job'[b] = job[b]
  <2>1. PICK paths, made: Reading(a, paths, job[a].todo, made)
    BY <1>1
  <2>2. Busy(a)
    BY <1>0, <1>1, AtRead
  <2> QED BY <2>1, <2>2, ReadingIs
<1>3. \A b \in Agents: job'[b] = job[b] \/ (Busy(b) /\ Busy(b)' /\ job'[b].todo = job[b].todo)
  BY <1>2
<1> QED BY <1>0, <1>1, <1>3, ContentsKept

LEMMA AnswerChangeContents ==
  ASSUME TypesOK, Exchange, Contents, NEW a \in Agents, AnswerChange(a)
  PROVE  Contents'
<1>0. FilesOK /\ JobsOK /\ Wire /\ PipesOK /\ Mine \in Agents
  BY DEF TypesOK, Exchange, ClientOK, Mine
<1>1. /\ At(a, "answer") /\ Busy(a) /\ job[a].request.kind # "read" /\ JobIs(a, Idle)
      /\ UNCHANGED <<filesVars, budget, inbox, ended, clientVars>>
      /\ Did(a, Came(IF job[a].failure = "none" THEN "done" ELSE job[a].failure, <<>>, job[a].left,
                     Path(a), job[a].wrote, job[a].id))
      /\ Say(a, [kind |-> "changed", failure |-> job[a].failure, id |-> job[a].request.id])
  BY <1>0, AnswerChangeDoes
<1>2. inbox[a] = <<>> /\ Pending(a) /\ Asked(a) = job[a].request
  BY <1>0, <1>1 DEF Wire, Pending, Asked
<1>3. CASE a = Mine
  BY <1>0, <1>1, <1>2, <1>3, NoContents
<1>4. CASE a # Mine
  <2>1. \E came: did' = [did EXCEPT ![Asked(a).id] = came]
    BY <1>1, <1>2 DEF Did
  <2>2. PICK frame: outbox' = [outbox EXCEPT ![a] = Append(@, frame)]
    BY <1>1 DEF Say
  <2>3. \A b \in Agents \ {a}: job'[b] = job[b] /\ inbox'[b] = inbox[b] /\ outbox'[b] = outbox[b]
    BY <1>0, <1>1, <2>2 DEF JobIs, PipesOK
  <2> QED BY <1>0, <1>1, <1>2, <1>4, <2>1, <2>3, ContentsOfAnother
<1> QED BY <1>3, <1>4

LEMMA SayContentsContents ==
  ASSUME TypesOK, Exchange, Contents, NEW a \in Agents, SayContents(a)
  PROVE  Contents'
<1>0. FilesOK /\ JobsOK /\ Wire /\ PipesOK /\ Mine \in Agents /\ ClientOK
  BY DEF TypesOK, Exchange, ClientOK, Mine
<1>1. /\ At(a, "read") /\ UNCHANGED <<filesVars, budget, inbox, ended, clientVars>>
      /\ \/ /\ Len(job[a].made) > FrameLimit /\ UNCHANGED did
            /\ Say(a, ContentFrame(a, SubSeq(job[a].made, 1, FrameLimit), FALSE))
            /\ Reading(a, job[a].request.paths, job[a].todo \o SubSeq(job[a].made, 1, FrameLimit),
                       SubSeq(job[a].made, FrameLimit + 1, Len(job[a].made)))
         \/ /\ Len(job[a].made) <= FrameLimit /\ job[a].request.paths = <<>> /\ JobIs(a, Idle)
            /\ Say(a, ContentFrame(a, job[a].made, TRUE))
            /\ Did(a, IF job[a].request.bad THEN Came("refused", <<>>, {}, <<>>, FALSE, 0)
                      ELSE Came("read", Joined(<<>>, {}, job[a].todo \o job[a].made).got,
                                {}, <<>>, FALSE, 0))
  BY <1>0, SayContentsDoes
<1>2. Busy(a) /\ job[a].request.kind = "read" /\ IsSeq(job[a].made) /\ IsSeq(job[a].todo)
  BY <1>0, <1>1, AtRead
<1>3. inbox[a] = <<>> /\ inbox'[a] = <<>> /\ Asked(a) = job[a].request /\ Pending(a) /\ Todo(a) = job[a].todo
  BY <1>0, <1>1, <1>2 DEF Wire, PipesOK, Asked, Pending, Todo
<1>4. CASE a # Mine
  <2>1. UNCHANGED did \/ \E came: did' = [did EXCEPT ![Asked(a).id] = came]
    BY <1>1, <1>3 DEF Did
  <2>2. PICK frame: outbox' = [outbox EXCEPT ![a] = Append(@, frame)]
    BY <1>1 DEF Say
  <2>3. \A b \in Agents \ {a}: job'[b] = job[b] /\ inbox'[b] = inbox[b] /\ outbox'[b] = outbox[b]
    BY <1>0, <1>1, <2>2 DEF JobIs, PipesOK, Reading
  <2> QED BY <1>0, <1>1, <1>3, <1>4, <2>1, <2>3, ContentsOfAnother
<1>5. CASE /\ a = Mine /\ Len(job[a].made) > FrameLimit
           /\ Say(a, ContentFrame(a, SubSeq(job[a].made, 1, FrameLimit), FALSE))
           /\ Reading(a, job[a].request.paths, job[a].todo \o SubSeq(job[a].made, 1, FrameLimit),
                       SubSeq(job[a].made, FrameLimit + 1, Len(job[a].made)))
  <2>1. PICK frame, said: /\ said = SubSeq(job[a].made, 1, FrameLimit)
                          /\ frame = ContentFrame(a, said, FALSE)
                          /\ outbox' = [outbox EXCEPT ![a] = Append(@, frame)]
    BY <1>5 DEF Say
  <2>2. frame.kind = "contents" /\ frame.pieces = said
    BY <2>1 DEF ContentFrame
  <2>3. IsSeq(said)
    <3>1. PICK n: n = Len(job[a].made) /\ n \in Nat
      BY <1>2, SeqFacts
    <3>2. FrameLimit \in Nat \ {0} /\ FrameLimit < n
      BY <1>5, <3>1, StartsAreWellFormed
    <3>3. 1 \in 1 .. n + 1 /\ FrameLimit \in 1 - 1 .. n
      BY <3>1, <3>2
    <3> QED BY <1>2, <2>1, <3>1, <3>3, SubSeqFacts
  <2>4. job'[a].todo = job[a].todo \o said /\ Busy(a)'
    BY <1>5, <2>1, ReadingIs
  <2>5. Pending(a)' = TRUE /\ (Todo(a))' = job[a].todo \o said
    BY <2>4 DEF Pending, Todo
  <2>6. PICK g: g = After(After(Nothing, Todo(a)), frame.pieces)
    OBVIOUS
  <2>7. g = After(Nothing, job[a].todo \o said)
    BY <1>2, <1>3, <2>2, <2>3, <2>6, AfterBoth
  <2>8. EndsIn(g, frame, TRUE, (Todo(a))', did'[client.id])
    BY <2>5, <2>7 DEF EndsIn
  <2> QED BY <1>0, <1>1, <1>3, <1>5, <2>1, <2>5, <2>6, <2>8, ContentsSaid
<1>6. CASE /\ a = Mine /\ JobIs(a, Idle)
           /\ Say(a, ContentFrame(a, job[a].made, TRUE))
           /\ Did(a, IF job[a].request.bad THEN Came("refused", <<>>, {}, <<>>, FALSE, 0)
                      ELSE Came("read", Joined(<<>>, {}, job[a].todo \o job[a].made).got,
                                {}, <<>>, FALSE, 0))
  <2>1. PICK frame, came:
        /\ frame = ContentFrame(a, job[a].made, TRUE)
        /\ came = IF job[a].request.bad THEN Came("refused", <<>>, {}, <<>>, FALSE, 0)
                      ELSE Came("read", Joined(<<>>, {}, job[a].todo \o job[a].made).got,
                                {}, <<>>, FALSE, 0)
        /\ outbox' = [outbox EXCEPT ![a] = Append(@, frame)]
        /\ did' = [did EXCEPT ![Asked(a).id] = came]
    BY <1>3, <1>6 DEF Say, Did
  <2>2. frame.kind = "contents" /\ frame.pieces = job[a].made /\ (frame.bad <=> job[a].request.bad)
    BY <2>1 DEF ContentFrame
  <2>3. Pending(a)' = FALSE
    BY <1>3, <1>6 DEF JobIs, Pending, Busy
  <2>4. PICK g: g = After(After(Nothing, Todo(a)), frame.pieces)
    OBVIOUS
  <2>5. g = After(Nothing, job[a].todo \o job[a].made)
    BY <1>2, <1>3, <2>2, <2>4, AfterBoth
  <2>6. g.got = Joined(<<>>, {}, job[a].todo \o job[a].made).got
    <3>1. Nothing.got = <<>> /\ Nothing.open = {}
      BY DEF Nothing, Held
    <3> QED BY <2>5, <3>1 DEF After
  <2>7. ~frame.bad => came.got = g.got
    BY <2>1, <2>2, <2>6 DEF Came
  <2>8. client.step = "wait" => did'[client.id] = came
    <3>1. client.step = "wait" => Asked(a).id = client.id /\ client.id \in DOMAIN did
      BY <1>0, <1>3, <1>6, SeqFacts DEF Wire, ClientOK
    <3> QED BY <2>1, <3>1
  <2>9. client.step = "wait" => EndsIn(g, frame, FALSE, (Todo(a))', did'[client.id])
    BY <2>7, <2>8 DEF EndsIn
  <2> QED BY <1>0, <1>1, <1>3, <1>6, <2>1, <2>3, <2>4, <2>9, ContentsSaid
<1> QED BY <1>1, <1>4, <1>5, <1>6

----------------------------------------------------------------------------
LEMMA EndAgentContents ==
  ASSUME TypesOK, Exchange, Contents, NEW a \in Agents, EndAgent(a)
  PROVE  Contents'
<1>0. FilesOK /\ JobsOK /\ Wire /\ PipesOK /\ Mine \in Agents /\ Frames
  BY DEF TypesOK, Exchange, ClientOK, Mine
<1>1. /\ inbox' = [inbox EXCEPT ![a] = <<>>]
      /\ JobIs(a, Idle) /\ UNCHANGED <<filesVars, did, outbox, clientVars>>
  BY <1>0, EndAgentDoes
<1>2. inbox'[a] = <<>> /\ \A b \in Agents \ {a}: inbox'[b] = inbox[b] /\ job'[b] = job[b]
  BY <1>0, <1>1 DEF PipesOK, JobIs
<1>3. CASE a # Mine
  BY <1>0, <1>1, <1>2, <1>3, ContentsKept
<1>4. CASE a = Mine /\ ~Pending(a)
  <2>1. inbox'[a] = inbox[a] /\ job'[a] = job[a]
    BY <1>1, <1>2, <1>4 DEF JobIs, Pending, Busy
  <2> QED BY <1>1, <1>4, <2>1, ContentsKept
<1>5. CASE a = Mine /\ Pending(a)
  <2>0. client' = client /\ program' = program /\ client.agent = a /\ IsSeq(outbox[a])
    BY <1>0, <1>1, <1>5 DEF clientVars, Mine, PipesOK
  <2>1. Pending(a)' = FALSE
    BY <1>1, <1>2 DEF JobIs, Pending, Busy
  <2>2. Pending(client.agent)' = FALSE
    BY <2>0, <2>1 DEF Pending, Busy
  <2>3. PICK todo1: todo1 = Todo(client.agent)'
    OBVIOUS
  <2> SUFFICES ASSUME client.step = "wait", Op.kind = "read"
               PROVE  Adds(outbox[a], Held(client.got, client.open), FALSE, todo1, did[client.id])
    BY <1>1, <2>0, <2>2, <2>3, ContentsBecome DEF Op
  <2>4. Adds(outbox[a], Held(client.got, client.open), TRUE, Todo(a), did[client.id])
    <3>1. Pending(a) = TRUE
      BY <1>5 DEF Pending
    <3>2. Adds(outbox[a], Held(client.got, client.open), Pending(a), Todo(a), did[client.id])
      BY <1>5, ContentsAre
    <3> QED BY <3>1, <3>2
  <2>5. \A k \in DOMAIN outbox[a]: ~outbox[a][k].last
    BY <1>0, <1>5 DEF Frames, Partial
  <2> QED BY <2>0, <2>4, <2>5, AddsEnded
<1> QED BY <1>3, <1>4, <1>5

LEMMA QuietContents ==
  ASSUME TypesOK, Contents, UNCHANGED <<clientVars, inbox, outbox, job, did>>
  PROVE  Contents'
<1>1. PICK m \in Agents: m = Mine
  BY DEF TypesOK, ClientOK, Mine
<1> QED BY <1>1, ContentsKept

\* The client waits for nothing.
LEMMA NotWaiting ==
  ASSUME client'.step # "wait"
  PROVE  Contents'
BY ContentsBecome

LEMMA SendRequestContents ==
  ASSUME TypesOK, Exchange, Contents, SendRequest
  PROVE  Contents'
<1>0. ClientOK /\ Wire /\ PipesOK /\ Mine \in Agents
  BY DEF TypesOK, Exchange, ClientOK, Mine
<1>1. /\ client.step = "next" /\ program # <<>> /\ UNCHANGED <<filesVars, job, budget>>
      /\ \/ Op.kind = "huge" /\ UNCHANGED client
         \/ /\ inbox' = [inbox EXCEPT ![Mine] = Append(@, Request)]
            /\ ClientIs("wait", client.agent, client.part, client.attempt, client.id + 1, <<>>, {})
            /\ UNCHANGED <<program, outbox>>
  BY <1>0, SendRequestDoes
<1>2. ~Busy(Mine) /\ outbox[Mine] = <<>>
  BY <1>0, <1>1 DEF Wire, Pending
<1>3. CASE UNCHANGED client
  BY <1>1, <1>3, NotWaiting
<1>4. CASE /\ inbox' = [inbox EXCEPT ![Mine] = Append(@, Request)]
           /\ ClientIs("wait", client.agent, client.part, client.attempt, client.id + 1, <<>>, {})
           /\ UNCHANGED <<program, outbox>>
  <2>1. client'.got = <<>> /\ client'.open = {} /\ client'.agent = Mine /\ client.agent = Mine
    BY <1>4 DEF ClientIs, Mine
  <2>2. PICK yes \in BOOLEAN: Pending(client.agent)' = yes
    BY DEF Pending
  <2>3. Todo(client.agent)' = <<>>
    BY <1>1, <1>2, <2>1 DEF Todo, Busy
  <2>4. PICK came: came = did'[client'.id]
    OBVIOUS
  <2>5. Adds(<<>>, Nothing, yes, <<>>, came)
    BY AddsNone
  <2>6. outbox'[client'.agent] = <<>> /\ Held(client'.got, client'.open) = Nothing
    BY <1>2, <1>4, <2>1 DEF Nothing
  <2>7. Adds(outbox'[client'.agent], Held(client'.got, client'.open), Pending(client.agent)',
             Todo(client.agent)', did'[client'.id])
    BY <2>2, <2>3, <2>4, <2>5, <2>6
  <2> QED BY <2>7, ContentsBecome
<1> QED BY <1>1, <1>3, <1>4

LEMMA ReceiveContentsContents ==
  ASSUME TypesOK, Exchange, Contents, ReceiveContents
  PROVE  Contents'
<1>0. ClientOK /\ Wire /\ PipesOK /\ Mine \in Agents
  BY DEF TypesOK, Exchange, ClientOK, Mine
<1> DEFINE frame == Head(outbox[Mine])
           joined == Joined(client.got, client.open, frame.pieces)
<1>1. /\ client.step = "wait" /\ Op.kind = "read" /\ outbox[Mine] # <<>> /\ Received
      /\ \/ \E is, got: Finish(is, got)
         \/ /\ frame.kind = "contents" /\ UNCHANGED <<program, results>>
            /\ ClientIs("wait", client.agent, client.part, client.attempt, client.id, joined.got, joined.open)
         \/ LoseIt
  BY <1>0, ReceiveContentsDoes
<1> HIDE DEF frame
<1>2. CASE \E is, got: Finish(is, got)
  BY <1>0, <1>2, FinishDoes, NotWaiting DEF ClientIs
<1>3. CASE LoseIt
  BY <1>0, <1>3, LoseItDoes, NotWaiting DEF ClientIs
<1>4. CASE /\ frame.kind = "contents" /\ UNCHANGED <<program, results>>
           /\ ClientIs("wait", client.agent, client.part, client.attempt, client.id, joined.got, joined.open)
  <2>1. PICK m \in Agents: m = Mine
    BY <1>0
  <2>2. /\ client'.id = client.id /\ client'.step = "wait" /\ client'.agent = m /\ client.agent = m
        /\ client'.got = joined.got /\ client'.open = joined.open
    BY <1>4, <2>1 DEF ClientIs, Mine
  <2>3. PICK frames, h, h1, todo, came, pending:
          /\ frames = outbox[m] /\ h = Held(client.got, client.open)
          /\ h1 = Held(joined.got, joined.open) /\ todo = Todo(m) /\ came = did[client.id] /\ pending = Pending(m)
    OBVIOUS
  <2>4. pending \in BOOLEAN
    BY <2>3 DEF Pending
  <2>5. Adds(frames, h, pending, todo, came)
    BY <1>1, <2>1, <2>3, ContentsAre
  <2>6. IsSeq(frames) /\ frames # <<>> /\ Head(frames) = frame
    BY <1>0, <1>1, <2>1, <2>3 DEF PipesOK, frame
  <2>7. h1 = After(h, frame.pieces)
    <3>1. h.got = client.got /\ h.open = client.open
      BY <2>3 DEF Held
    <3> QED BY <2>3, <3>1 DEF After, Held
  <2>8. Adds(Tail(frames), h1, pending, todo, came)
    BY <1>4, <2>4, <2>5, <2>6, <2>7, AddsTail
  <2>9. UNCHANGED <<job, did, inbox>> /\ outbox'[m] = Tail(frames)
    BY <1>0, <1>1, <2>1, <2>3 DEF Received, PipesOK
  <2>10. Pending(client.agent)' = pending /\ Todo(client.agent)' = todo
    BY <2>2, <2>3, <2>9 DEF Pending, Todo, Busy
  <2>11. Held(client'.got, client'.open) = h1
    BY <2>2, <2>3
  <2>12. Adds(outbox'[client'.agent], Held(client'.got, client'.open), Pending(client.agent)',
              Todo(client.agent)', did'[client'.id])
    BY <2>2, <2>3, <2>8, <2>9, <2>10, <2>11
  <2> QED BY <2>12, ContentsBecome
<1> QED BY <1>1, <1>2, <1>3, <1>4

----------------------------------------------------------------------------
LEMMA OtherClientContents ==
  ASSUME TypesOK, ReceiveChanged \/ Reconnect \/ GiveUp \/ NoAnswer
  PROVE  Contents'
<1>0. ClientOK
  BY DEF TypesOK
<1>1. CASE Reconnect
  BY <1>0, <1>1, ReconnectDoes, NotWaiting DEF ClientIs
<1>2. CASE GiveUp
  BY <1>0, <1>2, GiveUpDoes, NotWaiting DEF ClientIs
<1>3. CASE NoAnswer
  <2>1. LoseIt
    BY <1>3 DEF NoAnswer
  <2> QED BY <1>0, <2>1, LoseItDoes, NotWaiting DEF ClientIs
<1>4. CASE ReceiveChanged
  <2>1. \/ \E is, got: Finish(is, got)
        \/ ClientIs("next", client.agent, client.part + 1, client.attempt, client.id, client.got, client.open)
        \/ LoseIt
    BY <1>0, <1>4, ReceiveChangedDoes
  <2>2. client'.step # "wait"
    BY <1>0, <2>1, FinishDoes, LoseItDoes DEF ClientIs
  <2> QED BY <2>2, NotWaiting
<1> QED BY <1>1, <1>2, <1>3, <1>4

LEMMA NextContents ==
  ASSUME TypesOK, Exchange, Contents, [Next]_vars
  PROVE  Contents'
<1>1. CASE ClientStep
  <2>1. CASE Close
    BY <2>1, QuietContents DEF Close, filesVars
  <2> QED BY <1>1, <2>1, SendRequestContents, ReceiveContentsContents, OtherClientContents DEF ClientStep
<1>2. CASE NoAnswer
  BY <1>2, OtherClientContents
<1>3. CASE \E a \in Agents : Work(a) \/ EndAgent(a)
  BY <1>3, TakeContents, AnswerChangeContents, ReadOneContents, SayContentsContents, EndAgentContents,
     FilesStepContents DEF Work
<1>4. CASE OthersMove /\ UNCHANGED <<clientVars, pipeVars>>
  BY <1>4, QuietContents DEF OthersMove, pipeVars
<1>5. CASE Done \/ UNCHANGED vars
  BY <1>5, QuietContents DEF Done, vars, filesVars, pipeVars
<1> QED BY <1>1, <1>2, <1>3, <1>4, <1>5 DEF Next

LEMMA InitContents == Init => Contents
BY DEF Init, Contents, Resting

(* What is inductive: the types, the exchange, and what a read adds up to.   *)
Answered == TypesOK /\ Exchange /\ Contents

(* However the answer is cut into frames, and whatever is lost, refused or   *)
(* answered late: the result of an operation, and the contents that a read   *)
(* returns, are what its own request came to at its agent (read_files of     *)
(* client/reads.rs, which joins the frames; client/mod.rs, which takes them  *)
(* in order, and no more from a connection that is dropped).                 *)
THEOREM AnswersAreOfTheirRequests == Spec => []ResultsAreTrue
<1>1. Init => Answered
  BY InitTypes, InitExchange, InitContents DEF Answered
<1>2. Answered /\ [Next]_vars => Answered'
  BY NextTypes, NextExchange, NextContents DEF Answered
<1>3. Answered => ResultsAreTrue
  BY DEF Answered, Exchange, Settled, Agrees, ResultsAreTrue
<1> QED BY <1>1, <1>2, <1>3, PTL DEF Spec
=============================================================================
