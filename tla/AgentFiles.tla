----------------------------- MODULE AgentFiles -----------------------------
(* How an agent carries out one request that changes files, system call by   *)
(* system call, while others change the same tree.  A path is the sequence   *)
(* of its names below the root, which is the empty path; a name holds a      *)
(* node, and an open file is a node, whatever name it has by then.  A node   *)
(* keeps, for the properties only, the request that made it ("by").          *)
EXTENDS Naturals, FiniteSets, Sequences, SequencesExt

CONSTANTS
  Agents,     \* the agents, in the order in which they are started
  Paths,      \* the paths of the tree, the root among them
  OthersMay   \* what others do: [path, kind], or [path, to] for a rename

ASSUME AgentsAreNumbered == 1 \in Agents /\ Agents \subseteq Nat
ASSUME TreeIsClosed ==
  /\ <<>> \in Paths
  /\ \A p \in Paths : p \in Seq(ToSet(p)) /\ \A i \in 0 .. Len(p) : SubSeq(p, 1, i) \in Paths
ASSUME OthersStayInTheTree ==
  \A m \in OthersMay : m.path \in Paths /\ (m.kind = "rename" => m.to \in Paths)

VARIABLES
  sudo,     \* whether the agents run as root for a user
  names,    \* the node that each path holds; 0 for none
  nodes,    \* the nodes
  job,      \* what each agent is doing
  writing,  \* the files each agent holds open for the parts to come
  did,      \* what became of each request (for the properties)
  budget    \* the moves of others, failing calls, losses and garbled requests that are left

filesVars == <<sudo, names, nodes, writing>>

Node(kind, by, owner) ==
  [kind |-> kind, by |-> by, owner |-> owner, parts |-> <<>>, mode |-> [special |-> FALSE, bits |-> 0]]

\* A "dirlink" leads to a directory, a "link" to nothing.
Kind(p) == IF names[p] = 0 THEN "none" ELSE nodes[names[p]].kind
IsDir(p) == Kind(p) \in {"dir", "dirlink"}
Children(p) == {q \in Paths : q # <<>> /\ Front(q) = p /\ names[q] # 0}
Parents(p) == [i \in 1 .. Len(p) - 1 |-> SubSeq(p, 1, i)]
Maker == IF sudo THEN "root" ELSE "user"
InDir(p) == p = <<>> \/ IsDir(Front(p))
\* A name on the way is held by something that is no directory.
Blocked(p) == \E i \in 1 .. Len(p) - 1 : LET q == SubSeq(p, 1, i) IN names[q] # 0 /\ ~IsDir(q)

Idle == [step |-> "idle"]
Start(request, step) ==
  [request |-> request, step |-> step, seen |-> FALSE, todo |-> <<>>, made |-> <<>>, id |-> 0,
   failure |-> "none", left |-> {}, wrote |-> FALSE]
NoFiles == [p \in Paths |-> 0]

(***************************************************************************)
(* Others.                                                                 *)
(***************************************************************************)
Place(p, kind, by, owner) ==
  /\ nodes' = Append(nodes, Node(kind, by, owner))
  /\ names' = [names EXCEPT ![p] = Len(nodes) + 1]

OthersMove ==
  /\ budget.moves > 0 /\ budget' = [budget EXCEPT !.moves = @ - 1]
  /\ \E m \in OthersMay :
       /\ InDir(m.path) /\ Children(m.path) = {}
       /\ CASE m.kind = "gone" -> names[m.path] # 0 /\ names' = [names EXCEPT ![m.path] = 0]
                                  /\ UNCHANGED nodes
            [] m.kind = "rename" -> /\ names[m.path] # 0 /\ names[m.to] = 0 /\ InDir(m.to)
                                    /\ names' = [names EXCEPT ![m.path] = 0, ![m.to] = names[m.path]]
                                    /\ UNCHANGED nodes
            [] OTHER -> Place(m.path, m.kind, 0, "other")
  /\ UNCHANGED <<sudo, job, writing, did>>

(***************************************************************************)
(* The steps of a job.                                                     *)
(***************************************************************************)
At(a, step) == job[a].step = step
Path(a) == job[a].request.path

\* A call may fail for a reason of its own: no room, no permission.
MayFail == budget.fails > 0 /\ budget' = [budget EXCEPT !.fails = @ - 1]

Continue(a, j) == job' = [job EXCEPT ![a] = j]
To(a, step) == Continue(a, [job[a] EXCEPT !.step = step])

(* A failure after parents were made removes them, from the bottom.          *)
\* (mutant of FailUndoing: what was made is left)
FailLeaving(a, failure) == Continue(a, [job[a] EXCEPT !.step = "answer", !.failure = failure])
FailUndoing(a, failure) == Continue(a, [job[a] EXCEPT !.step = "undo", !.failure = failure])
Fail(a, failure) == Continue(a, [job[a] EXCEPT !.step = "answer", !.failure = failure])

\* write: the first part opens the file, a later one has it open.
Look(a) ==
  /\ At(a, "look")
  /\ Continue(a, [job[a] EXCEPT !.seen = names[Path(a)] # 0,
                                !.step = IF names[Path(a)] # 0 THEN "open" ELSE "parents"])
  /\ UNCHANGED <<filesVars, did, budget>>

OpenExisting(a) ==
  /\ At(a, "open")
  /\ \/ /\ Kind(Path(a)) = "none" /\ UNCHANGED <<nodes, budget>>
        /\ IF Blocked(Path(a)) THEN Fail(a, "notDirectory") ELSE To(a, "parents")
     \/ /\ Kind(Path(a)) = "file"
        /\ nodes' = [nodes EXCEPT ![names[Path(a)]].parts = <<>>]
        /\ Continue(a, [job[a] EXCEPT !.id = names[Path(a)], !.step = "write", !.wrote = TRUE])
        /\ UNCHANGED budget
     \/ /\ Kind(Path(a)) \notin {"none", "file"} /\ Fail(a, "io") /\ UNCHANGED <<nodes, budget>>
     \/ MayFail /\ Fail(a, "io") /\ UNCHANGED nodes
  /\ UNCHANGED <<sudo, names, writing, did>>

(* The parents that are missing, up to the first that is there, are made one *)
(* by one, from the top; one that somebody else has made by then is not      *)
(* counted as made.                                                          *)
MissingBelow(p, held) ==
  /\ held = 0 \/ names[SubSeq(p, 1, held)] # 0
  /\ \A i \in held + 1 .. Len(p) - 1 : names[SubSeq(p, 1, i)] = 0

FindParents(a) ==
  /\ At(a, "parents")
  /\ \/ /\ IsDir(<<>>)
        /\ \E held \in 0 .. Len(Path(a)) - 1 :
             /\ MissingBelow(Path(a), held)
             /\ Continue(a, [job[a] EXCEPT !.step = "mkdir",
                               !.todo = SubSeq(Parents(Path(a)), held + 1, Len(Path(a)) - 1)])
     \/ ~IsDir(<<>>) /\ Fail(a, "rootGone")
  /\ UNCHANGED <<filesVars, did, budget>>

MakeParent(a) ==
  /\ At(a, "mkdir") /\ job[a].todo # <<>>
  /\ LET dir == Head(job[a].todo)
         rest == [job[a] EXCEPT !.todo = Tail(@)]
     IN  \/ /\ names[dir] = 0 /\ InDir(dir)
            /\ Place(dir, "dir", job[a].request.id, Maker)
            /\ Continue(a, [rest EXCEPT !.made = Append(@, dir)]) /\ UNCHANGED budget
         \/ names[dir] # 0 /\ IsDir(dir) /\ Continue(a, rest) /\ UNCHANGED <<names, nodes, budget>>
         \/ /\ (names[dir] = 0 /\ ~InDir(dir)) \/ (names[dir] # 0 /\ ~IsDir(dir))
            /\ FailUndoing(a, IF Blocked(Path(a)) THEN "notDirectory" ELSE "io")
            /\ UNCHANGED <<names, nodes, budget>>
         \/ MayFail /\ FailUndoing(a, "io") /\ UNCHANGED <<names, nodes>>
  /\ UNCHANGED <<sudo, writing, did>>

ParentsMade(a) ==
  /\ At(a, "mkdir") /\ job[a].todo = <<>>
  /\ IF InDir(Path(a)) THEN To(a, "create") ELSE FailUndoing(a, "notDirectory")
  /\ UNCHANGED <<filesVars, did, budget>>

(* What has appeared at the path by then is not opened, nor replaced.        *)
\* (mutant of MakesNew: a file that has appeared is opened)
MakesOrOpens(a, kind, id) ==
  \/ names[Path(a)] = 0 /\ id = Len(nodes) + 1 /\ Place(Path(a), kind, job[a].request.id, Maker)
  \/ Kind(Path(a)) = "file" /\ id = names[Path(a)] /\ UNCHANGED <<names, nodes>>
MakesNew(a, kind, id) ==
  names[Path(a)] = 0 /\ id = Len(nodes) + 1 /\ Place(Path(a), kind, job[a].request.id, Maker)

Create(a) ==
  /\ At(a, "create")
  /\ LET kind == IF job[a].request.kind = "symlink" THEN "link" ELSE "file"
         next == IF sudo THEN "own" ELSE IF kind = "file" THEN "write" ELSE "answer"
     IN  \/ /\ InDir(Path(a)) /\ UNCHANGED budget
            /\ \E id \in 1 .. Len(nodes) + 1 :
                 /\ MakesNew(a, kind, id)
                 /\ Continue(a, [job[a] EXCEPT !.id = id, !.step = next,
                                               !.todo = Append(job[a].made, Path(a))])
         \/ /\ ~InDir(Path(a)) \/ names[Path(a)] # 0
            /\ FailUndoing(a, "io") /\ UNCHANGED <<names, nodes, budget>>
         \/ MayFail /\ FailUndoing(a, "io") /\ UNCHANGED <<names, nodes>>
  /\ UNCHANGED <<sudo, writing, did>>

(* An agent of root gives what it made to the user: the directories and a    *)
(* link by their names, the file as it has it open.                          *)
Own(a) ==
  /\ At(a, "own")
  /\ LET p == Head(job[a].todo)
         last == Len(job[a].todo) = 1
         id == IF last /\ job[a].request.kind = "write" THEN job[a].id ELSE names[p]
     IN  \/ /\ id # 0 /\ nodes' = [nodes EXCEPT ![id].owner = "user"]
            /\ Continue(a, [job[a] EXCEPT !.todo = Tail(@),
                 !.step = IF ~last THEN "own"
                          ELSE IF job[a].request.kind = "write" THEN "write" ELSE "answer"])
            /\ UNCHANGED budget
         \/ id = 0 /\ UNCHANGED <<nodes, budget>>
            /\ Continue(a, [job[a] EXCEPT !.step = "unmake", !.failure = "io"])
         \/ MayFail /\ UNCHANGED nodes
            /\ Continue(a, [job[a] EXCEPT !.step = "unmake", !.failure = "io"])
  /\ UNCHANGED <<sudo, names, writing, did>>

(* A file is only removed while its path holds the one that was made.        *)
Unmake(a) ==
  /\ At(a, "unmake")
  /\ LET gone == names[Path(a)] = 0
         other == job[a].request.kind = "write" /\ ~gone /\ names[Path(a)] # job[a].id
     IN  Continue(a, [job[a] EXCEPT !.step = IF gone \/ other THEN "undo" ELSE "unlinkMade",
                                    !.left = IF other THEN @ \cup {Path(a)} ELSE @])
  /\ UNCHANGED <<filesVars, did, budget>>

UnlinkMade(a) ==
  /\ At(a, "unlinkMade")
  /\ \/ /\ Kind(Path(a)) # "dir" /\ names' = [names EXCEPT ![Path(a)] = 0]
        /\ To(a, "undo") /\ UNCHANGED budget
     \/ /\ Kind(Path(a)) = "dir" /\ UNCHANGED <<names, budget>>
        /\ Continue(a, [job[a] EXCEPT !.step = "undo", !.left = @ \cup {Path(a)}])
     \/ /\ MayFail /\ UNCHANGED names
        /\ Continue(a, [job[a] EXCEPT !.step = "undo", !.left = @ \cup {Path(a)}])
  /\ UNCHANGED <<sudo, nodes, writing, did>>

Undo(a) ==
  /\ At(a, "undo") /\ job[a].made # <<>>
  /\ LET dir == Last(job[a].made)
         rest == [job[a] EXCEPT !.made = Front(@)]
     IN  \/ /\ names[dir] = 0 \/ (Kind(dir) = "dir" /\ Children(dir) = {})
            /\ names' = [names EXCEPT ![dir] = 0] /\ Continue(a, rest) /\ UNCHANGED budget
         \/ /\ names[dir] # 0 /\ (Kind(dir) # "dir" \/ Children(dir) # {})
            /\ Continue(a, [rest EXCEPT !.left = @ \cup {dir}]) /\ UNCHANGED <<names, budget>>
         \/ /\ MayFail /\ names[dir] # 0
            /\ Continue(a, [rest EXCEPT !.left = @ \cup {dir}]) /\ UNCHANGED names
  /\ UNCHANGED <<sudo, nodes, writing, did>>

Undone(a) ==
  /\ At(a, "undo") /\ job[a].made = <<>> /\ To(a, "answer")
  /\ UNCHANGED <<filesVars, did, budget>>

(* The file stays open only while a part is to follow one that was written.  *)
\* (mutant of StaysOpen: it stays open after a part that failed, too)
StaysOpenAfterFailure(request, written) == request.more
StaysOpen(request, written) == request.more /\ written

WritePart(a) ==
  /\ At(a, "write")
  /\ LET written == [nodes EXCEPT ![job[a].id].parts = Append(@, job[a].request.part)]
     IN  \/ /\ nodes' = written /\ UNCHANGED budget
            /\ Continue(a, [job[a] EXCEPT !.step = "answer", !.wrote = TRUE])
            /\ writing' = [writing EXCEPT ![a][Path(a)] =
                             IF StaysOpen(job[a].request, TRUE) THEN job[a].id ELSE 0]
         \/ /\ MayFail /\ nodes' \in {nodes, written}
            /\ Continue(a, [job[a] EXCEPT !.step = "answer", !.wrote = TRUE, !.failure = "io"])
            /\ writing' = [writing EXCEPT ![a][Path(a)] =
                             IF StaysOpen(job[a].request, FALSE) THEN job[a].id ELSE 0]
  /\ UNCHANGED <<sudo, names, did>>

(* remove does not remove a directory, be it empty.                          *)
LookToRemove(a) ==
  /\ At(a, "remove")
  /\ CASE Kind(Path(a)) = "none" -> Fail(a, "notFound")
       [] Kind(Path(a)) = "dir" -> Fail(a, "io")
       [] OTHER -> To(a, "unlink")
  /\ UNCHANGED <<filesVars, did, budget>>

Unlink(a) ==
  /\ At(a, "unlink")
  /\ \/ /\ Kind(Path(a)) \notin {"none", "dir"} /\ names' = [names EXCEPT ![Path(a)] = 0]
        /\ To(a, "answer") /\ UNCHANGED budget
     \/ Kind(Path(a)) = "none" /\ Fail(a, "notFound") /\ UNCHANGED <<names, budget>>
     \/ Kind(Path(a)) = "dir" /\ Fail(a, "io") /\ UNCHANGED <<names, budget>>
     \/ MayFail /\ Fail(a, "io") /\ UNCHANGED names
  /\ UNCHANGED <<sudo, nodes, writing, did>>

(* chmod takes no mode with special bits, and keeps those of a directory.    *)
Resulting(node, bits) ==
  [special |-> node.kind \in {"dir", "dirlink"} /\ node.mode.special, bits |-> bits]

Chmod(a) ==
  /\ At(a, "chmod")
  /\ \/ job[a].request.special /\ Fail(a, "io") /\ UNCHANGED <<nodes, budget>>
     \/ ~job[a].request.special /\ Kind(Path(a)) \in {"none", "link"} /\ Fail(a, "notFound")
        /\ UNCHANGED <<nodes, budget>>
     \/ /\ ~job[a].request.special /\ Kind(Path(a)) \notin {"none", "link"}
        /\ nodes' = [nodes EXCEPT ![names[Path(a)]].mode =
                       Resulting(nodes[names[Path(a)]], job[a].request.bits)]
        /\ To(a, "answer") /\ UNCHANGED budget
     \/ MayFail /\ Fail(a, "io") /\ UNCHANGED nodes
  /\ UNCHANGED <<sudo, names, writing, did>>

FilesStep(a) ==
  \/ Look(a) \/ OpenExisting(a) \/ FindParents(a) \/ MakeParent(a) \/ ParentsMade(a) \/ Create(a)
  \/ Own(a) \/ Unmake(a) \/ UnlinkMade(a) \/ Undo(a) \/ Undone(a) \/ WritePart(a)
  \/ LookToRemove(a) \/ Unlink(a) \/ Chmod(a)
=============================================================================
