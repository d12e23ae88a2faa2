-------------------------------- MODULE Scan --------------------------------
(***************************************************************************)
(* One scan of one machine (remote-merge-core/src/scan), the same code for *)
(* the local side and, inside the agent, for a server: what is asked of    *)
(* the file system, one call at a time while others change it, and how the *)
(* answers become a listing.  Links are followed in rounds: what one round *)
(* meets as a link is asked about in the next.                             *)
(*                                                                         *)
(* A name is a number; names are in the order of their numbers.  A path is *)
(* a sequence of names.                                                    *)
(***************************************************************************)
EXTENDS Naturals, FiniteSets, SequencesExt

CONSTANTS
  RealPaths,   \* the places of the tree, the root among them
  Names,       \* the names the history looks at
  OddNames,    \* the names that are not UTF-8
  Cases,       \* where a run starts: the tree and the request
  Changes,     \* what others may do: the place and what is there afterwards
  MaxChanges,  \* how often they do it
  MaxDepth     \* the longest path the history looks at

NoId == 0

ASSUME PlacesAccepted == <<>> \in RealPaths /\ \A p \in RealPaths : p # <<>> => Front(p) \in RealPaths
ASSUME CasesAccepted == \A c \in Cases : DOMAIN c.tree = RealPaths /\ c.request.max \in Nat
ASSUME BoundsAccepted == MaxChanges \in Nat /\ MaxDepth \in Nat /\ OddNames \subseteq Names

VARIABLES
  fs,         \* what is at each place
  changes,    \* changes made so far
  request,    \* what is scanned: scope, exclude, max
  pc,
  questions,  \* the round's questions: path and depth
  answers,    \* the answers so far
  answer,     \* the answer being put together
  wasDir,     \* whether the root was a directory before the round
  stack,      \* directories not read yet, relative to the question
  children,   \* names the directory being read still has
  walk,       \* what the listing is made of
  seen        \* history: the trees there were during the scan

vars == <<fs, changes, request, pc, questions, answers, answer, wasDir, stack, children,
          walk, seen>>

-----------------------------------------------------------------------------
(* The file system (external): nodes gone, file, other, dir, link.  A       *)
(* directory has an identity and the rights to list ("r") and pass ("x").   *)

MaxLinks == 3  \* links followed in one lookup

NotThere(why) == [why |-> why, at |-> <<>>]
There(path) == [why |-> "ok", at |-> path]

RECURSIVE Lookup(_, _, _)
Lookup(f, path, links) ==
  IF path = <<>> THEN IF f[path].kind = "gone" THEN NotThere("missing") ELSE There(path)
  ELSE LET up == Lookup(f, Front(path), links)
           here == Append(up.at, Last(path))
       IN CASE up.why # "ok" -> up
            [] f[up.at].kind # "dir" -> NotThere("notdir")
            [] "x" \notin f[up.at].rights -> NotThere("denied")
            [] here \notin RealPaths \/ f[here].kind = "gone" -> NotThere("missing")
            [] f[here].kind = "link" ->
                 IF links = 0 THEN NotThere("loop") ELSE Lookup(f, f[here].to, links - 1)
            [] OTHER -> There(here)

Kind(f, place) == IF place.why = "ok" THEN f[place.at].kind ELSE place.why

(* stat and lstat *)
Followed(f, path) == Lookup(f, path, MaxLinks)
Itself(f, path) ==
  IF path = <<>> THEN Followed(f, path)
  ELSE LET up == Followed(f, Front(path))
           here == Append(up.at, Last(path))
       IN CASE up.why # "ok" -> up
            [] f[up.at].kind # "dir" -> NotThere("notdir")
            [] "x" \notin f[up.at].rights -> NotThere("denied")
            [] here \notin RealPaths \/ f[here].kind = "gone" -> NotThere("missing")
            [] OTHER -> There(here)

Inside(f, at) == {Last(p) : p \in {q \in RealPaths : q # <<>> /\ Front(q) = at /\ f[q].kind # "gone"}}

Alter(change) ==
  [p \in RealPaths |->
     CASE p = change.at -> change.node
       [] p # change.at /\ IsPrefix(change.at, p) -> [kind |-> "gone"]
       [] OTHER -> fs[p]]

-----------------------------------------------------------------------------
(* What is to be scanned. *)

Excluded(path) == \E i \in DOMAIN path : path[i] \in request.exclude

(* scope_for: the starts of a request that names directories (--dirs) and  *)
(* values (filter.include); <<>> in place of None is no limit              *)
Start(path, withSelf, descend, group) ==
  [path |-> path, withSelf |-> withSelf, descend |-> descend, group |-> group]
Value(path) == Start(path, TRUE, TRUE, 1)
Below(path, group) == Start(path, FALSE, TRUE, group)
Check(path, group) == Start(path, FALSE, FALSE, group)
OnlyItself(path, group) == Start(path, TRUE, FALSE, group)

Narrowed(dir, group, values) ==
  IF \E v \in Range(values) : IsPrefix(v, dir) THEN <<Below(dir, group)>>
  ELSE LET inner == SelectSeq(values, LAMBDA v : IsPrefix(dir, v))
       IN <<Check(dir, group)>> \o [i \in DOMAIN inner |-> Start(inner[i], TRUE, TRUE, group)]

ScopeStarts(scope) ==
  CASE scope.kind = "include" -> [i \in DOMAIN scope.values |-> Value(scope.values[i])]
    [] scope.kind = "dirs" -> [i \in DOMAIN scope.dirs |-> Below(scope.dirs[i], i)]
    [] scope.kind = "narrowed" ->
         FlattenSeq([i \in DOMAIN scope.dirs |-> Narrowed(scope.dirs[i], i, scope.values)])
    [] scope.kind = "named" -> [i \in DOMAIN scope.paths |-> OnlyItself(scope.paths[i], 1)]
    [] OTHER -> <<>>

PathBefore(p, q) ==
  \/ IsStrictPrefix(p, q)
  \/ \E i \in DOMAIN p \cap DOMAIN q :
       p[i] < q[i] /\ SubSeq(p, 1, i - 1) = SubSeq(q, 1, i - 1)

(* start_paths: a start below another that descends is part of it *)
StartBefore(s, t) ==
  \/ PathBefore(s.path, t.path)
  \/ (s.path = t.path /\ s.descend /\ ~t.descend)
  \/ (s.path = t.path /\ s.descend = t.descend /\ s.withSelf /\ ~t.withSelf)

IsOnlyItself(start) == start.withSelf /\ ~start.descend
KeepStartAny(kept, start) ==
  CASE \E k \in Range(kept) : IsPrefix(k.path, start.path) -> kept
    [] IsOnlyItself(start) \/ ~Excluded(start.path) -> Append(kept, start @@ [excluded |-> FALSE])
    [] ~start.withSelf -> Append(kept, [start EXCEPT !.descend = FALSE] @@ [excluded |-> TRUE])
    [] OTHER -> kept

KeepStart(kept, start) ==
  CASE \E k \in Range(kept) : k.descend /\ IsPrefix(k.path, start.path) -> kept
    [] IsOnlyItself(start) \/ ~Excluded(start.path) -> Append(kept, start @@ [excluded |-> FALSE])
    [] ~start.withSelf -> Append(kept, [start EXCEPT !.descend = FALSE] @@ [excluded |-> TRUE])
    [] OTHER -> kept

StartPaths(scope) ==
  FoldLeft(KeepStart, <<>>, SortSeq(ScopeStarts(scope), StartBefore))

Whole(scope) ==
  \/ scope.kind = "whole"
  \/ \E s \in Range(ScopeStarts(scope)) : s.path = <<>>

Question(path, depth) == [path |-> path, depth |-> depth]
FirstQuestions(scope) ==
  CASE scope.kind = "children" ->
         IF scope.path = <<>> THEN <<Question(<<>>, "children")>>
         ELSE <<Question(<<>>, "itself"), Question(scope.path, "children")>>
    [] Whole(scope) -> <<Question(<<>>, "all")>>
    [] OTHER ->
         LET starts == StartPaths(scope)
         IN <<Question(<<>>, "itself")>> \o
            [i \in DOMAIN starts |->
               Question(starts[i].path, IF starts[i].descend THEN "all" ELSE "itself")]

-----------------------------------------------------------------------------
(* The walk: how answers become the listing. *)

NewWalk ==
  [counts |-> [g \in 1..3 |-> 0], entries |-> {}, unreadableNames |-> {}, unresolvable |-> {},
   truncated |-> FALSE, cycle |-> {}, pending |-> <<>>, failure |-> "none"]

Failed(w) == w.failure # "none"
Fail(w, why) == [w EXCEPT !.failure = why]
Stopped(w) == w.truncated \/ w.cycle # {}

Count(w, group) ==
  LET counted == [w EXCEPT !.counts[group] = @ + 1]
  IN IF counted.counts[group] > request.max THEN [counted EXCEPT !.truncated = TRUE] ELSE counted

IsText(path) == \A i \in DOMAIN path : path[i] \notin OddNames

List(w, path, kind) ==
  IF IsText(path)
  THEN [w EXCEPT !.entries = @ \cup {[path |-> path, kind |-> kind, point |-> "notdirectory"]}]
  ELSE [w EXCEPT !.unreadableNames = @ \cup {path}]

Pending(path, ancestors, group, isStart) ==
  [path |-> path, ancestors |-> ancestors, group |-> group, isStart |-> isStart]

(* take_leaf: a leaf that is counted is not listed once the walk stopped *)
TakeLeaf(w, path, kind, counted, group) ==
  LET counting == IF counted /\ ~Stopped(w) THEN Count(w, group) ELSE w
  IN IF counted /\ Stopped(counting) THEN counting ELSE List(counting, path, kind)

Point(w, path, point) ==
  [w EXCEPT !.entries = {IF e.path = path THEN [e EXCEPT !.point = point] ELSE e : e \in @}]

(* point_link, point_unresolvable *)
PointLink(w, link, a) ==
  CASE a.link = "none" -> Fail(w, "ChangedDuringScan")
    [] a.link = "unresolvable" /\ link.isStart -> Fail(w, "UnresolvableLink")
    [] a.link = "unresolvable" /\ ~IsText(link.path) ->
         [w EXCEPT !.unresolvable = @ \cup {link.path}]
    [] a.link = "notdirectory" -> w
    [] OTHER -> Point(w, link.path, a.link)

NoTree == [id |-> NoId, timed |-> TRUE, entries |-> {}, unreadable |-> {}, unread |-> {}, changed |-> {}]

Item(rel, what) == [rel |-> rel, what |-> what]
Items(tree) ==
  {Item(e.rel, e) : e \in tree.entries}
    \cup {Item(r, [kind |-> "unread"]) : r \in tree.unread}
    \cup {Item(r, [kind |-> "changed"]) : r \in tree.changed}
ItemBefore(a, b) ==
  \/ PathBefore(a.rel, b.rel)
  \/ a.rel = b.rel /\ a.what.kind = "changed" /\ b.what.kind # "changed"

RECURSIVE InPathOrder(_)
InPathOrder(items) ==
  IF items = {} THEN <<>>
  ELSE LET first == CHOOSE a \in items : \A b \in items \ {a} : ItemBefore(a, b)
       IN <<first>> \o InPathOrder(items \ {first})

ParentIds(tree, rel) ==
  {tree.id} \cup {e.id : e \in {d \in tree.entries : d.kind = "dir" /\ IsStrictPrefix(d.rel, rel)}}

UnreadableDirectory(path) == IF path = <<>> THEN "RootUnreadable" ELSE "UnreadableDirectory"

TakeItem(w, item, base, tree, ancestors, group) ==
  LET path == base \o item.rel
      kind == item.what.kind
      taken == TakeLeaf(w, path, kind, TRUE, group)
  IN CASE Failed(w) \/ Stopped(w) \/ Excluded(path) -> w
       [] kind = "changed" -> Fail(w, "ChangedDuringScan")
       [] kind = "unread" -> Fail(w, UnreadableDirectory(Front(path)))
       [] kind = "dir" /\ item.what.id \in ancestors -> [w EXCEPT !.cycle = {path}]
       [] kind = "dir" /\ item.rel \in tree.unreadable -> Fail(w, UnreadableDirectory(path))
       [] kind = "dir" -> List(w, path, "dir")
       [] kind = "link" /\ ~Stopped(taken) ->
            [taken EXCEPT !.pending =
               Append(@, Pending(path, ancestors \cup ParentIds(tree, item.rel), group, FALSE))]
       [] OTHER -> taken

(* take_subtree *)
TakeSubtree(w, base, tree, ancestors, group) ==
  CASE Failed(w) -> w
    [] tree.id \in ancestors -> [w EXCEPT !.cycle = {base}]
    [] <<>> \in tree.changed ->
         Fail(w, IF base = <<>> THEN "RootChanged" ELSE "ChangedDuringScan")
    [] <<>> \in tree.unreadable -> Fail(w, UnreadableDirectory(base))
    [] OTHER -> FoldLeft(LAMBDA v, item : TakeItem(v, item, base, tree, ancestors, group),
                         w, InPathOrder(Items(tree)))

(* take_link *)
TakeLink(w, link, a) ==
  LET pointed == PointLink(w, link, a)
  IN CASE Failed(w) -> w
       [] a.link # "directory" -> pointed
       [] OTHER -> TakeSubtree(pointed, link.path, a.tree, link.ancestors, link.group)

(* unreached_start *)
Unreached(w, why) ==
  CASE why = "missing" -> w
    [] why = "notdir" -> Fail(w, "StartBlocked")
    [] OTHER -> Fail(w, "StartUnreadable")

Reached(a) == a.kind \in {"file", "other", "dir", "link"}

TakeValue(w, start, a, root) ==
  LET link == Pending(start.path, {root}, start.group, FALSE)
      taken == TakeLeaf(w, start.path, a.kind, TRUE, start.group)
  IN CASE ~Reached(a) -> Unreached(w, a.kind)
       [] a.kind = "dir" -> TakeSubtree(w, start.path, a.tree, {root}, start.group)
       [] a.kind = "link" /\ ~Stopped(taken) -> TakeLink(taken, link, a)
       [] OTHER -> taken

TakeItself(w, start, a, root) ==
  LET counted == a.link # "directory"
      link == Pending(start.path, {root}, start.group, FALSE)
      taken == TakeLeaf(w, start.path, a.kind, counted, start.group)
  IN CASE ~Reached(a) -> Unreached(w, a.kind)
       [] a.kind = "dir" -> List(w, start.path, "dir")
       [] a.kind = "link" /\ ~(counted /\ Stopped(taken)) -> PointLink(taken, link, a)
       [] OTHER -> taken

TakeBelow(w, start, a, root) ==
  LET listed == List(w, start.path, "dir")
  IN CASE ~Reached(a) -> IF start.excluded THEN w ELSE Unreached(w, a.kind)
       [] a.kind = "link" /\ a.link # "directory" ->
            IF start.excluded THEN w
            ELSE TakeLink(w, Pending(start.path, {root}, start.group, TRUE), a)
       [] a.kind \in {"file", "other"} -> w
       [] ~start.descend -> listed
       [] ~a.tree.timed -> Fail(w, "UnreadableTime")
       [] OTHER -> TakeSubtree(listed, start.path, a.tree, {root}, start.group)

TakeStart(w, start, a, root) ==
  CASE Failed(w) -> w
    [] IsOnlyItself(start) -> TakeItself(w, start, a, root)
    [] start.withSelf -> TakeValue(w, start, a, root)
    [] OTHER -> TakeBelow(w, start, a, root)

(* take_directory: the one directory of a list of children *)
TakeDirectory(w, path, a) ==
  CASE ~Reached(a) -> Unreached(w, a.kind)
    [] a.kind = "link" /\ a.link # "directory" -> PointLink(w, Pending(path, {}, 1, TRUE), a)
    [] a.kind \in {"file", "other"} -> w
    [] ~a.tree.timed -> Fail(w, "UnreadableTime")
    [] OTHER -> TakeSubtree(List(w, path, "dir"), path, a.tree, {}, 1)

(* root_identity *)
RootFailure(a) ==
  CASE a.kind = "dir" -> "none"
    [] a.kind = "missing" -> "RootMissing"
    [] Reached(a) \/ a.kind = "notdir" -> "RootNotDirectory"
    [] OTHER -> "RootUnreadable"

TakeFirst(scope, got) ==
  LET starts == StartPaths(scope)
      root == got[1]
  IN CASE RootFailure(root) # "none" -> Fail(NewWalk, RootFailure(root))
       [] Len(questions) = 1 /\ questions[1].depth # "itself" ->
            TakeSubtree(NewWalk, <<>>, root.tree, {}, 1)
       [] scope.kind = "children" -> TakeDirectory(NewWalk, scope.path, got[2])
       [] OTHER -> FoldLeft(LAMBDA w, i : TakeStart(w, starts[i], got[i + 1], root.id),
                            NewWalk, [i \in DOMAIN starts |-> i])

TakeRound(w, got) ==
  FoldLeft(LAMBDA v, i : CASE Failed(v) -> v
                           [] request.scope.kind = "children" -> PointLink(v, w.pending[i], got[i])
                           [] OTHER -> TakeLink(v, w.pending[i], got[i]),
           [w EXCEPT !.pending = <<>>], [i \in DOMAIN got |-> i])

-----------------------------------------------------------------------------
(* Asking: one round's questions, one call of the file system at a time. *)

NoAnswer == [kind |-> "none", id |-> NoId, link |-> "none", tree |-> NoTree]

Init ==
  /\ \E c \in Cases : fs = c.tree /\ request = c.request
  /\ changes = 0
  /\ pc = "ask"
  /\ questions = FirstQuestions(request.scope)
  /\ answers = <<>>
  /\ answer = NoAnswer
  /\ wasDir = FALSE
  /\ stack = <<>>
  /\ children = {}
  /\ walk = NewWalk
  /\ seen = {fs}

Scanning == UNCHANGED <<fs, changes, request, seen>>
Current == questions[Len(answers) + 1]

(* collect: whether the root is a directory is noted before the questions *)
StartRound ==
  /\ pc = "ask"
  /\ wasDir' = (fs[<<>>].kind = "dir")
  /\ pc' = "entry"
  /\ Scanning /\ UNCHANGED <<questions, answers, answer, stack, children, walk>>

(* answer, answer_root: the information of the path itself.  The root is *)
(* followed, and one that cannot be passed is not readable               *)
LookAtEntry ==
  LET found == Itself(fs, Current.path)
      kind == Kind(fs, found)
      closed == Current.path = <<>> /\ kind = "dir" /\ "x" \notin fs[<<>>].rights
  IN /\ pc = "entry"
     /\ answer' = [NoAnswer EXCEPT !.kind = IF closed THEN "denied" ELSE kind,
                                   !.id = IF kind = "dir" THEN fs[found.at].id ELSE NoId]
     /\ pc' = CASE closed -> "answered"
                [] kind = "link" -> "link"
                [] kind = "dir" /\ Current.depth # "itself" -> "start"
                [] OTHER -> "answered"
     /\ Scanning /\ UNCHANGED <<questions, answers, wasDir, stack, children, walk>>

(* A bug: whatever cannot be followed counts as missing *)
LinkTargetOrMissing(kind) ==
  CASE kind = "dir" -> "directory"
    [] kind = "file" -> "notdirectory"
    [] kind = "other" -> kind
    [] OTHER -> "missing"

(* link_target *)
LinkTarget(kind) ==
  CASE kind = "dir" -> "directory"
    [] kind = "file" -> "notdirectory"
    [] kind \in {"other", "missing"} -> kind
    [] OTHER -> "unresolvable"

LookAtTarget ==
  /\ pc = "link"
  /\ answer' = [answer EXCEPT !.link = LinkTarget(Kind(fs, Followed(fs, Current.path)))]
  /\ pc' = IF answer'.link = "directory" /\ Current.depth # "itself" THEN "start" ELSE "answered"
  /\ Scanning /\ UNCHANGED <<questions, answers, wasDir, stack, children, walk>>

WentAway(why) == why \in {"missing", "notdir"}

(* unreadable_start: the tree below a start that may have gone since *)
StartRead(path, found) ==
  LET met == found.why = "ok"
  IN [NoTree EXCEPT
        !.id = IF met /\ fs[found.at].kind = "dir" THEN fs[found.at].id ELSE NoId,
        !.timed = met \/ Itself(fs, path).why = "ok",
        !.changed = IF WentAway(found.why) THEN {<<>>} ELSE {},
        !.unreadable = IF met \/ WentAway(found.why) THEN {} ELSE {<<>>}]

(* collect_below: the directory read first, with its identity *)
LookAtStart ==
  LET found == Followed(fs, Current.path)
  IN /\ pc = "start"
     /\ answer' = [answer EXCEPT !.tree = StartRead(Current.path, found)]
     /\ stack' = IF found.why = "ok" THEN <<<<>>>> ELSE <<>>
     /\ pc' = "below"
     /\ Scanning /\ UNCHANGED <<questions, answers, wasDir, children, walk>>

Reading == Current.path \o Last(stack)

ReadDirectory ==
  LET found == Followed(fs, Reading)
      kind == Kind(fs, found)
      listable == kind = "dir" /\ "r" \in fs[found.at].rights
  IN /\ pc = "below"
     /\ stack # <<>>
     /\ children' = IF listable THEN Inside(fs, found.at) ELSE {}
     /\ answer' = CASE listable -> answer
                    [] kind \in {"missing", "notdir", "file", "other"} ->
                         [answer EXCEPT !.tree.changed = @ \cup {Last(stack)}]
                    [] OTHER -> [answer EXCEPT !.tree.unreadable = @ \cup {Last(stack)}]
     /\ pc' = IF listable THEN "children" ELSE "below"
     /\ stack' = IF listable THEN stack ELSE Front(stack)
     /\ Scanning /\ UNCHANGED <<questions, answers, wasDir, walk>>

(* A child that is excluded is not looked at.  Children come in any order;  *)
(* directories wait on top of the stack, which the one being read has left  *)
LookAtChild ==
  \E name \in children :
    LET rel == Append(Last(stack), name)
        path == Append(Reading, name)
        found == Itself(fs, path)
        kind == Kind(fs, found)
        entry == [rel |-> rel, kind |-> kind, id |-> IF kind = "dir" THEN fs[found.at].id ELSE NoId]
        descend == kind = "dir" /\ Current.depth = "all"
        waiting == IF descend THEN Front(stack) \o <<rel, Last(stack)>> ELSE stack
    IN /\ pc = "children"
       /\ children' = children \ {name}
       /\ IF Excluded(path)
          THEN UNCHANGED <<answer, stack>>
          ELSE /\ answer' = CASE found.why = "ok" ->
                                   [answer EXCEPT !.tree.entries = @ \cup {entry}]
                              [] found.why = "missing" ->
                                   [answer EXCEPT !.tree.changed = @ \cup {rel}]
                              [] OTHER -> [answer EXCEPT !.tree.unread = @ \cup {rel}]
               /\ stack' = waiting
       /\ Scanning /\ UNCHANGED <<pc, questions, answers, wasDir, walk>>

DirectoryRead ==
  /\ pc = "children"
  /\ children = {}
  /\ stack' = Front(stack)
  /\ pc' = "below"
  /\ Scanning /\ UNCHANGED <<questions, answers, answer, wasDir, children, walk>>

Answered ==
  /\ pc = "answered" \/ (pc = "below" /\ stack = <<>>)
  /\ answers' = Append(answers, answer)
  /\ answer' = NoAnswer
  /\ pc' = IF Len(answers') = Len(questions) THEN "take" ELSE "entry"
  /\ Scanning /\ UNCHANGED <<questions, wasDir, stack, children, walk>>

(* scan, scan_children: the answers are taken, unless the root went away    *)
(* while they were collected, and links met on the way make another round   *)
Take ==
  LET rootGone == wasDir /\ fs[<<>>].kind # "dir"
      taken == CASE rootGone -> Fail(walk, "RootChanged")
                 [] walk = NewWalk -> TakeFirst(request.scope, answers)
                 [] OTHER -> TakeRound(walk, answers)
      again == ~Failed(taken) /\ ~Stopped(taken) /\ taken.pending # <<>>
      depth == IF request.scope.kind = "children" THEN "itself" ELSE "all"
  IN /\ pc = "take"
     /\ walk' = taken
     /\ questions' = IF again
                     THEN [i \in DOMAIN taken.pending |-> Question(taken.pending[i].path, depth)]
                     ELSE questions
     /\ answers' = <<>>
     /\ pc' = IF again THEN "ask" ELSE "done"
     /\ Scanning /\ UNCHANGED <<answer, wasDir, stack, children>>

(* Others change the tree between two calls *)
Change ==
  \E change \in Changes :
    /\ pc # "done"
    /\ changes < MaxChanges
    /\ fs' = Alter(change)
    /\ fs' # fs
    /\ changes' = changes + 1
    /\ seen' = seen \cup {fs'}
    /\ UNCHANGED <<request, pc, questions, answers, answer, wasDir, stack, children, walk>>

Done == pc = "done" /\ UNCHANGED vars

Next == \/ StartRound \/ LookAtEntry \/ LookAtTarget \/ LookAtStart \/ ReadDirectory
        \/ LookAtChild \/ DirectoryRead \/ Answered \/ Take \/ Change \/ Done

Spec == Init /\ [][Next]_vars

-----------------------------------------------------------------------------
(* What a scan promises *)

Listed == {e.path : e \in walk.entries}

(* Every path a followed tree shows, up to MaxDepth names, and what is there *)
PathsUpTo(n) == UNION {[1..k -> Names] : k \in 1..n}
Shown(path) == \A f \in seen : Itself(f, path).why = "ok"
WasOnce(path, kind) ==
  \E f \in seen : kind \in {Kind(f, Itself(f, path)), Kind(f, Followed(f, path))}

(* What a request asks for: a value or a directory stands for what is below *)
(* it, and a value that is no directory for itself                          *)
Asked(path) ==
  LET scope == request.scope
      below(paths) == \E q \in Range(paths) : IsStrictPrefix(q, path)
      leaf(paths) == path \in Range(paths) /\ ~WasOnce(path, "dir")
  IN CASE scope.kind = "include" -> below(scope.values) \/ leaf(scope.values)
       [] scope.kind = "dirs" -> below(scope.dirs)
       [] scope.kind = "narrowed" ->
            below(scope.dirs) /\ (below(scope.values) \/ leaf(scope.values))
       [] scope.kind = "named" -> path \in Range(scope.paths)
       [] scope.kind = "children" -> Front(path) = scope.path
       [] OTHER -> TRUE

(* A scan that ends without a failure and says neither that it stopped at   *)
(* the limit nor that it met a cycle has listed, by its path or among the   *)
(* names that cannot be shown, every path asked for and not excluded that   *)
(* was there the whole time, whatever others changed meanwhile and however  *)
(* many links lead to it (drive.rs scan, walk.rs take_subtree)              *)
NothingIsMissed ==
  pc = "done" /\ ~Failed(walk) /\ ~Stopped(walk) =>
    \A path \in PathsUpTo(MaxDepth) \ (Listed \cup walk.unreadableNames) :
      ~(/\ Asked(path)
        /\ ~Excluded(path) \/ request.scope.kind = "named"
        /\ Shown(path))

(* What a listing says was so at some time during the scan: each entry was  *)
(* there with its kind, and a link led where the listing says it leads      *)
(* (walk_links.rs point_link, start_take.rs)                                *)
ListedWasThere ==
  pc = "done" /\ ~Failed(walk) =>
    \A e \in walk.entries :
      /\ WasOnce(e.path, e.kind)
      /\ e.kind = "link" /\ e.point = "directory" => WasOnce(e.path, "dir")
      /\ e.kind = "link" /\ e.point \in {"other", "missing"} => WasOnce(e.path, e.point)

=============================================================================
