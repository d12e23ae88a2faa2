---------------------------- MODULE Destination ----------------------------
(***************************************************************************)
(* The machine a merge writes to: the entries below one root_dir, and what *)
(* a single request of the CLI does to them when the local machine or the  *)
(* agent carries it out (machine_ops, the agent's dispatcher).  Concurrent *)
(* ordinary work on the same tree is the actor called "others".            *)
(*                                                                         *)
(* Path i of 1..N may lie in the directory D below root_dir (InDir); every *)
(* other path lies directly in root_dir.                                   *)
(***************************************************************************)
EXTENDS Naturals, FiniteSets

CONSTANTS
  N,           \* number of paths the command changes
  InDir,       \* the paths that lie in D
  OthersMay,   \* OthersMay[i]: the entries others may put at path i
  OthersDir,   \* the states others may put D into
  RootMayGo    \* whether others may remove root_dir

Paths == 1..N

(***************************************************************************)
(* What a path can hold.  "old" and "oldlink" are what the comparison saw, *)
(* "new" and "newlink" what the merge puts there, "partial" a file that is *)
(* cut short, "other" and "otherlink" anything else; "special" is what is  *)
(* neither a file nor a link, a directory for one.                         *)
(***************************************************************************)
Files == {"old", "new", "partial", "other"}
Links == {"oldlink", "newlink", "otherlink"}
Entries == {"absent", "special"} \cup Files \cup Links

\* D: missing, made by a write of this command, made by others, a plain file, a
\* link to another directory, or a link that leads nowhere.
DirStates == {"absent", "made", "foreign", "blocked", "moved", "loop"}

\* The states in which D can hold entries.
OpenDirs == {"made", "foreign", "moved"}

ASSUME DestinationAssumption ==
  /\ N \in Nat \ {0}
  /\ InDir \subseteq Paths
  /\ OthersMay \in [Paths -> SUBSET Entries]
  /\ OthersDir \subseteq DirStates \ {"made"}
  /\ RootMayGo \in BOOLEAN

VARIABLES
  dest,     \* dest[i]: what path i holds
  dir,      \* state of D
  root,     \* whether root_dir is there
  perm,     \* perm[i], perm[0] for D: "initial" or "set" by a chmod of the merge
  effects,  \* history: effects[i] what requests of this merge did at path i
  touched,  \* history: paths others changed since the merge began
  raced     \* history: paths others changed since their last recheck began

fs == <<dest, dir, root, perm>>
destVars == <<dest, dir, root, perm, effects, touched, raced>>

Ops == {"write", "remove", "link", "chmoddir", "chmod"}
Effects == {"begin"} \cup Ops

DestinationTypeOK ==
  /\ dest \in [Paths -> Entries]
  /\ dir \in DirStates
  /\ root \in BOOLEAN
  /\ perm \in [0..N -> {"initial", "set"}]
  /\ effects \in [Paths -> SUBSET Effects]
  /\ touched \in SUBSET Paths
  /\ raced \in SUBSET Paths

\* The parent of path i is there, or a write may make it.
ParentUsable(i) == root /\ (i \in InDir => dir \in OpenDirs \cup {"absent"})

----------------------------------------------------------------------------
(***************************************************************************)
(* Carrying out one request.  st is how far the request is ("sent", or     *)
(* "begun" for a write that has cut the file short), ans how far it is     *)
(* after the step: "begun" or the answer.                                  *)
(***************************************************************************)
Effect(i, e) == effects' = [effects EXCEPT ![i] = @ \cup {e}]

\* create_parents_with: root_dir is never made, D is made when it is missing.
MakeParents(i) ==
  dir' = IF i \in InDir /\ dir = "absent" THEN "made" ELSE dir

NewEntryPerm(i) ==
  perm' = [p \in 0..N |-> IF p = i \/ (p = 0 /\ i \in InDir /\ dir = "absent")
                          THEN "initial" ELSE perm[p]]

\* open_for_write: an existing regular file is cut short in place; a missing
\* one is made new, with its parents.
BeginWrite(i, st, ans) ==
  /\ st = "sent" /\ ans = "begun"
  /\ \/ dest[i] \in Files /\ UNCHANGED <<dir, perm>>
     \/ /\ dest[i] = "absent"
        /\ ParentUsable(i)
        /\ MakeParents(i) /\ NewEntryPerm(i)
  /\ dest' = [dest EXCEPT ![i] = "partial"]
  /\ Effect(i, "begin")
  /\ UNCHANGED root

\* The rest of the content goes to the file opened first.  If others removed
\* it or put another file in its place the path keeps what they put there; if
\* they wrote into the same file the two contents mix.
FinishWrite(i, st, ans) ==
  /\ st = "begun" /\ ans = "ok"
  /\ \/ dest[i] = "partial" /\ dest' = [dest EXCEPT ![i] = "new"]
     \/ dest[i] # "partial" /\ UNCHANGED dest
     \/ dest[i] \in {"old", "other"} /\ dest' = [dest EXCEPT ![i] = "partial"]
  /\ Effect(i, "write")
  /\ UNCHANGED <<dir, root, perm>>

\* remove_file: unlinks a file or the link itself.
Unlink(i, st, ans) ==
  /\ st = "sent" /\ ans = "ok"
  /\ dest[i] \in Files \cup Links
  /\ dest' = [dest EXCEPT ![i] = "absent"]
  /\ Effect(i, "remove")
  /\ UNCHANGED <<dir, root, perm>>

\* create_symlink: never replaces what is there.
MakeLink(i, st, ans) ==
  /\ st = "sent" /\ ans = "ok"
  /\ dest[i] = "absent" /\ ParentUsable(i)
  /\ MakeParents(i) /\ NewEntryPerm(i)
  /\ dest' = [dest EXCEPT ![i] = "newlink"]
  /\ Effect(i, "link")
  /\ UNCHANGED root

ChmodFile(i, st, ans) ==
  /\ st = "sent" /\ ans = "ok"
  /\ dest[i] # "absent"
  /\ perm' = [perm EXCEPT ![i] = "set"]
  /\ Effect(i, "chmod")
  /\ UNCHANGED <<dest, dir, root>>

ChmodDir(i, st, ans) ==
  /\ st = "sent" /\ ans = "ok"
  /\ dir # "absent" /\ root
  /\ perm' = [perm EXCEPT ![0] = "set"]
  /\ Effect(i, "chmoddir")
  /\ UNCHANGED <<dest, dir, root>>

\* The machine finds nothing to act on, or a plain file on the way.
NotFound(o, i, st, ans) ==
  /\ st = "sent" /\ ans = "notfound"
  /\ \/ o \in {"remove", "chmod"} /\ dest[i] = "absent"
     \/ o = "chmoddir" /\ (~root \/ dir = "absent")
     \/ o \in {"write", "link"} /\ dest[i] = "absent" /\ root /\ ~ParentUsable(i)
  /\ UNCHANGED <<fs, effects>>

\* create_parents_with looks at root_dir before it makes anything.
RootGone(o, i, st, ans) ==
  /\ st = "sent" /\ ans = "rootgone"
  /\ o \in {"write", "link"} /\ ~root
  /\ UNCHANGED <<fs, effects>>

\* Any other failure the machine answers with: no permission, something is
\* already there, or the disk fills up while the content is written.
Refuse(st, ans) ==
  /\ st \in {"sent", "begun"} /\ ans = "refused"
  /\ UNCHANGED <<fs, effects>>

Perform(o, i, st, ans) ==
  \/ o = "write" /\ (BeginWrite(i, st, ans) \/ FinishWrite(i, st, ans))
  \/ o = "remove" /\ Unlink(i, st, ans)
  \/ o = "link" /\ MakeLink(i, st, ans)
  \/ o = "chmod" /\ ChmodFile(i, st, ans)
  \/ o = "chmoddir" /\ ChmodDir(i, st, ans)
  \/ NotFound(o, i, st, ans)
  \/ RootGone(o, i, st, ans)
  \/ Refuse(st, ans)

----------------------------------------------------------------------------
(***************************************************************************)
(* Others: ordinary concurrent work on the same tree.                      *)
(***************************************************************************)
Disturb(S) ==
  /\ touched' = touched \cup S
  /\ raced' = raced \cup S

OthersChange(i) ==
  /\ root
  /\ \E e \in OthersMay[i] \ {dest[i]}:
       /\ e # "absent" => (i \in InDir => dir \in OpenDirs)
       /\ dest' = [dest EXCEPT ![i] = e]
  /\ perm' = [perm EXCEPT ![i] = "initial"]
  /\ Disturb({i})
  /\ UNCHANGED <<dir, root, effects>>

\* Others make, remove or replace D; what was in it is gone.
OthersChangeDir ==
  /\ root
  /\ \E d \in OthersDir \ {dir}:
       /\ d = "foreign" => dir # "made"
       /\ dir' = d
       /\ dest' = [i \in Paths |-> IF i \in InDir THEN "absent" ELSE dest[i]]
  /\ perm' = [p \in 0..N |-> IF p = 0 \/ p \in InDir THEN "initial" ELSE perm[p]]
  /\ Disturb(InDir)
  /\ UNCHANGED <<root, effects>>

OthersRemoveRoot ==
  /\ RootMayGo /\ root
  /\ root' = FALSE
  /\ dir' = "absent"
  /\ dest' = [i \in Paths |-> "absent"]
  /\ perm' = [p \in 0..N |-> "initial"]
  /\ Disturb(Paths)
  /\ UNCHANGED effects

Others == OthersChangeDir \/ OthersRemoveRoot \/ \E i \in Paths: OthersChange(i)
=============================================================================
