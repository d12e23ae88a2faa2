--------------------------- MODULE MCAgentSession ---------------------------
(***************************************************************************)
(* Instances of AgentSession for TLC: a file F two directories below the   *)
(* root, and a name M beside them.  Each start has a short program and the *)
(* faults that may meet it.                                                *)
(***************************************************************************)
EXTENDS AgentSession

Root == <<>>
DirA == <<"a">>
DirB == <<"a", "b">>
F == <<"a", "b", "f">>
M == <<"m">>
SomePaths == {Root, DirA, DirB, F, M}

Entry(path, kind, parts) == [path |-> path, kind |-> kind, parts |-> parts]
Bare == <<Entry(Root, "dir", <<>>)>>
Full == Bare \o <<Entry(DirA, "dir", <<>>), Entry(DirB, "dir", <<>>),
                  Entry(F, "file", <<<<"old", 1>>, <<"old", 2>>, <<"old", 3>>>>),
                  Entry(M, "file", <<<<"m", 1>>>>)>>
Upper == Bare \o <<Entry(DirA, "dirlink", <<>>)>>
InTheWay == Bare \o <<Entry(DirA, "file", <<>>)>>

Write(name, parts) == [kind |-> "write", path |-> F, name |-> name, parts |-> parts]
Symlink == [kind |-> "symlink", path |-> F]
RemoveF == [kind |-> "remove", path |-> F]
ChmodF(special) == [kind |-> "chmod", path |-> F, special |-> special, bits |-> 6]
Read(bad) == [kind |-> "read", paths |-> <<F, M>>, bad |-> bad]
Huge == [kind |-> "huge"]

Faults(moves, fails, losses, garbled) ==
  [moves |-> moves, fails |-> fails, losses |-> losses, garbled |-> garbled]
With(root, tree, ops, faults) == [sudo |-> root, tree |-> tree, program |-> ops, budget |-> faults]

Moves == {[path |-> F, kind |-> "file"], [path |-> F, kind |-> "gone"],
          [path |-> F, kind |-> "rename", to |-> M], [path |-> F, kind |-> "dir"],
          [path |-> DirA, kind |-> "dir"], [path |-> DirB, kind |-> "gone"],
          [path |-> DirB, kind |-> "file"], [path |-> DirB, kind |-> "dirlink"],
          [path |-> Root, kind |-> "gone"], [path |-> M, kind |-> "link"]}

AllStarts ==
  {With(root, tree, <<op>>, Faults(2, 1, 0, 0)) :
     root \in BOOLEAN, tree \in {Bare, Full, Upper, InTheWay}, op \in {Write("w", 1), Symlink}}
    \cup {With(root, tree, <<op>>, Faults(1, 2, 0, 0)) :
            root \in BOOLEAN, tree \in {Bare}, op \in {Write("w", 1), Symlink}}
    \cup {With(TRUE, tree, <<Write("w", 2), Write("v", 2)>>, Faults(1, 1, 0, 0)) :
            tree \in {Bare, Full}}
    \cup {With(FALSE, Full, <<op, Read(FALSE)>>, Faults(1, 1, 0, 0)) :
            op \in {RemoveF, ChmodF(TRUE), ChmodF(FALSE)}}
    \cup {With(FALSE, Full, <<Read(bad), op>>, Faults(0, 0, 2, 1)) :
            bad \in BOOLEAN, op \in {Read(FALSE), RemoveF, Huge, Write("w", 2)}}
    \cup {With(FALSE, Full, <<Write("w", 2), Read(FALSE), Huge>>, Faults(0, 1, 2, 0))}

\* The instance is one that the theorems of AgentWritesProofs are about.
ASSUME TheoremsApply == PartsAreReadable /\ FilesAreMovedAside /\ DirectoriesStay
=============================================================================
