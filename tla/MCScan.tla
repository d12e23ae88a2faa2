------------------------------- MODULE MCScan -------------------------------
(***************************************************************************)
(* Instances of Scan for TLC: two directories a and b below the root, with *)
(* at most three entries, and names c to e for files and links.  5 is not  *)
(* UTF-8.  The trees hold links to a directory, to each other, to an       *)
(* ancestor, to nothing and to themselves; the requests name whole trees,  *)
(* directories, values and single paths.                                   *)
(***************************************************************************)
EXTENDS Scan

Root == <<>>
A == <<1>>
B == <<2>>
C == <<3>>
AC == <<1, 3>>
AD == <<1, 4>>
BC == <<2, 3>>
BodyE == <<2, 5>>

Places == {Root, A, B, C, AC, AD, BC, BodyE}
SomeNames == 1..5
Odd == {5}

Gone == [kind |-> "gone"]
File == [kind |-> "file"]
Other == [kind |-> "other"]
Dir(id) == [kind |-> "dir", id |-> id, rights |-> {"r", "x"}]
DirWith(id, rights) == [kind |-> "dir", id |-> id, rights |-> rights]
Link(to) == [kind |-> "link", to |-> to]

Tree(nodes) == nodes @@ (Root :> Dir(1)) @@ [p \in Places |-> Gone]

Plain == Tree(A :> Dir(2) @@ AC :> File @@ AD :> File @@ C :> Link(A))
Twice == Tree(A :> Dir(2) @@ AC :> File @@ B :> Link(A) @@ C :> Link(A))
Mutual == Tree(A :> Dir(2) @@ B :> Dir(3) @@ AC :> Link(B) @@ BC :> Link(A) @@ BodyE :> File)
Upwards == Tree(A :> Dir(2) @@ AC :> Link(Root) @@ AD :> File)
Strange == Tree(A :> Dir(2) @@ AC :> Other @@ AD :> Link(AD) @@ B :> Dir(3) @@ BC :> Link(AC)
                @@ BodyE :> Link(BodyE))
Closed(rights) == Tree(A :> DirWith(2, rights) @@ AC :> File @@ C :> Link(A))
Nothing == Tree(Root :> Gone)

On(scope, exclude, max) == [scope |-> scope, exclude |-> exclude, max |-> max]
All == [kind |-> "whole"]
Include(values) == [kind |-> "include", values |-> values]
Dirs(dirs) == [kind |-> "dirs", dirs |-> dirs]
Both(dirs, values) == [kind |-> "narrowed", dirs |-> dirs, values |-> values]
Named(paths) == [kind |-> "named", paths |-> paths]
ChildrenOf(path) == [kind |-> "children", path |-> path]

Case(tree, what) == [tree |-> tree, request |-> what]
SomeCases ==
  {Case(Plain, On(All, {}, 9)), Case(Plain, On(All, {3}, 9)), Case(Plain, On(All, {}, 3)),
   Case(Plain, On(Include(<<AC, A, C>>), {}, 9)), Case(Plain, On(Include(<<C, AD>>), {1}, 9)),
   Case(Plain, On(Dirs(<<C, A>>), {}, 2)), Case(Plain, On(Both(<<A, C>>, <<AC, <<3, 4>>>>), {}, 9)),
   Case(Plain, On(Both(<<C>>, <<Root>>), {3}, 9)),
   Case(Plain, On(Named(<<C, AC>>), {3}, 1)), Case(Plain, On(ChildrenOf(Root), {}, 9)),
   Case(Plain, On(ChildrenOf(C), {}, 9)),
   Case(Twice, On(All, {}, 5)), Case(Mutual, On(All, {}, 9)), Case(Mutual, On(Dirs(<<A>>), {}, 9)),
   Case(Upwards, On(All, {}, 9)), Case(Strange, On(All, {}, 9)),
   Case(Strange, On(Dirs(<<AD, AC, BC>>), {}, 9)), Case(Strange, On(ChildrenOf(B), {}, 9)),
   Case(Closed({"r"}), On(All, {}, 9)), Case(Closed({"x"}), On(Include(<<A>>), {}, 9)),
   Case(Closed({"r"}), On(Include(<<AC>>), {}, 9)), Case(Nothing, On(All, {}, 9))}

SomeChanges ==
  {[at |-> A, node |-> Gone], [at |-> A, node |-> Link(B)], [at |-> A, node |-> File],
   [at |-> B, node |-> Dir(4)], [at |-> AC, node |-> File], [at |-> AC, node |-> Dir(5)],
   [at |-> AC, node |-> Link(Root)], [at |-> AD, node |-> Gone], [at |-> BC, node |-> File],
   [at |-> C, node |-> Link(B)], [at |-> C, node |-> Dir(6)], [at |-> Root, node |-> Gone],
   [at |-> Root, node |-> File]}

=============================================================================
