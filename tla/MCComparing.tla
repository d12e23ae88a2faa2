----------------------------- MODULE MCComparing -----------------------------
(***************************************************************************)
(* Instances of Comparing for TLC: a directory D with a file F, and a file *)
(* G beside it.  The contents "a" and "b" have the same size, "big" is     *)
(* over the limit and "long" is just under it.                             *)
(***************************************************************************)
EXTENDS Comparing, TLC

D == <<"d">>
F == <<"d", "f">>
G == <<"g">>
SomePaths == {D, F, G}
SizeOf == [b \in {"a", "b", "big", "long", "mixed"} |->
            CASE b = "big" -> 9 [] b = "long" -> 8 [] OTHER -> 4]

At(body, at) == [FileOf(body) EXCEPT !.at = at]
Rough(body, at) == [At(body, at) EXCEPT !.digits = 1]
DirThing == [kind |-> "dir"]
LinkThing(to, text, body, out) ==
  [kind |-> "link", target |-> text, to |-> to, body |-> body, out |-> out, loop |-> FALSE]
Tree(d, f, g) == D :> d @@ F :> f @@ G :> g
With(f) == Tree(DirThing, f, NoWorld)

A == At("a", 100)
B == At("b", 200)
\* Written at nearly the time of A, with another content.
Near == Rough("b", 101)
Inner == LinkThing("notDirectory", "t", "a", FALSE)
InnerB == LinkThing("notDirectory", "t", "b", FALSE)
Outer == LinkThing("notDirectory", "t", "b", TRUE)
ToDir == LinkThing("directory", "e", "none", FALSE)

OnlyG == {G}
Typed(named) == {[name |-> n, slash |-> FALSE, glob |-> FALSE] : n \in named}
Opts(command, named, delete, dry, force, checksum) ==
  [command |-> command, paths |-> Typed(named), delete |-> delete, dryRun |-> dry,
   force |-> force, checksum |-> checksum, followExternal |-> FALSE,
   rights |-> IF command = "sync" THEN <<"one", "two">> ELSE <<"one">>,
   withRef |-> command # "sync"]

AllSides == {Left, Ref, "one", "two"}
World(l, one, ref, two) == Left :> l @@ "one" :> one @@ Ref :> ref @@ "two" :> two
None == Tree(NoWorld, NoWorld, NoWorld)
Cyclic == LinkThing("unresolvable", "u", "none", FALSE)

\* One destination and a reference.
Compared3 ==
  {World(With(l), With(r), With(A), None) : l \in {B, NoWorld}, r \in {A, Near, NoWorld}}
    \cup {World(With(B), Tree(A, NoWorld, NoWorld), With(A), None),
          World(With(A), With(Near), With(A), None),
          World(With(At("long", 300)), With(Near), With(A), None),
          World(With(Inner), With(Outer), With(Inner), None),
          World(With(Inner), With(InnerB), With(Inner), None),
          World(With(B), Tree(ToDir, B, NoWorld), With(NoWorld), None),
          World(With(At("big", 1)), With(A), None, None),
          World(With(NoWorld), With(Inner), With(NoWorld), None),
          World(With(NoWorld), Tree(DirThing, B, A), With(NoWorld), None),
          World(Tree(DirThing, B, A), Tree(A, NoWorld, NoWorld), With(NoWorld), None)}
\* Two destinations.
Compared4 ==
  {World(With(B), With(A), None, With(r)) : r \in {A, NoWorld}}
    \cup {World(Tree(DirThing, B, A), Tree(DirThing, B, NoWorld), None, With(A)),
          World(With(B), Tree(DirThing, A, A), None, With(A)),
          World(With(Cyclic), With(A), None, With(A))}
Moves == {<<"one", F, A>>, <<"one", F, B>>, <<"one", F, NoWorld>>, <<"one", D, A>>,
          <<Left, F, A>>, <<Left, F, NoWorld>>, <<Left, G, B>>, <<"two", F, NoWorld>>, <<"two", F, Cyclic>>}

\* The instance is one that the theorems of ComparingProofs are about.
ASSUME TheoremsApply == ReferenceIsLeftAlone

OneOptions ==
  {Opts("merge", {<<>>}, TRUE, FALSE, FALSE, FALSE),
   Opts("merge", {F}, FALSE, FALSE, FALSE, FALSE),
   Opts("merge", {D}, FALSE, TRUE, TRUE, FALSE),
   Opts("merge", {F, G}, TRUE, FALSE, TRUE, FALSE),
   Opts("hunks", {F}, FALSE, FALSE, FALSE, FALSE),
   Opts("hunks", {F}, FALSE, FALSE, TRUE, FALSE),
   Opts("status", {}, FALSE, FALSE, FALSE, FALSE),
   Opts("status", {}, FALSE, FALSE, FALSE, TRUE),
   Opts("diff", {F}, FALSE, FALSE, FALSE, FALSE)}
SyncOptions ==
  {Opts("sync", {<<>>}, TRUE, FALSE, FALSE, FALSE),
   Opts("sync", {F, G}, TRUE, FALSE, TRUE, FALSE)}

SyncStarts == [world : Compared4, opts : SyncOptions]
AllStarts == [world : Compared3, opts : OneOptions] \cup SyncStarts
=============================================================================
