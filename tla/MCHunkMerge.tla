---------------------------- MODULE MCHunkMerge ----------------------------
(***************************************************************************)
(* Instances of HunkMerge for TLC: all short texts of two lines that occur *)
(* twice, longer ones with several hunks, and three-way contents.          *)
(***************************************************************************)
EXTENDS HunkMerge

\* A text from its words; the last line may lack its end.
Words(words, ended) ==
  [i \in DOMAIN words |-> Line(words[i], ended \/ i < Len(words), 1)]
Utf8(lines) == TextOf("utf8", FALSE, lines)
Start(l, r, ref) == [left |-> l, right |-> r, reference |-> ref]
NoReference == Holding("none")

Short == {Words(w, e) : w \in UNION {[1 .. n -> {"a", "b"}] : n \in 0 .. 3}, e \in BOOLEAN}
Pairs == {Start(Utf8(l), Utf8(r), NoReference) : l \in Short, r \in Short}

\* Changes that are far enough from each other to be shown as two hunks, or not.
Long == {Words(w, TRUE) : w \in {<<"a", "b", "c", "d", "e">>, <<"x", "b", "c", "d", "y">>,
                                 <<"b", "c", "d">>, <<"x", "b", "y", "d", "e", "f", "z">>,
                                 <<"a", "b", "c", "c", "d", "e", "f">>}}
LongPairs == {Start(Utf8(l), Utf8(r), NoReference) : l \in Long, r \in Long}

\* The same text in other bytes, a mark at its start, another encoding, sides without a text.
Sjis(raw, words) == TextOf("sjis", FALSE, [i \in DOMAIN words |-> Line(words[i], TRUE, raw)])
Marked == TextOf("utf8", TRUE, Words(<<"a", "b">>, TRUE))
Others ==
  {Start(Sjis(1, <<"a", "b", "c">>), Sjis(2, w), NoReference) :
     w \in {<<"a", "b", "c">>, <<"a", "x", "c">>, <<"b", "c", "d">>}}
    \cup {Start(Marked, r, NoReference) : r \in {Utf8(Words(<<"b">>, TRUE)), Holding("absent"),
                                                 Sjis(1, <<"a">>)}}
    \cup {Start(l, Marked, NoReference) : l \in {Utf8(Words(<<"b">>, TRUE)), Holding("absent")}}
    \cup {Start(l, r, ref) :
            l \in {Marked, Holding("binary"), Holding("invalid"), Holding("unavailable")},
            r \in {Utf8(Words(<<"b">>, TRUE)), Holding("nonFile"), Holding("absent")},
            ref \in {Holding("absent"), Holding("unavailable"), Holding("invalid"), Marked}}

\* Changes of two sides to one reference.
Ours == {<<"a", "b", "c", "d">>, <<"x", "b", "c", "d">>, <<"a", "x", "c", "d">>, <<"a", "x", "d">>,
         <<"x", "d">>, <<"a", "b", "c", "x">>, <<"x", "b", "c", "y">>, <<"x", "y">>, <<"a", "d">>,
         <<"a", "b", "x", "c", "d">>, <<"x", "a", "y", "c", "d">>, <<"b", "x", "d">>,
         <<"x", "c", "y">>, <<"x", "b", "y">>}
Theirs ==
  {[i \in DOMAIN w |-> CASE w[i] = "x" -> "p" [] w[i] = "y" -> "q" [] OTHER -> w[i]] : w \in Ours}
ThreeWay ==
  {Start(Utf8(Words(l, TRUE)), Utf8(Words(r, TRUE)), Utf8(Words(<<"a", "b", "c", "d">>, TRUE))) :
     l \in Ours, r \in Ours \cup Theirs}

\* And to references whose lines occur twice, so that one diff has several scripts.
Twice == {Words(w, TRUE) : w \in UNION {[1 .. n -> {"a", "b"}] : n \in 0 .. 3}}
Ambiguous == {Start(Utf8(l), Utf8(r), Utf8(Words(ref, TRUE))) :
                l \in Twice, r \in Twice, ref \in {<<"a", "a">>, <<"a", "b", "a">>}}

AllStarts == Pairs \cup LongPairs \cup Others \cup ThreeWay \cup Ambiguous
=============================================================================
