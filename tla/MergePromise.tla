---------------------------- MODULE MergePromise ----------------------------
(***************************************************************************)
(* What merge and sync promise of one destination, without requests,       *)
(* connections or others: the paths are settled one after the other, a     *)
(* change is asked for at most once and only when its path has its turn,   *)
(* what is there is kept first, and once the destination is held back      *)
(* nothing more is asked of it.                                            *)
(***************************************************************************)
EXTENDS Naturals

CONSTANTS
  Paths,      \* the paths, numbered in the order they are taken
  NeedsCopy,  \* those of which a copy is kept before they change
  Rank        \* the changes a path may need, and the order they come in

VARIABLES
  result,  \* result[i]: what is reported of path i
  asked,   \* asked[i][o]: how often change o was asked for
  kept,    \* paths of which a copy is kept
  held,    \* whether the destination is held back
  dry      \* whether nothing is to be changed

promised == <<result, asked, kept, held, dry>>

Nothing(i) == \A o \in DOMAIN Rank : asked[i][o] = 0
Turn(i) == result[i] = "pending" /\ \A j \in Paths : j < i => result[j] # "pending"
MayHold == held' \in BOOLEAN /\ (held => held')

Init ==
  /\ result = [i \in Paths |-> "pending"]
  /\ asked = [i \in Paths |-> [o \in DOMAIN Rank |-> 0]]
  /\ kept = {}
  /\ held = FALSE
  /\ dry \in BOOLEAN

(* A copy is kept of a path of which nothing was asked yet *)
Keep(i) ==
  /\ Turn(i) /\ Nothing(i) /\ ~dry
  /\ kept' = kept \cup {i}
  /\ UNCHANGED <<result, asked, held, dry>>

Ask(i, o) ==
  /\ Turn(i) /\ ~held /\ ~dry
  /\ i \in NeedsCopy => i \in kept
  /\ \A p \in DOMAIN Rank : Rank[p] >= Rank[o] => asked[i][p] = 0
  /\ asked' = [asked EXCEPT ![i][o] = 1]
  /\ UNCHANGED <<result, kept, held, dry>>

(* A path is done or failed after a change only if something was asked for *)
Settle(i, r) ==
  /\ Turn(i)
  /\ r = "Planned" => dry
  /\ r \in {"Done", "FailedAfterChange"} => ~Nothing(i)
  /\ result' = [result EXCEPT ![i] = r]
  /\ MayHold
  /\ UNCHANGED <<asked, kept, dry>>

(* Nothing can be found out of the destination *)
RefuseAll ==
  /\ \A i \in Paths : result[i] = "pending" /\ Nothing(i)
  /\ result' = [i \in Paths |-> "Failed"]
  /\ MayHold
  /\ UNCHANGED <<asked, kept, dry>>

Hold == MayHold /\ UNCHANGED <<result, asked, kept, dry>>

Next ==
  \/ \E i \in Paths :
       \/ Keep(i)
       \/ \E o \in DOMAIN Rank : Ask(i, o)
       \/ \E r \in {"Planned", "Done", "Failed", "FailedAfterChange"} : Settle(i, r)
  \/ RefuseAll \/ Hold

Spec == Init /\ [][Next]_promised
=============================================================================
