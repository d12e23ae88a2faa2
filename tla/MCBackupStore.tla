--------------------------- MODULE MCBackupStore ---------------------------
(***************************************************************************)
(* Instances of BackupStore for TLC.                                       *)
(***************************************************************************)
EXTENDS BackupStore, TLC

CONSTANTS r1, r2, r3, k1, k2, f1

\* A sync that writes to two destinations, and a merge whose configuration
\* knows only one of them.
PairConfigured == r1 :> {k1, k2} @@ r2 :> {k1}
PairChanges == r1 :> {<<k1, f1>>, <<k2, f1>>} @@ r2 :> {<<k1, f1>>}

\* Three merges of the same file.
ThreeConfigured == [r \in Runs |-> {k1}]
ThreeChanges == [r \in Runs |-> {<<k1, f1>>}]
=============================================================================
