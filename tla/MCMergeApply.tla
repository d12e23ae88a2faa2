---------------------------- MODULE MCMergeApply ----------------------------
(***************************************************************************)
(* Instances of MergeApply for TLC.                                        *)
(***************************************************************************)
EXTENDS MergeApply

\* Two paths: a new file in the missing directory D, then a file that is
\* rewritten, with others busy on both.
FilesKind == [i \in 1..2 |-> "WriteFile"]
FilesCompared == <<"absent", "old">>
FilesOthers == <<{"absent", "other"}, {"absent", "old", "other", "otherlink", "special"}>>

\* A file that is rewritten, a link that is replaced, a file that is deleted and
\* one that is to be deleted but cannot be read, with an agent that may go on
\* working after its connection is lost.
LateKind == <<"WriteFile", "WriteLink", "Delete", "Delete">>
LateCompared == <<"old", "oldlink", "old", "old">>
LateOthers == <<{"other"}, {"absent", "oldlink"}, {"other"}, {}>>
=============================================================================
