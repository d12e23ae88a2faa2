----------------------------- MODULE MCRollback -----------------------------
(***************************************************************************)
(* Instances of Rollback for TLC.                                          *)
(***************************************************************************)
EXTENDS Rollback

\* A file in D, which may hold the content of the record already, and beside D a
\* symlink, a file, or a symlink that was replaced.
TwoRecords == {<<"file", "link">>, <<"file", "file">>, <<"file", "replaced">>}
TwoFound == <<{"old", "new", "special"}, {"absent", "old", "oldlink", "otherlink"}>>
TwoOthers == <<{}, {"other"}>>
=============================================================================
