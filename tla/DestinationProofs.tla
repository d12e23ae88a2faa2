-------------------------- MODULE DestinationProofs --------------------------
(***************************************************************************)
(* What one request, and one step of others, may do to the destination.    *)
(* The proofs about the commands that change a destination cite these      *)
(* facts in place of the definitions.                                      *)
(***************************************************************************)
EXTENDS Destination, TLAPS

\* A request changes its own path only, and whatever it changes of the path is
\* in the history of that path (dispatch, machine_ops).
LEMMA PerformFrame ==
  ASSUME DestinationTypeOK,
         NEW i \in Paths, NEW o \in Ops, NEW st, NEW ans,
         Perform(o, i, st, ans)
  PROVE  /\ dest' \in [Paths -> Entries]
         /\ dir' \in DirStates
         /\ root' \in BOOLEAN
         /\ perm' \in [0..N -> {"initial", "set"}]
         /\ effects' \in [Paths -> SUBSET Effects]
         /\ \A j \in Paths \ {i}: dest'[j] = dest[j] /\ effects'[j] = effects[j]
         /\ effects'[i] = {} => dest'[i] = dest[i] /\ effects[i] = {}
<1> USE DEF DestinationTypeOK, Effects, Ops, Entries, Files, Links, DirStates
<1>1. CASE o = "write" /\ BeginWrite(i, st, ans)
  BY <1>1 DEF BeginWrite, MakeParents, NewEntryPerm, Effect
<1>2. CASE o = "write" /\ FinishWrite(i, st, ans)
  BY <1>2 DEF FinishWrite, Effect
<1>3. CASE o = "remove" /\ Unlink(i, st, ans)
  BY <1>3 DEF Unlink, Effect
<1>4. CASE o = "link" /\ MakeLink(i, st, ans)
  BY <1>4 DEF MakeLink, MakeParents, NewEntryPerm, Effect
<1>5. CASE o = "chmod" /\ ChmodFile(i, st, ans)
  BY <1>5 DEF ChmodFile, Effect
<1>6. CASE o = "chmoddir" /\ ChmodDir(i, st, ans)
  BY <1>6 DEF ChmodDir, Effect
<1>7. CASE NotFound(o, i, st, ans) \/ RootGone(o, i, st, ans) \/ Refuse(st, ans)
  BY <1>7 DEF NotFound, RootGone, Refuse, fs
<1> QED BY <1>1, <1>2, <1>3, <1>4, <1>5, <1>6, <1>7 DEF Perform

\* A request is answered, or is a write that has begun.
LEMMA PerformAnswer ==
  ASSUME NEW i, NEW o, NEW st, NEW ans, Perform(o, i, st, ans)
  PROVE  /\ ans \in {"begun", "ok", "refused", "notfound", "rootgone"}
         /\ st \in {"sent", "begun"}
BY DEF Perform, BeginWrite, FinishWrite, Unlink, MakeLink, ChmodFile, ChmodDir,
       NotFound, RootGone, Refuse

\* What each answer says: a write that has begun has cut the file short, "ok" says
\* that the request was carried out, and any other answer that nothing more was
\* done; "not found" and a missing root_dir are noticed before anything is done.
LEMMA PerformResult ==
  ASSUME DestinationTypeOK,
         NEW i \in Paths, NEW o \in Ops, NEW st, NEW ans,
         Perform(o, i, st, ans)
  PROVE  /\ ans = "begun" => /\ o = "write" /\ st = "sent"
                             /\ effects'[i] = effects[i] \cup {"begin"} /\ dest'[i] = "partial"
         /\ ans = "ok" => /\ effects'[i] = effects[i] \cup {o}
                          /\ o = "write" => st = "begun"
                          /\ o # "write" => st = "sent"
                          /\ o = "write" /\ dest[i] = "partial" => dest'[i] = "new"
                          /\ o = "remove" => dest[i] # "absent" /\ dest'[i] = "absent"
                          /\ o = "link" => dest'[i] = "newlink"
                          /\ o \in {"chmod", "chmoddir"} => dest'[i] = dest[i]
         /\ ans \in {"refused", "notfound", "rootgone"} => UNCHANGED <<dest, effects>>
         /\ ans \in {"notfound", "rootgone"} => st = "sent"
         /\ ans = "rootgone" => o \in {"write", "link"}
         /\ dir' = dir \/ (dir = "absent" /\ dir' = "made")
<1> USE DEF DestinationTypeOK, Effects, Ops, Entries, Files, Links
<1>1. CASE o = "write" /\ BeginWrite(i, st, ans)
  BY <1>1 DEF BeginWrite, MakeParents, Effect
<1>2. CASE o = "write" /\ FinishWrite(i, st, ans)
  BY <1>2 DEF FinishWrite, Effect
<1>3. CASE o = "remove" /\ Unlink(i, st, ans)
  BY <1>3 DEF Unlink, Effect
<1>4. CASE o = "link" /\ MakeLink(i, st, ans)
  BY <1>4 DEF MakeLink, MakeParents, Effect
<1>5. CASE o = "chmod" /\ ChmodFile(i, st, ans)
  BY <1>5 DEF ChmodFile, Effect
<1>6. CASE o = "chmoddir" /\ ChmodDir(i, st, ans)
  BY <1>6 DEF ChmodDir, Effect
<1>7. CASE NotFound(o, i, st, ans) \/ RootGone(o, i, st, ans) \/ Refuse(st, ans)
  BY <1>7 DEF NotFound, RootGone, Refuse, fs
<1> QED BY <1>1, <1>2, <1>3, <1>4, <1>5, <1>6, <1>7 DEF Perform

\* Others leave the history of this merge alone, and a path they change is
\* one they are known to have touched.
LEMMA OthersFrame ==
  ASSUME DestinationTypeOK, Others
  PROVE  /\ DestinationTypeOK'
         /\ effects' = effects
         /\ touched \subseteq touched' /\ raced \subseteq raced'
         /\ \A j \in Paths: j \notin touched' => dest'[j] = dest[j]
         /\ \A j \in Paths: j \notin raced' => dest'[j] = dest[j]
         /\ \A j \in InDir: j \notin raced' => dir' = dir
         /\ raced \subseteq touched => raced' \subseteq touched'
<1> USE DestinationAssumption DEF DestinationTypeOK, DirStates
<1>2. CASE \E i \in Paths: OthersChange(i)
  <2> PICK i \in Paths: OthersChange(i) BY <1>2
  <2>1. OthersMay[i] \subseteq Entries
    OBVIOUS
  <2> QED BY <2>1 DEF OthersChange, Disturb
<1>3. CASE OthersChangeDir
  BY <1>3 DEF OthersChangeDir, Disturb, Entries
<1>4. CASE OthersRemoveRoot
  BY <1>4 DEF OthersRemoveRoot, Disturb, Entries
<1> QED BY <1>2, <1>3, <1>4 DEF Others

\* Permissions of this merge come from a chmod it carried out, and stay until the
\* entry is made anew.
LEMMA PerformPerm ==
  ASSUME DestinationTypeOK,
         NEW i \in Paths, NEW o \in Ops, NEW st, NEW ans,
         Perform(o, i, st, ans)
  PROVE  /\ \A j \in Paths: perm'[j] = "set" => perm[j] = "set" \/ (j = i /\ "chmod" \in effects'[i])
         /\ perm'[0] = "set" => perm[0] = "set" \/ "chmoddir" \in effects'[i]
         /\ \A j \in Paths: perm[j] = "set" => perm'[j] = "set" \/ (j = i /\ o \in {"write", "link"})
         /\ (perm[0] = "set" /\ dir # "absent") => perm'[0] = "set"
         /\ (o = "chmod" /\ ans = "ok") => perm'[i] = "set"
         /\ (o = "chmoddir" /\ ans = "ok") => perm'[0] = "set" /\ dir' # "absent"
<1>0. i \in 0..N /\ 0 \in 0..N /\ \A j \in Paths: j \in 0..N /\ j # 0
  BY DestinationAssumption DEF Paths
<1> USE <1>0 DEF DestinationTypeOK, Effects, Ops
<1>1. CASE o = "write" /\ BeginWrite(i, st, ans)
  BY <1>1 DEF BeginWrite, NewEntryPerm
<1>2. CASE o = "write" /\ FinishWrite(i, st, ans)
  BY <1>2 DEF FinishWrite
<1>3. CASE o = "remove" /\ Unlink(i, st, ans)
  BY <1>3 DEF Unlink
<1>4. CASE o = "link" /\ MakeLink(i, st, ans)
  BY <1>4 DEF MakeLink, NewEntryPerm
<1>5. CASE o = "chmod" /\ ChmodFile(i, st, ans)
  BY <1>5 DEF ChmodFile, Effect
<1>6. CASE o = "chmoddir" /\ ChmodDir(i, st, ans)
  BY <1>6 DEF ChmodDir, Effect
<1>7. CASE NotFound(o, i, st, ans) \/ RootGone(o, i, st, ans) \/ Refuse(st, ans)
  BY <1>7 DEF NotFound, RootGone, Refuse, fs
<1> QED BY <1>1, <1>2, <1>3, <1>4, <1>5, <1>6, <1>7 DEF Perform

\* Others never give an entry the permissions of this merge, and take them away
\* only from what they are known to have touched.
LEMMA OthersPerm ==
  ASSUME DestinationTypeOK, Others
  PROVE  /\ \A j \in 0..N: perm'[j] = "set" => perm[j] = "set"
         /\ \A j \in Paths: j \notin touched' => perm'[j] = perm[j]
         /\ \A j \in InDir: j \notin touched' => perm'[0] = perm[0] /\ dir' = dir
<1>0. 0 \in 0..N /\ \A j \in Paths: j \in 0..N /\ j # 0
  BY DestinationAssumption DEF Paths
<1> USE <1>0, DestinationAssumption DEF DestinationTypeOK, Disturb
<1>1. CASE \E i \in Paths: OthersChange(i)
  BY <1>1 DEF OthersChange
<1>2. CASE OthersChangeDir
  BY <1>2 DEF OthersChangeDir
<1>3. CASE OthersRemoveRoot
  BY <1>3 DEF OthersRemoveRoot
<1> QED BY <1>1, <1>2, <1>3 DEF Others
=============================================================================
