----------------------------- MODULE KnownHosts -----------------------------
(* The known_hosts file: how the key of a server is judged by its lines, and *)
(* what an append does to them.  A line is a record of its mark, the hosts   *)
(* it is for, the type and the key; a host is its name and port, however the *)
(* line writes or hashes them.  A file is its lines, and whether the last    *)
(* one has ended; a missing file and one that cannot be read are told apart. *)
EXTENDS Naturals, Sequences, SequencesExt

Missing == [state |-> "missing"]
Unreadable == [state |-> "unreadable"]
Text(lines, ended) == [state |-> "text", lines |-> lines, ended |-> ended]

Entry(host, type, key) == [mark |-> "none", hosts |-> {host}, type |-> type, key |-> key]

(* What a write in part leaves of a line: no more than a part of its type,   *)
(* all that comes before the key, a part of the key, or all but the newline. *)
(* Without a key it is no entry.                                             *)
Garbage == [mark |-> "garbage", hosts |-> {}, type |-> "none", key |-> "none"]
BeforeKey(line) == [line EXCEPT !.mark = "keyless", !.key = "none"]
Fragments(line) == {Garbage, BeforeKey(line), [line EXCEPT !.key = "cut"], line}

IsFor(line, mark, host, type) ==
  line.mark = mark /\ host \in line.hosts /\ line.type = type

(* A revoked key is refused whatever else is said of it; otherwise the first *)
(* line for the host and the type of the key decides.                        *)
JudgeHostKey(lines, host, type, key) ==
  LET revoked == \E i \in DOMAIN lines :
                   IsFor(lines[i], "revoked", host, type) /\ lines[i].key = key
      own == SelectSeq(lines, LAMBDA line : IsFor(line, "none", host, type))
  IN  IF revoked THEN "revoked"
      ELSE IF own = <<>> THEN "unknown"
      ELSE IF own[1].key = key THEN "trusted" ELSE "changed"

CheckKnownHosts(file, host, type, key) ==
  CASE file.state = "unreadable" -> "refused"
    [] file.state = "missing" -> "unknown"
    [] file.state = "text" -> JudgeHostKey(file.lines, host, type, key)

(* Whether an unknown key is accepted: strict_host_key_checking refuses it   *)
(* (yes), accepts it (no), or asks, unless --yes answers.                    *)
Accepts(policy, autoYes, answer) ==
  policy = "no" \/ (policy = "ask" /\ (autoYes \/ answer))

(***************************************************************************)
(* An append: the file is opened, or made; a last line that has not ended  *)
(* is ended; the line is written.  Each write goes to the end of the file. *)
(***************************************************************************)
Opened(file) == IF file.state = "missing" THEN Text(<<>>, TRUE) ELSE file

\* (mutant of NeedsNewline: the file is taken to end with a newline)
NeedsNoNewline(file) == FALSE
NeedsNewline(file) == file.lines # <<>> /\ ~file.ended

(* An empty line says nothing and is left out.                               *)
WithNewline(file) == Text(file.lines, TRUE)

(* A last line that has not ended takes what is written into it: as its key, *)
(* or the end of its key, and it stays a line for its host and type.         *)
Glued(last) ==
  IF last.mark = "garbage" THEN last
  ELSE [last EXCEPT !.mark = IF @ = "keyless" THEN "none" ELSE @, !.key = "cut"]

WithLine(file, line, ended) ==
  IF file.ended \/ file.lines = <<>> THEN Text(Append(file.lines, line), ended)
  ELSE Text(Append(Front(file.lines), Glued(file.lines[Len(file.lines)])), ended)
=============================================================================
