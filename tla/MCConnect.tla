----------------------------- MODULE MCConnect -----------------------------
(***************************************************************************)
(* Instances of Connect for TLC: two runs of one program that has two      *)
(* builds, "x" and "y", of the same version; "old" is of another version   *)
(* and another protocol.                                                   *)
(***************************************************************************)
EXTENDS Connect

TwoRuns == {"p", "q"}
Builds == {"x", "y", "old"}
SameBuild == [r \in TwoRuns |-> "x"]
TwoBuilds == [r \in TwoRuns |-> IF r = "p" THEN "x" ELSE "y"]
Versions == [c \in Builds |-> IF c = "old" THEN "v1" ELSE "v2"]
OursIsTwo == [r \in TwoRuns |-> [version |-> "v2", protocol |-> "v2"]]

TwoHosts == {"server", "other"}
TwoKeys == {<<"ed", "k1">>, <<"ed", "k2">>}

Key(passphrase, environment, typed) ==
  [by |-> "key", passphrase |-> passphrase, environment |-> environment, typed |-> typed,
   configured |-> "none"]
Password(environment, configured) ==
  [by |-> "password", passphrase |-> "none", environment |-> environment, typed |-> <<>>,
   configured |-> configured]

Usual ==
  [enabled |-> TRUE, certificates |-> FALSE, policy |-> "ask", autoYes |-> FALSE,
   readOnly |-> FALSE, credential |-> Key("none", "none", <<>>), sudo |-> FALSE,
   sudoWorks |-> TRUE, supportedTarget |-> TRUE, binary |-> "inDirectory",
   sameTarget |-> TRUE, hashes |-> TRUE, linked |-> FALSE]

From(options, hosts, d, installed) ==
  [options |-> options, knownHosts |-> hosts, dir |-> d, installed |-> installed]

Known == Text(<<Entry("server", "ed", "k1")>>, TRUE)
UserLine == Text(<<Entry("other", "ed", "k2")>>, FALSE)
OtherType == Text(<<Entry("server", "rsa", "k3"), Entry("server", "ed", "k1")>>, FALSE)
Revoked == Text(<<Entry("server", "ed", "k1"),
                  [Entry("server", "ed", "k1") EXCEPT !.mark = "revoked"]>>, TRUE)

AllStarts ==
  {From(Usual, Missing, "safe", WholeOf("x"))}
    \cup {From(Usual, hosts, "unsafe", WholeOf("x")) : hosts \in {UserLine, OtherType}}
    \cup {From(Usual, Known, "safe", i) : i \in {WholeOf("y"), WholeOf("old"), <<"x", "y">>}}
    \cup {From(Usual, Known, d, WholeOf("x")) : d \in {"loose", "unsafe"}}
    \cup {From(Usual, Known, "absent", Nothing)}
    \cup {From(Usual, hosts, "safe", WholeOf("x")) : hosts \in {Revoked, Unreadable}}
    \cup {From([Usual EXCEPT !.credential = c], Known, "safe", WholeOf("x")) :
            c \in {Key("p", "wrong", <<"wrong", "right">>), Key("p", "none", <<"cancel", "right">>),
                   Password("none", "right"), Password("wrong", "right")}}
    \cup {From([Usual EXCEPT !.sudo = TRUE, !.sudoWorks = w], Known, "safe", WholeOf("x")) :
            w \in BOOLEAN}
    \cup {From([Usual EXCEPT !.policy = "no", !.readOnly = TRUE], UserLine, "safe", WholeOf("x")),
          From([Usual EXCEPT !.policy = "yes"], UserLine, "safe", WholeOf("x")),
          From([Usual EXCEPT !.autoYes = TRUE], Missing, "unsafe", WholeOf("x")),
          From([Usual EXCEPT !.certificates = TRUE], Known, "safe", WholeOf("x")),
          From([Usual EXCEPT !.enabled = FALSE], Known, "safe", WholeOf("x")),
          From([Usual EXCEPT !.supportedTarget = FALSE], Known, "safe", WholeOf("x")),
          From([Usual EXCEPT !.binary = "badEnvironment"], Known, "safe", WholeOf("y")),
          From([Usual EXCEPT !.hashes = FALSE], Known, "safe", WholeOf("y")),
          From([Usual EXCEPT !.linked = TRUE], Known, "safe", WholeOf("old"))}

OneDeployment == {From(Usual, Known, "absent", Nothing)}
=============================================================================
