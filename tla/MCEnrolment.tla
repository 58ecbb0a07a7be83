---------------------------- MODULE MCEnrolment ----------------------------
(* Three create commands, with different ways to share files and accounts. *)
EXTENDS Enrolment

CONSTANTS c1, c2, c3

MCCommands == {c1, c2, c3}

\* c1 and c2 run on the same passkey file.
SharedPath == [c \in MCCommands |-> IF c = c3 THEN "key2.txt" ELSE "key1.txt"]

\* The command line of the README, run by everyone.
ReadmePath == [c \in MCCommands |-> "key1.txt"]

MCPaths == {"key1.txt", "key2.txt"}

\* c2 and c3 pay from the same account.
SharedAccount == [c \in MCCommands |-> IF c = c1 THEN "eth1" ELSE "eth2"]

OneAccount == [c \in MCCommands |-> "eth1"]

MCAccounts == {"eth1", "eth2"}
=============================================================================
