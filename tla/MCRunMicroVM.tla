---------------------------- MODULE MCRunMicroVM ----------------------------
(* Sets of arguments: runs that always give a command, runs that never do,  *)
(* here or on another host, and runs that do as they like.                  *)
EXTENDS RunMicroVM

AsksWith(cmds, where) ==
  [name : Names, cmd : cmds, offline : BOOLEAN, remote : where]
AlwaysCmd == AsksWith(Cmds, {FALSE})
NeverCmd == AsksWith({NoCmd}, BOOLEAN)
AnyCmd == AsksWith(Cmds \cup {NoCmd}, {FALSE})
=============================================================================
