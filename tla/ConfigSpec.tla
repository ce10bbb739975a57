----------------------------- MODULE ConfigSpec -----------------------------
(***************************************************************************)
(* configspec.go: the process spec derived from an image's config, with a  *)
(* named user looked up in the identity files of the extracted tree, and   *)
(* the command a caller of Run gives instead.                              *)
(*                                                                         *)
(* Strings are members of small sets; a decimal string has a value.        *)
(***************************************************************************)
EXTENDS Naturals, Sequences

CONSTANTS
  Tokens,       \* the strings that may stand in a user or an identity file
  Value,        \* Value[t]: the number a decimal string stands for
  MaxId,        \* the largest id, 2^32 - 1
  NoToken,      \* no colon in the user, or no user at all
  Shell,        \* the command /bin/sh
  DefaultEnv,   \* PATH, when the image sets no variable
  SlashDir      \* the working directory /

ASSUME TokenAssumption ==
  /\ DOMAIN Value \subseteq Tokens
  /\ Value \in [DOMAIN Value -> Nat]
  /\ NoToken \notin Tokens
  /\ MaxId \in Nat

Ids == 0..MaxId

\* One line of passwd or group: its fields, or a line that is passed over; a
\* line too long for the scanner ends the scan with an error.
Lines == [kind : {"entry", "comment", "long"}, fields : Seq(Tokens)]

\* strconv.ParseUint(t, 10, 32)
IsId(t) == t \in DOMAIN Value /\ Value[t] <= MaxId

Miss == [ok |-> FALSE, ids |-> << >>]
Hit(ids) == [ok |-> TRUE, ids |-> ids]
Id(t) == IF IsId(t) THEN Hit(<<Value[t]>>) ELSE Miss

\* The first line that ends the scan for t: the ids in the given fields of it.
Scan(lines, t, at) ==
  LET ends(k) == \/ lines[k].kind = "long"
                 \/ /\ lines[k].kind = "entry"
                    /\ Len(lines[k].fields) >= at[Len(at)]
                    /\ lines[k].fields[1] = t
      hits == {k \in 1..Len(lines) : ends(k) /\ \A j \in 1..k - 1 : ~ends(j)}
  IN  IF \E k \in hits : lines[k].kind = "entry" /\ \A n \in 1..Len(at) : IsId(lines[k].fields[at[n]])
      THEN Hit([n \in 1..Len(at) |-> Value[lines[CHOOSE k \in hits : TRUE].fields[at[n]]]])
      ELSE Miss

\* The uid and the gid of a user, and the gid of a group.
LookupPasswd(tree, t) == IF tree.passwd.ok THEN Scan(tree.passwd.lines, t, <<3, 4>>) ELSE Miss
LookupGroup(tree, t) == IF tree.group.ok THEN Scan(tree.group.lines, t, <<3>>) ELSE Miss

ResolveUser(tree, t) == IF IsId(t) THEN Id(t) ELSE LookupPasswd(tree, t)
ResolveGroup(tree, t) == IF IsId(t) THEN Id(t) ELSE LookupGroup(tree, t)

\* parseImageUser: the numeric forms; without a group the gid is 0.
ParseImageUser(u) ==
  IF ~IsId(u.left) THEN Miss
  ELSE IF u.right = NoToken THEN Hit(<<Value[u.left], 0>>)
  ELSE IF IsId(u.right) THEN Hit(<<Value[u.left], Value[u.right]>>)
  ELSE Miss

\* Mutant: the group that is named is ignored.
ResolveNamedPrimary(tree, u) ==
  LET user == ResolveUser(tree, u.left)
      primary == LookupPasswd(tree, u.left)
  IN  IF ~user.ok THEN Miss
      ELSE Hit(<<user.ids[1], IF primary.ok THEN primary.ids[2] ELSE 0>>)

\* resolveNamedUser: the named forms.
ResolveNamedUser(tree, u) ==
  LET user == ResolveUser(tree, u.left)
      group == ResolveGroup(tree, u.right)
      primary == LookupPasswd(tree, u.left)
  IN  IF ~user.ok THEN Miss
      ELSE IF u.right = NoToken
           THEN Hit(<<user.ids[1], IF primary.ok THEN primary.ids[2] ELSE 0>>)
      ELSE IF group.ok THEN Hit(<<user.ids[1], group.ids[1]>>)
      ELSE Miss

\* Mutant: a lookup that misses leaves the zero user.
UserIdsOrRoot(tree, u) ==
  IF u.left = NoToken THEN Hit(<<0, 0>>)
  ELSE IF ParseImageUser(u).ok THEN ParseImageUser(u)
  ELSE IF ResolveNamedUser(tree, u).ok THEN ResolveNamedUser(tree, u)
  ELSE Hit(<<0, 0>>)

UserIds(tree, u) ==
  IF u.left = NoToken THEN Hit(<<0, 0>>)
  ELSE IF ParseImageUser(u).ok THEN ParseImageUser(u)
  ELSE ResolveNamedUser(tree, u)

OrElse(s, default) == IF s = << >> THEN default ELSE s

\* processFromImageConfigWithRootfs, when the user can be resolved.
Process(c, tree) ==
  [args |-> OrElse(c.entrypoint \o c.cmd, Shell), env |-> OrElse(c.env, DefaultEnv),
   cwd |-> IF c.cwd = NoToken THEN SlashDir ELSE c.cwd, ids |-> UserIds(tree, c.user).ids]

\* applyUserOverrides: a command replaces the whole of the arguments.
Overridden(p, cmd) == IF cmd = << >> THEN p ELSE [p EXCEPT !.args = cmd]
=============================================================================
