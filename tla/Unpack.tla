------------------------------- MODULE Unpack -------------------------------
(***************************************************************************)
(* What Pull makes of an image once it has the layers: Extract.tla, and    *)
(* then the process spec derived from the config and the identity files    *)
(* found in the extracted tree (pull.go, configspec.go).                   *)
(***************************************************************************)
EXTENDS Extract, ConfigSpec

CONSTANTS
  Configs,      \* the configs an image may have
  Commands,     \* the commands a caller of Run may give, << >> for none
  LinesOf,      \* LinesOf[d]: the lines that file content d has
  PasswdPath,   \* etc/passwd
  GroupPath,    \* etc/group
  NoSpec        \* no process spec has been derived

ASSUME ConfigAssumption ==
  /\ LinesOf \in [Data -> Seq(Lines)]
  /\ {PasswdPath, GroupPath} \subseteq Paths
  /\ \A c \in Configs :
       /\ c.user.left \in Tokens \cup {NoToken}
       /\ c.user.right \in Tokens \cup {NoToken}

VARIABLES
  config,       \* the config of the image
  spec          \* the process spec, or that there is none

unpackVars == <<vars, config, spec>>

\* What os.Open and the scanner find at a path.
Opened(p) ==
  IF Stat(p) \in Inodes THEN [ok |-> TRUE, lines |-> LinesOf[file[Stat(p)].data]]
  ELSE [ok |-> FALSE, lines |-> << >>]
Tree == [passwd |-> Opened(PasswdPath), group |-> Opened(GroupPath)]

UnpackInit ==
  /\ Init
  /\ config \in Configs
  /\ spec = NoSpec

Layers ==
  /\ spec = NoSpec
  /\ Next
  /\ UNCHANGED <<config, spec>>

\* A user that cannot be resolved fails the pull.
Derive ==
  /\ spec = NoSpec /\ ~err
  /\ IF UserIds(Tree, config.user).ok
     THEN \E cmd \in Commands : spec' = Overridden(Process(config, Tree), cmd) /\ UNCHANGED err
     ELSE err' = TRUE /\ UNCHANGED spec
  /\ UNCHANGED <<name, file, count, view, fresh, plain, ordered, config>>

UnpackNext == Layers \/ Derive

UnpackSpec == UnpackInit /\ [][UnpackNext]_unpackVars

-----------------------------------------------------------------------------
(* What holds of the spec, with the union of the layers as the reference.  *)

\* Where the links of the union lead from a path.
UnionFollow(path) ==
  LET d == Parent[path]
      real == IF d # Root /\ view[d] \in Links THEN Child[view[d].to][path] ELSE path
  IN  IF view[real] \in Links THEN view[real].to ELSE real

\* The first entry of n fields or more for t in an identity file of the union.
UnionEntry(path, n, t) ==
  LET found == view[UnionFollow(path)]
      lines == IF found \in Files THEN LinesOf[found.data] ELSE << >>
      for(k) == lines[k].kind = "entry" /\ Len(lines[k].fields) >= n /\ lines[k].fields[1] = t
  IN  {lines[k].fields : k \in {j \in 1..Len(lines) : for(j) /\ \A i \in 1..j - 1 : ~for(i)}}

\* The image runs as root only if it names no user, the id 0, or a user that
\* the union of its layers gives the id 0 (configspec.go: a lookup that misses
\* fails the pull, it does not fall back to the zero user).
RootOnlyIfAsked ==
  spec # NoSpec /\ plain /\ ordered /\ spec.ids[1] = 0 =>
    LET t == config.user.left
    IN  \/ t = NoToken
        \/ IsId(t) /\ Value[t] = 0
        \/ \E f \in UnionEntry(PasswdPath, 4, t) : IsId(f[3]) /\ Value[f[3]] = 0

\* A user given by name gets the group it names, and its own when it names none.
GroupAsAsked ==
  spec # NoSpec /\ plain /\ ordered /\ config.user.left \in Tokens =>
    LET t == config.user.left
        g == config.user.right
        gid == spec.ids[2]
    IN  IF g = NoToken
        THEN IF IsId(t) THEN gid = 0
             ELSE \E f \in UnionEntry(PasswdPath, 4, t) : IsId(f[4]) /\ gid = Value[f[4]]
        ELSE IF IsId(g) THEN gid = Value[g]
        ELSE \E f \in UnionEntry(GroupPath, 3, g) : IsId(f[3]) /\ gid = Value[f[3]]
=============================================================================
