------------------------------ MODULE MCUnpack ------------------------------
(* A directory, a link to it, and a file link inside it; two versions of   *)
(* the identity files; every kind of entry, with modes that differ.        *)
EXTENDS Unpack, TLC

CONSTANTS old, new, groups, sh

MCPaths == {"etc", "etc/passwd", "etc/group", "lib", "lib/passwd", "lib/group"}
MCParent == "etc" :> "" @@ "lib" :> "" @@ "etc/passwd" :> "etc" @@ "etc/group" :> "etc" @@
            "lib/passwd" :> "lib" @@ "lib/group" :> "lib"
MCChild == [d \in {"etc", "lib"} |->
              [p \in MCPaths |-> IF p \in {"etc/group", "lib/group"} THEN d \o "/group"
                                 ELSE d \o "/passwd"]]
File(d, ro) == [data |-> d, ro |-> ro]
MCEntries ==
  { [op |-> "dir", path |-> "lib"],
    [op |-> "symlink", path |-> "lib", to |-> "etc"],
    [op |-> "symlink", path |-> "etc/group", to |-> "etc/passwd"],
    [op |-> "hardlink", path |-> "lib/group", to |-> "etc/passwd"],
    [op |-> "file", path |-> "etc/passwd", file |-> File(old, FALSE)],
    [op |-> "file", path |-> "lib/passwd", file |-> File(new, FALSE)],
    [op |-> "file", path |-> "etc/group", file |-> File(groups, FALSE)],
    [op |-> "whiteout", path |-> "etc/passwd"],
    [op |-> "file", path |-> "etc/passwd", file |-> File(new, TRUE)],
    [op |-> "whiteout", path |-> "lib/passwd"],
    [op |-> "whiteout", path |-> "lib"],
    [op |-> "opaque", path |-> "lib"],
    [op |-> "opaque", path |-> "etc"],
    [op |-> "device", path |-> "lib"],
    [op |-> "escape", path |-> "lib"] }

MCTokens == {"alice", "wheel", "0", "7", "8", "99"}
MCValue == "0" :> 0 @@ "7" :> 7 @@ "8" :> 8 @@ "99" :> 99
Line(kind, fields) == [kind |-> kind, fields |-> fields]
MCLinesOf ==
  old :> <<Line("comment", << >>), Line("entry", <<"alice", "alice", "7", "8">>),
           Line("entry", <<"alice", "alice", "0", "0">>), Line("entry", <<"wheel", "wheel", "0", "7">>)>> @@
  new :> <<Line("entry", <<"alice", "alice", "8">>), Line("entry", <<"alice", "alice", "8", "0">>)>> @@
  groups :> <<Line("entry", <<"wheel", "wheel", "99">>), Line("long", << >>)>>
Image(user, group, cmd) ==
  [entrypoint |-> << >>, cmd |-> cmd, env |-> << >>, cwd |-> NoToken,
   user |-> [left |-> user, right |-> group]]
MCCommands == {<< >>, <<sh>>}
MCConfigs == { Image("alice", NoToken, <<sh>>), Image("alice", "wheel", << >>),
               Image("99", "7", << >>), Image("7", "wheel", << >>) }
MCSymmetry == Permutations(Inodes)
=============================================================================
