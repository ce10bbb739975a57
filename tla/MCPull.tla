------------------------------- MODULE MCPull -------------------------------
(***************************************************************************)
(* A tree with a directory, a file in it and etc/passwd, and four images:  *)
(* "plain" wipes and rewrites in its second layer, "swap" turns a file     *)
(* into a directory there, "other" shares none of the first one's files,   *)
(* "bare" has no etc/passwd to look its user up in.                        *)
(***************************************************************************)
EXTENDS Pull, TLC

MCUnder == [d \in Paths \cup {Root} |->
              CASE d = Root  -> Paths
                [] d = "app" -> {"app/x"}
                [] OTHER     -> {}]

LayerStart == [op |-> "layer", path |-> Root, data |-> "d1"]
MkDir(f) == [op |-> "dir", path |-> f, data |-> "d1"]
File(f, d) == [op |-> "file", path |-> f, data |-> d]
Whiteout(f) == [op |-> "whiteout", path |-> f, data |-> "d1"]
Opaque(f) == [op |-> "opaque", path |-> f, data |-> "d1"]

MCStream ==
  [i \in Images |->
    CASE i = "plain" -> <<LayerStart, File("passwd", "d1"), File("app/x", "d1"),
                          LayerStart, Opaque("app"), File("passwd", "d2")>>
      [] i = "swap"  -> <<LayerStart, File("app", "d1"),
                          LayerStart, Whiteout("app"), File("app/x", "d2")>>
      [] i = "other" -> <<LayerStart, MkDir("app"), File("passwd", "d2")>>
      [] i = "bare"  -> <<LayerStart, File("app", "d2")>>]

MCNamed == {"plain", "bare"} \cap Images

\* Processes are interchangeable, and so are the references.
MCSymmetry == Permutations(Pullers) \cup Permutations(Refs)
=============================================================================
