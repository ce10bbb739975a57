----------------------------- MODULE CacheEntry -----------------------------
(***************************************************************************)
(* What Pull promises of one cache entry when calls do not overlap: the    *)
(* process spec appears only beside the whole tree of an image, and from   *)
(* then on neither changes until the entry is removed.  A call that fails  *)
(* or is killed may leave any part of the tree, and the spec file empty.   *)
(***************************************************************************)

CONSTANTS
  None,         \* no spec file
  Torn,         \* an empty spec file
  Image         \* the process spec derived from the image's config

VARIABLES
  rootfs,       \* the directory rootfs exists
  tree,         \* "none", "part" or "whole"
  conf          \* the spec file .weft-microvm/config.json

vars == <<rootfs, tree, conf>>

Init == rootfs = FALSE /\ tree = "none" /\ conf = None

Mkdir ==
  /\ conf = None
  /\ rootfs' = TRUE
  /\ UNCHANGED <<tree, conf>>

\* One more piece of a layer: the tree may pass through any state on its way.
Extract ==
  /\ rootfs /\ conf = None
  /\ tree' \in {"none", "part", "whole"}
  /\ UNCHANGED <<rootfs, conf>>

Tear ==
  /\ tree = "whole" /\ conf = None
  /\ conf' = Torn
  /\ UNCHANGED <<rootfs, tree>>

Write ==
  /\ tree = "whole" /\ conf = Torn
  /\ conf' = Image
  /\ UNCHANGED <<rootfs, tree>>

Forget ==
  /\ rootfs' = FALSE /\ tree' = "none" /\ conf' = None

Next == Mkdir \/ Extract \/ Tear \/ Write \/ Forget

Spec == Init /\ [][Next]_vars
=============================================================================
