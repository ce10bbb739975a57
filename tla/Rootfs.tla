------------------------------- MODULE Rootfs -------------------------------
(***************************************************************************)
(* The tree a layer is extracted into (extract.go), path by path: what one *)
(* tar entry does to it, when it cannot, and what a whole stream of        *)
(* entries should leave.  Symbolic and hard links are not here.            *)
(***************************************************************************)
EXTENDS Naturals, Sequences

CONSTANTS
  Paths,        \* the paths below the root that occur in some layer
  Root,         \* the root of the tree itself
  Under,        \* Under[d]: the paths strictly below d
  Data,         \* what regular files hold
  Absent,       \* no file at the path
  Dir,          \* a directory
  Torn          \* a file opened with O_TRUNC and not yet rewritten

ASSUME TreeAssumption ==
  /\ Root \notin Paths
  /\ Under \in [Paths \cup {Root} -> SUBSET Paths]
  /\ Under[Root] = Paths
  /\ \A f \in Paths : f \notin Under[f]
  /\ \A f, g \in Paths : f \in Under[g] => Under[f] \subseteq Under[g]
ASSUME ValueAssumption ==
  /\ Absent \notin Data /\ Dir \notin Data /\ Torn \notin Data
  /\ Absent # Dir /\ Absent # Torn /\ Dir # Torn

Values == Data \cup {Absent, Dir, Torn}

\* A tar header that applyEntry acts on.  "layer" stands for the start of a
\* layer's stream, which changes nothing in the tree.
Entry == [op : {"layer", "dir", "file", "whiteout", "opaque"},
          path : Paths \cup {Root}, data : Data]

Above(f) == {g \in Paths : f \in Under[g]}

\* The paths the entry creates: its own and, by MkdirAll, its parents'.
Made(e) == IF e.op \in {"dir", "file"} THEN ({e.path} \cup Above(e.path)) \cap Paths
           ELSE {}

\* The paths the entry removes: RemoveAll of a name, or of all the children.
Wiped(e) ==
  CASE e.op = "whiteout" -> ({e.path} \cup Under[e.path]) \cap Paths
    [] e.op = "opaque"   -> Under[e.path]
    [] OTHER             -> {}

Touched(e) == Made(e) \cup Wiped(e)

\* What the entry leaves at a path it touches.
Value(e, f) ==
  IF f \in Wiped(e) THEN Absent
  ELSE IF e.op = "file" /\ f = e.path THEN e.data
  ELSE Dir

\* MkdirAll finds a file where it needs a directory, or OpenFile a directory
\* where it needs a file.
Blocked(e, files) ==
  /\ e.op \in {"dir", "file"}
  /\ \/ \E g \in Above(e.path) : files[g] \notin {Absent, Dir}
     \/ e.op = "dir" /\ e.path # Root /\ files[e.path] \notin {Absent, Dir}
     \/ e.op = "file" /\ (e.path = Root \/ files[e.path] = Dir)

Apply(e, files) ==
  [f \in Paths |-> IF f \in Touched(e) THEN Value(e, f) ELSE files[f]]

\* OpenFile(O_CREATE|O_TRUNC) of a regular file, after MkdirAll of its parent.
Truncate(e, files) == [Apply(e, files) EXCEPT ![e.path] = Torn]

-----------------------------------------------------------------------------
(* The reference: a path holds what the last entry that names it left.     *)

LastTouch(stream, n, k, f) ==
  /\ f \in Touched(stream[k])
  /\ \A j \in 1..n : j > k => f \notin Touched(stream[j])

\* The first n entries have had their effect.
Applied(stream, n, files) ==
  \A f \in Paths : \A k \in 1..n :
    LastTouch(stream, n, k, f) => files[f] = Value(stream[k], f)

\* What the entry creates at f, and that no path is a file to one entry of the
\* stream and a directory to another.
MakesFile(e, f) == e.op = "file" /\ e.path = f
MakesDir(e, f) == f \in Made(e) /\ ~MakesFile(e, f)
OneKind(stream) ==
  \A f \in Paths : \A j, k \in 1..Len(stream) :
    ~(MakesFile(stream[j], f) /\ MakesDir(stream[k], f))

\* Some entry of the stream creates f.
Known(stream, f) == \E k \in 1..Len(stream) : f \in Made(stream[k])

Materialised(stream, files) ==
  /\ Applied(stream, Len(stream), files)
  /\ \A f \in Paths : files[f] # Absent => Known(stream, f)
=============================================================================
