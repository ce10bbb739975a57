------------------------------- MODULE Extract -------------------------------
(***************************************************************************)
(* extractTar (extract.go): the entries of an image's layers applied one   *)
(* by one to a directory tree with symbolic and hard links, and beside it  *)
(* the tree that the union of the layers denotes.                          *)
(*                                                                         *)
(* A path names nothing, a directory, a symbolic link or an inode.  It is  *)
(* in the root or in a directory of the root, and a link leads to a path   *)
(* that no link is on.  Pull.tla has the interleavings, the torn files and *)
(* the retries.                                                            *)
(***************************************************************************)
EXTENDS Naturals

CONSTANTS
  Paths,        \* the paths of the tree
  Root,         \* its root
  Parent,       \* Parent[p]: the directory of p
  Child,        \* Child[d][p]: the path in d that has the last name of p
  Inodes,       \* the inodes of regular files
  Data,         \* what regular files hold
  Entries,      \* the tar headers that layers are made of
  Absent,       \* nothing at the path
  Dir,          \* a directory
  MaxEntries,   \* bound on the entries of an image
  Unprivileged  \* TRUE: modes bind the process; FALSE: it runs as root

Link(q) == [to |-> q]
Links == {Link(q) : q \in Paths}
Files == [data : Data, ro : BOOLEAN]
Named == {e \in Entries : e.op = "symlink"}

ASSUME PathAssumption ==
  /\ Root \notin Paths
  /\ Parent \in [Paths -> Paths \cup {Root}]
  /\ \A p \in Paths : Parent[p] # Root => Parent[Parent[p]] = Root
  /\ Child \in [{d \in Paths : Parent[d] = Root} -> [Paths -> Paths]]
  /\ \A d \in DOMAIN Child : \A p \in Paths : Parent[Child[d][p]] = d
ASSUME EntryAssumption ==
  \A e \in Entries :
    /\ e.op \in {"dir", "file", "symlink", "hardlink", "whiteout", "opaque", "device", "escape"}
    /\ e.path \in IF e.op = "opaque" THEN Paths \cup {Root} ELSE Paths
    /\ e.op = "file" => e.file \in Files
    /\ e.op \in {"symlink", "hardlink"} => e.to \in Paths
\* No link leads to, or lies below, another.
ASSUME LinkAssumption ==
  /\ \A l, m \in Named : l.to # m.path /\ Parent[l.to] # m.path /\ Parent[l.path] # m.path
  /\ \A l \in Named : Parent[l.path] = Root => Parent[l.to] = Root
  /\ \A h \in Entries, l \in Named : h.op = "hardlink" => h.to # l.path /\ Parent[h.to] # l.path
ASSUME NodeAssumption ==
  /\ Absent # Dir
  /\ {Absent, Dir} \cap (Inodes \cup Links \cup Files) = {}
  /\ Inodes \cap Links = {} /\ Files \cap Links = {}
ASSUME BoundAssumption == MaxEntries \in Nat /\ Unprivileged \in BOOLEAN /\ Data # {}

VARIABLES
  name,         \* name[p]: the node the path names
  file,         \* file[i]: the inode i
  err,          \* extraction has ended with an error
  count,        \* the entries applied so far
  view,         \* what the union of the layers holds at each path
  fresh,        \* the paths of the layer being applied
  plain,        \* no entry met a case in which the extractor leaves the union
  ordered       \* no whiteout came after an entry of its own layer it covers

vars == <<name, file, err, count, view, fresh, plain, ordered>>

Nodes == {Absent, Dir} \cup Links \cup Inodes

TypeOK ==
  /\ name \in [Paths -> Nodes]
  /\ file \in [Inodes -> Files]
  /\ err \in BOOLEAN /\ plain \in BOOLEAN /\ ordered \in BOOLEAN
  /\ count \in 0..MaxEntries
  /\ view \in [Paths -> {Absent, Dir} \cup Links \cup Files]
  /\ fresh \subseteq Paths

Init ==
  /\ name = [p \in Paths |-> Absent]
  /\ file = [i \in Inodes |-> CHOOSE f \in Files : TRUE]
  /\ err = FALSE /\ count = 0
  /\ view = [p \in Paths |-> Absent]
  /\ fresh = {} /\ plain = TRUE /\ ordered = TRUE

-----------------------------------------------------------------------------
(* How the kernel resolves a path below the tree.                          *)

Above(p) == {Parent[p]} \ {Root}
Below(d) == IF d = Root THEN Paths ELSE {f \in Paths : Parent[f] = d}

Linked(p) == p # Root /\ name[p] \in Links
\* A path that leads through a link.
Through(p) == p # Root /\ Linked(Parent[p])
\* The link above p followed; then the one at p too.
Real(p) == IF Through(p) THEN Child[name[Parent[p]].to][p] ELSE p
Follow(p) == IF Linked(Real(p)) THEN name[Real(p)].to ELSE Real(p)

NodeAt(p) == IF p = Root THEN Dir ELSE name[p]
Stat(p) == NodeAt(Follow(p))
Lstat(p) == NodeAt(Real(p))

Names(i) == {p \in Paths : name[p] = i}
Free == {i \in Inodes : Names(i) = {}}

\* os.MkdirAll: each directory on the way is there or can be made.
CanMkdir(p) == p = Root \/ Stat(p) = Dir \/ Lstat(p) = Absent
CanMkdirAll(p) == CanMkdir(p) /\ (p # Root => CanMkdir(Parent[p]))
MkdirAll(p) ==
  [f \in Paths |->
     IF name[f] = Absent /\ p # Root /\ f \in {Real(p), Parent[p]} THEN Dir ELSE name[f]]

\* os.Remove takes a file, a link or an empty directory.
CanRemove(p) == Lstat(p) = Dir => \A f \in Below(Real(p)) : name[f] = Absent

-----------------------------------------------------------------------------
(* The union, the reference: whiteouts hide what lower layers hold.        *)

Show(p, node) ==
  /\ view' = [f \in Paths |-> IF f = p THEN node
                              ELSE IF f \in Above(p) THEN Dir
                              ELSE IF f \in Below(p) /\ node # Dir THEN Absent
                              ELSE view[f]]
  /\ fresh' = fresh \cup {p} \cup Above(p)
  /\ UNCHANGED ordered
Hide(gone) ==
  /\ view' = [f \in Paths |-> IF f \in gone \ fresh THEN Absent ELSE view[f]]
  /\ ordered' = (ordered /\ gone \cap fresh = {})
  /\ UNCHANGED fresh

-----------------------------------------------------------------------------
(* applyEntry, one action per kind of entry and way to end.                *)

Apply(e) ==
  /\ ~err /\ count < MaxEntries
  /\ count' = count + 1
Done(e, same) ==
  /\ Apply(e)
  /\ plain' = (plain /\ same)
  /\ UNCHANGED err

Directory(e) ==
  /\ e.op = "dir"
  /\ CanMkdirAll(e.path)
  /\ name' = MkdirAll(e.path)
  /\ Show(e.path, Dir)
  /\ Done(e, ~Through(e.path) /\ ~Linked(e.path))
  /\ UNCHANGED file

\* OpenFile(O_TRUNC) of what is there: the inode keeps its mode and its names.
Overwritten(e, d) ==
  /\ e.op = "file"
  /\ CanMkdirAll(Parent[e.path])
  /\ Stat(e.path) \in Inodes
  /\ Unprivileged => ~file[Stat(e.path)].ro
  /\ file' = [file EXCEPT ![Stat(e.path)].data = d]
  /\ UNCHANGED name
Rewrite(e) ==
  /\ Overwritten(e, e.file.data)
  /\ Show(e.path, e.file)
  /\ Done(e, Names(Stat(e.path)) = {e.path} /\ file[Stat(e.path)].ro = e.file.ro)

\* OpenFile(O_CREATE), which also creates what a dangling link leads to.
Created(e, d) ==
  /\ e.op = "file"
  /\ CanMkdirAll(Parent[e.path])
  /\ Stat(e.path) = Absent
  /\ Parent[Follow(e.path)] # Root => MkdirAll(Parent[e.path])[Parent[Follow(e.path)]] = Dir
  /\ \E i \in Free :
       /\ name' = [MkdirAll(Parent[e.path]) EXCEPT ![Follow(e.path)] = i]
       /\ file' = [file EXCEPT ![i] = [e.file EXCEPT !.data = d]]
Create(e) ==
  /\ Created(e, e.file.data)
  /\ Show(e.path, e.file)
  /\ Done(e, ~Through(e.path) /\ ~Linked(e.path))

\* A file that refuses the open is removed, or the link that led to it, and the
\* entry is created under the path itself.
Recreated(e, d) ==
  /\ e.op = "file"
  /\ CanMkdirAll(Parent[e.path])
  /\ Stat(e.path) \in Inodes
  /\ Unprivileged /\ file[Stat(e.path)].ro
  /\ \E i \in Inodes :
       /\ Names(i) \subseteq {Real(e.path)}
       /\ name' = [name EXCEPT ![Real(e.path)] = i]
       /\ file' = [file EXCEPT ![i] = [e.file EXCEPT !.data = d]]
Replace(e) ==
  /\ Recreated(e, e.file.data)
  /\ Show(e.path, e.file)
  /\ Done(e, ~Through(e.path))

CanLink(e) == CanMkdirAll(Parent[e.path]) /\ CanRemove(e.path)

Symlink(e) ==
  /\ e.op = "symlink"
  /\ CanLink(e)
  /\ name' = [MkdirAll(Parent[e.path]) EXCEPT ![Real(e.path)] = Link(e.to)]
  /\ Show(e.path, Link(e.to))
  /\ Done(e, ~Through(e.path))
  /\ UNCHANGED file

Hardlink(e) ==
  /\ e.op = "hardlink"
  /\ CanLink(e)
  /\ Lstat(e.to) \in Inodes /\ Real(e.to) # Real(e.path)
  /\ name' = [MkdirAll(Parent[e.path]) EXCEPT ![Real(e.path)] = Lstat(e.to)]
  /\ Show(e.path, view[e.to])
  /\ Done(e, ~Through(e.path))
  /\ UNCHANGED file

\* RemoveAll, whose error is dropped: something may stay.
RemoveAll(e, gone, same) ==
  \E left \in SUBSET gone :
    /\ \A f \in left : name[f] # Absent /\ (Parent[f] \in gone => Parent[f] \in left)
    /\ name' = [f \in Paths |-> IF f \in gone \ left THEN Absent ELSE name[f]]
    /\ Done(e, same /\ left = {})
    /\ UNCHANGED file

\* Mutant: os.Remove's name alone.
WhiteoutPath(e) ==
  /\ e.op = "whiteout"
  /\ RemoveAll(e, {Real(e.path)}, ~Through(e.path))
  /\ Hide({e.path} \cup Below(e.path))

Whiteout(e) ==
  /\ e.op = "whiteout"
  /\ RemoveAll(e, {Real(e.path)} \cup Below(Real(e.path)), ~Through(e.path))
  /\ Hide({e.path} \cup Below(e.path))

\* Mutant: the marker is skipped like any other file that is not extracted.
OpaqueKept(e) ==
  /\ e.op = "opaque"
  /\ Done(e, ~Through(e.path) /\ ~Linked(e.path))
  /\ Hide(Below(e.path))
  /\ UNCHANGED <<name, file>>

\* ReadDir follows a link; what is not a directory is passed over.
Opaque(e) ==
  /\ e.op = "opaque"
  /\ RemoveAll(e, IF Stat(e.path) = Dir THEN Below(Follow(e.path)) ELSE {},
               ~Through(e.path) /\ ~Linked(e.path))
  /\ Hide(Below(e.path))

\* Mutant: a device becomes a link, and has no target.
DeviceLinked(e) ==
  /\ e.op = "device"
  /\ name' = [name EXCEPT ![e.path] = Link(Root)]
  /\ Done(e, TRUE)
  /\ UNCHANGED <<file, view, fresh, ordered>>

Device(e) ==
  /\ e.op = "device"
  /\ Done(e, TRUE)
  /\ UNCHANGED <<name, file, view, fresh, ordered>>

\* What an entry that fails has done before: MkdirAll of its directory, and for
\* a link the removal of what it should replace.
Leftover(e) ==
  LET made == IF e.op \in {"dir", "file", "symlink", "hardlink"} /\ CanMkdirAll(Parent[e.path])
              THEN MkdirAll(Parent[e.path]) ELSE name
  IN  IF e.op \in {"symlink", "hardlink"} /\ CanRemove(e.path)
      THEN [made EXCEPT ![Real(e.path)] = Absent] ELSE made

\* An entry that cannot be applied, or an input or output error, ends the image.
Fail(e) ==
  /\ Apply(e)
  /\ err' = TRUE
  /\ name' \in {name, Leftover(e)}
  /\ UNCHANGED <<file, view, fresh, plain, ordered>>

\* A copy that breaks off leaves the file as far as it got.
FailCopy(e) ==
  /\ Apply(e)
  /\ err' = TRUE
  /\ \E d \in Data : Overwritten(e, d) \/ Created(e, d) \/ Recreated(e, d)
  /\ UNCHANGED <<view, fresh, plain, ordered>>

Entry(e) ==
  \/ Directory(e) \/ Rewrite(e) \/ Create(e) \/ Replace(e) \/ Symlink(e) \/ Hardlink(e)
  \/ Whiteout(e) \/ Opaque(e) \/ Device(e)
  \/ Fail(e) \/ FailCopy(e)

\* The next layer's stream.
NewLayer ==
  /\ ~err /\ fresh # {}
  /\ fresh' = {}
  /\ UNCHANGED <<name, file, err, count, view, plain, ordered>>

Next == NewLayer \/ \E e \in Entries : Entry(e)

Spec == Init /\ [][Next]_vars

-----------------------------------------------------------------------------
(* What holds.                                                             *)

\* What is at a path lies in a directory, after a failure too (applyEntry,
\* MkdirAll before each name, RemoveAll of a whole subtree).
TreeShape ==
  \A p \in Paths : name[p] # Absent /\ Parent[p] # Root => name[Parent[p]] = Dir

Held(p) == IF name[p] \in Inodes THEN file[name[p]] ELSE name[p]
IsUnion == \A p \in Paths : Held(p) = view[p]

\* An image that is extracted without an error is the union of its layers,
\* unless an entry went through or onto a link, rewrote a file of several names
\* or of another mode, had a removal fail, or hid an entry of its own layer: a
\* layer's whiteouts do not come first, as extract.go:14 has it, but where they
\* stand.
Faithful == ~err /\ plain /\ ordered => IsUnion
=============================================================================
