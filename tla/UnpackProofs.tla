---------------------------- MODULE UnpackProofs ----------------------------
(***************************************************************************)
(* Layer extraction for any tree, entries and images, whatever fails: the  *)
(* tree stays one, and without an error it is the union of the layers; and *)
(* the process spec derived from it has the user and group asked for.      *)
(***************************************************************************)
EXTENDS Unpack, TLAPS

\* ---------------------------------------------------------------------------
\* How paths resolve.

\* Every link in the tree is one that an entry made at its own path.
LinksIn(n) == \A p \in Paths : n[p] \in Links => \E l \in Named : l.path = p /\ l.to = n[p].to
LinksNamed == LinksIn(name)

LEMMA NamedType == ASSUME NEW l \in Named PROVE l.path \in Paths /\ l.to \in Paths
BY EntryAssumption DEF Named

LEMMA ParentType ==
  ASSUME NEW p \in Paths
  PROVE  /\ Parent[p] \in Paths \cup {Root} /\ p # Root
         /\ Parent[p] # Root => Parent[p] \in Paths /\ Parent[Parent[p]] = Root
BY PathAssumption

\* A link leads to a path that no link is on, and no link is above it.
LEMMA LinkAt ==
  ASSUME TypeOK, LinksNamed, NEW p \in Paths, name[p] \in Links
  PROVE  /\ name[p].to \in Paths
         /\ ~Linked(name[p].to) /\ ~Through(name[p].to) /\ ~Through(p)
         /\ Parent[p] = Root => Parent[name[p].to] = Root
<1>1. PICK l \in Named : l.path = p /\ l.to = name[p].to
  BY DEF LinksNamed, LinksIn
<1>2. l.to \in Paths
  BY NamedType
<1>3. ASSUME NEW q \in Paths, name[q] \in Links
      PROVE  l.to # q /\ Parent[l.to] # q /\ Parent[l.path] # q
  <2>1. PICK m \in Named : m.path = q
    BY <1>3 DEF LinksNamed, LinksIn
  <2>2. QED
    BY <2>1, LinkAssumption
<1>4. ~Linked(l.to)
  BY <1>2, <1>3 DEF Linked
<1>5. ~Through(l.to)
  BY <1>2, <1>3, ParentType DEF Through, Linked
<1>6. ~Through(p)
  BY <1>1, <1>3, ParentType DEF Through, Linked
<1>7. Parent[p] = Root => Parent[l.to] = Root
  BY <1>1, LinkAssumption
<1>8. QED
  BY <1>1, <1>2, <1>4, <1>5, <1>6, <1>7

LEMMA RealType ==
  ASSUME TypeOK, LinksNamed, NEW p \in Paths
  PROVE  /\ Real(p) \in Paths
         /\ ~Through(p) => Real(p) = p
         /\ Through(p) => /\ Parent[p] \in Paths /\ name[Parent[p]] \in Links
                          /\ Parent[Real(p)] = name[Parent[p]].to
                          /\ name[Parent[p]].to \in Paths
                          /\ Parent[p] # Root /\ Parent[Parent[p]] = Root
<1>1. CASE ~Through(p)
  BY <1>1 DEF Real
<1>2. CASE Through(p)
  <2>1. Parent[p] \in Paths /\ name[Parent[p]] \in Links /\ Parent[p] # Root /\ Parent[Parent[p]] = Root
    BY <1>2, ParentType DEF Through, Linked
  <2> DEFINE to == name[Parent[p]].to
  <2>2. to \in Paths /\ Parent[to] = Root
    BY <2>1, LinkAt
  <2>3. to \in DOMAIN Child /\ Child[to] \in [Paths -> Paths]
    BY <2>2, PathAssumption
  <2>4. Child[to][p] \in Paths /\ Parent[Child[to][p]] = to
    BY <2>3, PathAssumption
  <2>5. QED
    BY <1>2, <2>1, <2>2, <2>4 DEF Real
<1>3. QED
  BY <1>1, <1>2

LEMMA FollowType ==
  ASSUME TypeOK, LinksNamed, NEW p \in Paths
  PROVE  /\ Follow(p) \in Paths
         /\ ~Linked(Real(p)) => Follow(p) = Real(p)
         /\ Stat(p) = name[Follow(p)] /\ Lstat(p) = name[Real(p)]
<1>1. Real(p) \in Paths
  BY RealType
<1>2. Follow(p) \in Paths
  BY <1>1, LinkAt DEF Follow, Linked
<1>3. Follow(p) # Root /\ Real(p) # Root
  BY <1>1, <1>2, ParentType
<1>4. QED
  BY <1>2, <1>3 DEF Follow, Stat, Lstat, NodeAt

LEMMA RootType == Real(Root) = Root /\ Follow(Root) = Root /\ Stat(Root) = Dir
BY DEF Real, Follow, Through, Linked, Stat, NodeAt

\* ---------------------------------------------------------------------------
\* The shape of a tree.

Shape(n) == \A p \in Paths : n[p] # Absent /\ Parent[p] # Root => n[Parent[p]] = Dir

\* A name that is changed: what is put there has a directory, and nothing lies in it.
LEMMA PutShape ==
  ASSUME NEW n \in [Paths -> Nodes], Shape(n), NEW q \in Paths, NEW node,
         node # Absent /\ Parent[q] # Root => n[Parent[q]] = Dir,
         \A f \in Paths : Parent[f] = q => n[f] = Absent
  PROVE  Shape([n EXCEPT ![q] = node])
<1> DEFINE new == [n EXCEPT ![q] = node]
<1>1. ASSUME NEW p \in Paths, new[p] # Absent, Parent[p] # Root PROVE new[Parent[p]] = Dir
  <2>1. Parent[p] \in Paths /\ Parent[Parent[p]] = Root
    BY <1>1, ParentType
  <2>2. CASE p = q
    <3>1. Parent[q] # q
      BY <1>1, <2>1, <2>2
    <3>2. QED
      BY <1>1, <2>1, <2>2, <3>1
  <2>3. CASE p # q
    <3>1. new[p] = n[p] /\ n[p] # Absent
      BY <1>1, <2>3
    <3>2. Parent[p] # q
      BY <3>1
    <3>3. n[Parent[p]] = Dir
      BY <1>1, <3>1 DEF Shape
    <3>4. QED
      BY <2>1, <3>2, <3>3
  <2>4. QED
    BY <2>2, <2>3
<1>2. QED
  BY <1>1 DEF Shape

LEMMA DirAbsent == Dir # Absent /\ Dir \notin Links /\ Absent \notin Links /\ Dir \in Nodes
                   /\ Dir \notin Inodes /\ Absent \notin Inodes /\ Absent \in Nodes
BY NodeAssumption DEF Nodes

\* A directory that can be made, with those above it.
LEMMA MkdirShape ==
  ASSUME TypeOK, LinksNamed, Shape(name), NEW p \in Paths \cup {Root}, CanMkdirAll(p)
  PROVE  /\ MkdirAll(p) \in [Paths -> Nodes]
         /\ Shape(MkdirAll(p))
         /\ \A f \in Paths : /\ name[f] # Absent => MkdirAll(p)[f] = name[f]
                             /\ MkdirAll(p)[f] \in {name[f], Dir}
<1>1. MkdirAll(p) \in [Paths -> Nodes]
  BY DirAbsent DEF MkdirAll, TypeOK
<1>2. \A f \in Paths : /\ name[f] # Absent => MkdirAll(p)[f] = name[f]
                       /\ MkdirAll(p)[f] \in {name[f], Dir}
  BY DEF MkdirAll
<1>3. ASSUME NEW q \in Paths, MkdirAll(p)[q] # Absent, Parent[q] # Root
      PROVE  MkdirAll(p)[Parent[q]] = Dir
  <2>1. Parent[q] \in Paths
    BY <1>3, ParentType
  <2>2. CASE name[q] # Absent
    <3>1. name[Parent[q]] = Dir
      BY <1>3, <2>2 DEF Shape
    <3>2. QED
      BY <1>2, <2>1, <3>1, DirAbsent
  <2>3. CASE name[q] = Absent
    <3>1. p # Root /\ q \in {Real(p), Parent[p]} /\ p \in Paths
      BY <1>3, <2>3 DEF MkdirAll
    <3>2. q = Real(p)
      BY <1>3, <3>1, ParentType
    <3>3. CanMkdir(Parent[p])
      BY <3>1 DEF CanMkdirAll
    <3>4. CASE Through(p)
      <4>1. /\ Parent[p] \in Paths /\ name[Parent[p]] \in Links
            /\ Parent[q] = name[Parent[p]].to /\ Parent[p] # Root /\ Parent[Parent[p]] = Root
        BY <3>1, <3>2, <3>4, RealType
      <4>2. Real(Parent[p]) = Parent[p]
        BY <4>1, LinkAt, RealType
      <4>3. Follow(Parent[p]) = Parent[q]
        BY <4>1, <4>2 DEF Follow, Linked
      <4>4. name[Parent[q]] = Dir
        BY <3>3, <4>1, <4>2, <4>3, FollowType, DirAbsent DEF CanMkdir
      <4>5. QED
        BY <1>2, <2>1, <4>4, DirAbsent
    <3>5. CASE ~Through(p)
      <4>1. q = p /\ Parent[p] # Root /\ Parent[p] \in Paths /\ Parent[Parent[p]] = Root
        BY <1>3, <3>1, <3>2, <3>5, RealType, ParentType
      <4>2. ~Linked(Parent[p]) /\ ~Through(Parent[p])
        BY <3>1, <3>5, <4>1 DEF Through, Linked
      <4>3. Real(Parent[p]) = Parent[p] /\ Follow(Parent[p]) = Parent[p]
        BY <4>1, <4>2, RealType, FollowType
      <4>4. name[Parent[p]] \in {Dir, Absent}
        BY <3>3, <4>1, <4>3, FollowType DEF CanMkdir
      <4>5. QED
        BY <3>1, <4>1, <4>4 DEF MkdirAll
    <3>6. QED
      BY <3>4, <3>5
  <2>4. QED
    BY <2>2, <2>3
<1>4. QED
  BY <1>1, <1>2, <1>3 DEF Shape

\* The names of a tree.
Sound(n) == n \in [Paths -> Nodes] /\ Shape(n) /\ LinksIn(n)

LEMMA MkdirSound ==
  ASSUME TypeOK, Sound(name), NEW p \in Paths \cup {Root}, CanMkdirAll(p)
  PROVE  Sound(MkdirAll(p))
<1>1. /\ MkdirAll(p) \in [Paths -> Nodes] /\ Shape(MkdirAll(p))
      /\ \A f \in Paths : MkdirAll(p)[f] \in {name[f], Dir}
  BY MkdirShape DEF Sound, LinksNamed
<1>2. LinksIn(MkdirAll(p))
  BY <1>1, DirAbsent DEF Sound, LinksIn
<1>3. QED
  BY <1>1, <1>2 DEF Sound

LEMMA PutSound ==
  ASSUME NEW n, Sound(n), NEW q \in Paths, NEW node \in Nodes,
         node # Absent /\ Parent[q] # Root => n[Parent[q]] = Dir,
         \A f \in Paths : Parent[f] = q => n[f] = Absent,
         node \in Links => \E l \in Named : l.path = q /\ l.to = node.to
  PROVE  Sound([n EXCEPT ![q] = node])
<1>1. n \in [Paths -> Nodes] /\ Shape(n) /\ LinksIn(n)
  BY DEF Sound
<1>2. Shape([n EXCEPT ![q] = node])
  BY <1>1, PutShape
<1>3. LinksIn([n EXCEPT ![q] = node])
  BY <1>1 DEF LinksIn
<1>4. QED
  BY <1>1, <1>2, <1>3 DEF Sound

\* After MkdirAll of its directory a path can be created where it resolves to.
LEMMA Ready ==
  ASSUME TypeOK, Sound(name), NEW x \in Paths, CanMkdirAll(Parent[x])
  PROVE  LET n == MkdirAll(Parent[x])
         IN  /\ Sound(n)
             /\ Parent[Real(x)] # Root => n[Parent[Real(x)]] = Dir
             /\ \A f \in Paths : Parent[f] # Root => n[f] = name[f]
             /\ \A f \in Paths : f # Parent[x] => n[f] = name[f]
<1> DEFINE d == Parent[x]
           n == MkdirAll(d)
<1>1. d \in Paths \cup {Root} /\ (d # Root => d \in Paths /\ Parent[d] = Root) /\ LinksNamed
  BY ParentType DEF Sound, LinksNamed
<1>2. Sound(n)
  BY <1>1, MkdirSound
<1>3. d # Root => Real(d) = d
  BY <1>1, RealType DEF Through, Linked
<1>4. /\ \A f \in Paths : f # d => n[f] = name[f]
      /\ \A f \in Paths : Parent[f] # Root => n[f] = name[f]
  <2>1. CASE d = Root
    BY <2>1 DEF MkdirAll
  <2>2. CASE d # Root
    <3>1. \A f \in Paths : n[f] = IF name[f] = Absent /\ f \in {d, Root} THEN Dir ELSE name[f]
      BY <1>1, <1>3, <2>2 DEF MkdirAll
    <3> HIDE DEF n
    <3>2. QED
      BY <1>1, <2>2, <3>1, ParentType
  <2>3. QED
    BY <2>1, <2>2
<1>5. ASSUME Parent[Real(x)] # Root PROVE n[Parent[Real(x)]] = Dir
  <2>1. CASE Through(x)
    <3>1. d \in Paths /\ name[d] \in Links /\ Parent[Real(x)] = name[d].to /\ name[d].to \in Paths /\ d # Root
      BY <1>1, <2>1, RealType
    <3>2. Follow(d) = Parent[Real(x)]
      BY <1>3, <3>1 DEF Follow, Linked
    <3>3. CanMkdir(d)
      BY DEF CanMkdirAll
    <3>4. name[Parent[Real(x)]] = Dir
      BY <1>1, <1>3, <3>1, <3>2, <3>3, FollowType, DirAbsent DEF CanMkdir
    <3>5. QED
      BY <3>1, <3>4, DirAbsent DEF MkdirAll
  <2>2. CASE ~Through(x)
    <3>1. Real(x) = x /\ d # Root /\ d \in Paths /\ ~Linked(d)
      <4>1. Real(x) = x
        BY <1>1, <2>2, RealType
      <4>2. ~Linked(d)
        BY <2>2, ParentType DEF Through
      <4>3. QED
        BY <1>1, <1>5, <4>1, <4>2
    <3>2. Follow(d) = d
      BY <1>3, <3>1 DEF Follow
    <3>3. CanMkdir(d)
      BY DEF CanMkdirAll
    <3>4. name[d] \in {Dir, Absent}
      BY <1>1, <1>3, <3>1, <3>2, <3>3, FollowType DEF CanMkdir
    <3>5. n[d] = Dir
      BY <1>3, <3>1, <3>4 DEF MkdirAll
    <3>6. QED
      BY <3>1, <3>5
  <2>3. QED
    BY <2>1, <2>2
<1>6. QED
  BY <1>2, <1>4, <1>5

\* What is not a directory has nothing in it.
LEMMA NoChildren ==
  ASSUME Shape(name), NEW q \in Paths, name[q] # Dir
  PROVE  \A f \in Paths : Parent[f] = q => name[f] = Absent
BY ParentType DEF Shape

LEMMA RemoveClear ==
  ASSUME TypeOK, Sound(name), NEW x \in Paths, CanRemove(x)
  PROVE  \A f \in Paths : Parent[f] = Real(x) => name[f] = Absent
<1>1. Real(x) \in Paths /\ Real(x) # Root /\ Lstat(x) = name[Real(x)]
  BY RealType, FollowType, ParentType DEF Sound, LinksNamed
<1>2. CASE Lstat(x) = Dir
  BY <1>1, <1>2 DEF CanRemove, Below
<1>3. CASE Lstat(x) # Dir
  BY <1>1, <1>3, NoChildren DEF Sound
<1>4. QED
  BY <1>2, <1>3

\* A link that an entry makes is at its own path.
LEMMA OwnLink ==
  ASSUME TypeOK, Sound(name), NEW e \in Named
  PROVE  ~Through(e.path) /\ Real(e.path) = e.path
<1>1. e.path \in Paths
  BY NamedType
<1>2. ~Through(e.path)
  BY <1>1, LinkAssumption, ParentType DEF Through, Linked, Sound, LinksIn
<1>3. QED
  BY <1>1, <1>2, RealType DEF Sound, LinksNamed

\* ---------------------------------------------------------------------------
\* What each kind of entry does to the tree and to the inodes.

LEMMA EntryType ==
  ASSUME NEW e \in Entries
  PROVE  /\ e.op # "opaque" => e.path \in Paths
         /\ e.path \in Paths \cup {Root}
         /\ e.op = "file" => e.file \in Files /\ e.file.ro \in BOOLEAN
                              /\ \A d \in Data : [e.file EXCEPT !.data = d] \in Files
         /\ e.op \in {"symlink", "hardlink"} => e.to \in Paths
BY EntryAssumption DEF Files

LEMMA NodeTypes == /\ \A i \in Inodes : i \in Nodes /\ i \notin Links /\ i # Absent /\ i # Dir
                   /\ \A q \in Paths : Link(q) \in Links /\ Link(q) \in Nodes /\ Link(q).to = q
                                       /\ Link(q) \notin Inodes
                   /\ Inodes \subseteq Nodes
BY NodeAssumption DEF Nodes, Links, Link

LEMMA OverwrittenTree ==
  ASSUME TypeOK, Sound(name), NEW e \in Entries, NEW d \in Data, Overwritten(e, d)
  PROVE  Sound(name') /\ file' \in [Inodes -> Files]
BY DEF Overwritten, TypeOK, Files

LEMMA CreatedTree ==
  ASSUME TypeOK, Sound(name), NEW e \in Entries, NEW d \in Data, Created(e, d)
  PROVE  Sound(name') /\ file' \in [Inodes -> Files]
<1> DEFINE p == e.path
           q == Follow(p)
           n == MkdirAll(Parent[p])
<1>1. p \in Paths /\ CanMkdirAll(Parent[p]) /\ Stat(p) = Absent /\ LinksNamed
      /\ (Parent[q] # Root => n[Parent[q]] = Dir) /\ [e.file EXCEPT !.data = d] \in Files
  BY EntryType DEF Created, Sound, LinksNamed
<1>2. PICK i \in Free : name' = [n EXCEPT ![q] = i] /\ file' = [file EXCEPT ![i] = [e.file EXCEPT !.data = d]]
  BY DEF Created
<1>3. q \in Paths /\ name[q] = Absent
  BY <1>1, FollowType
<1>4. Sound(n) /\ \A f \in Paths : Parent[f] # Root => n[f] = name[f]
  BY <1>1, Ready
<1>5. \A f \in Paths : Parent[f] = q => n[f] = Absent
  BY <1>3, <1>4, NoChildren, ParentType, DirAbsent DEF Sound
<1>6. i \in Inodes /\ i \in Nodes /\ i \notin Links
  BY NodeTypes DEF Free
<1> HIDE DEF n, q
<1>7. Sound([n EXCEPT ![q] = i])
  BY <1>1, <1>3, <1>4, <1>5, <1>6, PutSound
<1>8. QED
  BY <1>1, <1>2, <1>6, <1>7 DEF TypeOK

LEMMA RecreatedTree ==
  ASSUME TypeOK, Sound(name), NEW e \in Entries, NEW d \in Data, Recreated(e, d)
  PROVE  Sound(name') /\ file' \in [Inodes -> Files]
<1> DEFINE q == Real(e.path)
<1>1. e.path \in Paths /\ Stat(e.path) \in Inodes /\ LinksNamed /\ [e.file EXCEPT !.data = d] \in Files
  BY EntryType DEF Recreated, Sound, LinksNamed
<1>2. PICK i \in Inodes : name' = [name EXCEPT ![q] = i] /\ file' = [file EXCEPT ![i] = [e.file EXCEPT !.data = d]]
  BY DEF Recreated
<1>3. q \in Paths /\ q # Root
  BY <1>1, RealType, ParentType
<1>4. name[q] \in Links \/ name[q] \in Inodes
  BY <1>1, <1>3, FollowType DEF Linked
<1>5. name[q] # Absent /\ name[q] # Dir
  BY <1>4, DirAbsent
<1>6. Parent[q] # Root => name[Parent[q]] = Dir
  BY <1>3, <1>5 DEF Sound, Shape
<1>7. \A f \in Paths : Parent[f] = q => name[f] = Absent
  BY <1>3, <1>5, NoChildren DEF Sound
<1> HIDE DEF q
<1>8. Sound([name EXCEPT ![q] = i])
  BY <1>3, <1>6, <1>7, NodeTypes, PutSound
<1>9. QED
  BY <1>1, <1>2, <1>8 DEF TypeOK

\* A link or an inode under the name of an entry, after MkdirAll and os.Remove.
LEMMA LinkTree ==
  ASSUME TypeOK, Sound(name), NEW e \in Entries, e.path \in Paths, CanLink(e), NEW node \in Nodes,
         node \in Links => \E l \in Named : l.path = Real(e.path) /\ l.to = node.to
  PROVE  Sound([MkdirAll(Parent[e.path]) EXCEPT ![Real(e.path)] = node])
<1> DEFINE q == Real(e.path)
           n == MkdirAll(Parent[e.path])
<1>1. q \in Paths
  BY RealType DEF Sound, LinksNamed
<1>2. /\ Sound(n) /\ \A f \in Paths : Parent[f] # Root => n[f] = name[f]
      /\ Parent[q] # Root => n[Parent[q]] = Dir
  BY Ready DEF CanLink
<1>3. \A f \in Paths : Parent[f] = q => n[f] = Absent
  BY <1>1, <1>2, RemoveClear, ParentType DEF CanLink
<1> HIDE DEF n, q
<1>4. QED
  BY <1>1, <1>2, <1>3, PutSound DEF n, q

LEMMA SymlinkTree ==
  ASSUME TypeOK, Sound(name), NEW e \in Entries, Symlink(e)
  PROVE  Sound(name')
<1>1. e \in Named /\ e.path \in Paths /\ e.to \in Paths /\ CanLink(e)
  BY EntryType DEF Symlink, Named
<1>2. Real(e.path) = e.path
  BY <1>1, OwnLink
<1>3. Link(e.to) \in Nodes /\ Link(e.to).to = e.to
  BY <1>1, NodeTypes
<1>4. Sound([MkdirAll(Parent[e.path]) EXCEPT ![Real(e.path)] = Link(e.to)])
  BY <1>1, <1>2, <1>3, LinkTree
<1>5. QED
  BY <1>4 DEF Symlink

LEMMA HardlinkTree ==
  ASSUME TypeOK, Sound(name), NEW e \in Entries, Hardlink(e)
  PROVE  Sound(name')
<1>1. e.path \in Paths /\ CanLink(e) /\ Lstat(e.to) \in Inodes
  BY EntryType DEF Hardlink
<1>2. Lstat(e.to) \in Nodes /\ Lstat(e.to) \notin Links
  BY <1>1, NodeTypes
<1>3. Sound([MkdirAll(Parent[e.path]) EXCEPT ![Real(e.path)] = Lstat(e.to)])
  BY <1>1, <1>2, LinkTree
<1>4. QED
  BY <1>3 DEF Hardlink

\* Names go with all that lies in them.
LEMMA RemovedTree ==
  ASSUME TypeOK, Sound(name), NEW gone \in SUBSET Paths, NEW left \in SUBSET gone,
         \A f \in left : name[f] # Absent /\ (Parent[f] \in gone => Parent[f] \in left),
         \A f \in Paths : Parent[f] \in gone => f \in gone
  PROVE  Sound([f \in Paths |-> IF f \in gone \ left THEN Absent ELSE name[f]])
<1> DEFINE n == [f \in Paths |-> IF f \in gone \ left THEN Absent ELSE name[f]]
<1>1. n \in [Paths -> Nodes]
  BY DirAbsent DEF TypeOK
<1>2. ASSUME NEW p \in Paths, n[p] # Absent, Parent[p] # Root PROVE n[Parent[p]] = Dir
  <2>1. name[p] # Absent /\ p \notin gone \ left /\ Parent[p] \in Paths
    BY <1>2, ParentType
  <2>2. name[Parent[p]] = Dir
    BY <1>2, <2>1 DEF Sound, Shape
  <2>3. Parent[p] \notin gone \ left
    BY <2>1
  <2>4. QED
    BY <2>1, <2>2, <2>3
<1>3. LinksIn(n)
  BY DirAbsent DEF Sound, LinksIn
<1>4. QED
  BY <1>1, <1>2, <1>3 DEF Sound, Shape

LEMMA WhiteoutTree ==
  ASSUME TypeOK, Sound(name), NEW e \in Entries, Whiteout(e)
  PROVE  Sound(name')
<1> DEFINE q == Real(e.path)
           gone == {q} \cup Below(q)
<1>1. q \in Paths /\ q # Root
  BY EntryType, RealType, ParentType DEF Whiteout, Sound, LinksNamed
<1>2. gone = {q} \cup {f \in Paths : Parent[f] = q}
  BY <1>1 DEF Below
<1>3. \A f \in Paths : Parent[f] \in gone => f \in gone
  BY <1>1, <1>2, ParentType
<1>4. PICK left \in SUBSET gone :
         /\ \A f \in left : name[f] # Absent /\ (Parent[f] \in gone => Parent[f] \in left)
         /\ name' = [f \in Paths |-> IF f \in gone \ left THEN Absent ELSE name[f]]
  BY DEF Whiteout, RemoveAll
<1>5. gone \in SUBSET Paths
  BY <1>1, <1>2
<1> HIDE DEF gone
<1>6. QED
  BY <1>3, <1>4, <1>5, RemovedTree

LEMMA OpaqueTree ==
  ASSUME TypeOK, Sound(name), NEW e \in Entries, Opaque(e)
  PROVE  Sound(name')
<1> DEFINE q == Follow(e.path)
           gone == IF Stat(e.path) = Dir THEN Below(q) ELSE {}
<1>1. q \in Paths \cup {Root}
  BY EntryType, FollowType, RootType DEF Sound, LinksNamed
<1>2. gone \in SUBSET Paths
  BY DEF Below
<1>3. \A f \in Paths : Parent[f] \in Below(q) => f \in Below(q)
  BY <1>1, ParentType DEF Below
<1>4. \A f \in Paths : Parent[f] \in gone => f \in gone
  BY <1>3
<1>5. PICK left \in SUBSET gone :
         /\ \A f \in left : name[f] # Absent /\ (Parent[f] \in gone => Parent[f] \in left)
         /\ name' = [f \in Paths |-> IF f \in gone \ left THEN Absent ELSE name[f]]
  BY DEF Opaque, RemoveAll
<1> HIDE DEF gone
<1>6. QED
  BY <1>2, <1>4, <1>5, RemovedTree

LEMMA FailTree ==
  ASSUME TypeOK, Sound(name), NEW e \in Entries, Fail(e)
  PROVE  Sound(name')
<1> DEFINE made == IF e.op \in {"dir", "file", "symlink", "hardlink"} /\ CanMkdirAll(Parent[e.path])
                   THEN MkdirAll(Parent[e.path]) ELSE name
<1>1. name' = name \/ name' = Leftover(e)
  BY DEF Fail
<1>2. Sound(made)
  BY EntryType, Ready
<1>3. CASE e.op \in {"symlink", "hardlink"} /\ CanRemove(e.path)
  <2>1. e.path \in Paths
    BY <1>3, EntryType
  <2>2. Real(e.path) \in Paths
    BY <2>1, RealType DEF Sound, LinksNamed
  <2>3. \A f \in Paths : Parent[f] # Root => made[f] = name[f]
    BY <2>1, Ready
  <2>4. \A f \in Paths : Parent[f] = Real(e.path) => made[f] = Absent
    BY <1>3, <2>1, <2>2, <2>3, RemoveClear, ParentType
  <2>5. Leftover(e) = [made EXCEPT ![Real(e.path)] = Absent]
    BY <1>3 DEF Leftover
  <2> HIDE DEF made
  <2>6. QED
    BY <1>1, <1>2, <2>2, <2>4, <2>5, PutSound, DirAbsent
<1>4. CASE ~(e.op \in {"symlink", "hardlink"} /\ CanRemove(e.path))
  <2>1. Leftover(e) = made
    BY <1>4 DEF Leftover
  <2>2. QED
    BY <1>1, <1>2, <2>1
<1>5. QED
  BY <1>3, <1>4

\* ---------------------------------------------------------------------------
\* Types and the shape of the tree.

TreeInv == TypeOK /\ Sound(name)

LEMMA ShowType ==
  ASSUME TypeOK, NEW p \in Paths, NEW node \in {Absent, Dir} \cup Links \cup Files, Show(p, node)
  PROVE  /\ view' \in [Paths -> {Absent, Dir} \cup Links \cup Files] /\ fresh' \subseteq Paths
         /\ ordered' = ordered
<1>1. Above(p) \subseteq Paths
  BY ParentType DEF Above
<1>2. QED
  BY <1>1 DEF Show, TypeOK

LEMMA HideType ==
  ASSUME TypeOK, NEW gone, Hide(gone)
  PROVE  /\ view' \in [Paths -> {Absent, Dir} \cup Links \cup Files] /\ fresh' \subseteq Paths
         /\ ordered' \in BOOLEAN
BY DEF Hide, TypeOK

LEMMA DoneType ==
  ASSUME TypeOK, NEW e, NEW same \in BOOLEAN, Done(e, same)
  PROVE  /\ ~err /\ err' = err /\ count' \in 0..MaxEntries /\ plain' \in BOOLEAN
         /\ plain' => plain /\ same
BY BoundAssumption DEF Done, Apply, TypeOK

LEMMA FailType ==
  ASSUME TypeOK, NEW e, Apply(e)
  PROVE  count' \in 0..MaxEntries
BY BoundAssumption DEF Apply, TypeOK

LEMMA EntryStep ==
  ASSUME TreeInv, NEW e \in Entries, Entry(e)
  PROVE  TreeInv'
<1>0. TypeOK /\ Sound(name)
  BY DEF TreeInv
<1>1. CASE Directory(e)
  <2>1. e.path \in Paths /\ CanMkdirAll(e.path) /\ name' = MkdirAll(e.path)
    BY <1>1, EntryType DEF Directory
  <2>2. Sound(name')
    BY <1>0, <2>1, MkdirSound
  <2>3. \E same \in BOOLEAN : Done(e, same)
    BY <1>1 DEF Directory
  <2>4. Show(e.path, Dir)
    BY <1>1 DEF Directory
  <2>5. QED
    BY <1>0, <1>1, <2>1, <2>2, <2>3, <2>4, ShowType, DoneType DEF Directory, TreeInv, TypeOK, Sound
<1>2. CASE Rewrite(e) \/ Create(e) \/ Replace(e)
  <2>1. e.path \in Paths /\ e.file \in Files /\ e.file.data \in Data
    BY <1>2, EntryType DEF Rewrite, Create, Replace, Overwritten, Created, Recreated, Files
  <2>2. Sound(name') /\ file' \in [Inodes -> Files]
    BY <1>0, <1>2, <2>1, OverwrittenTree, CreatedTree, RecreatedTree DEF Rewrite, Create, Replace
  <2>3. \E same \in BOOLEAN : Done(e, same)
    BY <1>2 DEF Rewrite, Create, Replace
  <2>4. Show(e.path, e.file)
    BY <1>2 DEF Rewrite, Create, Replace
  <2>5. QED
    BY <1>0, <2>1, <2>2, <2>3, <2>4, ShowType, DoneType DEF TreeInv, TypeOK, Sound
<1>3. CASE Symlink(e)
  <2>1. e.path \in Paths /\ Link(e.to) \in Links
    BY <1>3, EntryType, NodeTypes DEF Symlink
  <2>2. Sound(name')
    BY <1>0, <1>3, SymlinkTree
  <2>3. /\ \E same \in BOOLEAN : Done(e, same)
        /\ Show(e.path, Link(e.to)) /\ file' = file
    BY <1>3 DEF Symlink
  <2>4. QED
    BY <1>0, <2>1, <2>2, <2>3, ShowType, DoneType DEF TreeInv, TypeOK, Sound
<1>4. CASE Hardlink(e)
  <2>1. e.path \in Paths /\ view[e.to] \in {Absent, Dir} \cup Links \cup Files
    BY <1>0, <1>4, EntryType DEF Hardlink, TypeOK
  <2>2. Sound(name')
    BY <1>0, <1>4, HardlinkTree
  <2>3. /\ \E same \in BOOLEAN : Done(e, same)
        /\ Show(e.path, view[e.to]) /\ file' = file
    BY <1>4 DEF Hardlink
  <2>4. QED
    BY <1>0, <2>1, <2>2, <2>3, ShowType, DoneType DEF TreeInv, TypeOK, Sound
<1>5. CASE Whiteout(e) \/ Opaque(e)
  <2>1. Sound(name')
    BY <1>0, <1>5, WhiteoutTree, OpaqueTree
  <2>2. /\ \E same \in BOOLEAN : Done(e, same)
        /\ \E gone : Hide(gone)
        /\ file' = file
    BY <1>5 DEF Whiteout, Opaque, RemoveAll
  <2>3. QED
    BY <1>0, <2>1, <2>2, HideType, DoneType DEF TreeInv, TypeOK, Sound
<1>6. CASE Device(e)
  <2>1. Done(e, TRUE) /\ UNCHANGED <<name, file, view, fresh, ordered>>
    BY <1>6 DEF Device
  <2>2. QED
    BY <1>0, <2>1, DoneType DEF TreeInv, TypeOK, Sound
<1>7. CASE Fail(e)
  <2>1. Sound(name')
    BY <1>0, <1>7, FailTree
  <2>2. count' \in 0..MaxEntries
    BY <1>0, <1>7, FailType DEF Fail
  <2>3. QED
    BY <1>0, <1>7, <2>1, <2>2 DEF Fail, TreeInv, TypeOK, Sound
<1>8. CASE FailCopy(e)
  <2>1. Sound(name') /\ file' \in [Inodes -> Files]
    BY <1>0, <1>8, OverwrittenTree, CreatedTree, RecreatedTree DEF FailCopy
  <2>2. count' \in 0..MaxEntries
    BY <1>0, <1>8, FailType DEF FailCopy
  <2>3. QED
    BY <1>0, <1>8, <2>1, <2>2 DEF FailCopy, TreeInv, TypeOK, Sound
<1>9. QED
  BY <1>1, <1>2, <1>3, <1>4, <1>5, <1>6, <1>7, <1>8 DEF Entry

LEMMA TreeStep == TreeInv /\ [UnpackNext]_unpackVars => TreeInv'
<1> SUFFICES ASSUME TreeInv, [UnpackNext]_unpackVars PROVE TreeInv'
  OBVIOUS
<1>1. CASE UNCHANGED unpackVars
  BY <1>1 DEF TreeInv, TypeOK, Sound, unpackVars, vars
<1>2. CASE Layers
  <2>1. CASE NewLayer
    BY <2>1 DEF NewLayer, TreeInv, TypeOK, Sound
  <2>2. CASE \E e \in Entries : Entry(e)
    BY <2>2, EntryStep
  <2>3. QED
    BY <1>2, <2>1, <2>2 DEF Layers, Next
<1>3. CASE Derive
  <2>1. UNCHANGED <<name, file, count, view, fresh, plain, ordered>> /\ err' \in BOOLEAN
    BY <1>3 DEF Derive, TreeInv, TypeOK
  <2>2. QED
    BY <2>1 DEF TreeInv, TypeOK, Sound
<1>4. QED
  BY <1>1, <1>2, <1>3 DEF UnpackNext

LEMMA TreeInit == UnpackInit => TreeInv
<1> SUFFICES ASSUME Init PROVE TreeInv
  BY DEF UnpackInit
<1>1. \E f \in Files : TRUE
  <2>1. PICK d \in Data : TRUE
    BY BoundAssumption
  <2>2. [data |-> d, ro |-> FALSE] \in Files
    BY DEF Files
  <2>3. QED
    BY <2>2
<1>2. (CHOOSE f \in Files : TRUE) \in Files
  BY <1>1
<1>3. file \in [Inodes -> Files]
  BY <1>2 DEF Init
<1>4. Sound(name)
  BY DirAbsent DEF Init, Sound, Shape, LinksIn
<1>5. /\ name \in [Paths -> Nodes] /\ view \in [Paths -> {Absent, Dir} \cup Links \cup Files]
      /\ err \in BOOLEAN /\ plain \in BOOLEAN /\ ordered \in BOOLEAN /\ fresh \subseteq Paths
  BY DirAbsent DEF Init
<1>6. count \in 0..MaxEntries
  BY BoundAssumption DEF Init
<1>7. QED
  BY <1>3, <1>4, <1>5, <1>6 DEF TreeInv, TypeOK

LEMMA TreeAlways == UnpackSpec => []TreeInv
BY TreeInit, TreeStep, PTL DEF UnpackSpec

\* Every variable keeps its type.
THEOREM TypeCorrect == UnpackSpec => []TypeOK
<1>1. TreeInv => TypeOK
  BY DEF TreeInv
<1>2. QED
  BY <1>1, TreeAlways, PTL

\* What is at a path lies in a directory, whatever was extracted before, failed
\* or could not be removed (applyEntry).
THEOREM StaysTree == UnpackSpec => []TreeShape
<1>1. TreeInv => TreeShape
  BY DEF TreeInv, Sound, Shape, TreeShape
<1>2. QED
  BY <1>1, TreeAlways, PTL

\* ---------------------------------------------------------------------------
\* The union of the layers.

UnionInv == ~err /\ plain /\ ordered => IsUnion

LEMMA DirectoryUnion ==
  ASSUME TreeInv, IsUnion, NEW e \in Entries, Directory(e), ~Through(e.path), ~Linked(e.path)
  PROVE  IsUnion'
<1> DEFINE p == e.path
           n == MkdirAll(p)
<1>1. p \in Paths /\ CanMkdirAll(p) /\ name' = n /\ file' = file /\ Show(p, Dir) /\ TypeOK /\ Sound(name)
  BY EntryType DEF Directory, TreeInv
<1>2. Real(p) = p /\ Follow(p) = p
  BY <1>1, RealType, FollowType DEF Sound, LinksNamed
<1>3. /\ Shape(n) /\ \A f \in Paths : name[f] # Absent => n[f] = name[f]
  BY <1>1, MkdirShape DEF Sound, LinksNamed
<1>4. n[p] = Dir
  <2>1. name[p] \in {Dir, Absent}
    <3>1. CanMkdir(p) /\ p # Root
      BY <1>1, ParentType DEF CanMkdirAll
    <3>2. Stat(p) = name[p] /\ Lstat(p) = name[p]
      BY <1>1, <1>2, FollowType DEF Sound, LinksNamed
    <3>3. QED
      BY <3>1, <3>2 DEF CanMkdir
  <2>2. QED
    BY <1>1, <1>2, <2>1, ParentType DEF MkdirAll
<1>5. \A f \in Above(p) : n[f] = Dir
  BY <1>1, <1>3, <1>4, DirAbsent DEF Above, Shape
<1>6. \A f \in Paths : f # p /\ f \notin Above(p) => n[f] = name[f]
  BY <1>1, <1>2, ParentType DEF MkdirAll, Above
<1> HIDE DEF n
<1>7. ASSUME NEW f \in Paths PROVE Held(f)' = view'[f]
  <2>1. view'[f] = IF f = p \/ f \in Above(p) THEN Dir ELSE view[f]
    BY <1>1 DEF Show
  <2>2. CASE f = p \/ f \in Above(p)
    BY <1>1, <1>4, <1>5, <2>1, <2>2, DirAbsent DEF Held
  <2>3. CASE f # p /\ f \notin Above(p)
    <3>1. name'[f] = name[f] /\ Held(f) = view[f]
      BY <1>1, <1>6, <2>3 DEF IsUnion
    <3>2. QED
      BY <1>1, <2>1, <2>3, <3>1 DEF Held
  <2>4. QED
    BY <2>2, <2>3
<1>8. QED
  BY <1>7 DEF IsUnion

\* A file or a link that comes to stand at its own path, whatever it is.
LEMMA ShownUnion ==
  ASSUME TreeInv, IsUnion, NEW p \in Paths, NEW node, node # Dir, Show(p, node), name' \in [Paths -> Nodes],
         Held(p)' = node, name'[p] # Absent, Parent[p] # Root => name'[Parent[p]] = Dir,
         \A f \in Paths : Parent[f] = p => name'[f] = Absent,
         \A f \in Paths : f # p /\ f # Parent[p] => name'[f] = name[f],
         \A i \in Inodes : file'[i] = file[i] \/ \A f \in Paths : name[f] = i => f = p
  PROVE  IsUnion'
<1>1. ASSUME NEW f \in Paths PROVE Held(f)' = view'[f]
  <2>1. CASE f = p
    BY <2>1 DEF Show
  <2>2. CASE f \in Above(p) /\ f # p
    <3>1. view'[f] = Dir /\ name'[f] = Dir
      BY <2>2 DEF Show, Above
    <3>2. QED
      BY <3>1, DirAbsent DEF Held
  <2>3. CASE f \in Below(p) /\ f # p /\ f \notin Above(p)
    <3>1. view'[f] = Absent
      BY <2>3 DEF Show
    <3>2. name'[f] = Absent
      BY <2>3, ParentType DEF Below
    <3>3. QED
      BY <3>1, <3>2, DirAbsent DEF Held
  <2>4. CASE f \notin Below(p) /\ f # p /\ f \notin Above(p)
    <3>1. view'[f] = view[f]
      BY <2>4 DEF Show
    <3>2. name'[f] = name[f]
      BY <2>4, ParentType DEF Above
    <3>3. name[f] \in Inodes => file'[name[f]] = file[name[f]]
      BY <2>4
    <3>4. Held(f) = view[f]
      BY DEF IsUnion
    <3>5. QED
      BY <3>1, <3>2, <3>3, <3>4 DEF Held
  <2>5. QED
    BY <2>1, <2>2, <2>3, <2>4
<1>2. QED
  BY <1>1 DEF IsUnion

LEMMA FileNodes ==
  /\ \A f \in Files : f # Dir /\ f # Absent
  /\ \A q \in Paths : Link(q) # Dir /\ Link(q) # Absent
BY NodeAssumption, NodeTypes

\* An entry that is written whole is what the entry says.
LEMMA WholeFile ==
  ASSUME NEW e \in Entries, e.op = "file"
  PROVE  e.file \in Files /\ e.file.data \in Data /\ [e.file EXCEPT !.data = e.file.data] = e.file
BY EntryType DEF Files

LEMMA RewriteUnion ==
  ASSUME TreeInv, IsUnion, NEW e \in Entries, Rewrite(e), Names(Stat(e.path)) = {e.path},
         file[Stat(e.path)].ro = e.file.ro
  PROVE  IsUnion'
<1> DEFINE p == e.path
           i == Stat(p)
<1>1. /\ p \in Paths /\ i \in Inodes /\ name' = name /\ file' = [file EXCEPT ![i].data = e.file.data]
      /\ Show(p, e.file) /\ TypeOK /\ Sound(name) /\ e.op = "file"
  BY EntryType DEF Rewrite, Overwritten, TreeInv
<1>2. name[p] = i /\ \A f \in Paths : name[f] = i => f = p
  BY DEF Names
<1> HIDE DEF i
<1>3. file'[i] = e.file
  <2>1. file[i] \in Files /\ e.file \in Files
    BY <1>1, WholeFile DEF TypeOK
  <2>2. file'[i] = [file[i] EXCEPT !.data = e.file.data]
    BY <1>1 DEF TypeOK
  <2>3. QED
    BY <2>1, <2>2 DEF Files, i
<1>4. Held(p)' = e.file
  BY <1>1, <1>2, <1>3 DEF Held
<1>5. name[p] # Absent /\ name[p] # Dir
  BY <1>1, <1>2, DirAbsent
<1>6. Parent[p] # Root => name'[Parent[p]] = Dir
  BY <1>1, <1>5 DEF Sound, Shape
<1>7. \A f \in Paths : Parent[f] = p => name'[f] = Absent
  BY <1>1, <1>5, NoChildren DEF Sound
<1>8. \A j \in Inodes : file'[j] = file[j] \/ \A f \in Paths : name[f] = j => f = p
  BY <1>1, <1>2 DEF TypeOK
<1>9. e.file # Dir /\ name' \in [Paths -> Nodes]
  BY <1>1, FileNodes, WholeFile DEF TypeOK
<1>10. QED
  BY <1>1, <1>4, <1>5, <1>6, <1>7, <1>8, <1>9, ShownUnion

LEMMA CreateUnion ==
  ASSUME TreeInv, IsUnion, NEW e \in Entries, Create(e), ~Through(e.path), ~Linked(e.path)
  PROVE  IsUnion'
<1> DEFINE p == e.path
           n == MkdirAll(Parent[p])
<1>1. /\ p \in Paths /\ CanMkdirAll(Parent[p]) /\ Stat(p) = Absent
      /\ Show(p, e.file) /\ TypeOK /\ Sound(name) /\ LinksNamed /\ e.op = "file"
  BY EntryType DEF Create, Created, TreeInv, Sound, LinksNamed
<1>2. Real(p) = p /\ Follow(p) = p /\ name[p] = Absent
  BY <1>1, RealType, FollowType
<1>3. PICK i \in Free : name' = [n EXCEPT ![p] = i] /\ file' = [file EXCEPT ![i] = [e.file EXCEPT !.data = e.file.data]]
  BY <1>2 DEF Create, Created
<1>4. /\ i \in Inodes /\ i \in Nodes /\ i # Absent /\ \A f \in Paths : name[f] # i
  BY NodeTypes DEF Free, Names
<1>5. /\ n \in [Paths -> Nodes] /\ (Parent[p] # Root => n[Parent[p]] = Dir)
      /\ \A f \in Paths : Parent[f] # Root => n[f] = name[f]
      /\ \A f \in Paths : f # Parent[p] => n[f] = name[f]
  BY <1>1, <1>2, Ready DEF Sound
<1> HIDE DEF n
<1>6. name' \in [Paths -> Nodes] /\ name'[p] = i /\ \A f \in Paths : f # p => name'[f] = n[f]
  BY <1>1, <1>3, <1>4, <1>5
<1>7. file'[i] = e.file /\ \A j \in Inodes : j # i => file'[j] = file[j]
  BY <1>1, <1>3, <1>4, WholeFile DEF TypeOK
<1>8. Held(p)' = e.file
  BY <1>4, <1>6, <1>7 DEF Held
<1>9. Parent[p] # Root => name'[Parent[p]] = Dir
  BY <1>1, <1>5, <1>6, ParentType
<1>10. \A f \in Paths : Parent[f] = p => name'[f] = Absent
  BY <1>1, <1>2, <1>5, <1>6, NoChildren, DirAbsent, ParentType DEF Sound
<1>11. \A f \in Paths : f # p /\ f # Parent[p] => name'[f] = name[f]
  BY <1>5, <1>6
<1>12. \A j \in Inodes : file'[j] = file[j] \/ \A f \in Paths : name[f] = j => f = p
  BY <1>4, <1>7
<1>13. e.file # Dir
  BY <1>1, FileNodes, WholeFile
<1>14. QED
  BY <1>1, <1>4, <1>6, <1>8, <1>9, <1>10, <1>11, <1>12, <1>13, ShownUnion

LEMMA ReplaceUnion ==
  ASSUME TreeInv, IsUnion, NEW e \in Entries, Replace(e), ~Through(e.path)
  PROVE  IsUnion'
<1> DEFINE p == e.path
<1>1. /\ p \in Paths /\ Stat(p) \in Inodes
      /\ Show(p, e.file) /\ TypeOK /\ Sound(name) /\ LinksNamed /\ e.op = "file"
  BY EntryType DEF Replace, Recreated, TreeInv, Sound, LinksNamed
<1>2. Real(p) = p
  BY <1>1, RealType
<1>3. PICK i \in Inodes :
        /\ Names(i) \subseteq {p} /\ name' = [name EXCEPT ![p] = i]
        /\ file' = [file EXCEPT ![i] = [e.file EXCEPT !.data = e.file.data]]
  BY <1>2 DEF Replace, Recreated
<1>4. i \in Nodes /\ i # Absent /\ \A f \in Paths : name[f] = i => f = p
  BY <1>3, NodeTypes DEF Names
<1>5. name' \in [Paths -> Nodes] /\ name'[p] = i /\ \A f \in Paths : f # p => name'[f] = name[f]
  BY <1>1, <1>3, <1>4 DEF TypeOK
<1>6. name[p] # Absent /\ name[p] # Dir
  <2>1. name[p] \in Links \/ name[p] \in Inodes
    BY <1>1, <1>2, FollowType DEF Linked
  <2>2. QED
    BY <2>1, DirAbsent
<1>7. file'[i] = e.file /\ \A j \in Inodes : j # i => file'[j] = file[j]
  BY <1>1, <1>3, WholeFile DEF TypeOK
<1>8. Held(p)' = e.file
  BY <1>5, <1>7 DEF Held
<1>9. Parent[p] # Root => name'[Parent[p]] = Dir
  BY <1>1, <1>5, <1>6, ParentType DEF Sound, Shape
<1>10. \A f \in Paths : Parent[f] = p => name'[f] = Absent
  BY <1>1, <1>5, <1>6, NoChildren, ParentType DEF Sound
<1>11. \A j \in Inodes : file'[j] = file[j] \/ \A f \in Paths : name[f] = j => f = p
  BY <1>4, <1>7
<1>12. e.file # Dir
  BY <1>1, FileNodes, WholeFile
<1>13. QED
  BY <1>1, <1>4, <1>5, <1>8, <1>9, <1>10, <1>11, <1>12, ShownUnion

\* A link, or an inode that the union has under another name.
LEMMA LinkUnion ==
  ASSUME TreeInv, IsUnion, NEW e \in Entries, e.path \in Paths, CanLink(e), ~Through(e.path),
         NEW node \in Nodes, node # Absent, NEW shown, shown # Dir,
         name' = [MkdirAll(Parent[e.path]) EXCEPT ![Real(e.path)] = node],
         shown = IF node \in Inodes THEN file[node] ELSE node,
         Show(e.path, shown), file' = file
  PROVE  IsUnion'
<1> DEFINE p == e.path
           n == MkdirAll(Parent[p])
<1>1. TypeOK /\ Sound(name) /\ LinksNamed /\ CanMkdirAll(Parent[p]) /\ CanRemove(p)
  BY DEF TreeInv, Sound, LinksNamed, CanLink
<1>2. Real(p) = p
  BY <1>1, RealType
<1>3. /\ n \in [Paths -> Nodes] /\ (Parent[p] # Root => n[Parent[p]] = Dir)
      /\ \A f \in Paths : Parent[f] # Root => n[f] = name[f]
      /\ \A f \in Paths : f # Parent[p] => n[f] = name[f]
  BY <1>1, <1>2, Ready DEF Sound
<1> HIDE DEF n
<1>4. name' \in [Paths -> Nodes] /\ name'[p] = node /\ \A f \in Paths : f # p => name'[f] = n[f]
  BY <1>2, <1>3 DEF n
<1>5. Held(p)' = shown
  BY <1>4 DEF Held
<1>6. Parent[p] # Root => name'[Parent[p]] = Dir
  BY <1>3, <1>4, ParentType
<1>7. \A f \in Paths : Parent[f] = p => name'[f] = Absent
  BY <1>1, <1>2, <1>3, <1>4, RemoveClear, ParentType
<1>8. \A f \in Paths : f # p /\ f # Parent[p] => name'[f] = name[f]
  BY <1>3, <1>4
<1>9. QED
  BY <1>4, <1>5, <1>6, <1>7, <1>8, ShownUnion

LEMMA SymlinkUnion ==
  ASSUME TreeInv, IsUnion, NEW e \in Entries, Symlink(e), ~Through(e.path)
  PROVE  IsUnion'
<1>1. e.path \in Paths /\ e.to \in Paths
  BY EntryType DEF Symlink
<1>2. /\ Link(e.to) \in Nodes /\ Link(e.to) \notin Inodes
      /\ Link(e.to) # Absent /\ Link(e.to) # Dir
  BY <1>1, NodeTypes, FileNodes
<1>3. QED
  BY <1>1, <1>2, LinkUnion DEF Symlink

LEMMA HardlinkUnion ==
  ASSUME TreeInv, IsUnion, NEW e \in Entries, Hardlink(e), ~Through(e.path)
  PROVE  IsUnion'
<1>1. e.path \in Paths /\ e.to \in Paths /\ e.op = "hardlink" /\ TypeOK /\ LinksNamed
  BY EntryType DEF Hardlink, TreeInv, Sound, LinksNamed
<1>2. ~Through(e.to)
  <2>1. \A l \in Named : Parent[e.to] # l.path
    BY <1>1, LinkAssumption
  <2>2. QED
    BY <1>1, <2>1, ParentType DEF Through, Linked, LinksNamed, LinksIn
<1>3. Lstat(e.to) = name[e.to] /\ name[e.to] \in Inodes
  BY <1>1, <1>2, RealType, FollowType DEF Hardlink
<1>4. view[e.to] = file[name[e.to]] /\ file[name[e.to]] \in Files
  BY <1>1, <1>3 DEF IsUnion, Held, TypeOK
<1>5. Lstat(e.to) \in Nodes /\ Lstat(e.to) # Absent /\ view[e.to] # Dir
  BY <1>3, <1>4, NodeTypes, FileNodes
<1>6. QED
  BY <1>1, <1>3, <1>4, <1>5, LinkUnion DEF Hardlink

\* Names that go from the tree and from the union alike.
LEMMA HiddenUnion ==
  ASSUME TypeOK, IsUnion, NEW gone \in SUBSET Paths, NEW hidden \in SUBSET Paths, Hide(hidden), ordered',
         name' = [f \in Paths |-> IF f \in gone THEN Absent ELSE name[f]], file' = file,
         gone \subseteq hidden, \A f \in hidden \ gone : name[f] = Absent
  PROVE  IsUnion'
<1>1. hidden \cap fresh = {}
  BY DEF Hide
<1>2. ASSUME NEW f \in Paths PROVE Held(f)' = view'[f]
  <2>1. view'[f] = IF f \in hidden THEN Absent ELSE view[f]
    BY <1>1 DEF Hide
  <2>2. CASE f \in hidden
    <3>1. name'[f] = Absent
      BY <2>2
    <3>2. QED
      BY <2>1, <2>2, <3>1, DirAbsent DEF Held
  <2>3. CASE f \notin hidden
    <3>1. name'[f] = name[f] /\ Held(f) = view[f]
      BY <2>3 DEF IsUnion
    <3>2. QED
      BY <2>1, <2>3, <3>1 DEF Held
  <2>4. QED
    BY <2>2, <2>3
<1>3. QED
  BY <1>2 DEF IsUnion

LEMMA WhiteoutUnion ==
  ASSUME TreeInv, IsUnion, NEW e \in Entries, Whiteout(e), plain', ordered'
  PROVE  IsUnion'
<1> DEFINE p == e.path
           gone == {Real(p)} \cup Below(Real(p))
<1>1. /\ p \in Paths /\ p # Root /\ TypeOK /\ LinksNamed /\ Hide({p} \cup Below(p)) /\ file' = file
  BY EntryType, ParentType DEF Whiteout, RemoveAll, TreeInv, Sound, LinksNamed
<1>2. PICK left \in SUBSET gone :
         /\ name' = [f \in Paths |-> IF f \in gone \ left THEN Absent ELSE name[f]]
         /\ Done(e, ~Through(p) /\ left = {})
  BY DEF Whiteout, RemoveAll
<1>3. ~Through(p) /\ left = {}
  BY <1>2 DEF Done
<1>4. Real(p) = p
  BY <1>1, <1>3, RealType
<1>5. gone = {p} \cup Below(p) /\ gone \in SUBSET Paths
  BY <1>1, <1>4 DEF Below
<1> HIDE DEF gone
<1>6. name' = [f \in Paths |-> IF f \in gone THEN Absent ELSE name[f]]
  BY <1>2, <1>3
<1>7. QED
  BY <1>1, <1>5, <1>6, HiddenUnion

LEMMA OpaqueUnion ==
  ASSUME TreeInv, IsUnion, NEW e \in Entries, Opaque(e), plain', ordered'
  PROVE  IsUnion'
<1> DEFINE p == e.path
           gone == IF Stat(p) = Dir THEN Below(Follow(p)) ELSE {}
<1>1. /\ p \in Paths \cup {Root} /\ TypeOK /\ Sound(name) /\ LinksNamed
      /\ Hide(Below(p)) /\ file' = file /\ Below(p) \in SUBSET Paths
  BY EntryType DEF Opaque, RemoveAll, TreeInv, Sound, LinksNamed, Below
<1>2. PICK left \in SUBSET gone :
         /\ name' = [f \in Paths |-> IF f \in gone \ left THEN Absent ELSE name[f]]
         /\ Done(e, ~Through(p) /\ ~Linked(p) /\ left = {})
  BY DEF Opaque, RemoveAll
<1>3. ~Through(p) /\ ~Linked(p) /\ left = {}
  BY <1>2 DEF Done
<1>4. Follow(p) = p
  BY <1>1, <1>3, RealType, FollowType, RootType
<1>5. \A f \in Below(p) \ gone : name[f] = Absent
  <2>1. CASE p = Root
    BY <2>1, RootType
  <2>2. CASE p # Root /\ Stat(p) # Dir
    <3>1. name[p] # Dir /\ p \in Paths
      BY <1>1, <1>4, <2>2, FollowType
    <3>2. QED
      BY <1>1, <2>2, <3>1, NoChildren DEF Below, Sound
  <2>3. CASE Stat(p) = Dir
    BY <1>4, <2>3
  <2>4. QED
    BY <2>1, <2>2, <2>3
<1>6. gone \subseteq Below(p) /\ gone \in SUBSET Paths
  BY <1>1, <1>4
<1> HIDE DEF gone
<1>7. name' = [f \in Paths |-> IF f \in gone THEN Absent ELSE name[f]]
  BY <1>2, <1>3
<1>8. QED
  BY <1>1, <1>5, <1>6, <1>7, HiddenUnion

LEMMA UnionEntryStep ==
  ASSUME TreeInv, UnionInv, NEW e \in Entries, Entry(e), ~err', plain', ordered'
  PROVE  IsUnion'
<1>0. TypeOK
  BY DEF TreeInv
<1>1. \A same \in BOOLEAN : Done(e, same) => plain /\ same /\ ~err
  BY DEF Done, Apply
<1>2. ordered
  <2>1. CASE \E p, node : Show(p, node)
    BY <2>1 DEF Show
  <2>2. CASE \E gone : Hide(gone)
    BY <2>2 DEF Hide
  <2>3. CASE UNCHANGED ordered
    BY <2>3
  <2>4. QED
    BY <2>1, <2>2, <2>3 DEF Entry, Directory, Rewrite, Create, Replace, Symlink, Hardlink,
       Whiteout, Opaque, Device, Fail, FailCopy
<1>3. CASE Directory(e)
  BY <1>1, <1>2, <1>3, DirectoryUnion DEF Directory, UnionInv
<1>4. CASE Rewrite(e)
  BY <1>1, <1>2, <1>4, RewriteUnion DEF Rewrite, UnionInv
<1>5. CASE Create(e)
  BY <1>1, <1>2, <1>5, CreateUnion DEF Create, UnionInv
<1>6. CASE Replace(e)
  BY <1>1, <1>2, <1>6, ReplaceUnion DEF Replace, UnionInv
<1>7. CASE Symlink(e)
  BY <1>1, <1>2, <1>7, SymlinkUnion DEF Symlink, UnionInv
<1>8. CASE Hardlink(e)
  BY <1>1, <1>2, <1>8, HardlinkUnion DEF Hardlink, UnionInv
<1>9. CASE Whiteout(e)
  <2>1. IsUnion
    BY <1>1, <1>2, <1>9 DEF Whiteout, RemoveAll, UnionInv
  <2>2. QED
    BY <1>9, <2>1, WhiteoutUnion
<1>10. CASE Opaque(e)
  <2>1. IsUnion
    BY <1>1, <1>2, <1>10 DEF Opaque, RemoveAll, UnionInv
  <2>2. QED
    BY <1>10, <2>1, OpaqueUnion
<1>11. CASE Device(e)
  <2>1. IsUnion
    BY <1>1, <1>2, <1>11 DEF Device, UnionInv
  <2>2. UNCHANGED <<name, file, view>>
    BY <1>11 DEF Device
  <2>3. QED
    BY <2>1, <2>2 DEF IsUnion, Held
<1>12. CASE Fail(e) \/ FailCopy(e)
  BY <1>12 DEF Fail, FailCopy
<1>13. QED
  BY <1>3, <1>4, <1>5, <1>6, <1>7, <1>8, <1>9, <1>10, <1>11, <1>12 DEF Entry

LEMMA UnionStep == TreeInv /\ UnionInv /\ [UnpackNext]_unpackVars => UnionInv'
<1> SUFFICES ASSUME TreeInv, UnionInv, [UnpackNext]_unpackVars, ~err', plain', ordered' PROVE IsUnion'
  BY DEF UnionInv
<1>1. ASSUME UNCHANGED <<name, file, view, plain, ordered>>, ~err PROVE IsUnion'
  BY <1>1 DEF UnionInv, IsUnion, Held
<1>2. CASE UNCHANGED unpackVars
  BY <1>1, <1>2 DEF unpackVars, vars
<1>3. CASE Layers
  <2>1. CASE NewLayer
    BY <1>1, <2>1 DEF NewLayer
  <2>2. CASE \E e \in Entries : Entry(e)
    BY <2>2, UnionEntryStep
  <2>3. QED
    BY <1>3, <2>1, <2>2 DEF Layers, Next
<1>4. CASE Derive
  BY <1>1, <1>4 DEF Derive
<1>5. QED
  BY <1>2, <1>3, <1>4 DEF UnpackNext

LEMMA UnionInit == UnpackInit => UnionInv
BY DirAbsent DEF UnpackInit, Init, UnionInv, IsUnion, Held

\* An image that is extracted without an error is the union of its layers, for
\* any tree and any entries, with the exceptions that Faithful names.
THEOREM ExtractsUnion == UnpackSpec => []Faithful
<1>1. UnionInv => Faithful
  BY DEF UnionInv, Faithful
<1>2. QED
  BY <1>1, UnionInit, UnionStep, TreeAlways, PTL DEF UnpackSpec

\* ---------------------------------------------------------------------------
\* The user and the group of the process spec.

\* Reading the tree finds what reading the union does.
LEMMA SameFollow ==
  ASSUME TreeInv, IsUnion, NEW p \in Paths
  PROVE  UnionFollow(p) = Follow(p) /\ Follow(p) \in Paths
<1>1. ASSUME NEW q \in Paths
      PROVE  /\ (name[q] \in Links) <=> (view[q] \in Links)
             /\ name[q] \in Links => view[q] = name[q]
  <2>1. CASE name[q] \in Inodes
    <3>1. view[q] \in Files /\ name[q] \notin Links
      BY <2>1, NodeAssumption DEF TreeInv, TypeOK, IsUnion, Held
    <3>2. QED
      BY <3>1, NodeAssumption
  <2>2. CASE name[q] \notin Inodes
    BY <2>2 DEF IsUnion, Held
  <2>3. QED
    BY <2>1, <2>2
<1>2. TypeOK /\ LinksNamed
  BY DEF TreeInv, Sound, LinksNamed
<1>3. Real(p) \in Paths /\ Real(p) # Root /\ Parent[p] \in Paths \cup {Root} /\ p # Root
  BY <1>2, RealType, ParentType
<1>4. Through(p) <=> Parent[p] # Root /\ view[Parent[p]] \in Links
  BY <1>1, <1>3 DEF Through, Linked
<1>5. Real(p) = IF Parent[p] # Root /\ view[Parent[p]] \in Links
                THEN Child[view[Parent[p]].to][p] ELSE p
  BY <1>1, <1>3, <1>4 DEF Real, Through, Linked
<1>6. UnionFollow(p) = IF view[Real(p)] \in Links THEN view[Real(p)].to ELSE Real(p)
  BY <1>5 DEF UnionFollow
<1>7. UnionFollow(p) = Follow(p)
  BY <1>1, <1>3, <1>6 DEF Follow, Linked
<1>8. QED
  BY <1>2, <1>7, FollowType

\* What the scanner reads is what the union has at the path.
LEMMA SameLines ==
  ASSUME TreeInv, IsUnion, NEW p \in Paths, Opened(p).ok
  PROVE  /\ view[UnionFollow(p)] \in Files
         /\ Opened(p).lines = LinesOf[view[UnionFollow(p)].data]
         /\ Opened(p).lines \in Seq(Lines)
<1> DEFINE q == Follow(p)
<1>1. q \in Paths /\ UnionFollow(p) = q /\ q # Root
  BY SameFollow, ParentType
<1>2. Stat(p) \in Inodes /\ Opened(p).lines = LinesOf[file[Stat(p)].data]
  BY DEF Opened
<1>3. Stat(p) = name[q]
  BY <1>1 DEF Stat, NodeAt
<1>4. view[q] = file[name[q]] /\ file[name[q]] \in Files
  BY <1>1, <1>2, <1>3 DEF TreeInv, TypeOK, IsUnion, Held
<1>5. view[q].data \in Data
  BY <1>4 DEF Files
<1> HIDE DEF q
<1>6. QED
  BY <1>1, <1>2, <1>3, <1>4, <1>5, ConfigAssumption

\* A scan that hits stops at the first entry for its name that is long enough.
EntryFor(lines, t, n, k) ==
  lines[k].kind = "entry" /\ Len(lines[k].fields) >= n /\ lines[k].fields[1] = t
FirstFor(lines, t, n, k) == EntryFor(lines, t, n, k) /\ \A j \in 1..k - 1 : ~EntryFor(lines, t, n, j)
HitAt(lines, t, at, k) ==
  /\ FirstFor(lines, t, at[Len(at)], k)
  /\ \A n \in 1..Len(at) :
       IsId(lines[k].fields[at[n]]) /\ Scan(lines, t, at).ids[n] = Value[lines[k].fields[at[n]]]

LEMMA ScanHit ==
  ASSUME NEW lines \in Seq(Lines), NEW t, NEW at \in Seq(Nat), at # << >>, Scan(lines, t, at).ok
  PROVE  \E k \in 1..Len(lines) : HitAt(lines, t, at, k)
<1> DEFINE ends(k) == \/ lines[k].kind = "long"
                      \/ /\ lines[k].kind = "entry"
                         /\ Len(lines[k].fields) >= at[Len(at)]
                         /\ lines[k].fields[1] = t
           hits == {k \in 1..Len(lines) : ends(k) /\ \A j \in 1..k - 1 : ~ends(j)}
           good(k) == lines[k].kind = "entry" /\ \A n \in 1..Len(at) : IsId(lines[k].fields[at[n]])
           ids == [n \in 1..Len(at) |-> Value[lines[CHOOSE k \in hits : TRUE].fields[at[n]]]]
<1>1. Scan(lines, t, at) = IF \E k \in hits : good(k) THEN Hit(ids) ELSE Miss
  BY DEF Scan
<1> HIDE DEF hits, good, ids
<1>2. PICK k \in hits : good(k)
  BY <1>1 DEF Miss
<1>3. Scan(lines, t, at).ids = ids
  BY <1>1, <1>2 DEF Hit
<1> USE DEF hits, good, ids
<1>4. \A j \in hits : j = k
  <2>1. ASSUME NEW j \in hits, j # k PROVE FALSE
    <3>1. j \in Nat /\ k \in Nat /\ ends(j) /\ ends(k)
      BY <2>1
    <3>2. j \in 1..k - 1 \/ k \in 1..j - 1
      BY <2>1, <3>1
    <3>3. QED
      BY <2>1, <3>1, <3>2
  <2>2. QED
    BY <2>1
<1>5. (CHOOSE j \in hits : TRUE) = k
  BY <1>4
<1>6. /\ k \in 1..Len(lines) /\ ends(k) /\ good(k) /\ \A j \in 1..k - 1 : ~ends(j)
      /\ ids = [n \in 1..Len(at) |-> Value[lines[k].fields[at[n]]]]
  BY <1>2, <1>5
<1>7. FirstFor(lines, t, at[Len(at)], k)
  BY <1>6 DEF FirstFor, EntryFor
<1>8. ASSUME NEW n \in 1..Len(at)
      PROVE  /\ IsId(lines[k].fields[at[n]])
             /\ Scan(lines, t, at).ids[n] = Value[lines[k].fields[at[n]]]
  <2>1. Scan(lines, t, at).ids = [i \in 1..Len(at) |-> Value[lines[k].fields[at[i]]]]
    BY <1>3, <1>6
  <2>2. IsId(lines[k].fields[at[n]])
    BY <1>6
  <2> HIDE DEF ends, hits, good, ids
  <2>3. QED
    BY <2>1, <2>2
<1>9. HitAt(lines, t, at, k)
  BY <1>7, <1>8 DEF HitAt
<1>10. QED
  BY <1>6, <1>9

\* A lookup that hits gives the ids of the entry the union has.
LEMMA UnionHit ==
  ASSUME TreeInv, IsUnion, NEW path \in {PasswdPath, GroupPath}, NEW t, NEW at \in Seq(Nat),
         at # << >>, Opened(path).ok, Scan(Opened(path).lines, t, at).ok
  PROVE  \E f \in UnionEntry(path, at[Len(at)], t) : \A n \in 1..Len(at) :
           IsId(f[at[n]]) /\ Scan(Opened(path).lines, t, at).ids[n] = Value[f[at[n]]]
<1> DEFINE lines == Opened(path).lines
           last == at[Len(at)]
<1>1. path \in Paths
  BY ConfigAssumption
<1>2. /\ view[UnionFollow(path)] \in Files /\ lines = LinesOf[view[UnionFollow(path)].data]
      /\ lines \in Seq(Lines) /\ Scan(lines, t, at).ok
  BY <1>1, SameLines
<1> HIDE DEF lines
<1>3. PICK k \in 1..Len(lines) : HitAt(lines, t, at, k)
  BY <1>2, ScanHit
<1>4. UnionEntry(path, last, t) =
        {lines[j].fields : j \in {i \in 1..Len(lines) : FirstFor(lines, t, last, i)}}
  BY <1>2 DEF UnionEntry, FirstFor, EntryFor
<1>5. lines[k].fields \in UnionEntry(path, last, t)
  BY <1>3, <1>4 DEF HitAt
<1>6. \A n \in 1..Len(at) :
        IsId(lines[k].fields[at[n]]) /\ Scan(lines, t, at).ids[n] = Value[lines[k].fields[at[n]]]
  BY <1>3 DEF HitAt
<1>7. QED
  BY <1>5, <1>6 DEF lines

LEMMA PasswdHit ==
  ASSUME TreeInv, IsUnion, NEW t, LookupPasswd(Tree, t).ok
  PROVE  \E f \in UnionEntry(PasswdPath, 4, t) :
           /\ IsId(f[3]) /\ LookupPasswd(Tree, t).ids[1] = Value[f[3]]
           /\ IsId(f[4]) /\ LookupPasswd(Tree, t).ids[2] = Value[f[4]]
<1> DEFINE at == <<3, 4>>
<1>1. at \in Seq(Nat) /\ at # << >> /\ Len(at) = 2 /\ at[1] = 3 /\ at[2] = 4
  OBVIOUS
<1>2. Opened(PasswdPath).ok /\ LookupPasswd(Tree, t) = Scan(Opened(PasswdPath).lines, t, at)
  BY DEF LookupPasswd, Tree, Miss
<1> HIDE DEF at
<1>3. PICK f \in UnionEntry(PasswdPath, at[Len(at)], t) : \A n \in 1..Len(at) :
        IsId(f[at[n]]) /\ Scan(Opened(PasswdPath).lines, t, at).ids[n] = Value[f[at[n]]]
  BY <1>1, <1>2, UnionHit
<1>4. 1 \in 1..Len(at) /\ 2 \in 1..Len(at)
  BY <1>1
<1>5. QED
  BY <1>1, <1>2, <1>3, <1>4

LEMMA GroupHit ==
  ASSUME TreeInv, IsUnion, NEW t, LookupGroup(Tree, t).ok
  PROVE  \E f \in UnionEntry(GroupPath, 3, t) :
           IsId(f[3]) /\ LookupGroup(Tree, t).ids[1] = Value[f[3]]
<1> DEFINE at == <<3>>
<1>1. at \in Seq(Nat) /\ at # << >> /\ Len(at) = 1 /\ at[1] = 3
  OBVIOUS
<1>2. Opened(GroupPath).ok /\ LookupGroup(Tree, t) = Scan(Opened(GroupPath).lines, t, at)
  BY DEF LookupGroup, Tree, Miss
<1> HIDE DEF at
<1>3. PICK f \in UnionEntry(GroupPath, at[Len(at)], t) : \A n \in 1..Len(at) :
        IsId(f[at[n]]) /\ Scan(Opened(GroupPath).lines, t, at).ids[n] = Value[f[at[n]]]
  BY <1>1, <1>2, UnionHit
<1>4. 1 \in 1..Len(at)
  BY <1>1
<1>5. QED
  BY <1>1, <1>2, <1>3, <1>4

\* A derived spec has the ids its config's user has in the tree, which no longer
\* changes: nothing is extracted once there is a spec.
Derived ==
  spec # NoSpec =>
    ~err /\ UserIds(Tree, config.user).ok /\ spec.ids = UserIds(Tree, config.user).ids

LEMMA ProcessIds ==
  ASSUME NEW c, NEW tree, NEW cmd
  PROVE  Overridden(Process(c, tree), cmd).ids = UserIds(tree, c.user).ids
BY DEF Overridden, Process

LEMMA DerivedStep == Derived /\ [UnpackNext]_unpackVars => Derived'
<1> SUFFICES ASSUME Derived, [UnpackNext]_unpackVars, spec' # NoSpec
             PROVE  (~err /\ UserIds(Tree, config.user).ok
                          /\ spec.ids = UserIds(Tree, config.user).ids)'
  BY DEF Derived
<1>1. CASE UNCHANGED unpackVars
  <2>1. Tree' = Tree
    BY <1>1 DEF unpackVars, vars, Tree, Opened, Stat, NodeAt, Follow, Linked, Real, Through
  <2>2. UNCHANGED <<spec, config, err>>
    BY <1>1 DEF unpackVars, vars
  <2>3. QED
    BY <2>1, <2>2 DEF Derived
<1>2. CASE Layers
  BY <1>2 DEF Layers
<1>3. CASE Derive
  <2>1. UserIds(Tree, config.user).ok /\ ~err /\ ~err'
    BY <1>3 DEF Derive
  <2>2. PICK cmd \in Commands : spec' = Overridden(Process(config, Tree), cmd)
    BY <1>3, <2>1 DEF Derive
  <2>3. spec'.ids = UserIds(Tree, config.user).ids
    BY <2>2, ProcessIds
  <2>4. config' = config /\ Tree' = Tree
    BY <1>3 DEF Derive, Tree, Opened, Stat, NodeAt, Follow, Linked, Real, Through
  <2>5. QED
    BY <2>1, <2>3, <2>4
<1>4. QED
  BY <1>1, <1>2, <1>3 DEF UnpackNext

LEMMA DerivedAlways == UnpackSpec => [](TreeInv /\ UnionInv /\ Derived)
<1>1. UnpackInit => Derived
  BY DEF UnpackInit, Derived
<1>2. QED
  BY <1>1, DerivedStep, UnionInit, UnionStep, TreeAlways, PTL DEF UnpackSpec

\* The image runs as root only if it names no user, the id 0, or a user that the
\* union of its layers gives the id 0: a lookup that misses fails the pull, it
\* does not fall back to the zero user (configspec.go).
THEOREM RootIsAsked == UnpackSpec => []RootOnlyIfAsked
<1>1. TreeInv /\ UnionInv /\ Derived => RootOnlyIfAsked
  <2> SUFFICES ASSUME TreeInv, UnionInv, Derived, spec # NoSpec, plain, ordered, spec.ids[1] = 0,
                      config.user.left # NoToken
               PROVE  LET t == config.user.left
                      IN  \/ IsId(t) /\ Value[t] = 0
                          \/ \E f \in UnionEntry(PasswdPath, 4, t) : IsId(f[3]) /\ Value[f[3]] = 0
    BY DEF RootOnlyIfAsked
  <2> DEFINE u == config.user
             t == config.user.left
  <2>1. IsUnion /\ UserIds(Tree, u).ok /\ UserIds(Tree, u).ids[1] = 0
    BY DEF Derived, UnionInv
  <2>2. CASE IsId(t)
    <3>1. ParseImageUser(u).ok => ParseImageUser(u).ids[1] = Value[t]
      BY <2>2 DEF ParseImageUser, Hit, Miss
    <3>2. ResolveNamedUser(Tree, u).ok => ResolveNamedUser(Tree, u).ids[1] = Value[t]
      BY <2>2 DEF ResolveNamedUser, ResolveUser, Id, Hit, Miss
    <3>3. QED
      BY <2>1, <2>2, <3>1, <3>2 DEF UserIds
  <2>3. CASE ~IsId(t)
    <3>1. ~ParseImageUser(u).ok
      BY <2>3 DEF ParseImageUser, Miss
    <3>2. ResolveNamedUser(Tree, u).ok /\ ResolveNamedUser(Tree, u).ids[1] = 0
      BY <2>1, <3>1 DEF UserIds
    <3>3. LookupPasswd(Tree, t).ok /\ LookupPasswd(Tree, t).ids[1] = 0
      BY <2>3, <3>2 DEF ResolveNamedUser, ResolveUser, Hit, Miss
    <3>4. QED
      BY <2>1, <3>3, PasswdHit
  <2>4. QED
    BY <2>2, <2>3
<1>2. QED
  BY <1>1, DerivedAlways, PTL

\* A user given by name gets the group the image names, or the one the union of
\* its layers gives that user, when the image names none (resolveNamedUser).
THEOREM GroupIsAsked == UnpackSpec => []GroupAsAsked
<1>1. TreeInv /\ UnionInv /\ Derived => GroupAsAsked
  <2> SUFFICES ASSUME TreeInv, UnionInv, Derived, spec # NoSpec, plain, ordered,
                      config.user.left \in Tokens
               PROVE  LET t == config.user.left
                          g == config.user.right
                          gid == spec.ids[2]
                      IN  IF g = NoToken
                          THEN IF IsId(t) THEN gid = 0
                               ELSE \E f \in UnionEntry(PasswdPath, 4, t) :
                                      IsId(f[4]) /\ gid = Value[f[4]]
                          ELSE IF IsId(g) THEN gid = Value[g]
                          ELSE \E f \in UnionEntry(GroupPath, 3, g) :
                                 IsId(f[3]) /\ gid = Value[f[3]]
    BY DEF GroupAsAsked
  <2> DEFINE u == config.user
             t == u.left
             g == u.right
             gid == spec.ids[2]
             named == ResolveNamedUser(Tree, u)
  <2>1. IsUnion /\ UserIds(Tree, u).ok /\ spec.ids = UserIds(Tree, u).ids
    BY DEF Derived, UnionInv
  <2>2. t # NoToken
    BY TokenAssumption
  <2>3. CASE g = NoToken /\ IsId(t)
    <3>1. ParseImageUser(u).ok /\ ParseImageUser(u).ids[2] = 0
      BY <2>3 DEF ParseImageUser, Hit
    <3>2. gid = 0
      BY <2>1, <2>2, <3>1 DEF UserIds
    <3>3. QED
      BY <2>3, <3>2
  <2>4. CASE g # NoToken /\ IsId(g) /\ IsId(t)
    <3>1. ParseImageUser(u).ok /\ ParseImageUser(u).ids[2] = Value[g]
      BY <2>4 DEF ParseImageUser, Hit
    <3>2. gid = Value[g]
      BY <2>1, <2>2, <3>1 DEF UserIds
    <3>3. QED
      BY <2>4, <3>2
  <2>5. ASSUME ~IsId(t) \/ (g # NoToken /\ ~IsId(g)) PROVE named.ok /\ gid = named.ids[2]
    <3>1. ~ParseImageUser(u).ok
      BY <2>5 DEF ParseImageUser, Miss
    <3>2. QED
      BY <2>1, <2>2, <3>1 DEF UserIds
  <2>6. CASE g = NoToken /\ ~IsId(t)
    <3>1. named.ok /\ gid = named.ids[2]
      BY <2>5, <2>6
    <3>2. LookupPasswd(Tree, t).ok /\ gid = LookupPasswd(Tree, t).ids[2]
      BY <2>6, <3>1 DEF ResolveNamedUser, ResolveUser, Hit, Miss
    <3>3. PICK f \in UnionEntry(PasswdPath, 4, t) : IsId(f[4]) /\ gid = Value[f[4]]
      BY <2>1, <3>2, PasswdHit
    <3>4. QED
      BY <2>6, <3>3
  <2>7. CASE g # NoToken /\ IsId(g) /\ ~IsId(t)
    <3>1. named.ok /\ gid = named.ids[2]
      BY <2>5, <2>7
    <3>2. gid = Value[g]
      BY <2>7, <3>1 DEF ResolveNamedUser, ResolveGroup, Id, Hit, Miss
    <3>3. QED
      BY <2>7, <3>2
  <2>8. CASE g # NoToken /\ ~IsId(g)
    <3>1. named.ok /\ gid = named.ids[2]
      BY <2>5, <2>8
    <3>2. LookupGroup(Tree, g).ok /\ gid = LookupGroup(Tree, g).ids[1]
      BY <2>8, <3>1 DEF ResolveNamedUser, ResolveGroup, Hit, Miss
    <3>3. PICK f \in UnionEntry(GroupPath, 3, g) : IsId(f[3]) /\ gid = Value[f[3]]
      BY <2>1, <3>2, GroupHit
    <3>4. QED
      BY <2>8, <3>3
  <2> HIDE DEF u, t, g, gid, named
  <2>9. QED
    BY <2>3, <2>4, <2>6, <2>7, <2>8 DEF u, t, g, gid
<1>2. QED
  BY <1>1, DerivedAlways, PTL
=============================================================================
