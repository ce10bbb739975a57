------------------------------ MODULE Artifact ------------------------------
(***************************************************************************)
(* PullKernel (pull_kernel.go) and PullPodInitrd (pull_pod_initrd.go): two *)
(* copies of one procedure that downloads a boot artifact into dst.tmp and *)
(* renames it over dst.  The calls share the directory and nothing else:   *)
(* there is no lock, and every call uses the same name dst.tmp.            *)
(*                                                                         *)
(* A directory entry names an inode; an open file is an inode, which lives *)
(* on when its name is removed or renamed.  An artifact is a row of chunks *)
(* (what one write of io.Copy stores), as many as its version is long.     *)
(***************************************************************************)
EXTENDS Naturals

CONSTANTS
  Pullers,      \* the processes that may call the procedure
  Versions,     \* the artifacts the tag may name over time
  Size,         \* Size[v]: the chunks of version v
  MaxSize,      \* the length of the longest version
  Inodes,       \* the inodes of the file system
  NoFile,       \* a directory entry or descriptor that names no inode
  NoData,       \* a chunk that was never written, or no version
  Exclusive,    \* TRUE: whoever calls sees to it that calls never overlap
  MayCrash      \* TRUE: a caller may be killed at any step

ASSUME SizeAssumption ==
  /\ MaxSize \in Nat
  /\ Size \in [Versions -> 1..MaxSize]
ASSUME SentinelAssumption == NoFile \notin Inodes /\ NoData \notin Versions
ASSUME ModeAssumption == Exclusive \in BOOLEAN /\ MayCrash \in BOOLEAN

VARIABLES
  tag,          \* the version the registry's tag names
  pc,           \* pc[p]: the call of p that comes next, "idle" outside a call
  outcome,      \* outcome[p]: how the last call of p ended
  want,         \* want[p]: the version p resolved the tag to
  fd,           \* fd[p]: the inode p has open for writing
  off,          \* off[p]: the chunks p has written
  dir,          \* the directory: the inodes of the names tmp and dst
  content       \* content[i]: the chunks of inode i

vars == <<tag, pc, outcome, want, fd, off, dir, content>>

Chunks == 1..MaxSize
Blank == [k \in Chunks |-> NoData]
\* The first n chunks of v, and nothing after them.
Prefix(v, n) == [k \in Chunks |-> IF k <= n THEN v ELSE NoData]
Whole(v) == Prefix(v, Size[v])

Stage == {"idle", "resolve", "manifest", "mkdir", "remove", "open", "fetch",
          "copy", "rename", "cleanup"}

TypeOK ==
  /\ tag \in Versions
  /\ pc \in [Pullers -> Stage]
  /\ outcome \in [Pullers -> {"none", "ok", "err", "crash"}]
  /\ want \in [Pullers -> Versions \cup {NoData}]
  /\ \A p \in Pullers : pc[p] \notin {"idle", "resolve"} => want[p] \in Versions
  /\ fd \in [Pullers -> Inodes \cup {NoFile}]
  /\ off \in [Pullers -> 0..MaxSize]
  /\ dir \in [{"tmp", "dst"} -> Inodes \cup {NoFile}]
  /\ content \in [Inodes -> [Chunks -> Versions \cup {NoData}]]

\* The cache directory may hold an earlier artifact, and a dst.tmp of any
\* content that a killed caller left.
Init ==
  /\ tag \in Versions
  /\ pc = [p \in Pullers |-> "idle"]
  /\ outcome = [p \in Pullers |-> "none"]
  /\ want = [p \in Pullers |-> NoData]
  /\ fd = [p \in Pullers |-> NoFile]
  /\ off = [p \in Pullers |-> 0]
  /\ dir \in [{"tmp", "dst"} -> Inodes \cup {NoFile}]
  /\ dir["tmp"] = dir["dst"] => dir["tmp"] = NoFile
  /\ dir["tmp"] # NoFile => MayCrash
  /\ content \in [Inodes -> [Chunks -> Versions \cup {NoData}]]
  /\ \A i \in Inodes :
       /\ i = dir["dst"] => \E v \in Versions : content[i] = Whole(v)
       /\ i = dir["tmp"] => \E v \in Versions, n \in 0..MaxSize :
                                content[i] = Prefix(v, n)
       /\ i \notin {dir["dst"], dir["tmp"]} => content[i] = Blank

-----------------------------------------------------------------------------
(* Control: a call moves to its next step or returns.                      *)

At(p, stage) == pc[p] = stage
Goto(p, stage) ==
  /\ pc' = [pc EXCEPT ![p] = stage]
  /\ UNCHANGED outcome
\* A return forgets the locals of the call; open files are closed.
Return(p, how) ==
  /\ pc' = [pc EXCEPT ![p] = "idle"]
  /\ outcome' = [outcome EXCEPT ![p] = how]
  /\ want' = [want EXCEPT ![p] = NoData]
  /\ fd' = [fd EXCEPT ![p] = NoFile]
  /\ off' = [off EXCEPT ![p] = 0]

locals == <<want, fd, off>>
disk == <<dir, content>>

\* os.Remove: a name that is absent is an error the code ignores.
Remove(name) ==
  /\ dir' = [dir EXCEPT ![name] = NoFile]
  /\ UNCHANGED content

-----------------------------------------------------------------------------
(* The registry, which is outside the code: a tag may be moved.            *)

Retag ==
  /\ tag' \in Versions
  /\ UNCHANGED <<pc, outcome, want, fd, off, dir, content>>

-----------------------------------------------------------------------------
(* The procedure, one action per call that can fail or that another process *)
(* can observe.                                                            *)

Call(p) ==
  /\ At(p, "idle")
  /\ Exclusive => \A q \in Pullers : pc[q] = "idle"
  /\ pc' = [pc EXCEPT ![p] = "resolve"]
  /\ outcome' = [outcome EXCEPT ![p] = "none"]
  /\ UNCHANGED <<tag, locals, disk>>

\* repo.Resolve: the digest, and with it the version, is pinned here.
Resolve(p) ==
  /\ At(p, "resolve")
  /\ want' = [want EXCEPT ![p] = tag]
  /\ Goto(p, "manifest")
  /\ UNCHANGED <<tag, fd, off, disk>>

\* resolvePlatform, fetchAll, Unmarshal and the search for the layer.
FetchManifest(p) ==
  /\ At(p, "manifest")
  /\ Goto(p, "mkdir")
  /\ UNCHANGED <<tag, locals, disk>>

Mkdir(p) ==
  /\ At(p, "mkdir")
  /\ Goto(p, "remove")
  /\ UNCHANGED <<tag, locals, disk>>

\* Mutant: the old artifact is removed before the new one is there.
RemoveDst(p) ==
  /\ At(p, "remove")
  /\ Remove("dst")
  /\ Goto(p, "open")
  /\ UNCHANGED <<tag, locals>>

\* Tidy the leftover of an interrupted run.
RemoveTmp(p) ==
  /\ At(p, "remove")
  /\ Remove("tmp")
  /\ Goto(p, "open")
  /\ UNCHANGED <<tag, locals>>

\* OpenFile(O_CREATE|O_TRUNC): the inode dst.tmp names now, or a new one.
OpenTmp(p) ==
  /\ At(p, "open")
  /\ \E i \in Inodes :
       /\ \/ dir["tmp"] = i
          \/ /\ dir["tmp"] = NoFile
             /\ i # dir["dst"]
             /\ \A q \in Pullers : fd[q] # i
       /\ dir' = [dir EXCEPT !["tmp"] = i]
       /\ content' = [content EXCEPT ![i] = Blank]
       /\ fd' = [fd EXCEPT ![p] = i]
  /\ Goto(p, "fetch")
  /\ UNCHANGED <<tag, want, off>>

FetchLayer(p) ==
  /\ At(p, "fetch")
  /\ Goto(p, "copy")
  /\ UNCHANGED <<tag, locals, disk>>

\* Mutant: the copy goes on after the end of the stream.
CopyPastEnd(p) ==
  /\ At(p, "copy")
  /\ off[p] <= Size[want[p]]
  /\ off' = [off EXCEPT ![p] = off[p] + 1]
  /\ content' = [content EXCEPT ![fd[p]] =
       [k \in Chunks |-> IF k = off[p] + 1 THEN want[p] ELSE content[fd[p]][k]]]
  /\ UNCHANGED <<tag, pc, outcome, want, fd, dir>>

\* One write of io.Copy, at the offset of this descriptor.
CopyChunk(p) ==
  /\ At(p, "copy")
  /\ off[p] < Size[want[p]]
  /\ off' = [off EXCEPT ![p] = off[p] + 1]
  /\ content' = [content EXCEPT ![fd[p]][off[p] + 1] = want[p]]
  /\ UNCHANGED <<tag, pc, outcome, want, fd, dir>>

\* The stream has ended and f.Close succeeded.
CloseTmp(p) ==
  /\ At(p, "copy")
  /\ off[p] = Size[want[p]]
  /\ fd' = [fd EXCEPT ![p] = NoFile]
  /\ Goto(p, "rename")
  /\ UNCHANGED <<tag, want, off, disk>>

\* os.Rename: whatever dst.tmp names becomes dst, and the call succeeds; if
\* another call took dst.tmp away, the rename fails and the call cleans up.
Rename(p) ==
  /\ At(p, "rename")
  /\ UNCHANGED <<tag, content>>
  /\ \/ /\ dir["tmp"] # NoFile
        /\ dir' = [dir EXCEPT !["dst"] = dir["tmp"], !["tmp"] = NoFile]
        /\ Return(p, "ok")
     \/ /\ dir["tmp"] = NoFile
        /\ Goto(p, "cleanup")
        /\ UNCHANGED <<locals, dir>>

\* A step before dst.tmp is open fails: the call returns its error.
FailEarly(p) ==
  /\ pc[p] \in {"resolve", "manifest", "mkdir", "open"}
  /\ Return(p, "err")
  /\ UNCHANGED <<tag, disk>>

\* Mutant: the error of io.Copy is dropped.
FailLateUnseen(p) ==
  /\ pc[p] \in {"fetch", "copy", "rename"}
  /\ Goto(p, IF pc[p] = "copy" THEN "rename" ELSE "cleanup")
  /\ fd' = [fd EXCEPT ![p] = NoFile]
  /\ UNCHANGED <<tag, want, off, disk>>

\* Fetch, Copy, Close or Rename fails: dst.tmp is closed, then removed.
FailLate(p) ==
  /\ pc[p] \in {"fetch", "copy", "rename"}
  /\ Goto(p, "cleanup")
  /\ fd' = [fd EXCEPT ![p] = NoFile]
  /\ UNCHANGED <<tag, want, off, disk>>

\* Mutants: the error is not returned; dst.tmp is not removed.
CleanUpQuiet(p) ==
  /\ At(p, "cleanup")
  /\ Remove("tmp")
  /\ Return(p, "ok")
  /\ UNCHANGED tag

CleanUpKeep(p) ==
  /\ At(p, "cleanup")
  /\ Return(p, "err")
  /\ UNCHANGED <<tag, disk>>

CleanUp(p) ==
  /\ At(p, "cleanup")
  /\ Remove("tmp")
  /\ Return(p, "err")
  /\ UNCHANGED tag

\* The process is killed: its descriptors are closed, its files stay.
Crash(p) ==
  /\ MayCrash
  /\ pc[p] # "idle"
  /\ Return(p, "crash")
  /\ UNCHANGED <<tag, disk>>

Step(p) ==
  \/ Resolve(p) \/ FetchManifest(p) \/ Mkdir(p) \/ RemoveTmp(p) \/ OpenTmp(p)
  \/ FetchLayer(p) \/ CopyChunk(p) \/ CloseTmp(p) \/ Rename(p)
  \/ FailEarly(p) \/ FailLate(p) \/ CleanUp(p)

Next ==
  \/ Retag
  \/ \E p \in Pullers : Call(p) \/ Step(p) \/ Crash(p)

Spec == Init /\ [][Next]_vars

-----------------------------------------------------------------------------
(* What must hold.                                                         *)

\* The artifact the hypervisor would load is absent or one whole version,
\* never a part or a mixture of versions ("atomically replaces", PullKernel).
DstWhole ==
  dir["dst"] # NoFile => \E v \in Versions : content[dir["dst"]] = Whole(v)

\* Once a boot artifact is installed, no pull, failed or killed or disturbed
\* by another one, ever leaves the host without one.
InstalledStays == [][dir["dst"] # NoFile => dir'["dst"] # NoFile]_vars

\* Callers that are not killed leave no dst.tmp behind, even when they pull
\* the name from under each other: it exists only while one of them is
\* between opening it and its rename or clean-up.
TmpOwned ==
  MayCrash \/ dir["tmp"] = NoFile
    \/ \E p \in Pullers : pc[p] \in {"fetch", "copy", "rename", "cleanup"}

\* The version a file holds; a torn file holds none.
VersionOf(file) ==
  LET vs == {v \in Versions : file = Whole(v)}
  IN  IF vs = {} THEN "torn" ELSE CHOOSE v \in vs : TRUE

\* What the refinement mapping reads from dst.
Held == IF dir["dst"] = NoFile THEN NoData ELSE VersionOf(content[dir["dst"]])

Atomic == INSTANCE AtomicFile
  WITH Clients <- Pullers, None <- NoData, latest <- tag, file <- Held,
       busy <- [p \in Pullers |-> pc[p] # "idle"], got <- want

\* The whole procedure, with its crashes and failures, implements the atomic
\* replacement of one file as long as calls do not overlap.
AtomicSpec == Atomic!Spec
=============================================================================
