--------------------------- MODULE ArtifactProofs ---------------------------
(***************************************************************************)
(* What holds of Artifact for every number of callers, versions, sizes and *)
(* inodes.  Type correctness, InstalledStays and TmpOwned need nothing of  *)
(* the callers; DstWhole and the refinement of AtomicFile need Exclusive.  *)
(***************************************************************************)
EXTENDS Artifact, TLAPS

-----------------------------------------------------------------------------
(* The inductive invariant behind DstWhole.                                *)

\* At most one call is in progress.
Alone == \A p, q \in Pullers : pc[p] # "idle" /\ pc[q] # "idle" => p = q

\* The two names never share an inode, so writing one spares the other.
Apart == dir["tmp"] = dir["dst"] => dir["tmp"] = NoFile

\* What the call of p has done so far is in dst.tmp, and nothing else is.
Draft(p) ==
  /\ pc[p] \in {"idle", "resolve"} => want[p] = NoData
  /\ pc[p] \notin {"copy", "rename", "cleanup"} => off[p] = 0
  /\ pc[p] \in {"fetch", "copy"} =>
       /\ fd[p] \in Inodes
       /\ dir["tmp"] = fd[p]
       /\ off[p] <= Size[want[p]]
       /\ content[fd[p]] = Prefix(want[p], off[p])
  /\ pc[p] = "rename" =>
       dir["tmp"] \in Inodes /\ content[dir["tmp"]] = Whole(want[p])

IInv ==
  /\ TypeOK
  /\ Alone
  /\ Apart
  /\ DstWhole
  /\ \A p \in Pullers : Draft(p)

-----------------------------------------------------------------------------
(* Type correctness.                                                       *)

LEMMA PrefixType ==
  ASSUME NEW v \in Versions, NEW n
  PROVE  Prefix(v, n) \in [Chunks -> Versions \cup {NoData}]
BY DEF Prefix

LEMMA BlankType == Blank \in [Chunks -> Versions \cup {NoData}]
BY DEF Blank

LEMMA ReturnType ==
  ASSUME TypeOK, NEW p \in Pullers, NEW how \in {"ok", "err", "crash"},
         Return(p, how), UNCHANGED tag,
         dir' \in [{"tmp", "dst"} -> Inodes \cup {NoFile}], UNCHANGED content
  PROVE  TypeOK'
BY SizeAssumption DEF TypeOK, Return, Stage

LEMMA TypeStep == TypeOK /\ [Next]_vars => TypeOK'
<1> SUFFICES ASSUME TypeOK, [Next]_vars PROVE TypeOK'
  OBVIOUS
<1> USE SizeAssumption
<1>1. CASE Retag
  BY <1>1 DEF TypeOK, At, Retag
<1>2. CASE UNCHANGED vars
  BY <1>2 DEF TypeOK, At, vars
<1>3. ASSUME NEW p \in Pullers, Call(p) PROVE TypeOK'
  BY <1>3 DEF TypeOK, At, Call, locals, disk, Stage
<1>4. ASSUME NEW p \in Pullers, Resolve(p) PROVE TypeOK'
  BY <1>4 DEF TypeOK, At, Resolve, Goto, disk, Stage
<1>5. ASSUME NEW p \in Pullers, FetchManifest(p) \/ Mkdir(p) \/ FetchLayer(p)
      PROVE  TypeOK'
  BY <1>5
  DEF TypeOK, At, FetchManifest, Mkdir, FetchLayer, Goto, locals, disk, Stage
<1>6. ASSUME NEW p \in Pullers, RemoveTmp(p) PROVE TypeOK'
  BY <1>6 DEF TypeOK, At, RemoveTmp, Remove, Goto, locals, Stage
<1>7. ASSUME NEW p \in Pullers, OpenTmp(p) PROVE TypeOK'
  <2>1. PICK i \in Inodes :
          /\ dir' = [dir EXCEPT !["tmp"] = i]
          /\ content' = [content EXCEPT ![i] = Blank]
          /\ fd' = [fd EXCEPT ![p] = i]
    BY <1>7 DEF OpenTmp
  <2>2. content' \in [Inodes -> [Chunks -> Versions \cup {NoData}]]
    BY <2>1, BlankType DEF TypeOK
  <2>3. QED
    BY <1>7, <2>1, <2>2 DEF TypeOK, At, OpenTmp, Goto, Stage
<1>8. ASSUME NEW p \in Pullers, CopyChunk(p) PROVE TypeOK'
  <2>1. off' \in [Pullers -> 0..MaxSize]
    BY <1>8 DEF TypeOK, At, CopyChunk
  <2>2. content' \in [Inodes -> [Chunks -> Versions \cup {NoData}]]
    BY <1>8 DEF TypeOK, At, CopyChunk
  <2>3. QED
    BY <1>8, <2>1, <2>2 DEF TypeOK, At, CopyChunk
<1>9. ASSUME NEW p \in Pullers, CloseTmp(p) \/ FailLate(p) PROVE TypeOK'
  BY <1>9 DEF TypeOK, At, CloseTmp, FailLate, Goto, disk, Stage
<1>10. ASSUME NEW p \in Pullers, Rename(p) PROVE TypeOK'
  <2>1. CASE dir["tmp"] # NoFile
    <3>1. dir' \in [{"tmp", "dst"} -> Inodes \cup {NoFile}]
      BY <1>10, <2>1 DEF TypeOK, At, Rename
    <3>2. QED
      BY <1>10, <2>1, <3>1, ReturnType DEF Rename
  <2>2. CASE dir["tmp"] = NoFile
    BY <1>10, <2>2 DEF TypeOK, At, Rename, Goto, locals, Stage
  <2>3. QED
    BY <2>1, <2>2
<1>11. ASSUME NEW p \in Pullers, CleanUp(p) PROVE TypeOK'
  <2>1. dir' \in [{"tmp", "dst"} -> Inodes \cup {NoFile}]
    BY <1>11 DEF TypeOK, At, CleanUp, Remove
  <2>2. QED
    BY <1>11, <2>1, ReturnType DEF CleanUp, Remove
<1>12. ASSUME NEW p \in Pullers, FailEarly(p) \/ Crash(p) PROVE TypeOK'
  BY <1>12, ReturnType DEF FailEarly, Crash, disk, TypeOK
<1>13. QED
  BY <1>1, <1>2, <1>3, <1>4, <1>5, <1>6, <1>7, <1>8, <1>9, <1>10, <1>11, <1>12
  DEF Next, Step

\* Every variable keeps its type: no call writes past the artifact it fetches.
THEOREM TypeCorrect == Spec => []TypeOK
<1>1. Init => TypeOK
  BY SizeAssumption DEF Init, TypeOK, Stage
<1>2. QED
  BY <1>1, TypeStep, PTL DEF Spec

-----------------------------------------------------------------------------
(* Facts about any number of overlapping calls.                            *)

\* Once a boot artifact is installed no pull ever takes it away, however many
\* of them run at once and wherever they fail or are killed.
THEOREM Installed == Spec => InstalledStays
<1>1. TypeOK /\ [Next]_vars => [dir["dst"] # NoFile => dir'["dst"] # NoFile]_vars
  <2> SUFFICES ASSUME TypeOK, Next, dir["dst"] # NoFile
               PROVE  dir'["dst"] # NoFile
    OBVIOUS
  <2>1. CASE UNCHANGED dir
    BY <2>1
  <2>2. ASSUME NEW p \in Pullers, RemoveTmp(p) \/ CleanUp(p)
        PROVE  dir'["dst"] # NoFile
    BY <2>2 DEF RemoveTmp, CleanUp, Remove, TypeOK
  <2>3. ASSUME NEW p \in Pullers, OpenTmp(p) PROVE dir'["dst"] # NoFile
    BY <2>3 DEF OpenTmp, TypeOK
  <2>4. ASSUME NEW p \in Pullers, Rename(p) PROVE dir'["dst"] # NoFile
    BY <2>4 DEF Rename, TypeOK
  <2>5. QED
    BY <2>1, <2>2, <2>3, <2>4
    DEF Next, Step, Retag, Call, Resolve, FetchManifest, Mkdir, FetchLayer,
        CopyChunk, CloseTmp, FailEarly, FailLate, Crash, disk
<1>2. QED
  BY <1>1, TypeCorrect, PTL DEF Spec, InstalledStays

\* Callers that are not killed leave no dst.tmp behind, even when they remove
\* and rename it from under each other.
THEOREM NoLeftover == Spec => []TmpOwned
<1>1. Init => TmpOwned
  BY DEF Init, TmpOwned
<1>2. TypeOK /\ TmpOwned /\ [Next]_vars => TmpOwned'
  <2> SUFFICES ASSUME TypeOK, TmpOwned, [Next]_vars, ~MayCrash,
                      dir'["tmp"] # NoFile
               PROVE  \E q \in Pullers :
                        pc'[q] \in {"fetch", "copy", "rename", "cleanup"}
    BY DEF TmpOwned
  <2> DEFINE Owner(q) == pc[q] \in {"fetch", "copy", "rename", "cleanup"}
  <2>1. CASE Retag \/ UNCHANGED vars
    BY <2>1 DEF Retag, vars, TmpOwned
  <2>2. ASSUME NEW p \in Pullers, OpenTmp(p)
        PROVE  \E q \in Pullers : Owner(q)'
    BY <2>2 DEF OpenTmp, Goto, TypeOK
  <2>3. ASSUME NEW p \in Pullers, RemoveTmp(p) \/ CleanUp(p) PROVE FALSE
    BY <2>3 DEF RemoveTmp, CleanUp, Remove, TypeOK
  <2>4. ASSUME NEW p \in Pullers, Rename(p)
        PROVE  \E q \in Pullers : Owner(q)'
    BY <2>4 DEF Rename, Goto, TypeOK
  <2>5. ASSUME NEW p \in Pullers,
               \/ Call(p) \/ Resolve(p) \/ FetchManifest(p) \/ Mkdir(p)
               \/ FailEarly(p)
        PROVE  \E q \in Pullers : Owner(q)'
    <3>1. dir' = dir /\ ~Owner(p) /\ \A q \in Pullers \ {p} : pc'[q] = pc[q]
      BY <2>5 DEF TypeOK, At, Call, Resolve, FetchManifest, Mkdir, FailEarly,
                  Return, Goto, disk
    <3>2. QED
      BY <3>1 DEF TmpOwned
  <2>6. ASSUME NEW p \in Pullers,
               FetchLayer(p) \/ CopyChunk(p) \/ CloseTmp(p) \/ FailLate(p)
        PROVE  \E q \in Pullers : Owner(q)'
    BY <2>6 DEF TypeOK, At, FetchLayer, CopyChunk, CloseTmp, FailLate, Goto
  <2>7. QED
    BY <2>1, <2>2, <2>3, <2>4, <2>5, <2>6 DEF Next, Step, Crash
<1>3. QED
  BY <1>1, <1>2, TypeCorrect, PTL DEF Spec

-----------------------------------------------------------------------------
(* Calls that do not overlap: the file is replaced as a whole.             *)

LEMMA Extend ==
  ASSUME NEW v \in Versions, NEW n \in 0..MaxSize, n < MaxSize
  PROVE  [Prefix(v, n) EXCEPT ![n + 1] = v] = Prefix(v, n + 1)
<1> DEFINE before == Prefix(v, n)
           after == [before EXCEPT ![n + 1] = v]
<1>1. before = [k \in Chunks |-> IF k <= n THEN v ELSE NoData]
  BY DEF Prefix
<1>2. after = [k \in Chunks |-> IF k = n + 1 THEN v ELSE before[k]]
  BY <1>1
<1>3. \A k \in Chunks : after[k] = IF k <= n + 1 THEN v ELSE NoData
  <2> HIDE DEF before, after
  <2>1. \A k \in Chunks : k \in Nat /\ (k <= n + 1 <=> k <= n \/ k = n + 1)
    BY SizeAssumption DEF Chunks
  <2>2. QED
    BY <1>1, <1>2, <2>1
<1>4. QED
  <2> HIDE DEF before
  <2>1. after = [k \in Chunks |-> IF k <= n + 1 THEN v ELSE NoData]
    BY <1>2, <1>3
  <2>2. QED
    BY <2>1 DEF Prefix, before

LEMMA Empty == ASSUME NEW v PROVE Prefix(v, 0) = Blank
BY SizeAssumption DEF Prefix, Blank, Chunks

LEMMA InvInit == Init => IInv
<1> SUFFICES ASSUME Init PROVE IInv
  OBVIOUS
<1>1. TypeOK
  BY SizeAssumption DEF Init, TypeOK, Stage
<1>2. DstWhole
  BY <1>1 DEF Init, DstWhole, TypeOK
<1>3. QED
  BY <1>1, <1>2 DEF Init, IInv, Alone, Apart, Draft

\* A step that touches no file, or only dst.tmp, leaves dst whole.
LEMMA InvStep == Exclusive /\ IInv /\ [Next]_vars => IInv'
<1> SUFFICES ASSUME Exclusive, IInv, [Next]_vars PROVE IInv'
  OBVIOUS
<1> USE SizeAssumption, SentinelAssumption
<1>t. TypeOK /\ TypeOK'
  BY TypeStep DEF IInv
<1>1. CASE Retag \/ UNCHANGED vars
  BY <1>1, <1>t DEF Retag, vars, IInv, Alone, Apart, DstWhole, Draft
<1>2. ASSUME NEW p \in Pullers, Call(p) PROVE IInv'
  <2>1. Alone'
    BY <1>2, <1>t DEF Call, At, Alone, TypeOK
  <2>2. Apart' /\ DstWhole' /\ \A q \in Pullers : Draft(q)'
    BY <1>2, <1>t DEF Call, At, IInv, Apart, DstWhole, Draft, locals, disk, TypeOK
  <2>3. QED
    BY <1>t, <2>1, <2>2 DEF IInv
<1>3. ASSUME NEW p \in Pullers, Step(p) \/ Crash(p) PROVE IInv'
  <2>1. pc[p] # "idle" /\ \A q \in Pullers \ {p} : pc[q] = "idle"
    BY <1>3, <1>t
    DEF IInv, Alone, Step, Crash, At, Resolve, FetchManifest, Mkdir, RemoveTmp,
        OpenTmp, FetchLayer, CopyChunk, CloseTmp, Rename, FailEarly, FailLate,
        CleanUp
  <2>2. \A q \in Pullers \ {p} :
          /\ pc'[q] = pc[q] /\ want'[q] = want[q] /\ fd'[q] = fd[q]
          /\ off'[q] = off[q]
    BY <1>3, <1>t
    DEF TypeOK, Step, Crash, Resolve, FetchManifest, Mkdir, RemoveTmp,
        OpenTmp, FetchLayer, CopyChunk, CloseTmp, Rename, FailEarly, FailLate,
        CleanUp, Goto, Return, locals
  <2>3. Alone' /\ \A q \in Pullers \ {p} : Draft(q)'
    BY <2>1, <2>2, <1>t DEF IInv, Alone, Draft, TypeOK
  <2>s. SUFFICES Apart' /\ DstWhole' /\ Draft(p)'
    BY <2>3, <1>t DEF IInv
  <2>4. CASE \/ Resolve(p) \/ FetchManifest(p) \/ Mkdir(p) \/ FailEarly(p)
             \/ FailLate(p) \/ Crash(p)
    BY <2>4, <1>t
    DEF IInv, Apart, DstWhole, Draft, TypeOK, At, Resolve, FetchManifest, Mkdir,
        FailEarly, FailLate, Crash, Goto, Return, locals, disk
  <2>5. CASE RemoveTmp(p) \/ CleanUp(p)
    BY <2>5, <1>t
    DEF IInv, Apart, DstWhole, Draft, TypeOK, At, RemoveTmp, CleanUp, Remove,
        Goto, Return, locals
  <2>6. CASE OpenTmp(p)
    <3>1. PICK i \in Inodes :
            /\ i # dir["dst"]
            /\ dir' = [dir EXCEPT !["tmp"] = i]
            /\ content' = [content EXCEPT ![i] = Blank]
            /\ fd' = [fd EXCEPT ![p] = i]
      BY <2>6, <1>t DEF OpenTmp, IInv, Apart
    <3>2. Apart' /\ DstWhole'
      BY <3>1, <1>t DEF Apart, DstWhole, IInv, TypeOK
    <3>3. off[p] = 0 /\ off' = off /\ want' = want /\ pc'[p] = "fetch"
      BY <2>6, <1>t DEF OpenTmp, IInv, Draft, At, Goto, TypeOK
    <3>4. dir'["tmp"] = i /\ fd'[p] = i /\ content'[i] = Blank
      BY <3>1, <1>t DEF TypeOK
    <3>5. Blank = Prefix(want'[p], off'[p]) /\ off'[p] <= Size[want'[p]]
      BY <3>3, <1>t, Empty DEF TypeOK
    <3>6. QED
      BY <3>2, <3>3, <3>4, <3>5 DEF Draft
  <2>7. CASE FetchLayer(p)
    BY <2>7, <1>t
    DEF IInv, Apart, DstWhole, Draft, TypeOK, At, FetchLayer, Goto, locals, disk
  <2>8. CASE CopyChunk(p)
    <3>1. /\ pc[p] = "copy" /\ pc' = pc /\ want' = want /\ fd' = fd
          /\ dir' = dir /\ off'[p] = off[p] + 1
          /\ off[p] \in 0..MaxSize /\ want[p] \in Versions
          /\ off[p] < Size[want[p]] /\ Size[want[p]] \in 1..MaxSize
      BY <2>8, <1>t DEF CopyChunk, At, TypeOK
    <3>2. /\ fd[p] \in Inodes /\ dir["tmp"] = fd[p]
          /\ content[fd[p]] = Prefix(want[p], off[p])
      BY <3>1 DEF IInv, Draft
    <3>3. content' = [content EXCEPT ![fd[p]] =
                        [content[fd[p]] EXCEPT ![off[p] + 1] = want[p]]]
      BY <2>8, <3>2, <1>t DEF CopyChunk, TypeOK
    <3>4. content'[fd[p]] = Prefix(want[p], off[p] + 1)
      <4>1. [Prefix(want[p], off[p]) EXCEPT ![off[p] + 1] = want[p]]
              = Prefix(want[p], off[p] + 1)
        BY <3>1, Extend
      <4>2. QED
        BY <3>2, <3>3, <4>1, <1>t DEF TypeOK
    <3>5. Apart' /\ dir["dst"] # fd[p]
      BY <3>1, <3>2 DEF IInv, Apart
    <3>6. DstWhole'
      BY <3>1, <3>3, <3>5, <1>t DEF IInv, DstWhole, TypeOK
    <3>7. QED
      BY <3>1, <3>2, <3>4, <3>5, <3>6 DEF Draft
  <2>9. CASE CloseTmp(p)
    BY <2>9, <1>t
    DEF IInv, Apart, DstWhole, Draft, Whole, TypeOK, At, CloseTmp, Goto, disk
  <2>10. CASE Rename(p)
    <3>1. dir["tmp"] \in Inodes /\ content[dir["tmp"]] = Whole(want[p])
      BY <2>10 DEF Rename, At, IInv, Draft
    <3>2. /\ dir' = [dir EXCEPT !["dst"] = dir["tmp"], !["tmp"] = NoFile]
          /\ content' = content /\ Return(p, "ok")
      BY <2>10, <3>1 DEF Rename
    <3>3. dir'["dst"] = dir["tmp"] /\ dir'["tmp"] = NoFile
      BY <3>2, <1>t DEF TypeOK
    <3>4. want[p] \in Versions
      BY <2>10, <1>t DEF Rename, At, TypeOK
    <3>5. Apart' /\ DstWhole'
      BY <3>1, <3>2, <3>3, <3>4 DEF Apart, DstWhole
    <3>6. Draft(p)'
      BY <3>2, <1>t DEF Return, Draft, TypeOK
    <3>7. QED
      BY <3>5, <3>6
  <2>11. QED
    BY <1>3, <2>4, <2>5, <2>6, <2>7, <2>8, <2>9, <2>10 DEF Step
<1>4. QED
  BY <1>1, <1>2, <1>3 DEF Next

\* Between calls, during them and after any failure or kill, the installed
\* artifact is one whole version, provided calls do not overlap.
THEOREM Replaced == ASSUME Exclusive PROVE Spec => []DstWhole
<1>1. IInv /\ [Next]_vars => IInv'
  BY InvStep
<1>2. IInv => DstWhole
  BY DEF IInv
<1>3. QED
  BY <1>1, <1>2, InvInit, PTL DEF Spec
-----------------------------------------------------------------------------
(* Calls that do not overlap: the refinement of AtomicFile.                *)

LEMMA VersionOfWhole == ASSUME NEW v \in Versions PROVE VersionOf(Whole(v)) = v
<1>1. \A u \in Versions : Whole(u)[1] = u
  BY SizeAssumption DEF Whole, Prefix, Chunks
<1>2. {u \in Versions : Whole(v) = Whole(u)} = {v}
  BY <1>1
<1>3. QED
  BY <1>2 DEF VersionOf

LEMMA HeldWhole ==
  ASSUME NEW v \in Versions, dir["dst"] # NoFile, content[dir["dst"]] = Whole(v)
  PROVE  Held = v
BY VersionOfWhole DEF Held

LEMMA HeldSame ==
  ASSUME dir'["dst"] = dir["dst"],
         dir["dst"] # NoFile => content'[dir["dst"]] = content[dir["dst"]]
  PROVE  Held' = Held
BY DEF Held

LEMMA RefineInit == Init => Atomic!Init
<1> SUFFICES ASSUME Init PROVE Atomic!Init
  OBVIOUS
<1>1. Held \in Versions \cup {NoData}
  <2>1. CASE dir["dst"] = NoFile
    BY <2>1 DEF Held
  <2>2. CASE dir["dst"] # NoFile
    <3>1. PICK v \in Versions : content[dir["dst"]] = Whole(v)
      BY <2>2 DEF Init
    <3>2. QED
      BY <2>2, <3>1, HeldWhole
  <2>3. QED
    BY <2>1, <2>2
<1>2. [p \in Pullers |-> pc[p] # "idle"] = [p \in Pullers |-> FALSE]
  BY DEF Init
<1>3. QED
  BY <1>1, <1>2 DEF Init, Atomic!Init

LEMMA RefineStep ==
  Exclusive /\ IInv /\ [Next]_vars => [Atomic!Next]_(Atomic!vars)
<1> SUFFICES ASSUME Exclusive, IInv, [Next]_vars
             PROVE  [Atomic!Next]_(Atomic!vars)
  OBVIOUS
<1> USE SizeAssumption, SentinelAssumption
<1> DEFINE busy == [p \in Pullers |-> pc[p] # "idle"]
<1>t. TypeOK /\ TypeOK' /\ IInv'
  BY TypeStep, InvStep DEF IInv
<1>1. CASE UNCHANGED vars
  <2>1. Held' = Held
    BY <1>1, HeldSame DEF vars
  <2>2. QED
    BY <1>1, <2>1 DEF vars, Atomic!vars
<1>2. CASE Retag
  <2>1. Held' = Held
    BY <1>2, HeldSame DEF Retag
  <2>2. Atomic!Upload
    BY <1>2, <2>1, <1>t DEF Retag, Atomic!Upload, TypeOK
  <2>3. QED
    BY <2>2 DEF Atomic!Next
<1>3. ASSUME NEW p \in Pullers, Call(p) PROVE Atomic!Next
  <2>1. Held' = Held
    BY <1>3, HeldSame DEF Call, disk
  <2>2. busy' = [busy EXCEPT ![p] = TRUE] /\ ~busy[p]
    BY <1>3, <1>t DEF Call, At, TypeOK
  <2>3. Atomic!Begin(p)
    BY <1>3, <2>1, <2>2 DEF Call, locals, Atomic!Begin
  <2>4. QED
    BY <2>3 DEF Atomic!Next
<1>4. ASSUME NEW p \in Pullers, Resolve(p) PROVE Atomic!Next
  <2>1. Held' = Held
    BY <1>4, HeldSame DEF Resolve, disk
  <2>2. busy' = busy /\ busy[p] /\ want[p] = NoData
    BY <1>4, <1>t DEF Resolve, Goto, At, TypeOK, IInv, Draft
  <2>3. Atomic!Pin(p)
    BY <1>4, <2>1, <2>2 DEF Resolve, Goto, Atomic!Pin
  <2>4. QED
    BY <2>3 DEF Atomic!Next
\* A call that ends leaves the abstract call.
<1>5. ASSUME NEW p \in Pullers, NEW how, pc[p] # "idle", Return(p, how),
             UNCHANGED tag
      PROVE  Atomic!End(p, how)
  <2>1. busy' = [busy EXCEPT ![p] = FALSE] /\ busy[p]
    BY <1>5, <1>t DEF Return, TypeOK
  <2>2. QED
    BY <1>5, <2>1 DEF Return, Atomic!End
<1>6. ASSUME NEW p \in Pullers, FailEarly(p) \/ Crash(p) \/ CleanUp(p)
      PROVE  Atomic!Next
  <2>1. Held' = Held
    BY <1>6, HeldSame, <1>t DEF FailEarly, Crash, CleanUp, Remove, disk, TypeOK
  <2>2. \E how \in {"err", "crash"} : pc[p] # "idle" /\ Return(p, how) /\ UNCHANGED tag
    BY <1>6 DEF FailEarly, Crash, CleanUp, At
  <2>3. Atomic!Abort(p)
    BY <1>5, <2>1, <2>2 DEF Atomic!Abort
  <2>4. QED
    BY <2>3 DEF Atomic!Next
<1>7. ASSUME NEW p \in Pullers, Rename(p), dir["tmp"] # NoFile
      PROVE  Atomic!Next
  <2>1. /\ want[p] \in Versions /\ dir["tmp"] \in Inodes
        /\ content[dir["tmp"]] = Whole(want[p])
    BY <1>7, <1>t DEF Rename, At, IInv, Draft, TypeOK
  <2>2. /\ dir'["dst"] = dir["tmp"] /\ content' = content
        /\ Return(p, "ok") /\ UNCHANGED tag /\ pc[p] # "idle"
    BY <1>7, <1>t DEF Rename, At, TypeOK
  <2>3. Held' = want[p]
    <3>1. dir'["dst"] # NoFile /\ content'[dir'["dst"]] = Whole(want[p])
      BY <2>1, <2>2
    <3>2. QED
      BY <2>1, <3>1, VersionOfWhole DEF Held
  <2>4. Atomic!Publish(p)
    BY <1>5, <2>1, <2>2, <2>3 DEF Atomic!Publish
  <2>5. QED
    BY <2>4 DEF Atomic!Next
\* The other steps of a call are not seen from outside.
<1>8. ASSUME NEW p \in Pullers,
             \/ FetchManifest(p) \/ Mkdir(p) \/ RemoveTmp(p) \/ OpenTmp(p)
             \/ FetchLayer(p) \/ CopyChunk(p) \/ CloseTmp(p) \/ FailLate(p)
             \/ Rename(p) /\ dir["tmp"] = NoFile
      PROVE  UNCHANGED Atomic!vars
  <2>1. dir'["dst"] = dir["dst"]
    BY <1>8, <1>t
    DEF FetchManifest, Mkdir, RemoveTmp, OpenTmp, FetchLayer, CopyChunk,
        CloseTmp, FailLate, Rename, Remove, disk, TypeOK
  <2>2. dir["dst"] # NoFile => content'[dir["dst"]] = content[dir["dst"]]
    <3>1. CASE OpenTmp(p)
      BY <3>1, <1>t DEF OpenTmp, IInv, Apart, TypeOK
    <3>2. CASE CopyChunk(p)
      <4>1. fd[p] # dir["dst"]
        BY <3>2 DEF CopyChunk, At, IInv, Draft, Apart
      <4>2. QED
        BY <3>2, <4>1, <1>t DEF CopyChunk, TypeOK
    <3>3. QED
      BY <1>8, <3>1, <3>2
      DEF FetchManifest, Mkdir, RemoveTmp, FetchLayer, CloseTmp, FailLate,
          Rename, Remove, disk
  <2>3. Held' = Held
    BY <2>1, <2>2, HeldSame
  <2>4. busy' = busy
    BY <1>8, <1>t
    DEF FetchManifest, Mkdir, RemoveTmp, OpenTmp, FetchLayer, CopyChunk,
        CloseTmp, FailLate, Rename, Goto, At, TypeOK
  <2>5. UNCHANGED <<tag, want, outcome>>
    BY <1>8
    DEF FetchManifest, Mkdir, RemoveTmp, OpenTmp, FetchLayer, CopyChunk,
        CloseTmp, FailLate, Rename, Goto, locals
  <2>6. QED
    BY <2>3, <2>4, <2>5 DEF Atomic!vars
<1>9. QED
  BY <1>1, <1>2, <1>3, <1>4, <1>6, <1>7, <1>8 DEF Next, Step

\* The procedure with all its failures and crashes implements the atomic
\* replacement of a file, provided calls do not overlap.
THEOREM Refinement == ASSUME Exclusive PROVE Spec => AtomicSpec
<1>1. IInv /\ [Next]_vars => IInv'
  BY InvStep
<1>2. IInv /\ [Next]_vars => [Atomic!Next]_(Atomic!vars)
  BY RefineStep
<1>3. QED
  BY <1>1, <1>2, InvInit, RefineInit, PTL DEF Spec, AtomicSpec, Atomic!Spec
=============================================================================
