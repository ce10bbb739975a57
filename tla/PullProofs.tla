----------------------------- MODULE PullProofs -----------------------------
(***************************************************************************)
(* What holds of Pull for every image, tree and number of callers: type    *)
(* correctness always; and when calls do not overlap, that a cached spec   *)
(* stands beside its image's files, that a cached entry is frozen, that    *)
(* the tree holds nothing but what the images extracted into it make, and  *)
(* that Pull implements CacheEntry; when they do overlap, that calls of    *)
(* one image which are not disturbed from outside leave that image.        *)
(***************************************************************************)
EXTENDS Pull, TLAPS

-----------------------------------------------------------------------------
(* The operators of Rootfs.                                                *)

\* Applying the next entry extends what the entries so far have established.
LEMMA AppliedNext ==
  ASSUME NEW stream, NEW n \in Nat, NEW fs, Applied(stream, n, fs)
  PROVE  Applied(stream, n + 1, Apply(stream[n + 1], fs))
<1> SUFFICES ASSUME NEW f \in Paths, NEW k \in 1..(n + 1),
                    LastTouch(stream, n + 1, k, f)
             PROVE  Apply(stream[n + 1], fs)[f] = Value(stream[k], f)
  BY DEF Applied
<1>1. CASE k = n + 1
  BY <1>1 DEF Apply, LastTouch
<1>2. CASE k # n + 1
  <2>1. k \in 1..n /\ LastTouch(stream, n, k, f)
    BY <1>2 DEF LastTouch
  <2>2. f \notin Touched(stream[n + 1])
    BY <1>2 DEF LastTouch
  <2>3. QED
    BY <2>1, <2>2 DEF Applied, Apply
<1>3. QED
  BY <1>1, <1>2

\* A path that holds something after an entry held it before or was made by it.
LEMMA ApplyKnown ==
  ASSUME NEW e, NEW fs, NEW f \in Paths, Apply(e, fs)[f] # Absent
  PROVE  fs[f] # Absent \/ f \in Made(e)
BY DEF Apply, Touched, Value

LEMMA ApplyType ==
  ASSUME NEW e \in Entry, NEW fs \in [Paths -> Values]
  PROVE  Apply(e, fs) \in [Paths -> Values]
BY DEF Apply, Value, Values, Entry

LEMMA StreamType ==
  ASSUME NEW i \in Images
  PROVE  Stream[i] \in Seq(Entry) /\ Len(Stream[i]) \in Nat
BY ImageAssumption

LEMMA EntryType ==
  ASSUME NEW i \in Images, NEW k \in 1..Len(Stream[i])
  PROVE  Stream[i][k] \in Entry
BY ImageAssumption

\* A regular file lies below the root, and its copy completes its effect.
LEMMA FilePath ==
  ASSUME NEW i \in Images, NEW k \in 1..Len(Stream[i]), Stream[i][k].op = "file"
  PROVE  /\ Stream[i][k].path \in Made(Stream[i][k])
         /\ Stream[i][k].path \in Paths
         /\ Value(Stream[i][k], Stream[i][k].path) = Stream[i][k].data
<1>1. Stream[i][k].path \in Paths
  BY EntryType, ImageAssumption DEF Entry
<1>2. QED
  BY <1>1 DEF Made, Value, Wiped

-----------------------------------------------------------------------------
(* Type correctness.                                                       *)

LEMMA Extracting ==
  ASSUME TypeOK, NEW p \in Pullers, pc[p] \in {"extract", "copy"}
  PROVE  /\ want[p] \in Images
         /\ Len(Stream[want[p]]) \in Nat
         /\ pos[p] \in Nat /\ pos[p] >= 1
         /\ pos[p] <= Len(Stream[want[p]]) => pos[p] \in 1..Len(Stream[want[p]])
<1>1. want[p] \in Images
  BY DEF TypeOK
<1>2. Len(Stream[want[p]]) \in Nat
  BY <1>1, StreamType
<1>3. pos[p] \in Nat /\ pos[p] >= 1
  BY <1>2 DEF TypeOK
<1>4. QED
  BY <1>1, <1>2, <1>3

LEMMA ReturnType ==
  ASSUME TypeOK, NEW p \in Pullers, NEW how \in {"ok", "err", "crash"},
         Return(p, how), UNCHANGED <<tag, rootfs, files, manifest, config, tried>>,
         sentinel' \in ProcSpec \cup {None, Torn}
  PROVE  TypeOK'
BY DEF TypeOK, Return, Stage

LEMMA TypeStep == TypeOK /\ [Next]_vars => TypeOK'
<1> SUFFICES ASSUME TypeOK, [Next]_vars PROVE TypeOK'
  OBVIOUS
<1>1. CASE Retag \/ Forget \/ UNCHANGED vars
  <2>1. NoFiles \in [Paths -> Values]
    BY DEF NoFiles, Values
  <2>2. QED
    BY <1>1, <2>1 DEF TypeOK, Retag, Forget, vars, locals, entry
<1>2. ASSUME NEW p \in Pullers, NEW r \in Refs, Call(p, r) PROVE TypeOK'
  BY <1>2 DEF TypeOK, At, Call, entry, Stage
<1>3. ASSUME NEW p \in Pullers, StatSentinel(p) PROVE TypeOK'
  <2>1. CASE sentinel # None
    BY <1>3, <2>1, ReturnType DEF StatSentinel, entry, TypeOK
  <2>2. CASE sentinel = None
    BY <1>3, <2>2 DEF TypeOK, At, StatSentinel, Goto, locals, entry, Stage
  <2>3. QED
    BY <2>1, <2>2
<1>4. ASSUME NEW p \in Pullers, MkdirRootfs(p) \/ Resolve(p) PROVE TypeOK'
  <2>1. CASE MkdirRootfs(p)
    BY <2>1 DEF TypeOK, At, MkdirRootfs, Goto, locals, Stage
  <2>2. CASE Resolve(p)
    <3>1. want' \in [Pullers -> Images \cup {None}] /\ want'[p] \in Images
      BY <2>2 DEF TypeOK, At, Resolve
    <3>2. QED
      BY <2>2, <3>1 DEF TypeOK, At, Resolve, Goto, entry, Stage
  <2>3. QED
    BY <1>4, <2>1, <2>2
<1>5. ASSUME NEW p \in Pullers, SaveManifest(p) PROVE TypeOK'
  <2>1. want[p] \in Images
    BY <1>5 DEF TypeOK, SaveManifest, At
  <2>2. 1 \in 1..(Len(Stream[want[p]]) + 1)
    BY <2>1, StreamType
  <2>3. QED
    BY <1>5, <2>1, <2>2 DEF TypeOK, At, SaveManifest, Goto, Stage
<1>6. ASSUME NEW p \in Pullers, ApplyEntry(p) PROVE TypeOK'
  <2>1. /\ want[p] \in Images /\ Len(Stream[want[p]]) \in Nat
        /\ pos[p] \in 1..Len(Stream[want[p]])
    BY <1>6, Extracting DEF TypeOK, ApplyEntry, At
  <2>2. files' \in [Paths -> Values]
    BY <1>6, <2>1, EntryType, ApplyType DEF ApplyEntry, Current, TypeOK
  <2>3. sentinel' \in ProcSpec \cup {None, Torn}
    BY <1>6 DEF ApplyEntry, TypeOK
  <2>4. QED
    BY <1>6, <2>1, <2>2, <2>3 DEF TypeOK, At, ApplyEntry
<1>7. ASSUME NEW p \in Pullers, OpenEntry(p) PROVE TypeOK'
  <2>1. /\ want[p] \in Images /\ Len(Stream[want[p]]) \in Nat
        /\ pos[p] \in 1..Len(Stream[want[p]])
    BY <1>7, Extracting DEF TypeOK, OpenEntry, At
  <2>2. files' \in [Paths -> Values]
    <3>1. Apply(Current(p), files) \in [Paths -> Values]
      BY <2>1, EntryType, ApplyType DEF Current, TypeOK
    <3>2. QED
      BY <1>7, <3>1 DEF OpenEntry, Truncate, Values
  <2>3. QED
    BY <1>7, <2>1, <2>2 DEF TypeOK, At, OpenEntry, Goto, locals, Current, Stage
<1>8. ASSUME NEW p \in Pullers, CopyEntry(p) PROVE TypeOK'
  <2>1. /\ want[p] \in Images /\ Len(Stream[want[p]]) \in Nat
        /\ pos[p] \in 1..Len(Stream[want[p]])
    BY <1>8, Extracting DEF TypeOK, CopyEntry, At
  <2>2. Current(p).data \in Data
    BY <2>1, EntryType DEF Current, Entry
  <2>3. files' \in [Paths -> Values]
    BY <1>8, <2>2 DEF CopyEntry, TypeOK, Values
  <2>4. QED
    BY <1>8, <2>1, <2>3 DEF TypeOK, At, CopyEntry, Goto, Stage
<1>9. ASSUME NEW p \in Pullers, EndLayers(p) \/ SaveConfig(p) PROVE TypeOK'
  BY <1>9 DEF TypeOK, At, EndLayers, SaveConfig, Goto, locals, entry, Stage
<1>10. ASSUME NEW p \in Pullers, ResolveUser(p) PROVE TypeOK'
  <2>1. [image |-> want[p],
         user |-> IF want[p] \in Named THEN files[Passwd] ELSE None] \in ProcSpec
    BY <1>10, ImageAssumption DEF TypeOK, At, ResolveUser, ProcSpec
  <2>2. QED
    BY <1>10, <2>1 DEF TypeOK, At, ResolveUser, Goto, entry, Stage
<1>11. ASSUME NEW p \in Pullers, TruncateSentinel(p) PROVE TypeOK'
  BY <1>11 DEF TypeOK, At, TruncateSentinel, Goto, locals, Stage
<1>12. ASSUME NEW p \in Pullers, WriteSentinel(p) PROVE TypeOK'
  <2>1. proc[p] \in ProcSpec
    BY <1>12 DEF TypeOK, At, WriteSentinel
  <2>2. QED
    BY <1>12, <2>1, ReturnType DEF WriteSentinel, TypeOK
<1>13. ASSUME NEW p \in Pullers,
              Fail(p) \/ FailBlocked(p) \/ FailUser(p) \/ Crash(p)
       PROVE  TypeOK'
  BY <1>13, ReturnType DEF Fail, FailBlocked, FailUser, Crash, entry, TypeOK
<1>14. QED
  BY <1>1, <1>2, <1>3, <1>4, <1>5, <1>6, <1>7, <1>8, <1>9, <1>10, <1>11, <1>12,
     <1>13 DEF Next, Step

\* Every variable keeps its type: a call never reads past the stream of the
\* image it resolved and never writes a spec it has not derived.
THEOREM TypeCorrect == Spec => []TypeOK
<1>1. Init => TypeOK
  <2> SUFFICES ASSUME Init PROVE TypeOK
    OBVIOUS
  <2>1. files \in [Paths -> Values]
    BY DEF Init, NoFiles, Values
  <2>2. \A p \in Pullers : pc[p] = "idle"
    BY DEF Init
  <2>3. QED
    BY <2>1, <2>2 DEF Init, TypeOK, Stage
<1>2. QED
  BY <1>1, TypeStep, PTL DEF Spec
-----------------------------------------------------------------------------
(* The inductive invariant of calls that do not overlap, whatever tags move *)
(* and whichever references share the entry.                               *)

Alone == \A p, q \in Pullers : pc[p] # "idle" /\ pc[q] # "idle" => p = q

\* The entries before the one being copied have had their effect, and so has
\* that one but for the bytes of its file.
Copying(p) ==
  /\ files[Current(p).path] = Torn
  /\ \A f \in Paths : \A k \in 1..pos[p] :
       LastTouch(Stream[want[p]], pos[p], k, f) /\ f # Current(p).path =>
         files[f] = Value(Stream[want[p]][k], f)

\* How far the call of p has come.
Progress(p) ==
  /\ pc[p] \notin {"idle", "stat", "write"} => sentinel = None
  /\ pc[p] = "write" => sentinel = Torn
  /\ pc[p] \notin {"idle", "stat", "mkdir"} => rootfs
  /\ pc[p] \notin {"idle", "stat", "mkdir", "resolve", "manifest"} =>
       manifest = want[p]
  /\ pc[p] = "extract" => Applied(Stream[want[p]], pos[p] - 1, files)
  /\ pc[p] = "copy" => Copying(p)
  /\ pc[p] \in {"config", "user", "truncate", "write"} =>
       Applied(Stream[want[p]], Len(Stream[want[p]]), files)
  /\ pc[p] \in {"user", "truncate", "write"} => config = want[p]
  /\ pc[p] \in {"truncate", "write"} =>
       /\ proc[p].image = want[p]
       /\ want[p] \in Named => proc[p].user = files[Passwd]

IInv ==
  /\ TypeOK
  /\ Alone
  /\ SpecMeansHeld
  /\ \A p \in Pullers : Progress(p)
-----------------------------------------------------------------------------
(* What extracting one entry establishes.                                  *)

\* The truncation of a file at entry n is all of that entry's effect but for
\* the file itself.
LEMMA TruncateNext ==
  ASSUME NEW i \in Images, NEW n \in 1..Len(Stream[i]), NEW fs,
         Stream[i][n].op = "file", Applied(Stream[i], n - 1, fs)
  PROVE  LET e == Stream[i][n] new == Truncate(e, fs)
         IN  /\ new[e.path] = Torn
             /\ \A f \in Paths : \A k \in 1..n :
                  LastTouch(Stream[i], n, k, f) /\ f # e.path =>
                    new[f] = Value(Stream[i][k], f)
<1> DEFINE e == Stream[i][n]
           new == Truncate(e, fs)
<1>0. n \in Nat /\ n - 1 \in Nat /\ (n - 1) + 1 = n
  BY StreamType
<1>1. Applied(Stream[i], n, Apply(e, fs))
  <2>1. Applied(Stream[i], (n - 1) + 1, Apply(Stream[i][(n - 1) + 1], fs))
    BY <1>0, AppliedNext
  <2>2. QED
    BY <1>0, <2>1
<1>2. e.path \in Paths
  BY FilePath
<1>3. new = [Apply(e, fs) EXCEPT ![e.path] = Torn]
  BY DEF Truncate
<1>4. Apply(e, fs) = [f \in Paths |-> Apply(e, fs)[f]]
  BY DEF Apply
<1>5. new[e.path] = Torn /\ \A f \in Paths : f # e.path => new[f] = Apply(e, fs)[f]
  BY <1>2, <1>3, <1>4
<1>6. QED
  BY <1>1, <1>5 DEF Applied

\* Writing the bytes of the file completes the entry.
LEMMA CopyNext ==
  ASSUME NEW i \in Images, NEW n \in 1..Len(Stream[i]), NEW fs, NEW new,
         Stream[i][n].op = "file",
         \A f \in Paths : \A k \in 1..n :
           LastTouch(Stream[i], n, k, f) /\ f # Stream[i][n].path =>
             fs[f] = Value(Stream[i][k], f),
         \A f \in Paths : new[f] = IF f = Stream[i][n].path
                                   THEN Stream[i][n].data ELSE fs[f]
  PROVE  Applied(Stream[i], n, new)
<1> SUFFICES ASSUME NEW f \in Paths, NEW k \in 1..n,
                    LastTouch(Stream[i], n, k, f)
             PROVE  new[f] = Value(Stream[i][k], f)
  BY DEF Applied
<1>1. CASE f # Stream[i][n].path
  BY <1>1
<1>2. CASE f = Stream[i][n].path
  <2>1. f \in Touched(Stream[i][n])
    BY <1>2, FilePath DEF Touched
  <2>2. k = n
    BY <2>1, StreamType DEF LastTouch
  <2>3. QED
    BY <1>2, <2>2, FilePath
<1>3. QED
  BY <1>1, <1>2
-----------------------------------------------------------------------------
(* The invariant is kept by every step.                                    *)

LEMMA InvInit == Init => IInv
<1> SUFFICES ASSUME Init PROVE IInv
  OBVIOUS
<1>1. TypeOK
  <2>1. files \in [Paths -> Values]
    BY DEF Init, NoFiles, Values
  <2>2. \A p \in Pullers : pc[p] = "idle"
    BY DEF Init
  <2>3. QED
    BY <2>1, <2>2 DEF Init, TypeOK, Stage
<1>2. SpecMeansHeld
  BY SpecAssumption DEF Init, SpecMeansHeld
<1>3. QED
  BY <1>1, <1>2 DEF Init, IInv, Alone, Progress

\* Steps outside a call: at rest, nothing in the entry changes unless the
\* operator removes it.
LEMMA RestStep ==
  ASSUME Exclusive, IInv,
         Retag \/ Forget \/ UNCHANGED vars
                \/ \E p \in Pullers, s \in Refs : Call(p, s)
  PROVE  IInv'
<1>t. TypeOK /\ TypeOK'
  BY TypeStep DEF IInv, Next
<1>1. CASE Retag \/ UNCHANGED vars
  BY <1>1, <1>t
  DEF Retag, vars, locals, entry, IInv, Alone, SpecMeansHeld, HoldsWhat,
      Progress, Copying, Current
<1>2. CASE Forget
  BY <1>2, <1>t, SpecAssumption
  DEF Forget, locals, IInv, Alone, SpecMeansHeld, Progress
<1>3. ASSUME NEW p \in Pullers, NEW s \in Refs, Call(p, s) PROVE IInv'
  <2>1. \A q \in Pullers : pc[q] = "idle"
    BY <1>3 DEF Call
  <2>2. pc'[p] = "stat" /\ \A q \in Pullers \ {p} : pc'[q] = "idle"
    BY <1>3, <2>1, <1>t DEF Call, TypeOK
  <2>3. Alone' /\ \A q \in Pullers : Progress(q)'
    BY <2>2 DEF Alone, Progress
  <2>4. SpecMeansHeld'
    BY <1>3 DEF Call, entry, IInv, SpecMeansHeld, HoldsWhat
  <2>5. QED
    BY <1>t, <2>3, <2>4 DEF IInv
<1>4. QED
  BY <1>1, <1>2, <1>3

\* A step of a call that leaves the tree and the spec beside it as they are.
LEMMA QuietStep ==
  ASSUME IInv, NEW p \in Pullers,
         \/ StatSentinel(p) \/ MkdirRootfs(p) \/ Resolve(p) \/ SaveManifest(p)
         \/ EndLayers(p) \/ SaveConfig(p) \/ ResolveUser(p) \/ TruncateSentinel(p)
         \/ Fail(p) \/ FailBlocked(p) \/ FailUser(p) \/ Crash(p)
  PROVE  SpecMeansHeld' /\ Progress(p)'
<1>t. TypeOK /\ TypeOK'
  BY TypeStep DEF IInv, Next, Step
<1>p. Progress(p)
  BY DEF IInv
<1>1. files' = files
  BY DEF StatSentinel, MkdirRootfs, Resolve, SaveManifest, EndLayers, SaveConfig,
         ResolveUser, TruncateSentinel, Fail, FailBlocked, FailUser, Crash, entry
<1>3. SpecMeansHeld'
  <2>1. CASE UNCHANGED entry
    BY <2>1 DEF entry, IInv, SpecMeansHeld, HoldsWhat
  <2>2. CASE MkdirRootfs(p) \/ SaveManifest(p) \/ SaveConfig(p)
    <3>1. sentinel = None /\ sentinel' = None
      BY <2>2, <1>p
      DEF MkdirRootfs, SaveManifest, SaveConfig, At, Progress, locals
    <3>2. QED
      BY <3>1, SpecAssumption DEF SpecMeansHeld
  <2>3. CASE TruncateSentinel(p)
    BY <2>3, SpecAssumption DEF TruncateSentinel, SpecMeansHeld
  <2>4. QED
    BY <2>1, <2>2, <2>3
    DEF StatSentinel, Resolve, EndLayers, ResolveUser, Fail, FailBlocked,
        FailUser, Crash
<1>4. Progress(p)'
  <2>1. CASE pc'[p] = "idle"
    BY <2>1 DEF Progress
  <2>2. CASE StatSentinel(p) /\ pc'[p] # "idle"
    BY <2>2, <1>t DEF StatSentinel, Goto, Return, entry, Progress, TypeOK
  <2>3. CASE MkdirRootfs(p)
    BY <2>3, <1>p, <1>t DEF MkdirRootfs, Goto, At, Progress, TypeOK, locals
  <2>4. CASE Resolve(p)
    BY <2>4, <1>p, <1>t DEF Resolve, Goto, At, Progress, TypeOK, entry
  <2>5. CASE SaveManifest(p)
    <3>1. Applied(Stream[want[p]], 0, files)
      BY DEF Applied
    <3>2. pos'[p] = 1 /\ pos'[p] - 1 = 0 /\ want' = want
      BY <2>5, <1>t DEF SaveManifest, TypeOK
    <3>3. QED
      BY <2>5, <3>1, <3>2, <1>1, <1>p, <1>t
      DEF SaveManifest, Goto, At, Progress, TypeOK
  <2>6. CASE EndLayers(p)
    <3>1. want[p] \in Images /\ pos[p] - 1 = Len(Stream[want[p]])
      <4>1. want[p] \in Images
        BY <2>6, <1>t DEF EndLayers, At, TypeOK
      <4>2. Len(Stream[want[p]]) \in Nat
        BY <4>1, StreamType
      <4>3. QED
        BY <2>6, <1>t, <4>1, <4>2 DEF EndLayers, At, TypeOK
    <3>2. Applied(Stream[want[p]], Len(Stream[want[p]]), files)
      BY <2>6, <3>1, <1>p DEF EndLayers, At, Progress
    <3>3. QED
      BY <2>6, <3>2, <1>p, <1>t
      DEF EndLayers, Goto, At, Progress, TypeOK, locals, entry
  <2>7. CASE SaveConfig(p)
    BY <2>7, <1>p, <1>t DEF SaveConfig, Goto, At, Progress, TypeOK, locals
  <2>8. CASE ResolveUser(p)
    <3>1. proc'[p] = [image |-> want[p],
                      user |-> IF want[p] \in Named THEN files[Passwd] ELSE None]
      BY <2>8, <1>t DEF ResolveUser, TypeOK
    <3>2. QED
      BY <2>8, <3>1, <1>p, <1>t
      DEF ResolveUser, Goto, At, Progress, TypeOK, entry
  <2>9. CASE TruncateSentinel(p)
    BY <2>9, <1>p, <1>t DEF TruncateSentinel, Goto, At, Progress, TypeOK, locals
  <2>10. CASE Fail(p) \/ FailBlocked(p) \/ FailUser(p) \/ Crash(p)
    BY <2>10, <2>1, <1>t DEF Fail, FailBlocked, FailUser, Crash, Return, TypeOK
  <2>11. QED
    BY <2>1, <2>2, <2>3, <2>4, <2>5, <2>6, <2>7, <2>8, <2>9, <2>10
<1>5. QED
  BY <1>3, <1>4

\* A step that extracts, or that writes the spec.
LEMMA ActiveStep ==
  ASSUME IInv, NEW p \in Pullers,
         ApplyEntry(p) \/ OpenEntry(p) \/ CopyEntry(p) \/ WriteSentinel(p)
  PROVE  SpecMeansHeld' /\ Progress(p)'
<1>t. TypeOK /\ TypeOK'
  BY TypeStep DEF IInv, Next, Step
<1>p. Progress(p)
  BY DEF IInv
<1>u. ASSUME pc[p] # "idle"
      PROVE  \A q \in Pullers \ {p} : ~At(q, "copy") /\ ~At(q, "write")
  BY <1>u DEF IInv, Alone, At
<1>1. CASE ApplyEntry(p)
  <2> DEFINE i == want[p]
             n == pos[p]
  <2>1. i \in Images /\ n \in 1..Len(Stream[i]) /\ n \in Nat
    BY <1>1, <1>t, Extracting DEF ApplyEntry, At
  <2>2. /\ sentinel = None /\ sentinel' = None
        /\ files' = Apply(Stream[i][n], files)
        /\ pos'[p] = n + 1 /\ UNCHANGED <<pc, want, rootfs, manifest>>
    BY <1>1, <1>p, <1>t DEF ApplyEntry, At, Progress, Current, TypeOK
  <2>3. SpecMeansHeld'
    BY <2>2, SpecAssumption DEF SpecMeansHeld
  <2>4. Applied(Stream[i], n, Apply(Stream[i][n], files))
    <3>1. Applied(Stream[i], n - 1, files) /\ n - 1 \in Nat /\ (n - 1) + 1 = n
      BY <1>1, <1>p, <2>1 DEF ApplyEntry, At, Progress
    <3>2. Applied(Stream[i], (n - 1) + 1, Apply(Stream[i][(n - 1) + 1], files))
      BY <3>1, AppliedNext
    <3>3. QED
      BY <3>1, <3>2
  <2>5. pos'[p] - 1 = n /\ want'[p] = i /\ pc'[p] = "extract"
    BY <1>1, <2>1, <2>2 DEF ApplyEntry, At
  <2>6. Applied(Stream[want'[p]], pos'[p] - 1, files')
    BY <2>2, <2>4, <2>5
  <2>7. QED
    BY <1>1, <1>p, <2>2, <2>3, <2>5, <2>6 DEF ApplyEntry, At, Progress
<1>2. CASE OpenEntry(p)
  <2> DEFINE i == want[p]
             n == pos[p]
             e == Stream[i][n]
  <2>1. i \in Images /\ n \in 1..Len(Stream[i]) /\ e.op = "file"
    BY <1>2, <1>t, Extracting DEF OpenEntry, At, Current
  <2>2. /\ sentinel = None /\ sentinel' = None
        /\ files' = Truncate(e, files) /\ pc'[p] = "copy"
        /\ UNCHANGED <<pos, want, rootfs, manifest>>
    BY <1>2, <1>p, <1>t
    DEF OpenEntry, At, Goto, Progress, Current, TypeOK, locals
  <2>3. Applied(Stream[i], n - 1, files)
    BY <1>2, <1>p DEF OpenEntry, At, Progress
  <2>4. /\ files'[e.path] = Torn
        /\ \A f \in Paths : \A k \in 1..n :
             LastTouch(Stream[i], n, k, f) /\ f # e.path =>
               files'[f] = Value(Stream[i][k], f)
    BY <2>1, <2>2, <2>3, TruncateNext
  <2>5. Copying(p)'
    BY <2>2, <2>4, ValueAssumption DEF Copying, Current
  <2>6. SpecMeansHeld'
    BY <2>2, SpecAssumption DEF SpecMeansHeld
  <2>7. QED
    BY <1>2, <1>p, <2>2, <2>5, <2>6 DEF OpenEntry, At, Progress
<1>3. CASE CopyEntry(p)
  <2> DEFINE i == want[p]
             n == pos[p]
             e == Stream[i][n]
  <2>1. i \in Images /\ n \in 1..Len(Stream[i]) /\ e.op = "file" /\ n \in Nat
    BY <1>3, <1>t, Extracting DEF CopyEntry, At, TypeOK
  <2>2. Copying(p)
    BY <1>3, <1>p DEF CopyEntry, At, Progress
  <2>a. ~Replaced(p)
    BY <1>3, <1>u, <2>2 DEF CopyEntry, At, Copying, Replaced
  <2>b. /\ sentinel = None /\ sentinel' = None
        /\ pc'[p] = "extract" /\ pos'[p] = n + 1
        /\ UNCHANGED <<want, rootfs, manifest>>
    BY <1>3, <1>p, <1>t DEF CopyEntry, At, Goto, Progress, TypeOK
  <2>c. files' = [files EXCEPT ![e.path] = e.data]
    BY <1>3, <2>a DEF CopyEntry, Current
  <2>3. /\ sentinel = None /\ sentinel' = None
        /\ files' = [files EXCEPT ![e.path] = e.data] /\ pc'[p] = "extract"
        /\ pos'[p] = n + 1 /\ UNCHANGED <<want, rootfs, manifest>>
    BY <2>b, <2>c
  <2>4. \A f \in Paths : files'[f] = IF f = e.path THEN e.data ELSE files[f]
    BY <2>3, <1>t DEF TypeOK
  <2>5. \A f \in Paths : \A k \in 1..n :
          LastTouch(Stream[i], n, k, f) /\ f # e.path =>
            files[f] = Value(Stream[i][k], f)
    BY <2>2 DEF Copying, Current
  <2>6. Applied(Stream[i], n, files')
    BY <2>1, <2>4, <2>5, CopyNext
  <2>7. pos'[p] - 1 = n /\ want'[p] = i
    BY <2>1, <2>3
  <2>8. Applied(Stream[want'[p]], pos'[p] - 1, files')
    BY <2>6, <2>7
  <2>9. SpecMeansHeld'
    BY <2>3, SpecAssumption DEF SpecMeansHeld
  <2>10. rootfs /\ manifest = want[p]
    BY <1>3, <1>p DEF CopyEntry, At, Progress
  <2> HIDE DEF i, n, e
  <2>11. sentinel' = None /\ pc'[p] = "extract" /\ rootfs' /\ manifest' = want'[p]
    BY <2>3, <2>10
  <2>12. QED
    BY <2>8, <2>9, <2>11 DEF Progress
<1>4. CASE WriteSentinel(p)
  <2>1. /\ pc[p] = "write" /\ sentinel = Torn /\ proc[p] \in ProcSpec
        /\ want[p] \in Images
    BY <1>4, <1>p, <1>t DEF WriteSentinel, At, Progress, TypeOK
  <2>2. /\ sentinel' = proc[p] /\ pc'[p] = "idle"
        /\ UNCHANGED <<rootfs, files, manifest, config>>
    BY <1>4, <1>t, <1>u, <2>1 DEF WriteSentinel, Return, TypeOK
  <2>3. HoldsWhat(proc[p])
    BY <2>1, <1>p DEF HoldsWhat, Progress
  <2>4. SpecMeansHeld'
    BY <2>2, <2>3 DEF SpecMeansHeld, HoldsWhat
  <2>5. QED
    BY <2>2, <2>4 DEF Progress
<1>5. QED
  BY <1>1, <1>2, <1>3, <1>4

LEMMA InvStep == Exclusive /\ IInv /\ [Next]_vars => IInv'
<1> SUFFICES ASSUME Exclusive, IInv, [Next]_vars PROVE IInv'
  OBVIOUS
<1>t. TypeOK /\ TypeOK'
  BY TypeStep DEF IInv
<1>1. ASSUME NEW p \in Pullers, Step(p) PROVE IInv'
  <2>1. pc[p] # "idle" /\ \A q \in Pullers \ {p} : pc[q] = "idle"
    BY <1>1
    DEF IInv, Alone, Step, At, StatSentinel, MkdirRootfs, Resolve, SaveManifest,
        ApplyEntry, OpenEntry, CopyEntry, EndLayers, SaveConfig, ResolveUser,
        TruncateSentinel, WriteSentinel, Fail, FailBlocked, FailUser, Crash
  <2>2. \A q \in Pullers \ {p} : pc'[q] = "idle"
    BY <1>1, <2>1, <1>t
    DEF TypeOK, Step, StatSentinel, MkdirRootfs, Resolve, SaveManifest,
        ApplyEntry, OpenEntry, CopyEntry, EndLayers, SaveConfig, ResolveUser,
        TruncateSentinel, WriteSentinel, Fail, FailBlocked, FailUser, Crash,
        Goto, Return
  <2>3. Alone' /\ \A q \in Pullers \ {p} : Progress(q)'
    BY <2>2 DEF Alone, Progress
  <2>4. SpecMeansHeld' /\ Progress(p)'
    BY <1>1, QuietStep, ActiveStep DEF Step
  <2>5. QED
    BY <1>t, <2>3, <2>4 DEF IInv
<1>2. CASE ~\E p \in Pullers : Step(p)
  BY <1>2, RestStep DEF Next
<1>3. QED
  BY <1>1, <1>2

\* When calls do not overlap, no failure, retry, moved tag, shared entry or
\* kill ever leaves a process spec in the sentinel beside other files, another
\* manifest or config, or a user it does not describe.
THEOREM SpecHeld == ASSUME Exclusive PROVE Spec => []SpecMeansHeld
<1>1. IInv => SpecMeansHeld
  BY DEF IInv
<1>2. QED
  BY <1>1, InvInit, InvStep, PTL DEF Spec

\* Under the same terms a cached entry is frozen: no pull changes it again.
THEOREM Frozen == ASSUME Exclusive PROVE Spec => CachedIsFrozen
<1>1. IInv /\ [Next]_vars
        => [(sentinel \in ProcSpec) => (UNCHANGED entry \/ ~rootfs')]_vars
  <2> SUFFICES ASSUME IInv, Next, sentinel \in ProcSpec
               PROVE  UNCHANGED entry \/ ~rootfs'
    OBVIOUS
  <2>1. CASE Retag \/ Forget
    BY <2>1 DEF Retag, Forget
  <2>2. ASSUME NEW p \in Pullers, NEW s \in Refs, Call(p, s)
        PROVE  UNCHANGED entry
    BY <2>2 DEF Call
  <2>3. ASSUME NEW p \in Pullers, Step(p) PROVE UNCHANGED entry
    <3>1. pc[p] \in {"idle", "stat"}
      BY SpecAssumption DEF IInv, Progress
    <3>2. QED
      BY <2>3, <3>1
      DEF Step, At, StatSentinel, MkdirRootfs, Resolve, SaveManifest,
          ApplyEntry, OpenEntry, CopyEntry, EndLayers, SaveConfig, ResolveUser,
          TruncateSentinel, WriteSentinel, Fail, FailBlocked, FailUser, Crash
  <2>4. QED
    BY <2>1, <2>2, <2>3 DEF Next
<1>2. QED
  BY <1>1, InvInit, InvStep, PTL DEF Spec, CachedIsFrozen
-----------------------------------------------------------------------------
(* The tree holds nothing but what the images extracted into it make.      *)

Owned ==
  /\ \A f \in Paths : files[f] # Absent => \E i \in tried : Known(Stream[i], f)
  /\ \A p \in Pullers :
       pc[p] \in {"extract", "copy", "config", "user", "truncate", "write"} =>
         want[p] \in tried

LEMMA OwnedStep == TypeOK /\ Owned /\ [Next]_vars => Owned'
<1> SUFFICES ASSUME TypeOK, Owned, [Next]_vars PROVE Owned'
  OBVIOUS
<1>1. CASE Forget
  BY <1>1 DEF Forget, locals, Owned, NoFiles
<1>2. CASE Retag \/ UNCHANGED vars
  BY <1>2 DEF Retag, vars, locals, entry, Owned
<1>3. ASSUME NEW p \in Pullers, NEW s \in Refs, Call(p, s) PROVE Owned'
  BY <1>3 DEF Call, entry, Owned, TypeOK
<1>4. ASSUME NEW p \in Pullers, StatSentinel(p) \/ Fail(p) \/ FailBlocked(p)
                                  \/ FailUser(p) \/ Crash(p) \/ WriteSentinel(p)
      PROVE  Owned'
  <2>1. CASE StatSentinel(p)
    BY <2>1 DEF StatSentinel, Goto, Return, Owned, TypeOK, locals, entry
  <2>2. CASE Fail(p) \/ FailBlocked(p) \/ FailUser(p) \/ Crash(p)
    BY <2>2 DEF Fail, FailBlocked, FailUser, Crash, Return, Owned, TypeOK, locals, entry
  <2>3. CASE WriteSentinel(p)
    BY <2>3 DEF WriteSentinel, Return, Owned, TypeOK, locals, entry
  <2>4. QED
    BY <1>4, <2>1, <2>2, <2>3
<1>5. ASSUME NEW p \in Pullers, MkdirRootfs(p) \/ Resolve(p) \/ SaveManifest(p)
      PROVE  Owned'
  BY <1>5
  DEF MkdirRootfs, Resolve, SaveManifest, At, Goto, Owned, TypeOK, locals, entry
<1>6. ASSUME NEW p \in Pullers, EndLayers(p) \/ SaveConfig(p) \/ ResolveUser(p)
                                  \/ TruncateSentinel(p)
      PROVE  Owned'
  BY <1>6
  DEF EndLayers, SaveConfig, ResolveUser, TruncateSentinel, At, Goto, Owned,
      TypeOK, locals, entry
<1>7. ASSUME NEW p \in Pullers, pc[p] \in {"extract", "copy"},
             pos[p] \in 1..Len(Stream[want[p]]),
             pc' \in [Pullers -> Stage], pc'[p] \in {"extract", "copy"},
             \A q \in Pullers \ {p} : pc'[q] = pc[q],
             want' = want, tried' = tried,
             \A f \in Paths : files'[f] # Absent =>
               files[f] # Absent \/ Known(Stream[want[p]], f)
      PROVE  Owned'
  BY <1>7 DEF Owned
<1>8. ASSUME NEW p \in Pullers, ApplyEntry(p) PROVE Owned'
  <2>1. want[p] \in Images /\ pos[p] \in 1..Len(Stream[want[p]])
    BY <1>8, Extracting DEF ApplyEntry, At
  <2>2. \A f \in Paths : files'[f] # Absent =>
          files[f] # Absent \/ Known(Stream[want[p]], f)
    BY <1>8, <2>1, ApplyKnown DEF ApplyEntry, Current, Known
  <2>3. QED
    BY <1>7, <1>8, <2>1, <2>2 DEF ApplyEntry, At, TypeOK
<1>9. ASSUME NEW p \in Pullers, OpenEntry(p) PROVE Owned'
  <2>1. want[p] \in Images /\ pos[p] \in 1..Len(Stream[want[p]])
    BY <1>9, Extracting DEF OpenEntry, At
  <2>2. \A f \in Paths : files'[f] # Absent =>
          files[f] # Absent \/ Known(Stream[want[p]], f)
    <3>1. /\ Current(p).path \in Made(Current(p))
          /\ \A f \in Paths : f # Current(p).path =>
               files'[f] = Apply(Current(p), files)[f]
      BY <1>9, <2>1, FilePath DEF OpenEntry, Truncate, Apply, Current
    <3>2. QED
      BY <2>1, <3>1, ApplyKnown DEF Current, Known
  <2>3. QED
    BY <1>7, <1>9, <2>1, <2>2 DEF OpenEntry, At, Goto, TypeOK, Stage, locals
<1>10. ASSUME NEW p \in Pullers, CopyEntry(p) PROVE Owned'
  <2>1. want[p] \in Images /\ pos[p] \in 1..Len(Stream[want[p]])
    BY <1>10 DEF CopyEntry, At, TypeOK
  <2>2. \A f \in Paths : files'[f] # Absent => files[f] # Absent
    BY <1>10 DEF CopyEntry, TypeOK
  <2>3. QED
    BY <1>7, <1>10, <2>1, <2>2 DEF CopyEntry, At, Goto, TypeOK, Stage
<1>11. QED
  BY <1>1, <1>2, <1>3, <1>4, <1>5, <1>6, <1>8, <1>9, <1>10 DEF Next, Step

\* When no other image has been extracted into the tree since it was removed,
\* the entry beside a process spec is exactly what its image materialises.
THEOREM SpecSound == ASSUME Exclusive PROVE Spec => []SpecMeansReady
<1>1. Init => Owned
  BY DEF Init, Owned, NoFiles
<1>2. IInv => TypeOK
  BY DEF IInv
<1>3. IInv /\ Owned => SpecMeansReady
  BY DEF IInv, Owned, SpecMeansReady, ReadyFor, SpecMeansHeld, HoldsWhat,
         Materialised
<1>4. QED
  BY <1>1, <1>2, <1>3, OwnedStep, InvInit, InvStep, PTL DEF Spec
-----------------------------------------------------------------------------
(* Pull implements CacheEntry, for images that leave something in the tree. *)

Done(i, fs) == Applied(Stream[i], Len(Stream[i]), fs)

\* A call past its last layer has made the tree whole.
LEMMA WholeTree ==
  ASSUME IInv, NEW p \in Pullers, pc[p] \in {"truncate", "write"}
  PROVE  Tree = "whole"
<1>1. want[p] \in Images /\ Applied(Stream[want[p]], Len(Stream[want[p]]), files)
  BY DEF IInv, TypeOK, Progress
<1>2. QED
  BY <1>1 DEF Tree

LEMMA RefineStep ==
  ASSUME \A i \in Images : ~Done(i, NoFiles), Exclusive, IInv, [Next]_vars
  PROVE  [Promise!Next]_(Promise!vars)
<1>t. TypeOK
  BY DEF IInv
<1>1. CASE UNCHANGED entry
  <2>1. Tree' = Tree /\ Conf' = Conf /\ rootfs' = rootfs
    BY <1>1 DEF entry, Tree, Conf
  <2>2. QED
    BY <2>1 DEF Promise!vars
<1>2. CASE Forget
  <2>1. Tree' = "none"
    BY <1>2 DEF Forget, Tree, Done
  <2>2. Conf' = None
    BY <1>2, SpecAssumption DEF Forget, Conf
  <2>3. QED
    BY <1>2, <2>1, <2>2 DEF Forget, Promise!Next, Promise!Forget
<1>3. ASSUME NEW p \in Pullers, MkdirRootfs(p) PROVE Promise!Mkdir
  <2>1. sentinel = None /\ sentinel' = None /\ files' = files /\ rootfs' = TRUE
    BY <1>3 DEF MkdirRootfs, At, IInv, Progress, locals
  <2>2. Tree' = Tree /\ Conf = None /\ Conf' = Conf
    BY <2>1, SpecAssumption DEF Tree, Conf
  <2>3. QED
    BY <2>1, <2>2 DEF Promise!Mkdir
<1>4. ASSUME NEW p \in Pullers, SaveManifest(p) \/ SaveConfig(p)
      PROVE  UNCHANGED Promise!vars
  <2>1. sentinel' = sentinel /\ files' = files /\ rootfs' = rootfs
    BY <1>4 DEF SaveManifest, SaveConfig
  <2>2. Tree' = Tree /\ Conf' = Conf
    BY <2>1 DEF Tree, Conf
  <2>3. QED
    BY <2>1, <2>2 DEF Promise!vars
<1>5. ASSUME NEW p \in Pullers, ApplyEntry(p) \/ OpenEntry(p) \/ CopyEntry(p)
      PROVE  Promise!Extract
  <2>1. sentinel = None /\ rootfs
    BY <1>5 DEF ApplyEntry, OpenEntry, CopyEntry, At, IInv, Progress
  <2>2. sentinel' = None /\ rootfs' = rootfs
    BY <1>5, <2>1 DEF ApplyEntry, OpenEntry, CopyEntry
  <2>3. Tree' \in {"none", "part", "whole"}
    BY DEF Tree
  <2>4. Conf = None /\ Conf' = None
    BY <2>1, <2>2, SpecAssumption DEF Conf
  <2>5. QED
    BY <2>1, <2>2, <2>3, <2>4 DEF Promise!Extract
<1>6. ASSUME NEW p \in Pullers, TruncateSentinel(p) PROVE Promise!Tear
  <2>1. sentinel = None /\ sentinel' = Torn /\ files' = files /\ rootfs' = rootfs
    BY <1>6 DEF TruncateSentinel, At, IInv, Progress, locals
  <2>2. Tree = "whole" /\ Tree' = Tree
    BY <1>6, <2>1, WholeTree DEF TruncateSentinel, At, Tree
  <2>3. Conf = None /\ Conf' = Torn
    BY <2>1, SpecAssumption DEF Conf
  <2>4. QED
    BY <2>1, <2>2, <2>3 DEF Promise!Tear
<1>7. ASSUME NEW p \in Pullers, WriteSentinel(p) PROVE Promise!Write
  <2>1. pc[p] = "write" /\ sentinel = Torn /\ proc[p] \in ProcSpec
    BY <1>7, <1>t DEF WriteSentinel, At, IInv, Progress, TypeOK
  <2>2. sentinel' = proc[p] /\ files' = files /\ rootfs' = rootfs
    BY <1>7, <2>1 DEF WriteSentinel, At, IInv, Alone
  <2>3. Tree = "whole" /\ Tree' = Tree
    BY <2>1, <2>2, WholeTree DEF Tree
  <2>4. Conf = Torn /\ Conf' = "image"
    BY <2>1, <2>2, SpecAssumption DEF Conf
  <2>5. QED
    BY <2>2, <2>3, <2>4 DEF Promise!Write
<1>8. CASE Retag \/ UNCHANGED vars \/ \E p \in Pullers, s \in Refs : Call(p, s)
  BY <1>1, <1>8 DEF Retag, vars, entry, Call
<1>9. ASSUME NEW p \in Pullers, Step(p) PROVE [Promise!Next]_(Promise!vars)
  <2>1. CASE \/ MkdirRootfs(p) \/ SaveManifest(p) \/ ApplyEntry(p)
             \/ OpenEntry(p) \/ CopyEntry(p) \/ SaveConfig(p)
             \/ TruncateSentinel(p) \/ WriteSentinel(p)
    BY <2>1, <1>3, <1>4, <1>5, <1>6, <1>7 DEF Promise!Next
  <2>2. CASE \/ StatSentinel(p) \/ Resolve(p) \/ EndLayers(p) \/ ResolveUser(p)
             \/ Fail(p) \/ FailBlocked(p) \/ FailUser(p) \/ Crash(p)
    BY <1>1, <2>2
    DEF StatSentinel, Resolve, EndLayers, ResolveUser, Fail, FailBlocked,
        FailUser, Crash
  <2>3. QED
    BY <1>9, <2>1, <2>2 DEF Step
<1>10. QED
  BY <1>2, <1>8, <1>9 DEF Next, Promise!Next

\* Calls that do not overlap implement CacheEntry, the promise that the runs
\* of RunMicroVM build on, whatever fails, is killed, moved or retried.
THEOREM Refinement ==
  ASSUME Exclusive, \A i \in Images : ~Done(i, NoFiles)
  PROVE  Spec => EntrySpec
<1>1. Init => Promise!Init
  <2> SUFFICES ASSUME Init PROVE Promise!Init
    OBVIOUS
  <2>1. Tree = "none" /\ Conf = None /\ rootfs = FALSE
    BY SpecAssumption DEF Init, Tree, Conf, Done
  <2>2. QED
    BY <2>1 DEF Promise!Init
<1>2. IInv /\ [Next]_vars => [Promise!Next]_(Promise!vars)
  BY RefineStep
<1>3. QED
  BY <1>1, <1>2, InvInit, InvStep, PTL DEF Spec, EntrySpec, Promise!Spec
-----------------------------------------------------------------------------
(* Calls that overlap, of one image and without a failure from outside.    *)

\* The call p is on its way to the entry k, or has not yet opened its file; or
\* it has applied it, but for the bytes of its file.
Early(p, k) ==
  \/ pc[p] = "extract" /\ pos[p] <= k
  \/ pc[p] = "copy" /\ pos[p] < k
Reached(p, k) ==
  \/ pc[p] = "extract" /\ pos[p] > k
  \/ pc[p] = "copy" /\ pos[p] >= k
  \/ pc[p] \in {"config", "user", "truncate", "write"}
Rewriting(k, f) ==
  files[f] = Torn /\ \E p \in Pullers : pc[p] = "copy" /\ pos[p] = k /\ Current(p).path = f

\* Once some call has applied the entry k, the last to touch f, f is as k leaves
\* it, or is being written, or some call has yet to apply k.
Settling(i, k, f) ==
  (sentinel # None \/ \E p \in Pullers : Reached(p, k)) =>
    \/ files[f] = Value(Stream[i][k], f)
    \/ \E q \in Pullers : Early(q, k)
    \/ Rewriting(k, f)
Settled(i) ==
  \A f \in Paths : \A k \in 1..Len(Stream[i]) :
    LastTouch(Stream[i], Len(Stream[i]), k, f) => Settling(i, k, f)

\* Every path is of a kind that the image gives it.
Kinds(i) ==
  \A f \in Paths :
    /\ files[f] = Dir => \E k \in 1..Len(Stream[i]) : MakesDir(Stream[i][k], f)
    /\ files[f] \notin {Absent, Dir} => \E k \in 1..Len(Stream[i]) : MakesFile(Stream[i][k], f)

Noted(i) ==
  /\ sentinel # None => rootfs /\ manifest = i /\ config = i /\ i \in tried
  /\ sentinel \in ProcSpec => sentinel.image = i
  /\ sentinel = Torn => \E p \in Pullers : pc[p] = "write"

OnWay(p, i) ==
  /\ want[p] \in {None, i}
  /\ pc[p] \notin {"idle", "stat", "mkdir"} => rootfs
  /\ pc[p] \notin {"idle", "stat", "mkdir", "resolve", "manifest"} => manifest = i /\ i \in tried
  /\ pc[p] \in {"user", "truncate", "write"} => config = i
  /\ pc[p] \in {"truncate", "write"} => proc[p].image = i

Sharing(i) ==
  /\ \A s \in Refs : tag[s] = i
  /\ tried \subseteq {i}
  /\ \A p \in Pullers : OnWay(p, i)
  /\ Noted(i)
  /\ Kinds(i)
OneImage(i) == Sharing(i) /\ (OneKind(Stream[i]) => Settled(i))

Quiet == ~Moves /\ ~MayFail /\ ~MayCrash

\* The calls that p is not see nothing of its step but the entry.
OthersWait(p) ==
  \A q \in Pullers \ {p} :
    pc'[q] = pc[q] /\ want'[q] = want[q] /\ pos'[q] = pos[q] /\ proc'[q] = proc[q]

LEMMA StepWaits ==
  ASSUME TypeOK, NEW p \in Pullers, Step(p)
  PROVE  OthersWait(p) /\ tag' = tag
<1>1. /\ pc \in [Pullers -> Stage] /\ want \in [Pullers -> Images \cup {None}]
      /\ pos \in [Pullers -> Nat] /\ proc \in [Pullers -> ProcSpec \cup {None}]
  BY DEF TypeOK
<1>2. CASE StatSentinel(p) \/ MkdirRootfs(p) \/ Resolve(p) \/ SaveManifest(p)
  BY <1>1, <1>2
  DEF StatSentinel, MkdirRootfs, Resolve, SaveManifest, Goto, Return, locals, OthersWait
<1>3. CASE ApplyEntry(p) \/ OpenEntry(p) \/ CopyEntry(p) \/ EndLayers(p)
  BY <1>1, <1>3 DEF ApplyEntry, OpenEntry, CopyEntry, EndLayers, Goto, locals, OthersWait
<1>4. CASE SaveConfig(p) \/ ResolveUser(p) \/ TruncateSentinel(p) \/ WriteSentinel(p)
  BY <1>1, <1>4
  DEF SaveConfig, ResolveUser, TruncateSentinel, WriteSentinel, Goto, Return, locals, OthersWait
<1>5. CASE Fail(p) \/ FailBlocked(p) \/ FailUser(p) \/ Crash(p)
  BY <1>1, <1>5 DEF Fail, FailBlocked, FailUser, Crash, Return, OthersWait
<1>6. QED
  BY <1>2, <1>3, <1>4, <1>5 DEF Step

\* A call brings its image's manifest, config and name, and takes nothing away.
LEMMA OwnWay ==
  ASSUME TypeOK, NEW i \in Images, \A s \in Refs : tag[s] = i,
         NEW p \in Pullers, OnWay(p, i), Step(p)
  PROVE  /\ OnWay(p, i)'
         /\ rootfs => rootfs'
         /\ manifest' \in {manifest, i} /\ config' \in {config, i}
         /\ tried \subseteq tried' /\ tried' \subseteq tried \cup {i}
<1>t. /\ pc \in [Pullers -> Stage] /\ want \in [Pullers -> Images \cup {None}]
      /\ proc \in [Pullers -> ProcSpec \cup {None}] /\ ref \in [Pullers -> Refs \cup {None}]
      /\ pc[p] # "idle" => ref[p] \in Refs
      /\ pc[p] \notin {"idle", "stat", "mkdir", "resolve"} => want[p] \in Images
  BY DEF TypeOK
<1>i. i # None
  BY ImageAssumption
<1>w. pc[p] \notin {"idle", "stat", "mkdir", "resolve"} => want[p] = i
  BY <1>t, <1>i, ImageAssumption DEF OnWay
<1>1. CASE \/ Fail(p) \/ FailBlocked(p) \/ FailUser(p) \/ Crash(p)
           \/ (StatSentinel(p) /\ Return(p, "ok")) \/ WriteSentinel(p)
  <2>1. pc'[p] = "idle" /\ want'[p] = None /\ UNCHANGED <<rootfs, manifest, config, tried>>
    BY <1>1, <1>t
    DEF Fail, FailBlocked, FailUser, Crash, StatSentinel, WriteSentinel, Return, entry
  <2>2. QED
    BY <2>1 DEF OnWay
<1>2. CASE StatSentinel(p) /\ ~Return(p, "ok")
  BY <1>2, <1>t DEF StatSentinel, Goto, OnWay, locals, entry
<1>3. CASE MkdirRootfs(p)
  BY <1>3, <1>t DEF MkdirRootfs, Goto, OnWay, locals
<1>4. CASE Resolve(p)
  BY <1>4, <1>t DEF Resolve, Goto, At, OnWay, entry
<1>5. CASE SaveManifest(p)
  BY <1>5, <1>t, <1>w DEF SaveManifest, Goto, At, OnWay
<1>6. CASE ApplyEntry(p)
  BY <1>6, <1>t DEF ApplyEntry, At, OnWay
<1>7. CASE OpenEntry(p) \/ CopyEntry(p)
  BY <1>7, <1>t DEF OpenEntry, CopyEntry, Goto, At, OnWay, locals
<1>8. CASE EndLayers(p)
  BY <1>8, <1>t DEF EndLayers, Goto, At, OnWay, locals, entry
<1>9. CASE SaveConfig(p)
  BY <1>9, <1>t, <1>w DEF SaveConfig, Goto, At, OnWay, locals
<1>10. CASE ResolveUser(p)
  BY <1>10, <1>t, <1>w DEF ResolveUser, Goto, At, OnWay, entry
<1>11. CASE TruncateSentinel(p)
  BY <1>11, <1>t DEF TruncateSentinel, Goto, At, OnWay, locals
<1>12. QED
  BY <1>1, <1>2, <1>3, <1>4, <1>5, <1>6, <1>7, <1>8, <1>9, <1>10, <1>11 DEF Step

LEMMA NotedStep ==
  ASSUME TypeOK, Quiet, NEW i \in Images, \A s \in Refs : tag[s] = i, Noted(i),
         NEW p \in Pullers, OnWay(p, i), Step(p)
  PROVE  Noted(i)'
<1>t. pc \in [Pullers -> Stage] /\ (pc[p] = "write" => proc[p] \in ProcSpec)
  BY DEF TypeOK
<1>1. /\ rootfs => rootfs'
      /\ manifest' \in {manifest, i} /\ config' \in {config, i} /\ tried \subseteq tried'
  BY OwnWay
<1>2. \A q \in Pullers \ {p} : pc'[q] = pc[q]
  BY StepWaits DEF OthersWait
<1>3. CASE WriteSentinel(p)
  <2>1. pc[p] = "write" /\ rootfs /\ manifest = i /\ config = i /\ i \in tried /\ proc[p].image = i
        /\ proc[p] \in ProcSpec
    BY <1>3, <1>t DEF WriteSentinel, At, OnWay
  <2>2. CASE sentinel' = proc[p]
    BY <1>1, <2>1, <2>2, SpecAssumption DEF Noted
  <2>3. CASE sentinel' = sentinel /\ (sentinel # Torn \/ \E q \in Pullers \ {p} : At(q, "write"))
    BY <1>1, <1>2, <2>1, <2>3 DEF Noted, At
  <2>4. QED
    BY <1>3, <2>2, <2>3 DEF WriteSentinel
<1>4. CASE TruncateSentinel(p)
  <2>1. pc[p] = "truncate" /\ pc'[p] = "write" /\ sentinel' = Torn
    BY <1>4, <1>t DEF TruncateSentinel, At, Goto
  <2>2. rootfs /\ manifest = i /\ config = i /\ i \in tried
    BY <2>1 DEF OnWay
  <2>3. QED
    BY <1>1, <2>1, <2>2, SpecAssumption DEF Noted
<1>5. CASE ~WriteSentinel(p) /\ ~TruncateSentinel(p)
  <2>1. sentinel' \in {None, sentinel}
    BY <1>5
    DEF Step, StatSentinel, MkdirRootfs, Resolve, SaveManifest, ApplyEntry, OpenEntry,
        CopyEntry, EndLayers, SaveConfig, ResolveUser, Fail, FailBlocked, FailUser, Crash, entry
  <2>2. pc[p] # "write"
    BY <1>5
    DEF Quiet, Step, At, StatSentinel, MkdirRootfs, Resolve, SaveManifest, ApplyEntry,
        OpenEntry, CopyEntry, EndLayers, SaveConfig, ResolveUser, Fail, FailBlocked,
        FailUser, Crash
  <2>3. sentinel = Torn => \E q \in Pullers : pc'[q] = "write"
    BY <1>2, <2>2 DEF Noted
  <2>4. None # Torn
    BY ImageAssumption DEF Values
  <2>5. CASE sentinel' = None
    BY <2>4, <2>5, SpecAssumption DEF Noted
  <2>6. CASE sentinel' = sentinel
    BY <1>1, <2>3, <2>6 DEF Noted
  <2>7. QED
    BY <2>1, <2>5, <2>6
<1>6. QED
  BY <1>3, <1>4, <1>5

\* Each entry leaves a path of its own kind.
LEMMA ApplyKinds ==
  ASSUME TypeOK, NEW i \in Images, Kinds(i), NEW k \in 1..Len(Stream[i]), NEW f \in Paths
  PROVE  LET new == Apply(Stream[i][k], files)
         IN  /\ new[f] = Dir => \E j \in 1..Len(Stream[i]) : MakesDir(Stream[i][j], f)
             /\ new[f] \notin {Absent, Dir} =>
                  \E j \in 1..Len(Stream[i]) : MakesFile(Stream[i][j], f)
<1> DEFINE e == Stream[i][k]
<1>1. e \in Entry
  BY EntryType
<1>2. CASE f \notin Touched(e)
  <2>1. Apply(e, files)[f] = files[f]
    BY <1>2 DEF Apply
  <2>2. QED
    BY <2>1 DEF Kinds
<1>3. CASE f \in Touched(e)
  <2>1. Apply(e, files)[f] = Value(e, f)
    BY <1>3 DEF Apply
  <2>2. CASE f \in Wiped(e)
    BY <2>1, <2>2, ValueAssumption DEF Value
  <2>3. CASE f \notin Wiped(e) /\ e.op = "file" /\ f = e.path
    <3>1. Value(e, f) = e.data /\ MakesFile(e, f)
      BY <2>3 DEF Value, MakesFile
    <3>2. e.data \in Data
      BY <1>1 DEF Entry
    <3>3. QED
      BY <2>1, <3>1, <3>2, ValueAssumption
  <2>4. CASE f \notin Wiped(e) /\ ~(e.op = "file" /\ f = e.path)
    <3>1. Value(e, f) = Dir /\ MakesDir(e, f)
      BY <1>3, <2>4 DEF Value, MakesDir, MakesFile, Touched
    <3>2. QED
      BY <2>1, <3>1
  <2>5. QED
    BY <2>2, <2>3, <2>4
<1>4. QED
  BY <1>2, <1>3

\* What a step does to the tree: nothing, the effect of the entry that its call
\* is at, or that of a part of it.
LEMMA FilesStep ==
  ASSUME TypeOK, NEW p \in Pullers, Step(p), files' # files
  PROVE  /\ pc[p] \in {"extract", "copy"} /\ pos[p] \in 1..Len(Stream[want[p]])
         /\ \/ ApplyEntry(p) /\ files' = Apply(Current(p), files)
            \/ OpenEntry(p) /\ files' = Truncate(Current(p), files)
            \/ CopyEntry(p) /\ files' = [files EXCEPT ![Current(p).path] = Current(p).data]
<1>1. ApplyEntry(p) \/ OpenEntry(p) \/ CopyEntry(p)
  BY DEF Step, StatSentinel, MkdirRootfs, Resolve, SaveManifest, EndLayers, SaveConfig,
         ResolveUser, TruncateSentinel, WriteSentinel, Fail, FailBlocked, FailUser, Crash,
         entry
<1>2. pc[p] \in {"extract", "copy"}
  BY <1>1 DEF ApplyEntry, OpenEntry, CopyEntry, At
<1>3. CASE ApplyEntry(p)
  BY <1>2, <1>3, Extracting DEF ApplyEntry
<1>4. CASE OpenEntry(p)
  BY <1>2, <1>4, Extracting DEF OpenEntry
<1>5. CASE CopyEntry(p)
  BY <1>2, <1>5 DEF CopyEntry, At, TypeOK
<1>6. QED
  BY <1>1, <1>2, <1>3, <1>4, <1>5

\* A truncated file is empty, and the rest is as the whole entry leaves it.
LEMMA TruncateAt ==
  ASSUME NEW i \in Images, NEW k \in 1..Len(Stream[i]), Stream[i][k].op = "file",
         NEW fs, NEW f \in Paths
  PROVE  Truncate(Stream[i][k], fs)[f] = IF f = Stream[i][k].path THEN Torn
                                         ELSE Apply(Stream[i][k], fs)[f]
<1>1. Apply(Stream[i][k], fs) = [g \in Paths |-> Apply(Stream[i][k], fs)[g]]
  BY DEF Apply
<1>2. QED
  BY <1>1, FilePath DEF Truncate

LEMMA KindsStep ==
  ASSUME TypeOK, NEW i \in Images, Kinds(i), NEW p \in Pullers, Step(p),
         want[p] \in {None, i}
  PROVE  Kinds(i)'
<1>1. SUFFICES ASSUME files' # files PROVE Kinds(i)'
  BY DEF Kinds
<1>2. /\ pc[p] \in {"extract", "copy"} /\ pos[p] \in 1..Len(Stream[want[p]])
      /\ \/ ApplyEntry(p) /\ files' = Apply(Current(p), files)
         \/ OpenEntry(p) /\ files' = Truncate(Current(p), files)
         \/ CopyEntry(p) /\ files' = [files EXCEPT ![Current(p).path] = Current(p).data]
  BY <1>1, FilesStep
<1>3. want[p] = i
  BY <1>2, Extracting, ImageAssumption
<1> DEFINE k == pos[p]
           e == Stream[i][k]
<1>4. k \in 1..Len(Stream[i]) /\ Current(p) = e /\ e \in Entry
  BY <1>2, <1>3, EntryType DEF Current
<1> HIDE DEF k
<1>5. SUFFICES ASSUME NEW f \in Paths
               PROVE  /\ files'[f] = Dir => \E j \in 1..Len(Stream[i]) : MakesDir(Stream[i][j], f)
                      /\ files'[f] \notin {Absent, Dir} =>
                           \E j \in 1..Len(Stream[i]) : MakesFile(Stream[i][j], f)
  BY DEF Kinds
<1>6. CASE files' = Apply(e, files)
  BY <1>4, <1>6, ApplyKinds
<1>7. CASE OpenEntry(p) /\ files' = Truncate(e, files)
  <2>1. e.op = "file"
    BY <1>4, <1>7 DEF OpenEntry
  <2>2. files'[f] = IF f = e.path THEN Torn ELSE Apply(e, files)[f]
    BY <1>4, <1>7, <2>1, TruncateAt
  <2>3. CASE f = e.path
    BY <1>4, <2>1, <2>2, <2>3, ValueAssumption DEF MakesFile
  <2>4. CASE f # e.path
    BY <1>4, <2>2, <2>4, ApplyKinds
  <2>5. QED
    BY <2>3, <2>4
<1>8. CASE CopyEntry(p) /\ files' = [files EXCEPT ![e.path] = e.data]
  <2>1. e.op = "file" /\ e.data \in Data
    BY <1>3, <1>4, <1>8 DEF CopyEntry, At, TypeOK, Entry, Current
  <2>2. files'[f] = IF f = e.path THEN e.data ELSE files[f]
    BY <1>8 DEF TypeOK
  <2>3. CASE f = e.path
    BY <1>4, <2>1, <2>2, <2>3, ValueAssumption DEF MakesFile
  <2>4. CASE f # e.path
    BY <2>2, <2>4 DEF Kinds
  <2>5. QED
    BY <2>3, <2>4
<1>9. QED
  BY <1>2, <1>4, <1>6, <1>7, <1>8

\* An entry of an image that makes each path of one kind finds it of that kind.
LEMMA Unblocked ==
  ASSUME NEW i \in Images, OneKind(Stream[i]), Kinds(i), NEW k \in 1..Len(Stream[i])
  PROVE  ~Blocked(Stream[i][k], files)
<1> DEFINE e == Stream[i][k]
<1>1. e \in Entry
  BY EntryType
<1>2. SUFFICES ASSUME Blocked(e, files) PROVE FALSE
  OBVIOUS
<1>3. \A f \in Paths : \A j \in 1..Len(Stream[i]) : \A m \in 1..Len(Stream[i]) :
        ~(MakesFile(Stream[i][j], f) /\ MakesDir(Stream[i][m], f))
  BY DEF OneKind
<1>4. e.op \in {"dir", "file"}
  BY <1>2 DEF Blocked
<1>5. ASSUME NEW g \in Above(e.path), files[g] \notin {Absent, Dir} PROVE FALSE
  <2>1. g \in Paths /\ e.path \in Under[g]
    BY <1>5 DEF Above
  <2>2. g # e.path
    BY <2>1, TreeAssumption
  <2>3. MakesDir(e, g)
    BY <1>4, <1>5, <2>1, <2>2 DEF MakesDir, MakesFile, Made
  <2>4. QED
    BY <1>3, <1>5, <2>1, <2>3 DEF Kinds
<1>6. ASSUME e.op = "dir", e.path # Root, files[e.path] \notin {Absent, Dir} PROVE FALSE
  <2>1. e.path \in Paths
    BY <1>1, <1>6 DEF Entry
  <2>2. MakesDir(e, e.path)
    BY <1>6, <2>1 DEF MakesDir, MakesFile, Made
  <2>3. QED
    BY <1>3, <1>6, <2>1, <2>2 DEF Kinds
<1>7. ASSUME e.op = "file", e.path = Root \/ files[e.path] = Dir PROVE FALSE
  <2>1. e.path \in Paths
    BY <1>7, FilePath
  <2>2. MakesFile(e, e.path) /\ files[e.path] = Dir
    BY <1>7, <2>1, TreeAssumption DEF MakesFile
  <2>3. QED
    BY <1>3, <2>1, <2>2 DEF Kinds
<1>8. QED
  BY <1>2, <1>5, <1>6, <1>7 DEF Blocked

\* A step that leaves f alone, and that neither takes its call past the entry k
\* nor out of the writing of it.
LEMMA SettleAside ==
  ASSUME NEW i, NEW k, NEW f, Settling(i, k, f), NEW p \in Pullers, OthersWait(p),
         files'[f] = files[f],
         sentinel' # None => sentinel # None \/ Reached(p, k),
         Reached(p, k)' => Reached(p, k),
         Early(p, k) => Early(p, k)',
         pc[p] = "copy" /\ pos[p] = k /\ Current(p).path = f => files[f] # Torn
  PROVE  Settling(i, k, f)'
<1>1. \A q \in Pullers \ {p} :
        /\ Early(q, k)' = Early(q, k) /\ Reached(q, k)' = Reached(q, k)
        /\ pc'[q] = pc[q] /\ pos'[q] = pos[q] /\ Current(q)' = Current(q)
  BY DEF OthersWait, Early, Reached, Current
<1>2. SUFFICES ASSUME sentinel' # None \/ \E q \in Pullers : Reached(q, k)'
               PROVE  \/ files'[f] = Value(Stream[i][k], f)
                      \/ \E q \in Pullers : Early(q, k)'
                      \/ Rewriting(k, f)'
  BY DEF Settling
<1>3. sentinel # None \/ \E q \in Pullers : Reached(q, k)
  BY <1>1, <1>2
<1>4. \/ files[f] = Value(Stream[i][k], f)
      \/ \E q \in Pullers : Early(q, k)
      \/ Rewriting(k, f)
  BY <1>3 DEF Settling
<1>5. CASE \E q \in Pullers : Early(q, k)
  BY <1>1, <1>5
<1>6. CASE Rewriting(k, f)
  <2>1. PICK q \in Pullers : pc[q] = "copy" /\ pos[q] = k /\ Current(q).path = f
    BY <1>6 DEF Rewriting
  <2>2. files[f] = Torn /\ q # p
    BY <1>6, <2>1 DEF Rewriting
  <2>3. Rewriting(k, f)'
    BY <1>1, <2>1, <2>2 DEF Rewriting
  <2>4. QED
    BY <2>3
<1>7. QED
  BY <1>4, <1>5, <1>6

\* A step of a call that is not applying an entry.
LEMMA SettleIdle ==
  ASSUME TypeOK, Quiet, NEW i \in Images, NEW k \in 1..Len(Stream[i]), NEW f \in Paths,
         Settling(i, k, f), NEW p \in Pullers, OthersWait(p), want[p] \in {None, i},
         \/ StatSentinel(p) \/ MkdirRootfs(p) \/ Resolve(p) \/ SaveManifest(p) \/ EndLayers(p)
         \/ SaveConfig(p) \/ ResolveUser(p) \/ TruncateSentinel(p) \/ WriteSentinel(p)
         \/ FailUser(p)
  PROVE  Settling(i, k, f)'
<1>t. pc \in [Pullers -> Stage] /\ pos \in [Pullers -> Nat]
  BY DEF TypeOK
<1>k. k \in Nat /\ k >= 1 /\ Len(Stream[i]) \in Nat /\ k <= Len(Stream[i])
  BY StreamType
<1>0. files' = files
  BY DEF StatSentinel, MkdirRootfs, Resolve, SaveManifest, EndLayers, SaveConfig,
         ResolveUser, TruncateSentinel, WriteSentinel, FailUser, entry
<1>1. CASE SaveManifest(p)
  <2>1. pc'[p] = "extract" /\ pos'[p] = 1
    BY <1>1, <1>t DEF SaveManifest, Goto
  <2>2. Early(p, k)'
    BY <1>k, <2>1 DEF Early
  <2>3. QED
    BY <2>2 DEF Settling
<1>2. CASE StatSentinel(p) \/ MkdirRootfs(p) \/ Resolve(p) \/ FailUser(p)
  <2>1. /\ pc[p] \notin {"extract", "copy"}
        /\ pc'[p] \in {"idle", "mkdir", "resolve", "manifest"} /\ sentinel' = sentinel
    BY <1>2, <1>t DEF StatSentinel, MkdirRootfs, Resolve, FailUser, At, Goto, Return, entry
  <2>2. ~Early(p, k) /\ ~Reached(p, k)'
    BY <2>1 DEF Early, Reached
  <2>3. QED
    BY <1>0, <2>1, <2>2, SettleAside
<1>3. CASE EndLayers(p)
  <2>1. pc[p] = "extract" /\ pos[p] > Len(Stream[want[p]]) /\ want[p] \in Images
    BY <1>3 DEF EndLayers, At, TypeOK
  <2>2. want[p] = i
    BY <2>1, ImageAssumption
  <2>3. pos[p] > k /\ sentinel' = sentinel
    BY <1>3, <1>t, <1>k, <2>1, <2>2 DEF EndLayers, entry
  <2>4. Reached(p, k) /\ ~Early(p, k)
    BY <1>t, <1>k, <2>1, <2>3 DEF Reached, Early
  <2>5. QED
    BY <1>0, <2>1, <2>3, <2>4, SettleAside
<1>4. CASE SaveConfig(p) \/ ResolveUser(p) \/ TruncateSentinel(p) \/ WriteSentinel(p)
  <2>1. pc[p] \in {"config", "user", "truncate", "write"}
    BY <1>4 DEF SaveConfig, ResolveUser, TruncateSentinel, WriteSentinel, At
  <2>2. Reached(p, k) /\ ~Early(p, k)
    BY <2>1 DEF Reached, Early
  <2>3. QED
    BY <1>0, <2>1, <2>2, SettleAside
<1>5. QED
  BY <1>1, <1>2, <1>3, <1>4

\* The step that applies an entry, when k is the last to touch f.
LEMMA SettleExtract ==
  ASSUME TypeOK, NEW i \in Images, NEW k \in 1..Len(Stream[i]), NEW f \in Paths,
         LastTouch(Stream[i], Len(Stream[i]), k, f),
         Settling(i, k, f), NEW p \in Pullers, OthersWait(p), want[p] \in {None, i},
         ApplyEntry(p) \/ OpenEntry(p)
  PROVE  Settling(i, k, f)'
<1> DEFINE n == pos[p]
           e == Stream[i][n]
<1>t. pc \in [Pullers -> Stage] /\ pos \in [Pullers -> Nat]
  BY DEF TypeOK
<1>k. k \in Nat /\ k >= 1
  OBVIOUS
<1>1. pc[p] = "extract" /\ want[p] = i /\ n \in 1..Len(Stream[i]) /\ Current(p) = e
  <2>1. pc[p] = "extract" /\ pos[p] <= Len(Stream[want[p]])
    BY DEF ApplyEntry, OpenEntry, At
  <2>2. want[p] = i /\ n \in 1..Len(Stream[i])
    BY <2>1, Extracting, ImageAssumption
  <2>3. QED
    BY <2>1, <2>2 DEF Current
<1>2. n \in Nat
  BY <1>t
<1>3. sentinel' # None => sentinel # None
  BY DEF ApplyEntry, OpenEntry
<1>4. CASE ApplyEntry(p)
  <2>1. pc' = pc /\ pos'[p] = n + 1 /\ files' = Apply(e, files)
    BY <1>t, <1>1, <1>4 DEF ApplyEntry
  <2>2. files'[f] = IF f \in Touched(e) THEN Value(e, f) ELSE files[f]
    BY <2>1 DEF Apply
  <2> HIDE DEF n
  <2>3. CASE n < k
    <3>1. Early(p, k)'
      BY <1>1, <1>2, <1>k, <2>1, <2>3 DEF Early
    <3>2. QED
      BY <3>1 DEF Settling
  <2>4. CASE n = k
    <3>1. files'[f] = Value(Stream[i][k], f)
      BY <2>2, <2>4 DEF LastTouch
    <3>2. QED
      BY <3>1 DEF Settling
  <2>5. CASE n > k
    <3>1. files'[f] = files[f]
      BY <1>1, <2>2, <2>5 DEF LastTouch
    <3>2. Reached(p, k) /\ ~Early(p, k)
      BY <1>1, <1>2, <1>k, <2>5 DEF Reached, Early, n
    <3>3. QED
      BY <1>1, <1>3, <3>1, <3>2, SettleAside
  <2>6. QED
    BY <1>2, <1>k, <2>3, <2>4, <2>5
<1>5. CASE OpenEntry(p)
  <2>1. pc'[p] = "copy" /\ pos' = pos /\ want' = want /\ files' = Truncate(e, files)
        /\ e.op = "file"
    BY <1>t, <1>1, <1>5 DEF OpenEntry, Goto, locals
  <2>2. files'[f] = IF f = e.path THEN Torn ELSE Apply(e, files)[f]
    BY <1>1, <2>1, TruncateAt
  <2>3. Apply(e, files)[f] = IF f \in Touched(e) THEN Value(e, f) ELSE files[f]
    BY DEF Apply
  <2>4. e.path \in Touched(e)
    BY <1>1, <2>1, FilePath DEF Touched
  <2>5. pos'[p] = n /\ Current(p)' = e
    BY <1>1, <2>1 DEF Current
  <2> HIDE DEF n, e
  <2>6. CASE n < k
    <3>1. Early(p, k)'
      BY <1>2, <1>k, <2>1, <2>5, <2>6 DEF Early
    <3>2. QED
      BY <3>1 DEF Settling
  <2>7. CASE n = k /\ f = e.path
    <3>1. Rewriting(k, f)'
      BY <2>1, <2>2, <2>5, <2>7 DEF Rewriting
    <3>2. QED
      BY <3>1 DEF Settling
  <2>8. CASE n = k /\ f # e.path
    <3>1. f \in Touched(e) /\ e = Stream[i][k]
      BY <2>8 DEF LastTouch, e
    <3>2. files'[f] = Value(Stream[i][k], f)
      BY <2>2, <2>3, <2>8, <3>1
    <3>3. QED
      BY <3>2 DEF Settling
  <2>9. CASE n > k
    <3>1. f \notin Touched(e)
      BY <1>1, <2>9 DEF LastTouch, e
    <3>2. files'[f] = files[f]
      BY <2>2, <2>3, <2>4, <3>1
    <3>3. Reached(p, k) /\ ~Early(p, k)
      BY <1>1, <1>2, <1>k, <2>9 DEF Reached, Early, n
    <3>4. QED
      BY <1>1, <1>3, <3>2, <3>3, SettleAside
  <2>10. QED
    BY <1>2, <1>k, <2>6, <2>7, <2>8, <2>9
<1>6. QED
  BY <1>4, <1>5

\* The write into an opened file.
LEMMA SettleCopy ==
  ASSUME TypeOK, NEW i \in Images, \A q \in Pullers : want[q] \in {None, i},
         NEW k \in 1..Len(Stream[i]), NEW f \in Paths,
         LastTouch(Stream[i], Len(Stream[i]), k, f),
         Settling(i, k, f), NEW p \in Pullers, OthersWait(p), CopyEntry(p)
  PROVE  Settling(i, k, f)'
<1> DEFINE n == pos[p]
           e == Stream[i][n]
<1>t. pc \in [Pullers -> Stage] /\ pos \in [Pullers -> Nat] /\ files \in [Paths -> Values]
  BY DEF TypeOK
<1>k. k \in Nat /\ k >= 1
  OBVIOUS
<1>0. ASSUME NEW q \in Pullers, pc[q] = "copy"
      PROVE  /\ want[q] = i /\ pos[q] \in 1..Len(Stream[i])
             /\ Current(q) = Stream[i][pos[q]] /\ Current(q).op = "file"
             /\ Current(q).path \in Touched(Current(q))
  <2>1. want[q] \in Images /\ pos[q] \in 1..Len(Stream[want[q]])
        /\ Stream[want[q]][pos[q]].op = "file"
    BY <1>0 DEF TypeOK
  <2>2. want[q] = i
    BY <2>1, ImageAssumption
  <2>3. QED
    BY <2>1, <2>2, FilePath DEF Current, Touched
<1>1. pc[p] = "copy" /\ want[p] = i /\ n \in 1..Len(Stream[i]) /\ Current(p) = e
      /\ e.op = "file" /\ e.path \in Touched(e)
  <2>1. pc[p] = "copy"
    BY DEF CopyEntry, At
  <2>2. QED
    BY <1>0, <2>1
<1>2. n \in Nat /\ pc'[p] = "extract" /\ pos'[p] = n + 1 /\ want' = want /\ sentinel' = sentinel
  BY <1>t DEF CopyEntry, Goto
<1>3. f # e.path => files'[f] = files[f]
  BY <1>1, <1>t DEF CopyEntry
<1> HIDE DEF n
<1>4. CASE n < k
  <2>1. Early(p, k)'
    BY <1>2, <1>k, <1>4 DEF Early
  <2>2. QED
    BY <2>1 DEF Settling
<1>5. CASE n >= k /\ f # e.path
  <2>1. Reached(p, k) /\ ~Early(p, k)
    BY <1>1, <1>2, <1>k, <1>5 DEF Reached, Early, n
  <2>2. QED
    BY <1>1, <1>2, <1>3, <1>5, <2>1, SettleAside
<1>6. CASE n > k /\ f = e.path
  BY <1>1, <1>6 DEF LastTouch
<1>7. CASE n = k /\ f = e.path
  <2>1. CASE files' = [files EXCEPT ![e.path] = e.data]
    <3>1. files'[f] = e.data
      BY <1>t, <1>7, <2>1
    <3>2. Value(e, f) = e.data
      BY <1>1, <1>7, FilePath
    <3>3. QED
      BY <1>7, <3>1, <3>2 DEF Settling
  <2>2. CASE files' = files /\ files[f] # Torn
    <3>1. Reached(p, k) /\ ~Early(p, k)
      BY <1>1, <1>2, <1>k, <1>7 DEF Reached, Early, n
    <3>2. QED
      BY <1>1, <1>2, <2>2, <3>1, SettleAside
  <2>3. CASE files' = files /\ files[f] = Torn /\ Replaced(p)
    <3>1. PICK q \in Pullers \ {p} : pc[q] = "copy" /\ Current(q).path = f
      BY <1>1, <1>7, <2>3 DEF Replaced, At
    <3>2. pos[q] \in 1..Len(Stream[i]) /\ f \in Touched(Stream[i][pos[q]])
      BY <1>0, <3>1
    <3>3. pos[q] <= k /\ pos[q] \in Nat
      BY <1>k, <3>2 DEF LastTouch
    <3>4. pc'[q] = "copy" /\ pos'[q] = pos[q] /\ Current(q)' = Current(q)
      BY <1>2, <3>1 DEF OthersWait, Current
    <3>5. CASE pos[q] < k
      <4>1. Early(q, k)'
        BY <3>4, <3>5 DEF Early
      <4>2. QED
        BY <4>1 DEF Settling
    <3>6. CASE pos[q] = k
      <4>1. Rewriting(k, f)'
        BY <2>3, <3>1, <3>4, <3>6 DEF Rewriting
      <4>2. QED
        BY <4>1 DEF Settling
    <3>7. QED
      BY <1>k, <3>3, <3>5, <3>6
  <2>4. QED
    BY <1>1, <2>1, <2>2, <2>3 DEF CopyEntry
<1>8. QED
  BY <1>2, <1>k, <1>4, <1>5, <1>6, <1>7

LEMMA SettledStep ==
  ASSUME TypeOK, Quiet, NEW i \in Images, Sharing(i), OneKind(Stream[i]), Settled(i),
         NEW p \in Pullers, Step(p)
  PROVE  Settled(i)'
<1>1. OthersWait(p) /\ \A q \in Pullers : want[q] \in {None, i}
  BY StepWaits DEF Sharing, OnWay
<1>2. SUFFICES ASSUME NEW f \in Paths, NEW k \in 1..Len(Stream[i]),
                      LastTouch(Stream[i], Len(Stream[i]), k, f)
               PROVE  Settling(i, k, f)'
  BY DEF Settled
<1>3. Settling(i, k, f)
  BY <1>2 DEF Settled
<1>4. ~FailBlocked(p)
  <2>1. SUFFICES ASSUME FailBlocked(p) PROVE FALSE
    OBVIOUS
  <2>2. pc[p] = "extract" /\ pos[p] <= Len(Stream[want[p]])
    BY <2>1 DEF FailBlocked, At
  <2>3. want[p] = i /\ pos[p] \in 1..Len(Stream[i])
    BY <1>1, <2>2, Extracting, ImageAssumption
  <2>4. ~Blocked(Stream[i][pos[p]], files)
    BY <2>3, Unblocked DEF Sharing
  <2>5. QED
    BY <2>1, <2>3, <2>4 DEF FailBlocked, Current
<1>5. ~Fail(p) /\ ~Crash(p)
  BY DEF Quiet, Fail, Crash
<1>6. CASE ApplyEntry(p) \/ OpenEntry(p)
  BY <1>1, <1>2, <1>3, <1>6, SettleExtract
<1>7. CASE CopyEntry(p)
  BY <1>1, <1>2, <1>3, <1>7, SettleCopy
<1>8. CASE ~ApplyEntry(p) /\ ~OpenEntry(p) /\ ~CopyEntry(p)
  BY <1>1, <1>3, <1>4, <1>5, <1>8, SettleIdle DEF Step
<1>9. QED
  BY <1>6, <1>7, <1>8

\* Steps outside a call.
LEMMA OutsideStep ==
  ASSUME TypeOK, Quiet, NEW i \in Images, OneImage(i),
         Retag \/ Forget \/ UNCHANGED vars
                \/ \E p \in Pullers, s \in Refs : Call(p, s)
  PROVE  OneImage(i)'
<1>1. CASE UNCHANGED vars
  BY <1>1
  DEF OneImage, Sharing, OnWay, Noted, Kinds, Settled, Settling, Early, Reached, Rewriting,
      Current, vars, locals, entry
<1>2. CASE Retag
  BY <1>2 DEF Retag, Quiet
<1>3. CASE Forget
  <2>1. /\ pc' = pc /\ want' = want /\ tag' = tag /\ \A p \in Pullers : pc'[p] = "idle"
        /\ sentinel' = None /\ tried' = {} /\ files' = NoFiles
    BY <1>3 DEF Forget, locals
  <2>2. \A p \in Pullers : OnWay(p, i)'
    BY <2>1 DEF OneImage, Sharing, OnWay
  <2>3. Noted(i)'
    BY <2>1, SpecAssumption, ImageAssumption DEF Noted, Values
  <2>4. Kinds(i)'
    BY <2>1, ValueAssumption DEF Kinds, NoFiles
  <2>5. Settled(i)'
    BY <2>1 DEF Settled, Settling, Reached
  <2>6. QED
    BY <2>1, <2>2, <2>3, <2>4, <2>5 DEF OneImage, Sharing
<1>4. ASSUME NEW p \in Pullers, NEW s \in Refs, Call(p, s) PROVE OneImage(i)'
  <2>1. /\ UNCHANGED <<tag, want, pos, proc, rootfs, files, manifest, config, sentinel, tried>>
        /\ pc[p] = "idle" /\ pc'[p] = "stat" /\ \A q \in Pullers \ {p} : pc'[q] = pc[q]
    BY <1>4 DEF Call, At, TypeOK, entry
  <2>2. OthersWait(p)
    BY <2>1 DEF OthersWait
  <2>3. ASSUME NEW q \in Pullers PROVE OnWay(q, i)'
    <3>1. OnWay(q, i)
      BY DEF OneImage, Sharing
    <3>2. CASE q = p
      BY <2>1, <3>1, <3>2 DEF OnWay
    <3>3. CASE q # p
      BY <2>1, <3>1, <3>3 DEF OnWay
    <3>4. QED
      BY <3>2, <3>3
  <2>4. Noted(i)'
    BY <2>1 DEF OneImage, Sharing, Noted
  <2>5. Kinds(i)'
    BY <2>1 DEF OneImage, Sharing, Kinds
  <2>6. ASSUME Settled(i) PROVE Settled(i)'
    <3>1. SUFFICES ASSUME NEW f \in Paths, NEW k \in 1..Len(Stream[i]), Settling(i, k, f)
                   PROVE  Settling(i, k, f)'
      BY <2>6 DEF Settled
    <3>2. ~Reached(p, k)' /\ ~Early(p, k)
      BY <2>1 DEF Reached, Early
    <3>3. QED
      BY <2>1, <2>2, <3>1, <3>2, SettleAside
  <2>7. QED
    BY <2>1, <2>3, <2>4, <2>5, <2>6 DEF OneImage, Sharing
<1>5. QED
  BY <1>1, <1>2, <1>3, <1>4

LEMMA OneImageStep ==
  ASSUME TypeOK, Quiet, NEW i \in Images, OneImage(i), [Next]_vars
  PROVE  OneImage(i)'
<1>1. ASSUME NEW p \in Pullers, Step(p) PROVE OneImage(i)'
  <2>1. Sharing(i) /\ (\A s \in Refs : tag[s] = i) /\ \A q \in Pullers : OnWay(q, i)
    BY DEF OneImage, Sharing
  <2>2. OthersWait(p) /\ tag' = tag
    BY <1>1, StepWaits
  <2>3. /\ OnWay(p, i)'
        /\ rootfs => rootfs'
        /\ manifest' \in {manifest, i} /\ config' \in {config, i}
        /\ tried \subseteq tried' /\ tried' \subseteq tried \cup {i}
    BY <1>1, <2>1, OwnWay
  <2>4. ASSUME NEW q \in Pullers PROVE OnWay(q, i)'
    <3>1. CASE q = p
      BY <2>3, <3>1
    <3>2. CASE q # p
      BY <2>1, <2>2, <2>3, <3>2 DEF OnWay, OthersWait
    <3>3. QED
      BY <3>1, <3>2
  <2>5. Noted(i)'
    BY <1>1, <2>1, NotedStep DEF Sharing
  <2>6. Kinds(i)'
    BY <1>1, <2>1, KindsStep DEF Sharing, OnWay
  <2>7. OneKind(Stream[i]) => Settled(i)'
    BY <1>1, <2>1, SettledStep DEF OneImage
  <2>8. Sharing(i)'
    BY <2>1, <2>2, <2>3, <2>4, <2>5, <2>6 DEF Sharing
  <2>9. QED
    BY <2>7, <2>8 DEF OneImage
<1>2. CASE ~\E p \in Pullers : Step(p)
  BY <1>2, OutsideStep DEF Next
<1>3. QED
  BY <1>1, <1>2

LEMMA OneImageInit ==
  ASSUME NEW r, Refs = {r}, Init
  PROVE  \E i \in Images : OneImage(i)
<1> DEFINE i == tag[r]
<1>1. i \in Images /\ \A s \in Refs : tag[s] = i
  BY DEF Init
<1>2. /\ \A p \in Pullers : pc[p] = "idle" /\ want[p] = None
      /\ sentinel = None /\ tried = {} /\ files = NoFiles
  BY DEF Init
<1> HIDE DEF i
<1>3. \A p \in Pullers : OnWay(p, i)
  BY <1>2 DEF OnWay
<1>4. Noted(i)
  BY <1>2, SpecAssumption, ImageAssumption DEF Noted, Values
<1>5. Kinds(i)
  BY <1>2, ValueAssumption DEF Kinds, NoFiles
<1>6. Settled(i)
  BY <1>2 DEF Settled, Settling, Reached
<1>7. QED
  BY <1>1, <1>2, <1>3, <1>4, <1>5, <1>6 DEF OneImage, Sharing

\* At rest nothing is on its way, so every path is as its last entry leaves it.
LEMMA OneImageRest ==
  ASSUME TypeOK, Owned, NEW i \in Images, OneImage(i)
  PROVE  OverlapConverges
<1>1. SUFFICES ASSUME \A p \in Pullers : pc[p] = "idle",
                      \A j \in tried : OneKind(Stream[j]) /\ j \notin Named,
                      sentinel # None
               PROVE  sentinel \in ProcSpec /\ ReadyFor(sentinel)
  BY DEF OverlapConverges
<1>2. rootfs /\ manifest = i /\ config = i /\ i \in tried /\ tried \subseteq {i}
  BY <1>1 DEF OneImage, Sharing, Noted
<1>3. sentinel \in ProcSpec /\ sentinel.image = i
  BY <1>1 DEF OneImage, Sharing, Noted, TypeOK
<1>4. Settled(i) /\ i \notin Named
  BY <1>1, <1>2 DEF OneImage
<1>5. \A k : \A p \in Pullers : ~Early(p, k) /\ pc[p] # "copy"
  BY <1>1 DEF Early
<1>6. Applied(Stream[i], Len(Stream[i]), files)
  BY <1>1, <1>4, <1>5 DEF Settled, Settling, Rewriting, Applied
<1>7. \A f \in Paths : files[f] # Absent => Known(Stream[i], f)
  BY <1>2 DEF Owned
<1>8. QED
  BY <1>2, <1>3, <1>4, <1>6, <1>7 DEF ReadyFor, HoldsWhat, Materialised

\* Any number of calls for one reference whose image does not change, none of
\* them killed or failed from outside, leave the entry of that image, although
\* they wipe and truncate under each other what they have written.
THEOREM OverlapsConverge ==
  ASSUME NEW r, Refs = {r}, ~Moves, ~MayFail, ~MayCrash
  PROVE  Spec => []OverlapConverges
<1> DEFINE Inv == TypeOK /\ Owned /\ \E i \in Images : OneImage(i)
<1>1. Init => Inv
  <2>1. Init => TypeOK /\ Owned
    <3>1. Init => TypeOK
      BY InvInit DEF IInv
    <3>2. QED
      BY <3>1 DEF Init, Owned, NoFiles
  <2>2. QED
    BY <2>1, OneImageInit
<1>2. Inv /\ [Next]_vars => Inv'
  <2>1. SUFFICES ASSUME TypeOK, Owned, NEW i \in Images, OneImage(i), [Next]_vars PROVE Inv'
    OBVIOUS
  <2>2. TypeOK' /\ Owned'
    BY <2>1, TypeStep, OwnedStep
  <2>3. OneImage(i)'
    BY <2>1, OneImageStep DEF Quiet
  <2>4. QED
    BY <2>2, <2>3
<1>3. Inv => OverlapConverges
  BY OneImageRest
<1>4. QED
  BY <1>1, <1>2, <1>3, PTL DEF Spec
=============================================================================
