-------------------------------- MODULE Pull --------------------------------
(***************************************************************************)
(* Pull (pull.go): the processes that fill one entry of the image cache.   *)
(* The entry is <dataDir>/images/<refsafe(ref)>; the references in Refs    *)
(* are those that refsafe maps to it.  A call skips when the sentinel      *)
(* rootfs/.weft-microvm/config.json exists; otherwise it extracts every    *)
(* layer over whatever tree is there and writes the sentinel last.  There  *)
(* is no lock and no clean-up on failure.                                  *)
(***************************************************************************)
EXTENDS Rootfs

CONSTANTS
  Pullers,      \* the processes that may call Pull
  Refs,         \* the references that share this cache entry
  Images,       \* the images a tag may name over time
  Stream,       \* Stream[i]: the entries of image i, all its layers in order
  Named,        \* the images whose config names its user by name
  Passwd,       \* the path of etc/passwd
  None,         \* no image, no file, no name to resolve
  Exclusive,    \* TRUE: whoever calls sees to it that calls never overlap
  Moves,        \* TRUE: a tag may be moved to another image
  MayFail,      \* TRUE: the registry and the disk may fail
  MayCrash      \* TRUE: a caller may be killed at any step

ASSUME ImageAssumption ==
  /\ Stream \in [Images -> Seq(Entry)]
  /\ \A i \in Images : \A k \in 1..Len(Stream[i]) :
       Stream[i][k].path = Root => Stream[i][k].op \in {"layer", "opaque"}
  /\ Named \subseteq Images
  /\ Passwd \in Paths
  /\ None \notin Images \cup Values
ASSUME ModeAssumption ==
  {Exclusive, Moves, MayFail, MayCrash} \subseteq BOOLEAN

VARIABLES
  tag,          \* tag[r]: the image reference r names in the registry
  pc,           \* pc[p]: the step of Pull that p does next
  outcome,      \* outcome[p]: how the last call of p ended
  ref,          \* ref[p]: the argument of p's call
  want,         \* want[p]: the image p resolved it to
  pos,          \* pos[p]: the entry of the stream p is at
  proc,         \* proc[p]: the process spec p derived from the image config
  rootfs,       \* the directory rootfs exists
  files,        \* files[f]: what the tree holds at path f
  manifest,     \* the image of manifest.json, or None
  config,       \* the image of config.json, or None
  sentinel,     \* .weft-microvm/config.json: None, Torn or a process spec
  tried         \* history, read by no step: the images some call has started
                \* to extract since the entry was last removed

vars == <<tag, pc, outcome, ref, want, pos, proc, rootfs, files, manifest,
          config, sentinel, tried>>
locals == <<ref, want, pos, proc>>
entry == <<rootfs, files, manifest, config, sentinel, tried>>

Stage == {"idle", "stat", "mkdir", "resolve", "manifest", "extract", "copy",
          "config", "user", "truncate", "write"}
\* The process spec in the sentinel: which image it is for, and what etc/passwd
\* held when a named user was looked up in it.
ProcSpec == [image : Images, user : Values \cup {None}]

ASSUME SpecAssumption == ProcSpec \cap {None, Torn} = {}

TypeOK ==
  /\ tag \in [Refs -> Images]
  /\ pc \in [Pullers -> Stage]
  /\ outcome \in [Pullers -> {"none", "ok", "err", "crash"}]
  /\ ref \in [Pullers -> Refs \cup {None}]
  /\ want \in [Pullers -> Images \cup {None}]
  /\ pos \in [Pullers -> Nat]
  /\ proc \in [Pullers -> ProcSpec \cup {None}]
  /\ \A p \in Pullers :
       /\ pc[p] # "idle" => ref[p] \in Refs
       /\ pc[p] \notin {"idle", "stat", "mkdir", "resolve"} => want[p] \in Images
       /\ pc[p] = "extract" => pos[p] \in 1..(Len(Stream[want[p]]) + 1)
       /\ pc[p] = "copy" => /\ pos[p] \in 1..Len(Stream[want[p]])
                            /\ Stream[want[p]][pos[p]].op = "file"
       /\ pc[p] \in {"truncate", "write"} => proc[p] \in ProcSpec
  /\ rootfs \in BOOLEAN
  /\ files \in [Paths -> Values]
  /\ manifest \in Images \cup {None}
  /\ config \in Images \cup {None}
  /\ sentinel \in ProcSpec \cup {None, Torn}
  /\ tried \subseteq Images

NoFiles == [f \in Paths |-> Absent]

Init ==
  /\ tag \in [Refs -> Images]
  /\ pc = [p \in Pullers |-> "idle"]
  /\ outcome = [p \in Pullers |-> "none"]
  /\ ref = [p \in Pullers |-> None]
  /\ want = [p \in Pullers |-> None]
  /\ pos = [p \in Pullers |-> 0]
  /\ proc = [p \in Pullers |-> None]
  /\ rootfs = FALSE
  /\ files = NoFiles
  /\ manifest = None /\ config = None /\ sentinel = None /\ tried = {}

-----------------------------------------------------------------------------
(* Control.                                                                *)

At(p, stage) == pc[p] = stage
Goto(p, stage) ==
  /\ pc' = [pc EXCEPT ![p] = stage]
  /\ UNCHANGED outcome
Return(p, how) ==
  /\ pc' = [pc EXCEPT ![p] = "idle"]
  /\ outcome' = [outcome EXCEPT ![p] = how]
  /\ ref' = [ref EXCEPT ![p] = None]
  /\ want' = [want EXCEPT ![p] = None]
  /\ pos' = [pos EXCEPT ![p] = 0]
  /\ proc' = [proc EXCEPT ![p] = None]

Current(p) == Stream[want[p]][pos[p]]

-----------------------------------------------------------------------------
(* Outside the code: the registry, and the operator's rm -rf of the entry. *)

Retag ==
  /\ Moves
  /\ tag' \in [Refs -> Images]
  /\ UNCHANGED <<pc, outcome, locals, entry>>

Forget ==
  /\ \A p \in Pullers : pc[p] = "idle"
  /\ rootfs' = FALSE /\ files' = NoFiles
  /\ manifest' = None /\ config' = None /\ sentinel' = None /\ tried' = {}
  /\ UNCHANGED <<tag, pc, outcome, locals>>

-----------------------------------------------------------------------------
(* Pull, one action per step that can fail or that another can observe.    *)

Call(p, r) ==
  /\ At(p, "idle")
  /\ Exclusive => \A q \in Pullers : pc[q] = "idle"
  /\ pc' = [pc EXCEPT ![p] = "stat"]
  /\ outcome' = [outcome EXCEPT ![p] = "none"]
  /\ ref' = [ref EXCEPT ![p] = r]
  /\ UNCHANGED <<tag, want, pos, proc, entry>>

\* Mutant: the sentinel is not looked at.
NeverSkip(p) ==
  /\ At(p, "stat")
  /\ Goto(p, "mkdir")
  /\ UNCHANGED <<tag, locals, entry>>

\* Any file at the sentinel's path counts: the image is "already cached".
StatSentinel(p) ==
  /\ At(p, "stat")
  /\ \/ /\ sentinel # None
        /\ Return(p, "ok")
     \/ /\ sentinel = None
        /\ Goto(p, "mkdir")
        /\ UNCHANGED locals
  /\ UNCHANGED <<tag, entry>>

\* Mutant: the sentinel is created first.
MkdirWithSentinel(p) ==
  /\ At(p, "mkdir")
  /\ rootfs' = TRUE
  /\ sentinel' = Torn
  /\ Goto(p, "resolve")
  /\ UNCHANGED <<tag, locals, files, manifest, config, tried>>

MkdirRootfs(p) ==
  /\ At(p, "mkdir")
  /\ rootfs' = TRUE
  /\ Goto(p, "resolve")
  /\ UNCHANGED <<tag, locals, files, manifest, config, sentinel, tried>>

\* repo.Resolve and resolvePlatform: the image is pinned by its digest.
Resolve(p) ==
  /\ At(p, "resolve")
  /\ want' = [want EXCEPT ![p] = tag[ref[p]]]
  /\ Goto(p, "manifest")
  /\ UNCHANGED <<tag, ref, pos, proc, entry>>

\* Mutant: the layers are counted from zero.
SaveManifestZero(p) ==
  /\ At(p, "manifest")
  /\ manifest' = want[p]
  /\ tried' = tried \cup {want[p]}
  /\ pos' = [pos EXCEPT ![p] = 0]
  /\ Goto(p, "extract")
  /\ UNCHANGED <<tag, ref, want, proc, rootfs, files, config, sentinel>>

SaveManifest(p) ==
  /\ At(p, "manifest")
  /\ manifest' = want[p]
  /\ tried' = tried \cup {want[p]}
  /\ pos' = [pos EXCEPT ![p] = 1]
  /\ Goto(p, "extract")
  /\ UNCHANGED <<tag, ref, want, proc, rootfs, files, config, sentinel>>

\* An entry other than a regular file: the start of a layer, a directory or a
\* whiteout.  An opaque whiteout of the root takes .weft-microvm with it.
ApplyEntry(p) ==
  /\ At(p, "extract")
  /\ pos[p] <= Len(Stream[want[p]])
  /\ Current(p).op # "file"
  /\ ~Blocked(Current(p), files)
  /\ files' = Apply(Current(p), files)
  /\ sentinel' = IF Current(p).op = "opaque" /\ Current(p).path = Root
                 THEN None ELSE sentinel
  /\ pos' = [pos EXCEPT ![p] = pos[p] + 1]
  /\ UNCHANGED <<tag, pc, outcome, ref, want, proc, rootfs, manifest, config,
                 tried>>

\* Mutant: a file that is there already is kept.
OpenIfAbsent(p) ==
  /\ At(p, "extract")
  /\ pos[p] <= Len(Stream[want[p]])
  /\ Current(p).op = "file"
  /\ ~Blocked(Current(p), files)
  /\ IF files[Current(p).path] = Absent
       THEN /\ files' = Truncate(Current(p), files)
            /\ Goto(p, "copy")
            /\ UNCHANGED locals
       ELSE /\ pos' = [pos EXCEPT ![p] = pos[p] + 1]
            /\ UNCHANGED <<pc, outcome, ref, want, proc, files>>
  /\ UNCHANGED <<tag, rootfs, manifest, config, sentinel, tried>>

\* A regular file is truncated or created first, and copied next.
OpenEntry(p) ==
  /\ At(p, "extract")
  /\ pos[p] <= Len(Stream[want[p]])
  /\ Current(p).op = "file"
  /\ ~Blocked(Current(p), files)
  /\ files' = Truncate(Current(p), files)
  /\ Goto(p, "copy")
  /\ UNCHANGED <<tag, locals, rootfs, manifest, config, sentinel, tried>>

\* The write goes to the file p has opened.  Inodes are not kept here: where
\* another call may have removed or recreated the name, the write may also go
\* to a file nobody sees any more.
Replaced(p) ==
  \/ files[Current(p).path] # Torn
  \/ \E q \in Pullers \ {p} : At(q, "copy") /\ Current(q).path = Current(p).path

\* Mutant: the loop does not go on to the next header.
CopyAgain(p) ==
  /\ At(p, "copy")
  /\ files' = [files EXCEPT ![Current(p).path] = Current(p).data]
  /\ Goto(p, "extract")
  /\ UNCHANGED <<tag, locals, rootfs, manifest, config, sentinel, tried>>

CopyEntry(p) ==
  /\ At(p, "copy")
  /\ \/ /\ files[Current(p).path] \notin {Absent, Dir}
        /\ files' = [files EXCEPT ![Current(p).path] = Current(p).data]
     \/ /\ Replaced(p)
        /\ files' = files
  /\ pos' = [pos EXCEPT ![p] = pos[p] + 1]
  /\ Goto(p, "extract")
  /\ UNCHANGED <<tag, ref, want, proc, rootfs, manifest, config, sentinel, tried>>

\* Mutant: the error of a layer is dropped.
EndLayersEarly(p) ==
  /\ At(p, "extract")
  /\ Goto(p, "config")
  /\ UNCHANGED <<tag, locals, entry>>

EndLayers(p) ==
  /\ At(p, "extract")
  /\ pos[p] > Len(Stream[want[p]])
  /\ Goto(p, "config")
  /\ UNCHANGED <<tag, locals, entry>>

SaveConfig(p) ==
  /\ At(p, "config")
  /\ config' = want[p]
  /\ Goto(p, "user")
  /\ UNCHANGED <<tag, locals, rootfs, files, manifest, sentinel, tried>>

\* processFromImageConfigWithRootfs: a named user is looked up in the tree.
ResolveUser(p) ==
  /\ At(p, "user")
  /\ want[p] \in Named => files[Passwd] \notin {Absent, Dir}
  /\ proc' = [proc EXCEPT ![p] =
       [image |-> want[p],
        user |-> IF want[p] \in Named THEN files[Passwd] ELSE None]]
  /\ Goto(p, "truncate")
  /\ UNCHANGED <<tag, ref, want, pos, entry>>

\* os.WriteFile of the sentinel opens it with O_TRUNC ...
TruncateSentinel(p) ==
  /\ At(p, "truncate")
  /\ sentinel' = Torn
  /\ Goto(p, "write")
  /\ UNCHANGED <<tag, locals, rootfs, files, manifest, config, tried>>

\* ... and then writes it, into the file p has opened, as in CopyEntry.
WriteSentinel(p) ==
  /\ At(p, "write")
  /\ \/ sentinel # None /\ sentinel' = proc[p]
     \/ /\ sentinel # Torn \/ \E q \in Pullers \ {p} : At(q, "write")
        /\ sentinel' = sentinel
  /\ Return(p, "ok")
  /\ UNCHANGED <<tag, rootfs, files, manifest, config, tried>>

\* Any step after the stat may fail: the call returns and cleans up nothing.
Fail(p) ==
  /\ MayFail
  /\ pc[p] \notin {"idle", "stat"}
  /\ Return(p, "err")
  /\ UNCHANGED <<tag, entry>>

\* The two failures that follow from what the tree holds.
FailBlocked(p) ==
  /\ At(p, "extract")
  /\ pos[p] <= Len(Stream[want[p]])
  /\ Blocked(Current(p), files)
  /\ Return(p, "err")
  /\ UNCHANGED <<tag, entry>>

FailUser(p) ==
  /\ At(p, "user")
  /\ want[p] \in Named /\ files[Passwd] \in {Absent, Dir, Torn}
  /\ Return(p, "err")
  /\ UNCHANGED <<tag, entry>>

Crash(p) ==
  /\ MayCrash
  /\ pc[p] # "idle"
  /\ Return(p, "crash")
  /\ UNCHANGED <<tag, entry>>

Step(p) ==
  \/ StatSentinel(p) \/ MkdirRootfs(p) \/ Resolve(p) \/ SaveManifest(p)
  \/ ApplyEntry(p) \/ OpenEntry(p) \/ CopyEntry(p) \/ EndLayers(p)
  \/ SaveConfig(p) \/ ResolveUser(p) \/ TruncateSentinel(p) \/ WriteSentinel(p)
  \/ Fail(p) \/ FailBlocked(p) \/ FailUser(p) \/ Crash(p)

Next ==
  \/ Retag \/ Forget
  \/ \E p \in Pullers : Step(p) \/ \E r \in Refs : Call(p, r)

Spec == Init /\ [][Next]_vars

\* The scheduler runs every call, and the registry and the disk answer in the
\* end: Pull waits for them without a timeout (context.Background).
Works(p) == Step(p) /\ outcome'[p] \notin {"err", "crash"}
FairSpec == Spec /\ \A p \in Pullers : WF_vars(Works(p))

-----------------------------------------------------------------------------
(* What must hold.                                                         *)

\* The entry holds what its process spec s says: every path the image's layers
\* name is as they left it, the saved manifest and config are the image's, and
\* a named user is the one that the tree's etc/passwd still gives.
HoldsWhat(s) ==
  /\ rootfs
  /\ Applied(Stream[s.image], Len(Stream[s.image]), files)
  /\ manifest = s.image /\ config = s.image
  /\ s.image \in Named => s.user = files[Passwd]

\* ... and the tree holds nothing else.
ReadyFor(s) == HoldsWhat(s) /\ Materialised(Stream[s.image], files)

\* Whatever tags move and whichever references share the entry, a process spec
\* in the sentinel stands beside its image's own files, manifest and config, and
\* its user is the tree's.  Leftovers of another image may be there, and an
\* image without an etc/passwd may even have found its user in one.
SpecMeansHeld == sentinel \in ProcSpec => HoldsWhat(sentinel)

\* When no other image has been extracted into the tree since it was removed,
\* the tree is the image's to the last path: neither a failed pull, nor the
\* retry that extracts over its leavings, nor a kill between any two steps,
\* leaves a path that no layer of the image makes.
SpecMeansReady ==
  sentinel \in ProcSpec /\ tried = {sentinel.image} => ReadyFor(sentinel)

\* A cached entry is frozen: what the VMs share is changed by no pull, only
\* by the operator removing the entry as a whole.
CachedIsFrozen ==
  [][(sentinel \in ProcSpec) => (UNCHANGED entry \/ ~rootfs')]_vars

\* Pulls of one image that overlap and all succeed agree: once none is in
\* progress, and until the operator removes it, the entry is the image's.  Not so
\* for an image that makes a path a file and then a directory: the call that finds
\* the other kind there fails after it has undone a part of a finished tree, and
\* its next call takes the sentinel for it.  Nor for an image with a named user,
\* who is looked up while another call may still rewrite etc/passwd.
OverlapConverges ==
  /\ \A p \in Pullers : pc[p] = "idle"
  /\ \A p \in Pullers : outcome[p] = "ok"
  /\ \A i \in tried : OneKind(Stream[i]) /\ i \notin Named
  => sentinel = None \/ (sentinel \in ProcSpec /\ ReadyFor(sentinel))

\* Once some call of Pull runs, the entry becomes ready, although the calls that
\* overlap it wipe and truncate what it has written and none of them ever
\* compares the tree with the image (no lock, no retry in Pull).
Converges ==
  (\E p \in Pullers : pc[p] # "idle") ~> (sentinel \in ProcSpec /\ ReadyFor(sentinel))

-----------------------------------------------------------------------------
(* The refinement of CacheEntry.                                           *)

\* The tree is whole when it holds all that some image's layers leave.
Tree ==
  IF \E i \in Images : Applied(Stream[i], Len(Stream[i]), files) THEN "whole"
  ELSE IF files = NoFiles THEN "none" ELSE "part"

Conf == IF sentinel \in ProcSpec THEN "image" ELSE sentinel

Promise == INSTANCE CacheEntry WITH Image <- "image", tree <- Tree, conf <- Conf

\* Pull with all its failures, retries, moved tags and kills implements
\* CacheEntry when calls do not overlap: the spec file appears only beside a
\* whole tree, and a cached entry stays as it is until it is removed.
EntrySpec == Promise!Spec
=============================================================================
