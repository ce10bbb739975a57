# weft-microvm in TLA+

weft-microvm is a Go library: it pulls an OCI image into a cache on the host,
derives a process spec from the image's config, and asks the weft agent over
gRPC to register and start a microVM on a clone of the cached tree. It also
pulls the boot artifacts the VMs need and builds initramfs archives.

The library has no daemon, no lock and no shared memory. Every operation is a
function that several processes (or goroutines of one agent) may call at the
same time, and **the file system is the only thing they share**: cache entries,
boot artifacts, pod directories, at paths derived from the arguments. What is
hard about the code is therefore: what a call that fails, is killed or overlaps
another one leaves on disk, and what a later call makes of it.

## Inventory

| component | source | state | operations |
|---|---|---|---|
| boot artifacts | `pull_kernel.go`, `pull_pod_initrd.go` | `<dataDir>/kernel`, `pod-initrd`, each with its `.tmp` | `PullKernel`, `PullPodInitrd` |
| image pull | `pull.go` | `<dataDir>/images/<refsafe>`: `manifest.json`, `config.json`, `rootfs/`, the sentinel `rootfs/.weft-microvm/config.json` | `Pull` |
| layer extraction | `extract.go` | the tree under `rootfs/` | `extractLayer`, `extractTar`, `applyEntry` |
| cache layout | `cache.go` | none: paths from `XDG_DATA_HOME` and the reference | `refsafe`, `rootfsPath`, `KernelPath`, ... |
| process spec | `configspec.go` | none: image config and `etc/passwd`, `etc/group` in, spec out | `processFromImageConfigWithRootfs` |
| run | `run.go` | the sentinel it rewrites; the agent's VM record | `Run`, `runMicroVM`, `applyRunOverrides`, `locateBootArtefacts`, `dialWeft` |
| pod | `pod.go` | `pods/<id>/pod.json`; the agent's VM record | `RunPod`, `containerFromImage`, `writePodJSON`, `locatePodBoot` |
| server-side preparation | `prepare.go` | as `run` up to the boot artifacts | `Prepare` |
| references and platforms | `pull.go` | none; they decide which entry and which registry | `newRepository`, `rewriteForMirror`, `expandDockerHubShorthand`, `resolvePlatform` |
| cpio writer | `cpio/cpio.go` | position and inode counter of one archive | `WriteFile`, `WriteDir`, `WriteSymlink`, `WriteNod`, `Close` |
| initramfs builder | `initbuild/initbuild.go` | the archive at `dst` | `PackFiles`, `PackFilesToFile`, `PodInitrd` |
| agent, registry, guest | vendored clients | VM records; tags | `RegisterMicroVM`, `StartVM`; `Resolve`, `Fetch` |

How they interact:

- `Run`, `RunPod` and `Prepare` look for the *directory* `rootfs/` and call
  `Pull` when it is missing; `Pull` looks for the *sentinel* file in it, which it
  writes last. The two signs of "already pulled" differ, and every call may be
  interrupted between them.
- `Pull` calls `extractLayer` per layer, in order, over whatever is in the tree,
  and derives the process spec from the tree it has just extracted.
- `Run` with a command rewrites the sentinel, in place, in the shared entry, and
  the agent then clones the entry when it handles `RegisterMicroVM`.
- `PullKernel` and `PullPodInitrd` install files that later runs stat and the
  agent opens.

What makes each component correct:

- *Boot artifacts*: the installed file is one whole version, whatever happened to
  the calls; an installed artifact is never taken away; no `.tmp` stays behind.
- *Pull*: a process spec in the sentinel stands beside its own image's tree; a
  cached entry does not change; a call that returns nil has left, or found, a
  usable entry.
- *Extraction*: after the layers each path holds what the topmost layer that
  names it left.
- *Run*: the VM runs the command that was asked for, from a whole tree; runs do
  not disturb the shared entry.
- *Pod*: each container runs its own image's command; the VM that is started is
  the one that was registered; a pod's `pod.json` is its own.
- *cpio, initbuild*: the archive is aligned, sizes agree with bodies, a directory
  precedes its files, and a failed build does not pass for a good one.

- *References*: the image a caller gets is the one its reference means, whatever
  mirror or cache entry it comes from.

`PROJECT.json` lists under `hazards` the places where these can go wrong.

## Modules

| module | models | role |
|---|---|---|
| `Artifact` | `PullKernel`, `PullPodInitrd` | detailed specification |
| `AtomicFile` | what they promise | abstract specification; `Artifact!AtomicSpec` |
| `ArtifactProofs` | | theorems about `Artifact` |
| `Rootfs` | `applyEntry` on a tree of paths | operators, and the reference meaning of a stream of entries |
| `Pull` | `Pull` on one cache entry | detailed specification, extends `Rootfs` |
| `CacheEntry` | what `Pull` promises of the entry | abstract specification; `Pull!EntrySpec`; its actions are the pull inside `RunMicroVM` and `Pod` |
| `PullProofs` | | theorems about `Pull` |
| `Reference` | `expandDockerHubShorthand`, `rewriteForMirror`, `newRepository`, `resolvePlatform`, `refsafe` | from a reference to the image a caller gets, over the entries earlier calls have filled |
| `ReferenceProofs` | | theorems about `Reference` |
| `Extract` | `extractTar`, `applyEntry` on inodes and links | one call, against the union of the layers |
| `ConfigSpec` | `processFromImageConfigWithRootfs`, `applyUserOverrides` | functions |
| `Unpack` | both, in the order of `Pull` | composes `Extract` and `ConfigSpec` |
| `UnpackProofs` | | theorems about `Extract` and `Unpack` |
| `RunMicroVM` | `runMicroVM`, `applyRunOverrides` | composes `CacheEntry` with the run and the agent |
| `RunMicroVMProofs` | | theorems about `RunMicroVM` |
| `Pod` | `RunPod`, `Prepare`, `locatePodBoot`, `locateBootArtefacts` | composes one `CacheEntry` per image with pods, the agent and guests |
| `PodProofs` | | theorems about `Pod` |
| `Cpio` | package `cpio` | the writer's functions, and the kernel's walk over an archive |
| `InitBuild` | `PackFilesToFile`, `PodInitrd`, `PackToFile` | builds at one path, over `Cpio` |
| `InitBuildProofs` | | theorems about `InitBuild` and `Cpio` |
| `NatLemmas` | | a set of naturals has a least element, for the proofs that argue by a least counterexample |
| `MCArtifact`, `MCPull`, `MCReference`, `MCUnpack`, `MCRunMicroVM`, `MCPod`, `MCInitBuild` | | instances for TLC |

`CacheEntry` is the joint between the two halves: `Pull` is shown to implement
it, and `RunMicroVM` and `Pod` use its actions in place of the pull. So what is
shown of runs and pods rests on what is shown of pulls. The tree of a pull is
modelled twice, for two questions: `Rootfs` by paths, small enough for the
interleavings, crashes and retries of `Pull`; `Extract` by names and inodes,
for what one undisturbed extraction makes of links, modes and whiteouts.

### Artifact

A directory entry (`dir["tmp"]`, `dir["dst"]`) names an inode, `content[i]` is
what inode `i` holds, `fd[p]` the inode caller `p` has open and `off[p]` how far
it has written. This much is needed: with one shared name `dst.tmp`, a call may
go on writing into an inode that another call has removed, truncated or renamed
to `dst`. Content is a row of chunks, one chunk per write of `io.Copy`.

| action | code (`pull_kernel.go`; `pull_pod_initrd.go` is the same) |
|---|---|
| `Resolve` | `repo.Resolve`: the digest is pinned |
| `FetchManifest` | platform, manifest, choice of the layer |
| `Mkdir`, `RemoveTmp`, `OpenTmp` | `MkdirAll`, `os.Remove(tmp)`, `OpenFile(O_CREATE\|O_TRUNC)` |
| `FetchLayer`, `CopyChunk`, `CloseTmp` | `repo.Fetch`, `io.Copy`, `f.Close` |
| `Rename` | `os.Rename(tmp, dst)`, also when the name is gone |
| `FailEarly`, `FailLate`, `CleanUp` | the error returns, before and after the file is open |
| `Crash` | the process dies anywhere |
| `Retag` | environment: the tag is moved |

`Init` allows an earlier artifact at `dst`, and, when calls can be killed, a
`dst.tmp` with any prefix of any version.

A body that ends early is an error of the transport (`FailLate`): the code
itself never compares the downloaded digest with the descriptor
(`pull_kernel.go:113`), so it relies on the HTTP client to report a short body.

### Rootfs and Pull

A tree is a function from the paths that occur in some layer to what they hold:
nothing, a directory, a file with some data, or a file just truncated (`Torn`).
A tar header is a record (`Entry`); `Made` and `Wiped` give the paths an entry
creates and removes, `Blocked` when `MkdirAll` or `OpenFile` must fail.
`Applied` and `Materialised` are the reference: each path holds what the last
entry that names it left, and nothing else is there. The stream order is taken
as the meaning of a layer.

`Pull` follows the function statement by statement.

| action | code (`pull.go`) |
|---|---|
| `StatSentinel` | `os.Stat(cfgPath)`: any file counts |
| `MkdirRootfs`, `Resolve`, `SaveManifest` | `MkdirAll(rootfs)`; resolve and platform; `manifest.json` |
| `ApplyEntry`, `OpenEntry`, `CopyEntry`, `EndLayers` | the loop over layers and `applyEntry` (`extract.go`) |
| `SaveConfig`, `ResolveUser` | `config.json`; the named user looked up in the tree |
| `TruncateSentinel`, `WriteSentinel` | the two halves of `os.WriteFile` |
| `Fail`, `FailBlocked`, `FailUser`, `Crash` | error returns, which undo nothing; death |
| `Retag`, `Forget` | environment: a moved tag; `rm -rf` of the entry between calls |

`Refs` are the references that `refsafe` maps to this one entry; more than one
is a collision. `manifest.json` and `config.json` are written in one step each,
because no code reads them back. `tried` is a history variable read by no step:
the images some call has begun to extract since the entry was removed.

Paths, not inodes: when calls overlap and another call has removed and recreated
a file that this one has open, `CopyEntry` and `WriteSentinel` allow both
outcomes, the write that is seen and the one that goes to the unlinked file. A
`RemoveAll` is one step, and a file's copy is one step after its truncation.

**Fairness.** `FairSpec` assumes of every caller that it keeps working while it
can take a step that is neither an error nor its death (`WF_vars(Works(p))`): the
scheduler runs each call, and the registry and the disk answer in the end. The
first is Go's; the second is an assumption about the environment, since every
registry call runs under `context.Background()` (`pull.go:161`) and a registry
that never answers blocks the pull for ever. Nothing is assumed of errors, of
the operator or of moving tags. Weak fairness is enough: an active call always has such
a step, whatever the others do, unless the tree blocks it (`FailBlocked`).

### Reference

A reference is a row of words and separators. `ExpandDockerHubShorthand`,
`RewriteForMirror`, `Parsed` (oras-go's parse, and the default tag), `PlainHTTP`,
`ResolvePlatform` and `Refsafe` are the functions of `pull.go` and `cache.go`, and
`Canonical` composes them as `Pull` does. `Meant` is the reference definition: the
registry, name and tag that the rules above `expandDockerHubShorthand` give.

`Cached`, `Fetch` and `Refused` are the three ways a call of `Pull` ends here: the
entry is there, a registry answers, or it does not (nothing is there, or nobody
speaks the protocol). `synced` is what the mirrors have had so far: a mirror that
lacks a name and tag gets it from any registry that has one. `Forget` removes an
entry.

### Extract, ConfigSpec and Unpack

`name[p]` is what a path names: nothing, a directory, a symbolic link, an inode;
`file[i]` is what an inode holds, and whether it is read-only. Beside it, `view` is
the union of the layers by the image specification: an entry replaces the name
at its path, a whiteout hides what *lower* layers hold. `fresh` has the paths of
the layer being applied.

| action | code (`extract.go`, `applyEntry`) |
|---|---|
| `Directory` | `TypeDir`: `MkdirAll` |
| `Rewrite`, `Create`, `Replace` | `TypeReg`: `OpenFile(O_CREATE\|O_TRUNC)` of an inode that is there, of nothing (or of a dangling link), and of one that refuses and is removed first |
| `Symlink`, `Hardlink` | `os.Remove`, then the link |
| `Whiteout`, `Opaque` | `RemoveAll` and the loop over `ReadDir`, whose errors are dropped |
| `Device` | the types that are passed over |
| `Fail`, `FailCopy` | an entry that cannot be applied, with what it has done before; a copy that breaks off |
| `NewLayer` | the next call of `extractLayer` |
| `Derive` (`Unpack`) | `processFromImageConfigWithRootfs` and a run's command |

`plain` and `ordered` are history variables: no entry went through or onto a
link, met an inode of several names or of another mode, or had a removal fail;
no whiteout came behind an entry of its own layer that it covers. They say where
the extractor is the union, and the proof shows that they leave nothing out.

`ConfigSpec` has `ParseImageUser`, `ResolveNamedUser` and the scan of the identity
files with its malformed and over-long lines; `Unpack` reads the files through
whatever links the extraction has left.

### RunMicroVM

`ask[p]` holds the arguments of a run: a VM name, a command or none, offline
(`WEFT_NO_AUTO_PULL=1`) and remote (`HostUUID`). `vms[n]` is the agent's record:
what was asked, and the process spec and tree that were cloned for it.

| action | code (`run.go`) |
|---|---|
| `StatRootfs` | the test of the directory, offline mode, the remote shortcut |
| `Pull`, `PullStep` | `Pull`, by `CacheEntry`'s actions; at most one at a time |
| `ReadSpec`, `TruncateSpec`, `RewriteSpec` | `applyRunOverrides` |
| `Locate` | boot artifacts, request, dial |
| `RegisterMicroVM`, `StartVM` | the two RPCs |
| `Fail`, `FailRegistered`, `FailStart` | error returns; the RPC that takes effect after its 30 s deadline |
| `Crash`, `DeleteVM` | death; another client deletes a VM |

A remote run's tree and spec are the other host's, taken to be whole: the code
leaves the pull to "the caller", and drops the command (`run.go:206`).

### Pod

`spec[p]` is what a call has expanded so far, `json[d]` the file `pods/<d>/pod.json`,
`vms[j][d]` the agent's record in project `j`, with the trees as they were cloned
and what the guest has read at its last boot. Each image has the entry of
`CacheEntry`, with one pull of it at a time.

| action | code (`pod.go`, `prepare.go`) |
|---|---|
| `Call` | `loadManifest`; a manifest without containers is refused |
| `StatRootfs`, `Pull`, `Extract`, `TearConfig`, `WriteConfig` | the test of the directory, offline mode, `Pull` |
| `ReadConfig` | `containerFromImage`, and `Validate` after the last one |
| `TruncateJSON`, `WriteJSON` | `writePodJSON`: the two halves of `os.WriteFile` |
| `LocateKernel`, `LocateInitrd` | `locatePodBoot` |
| `RegisterMicroVM`, `StartVM` | the two RPCs; the second names no project |
| `Prepared` | `Prepare`: `locateBootArtefacts` (`Bootable`) and the bundle |
| `Fail`, `FailLate` | error returns and kills; an RPC that takes effect after its deadline |
| `Override` | `applyRunOverrides` of a run elsewhere |
| `GuestBoot` | environment: a guest boots, again or for the first time, and reads `pod.json` |

`mine` and a VM's `steady` are history variables: no other call has written the
`pod.json` since.

### Cpio and InitBuild

`Put` is a header and a body: the offset it is at, the padding of both, and a size
field that holds the length modulo `Wrap`, 2^32 in the code. `NextHeader` and
`Walks` are the kernel's unpacker, which is outside the repository.

`disk` is the file at `dst` as a row of cells, one per record. A cell holds its
writer's stream up to it, since every byte of a compressed stream depends on
those before: two builds agree on a cell only when they agree on all of it.

| action | code (`initbuild.go`) |
|---|---|
| `Call`, `Open` | `PodInitrd`, `PackToFile`; `OpenFile(O_TRUNC)` of `dst` itself |
| `PackDir`, `PackFile` | the two loops of `PackFiles` |
| `CloseCpio`, `CloseGzip`, `CloseFile` | the trailer, the footer, the deferred close |
| `FailOpen`, `FailRead`, `AbortGzip`, `CloseFailed`, `FailWrite` | the error returns; after a source that cannot be read the trailer and the footer are still written |
| `Crash` | the process dies anywhere |
| `LibraryStart`, `LibraryWrite`, `LibraryClose` | a program that uses package `cpio` by itself, in any order |

## Runs

Every run is exhaustive within its bounds. The violation runs each reproduce one
disagreement between the code and what the repository says of it.

| run | shows | bounds |
|---|---|---|
| `artifact_serial` | non-overlapping artifact pulls, failing and killed anywhere, over any leftover, keep `dst` whole and implement `AtomicFile` | 2 callers, 2 versions of 1 and 2 chunks, 3 inodes; 127 000 states |
| `artifact_race` | three overlapping pulls leave no `.tmp` and never take `dst` away | 3 callers, 1 version, 5 inodes; 29 000 states |
| `pull_serial` | non-overlapping pulls that fail, are killed and retried, while the tag moves, keep every promise and implement `CacheEntry` | 2 callers, 1 reference, 3 images, 3 paths; 50 000 states |
| `pull_overlap` | overlapping pulls that all succeed, of one image that makes each path of one kind and names no user, agree on the entry; and under `FairSpec` the entry becomes ready once one of them runs | 3 callers, either of 2 images; 24 000 states, without symmetry |
| `reference` | whatever calls came before and under whatever mirrors, a call gets the image its reference means, but for the two cases `OwnImage` names; where it asks; for which platform | 11 references, 5 mirrors, 5 descriptors, 3 calls; 146 000 states |
| `unpack` | extraction with links, modes, whiteouts and failing removals stays a tree and, where `Faithful` says so, is the union; the user that is derived from it is the one asked for | 6 paths, 15 entries, images of 4, 3 inodes, 4 configs; 121 000 states |
| `run_serial` | runs that always give a command, retried after failures at every step, boot that command from a whole tree | 2 runs, 2 names, 2 commands; 20 000 states |
| `run_cached` | overlapping runs without a command, here and remote, boot the image's own and leave the entry alone | 3 runs, 2 names; 575 000 states |
| `run_partial` | *violation*: a run without a command boots the leavings of a failed pull | 2 runs |
| `pod` | overlapping pods and preparations, with failing pulls, runs that rewrite entries, late RPCs and guests that reboot: trees whole, commands and `pod.json` their own | 2 processes, 2 images, 2 ids, 5 requests; 848 000 states |
| `pod_project` | *violation*: in another project `RunPod` starts another VM than the one it registered and returns nil | 2 processes, 2 projects |
| `archive` | two builders at one path, failing, killed and overlapping, and a program of its own: offsets, order, and what nil means | 3 jobs, bodies of 5 and 3 bytes with `Wrap` 7, 2 free records; 2 760 000 states |

Why these bounds are enough to be interesting:

- Two versions of *different* lengths let a shorter file written over a longer
  one show; three inodes are `dst`, `dst.tmp` and one more to create; five are
  enough for three open files and both names.
- The images of `MCPull` share paths in every way that matters: "plain" wipes a
  directory with an opaque whiteout and rewrites a file in its second layer, "swap"
  turns a file into a directory by a whiteout, "bare" has a file where the others
  have a directory, "other" a directory of its own. "plain" and "bare" are in `Named`
  and look their user up in the tree, "bare" without an `etc/passwd` of its own: it
  fails, or finds the one that another image's failed pull has left. In
  `pull_serial`, with `Moves`, the tag of one reference moves among the first three
  between any two steps; for one entry this covers every
  behaviour of several references that share it without overlapping, since a
  reference is read only through the tag at `Resolve`.
- Two callers are enough where calls do not overlap: the second is the retry over
  what the first left, and callers alternate without end. Three are used where
  they overlap, so that one can act on what two others have done to each other.
- The references of `MCReference` have every form that the code tells apart, a pair
  that shares an entry (`app:1`, `app/1`) and names that occur at several registries,
  one of which fetches what it lacks by itself.
  Three calls are one that fills a mirror, one that fills an entry from it, and
  one that is answered by the entry, with removals in between.
- The paths of `MCUnpack` are a directory, a link to it, and in both the two
  identity files; its entries meet every branch of `applyEntry`, and four of them are
  enough for a lower file, a link, a write through the link and a whiteout. A link
  at `etc/group` may lead to `etc/passwd`: the group is then found there, and
  `UnionEntry` follows the union's links as the code does.
  `MaxId` is 50, with a token for 99: an id the parse refuses. `Unprivileged`
  is TRUE, since only then does a read-only file refuse to be opened.
- The requests of `MCPod` include two containers of two images in either order, a
  command beside an image's own, equal container ids, no container, an offline
  pod and a preparation; boot files and variables are set or not, in any mixture
  that `MCShelves` and `MCVariables` list.
- The sizes of `MCInitBuild` are on both sides of the wrap (names of 3 to 10 bytes,
  bodies of 5 and 3, link targets of 4 and 7) and of every residue modulo 4; the
  jobs are those of `PodInitrd` and `PackToFile` and one with nested and shared
  directories.

The constants that select behaviour, and what they assume:

- `Exclusive` (`Artifact`, `Pull`, `RunMicroVM`): whoever calls sees to it that calls
  on this entry do not overlap. Nothing in the code does; where it is FALSE the
  properties are those that hold all the same.
- `MayFail`, `MayCrash`, `Moves`: the registry and disk may fail, callers may be
  killed, tags may move. `pull_overlap` is about calls that succeed and has none
  of them; `artifact_race` has failures and no kills, since a kill does leave a
  `.tmp`.
- `Cached`: the image was pulled before the first run.
- `Asks`: which arguments occur: runs that always give a command, or never do.

Deadlock is checked wherever the system goes on: a call that has returned may
always be made again. The run of `Unpack`, whose image ends, and that of `Reference`, whose
calls are bounded by `MaxCalls`, do not check it.

## Findings

Two disagreements are reproduced by a run and listed, with the lines they quote, in
`PROJECT.json`: the tree of a failed pull is booted (`run_partial`), and a pod in a
project is registered but not started (`pod_project`).

Modelling also met these. The first five come back in a run when the constants
that exclude them are changed (`Exclusive`, several `Refs`, `Asks <- AnyCmd`):

- Two overlapping pulls of a kernel or pod initrd can install a truncated one.
- A sentinel that could not be written counts as a finished pull: the entry stays
  unusable until it is removed by hand.
- While calls overlap, the sentinel may stand beside a tree that another call has
  torn; the calls converge only once all of them have ended.
- `refsafe` maps different references to one entry, `app:1` and `app/1`: whoever
  comes second gets the other's image (`cache.go:74`).
- A run's command stays in the shared entry and is what the next run without one
  boots (`run.go:379`); two overlapping runs may boot each other's.
- `extract.go:14-16` says that a layer's whiteouts are applied first; they are applied
  where they stand (`extract.go:78`), so a marker behind entries of its own layer
  removes those too, and layers with the same entries in another order extract
  to different trees. `Faithful` without `ordered` is violated.
- `pull.go:94-98` and `:103` call the mirror's tree 1:1, but `rewriteForMirror` drops the
  registry: `team/app` on Docker Hub and `ghcr.io/team/app` are asked of the mirror as
  one, and both references get whichever it has synced. `OwnImage` without `Twin` is
  violated. A mirror that fetches nothing by itself, but has a `team/app` of its own,
  gives that one.
- `pull.go:92` allows `http://zot.weft.internal:8080` as a mirror, but the scheme is
  dropped and only loopback hosts are spoken to in HTTP (`pull.go:151`): a mirror
  that speaks HTTP refuses every call (`Refused`).
- Overlapping pulls of an image that makes a path a file and later a directory: a call
  that finds the kind it does not expect fails, after it has undone part of a tree
  that another call had finished, and its next call takes the sentinel for a whole
  tree. A named user may be looked up while another call still rewrites `etc/passwd`.
  Hence the last conjunct before the arrow in `Pull`'s `OverlapConverges`.
- A failed pull followed by a moved tag leaves the first image's files in the
  second one's tree; hence `SpecMeansHeld` (every path the image names is as it
  should be) is unconditional and `SpecMeansReady` (nothing else is there) needs
  `tried` to be the one image.
- A file left by a failed pull where the other image has a directory makes every
  retry fail (`FailBlocked`) until the entry is removed by hand.
- An image's file that is opened through a symbolic link, or through one of several
  hard links, changes the other path too (`extract.go:113`); layers that do this do
  not extract to their union. `Faithful` names the cases.
- `localhost/app` is taken for a name on Docker Hub, where `docker pull`, whose rules
  `pull.go:46` says it mirrors, takes `localhost` for a host. An IPv6 loopback host
  is never recognised, since the host is cut at its first colon (`pull.go:148`).
- With `WEFT_KERNEL` set to a missing file `RunPod` fails (`locatePodBoot`), where
  `Run` and `Prepare` go on to the default path (`locateBootArtefacts`).
- The VM of pod `x` and the VM of an image `pod-x` have one name (`pod.go:119`).
- A remote run ignores the command (`run.go:206`) that the flag's comment
  (`run.go:52-54`) says replaces the image's.
- `configspec.go:9-11` says that named users are passed through; the code
  resolves them and fails when the name is missing.
- A build of an archive that fails leaves a well-formed one, without some of the
  files, in place of the old one (`initbuild.go:102`); only the error tells.

## Proofs

All theorems hold for every value of the constants that satisfies the modules'
assumptions: any number of callers, any images, trees, versions, jobs and
manifests.

**ArtifactProofs.** `TypeCorrect`; `Installed` (the action property
`InstalledStays`) and `NoLeftover` (`TmpOwned`) without any assumption on
overlapping; `Replaced` (`DstWhole`) and `Refinement` (`AtomicSpec`) under
`Exclusive`. `DstWhole` is not inductive: a rename installs whatever
`dst.tmp` names. The inductive invariant says that at most one call is active,
that the file it has open is the one `dst.tmp` names, not the one `dst` names,
that it holds exactly the first `off[p]` chunks of the version the call has
pinned, and that at the rename it is whole. `TmpOwned` needs its own, smaller
one: it does not follow from the above, since it is about overlapping calls.

**PullProofs.** `TypeCorrect` for all calls; under `Exclusive`, `SpecHeld`,
`Frozen`, `SpecSound` and `Refinement`. The invariant `IInv` is type correctness,
`Alone` (one active call), `SpecMeansHeld` and `Progress(p)`: what the call has
established by the step it is at. Its core is
`Applied(Stream[want[p]], pos[p] - 1, files)`, which `AppliedNext` (one entry
extends it), `TruncateNext` and `CopyNext` (the two halves of a file) carry
through the loop over the entries without an induction on data. A second
invariant, `Owned`, bounds the tree from above: a path that is there is made by
an image in `tried`; it holds for overlapping calls too. `Refinement` also
assumes that no image leaves an empty tree: for one that does, the tree of
`CacheEntry` would be "whole" before the first step.

`OverlapsConverge` is about any number of overlapping calls for one reference whose
tag does not move and that neither fail nor die from outside; an entry that cannot
be applied may still fail a call. Its invariant `OneImage` has two parts. `Sharing`
says that all calls work on the one image, each on its way through the entries. `Settled`
follows, for each path, the *last* entry that touches it: once some call has applied
that entry, the path is as the entry leaves it, or a call is rewriting it just now,
or some call has yet to apply that entry again. So a call may undo what another has
done, but only before the point of its own where it redoes it, and when nobody is
on the way the tree is the image's. A call cannot skip that point by failing, since an
image that makes each path of one kind (`OneKind`) blocks nobody (`Unblocked`).

**RunMicroVMProofs.** `TypeCorrect`; `ReadersBoot` and `ReadersLeaveCache` for
any number of overlapping runs that give no command, on a cached image;
`WritersBoot` and `WritersBootWhole` for runs that do not overlap and always give
one, from an empty cache and through failed pulls. The last two need to know
that a spec that is neither missing nor torn stands beside a whole tree, and
where in its rewrite the active run is.

**PodProofs.** `TypeCorrect`, `PodsBootWhole`, `ContainersOwnCommand`,
`GuestsReadOwn` and `PreparationsWhole`, all for any number of overlapping calls.
The invariants build on one another: what each step knows of the arguments
(`Asked`); an entry whose spec is written is whole, and one that is being pulled
has a single puller (`Entries`); what has been expanded agrees with the manifest,
container by container (`Expanding`); who has written the `pod.json` of an id last
(`Owning`); and what a preparation that had to pull knows of its entry
(`Pulled`). Commands that runs write need `ran`, which only grows.

**InitBuildProofs.** `TypeCorrect`; `HeadersAreFound`, for any sizes and any order of
calls; `ParentsComeFirst`; `SuccessMeansPacked`. `Writing` says that the next header
goes where the declared sizes of the last one lead, as long as every body fits;
`Ordering`, that every directory above a record is among those before it;
`InProgress`, how far a build is: directories, then the first files, then the end
and the footer; `Owning`, that a build that is alone has the file to itself, so
that `disk` is its own stream, cell by cell. `OverlapsConverge` is about builds that
overlap at one path. Its invariant `Overlap` says that a build that goes well has
a stream its job could make (`Streams`); that each cell of the file is of such a build,
or of one that will have to open the file again (`FromBuilds`); and that some build, the one
that emptied the file last, has left no gap in it (`Covered`). A job leaves no choice
of the next record (`OneSuccessor`), so two streams of one job agree as far as both
go (`Agree`): the first cell where they did not would follow equal ones. When all have
returned nil, the cells without a gap are then those of one stream. It holds even if
other jobs were packed, failed or were killed there before.

**UnpackProofs.** `TypeCorrect`; `StaysTree` (`TreeShape`), also through failures;
`ExtractsUnion` (`Faithful`). `TreeInv` adds to the shape that every link is one that
some entry makes at its own path (`Sound`), from which it follows that following a
path takes at most one link and ends in the tree. `UnionInv` has one step per
kind of entry. The proof has found that `plain` once missed a case, an opaque
marker whose directory is reached through a link, which the bounds of the run at
that time did not reach. `RootIsAsked` and `GroupIsAsked` go on to the process
spec. Their invariant `Derived` says that the ids of the spec are those that the lookup in
the final tree gives; where that tree is the union, a path is followed through it
as `UnionFollow` follows the union's links. The proof has found both properties false for an image whose
`etc/group` is a link to `etc/passwd`; they now speak of the file the link leads to.

**ReferenceProofs.** `TypeCorrect`, `ImageIsOwn`, `PlatformIsOwn` and `StaysInCluster`, for
references and mirrors of any length. What a function does to a reference is shown
from two facts about rows of words: what stands before the first mark and what
stands from it on make the whole, and a row put in front that holds no mark
does not move it. From these, the request has the name and tag that the reference
means, at the host of the mirror if there is one. `RInv` adds `Lineage`, which says
where what an entry or a mirror holds comes from: an entry has the image of some
reference with its key, or its twin; a mirror has under a name and tag an image
of that name and tag. The proof has found `OwnImage` false for mirrors that do not fetch by
themselves and for references that name a registry that does; `Twin` now has both.

**NatLemmas.** `LeastNat` stands in for induction over data, which is out of the
provers' reach: a claim that fails has a least number for which it fails. It is
proved from the well-foundedness of `<`.

The theorems rest on the assumptions that the modules name. Those of
this last part: the words of references are `Words`, among them the separators and the
default names; a digest and a mirror's host hold no `/`; an index lists descriptors of
the two kinds; `None` is no image and no descriptor; there is a builder
(`BuilderAssumption`), since with none all of them have returned nil at the start, when `dst` is still empty.

Model-checked only: `Pull`'s `Converges`, a liveness property under fairness, which the
prover cannot reason about. Every invariant, action property and refinement that a
passing run checks is stated by a theorem.

## Not modelled

- The weft agent, the registry and the guest's init are other programs; they
  occur as the environment's actions and as the RPCs.
- Which kernel goes with which pod initrd: nothing in the code relates them, so
  there is nothing to check.
- Mounts and the kernel's command line of a run, and the working directory,
  environment and user of a pod's container, which go with its image's config.
- The data directory (`XDG_DATA_HOME`, `HOME`) and paths as strings, but for
  references.
- Terminal output and logging, the dialling of ssh and unix sockets, gzip, JSON,
  times of files, the inode numbers of an archive, and the vendored libraries,
  but for what the code relies on in oras-go and the pod spec's `Validate`.

## Plan

Done: every component with state, its abstract specification where it has one,
and the proofs above. What is left, in this order:

1. An abstract specification of a build (the old archive, or the job's, or a broken one
   that no caller takes for good) and of a pod's `pod.json`, with their refinements.
2. `Converges` on three images and with moving tags.
3. The VM-name space that runs and pods share.
