--------------------------------- MODULE Pod ---------------------------------
(***************************************************************************)
(* RunPod (pod.go) and Prepare (prepare.go) over the shared image cache:   *)
(* processes that expand a manifest into containers, one image each, write *)
(* the pod's pods/<id>/pod.json, and ask the weft agent to register and    *)
(* start a VM whose guest reads that file when it boots.                   *)
(*                                                                         *)
(* An entry of the cache is what CacheEntry describes, one pull at a time; *)
(* Run may rewrite its process spec at any moment (RunMicroVM).            *)
(***************************************************************************)
EXTENDS Naturals, Sequences

CONSTANTS
  Runners,      \* the processes that may call RunPod or Prepare
  Images,       \* the references, no two of which refsafe maps together
  Cmds,         \* the commands a manifest or a run may give
  NoCmd,        \* a container without a command of its own
  Ids,          \* the pod ids
  Projects,     \* the projects
  Default,      \* the agent's default project
  Requests,     \* the pods (an id, a project, a sequence of containers) and the
                \* preparations of an image; offline is WEFT_NO_AUTO_PULL=1
  Shelves,      \* the sets of boot files that may be on the disk
  Variables,    \* the sets of WEFT_KERNEL and the like that may be set
  None,         \* no file, no VM, no path
  Torn          \* a file truncated and not yet written

Boot == {"kernel", "initrd", "pod-initrd", "iso"}
Paths == {"env", "default"} \X Boot

ASSUME CmdAssumption ==
  /\ NoCmd \notin Cmds \cup Images
  /\ Cmds \cap Images = {}
  /\ {None, Torn} \cap (Cmds \cup Images) = {} /\ None # Torn
Manifests == {a \in Requests : a.op = "pod"}
ASSUME RequestAssumption ==
  /\ Default \in Projects /\ None \notin Requests
  /\ \A a \in Requests : a.op \in {"pod", "prepare"} /\ a.offline \in BOOLEAN
  /\ \A a \in Requests \ Manifests : a.image \in Images
  /\ \A m \in Manifests :
       /\ m.id \in Ids /\ m.project \in Projects /\ Len(m.ctrs) \in Nat
       /\ \A k \in 1..Len(m.ctrs) : m.ctrs[k].image \in Images /\ m.ctrs[k].cmd \in Cmds \cup {NoCmd}
ASSUME BootAssumption ==
  /\ \A s \in Shelves : s \subseteq Paths
  /\ \A v \in Variables : v \subseteq Boot

VARIABLES
  pc,           \* pc[p]: the step p does next
  outcome,      \* outcome[p]: how the last call of p ended
  ask,          \* ask[p]: what the last call of p was for
  spec,         \* spec[p]: the containers p has expanded
  missed,       \* missed[p]: the image p prepares was not there when it looked
  mine,         \* mine[p]: pod.json is p's, no other call of that id writes it
  dir, tree, conf,  \* dir[i], tree[i], conf[i]: the entry of i, as in CacheEntry
  ran,          \* the commands that runs have written into entries
  json,         \* json[d]: the file pods/<d>/pod.json
  vms,          \* vms[j][d]: the agent's VM of the pod id d in the project j
  shelf,        \* the boot files on the disk
  env           \* the variables that are set

pulls == <<dir, tree, conf>>
vars == <<pc, outcome, ask, spec, missed, mine, pulls, ran, json, vms, shelf, env>>

Stage == {"idle", "stat", "pull", "extract", "tear", "write", "config", "truncate", "json",
          "locate", "initrd", "boot", "register", "start"}
\* Which image's config the command is from, or the command itself.
Container == [image : Images, cmd : Cmds \cup Images]
Containers == Seq(Container)
VM == [ask : Manifests, spec : Containers, whole : BOOLEAN, up : BOOLEAN,
       guest : Containers \cup {None, Torn}, steady : BOOLEAN]

TypeOK ==
  /\ pc \in [Runners -> Stage]
  /\ outcome \in [Runners -> {"none", "ok", "err"}]
  /\ ask \in [Runners -> Requests \cup {None}]
  /\ spec \in [Runners -> Containers]
  /\ missed \in [Runners -> BOOLEAN] /\ mine \in [Runners -> BOOLEAN]
  /\ dir \in [Images -> BOOLEAN]
  /\ tree \in [Images -> {"none", "part", "whole"}]
  /\ conf \in [Images -> Cmds \cup Images \cup {None, Torn}]
  /\ ran \subseteq Images \X Cmds
  /\ json \in [Ids -> Containers \cup {None, Torn}]
  /\ vms \in [Projects -> [Ids -> VM \cup {None}]]
  /\ shelf \in SUBSET Paths /\ env \in SUBSET Boot

Init ==
  /\ pc = [p \in Runners |-> "idle"]
  /\ outcome = [p \in Runners |-> "none"]
  /\ ask = [p \in Runners |-> None]
  /\ spec = [p \in Runners |-> << >>]
  /\ missed = [p \in Runners |-> FALSE] /\ mine = [p \in Runners |-> FALSE]
  /\ dir = [i \in Images |-> FALSE]
  /\ tree = [i \in Images |-> "none"]
  /\ conf = [i \in Images |-> None]
  /\ ran = {}
  /\ json = [d \in Ids |-> None]
  /\ vms = [j \in Projects |-> [d \in Ids |-> None]]
  /\ shelf \in Shelves /\ env \in Variables

-----------------------------------------------------------------------------
At(p, stage) == pc[p] = stage
Goto(p, stage) ==
  /\ pc' = [pc EXCEPT ![p] = stage]
  /\ UNCHANGED <<outcome, ask>>
Return(p, how) ==
  /\ pc' = [pc EXCEPT ![p] = "idle"]
  /\ outcome' = [outcome EXCEPT ![p] = how]
  /\ UNCHANGED ask
outside == <<shelf, env>>

Pods == {p \in Runners : pc[p] # "idle" /\ ask[p].op = "pod"}
\* The image that p expands next.
Image(p) == IF ask[p].op = "pod" THEN ask[p].ctrs[Len(spec[p]) + 1].image ELSE ask[p].image

\* loadManifest: a manifest without containers is refused.
Call(p) ==
  /\ At(p, "idle")
  /\ \E a \in Requests :
       /\ ask' = [ask EXCEPT ![p] = a]
       /\ IF a.op = "pod" /\ Len(a.ctrs) = 0
          THEN outcome' = [outcome EXCEPT ![p] = "err"] /\ UNCHANGED pc
          ELSE outcome' = [outcome EXCEPT ![p] = "none"] /\ pc' = [pc EXCEPT ![p] = "stat"]
  /\ spec' = [spec EXCEPT ![p] = << >>]
  /\ missed' = [missed EXCEPT ![p] = FALSE]
  /\ mine' = [mine EXCEPT ![p] = FALSE]
  /\ UNCHANGED <<pulls, ran, json, vms, outside>>

\* After the pull, or without one.
Ready(p) == IF ask[p].op = "pod" THEN "config" ELSE "boot"

\* The directory decides whether to pull.
StatRootfs(p) ==
  /\ At(p, "stat")
  /\ \/ dir[Image(p)] /\ Goto(p, Ready(p))
     \/ ~dir[Image(p)] /\ ~ask[p].offline /\ Goto(p, "pull")
     \/ ~dir[Image(p)] /\ ask[p].offline /\ Return(p, "err")
  /\ missed' = [missed EXCEPT ![p] = ask[p].op = "prepare" /\ ~dir[Image(p)]]
  /\ UNCHANGED <<spec, mine, pulls, ran, json, vms, outside>>

\* Mutant: Pull skips if the directory is there.
PullIfMissing(p) ==
  /\ At(p, "pull")
  /\ \A q \in Runners : pc[q] \in {"extract", "tear", "write"} => Image(q) # Image(p)
  /\ IF dir[Image(p)]
     THEN Goto(p, Ready(p)) /\ UNCHANGED <<dir, tree>>
     ELSE /\ Goto(p, "extract")
          /\ dir' = [dir EXCEPT ![Image(p)] = TRUE]
          /\ tree' = [tree EXCEPT ![Image(p)] = "part"]
  /\ UNCHANGED <<spec, missed, mine, conf, ran, json, vms, outside>>

\* Pull skips if the process spec is there, else it fills the entry.
Pull(p) ==
  /\ At(p, "pull")
  /\ \A q \in Runners : pc[q] \in {"extract", "tear", "write"} => Image(q) # Image(p)
  /\ IF conf[Image(p)] # None
     THEN Goto(p, Ready(p)) /\ UNCHANGED <<dir, tree>>
     ELSE /\ Goto(p, "extract")
          /\ dir' = [dir EXCEPT ![Image(p)] = TRUE]
          /\ tree' = [tree EXCEPT ![Image(p)] = "part"]
  /\ UNCHANGED <<spec, missed, mine, conf, ran, json, vms, outside>>

Extract(p) ==
  /\ At(p, "extract")
  /\ tree' = [tree EXCEPT ![Image(p)] = "whole"]
  /\ Goto(p, "tear")
  /\ UNCHANGED <<spec, missed, mine, dir, conf, ran, json, vms, outside>>

TearConfig(p) ==
  /\ At(p, "tear")
  /\ conf' = [conf EXCEPT ![Image(p)] = Torn]
  /\ Goto(p, "write")
  /\ UNCHANGED <<spec, missed, mine, dir, tree, ran, json, vms, outside>>

WriteConfig(p) ==
  /\ At(p, "write")
  /\ conf' = [conf EXCEPT ![Image(p)] = Image(p)]
  /\ Goto(p, Ready(p))
  /\ UNCHANGED <<spec, missed, mine, dir, tree, ran, json, vms, outside>>

\* Mutants: the file is not decoded; it is read only when its command is needed.
UnreadableAbsent(c) == conf[c.image] = None
UnreadableUnasked(c) == c.cmd = NoCmd /\ conf[c.image] \in {None, Torn}

\* containerFromImage: the process spec must be there and whole, also for a
\* container with a command of its own.  What Pull writes always has a command.
Unreadable(c) == conf[c.image] \in {None, Torn}
\* Mutant: every container gets the first one's image config.
ExpandedFirst(p) ==
  LET c == ask[p].ctrs[Len(spec[p]) + 1]
  IN  Append(spec[p], [image |-> c.image,
                       cmd |-> IF c.cmd = NoCmd THEN conf[ask[p].ctrs[1].image] ELSE c.cmd])
Expanded(p) ==
  LET c == ask[p].ctrs[Len(spec[p]) + 1]
  IN  Append(spec[p], [image |-> c.image, cmd |-> IF c.cmd = NoCmd THEN conf[c.image] ELSE c.cmd])

Distinct(m) == \A k, l \in 1..Len(m.ctrs) : m.ctrs[k].id = m.ctrs[l].id => k = l

\* The last container is followed by Validate, which refuses equal ids.
ReadConfig(p) ==
  /\ At(p, "config")
  /\ IF Unreadable(ask[p].ctrs[Len(spec[p]) + 1])
     THEN Return(p, "err") /\ UNCHANGED spec
     ELSE /\ spec' = [spec EXCEPT ![p] = Expanded(p)]
          /\ IF Len(spec[p]) + 1 < Len(ask[p].ctrs) THEN Goto(p, "stat")
             ELSE IF Distinct(ask[p]) THEN Goto(p, "truncate")
             ELSE Return(p, "err")
  /\ UNCHANGED <<missed, mine, pulls, ran, json, vms, outside>>

\* writePodJSON: os.WriteFile of the one file of this pod id, in place.
TruncateJSON(p) ==
  /\ At(p, "truncate")
  /\ json' = [json EXCEPT ![ask[p].id] = Torn]
  /\ mine' = [q \in Runners |->
       IF q = p THEN \A r \in Pods \ {p} : ask[r].id = ask[p].id => ~At(r, "json")
       ELSE mine[q] /\ ~(q \in Pods /\ ask[q].id = ask[p].id)]
  /\ vms' = [j \in Projects |-> [d \in Ids |->
       IF d = ask[p].id /\ vms[j][d] # None THEN [vms[j][d] EXCEPT !.steady = FALSE]
       ELSE vms[j][d]]]
  /\ Goto(p, "json")
  /\ UNCHANGED <<spec, missed, pulls, ran, outside>>

WriteJSON(p) ==
  /\ At(p, "json")
  /\ json' = [json EXCEPT ![ask[p].id] = spec[p]]
  /\ Goto(p, "locate")
  /\ UNCHANGED <<spec, missed, mine, pulls, ran, vms, outside>>

\* locatePodBoot: each from its variable or else the default path.
PodPath(f) == <<IF f \in env THEN "env" ELSE "default", f>>
LocateKernel(p) ==
  /\ At(p, "locate")
  /\ IF PodPath("kernel") \in shelf THEN Goto(p, "initrd") ELSE Return(p, "err")
  /\ UNCHANGED <<spec, missed, mine, pulls, ran, json, vms, outside>>
LocateInitrd(p) ==
  /\ At(p, "initrd")
  /\ IF PodPath("pod-initrd") \in shelf THEN Goto(p, "register") ELSE Return(p, "err")
  /\ UNCHANGED <<spec, missed, mine, pulls, ran, json, vms, outside>>

Record(p) ==
  [ask |-> ask[p], spec |-> spec[p], up |-> FALSE, guest |-> None, steady |-> mine[p],
   whole |-> \A k \in 1..Len(spec[p]) : tree[spec[p][k].image] = "whole"]

\* The agent clones the rootfs shares; the share with pod.json is not cloned.
RegisterMicroVM(p) ==
  /\ At(p, "register")
  /\ vms' = [vms EXCEPT ![ask[p].project][ask[p].id] = Record(p)]
  /\ Goto(p, "start")
  /\ UNCHANGED <<spec, missed, mine, pulls, ran, json, outside>>

\* The request names the VM and no project.
StartVM(p) ==
  /\ At(p, "start")
  /\ vms[Default][ask[p].id] # None
  /\ vms' = [vms EXCEPT ![Default][ask[p].id].up = TRUE]
  /\ Return(p, "ok")
  /\ UNCHANGED <<spec, missed, mine, pulls, ran, json, outside>>

\* locateBootArtefacts: what Prepare hands out, nothing when it finds nothing.
Bootable ==
  LET found(where, f) == <<where, f>> \in shelf /\ (where = "env" => f \in env)
      kernel(where, initrd) == [kernel |-> <<where, "kernel">>, initrd |-> initrd, iso |-> None]
      uki(where) == [kernel |-> None, initrd |-> None, iso |-> <<where, "iso">>]
  IN  CASE found("env", "kernel") ->
             kernel("env", IF "initrd" \in env THEN <<"env", "initrd">> ELSE None)
        [] ~found("env", "kernel") /\ found("default", "kernel") ->
             kernel("default", IF found("default", "initrd") THEN <<"default", "initrd">> ELSE None)
        [] OTHER ->
             IF found("env", "iso") THEN uki("env")
             ELSE IF found("default", "iso") THEN uki("default")
             ELSE [kernel |-> None, initrd |-> None, iso |-> None]

Prepared(p) ==
  /\ At(p, "boot")
  /\ Return(p, IF Bootable.kernel = None /\ Bootable.iso = None THEN "err" ELSE "ok")
  /\ UNCHANGED <<spec, missed, mine, pulls, ran, json, vms, outside>>

\* Mutant: the error of writing pod.json is dropped.
FailUnwritten(p) ==
  /\ ~At(p, "idle")
  /\ IF At(p, "json") THEN Goto(p, "locate") ELSE Return(p, "err")
  /\ UNCHANGED <<spec, missed, mine, pulls, ran, json, vms, outside>>

\* An error of the file system, the registry or the agent, or the process is
\* killed: what was done stays.
Fail(p) ==
  /\ ~At(p, "idle")
  /\ Return(p, "err")
  /\ UNCHANGED <<spec, missed, mine, pulls, ran, json, vms, outside>>

\* The agent acted on the request, but the 30 s deadline had passed.
FailLate(p) ==
  /\ \/ At(p, "register") /\ vms' = [vms EXCEPT ![ask[p].project][ask[p].id] = Record(p)]
     \/ /\ At(p, "start") /\ vms[Default][ask[p].id] # None
        /\ vms' = [vms EXCEPT ![Default][ask[p].id].up = TRUE]
  /\ Return(p, "err")
  /\ UNCHANGED <<spec, missed, mine, pulls, ran, json, outside>>

Step(p) ==
  \/ Call(p) \/ StatRootfs(p) \/ Pull(p) \/ Extract(p) \/ TearConfig(p) \/ WriteConfig(p)
  \/ ReadConfig(p) \/ TruncateJSON(p) \/ WriteJSON(p) \/ LocateKernel(p) \/ LocateInitrd(p)
  \/ RegisterMicroVM(p) \/ StartVM(p) \/ Prepared(p) \/ Fail(p) \/ FailLate(p)

-----------------------------------------------------------------------------
(* Outside RunPod.                                                         *)

\* A run of a single container with a command rewrites the entry's spec.
Override(i) ==
  /\ conf[i] \in Cmds \cup Images
  /\ \E c \in Cmds :
       /\ <<i, c>> \notin ran
       /\ conf' = [conf EXCEPT ![i] = c]
       /\ ran' = ran \cup {<<i, c>>}
  /\ UNCHANGED <<pc, outcome, ask, spec, missed, mine, dir, tree, json, vms, outside>>

\* The guest boots, for the first time or again, and reads pod.json.
GuestBoot(j, d) ==
  /\ vms[j][d] # None /\ vms[j][d].up
  /\ vms' = [vms EXCEPT ![j][d].guest = json[d]]
  /\ UNCHANGED <<pc, outcome, ask, spec, missed, mine, pulls, ran, json, outside>>

Next ==
  \/ \E p \in Runners : Step(p)
  \/ \E i \in Images : Override(i)
  \/ \E j \in Projects, d \in Ids : GuestBoot(j, d)

Spec == Init /\ [][Next]_vars

-----------------------------------------------------------------------------
(* What holds.                                                             *)

\* No pod boots a tree a pull did not finish: RunPod takes the directory for a
\* finished pull, but then reads the sentinel of every image (containerFromImage).
PodWhole == \A j \in Projects, d \in Ids : vms[j][d] # None => vms[j][d].whole

\* A container runs the command of its manifest, or else its own image's, or
\* one a run has written into that image's entry; never another container's.
OwnCommand ==
  \A j \in Projects, d \in Ids : vms[j][d] # None =>
    LET v == vms[j][d]
    IN  /\ Len(v.spec) = Len(v.ask.ctrs)
        /\ \A k \in 1..Len(v.spec) :
             LET c == v.ask.ctrs[k]
             IN  /\ v.spec[k].image = c.image
                 /\ IF c.cmd # NoCmd THEN v.spec[k].cmd = c.cmd
                    ELSE v.spec[k].cmd = c.image \/ <<c.image, v.spec[k].cmd>> \in ran

\* Until another call writes pods/<id>, a guest that boots, however often, reads
\* the whole of what its own RunPod wrote (writePodJSON before RegisterMicroVM).
OwnSpec ==
  \A j \in Projects, d \in Ids :
    vms[j][d] # None /\ vms[j][d].steady => vms[j][d].guest \in {None, vms[j][d].spec}

\* Prepare, which never looks at the sentinel, still hands out a finished tree when
\* its own look found no directory and it had to pull, whatever other pulls and
\* their failures came between the two (prepare.go:68-75).
PreparedWhole ==
  [][\A p \in Runners : At(p, "boot") /\ missed[p] /\ outcome'[p] = "ok" =>
       tree[Image(p)] = "whole"]_vars

\* When RunPod returns nil, the VM it has registered is up ("registers/starts the
\* micro-VM", pod.go:58), in the project the caller names ("the multitenant
\* namespace the new microVM lands in", Args.Project).
OkMeansUp ==
  [][\A p \in Pods : At(p, "start") /\ pc'[p] = "idle" /\ outcome'[p] = "ok" =>
       LET j == ask[p].project
           d == ask[p].id
       IN  vms'[j][d] # None /\ vms'[j][d].up]_vars
=============================================================================
