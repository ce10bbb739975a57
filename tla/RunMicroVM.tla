----------------------------- MODULE RunMicroVM -----------------------------
(***************************************************************************)
(* runMicroVM and applyRunOverrides (run.go): processes that boot VMs from *)
(* one cached image.  A run pulls when the directory rootfs is missing,    *)
(* rewrites the entry's process spec when it was given a command, and asks *)
(* the weft agent to register and start a VM on a clone of the entry.      *)
(* The pull is CacheEntry, which Pull implements; at most one runs at once *)
(* (overlapping pulls are Pull's subject).                                 *)
(***************************************************************************)

CONSTANTS
  Runners,      \* the processes that may call Run
  Names,        \* the VM names the runs use
  Cmds,         \* the commands a run may ask for
  NoCmd,        \* a run without a command
  Image,        \* the process spec derived from the image's config
  None,         \* no file, no VM
  Torn,         \* an empty spec file
  Asks,         \* the arguments: a VM name, a command, offline and remote
  Cached,       \* TRUE: the image was pulled beforehand
  Exclusive,    \* TRUE: runs never overlap
  MayCrash      \* TRUE: a run may be killed at any step

ASSUME AskAssumption ==
  Asks \subseteq [name : Names, cmd : Cmds \cup {NoCmd},
                  offline : BOOLEAN, remote : BOOLEAN]
ASSUME ValueAssumption ==
  /\ NoCmd \notin Cmds /\ Image \notin Cmds
  /\ None \notin Cmds \cup {Image, Torn} /\ Torn \notin Cmds \cup {Image}
ASSUME RunModeAssumption == {Cached, Exclusive, MayCrash} \subseteq BOOLEAN

VARIABLES
  pc,           \* pc[p]: the step of Run that p does next
  outcome,      \* outcome[p]: how the last run of p ended
  ask,          \* ask[p]: the arguments of p's run
  rootfs, tree, conf,   \* the cache entry, as in CacheEntry
  vms           \* vms[n]: the agent's record of the VM n, or None

entry == <<rootfs, tree, conf>>
vars == <<pc, outcome, ask, rootfs, tree, conf, vms>>

Entry == INSTANCE CacheEntry

PullStage == {"mkdir", "extract", "tear", "write"}
Stage == {"idle", "stat", "pull", "read", "rewrite", "locate", "register",
          "start"} \cup PullStage \cup {"truncate"}
Specs == Cmds \cup {Image, None, Torn}
Trees == {"none", "part", "whole"}
\* A VM record: the command its run asked for, and the spec and the tree that were
\* cloned for it.
VM == [asked : Cmds \cup {NoCmd}, cmd : Specs, tree : Trees, up : BOOLEAN]

TypeOK ==
  /\ pc \in [Runners -> Stage]
  /\ outcome \in [Runners -> {"none", "ok", "err", "crash"}]
  /\ ask \in [Runners -> Asks \cup {None}]
  /\ \A p \in Runners :
       /\ pc[p] # "idle" => ask[p] \in Asks
       /\ pc[p] \in {"truncate", "rewrite"} => ask[p].cmd \in Cmds
  /\ rootfs \in BOOLEAN /\ tree \in Trees /\ conf \in Specs
  /\ vms \in [Names -> VM \cup {None}]

Init ==
  /\ pc = [p \in Runners |-> "idle"]
  /\ outcome = [p \in Runners |-> "none"]
  /\ ask = [p \in Runners |-> None]
  /\ vms = [n \in Names |-> None]
  /\ IF Cached THEN rootfs = TRUE /\ tree = "whole" /\ conf = Image
               ELSE Entry!Init

-----------------------------------------------------------------------------
At(p, stage) == pc[p] = stage
Goto(p, stage) ==
  /\ pc' = [pc EXCEPT ![p] = stage]
  /\ UNCHANGED <<outcome, ask>>
Return(p, how) ==
  /\ pc' = [pc EXCEPT ![p] = "idle"]
  /\ outcome' = [outcome EXCEPT ![p] = how]
  /\ ask' = [ask EXCEPT ![p] = None]

Call(p, a) ==
  /\ At(p, "idle")
  /\ Exclusive => \A q \in Runners : pc[q] = "idle"
  /\ pc' = [pc EXCEPT ![p] = "stat"]
  /\ outcome' = [outcome EXCEPT ![p] = "none"]
  /\ ask' = [ask EXCEPT ![p] = a]
  /\ UNCHANGED <<entry, vms>>

\* A run for another host (HostUUID) skips the pull and the override.  Here
\* the directory decides, not the sentinel in it.
StatRootfs(p) ==
  /\ At(p, "stat")
  /\ \/ ask[p].remote /\ Goto(p, "locate")
     \/ ~ask[p].remote /\ rootfs /\ Goto(p, "read")
     \/ ~ask[p].remote /\ ~rootfs /\ ~ask[p].offline /\ Goto(p, "pull")
     \/ ~ask[p].remote /\ ~rootfs /\ ask[p].offline /\ Return(p, "err")
  /\ UNCHANGED <<entry, vms>>

\* Pull: skip if the spec file exists, else fill the entry.
Pull(p) ==
  /\ At(p, "pull")
  /\ \A q \in Runners : pc[q] \notin PullStage
  /\ IF conf # None THEN Goto(p, "read") ELSE Goto(p, "mkdir")
  /\ UNCHANGED <<entry, vms>>

PullStep(p) ==
  /\ UNCHANGED vms
  /\ \/ At(p, "mkdir") /\ Entry!Mkdir /\ Goto(p, "extract")
     \/ At(p, "extract") /\ Entry!Extract /\ tree' = "part" /\ Goto(p, "extract")
     \/ At(p, "extract") /\ Entry!Extract /\ tree' = "whole" /\ Goto(p, "tear")
     \/ At(p, "tear") /\ Entry!Tear /\ Goto(p, "write")
     \/ At(p, "write") /\ Entry!Write /\ Goto(p, "read")

\* Mutants: the command is ignored; the spec is written back without one.
ReadSpecIgnored(p) ==
  /\ At(p, "read")
  /\ Goto(p, "locate")
  /\ UNCHANGED <<entry, vms>>

ReadSpecAlways(p) ==
  /\ At(p, "read")
  /\ \/ conf \notin {None, Torn} /\ Goto(p, "truncate")
     \/ conf \in {None, Torn} /\ Return(p, "err")
  /\ UNCHANGED <<entry, vms>>

\* applyRunOverrides: without a command it returns at once; with one it reads
\* and decodes the shared spec, which must be there and whole ...
ReadSpec(p) ==
  /\ At(p, "read")
  /\ \/ ask[p].cmd = NoCmd /\ Goto(p, "locate")
     \/ ask[p].cmd # NoCmd /\ conf \notin {None, Torn} /\ Goto(p, "truncate")
     \/ ask[p].cmd # NoCmd /\ conf \in {None, Torn} /\ Return(p, "err")
  /\ UNCHANGED <<entry, vms>>

\* ... and writes it back in place with its own command.
TruncateSpec(p) ==
  /\ At(p, "truncate")
  /\ conf' = Torn
  /\ Goto(p, "rewrite")
  /\ UNCHANGED <<rootfs, tree, vms>>

\* Mutant: the decoded spec is written back, not the updated one.
RewriteSpecOld(p) ==
  /\ At(p, "rewrite")
  /\ conf' = Image
  /\ Goto(p, "locate")
  /\ UNCHANGED <<rootfs, tree, vms>>

RewriteSpec(p) ==
  /\ At(p, "rewrite")
  /\ conf' = ask[p].cmd
  /\ Goto(p, "locate")
  /\ UNCHANGED <<rootfs, tree, vms>>

\* locateBootArtefacts, the request with its mounts, and the dial.
Locate(p) ==
  /\ At(p, "locate")
  /\ Goto(p, "register")
  /\ UNCHANGED <<entry, vms>>

\* Mutant: the record's fields are swapped.
RecordSwapped(p) ==
  [asked |-> ask[p].cmd, up |-> FALSE,
   cmd |-> IF ask[p].remote THEN "whole" ELSE tree,
   tree |-> IF ask[p].remote THEN Image ELSE conf]

\* The agent's record: a clone of the entry, of this host's or of the other
\* one's, where the caller has seen to a finished pull.
Record(p) ==
  [asked |-> ask[p].cmd, up |-> FALSE,
   cmd |-> IF ask[p].remote THEN Image ELSE conf,
   tree |-> IF ask[p].remote THEN "whole" ELSE tree]

\* The agent clones the share for the VM.  A name it already has is refused
\* or overwritten: Fail, or the new record here.
RegisterMicroVM(p) ==
  /\ At(p, "register")
  /\ vms' = [vms EXCEPT ![ask[p].name] = Record(p)]
  /\ Goto(p, "start")
  /\ UNCHANGED entry

StartVM(p) ==
  /\ At(p, "start")
  /\ vms[ask[p].name] # None
  /\ vms' = [vms EXCEPT ![ask[p].name].up = TRUE]
  /\ Return(p, "ok")
  /\ UNCHANGED entry

\* Any step but the first may fail; nothing done so far is undone.  The last
\* RPC may fail after the agent has acted on it: the 30 s deadline passed.
Fail(p) ==
  /\ pc[p] \notin {"idle", "stat", "start"}
  /\ Return(p, "err")
  /\ UNCHANGED <<entry, vms>>

FailRegistered(p) ==
  /\ At(p, "register")
  /\ vms' = [vms EXCEPT ![ask[p].name] = Record(p)]
  /\ Return(p, "err")
  /\ UNCHANGED entry

FailStart(p) ==
  /\ At(p, "start")
  /\ \/ UNCHANGED vms
     \/ /\ vms[ask[p].name] # None
        /\ vms' = [vms EXCEPT ![ask[p].name].up = TRUE]
  /\ Return(p, "err")
  /\ UNCHANGED entry

Crash(p) ==
  /\ MayCrash
  /\ pc[p] # "idle"
  /\ Return(p, "crash")
  /\ UNCHANGED <<entry, vms>>

\* Outside the code: another client deletes a VM.
DeleteVM(n) ==
  /\ vms[n] # None
  /\ vms' = [vms EXCEPT ![n] = None]
  /\ UNCHANGED <<pc, outcome, ask, entry>>

Step(p) ==
  \/ StatRootfs(p) \/ Pull(p) \/ PullStep(p) \/ ReadSpec(p) \/ TruncateSpec(p)
  \/ RewriteSpec(p) \/ Locate(p) \/ RegisterMicroVM(p) \/ StartVM(p)
  \/ Fail(p) \/ FailRegistered(p) \/ FailStart(p) \/ Crash(p)

Next ==
  \/ \E p \in Runners : Step(p) \/ \E a \in Asks : Call(p, a)
  \/ \E n \in Names : DeleteVM(n)

Spec == Init /\ [][Next]_vars

-----------------------------------------------------------------------------
(* What must hold.                                                         *)

\* A VM's guest runs what its run asked for: the command, or the image's own
\* when none was given ("picks up exactly what the operator asked for", "the
\* image-derived config stands", applyRunOverrides).
AsAsked ==
  \A n \in Names : vms[n] # None =>
    vms[n].cmd = IF vms[n].asked = NoCmd THEN Image ELSE vms[n].asked

\* No VM boots on a tree that some pull did not finish ("Verify the image is
\* pulled", runMicroVM).
BootsWhole == \A n \in Names : vms[n] # None => vms[n].tree = "whole"

\* The shared cache entry stays untouched however many runs boot from it (the
\* comment on Clone in runMicroVM).
CacheUntouched == [][conf = Image => conf' = Image]_vars
=============================================================================
