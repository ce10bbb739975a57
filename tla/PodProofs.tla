----------------------------- MODULE PodProofs -----------------------------
(***************************************************************************)
(* RunPod for any number of callers, manifests, images and projects: each  *)
(* container has its own image's command, no VM has a tree that a pull did *)
(* not finish, a guest reads the pod.json of its own call, and Prepare     *)
(* hands out a whole tree when it had to pull.                             *)
(***************************************************************************)
EXTENDS Pod, TLAPS

Looking == {"stat", "pull", "extract", "tear", "write", "config"}
Built == {"truncate", "json", "locate", "initrd", "register", "start"}

\* What a call is for, and how far it has expanded its manifest.
Asked(p) ==
  /\ pc[p] # "idle" => ask[p] \in Requests
  /\ pc[p] \in Built \cup {"config"} => ask[p].op = "pod"
  /\ pc[p] = "boot" => ask[p].op # "pod"
  /\ pc[p] \in Looking /\ ask[p].op = "pod" => Len(spec[p]) < Len(ask[p].ctrs)
  /\ pc[p] \in Built => Len(spec[p]) = Len(ask[p].ctrs)

TypeInv == TypeOK /\ \A p \in Runners : Asked(p)

LEMMA GotoType ==
  ASSUME TypeOK, NEW p \in Runners, NEW s \in Stage, Goto(p, s)
  PROVE  /\ pc' \in [Runners -> Stage]
         /\ outcome' \in [Runners -> {"none", "ok", "err"}]
         /\ ask' \in [Runners -> Requests \cup {None}]
BY DEF TypeOK, Goto

LEMMA ReturnType ==
  ASSUME TypeOK, NEW p \in Runners, NEW how \in {"ok", "err"}, Return(p, how)
  PROVE  /\ pc' \in [Runners -> Stage]
         /\ outcome' \in [Runners -> {"none", "ok", "err"}]
         /\ ask' \in [Runners -> Requests \cup {None}]
BY DEF TypeOK, Return, Stage

\* Another call's step leaves what a call is for.
LEMMA AskedGoto ==
  ASSUME TypeInv, NEW p \in Runners, NEW s \in Stage, Goto(p, s),
         \A q \in Runners \ {p} : spec'[q] = spec[q],
         s # "idle" => ask[p] \in Requests,
         s \in Built \cup {"config"} => ask[p].op = "pod",
         s = "boot" => ask[p].op # "pod",
         s \in Looking /\ ask[p].op = "pod" => Len(spec'[p]) < Len(ask[p].ctrs),
         s \in Built => Len(spec'[p]) = Len(ask[p].ctrs)
  PROVE  \A q \in Runners : Asked(q)'
<1> SUFFICES ASSUME NEW q \in Runners PROVE Asked(q)'
  OBVIOUS
<1>1. Asked(q) /\ ask' = ask /\ pc' = [pc EXCEPT ![p] = s] /\ pc \in [Runners -> Stage]
  BY DEF TypeInv, TypeOK, Goto
<1>2. CASE q = p
  BY <1>1, <1>2 DEF Asked
<1>3. CASE q # p
  BY <1>1, <1>3 DEF Asked
<1>4. QED
  BY <1>2, <1>3

LEMMA AskedReturn ==
  ASSUME TypeInv, NEW p \in Runners, NEW how, Return(p, how),
         \A q \in Runners \ {p} : spec'[q] = spec[q]
  PROVE  \A q \in Runners : Asked(q)'
<1> SUFFICES ASSUME NEW q \in Runners PROVE Asked(q)'
  OBVIOUS
<1>1. Asked(q) /\ ask' = ask /\ pc' = [pc EXCEPT ![p] = "idle"] /\ pc \in [Runners -> Stage]
  BY DEF TypeInv, TypeOK, Return
<1>2. CASE q = p
  BY <1>1, <1>2 DEF Asked, Built, Looking
<1>3. CASE q # p
  BY <1>1, <1>3 DEF Asked
<1>4. QED
  BY <1>2, <1>3

LEMMA AskedSame ==
  ASSUME TypeInv, UNCHANGED <<pc, ask, spec>>
  PROVE  \A q \in Runners : Asked(q)'
BY DEF TypeInv, Asked

\* The image a call is at, and the container it is for.
LEMMA ImageType ==
  ASSUME TypeInv, NEW p \in Runners, pc[p] \in Looking
  PROVE  /\ Image(p) \in Images
         /\ ask[p].op = "pod" =>
              /\ ask[p] \in Manifests
              /\ Len(spec[p]) + 1 \in 1..Len(ask[p].ctrs)
              /\ ask[p].ctrs[Len(spec[p]) + 1].cmd \in Cmds \cup {NoCmd}
<1>1. Asked(p) /\ spec[p] \in Containers
  BY DEF TypeInv, TypeOK
<1>2. ask[p] \in Requests
  BY <1>1 DEF Asked, Looking
<1>3. CASE ask[p].op = "pod"
  <2>1. ask[p] \in Manifests
    BY <1>2, <1>3 DEF Manifests
  <2>2. Len(spec[p]) + 1 \in 1..Len(ask[p].ctrs)
    BY <1>1, <1>3, <2>1, RequestAssumption DEF Asked, Containers
  <2>3. QED
    BY <1>3, <2>1, <2>2, RequestAssumption DEF Image
<1>4. CASE ask[p].op # "pod"
  BY <1>2, <1>4, RequestAssumption DEF Image, Manifests
<1>5. QED
  BY <1>3, <1>4

LEMMA PodType ==
  ASSUME TypeInv, NEW p \in Runners, pc[p] \in Built \cup {"config"}
  PROVE  ask[p] \in Manifests /\ ask[p].id \in Ids /\ ask[p].project \in Projects
<1>1. Asked(p)
  BY DEF TypeInv
<1>2. ask[p] \in Manifests
  BY <1>1 DEF Asked, Manifests, Built
<1>3. QED
  BY <1>2, RequestAssumption

LEMMA RecordType ==
  ASSUME TypeInv, NEW p \in Runners, pc[p] \in Built
  PROVE  Record(p) \in VM
BY PodType DEF TypeInv, TypeOK, Record, VM

LEMMA VmType ==
  ASSUME TypeOK, NEW j \in Projects, NEW d \in Ids, NEW v \in VM,
         vms' = [vms EXCEPT ![j][d] = v]
  PROVE  vms' \in [Projects -> [Ids -> VM \cup {None}]]
BY DEF TypeOK

LEMMA UpType ==
  ASSUME TypeOK, NEW j \in Projects, NEW d \in Ids, vms[j][d] # None
  PROVE  /\ vms[j][d] \in VM
         /\ [vms[j][d] EXCEPT !.up = TRUE] \in VM
         /\ [vms[j][d] EXCEPT !.steady = FALSE] \in VM
         /\ [vms[j][d] EXCEPT !.guest = json[d]] \in VM
<1>1. vms[j][d] \in VM
  BY DEF TypeOK
<1>2. json[d] \in Containers \cup {None, Torn}
  BY DEF TypeOK
<1>3. QED
  BY <1>1, <1>2 DEF VM

LEMMA ExpandedType ==
  ASSUME TypeInv, NEW p \in Runners, pc[p] = "config", conf[Image(p)] \notin {None, Torn}
  PROVE  /\ Expanded(p) \in Containers
         /\ Len(Expanded(p)) = Len(spec[p]) + 1
<1>1. ask[p].op = "pod"
  BY DEF TypeInv, Asked
<1>2. ask[p] \in Manifests /\ Image(p) \in Images /\ Image(p) = ask[p].ctrs[Len(spec[p]) + 1].image
      /\ ask[p].ctrs[Len(spec[p]) + 1].cmd \in Cmds \cup {NoCmd}
  BY <1>1, ImageType DEF Looking, Image
<1>3. conf[Image(p)] \in Cmds \cup Images
  BY <1>2 DEF TypeInv, TypeOK
<1>4. spec[p] \in Seq(Container)
  BY DEF TypeInv, TypeOK, Containers
<1>5. [image |-> Image(p),
       cmd |-> IF ask[p].ctrs[Len(spec[p]) + 1].cmd = NoCmd THEN conf[Image(p)]
               ELSE ask[p].ctrs[Len(spec[p]) + 1].cmd] \in Container
  BY <1>2, <1>3 DEF Container
<1>6. QED
  BY <1>2, <1>4, <1>5 DEF Expanded, Containers

LEMMA TypeInit == Init => TypeInv
<1> SUFFICES ASSUME Init PROVE TypeInv
  OBVIOUS
<1>1. << >> \in Containers
  BY DEF Containers
<1>2. TypeOK
  BY <1>1, BootAssumption DEF Init, TypeOK, Stage
<1>3. QED
  BY <1>2 DEF Init, TypeInv, Asked, Built, Looking

\* A step of a call keeps the types; the calls are told apart by their stage.
LEMMA TypeEarly ==
  ASSUME TypeInv, NEW p \in Runners,
         Call(p) \/ StatRootfs(p) \/ Pull(p) \/ Extract(p) \/ TearConfig(p) \/ WriteConfig(p)
  PROVE  TypeInv'
<1> USE DEF At
<1>t. TypeOK /\ \A q \in Runners : Asked(q)
  BY DEF TypeInv
<1>1. CASE Call(p)
  <2>1. PICK a \in Requests :
          /\ ask' = [ask EXCEPT ![p] = a]
          /\ IF a.op = "pod" /\ Len(a.ctrs) = 0
             THEN outcome' = [outcome EXCEPT ![p] = "err"] /\ UNCHANGED pc
             ELSE outcome' = [outcome EXCEPT ![p] = "none"] /\ pc' = [pc EXCEPT ![p] = "stat"]
    BY <1>1 DEF Call
  <2>2. /\ spec' = [spec EXCEPT ![p] = << >>]
        /\ << >> \in Containers /\ Len(<< >>) = 0
    BY <1>1 DEF Call, Containers
  <2>3. TypeOK'
    BY <1>1, <1>t, <2>1, <2>2 DEF Call, TypeOK, Stage, pulls, outside
  <2>4. ASSUME NEW q \in Runners PROVE Asked(q)'
    <3>1. CASE q # p
      BY <1>t, <2>1, <2>2, <3>1 DEF TypeOK, Asked
    <3>2. CASE q = p
      <4>1. a.op = "pod" => Len(a.ctrs) \in Nat
        BY RequestAssumption DEF Manifests
      <4>2. QED
        BY <1>1, <1>t, <2>1, <2>2, <3>2, <4>1 DEF Call, TypeOK, Asked, Built, Looking
    <3>3. QED
      BY <3>1, <3>2
  <2>5. QED
    BY <2>3, <2>4 DEF TypeInv
<1>2. CASE ~Call(p)
  <2>1. pc[p] \in Looking
    BY <1>2 DEF StatRootfs, Pull, Extract, TearConfig, WriteConfig, Looking
  <2>2. Image(p) \in Images /\ ask[p] \in Requests
    BY <1>t, <2>1, ImageType DEF Asked, Looking
  <2>3. \/ Goto(p, "pull") \/ Goto(p, Ready(p)) \/ Goto(p, "extract") \/ Goto(p, "tear")
        \/ Goto(p, "write") \/ Return(p, "err")
    BY <1>2 DEF StatRootfs, Pull, Extract, TearConfig, WriteConfig
  <2>4. Ready(p) \in Stage
    BY DEF Ready, Stage
  <2>5. spec' = spec
    BY <1>2 DEF StatRootfs, Pull, Extract, TearConfig, WriteConfig
  <2>6. \A q \in Runners : Asked(q)'
    <3>1. CASE Return(p, "err")
      BY <2>5, <3>1, AskedReturn
    <3>2. ASSUME NEW s \in {"pull", "extract", "tear", "write"}, Goto(p, s)
          PROVE  \A q \in Runners : Asked(q)'
      <4>1. s \in Stage /\ s \notin Built \cup {"config", "boot"} /\ s \in Looking
        BY DEF Stage, Built, Looking
      <4>2. ask[p].op = "pod" => Len(spec'[p]) < Len(ask[p].ctrs)
        BY <1>t, <2>1, <2>5 DEF Asked
      <4>3. QED
        BY <2>2, <2>5, <3>2, <4>1, <4>2, AskedGoto
    <3>3. CASE Goto(p, Ready(p))
      <4>1. Ready(p) \notin Built /\ Ready(p) \in {"config", "boot"}
        BY DEF Ready, Built
      <4>2. Ready(p) \in Looking /\ ask[p].op = "pod" => Len(spec'[p]) < Len(ask[p].ctrs)
        BY <1>t, <2>1, <2>5 DEF Asked
      <4>3. (Ready(p) = "boot" <=> ask[p].op # "pod") /\ (Ready(p) = "config" <=> ask[p].op = "pod")
        BY DEF Ready
      <4>4. QED
        BY <2>2, <2>4, <2>5, <3>3, <4>1, <4>2, <4>3, AskedGoto
    <3>4. QED
      BY <2>3, <3>1, <3>2, <3>3
  <2>7. /\ pc' \in [Runners -> Stage] /\ outcome' \in [Runners -> {"none", "ok", "err"}]
        /\ ask' \in [Runners -> Requests \cup {None}]
    <3>1. {"pull", "extract", "tear", "write"} \subseteq Stage
      BY DEF Stage
    <3>2. QED
      BY <1>t, <2>3, <2>4, <3>1, GotoType, ReturnType
  <2>8. TypeOK'
    <3>1. /\ missed' \in [Runners -> BOOLEAN] /\ dir' \in [Images -> BOOLEAN]
          /\ tree' \in [Images -> {"none", "part", "whole"}]
          /\ conf' \in [Images -> Cmds \cup Images \cup {None, Torn}]
          /\ UNCHANGED <<mine, ran, json, vms, shelf, env>>
      BY <1>2, <1>t, <2>2 DEF StatRootfs, Pull, Extract, TearConfig, WriteConfig, TypeOK, pulls, outside
    <3>2. QED
      BY <1>t, <2>5, <2>7, <3>1 DEF TypeOK
  <2>9. QED
    BY <2>6, <2>8 DEF TypeInv
<1>3. QED
  BY <1>1, <1>2

LEMMA TypeLate ==
  ASSUME TypeInv, NEW p \in Runners,
         \/ ReadConfig(p) \/ TruncateJSON(p) \/ WriteJSON(p) \/ LocateKernel(p) \/ LocateInitrd(p)
         \/ RegisterMicroVM(p) \/ StartVM(p) \/ Prepared(p) \/ Fail(p) \/ FailLate(p)
  PROVE  TypeInv'
<1> USE DEF At
<1>t. TypeOK /\ \A q \in Runners : Asked(q)
  BY DEF TypeInv
<1>0. {"truncate", "json", "locate", "initrd", "register", "start", "stat"} \subseteq Stage
  BY DEF Stage
<1>1. CASE ReadConfig(p)
  <2>1. pc[p] = "config" /\ ask[p].op = "pod" /\ ask[p] \in Manifests /\ ask[p] \in Requests
    BY <1>1, <1>t, PodType DEF ReadConfig, Asked
  <2>2. UNCHANGED <<missed, mine, dir, tree, conf, ran, json, vms, shelf, env>>
    BY <1>1 DEF ReadConfig, pulls, outside
  <2>3. CASE conf[Image(p)] \in {None, Torn}
    <3>1. Return(p, "err") /\ UNCHANGED spec
      BY <1>1, <2>1, <2>3 DEF ReadConfig, Unreadable, Image
    <3>2. QED
      BY <1>t, <2>2, <3>1, AskedReturn, ReturnType DEF TypeInv, TypeOK
  <2>4. CASE conf[Image(p)] \notin {None, Torn}
    <3>1. spec' = [spec EXCEPT ![p] = Expanded(p)]
      BY <1>1, <2>1, <2>4 DEF ReadConfig, Unreadable, Image
    <3>2. Expanded(p) \in Containers /\ Len(Expanded(p)) = Len(spec[p]) + 1
      BY <2>1, <2>4, ExpandedType
    <3>3. Len(spec[p]) \in Nat /\ Len(ask[p].ctrs) \in Nat /\ Len(spec[p]) < Len(ask[p].ctrs)
      BY <1>t, <2>1, RequestAssumption DEF TypeOK, Containers, Asked, Looking
    <3>4. spec'[p] = Expanded(p) /\ spec' \in [Runners -> Containers]
          /\ \A q \in Runners \ {p} : spec'[q] = spec[q]
      BY <1>t, <3>1, <3>2 DEF TypeOK
    <3>5. CASE Len(spec[p]) + 1 < Len(ask[p].ctrs)
      <4>1. Goto(p, "stat")
        BY <1>1, <2>1, <2>4, <3>5 DEF ReadConfig, Unreadable, Image
      <4>2. \A q \in Runners : Asked(q)'
        BY <1>0, <2>1, <3>2, <3>3, <3>4, <3>5, <4>1, AskedGoto DEF Built, Looking
      <4>3. QED
        BY <1>0, <1>t, <2>2, <3>4, <4>1, <4>2, GotoType DEF TypeInv, TypeOK
    <3>6. CASE ~(Len(spec[p]) + 1 < Len(ask[p].ctrs)) /\ Distinct(ask[p])
      <4>1. Goto(p, "truncate")
        BY <1>1, <2>1, <2>4, <3>6 DEF ReadConfig, Unreadable, Image
      <4>2. \A q \in Runners : Asked(q)'
        BY <1>0, <2>1, <3>2, <3>3, <3>4, <3>6, <4>1, AskedGoto DEF Built, Looking
      <4>3. QED
        BY <1>0, <1>t, <2>2, <3>4, <4>1, <4>2, GotoType DEF TypeInv, TypeOK
    <3>7. CASE ~(Len(spec[p]) + 1 < Len(ask[p].ctrs)) /\ ~Distinct(ask[p])
      <4>1. Return(p, "err")
        BY <1>1, <2>1, <2>4, <3>7 DEF ReadConfig, Unreadable, Image
      <4>2. QED
        BY <1>t, <2>2, <3>4, <4>1, AskedReturn, ReturnType DEF TypeInv, TypeOK
    <3>8. QED
      BY <3>5, <3>6, <3>7
  <2>5. QED
    BY <2>3, <2>4
<1>2. CASE ~ReadConfig(p)
  <2>1. spec' = spec /\ UNCHANGED <<missed, dir, tree, conf, ran, shelf, env>>
    BY <1>2 DEF TruncateJSON, WriteJSON, LocateKernel, LocateInitrd, RegisterMicroVM, StartVM,
                Prepared, Fail, FailLate, pulls, outside
  <2>2. \/ Return(p, "err") \/ Return(p, "ok")
        \/ \E s \in {"json", "locate", "initrd", "register", "start"} :
             Goto(p, s) /\ pc[p] \in Built
    BY <1>2 DEF TruncateJSON, WriteJSON, LocateKernel, LocateInitrd, RegisterMicroVM, StartVM,
                Prepared, Fail, FailLate, Built
  <2>3. (\A q \in Runners : Asked(q)') /\ pc' \in [Runners -> Stage]
        /\ outcome' \in [Runners -> {"none", "ok", "err"}] /\ ask' \in [Runners -> Requests \cup {None}]
    <3>1. CASE Return(p, "err") \/ Return(p, "ok")
      BY <1>t, <2>1, <3>1, AskedReturn, ReturnType
    <3>2. ASSUME NEW s \in {"json", "locate", "initrd", "register", "start"},
                 Goto(p, s), pc[p] \in Built
          PROVE  \A q \in Runners : Asked(q)'
      <4>1. s \in Stage /\ s \in Built /\ s \notin Looking /\ s # "boot"
        BY DEF Stage, Built, Looking
      <4>2. ask[p] \in Requests /\ ask[p].op = "pod" /\ Len(spec[p]) = Len(ask[p].ctrs)
        BY <1>t, <3>2 DEF Asked, Built
      <4>3. QED
        BY <2>1, <3>2, <4>1, <4>2, AskedGoto
    <3>3. QED
      BY <1>t, <1>0, <2>2, <3>1, <3>2, GotoType
  <2>4. /\ mine' \in [Runners -> BOOLEAN] /\ json' \in [Ids -> Containers \cup {None, Torn}]
        /\ vms' \in [Projects -> [Ids -> VM \cup {None}]]
    <3>1. CASE TruncateJSON(p)
      <4>1. ask[p].id \in Ids
        BY <3>1, PodType DEF TruncateJSON, Built
      <4>2. mine' \in [Runners -> BOOLEAN] /\ json' \in [Ids -> Containers \cup {None, Torn}]
        BY <1>t, <3>1, <4>1 DEF TruncateJSON, TypeOK
      <4>3. vms' = [j \in Projects |-> [d \in Ids |->
              IF d = ask[p].id /\ vms[j][d] # None THEN [vms[j][d] EXCEPT !.steady = FALSE]
              ELSE vms[j][d]]]
        BY <3>1 DEF TruncateJSON
      <4>4. \A j \in Projects, d \in Ids :
              vms[j][d] \in VM \cup {None}
              /\ (vms[j][d] # None => [vms[j][d] EXCEPT !.steady = FALSE] \in VM)
        BY <1>t, UpType DEF TypeOK
      <4>5. QED
        BY <4>2, <4>3, <4>4
    <3>2. CASE WriteJSON(p)
      <4>1. ask[p].id \in Ids /\ spec[p] \in Containers
        BY <1>t, <3>2, PodType DEF WriteJSON, Built, TypeOK
      <4>2. QED
        BY <1>t, <3>2, <4>1 DEF WriteJSON, TypeOK
    <3>3. CASE LocateKernel(p) \/ LocateInitrd(p) \/ Prepared(p) \/ Fail(p)
      BY <1>t, <3>3 DEF LocateKernel, LocateInitrd, Prepared, Fail, TypeOK
    <3>4. CASE RegisterMicroVM(p) \/ StartVM(p) \/ FailLate(p)
      <4>1. pc[p] \in Built /\ UNCHANGED <<mine, json>>
        BY <3>4 DEF RegisterMicroVM, StartVM, FailLate, Built
      <4>2. ask[p].id \in Ids /\ ask[p].project \in Projects /\ Record(p) \in VM
        BY <4>1, PodType, RecordType
      <4>3. \/ vms' = [vms EXCEPT ![ask[p].project][ask[p].id] = Record(p)]
            \/ /\ vms[Default][ask[p].id] # None
               /\ vms' = [vms EXCEPT ![Default][ask[p].id] = [@ EXCEPT !.up = TRUE]]
        BY <3>4 DEF RegisterMicroVM, StartVM, FailLate
      <4>4. CASE vms' = [vms EXCEPT ![ask[p].project][ask[p].id] = Record(p)]
        BY <1>t, <4>1, <4>2, <4>4, VmType DEF TypeOK
      <4>5. CASE /\ vms[Default][ask[p].id] # None
                 /\ vms' = [vms EXCEPT ![Default][ask[p].id] = [@ EXCEPT !.up = TRUE]]
        BY <1>t, <4>1, <4>2, <4>5, UpType, VmType, RequestAssumption DEF TypeOK
      <4>6. QED
        BY <4>3, <4>4, <4>5
    <3>5. QED
      BY <1>2, <3>1, <3>2, <3>3, <3>4
  <2>5. QED
    BY <1>t, <2>1, <2>3, <2>4 DEF TypeInv, TypeOK
<1>3. QED
  BY <1>1, <1>2

LEMMA TypeStep == TypeInv /\ [Next]_vars => TypeInv'
<1> SUFFICES ASSUME TypeInv, [Next]_vars PROVE TypeInv'
  OBVIOUS
<1>t. TypeOK
  BY DEF TypeInv
<1>1. ASSUME NEW p \in Runners, Step(p) PROVE TypeInv'
  BY <1>1, TypeEarly, TypeLate DEF Step
<1>2. ASSUME NEW i \in Images, Override(i) PROVE TypeInv'
  <2>1. UNCHANGED <<pc, outcome, ask, spec, missed, mine, dir, tree, json, vms, shelf, env>>
    BY <1>2 DEF Override, outside
  <2>2. conf' \in [Images -> Cmds \cup Images \cup {None, Torn}] /\ ran' \subseteq Images \X Cmds
    BY <1>2, <1>t DEF Override, TypeOK
  <2>3. \A q \in Runners : Asked(q)'
    BY <2>1, AskedSame
  <2>4. QED
    BY <1>t, <2>1, <2>2, <2>3 DEF TypeInv, TypeOK
<1>3. ASSUME NEW j \in Projects, NEW d \in Ids, GuestBoot(j, d) PROVE TypeInv'
  <2>1. UNCHANGED <<pc, outcome, ask, spec, missed, mine, dir, tree, conf, ran, json, shelf, env>>
    BY <1>3 DEF GuestBoot, pulls, outside
  <2>2. vms[j][d] # None /\ vms' = [vms EXCEPT ![j][d] = [@ EXCEPT !.guest = json[d]]]
    BY <1>3 DEF GuestBoot
  <2>3. vms' \in [Projects -> [Ids -> VM \cup {None}]]
    BY <1>t, <2>2, UpType, VmType DEF TypeOK
  <2>4. \A q \in Runners : Asked(q)'
    BY <2>1, AskedSame
  <2>5. QED
    BY <1>t, <2>1, <2>3, <2>4 DEF TypeInv, TypeOK
<1>4. CASE UNCHANGED vars
  <2>1. \A q \in Runners : Asked(q)'
    BY <1>4, AskedSame DEF vars
  <2>2. QED
    BY <1>t, <1>4, <2>1 DEF vars, pulls, TypeInv, TypeOK
<1>5. QED
  BY <1>1, <1>2, <1>3, <1>4 DEF Next

\* Every variable keeps its type.
THEOREM TypeCorrect == Spec => []TypeOK
<1>1. TypeInv => TypeOK
  BY DEF TypeInv
<1>2. QED
  BY <1>1, TypeInit, TypeStep, PTL DEF Spec

-----------------------------------------------------------------------------
(* The cache entries.                                                      *)

Filling == {"extract", "tear", "write"}

\* One pull at a time is in an entry, and the process spec appears last in it.
Entries ==
  /\ \A p, q \in Runners : pc[p] \in Filling /\ pc[q] \in Filling /\ Image(p) = Image(q) => p = q
  /\ \A p \in Runners :
       /\ pc[p] = "extract" => conf[Image(p)] = None
       /\ pc[p] \in {"tear", "write"} => tree[Image(p)] = "whole"
  /\ \A i \in Images :
       /\ conf[i] # None => tree[i] = "whole"
       /\ conf[i] \in Images => conf[i] = i
       /\ conf[i] \in Cmds => <<i, conf[i]>> \in ran

LEMMA EntriesStep == TypeInv /\ Entries /\ [Next]_vars => Entries' /\ (\A i \in Images : conf[i] # None => conf'[i] # None) /\ ran \subseteq ran'
<1> SUFFICES ASSUME TypeInv, Entries, [Next]_vars
             PROVE  /\ Entries' /\ (\A i \in Images : conf[i] # None => conf'[i] # None)
                    /\ ran \subseteq ran'
  OBVIOUS
<1> USE CmdAssumption DEF At
<1>t. TypeOK
  BY DEF TypeInv
<1>n. \A q \in Runners : pc[q] \in Filling => Image(q) \in Images
  BY ImageType DEF Filling, Looking
<1>1. ASSUME NEW p \in Runners, Pull(p) \/ Extract(p) \/ TearConfig(p) \/ WriteConfig(p)
      PROVE  Entries' /\ (\A i \in Images : conf[i] # None => conf'[i] # None) /\ ran \subseteq ran'
  <2>1. Image(p) \in Images /\ \A q \in Runners : Image(q)' = Image(q)
    BY <1>1, ImageType DEF Pull, Extract, TearConfig, WriteConfig, Looking, Goto, Image
  <2>2. \A q \in Runners : q # p => pc'[q] = pc[q]
    BY <1>1, <1>t DEF Pull, Extract, TearConfig, WriteConfig, Goto, TypeOK
  <2>3. CASE Pull(p)
    BY <1>t, <1>n, <2>1, <2>2, <2>3 DEF Pull, Entries, TypeOK, Filling, Goto, Ready
  <2>4. CASE Extract(p)
    BY <1>t, <1>n, <2>1, <2>2, <2>4 DEF Extract, Entries, TypeOK, Filling, Goto
  <2>5. CASE TearConfig(p)
    BY <1>t, <1>n, <2>1, <2>2, <2>5 DEF TearConfig, Entries, TypeOK, Filling, Goto
  <2>6. CASE WriteConfig(p)
    BY <1>t, <1>n, <2>1, <2>2, <2>6 DEF WriteConfig, Entries, TypeOK, Filling, Goto, Ready
  <2>7. QED
    BY <1>1, <2>3, <2>4, <2>5, <2>6
<1>2. ASSUME NEW p \in Runners, Step(p), ~(Pull(p) \/ Extract(p) \/ TearConfig(p) \/ WriteConfig(p))
      PROVE  Entries' /\ (\A i \in Images : conf[i] # None => conf'[i] # None) /\ ran \subseteq ran'
  <2>1. UNCHANGED <<dir, tree, conf, ran>>
    BY <1>2 DEF Step, Call, StatRootfs, ReadConfig, TruncateJSON, WriteJSON, LocateKernel,
                LocateInitrd, RegisterMicroVM, StartVM, Prepared, Fail, FailLate, pulls, outside
  <2>2. \A q \in Runners : pc'[q] \in Filling => pc[q] = pc'[q] /\ Image(q)' = Image(q)
    <3>1. \/ UNCHANGED pc /\ pc[p] = "idle"
          \/ \E s \in {"idle", "stat", "config", "boot", "pull", "truncate", "json", "locate",
                       "initrd", "register", "start"} : pc' = [pc EXCEPT ![p] = s]
      <4>1. CASE Call(p)
        BY <4>1 DEF Call
      <4>2. CASE StatRootfs(p) \/ ReadConfig(p) \/ TruncateJSON(p) \/ WriteJSON(p)
        BY <4>2 DEF StatRootfs, ReadConfig, TruncateJSON, WriteJSON, Goto, Return, Ready
      <4>3. CASE \/ LocateKernel(p) \/ LocateInitrd(p) \/ RegisterMicroVM(p) \/ StartVM(p)
                 \/ Prepared(p) \/ Fail(p) \/ FailLate(p)
        BY <4>3 DEF LocateKernel, LocateInitrd, RegisterMicroVM, StartVM, Prepared, Fail,
                    FailLate, Goto, Return
      <4>4. QED
        BY <1>2, <4>1, <4>2, <4>3 DEF Step
    <3>2. pc'[p] \notin Filling /\ \A q \in Runners : q # p => pc'[q] = pc[q]
      BY <3>1, <1>t DEF TypeOK, Filling
    <3>3. /\ ask' = ask \/ \E a \in Requests : ask' = [ask EXCEPT ![p] = a]
          /\ spec' = spec \/ \E c : spec' = [spec EXCEPT ![p] = c]
      BY <1>2 DEF Step, Call, StatRootfs, ReadConfig, TruncateJSON, WriteJSON, LocateKernel,
                LocateInitrd, RegisterMicroVM, StartVM, Prepared, Fail, FailLate, Goto, Return
    <3>4. \A q \in Runners : q # p => ask'[q] = ask[q] /\ spec'[q] = spec[q]
      BY <3>3, <1>t DEF TypeOK
    <3>5. QED
      BY <3>2, <3>4 DEF Image
  <2>3. QED
    BY <2>1, <2>2 DEF Entries, Filling
<1>3. ASSUME NEW i \in Images, Override(i)
      PROVE  Entries' /\ (\A k \in Images : conf[k] # None => conf'[k] # None) /\ ran \subseteq ran'
  <2>1. \A q \in Runners : Image(q)' = Image(q)
    BY <1>3 DEF Override, Image
  <2>2. PICK c \in Cmds : conf' = [conf EXCEPT ![i] = c] /\ ran' = ran \cup {<<i, c>>}
    BY <1>3 DEF Override
  <2>3. conf[i] # None /\ UNCHANGED <<pc, tree>>
    BY <1>3 DEF Override
  <2>4. \A k \in Images : conf'[k] = IF k = i THEN c ELSE conf[k]
    BY <1>t, <2>2 DEF TypeOK
  <2>5. \A q \in Runners : pc[q] = "extract" => conf'[Image(q)] = None
    BY <1>n, <2>3, <2>4 DEF Entries, Filling
  <2>6. \A k \in Images : /\ conf'[k] # None => tree[k] = "whole"
                          /\ conf'[k] \in Images => conf'[k] = k
                          /\ conf'[k] \in Cmds => <<k, conf'[k]>> \in ran'
    <3>1. c \in Cmds /\ c \notin Images /\ <<i, c>> \in ran' /\ ran \subseteq ran' /\ tree[i] = "whole"
      BY <2>2, <2>3, CmdAssumption DEF Entries
    <3>2. CASE conf'[i] = c
      <4> SUFFICES ASSUME NEW k \in Images
                   PROVE /\ conf'[k] # None => tree[k] = "whole"
                         /\ conf'[k] \in Images => conf'[k] = k
                         /\ conf'[k] \in Cmds => <<k, conf'[k]>> \in ran'
        OBVIOUS
      <4>1. CASE k = i
        BY <3>1, <3>2, <4>1
      <4>2. CASE k # i
        <5>1. conf'[k] = conf[k]
          BY <2>4, <4>2
        <5>2. QED
          BY <3>1, <5>1 DEF Entries
      <4>3. QED
        BY <4>1, <4>2
    <3>3. QED
      BY <2>4, <3>2
  <2>7. QED
    BY <2>1, <2>2, <2>3, <2>4, <2>5, <2>6 DEF Entries
<1>4. CASE (\E j \in Projects, d \in Ids : GuestBoot(j, d)) \/ UNCHANGED vars
  <2>1. UNCHANGED <<pc, ask, spec, dir, tree, conf, ran>>
    BY <1>4 DEF GuestBoot, vars, pulls, outside
  <2>2. QED
    BY <2>1 DEF Entries, Image
<1>5. QED
  BY <1>1, <1>2, <1>3, <1>4 DEF Next

-----------------------------------------------------------------------------
(* The containers of a call and of a VM.                                   *)

\* One container, as its manifest and the entries give it.
Made(c, made, runs) ==
  /\ made.image = c.image
  /\ IF c.cmd # NoCmd THEN made.cmd = c.cmd
     ELSE made.cmd = c.image \/ <<c.image, made.cmd>> \in runs

Expansion(p) ==
  pc[p] # "idle" /\ ask[p].op = "pod" =>
    \A k \in 1..Len(spec[p]) : Made(ask[p].ctrs[k], spec[p][k], ran) /\ conf[spec[p][k].image] # None

Machine(v) ==
  /\ v.whole /\ Len(v.spec) = Len(v.ask.ctrs)
  /\ \A k \in 1..Len(v.spec) : Made(v.ask.ctrs[k], v.spec[k], ran)

Expanding ==
  /\ \A p \in Runners : Expansion(p)
  /\ \A j \in Projects, d \in Ids : vms[j][d] # None => Machine(vms[j][d])

\* What a step does to a call's containers.
LEMMA SpecStep ==
  ASSUME TypeInv, [Next]_vars, NEW p \in Runners, pc'[p] # "idle"
  PROVE  \/ spec'[p] = << >>
         \/ ask'[p] = ask[p] /\ spec'[p] = spec[p] /\ pc[p] # "idle"
         \/ ask'[p] = ask[p] /\ pc[p] # "idle" /\ ReadConfig(p) /\ ~Unreadable(ask[p].ctrs[Len(spec[p]) + 1])
            /\ spec'[p] = Expanded(p)
<1>t. TypeOK
  BY DEF TypeInv
<1>1. ASSUME NEW q \in Runners, Step(q)
      PROVE  \/ spec'[p] = << >>
             \/ ask'[p] = ask[p] /\ spec'[p] = spec[p] /\ pc[p] # "idle"
             \/ ask'[p] = ask[p] /\ pc[p] # "idle" /\ ReadConfig(p) /\ ~Unreadable(ask[p].ctrs[Len(spec[p]) + 1])
                /\ spec'[p] = Expanded(p)
  <2>1. CASE Call(q)
    BY <1>t, <2>1 DEF Call, TypeOK
  <2>2. CASE ReadConfig(q)
    BY <1>t, <2>2 DEF ReadConfig, TypeOK, Goto, Return, At
  <2>3. CASE ~Call(q) /\ ~ReadConfig(q)
    <3>1. ~At(q, "idle") /\ UNCHANGED <<spec, ask>> /\ \E s : pc' = [pc EXCEPT ![q] = s]
      <4>1. CASE \/ StatRootfs(q) \/ Pull(q) \/ Extract(q) \/ TearConfig(q) \/ WriteConfig(q)
                 \/ TruncateJSON(q) \/ WriteJSON(q)
        BY <4>1 DEF StatRootfs, Pull, Extract, TearConfig, WriteConfig, TruncateJSON, WriteJSON,
                    Goto, Return, At
      <4>2. CASE \/ LocateKernel(q) \/ LocateInitrd(q) \/ RegisterMicroVM(q) \/ StartVM(q)
                 \/ Prepared(q) \/ Fail(q) \/ FailLate(q)
        BY <4>2 DEF LocateKernel, LocateInitrd, RegisterMicroVM, StartVM, Prepared, Fail,
                    FailLate, Goto, Return, At
      <4>3. QED
        BY <1>1, <2>3, <4>1, <4>2 DEF Step
    <3>2. QED
      BY <1>t, <3>1 DEF TypeOK, At
  <2>4. QED
    BY <2>1, <2>2, <2>3
<1>2. CASE (\E i \in Images : Override(i)) \/ (\E j \in Projects, d \in Ids : GuestBoot(j, d)) \/ UNCHANGED vars
  BY <1>2 DEF Override, GuestBoot, vars
<1>3. QED
  BY <1>1, <1>2 DEF Next

\* What a step does to a VM: it registers it, or leaves what it was made from.
LEMMA VmStep ==
  ASSUME TypeInv, [Next]_vars, NEW j \in Projects, NEW d \in Ids, vms'[j][d] # None
  PROVE  \/ /\ vms[j][d] # None /\ vms'[j][d].ask = vms[j][d].ask
            /\ vms'[j][d].spec = vms[j][d].spec /\ vms'[j][d].whole = vms[j][d].whole
            /\ vms'[j][d].steady => vms[j][d].steady
            /\ vms'[j][d].guest \in {vms[j][d].guest, json[d]}
         \/ \E p \in Runners : pc[p] = "register" /\ vms'[j][d] = Record(p) /\ ask[p].id = d
<1>t. TypeOK /\ vms \in [Projects -> [Ids -> VM \cup {None}]]
  BY DEF TypeInv, TypeOK
<1>k. \A v \in VM \cup {None} : v # None => v \in VM
  OBVIOUS
<1> DEFINE Goal == \/ /\ vms[j][d] # None /\ vms'[j][d].ask = vms[j][d].ask
                      /\ vms'[j][d].spec = vms[j][d].spec /\ vms'[j][d].whole = vms[j][d].whole
                      /\ vms'[j][d].steady => vms[j][d].steady
                      /\ vms'[j][d].guest \in {vms[j][d].guest, json[d]}
                   \/ \E p \in Runners : pc[p] = "register" /\ vms'[j][d] = Record(p) /\ ask[p].id = d
<1>1. ASSUME NEW p \in Runners, TruncateJSON(p) PROVE Goal
  <2>1. vms'[j][d] = IF d = ask[p].id /\ vms[j][d] # None
                     THEN [vms[j][d] EXCEPT !.steady = FALSE] ELSE vms[j][d]
    BY <1>1 DEF TruncateJSON
  <2>2. vms[j][d] # None
    BY <2>1
  <2>3. vms[j][d] \in VM
    BY <1>t, <2>2
  <2>4. QED
    BY <2>1, <2>2, <2>3 DEF VM
<1>2. ASSUME NEW p \in Runners, At(p, "register"),
             vms' = [vms EXCEPT ![ask[p].project][ask[p].id] = Record(p)] PROVE Goal
  <2>1. CASE j = ask[p].project /\ d = ask[p].id
    BY <1>2, <1>t, <2>1 DEF At
  <2>2. CASE ~(j = ask[p].project /\ d = ask[p].id)
    <3>1. vms'[j][d] = vms[j][d]
      BY <1>2, <1>t, <2>2
    <3>2. QED
      BY <3>1
  <2>3. QED
    BY <2>1, <2>2
<1>3. ASSUME NEW e \in Ids, vms[Default][e] # None,
             vms' = [vms EXCEPT ![Default][e].up = TRUE] PROVE Goal
  <2>1. CASE j = Default /\ d = e
    <3>1. vms[j][d] \in VM /\ vms'[j][d] = [vms[j][d] EXCEPT !.up = TRUE]
      BY <1>3, <1>t, <2>1
    <3>2. QED
      BY <1>3, <2>1, <3>1 DEF VM
  <2>2. CASE ~(j = Default /\ d = e)
    <3>1. vms'[j][d] = vms[j][d]
      BY <1>3, <1>t, <2>2
    <3>2. QED
      BY <3>1
  <2>3. QED
    BY <2>1, <2>2
<1>4. ASSUME NEW i \in Projects, NEW e \in Ids, GuestBoot(i, e) PROVE Goal
  <2>1. vms[i][e] # None /\ vms' = [vms EXCEPT ![i][e].guest = json[e]]
    BY <1>4 DEF GuestBoot
  <2>2. CASE j = i /\ d = e
    <3>1. vms[j][d] \in VM /\ vms'[j][d] = [vms[j][d] EXCEPT !.guest = json[e]]
      BY <1>t, <2>1, <2>2
    <3>2. QED
      BY <2>1, <2>2, <3>1 DEF VM
  <2>3. CASE ~(j = i /\ d = e)
    <3>1. vms'[j][d] = vms[j][d]
      BY <1>t, <2>1, <2>3
    <3>2. QED
      BY <3>1
  <2>4. QED
    BY <2>2, <2>3
<1>5. CASE vms' = vms
  BY <1>5
<1>6. ASSUME NEW p \in Runners, Step(p) PROVE Goal
  <2>1. pc[p] = "start" => ask[p].id \in Ids
    BY PodType DEF Built
  <2>2. CASE TruncateJSON(p)
    BY <1>1, <2>2
  <2>3. CASE RegisterMicroVM(p)
    BY <1>2, <2>3 DEF RegisterMicroVM
  <2>4. CASE StartVM(p)
    BY <1>3, <2>1, <2>4 DEF StartVM, At
  <2>5. CASE FailLate(p)
    BY <1>2, <1>3, <2>1, <2>5 DEF FailLate, At
  <2>6. CASE \/ Call(p) \/ StatRootfs(p) \/ Pull(p) \/ Extract(p) \/ TearConfig(p) \/ WriteConfig(p)
             \/ ReadConfig(p) \/ WriteJSON(p) \/ LocateKernel(p) \/ LocateInitrd(p)
             \/ Prepared(p) \/ Fail(p)
    BY <1>5, <2>6 DEF Call, StatRootfs, Pull, Extract, TearConfig, WriteConfig, ReadConfig,
                      WriteJSON, LocateKernel, LocateInitrd, Prepared, Fail
  <2>7. QED
    BY <1>6, <2>2, <2>3, <2>4, <2>5, <2>6 DEF Step
<1>7. CASE (\E i \in Images : Override(i)) \/ UNCHANGED vars
  BY <1>5, <1>7 DEF Override, vars
<1>8. QED
  BY <1>4, <1>6, <1>7 DEF Next

LEMMA ExpandingInit == Init => Entries /\ Expanding
<1> SUFFICES ASSUME Init PROVE Entries /\ Expanding
  OBVIOUS
<1>1. Entries
  BY CmdAssumption DEF Init, Entries, Filling
<1>2. Expanding
  BY DEF Init, Expanding, Expansion
<1>3. QED
  BY <1>1, <1>2

LEMMA ExpandingStep == TypeInv /\ TypeInv' /\ Entries /\ Expanding /\ [Next]_vars => Entries' /\ Expanding'
<1> SUFFICES ASSUME TypeInv, TypeInv', Entries, Expanding, [Next]_vars
             PROVE  Entries' /\ Expanding'
  OBVIOUS
<1>1. Entries' /\ (\A i \in Images : conf[i] # None => conf'[i] # None) /\ ran \subseteq ran'
  BY EntriesStep
<1>2. \A c, made : Made(c, made, ran) => Made(c, made, ran')
  BY <1>1 DEF Made
<1>3. ASSUME NEW p \in Runners PROVE Expansion(p)'
  <2> SUFFICES ASSUME pc'[p] # "idle", ask'[p].op = "pod", NEW k \in 1..Len(spec'[p])
               PROVE  /\ Made(ask'[p].ctrs[k], spec'[p][k], ran')
                      /\ conf'[spec'[p][k].image] # None
    BY DEF Expansion
  <2>t. spec[p] \in Seq(Container) /\ spec'[p] \in Seq(Container) /\ Asked(p)
    BY DEF TypeInv, TypeOK, Containers
  <2>1. CASE spec'[p] = << >>
    BY <2>1
  <2>2. ASSUME NEW n \in 1..Len(spec[p]), ask'[p] = ask[p], pc[p] # "idle"
        PROVE  Made(ask[p].ctrs[n], spec[p][n], ran') /\ conf'[spec[p][n].image] # None
    <3>1. Made(ask[p].ctrs[n], spec[p][n], ran) /\ conf[spec[p][n].image] # None
      BY <2>2 DEF Expanding, Expansion
    <3>2. spec[p][n] \in Container
      BY <2>t
    <3>3. spec[p][n].image \in Images
      BY <3>2 DEF Container
    <3>4. QED
      BY <1>1, <1>2, <3>1, <3>3
  <2>3. CASE ask'[p] = ask[p] /\ spec'[p] = spec[p] /\ pc[p] # "idle"
    BY <2>2, <2>3
  <2>4. CASE /\ ask'[p] = ask[p] /\ pc[p] # "idle" /\ ReadConfig(p)
             /\ ~Unreadable(ask[p].ctrs[Len(spec[p]) + 1]) /\ spec'[p] = Expanded(p)
    <3> DEFINE c == ask[p].ctrs[Len(spec[p]) + 1]
               new == [image |-> c.image, cmd |-> IF c.cmd = NoCmd THEN conf[c.image] ELSE c.cmd]
    <3>1. spec'[p] = Append(spec[p], new)
      BY <2>4 DEF Expanded
    <3>2. pc[p] = "config" /\ c.image \in Images /\ conf[c.image] \notin {None, Torn}
      <4>1. pc[p] = "config" /\ ask[p].op = "pod"
        BY <2>4 DEF ReadConfig, At
      <4>2. Image(p) \in Images /\ Image(p) = c.image
        BY <4>1, ImageType DEF Looking, Image
      <4>3. QED
        BY <2>4, <4>1, <4>2 DEF Unreadable
    <3>3. conf[c.image] = c.image \/ <<c.image, conf[c.image]>> \in ran
      BY <3>2 DEF Entries, TypeInv, TypeOK
    <3>4. Made(c, new, ran') /\ conf'[new.image] # None
      <4>1. Made(c, new, ran)
        BY <3>3 DEF Made
      <4>2. QED
        BY <1>1, <1>2, <3>2, <4>1
    <3>5. CASE k = Len(spec[p]) + 1
      <4>1. spec'[p][k] = new
        BY <2>t, <3>1, <3>5
      <4>2. QED
        BY <2>4, <3>4, <3>5, <4>1
    <3>6. CASE k # Len(spec[p]) + 1
      <4>0. k \in Nat /\ Len(spec[p]) \in Nat /\ k <= Len(spec'[p]) /\ 1 <= k /\ Len(spec'[p]) = Len(spec[p]) + 1
        <5> HIDE DEF new
        <5>1. Len(Append(spec[p], new)) = Len(spec[p]) + 1
          BY <2>t
        <5>2. QED
          BY <2>t, <3>1, <5>1
      <4>1. k \in 1..Len(spec[p])
        BY <3>6, <4>0
      <4>2. spec'[p][k] = spec[p][k]
        <5> HIDE DEF new
        <5>1. QED
          BY <2>t, <3>1, <4>1
      <4>3. QED
        BY <2>2, <2>4, <4>1, <4>2
    <3>7. QED
      BY <3>5, <3>6
  <2>5. QED
    BY <2>1, <2>3, <2>4, SpecStep
<1>4. ASSUME NEW j \in Projects, NEW d \in Ids, vms'[j][d] # None PROVE Machine(vms[j][d])'
  <2>1. CASE /\ vms[j][d] # None /\ vms'[j][d].ask = vms[j][d].ask
             /\ vms'[j][d].spec = vms[j][d].spec /\ vms'[j][d].whole = vms[j][d].whole
    <3>1. Machine(vms[j][d])
      BY <2>1 DEF Expanding
    <3>2. QED
      BY <1>1, <2>1, <3>1 DEF Machine, Made
  <2>2. ASSUME NEW p \in Runners, pc[p] = "register", vms'[j][d] = Record(p)
        PROVE  Machine(vms[j][d])'
    <3>1. Asked(p) /\ spec[p] \in Seq(Container) /\ Expansion(p)
      BY DEF TypeInv, TypeOK, Containers, Expanding
    <3>2. ask[p].op = "pod" /\ Len(spec[p]) = Len(ask[p].ctrs)
      BY <2>2, <3>1 DEF Asked, Built
    <3>3. \A k \in 1..Len(spec[p]) : Made(ask[p].ctrs[k], spec[p][k], ran) /\ tree[spec[p][k].image] = "whole"
      <4> TAKE k \in 1..Len(spec[p])
      <4>0. spec[p][k] \in Container
        BY <3>1
      <4>1. spec[p][k].image \in Images
        BY <4>0 DEF Container
      <4>2. QED
        BY <2>2, <3>1, <3>2, <4>1 DEF Expansion, Entries
    <3>4. /\ Record(p).whole = (\A k \in 1..Len(spec[p]) : tree[spec[p][k].image] = "whole")
          /\ Record(p).spec = spec[p] /\ Record(p).ask = ask[p]
      BY DEF Record
    <3>5. Record(p).whole
      BY <3>3, <3>4
    <3>6. \A k \in 1..Len(spec[p]) : Made(ask[p].ctrs[k], spec[p][k], ran')
      BY <1>1, <3>3 DEF Made
    <3>7. QED
      BY <2>2, <3>2, <3>4, <3>5, <3>6 DEF Machine
  <2>3. QED
    BY <1>4, <2>1, <2>2, VmStep
<1>5. QED
  BY <1>1, <1>3, <1>4 DEF Expanding

LEMMA ExpandingAlways == Spec => [](TypeInv /\ Entries /\ Expanding)
<1>1. Init => TypeInv /\ Entries /\ Expanding
  BY TypeInit, ExpandingInit
<1>2. TypeInv /\ Entries /\ Expanding /\ [Next]_vars => (TypeInv /\ Entries /\ Expanding)'
  BY TypeStep, ExpandingStep
<1>3. QED
  BY <1>1, <1>2, PTL DEF Spec

\* No pod boots a tree that a pull did not finish: RunPod reads the sentinel of
\* every image it lists before it registers them.
THEOREM PodsBootWhole == Spec => []PodWhole
<1>1. Expanding => PodWhole
  BY DEF Expanding, Machine, PodWhole
<1>2. QED
  BY <1>1, ExpandingAlways, PTL

\* Every container has the command of its manifest or of its own image's entry.
THEOREM ContainersOwnCommand == Spec => []OwnCommand
<1>1. Expanding => OwnCommand
  BY DEF Expanding, Machine, Made, OwnCommand
<1>2. QED
  BY <1>1, ExpandingAlways, PTL

-----------------------------------------------------------------------------
(* The pod.json of a call and of a VM.                                     *)

Late == {"json", "locate", "initrd", "register", "start"}

\* Nobody else is about to write the file, and what is in it is the call's.
Own(p) ==
  pc[p] \in Late /\ mine[p] =>
    /\ \A q \in Runners \ {p} : pc[q] = "json" => ask[q].id # ask[p].id
    /\ pc[p] # "json" => json[ask[p].id] = spec[p]

Steady(j, d) ==
  vms[j][d] # None /\ vms[j][d].steady =>
    /\ \A q \in Runners : pc[q] = "json" => ask[q].id # d
    /\ json[d] = vms[j][d].spec
    /\ vms[j][d].guest \in {None, vms[j][d].spec}

Owning ==
  /\ \A p \in Runners : Own(p)
  /\ \A j \in Projects, d \in Ids : Steady(j, d)

\* Only writePodJSON touches the file or who owns it.
LEMMA OwnSame ==
  ASSUME TypeInv, [Next]_vars, \A q \in Runners : ~TruncateJSON(q) /\ ~WriteJSON(q)
  PROVE  /\ json' = json
         /\ \A p \in Runners : pc'[p] \in Late =>
              /\ pc[p] \in Late /\ (pc'[p] = "json" <=> pc[p] = "json")
              /\ ask'[p] = ask[p] /\ spec'[p] = spec[p] /\ mine'[p] = mine[p]
<1>t. TypeOK
  BY DEF TypeInv
<1>1. ASSUME NEW q \in Runners, Step(q)
      PROVE  /\ json' = json
             /\ \A p \in Runners : pc'[p] \in Late =>
                  /\ pc[p] \in Late /\ (pc'[p] = "json" <=> pc[p] = "json")
                  /\ ask'[p] = ask[p] /\ spec'[p] = spec[p] /\ mine'[p] = mine[p]
  <2>1. CASE Call(q)
    BY <1>t, <2>1 DEF Call, TypeOK, At, Late
  <2>2. CASE StatRootfs(q) \/ Pull(q) \/ Extract(q) \/ TearConfig(q) \/ WriteConfig(q)
    BY <1>t, <2>2 DEF StatRootfs, Pull, Extract, TearConfig, WriteConfig, Goto, Return, Ready,
                      At, TypeOK, Late
  <2>3. CASE ReadConfig(q)
    BY <1>t, <2>3 DEF ReadConfig, Goto, Return, At, TypeOK, Late
  <2>4. CASE LocateKernel(q) \/ LocateInitrd(q) \/ RegisterMicroVM(q)
    BY <1>t, <2>4 DEF LocateKernel, LocateInitrd, RegisterMicroVM, Goto, Return, At, TypeOK, Late
  <2>5. CASE StartVM(q) \/ Prepared(q) \/ Fail(q) \/ FailLate(q)
    BY <1>t, <2>5 DEF StartVM, Prepared, Fail, FailLate, Return, At, TypeOK, Late
  <2>6. QED
    BY <1>1, <2>1, <2>2, <2>3, <2>4, <2>5 DEF Step
<1>2. CASE (\E i \in Images : Override(i)) \/ (\E j \in Projects, d \in Ids : GuestBoot(j, d)) \/ UNCHANGED vars
  BY <1>2 DEF Override, GuestBoot, vars
<1>3. QED
  BY <1>1, <1>2 DEF Next

LEMMA OwningInit == Init => Owning
BY DEF Init, Owning, Own, Steady, Late

LEMMA OwningTruncate ==
  ASSUME TypeInv, Owning, NEW p \in Runners, TruncateJSON(p)
  PROVE  Owning'
<1>t. TypeOK /\ vms \in [Projects -> [Ids -> VM \cup {None}]] /\ json \in [Ids -> Containers \cup {None, Torn}]
  BY DEF TypeInv, TypeOK
<1>1. /\ pc[p] = "truncate" /\ ask[p].id \in Ids /\ UNCHANGED <<ask, spec>>
      /\ pc' = [pc EXCEPT ![p] = "json"] /\ json' = [json EXCEPT ![ask[p].id] = Torn]
  BY PodType DEF TruncateJSON, At, Goto, Built
<1>2. \A q \in Runners : pc'[q] = IF q = p THEN "json" ELSE pc[q]
  BY <1>t, <1>1 DEF TypeOK
<1>3. \A q \in Runners : pc[q] \in Late => q \in Pods
  <2> TAKE q \in Runners
  <2>1. Asked(q)
    BY DEF TypeInv
  <2>2. QED
    BY <2>1 DEF Asked, Built, Late, Pods
<1>4. ASSUME NEW q \in Runners PROVE Own(q)'
  <2> SUFFICES ASSUME pc'[q] \in Late, mine'[q]
               PROVE  /\ \A r \in Runners \ {q} : pc'[r] = "json" => ask[r].id # ask[q].id
                      /\ pc'[q] # "json" => json'[ask[q].id] = spec[q]
    BY <1>1 DEF Own
  <2>1. CASE q = p
    <3>1. \A r \in Pods \ {p} : ask[r].id = ask[p].id => ~At(r, "json")
      BY <2>1 DEF TruncateJSON
    <3>2. QED
      BY <1>2, <1>3, <2>1, <3>1 DEF At, Late
  <2>2. CASE q # p
    <3>1. pc[q] \in Late /\ q \in Pods
      BY <1>2, <1>3, <2>2
    <3>2. mine[q] /\ ask[q].id # ask[p].id
      BY <2>2, <3>1 DEF TruncateJSON
    <3>3. Own(q) /\ ask[q].id \in Ids
      BY <3>1, PodType DEF Owning, Late, Built
    <3>4. QED
      BY <1>t, <1>1, <1>2, <2>2, <3>1, <3>2, <3>3 DEF Own
  <2>3. QED
    BY <2>1, <2>2
<1>5. ASSUME NEW j \in Projects, NEW d \in Ids, vms'[j][d] # None, vms'[j][d].steady
      PROVE  /\ \A q \in Runners : pc'[q] = "json" => ask[q].id # d
             /\ json'[d] = vms'[j][d].spec
             /\ vms'[j][d].guest \in {None, vms'[j][d].spec}
  <2>1. vms'[j][d] = IF d = ask[p].id /\ vms[j][d] # None
                     THEN [vms[j][d] EXCEPT !.steady = FALSE] ELSE vms[j][d]
    BY DEF TruncateJSON
  <2>2. vms[j][d] # None
    BY <1>5, <2>1
  <2>3. vms[j][d] \in VM
    BY <1>t, <2>2
  <2>4. d # ask[p].id /\ vms'[j][d] = vms[j][d]
    BY <1>5, <2>1, <2>2, <2>3 DEF VM
  <2>5. Steady(j, d)
    BY DEF Owning
  <2>6. QED
    BY <1>t, <1>1, <1>2, <1>5, <2>2, <2>4, <2>5 DEF Steady
<1>6. QED
  BY <1>1, <1>4, <1>5 DEF Owning, Steady

LEMMA OwningWrite ==
  ASSUME TypeInv, Owning, NEW p \in Runners, WriteJSON(p)
  PROVE  Owning'
<1>t. TypeOK /\ json \in [Ids -> Containers \cup {None, Torn}]
  BY DEF TypeInv, TypeOK
<1>1. /\ pc[p] = "json" /\ ask[p].id \in Ids /\ UNCHANGED <<ask, spec, mine, vms>>
      /\ pc' = [pc EXCEPT ![p] = "locate"] /\ json' = [json EXCEPT ![ask[p].id] = spec[p]]
  BY PodType DEF WriteJSON, At, Goto, Built
<1>2. \A q \in Runners : pc'[q] = IF q = p THEN "locate" ELSE pc[q]
  BY <1>t, <1>1 DEF TypeOK
<1>3. ASSUME NEW q \in Runners PROVE Own(q)'
  <2> SUFFICES ASSUME pc'[q] \in Late, mine[q]
               PROVE  /\ \A r \in Runners \ {q} : pc'[r] = "json" => ask[r].id # ask[q].id
                      /\ pc'[q] # "json" => json'[ask[q].id] = spec[q]
    BY <1>1 DEF Own
  <2>1. Own(q) /\ pc[q] \in Late
    BY <1>1, <1>2 DEF Owning, Late
  <2>2. ask[q].id \in Ids
    BY <2>1, PodType DEF Late, Built
  <2>3. CASE q = p
    BY <1>t, <1>1, <1>2, <2>1, <2>2, <2>3 DEF Own
  <2>4. CASE q # p
    BY <1>t, <1>1, <1>2, <2>1, <2>2, <2>4 DEF Own
  <2>5. QED
    BY <2>3, <2>4
<1>4. ASSUME NEW j \in Projects, NEW d \in Ids PROVE Steady(j, d)'
  <2>1. Steady(j, d)
    BY DEF Owning
  <2>2. QED
    BY <1>t, <1>1, <1>2, <2>1 DEF Steady
<1>5. QED
  BY <1>3, <1>4 DEF Owning

LEMMA OwningStep == TypeInv /\ TypeInv' /\ Owning /\ [Next]_vars => Owning'
<1> SUFFICES ASSUME TypeInv, TypeInv', Owning, [Next]_vars PROVE Owning'
  OBVIOUS
<1>1. CASE \E p \in Runners : TruncateJSON(p) \/ WriteJSON(p)
  BY <1>1, OwningTruncate, OwningWrite
<1>2. CASE \A p \in Runners : ~TruncateJSON(p) /\ ~WriteJSON(p)
  <2>1. /\ json' = json
        /\ \A p \in Runners : pc'[p] \in Late =>
             /\ pc[p] \in Late /\ (pc'[p] = "json" <=> pc[p] = "json")
             /\ ask'[p] = ask[p] /\ spec'[p] = spec[p] /\ mine'[p] = mine[p]
    BY <1>2, OwnSame
  <2>2. \A q \in Runners : pc'[q] = "json" => pc[q] = "json" /\ ask'[q] = ask[q]
    BY <2>1 DEF Late
  <2>3. ASSUME NEW p \in Runners PROVE Own(p)'
    <3>1. Own(p)
      BY DEF Owning
    <3>2. QED
      BY <2>1, <2>2, <3>1 DEF Own
  <2>4. ASSUME NEW j \in Projects, NEW d \in Ids PROVE Steady(j, d)'
    <3> SUFFICES ASSUME vms'[j][d] # None, vms'[j][d].steady
                 PROVE  /\ \A q \in Runners : pc'[q] = "json" => ask'[q].id # d
                        /\ json[d] = vms'[j][d].spec
                        /\ vms'[j][d].guest \in {None, vms'[j][d].spec}
      BY <2>1 DEF Steady
    <3>1. CASE /\ vms[j][d] # None /\ vms'[j][d].spec = vms[j][d].spec
               /\ vms'[j][d].steady => vms[j][d].steady
               /\ vms'[j][d].guest \in {vms[j][d].guest, json[d]}
      <4>1. Steady(j, d)
        BY DEF Owning
      <4>2. QED
        BY <2>2, <3>1, <4>1 DEF Steady
    <3>2. ASSUME NEW p \in Runners, pc[p] = "register", vms'[j][d] = Record(p), ask[p].id = d
          PROVE  /\ \A q \in Runners : pc'[q] = "json" => ask'[q].id # d
                 /\ json[d] = vms'[j][d].spec
                 /\ vms'[j][d].guest \in {None, vms'[j][d].spec}
      <4>1. vms'[j][d].steady = mine[p] /\ vms'[j][d].spec = spec[p] /\ vms'[j][d].guest = None
        <5>1. Record(p).steady = mine[p] /\ Record(p).spec = spec[p] /\ Record(p).guest = None
          BY DEF Record
        <5>2. QED
          BY <3>2, <5>1
      <4>2. Own(p)
        BY DEF Owning
      <4>3. QED
        BY <2>2, <3>2, <4>1, <4>2 DEF Own, Late
    <3>3. QED
      BY <3>1, <3>2, VmStep
  <2>5. QED
    BY <2>3, <2>4 DEF Owning
<1>3. QED
  BY <1>1, <1>2

\* Until another call writes pods/<id>, a guest reads its own call's pod.json.
THEOREM GuestsReadOwn == Spec => []OwnSpec
<1>1. Owning => OwnSpec
  BY DEF Owning, Steady, OwnSpec
<1>2. Init => TypeInv /\ Owning
  BY TypeInit, OwningInit
<1>3. TypeInv /\ Owning /\ [Next]_vars => (TypeInv /\ Owning)'
  BY TypeStep, OwningStep
<1>4. QED
  BY <1>1, <1>2, <1>3, PTL DEF Spec

-----------------------------------------------------------------------------
(* What Prepare hands out.                                                 *)

\* A preparation that has looked and pulled has the process spec, and keeps it.
Pulled == \A p \in Runners : pc[p] = "boot" /\ missed[p] => conf[Image(p)] # None

LEMMA PulledStep == TypeInv /\ TypeInv' /\ Entries /\ Pulled /\ [Next]_vars => Pulled'
<1> SUFFICES ASSUME TypeInv, TypeInv', Entries, Pulled, [Next]_vars,
                    NEW p \in Runners, pc'[p] = "boot", missed'[p]
             PROVE  (conf[Image(p)] # None)'
  BY DEF Pulled
<1>t. TypeOK
  BY DEF TypeInv
<1>1. \A i \in Images : conf[i] # None => conf'[i] # None
  BY EntriesStep
<1>2. ASSUME ask'[p] = ask[p], pc[p] = "boot", missed[p]
      PROVE  (conf[Image(p)] # None)'
  <2>1. Asked(p) /\ ask[p] \in Requests /\ ask[p].op # "pod" /\ Asked(p)'
    BY <1>2 DEF TypeInv, Asked
  <2>2. Image(p) = ask[p].image /\ Image(p)' = ask[p].image /\ Image(p) \in Images
    BY <1>2, <2>1, RequestAssumption DEF Image, Manifests
  <2>3. QED
    BY <1>1, <1>2, <2>2 DEF Pulled
<1>3. ASSUME NEW q \in Runners, Step(q) PROVE (conf[Image(p)] # None)'
  <2>1. CASE Call(q)
    BY <1>t, <1>2, <2>1 DEF Call, At, TypeOK
  <2>2. CASE StatRootfs(q)
    <3>1. CASE q = p
      BY <1>t, <2>2, <3>1 DEF StatRootfs, Goto, Return, Ready, At, TypeOK
    <3>2. CASE q # p
      BY <1>t, <1>2, <2>2, <3>2 DEF StatRootfs, Goto, Return, At, TypeOK
    <3>3. QED
      BY <3>1, <3>2
  <2>3. CASE Pull(q)
    <3>1. CASE q = p
      <4>1. conf[Image(p)] # None /\ Image(p) \in Images /\ UNCHANGED <<conf, ask, spec>>
        BY <1>t, <2>3, <3>1, ImageType DEF Pull, Goto, At, TypeOK, Looking
      <4>2. QED
        BY <4>1 DEF Image
    <3>2. CASE q # p
      BY <1>t, <1>2, <2>3, <3>2 DEF Pull, Goto, At, TypeOK
    <3>3. QED
      BY <3>1, <3>2
  <2>4. CASE WriteConfig(q)
    <3>1. CASE q = p
      <4>1. /\ Image(p) \in Images /\ UNCHANGED <<ask, spec>>
            /\ conf' = [conf EXCEPT ![Image(p)] = Image(p)]
        BY <2>4, <3>1, ImageType DEF WriteConfig, Goto, At, Looking
      <4>2. Image(p)' = Image(p) /\ conf'[Image(p)] = Image(p) /\ Image(p) # None
        BY <1>t, <4>1, CmdAssumption DEF Image, TypeOK
      <4>3. QED
        BY <4>2
    <3>2. CASE q # p
      BY <1>t, <1>2, <2>4, <3>2 DEF WriteConfig, Goto, At, TypeOK
    <3>3. QED
      BY <3>1, <3>2
  <2>5. CASE Extract(q) \/ TearConfig(q) \/ ReadConfig(q) \/ TruncateJSON(q) \/ WriteJSON(q)
    <3>1. /\ missed' = missed /\ ask' = ask
          /\ \E s \in {"idle", "stat", "tear", "write", "truncate", "json", "locate"} :
               pc' = [pc EXCEPT ![q] = s]
      <4>1. CASE ReadConfig(q)
        BY <4>1 DEF ReadConfig, Goto, Return
      <4>2. CASE Extract(q) \/ TearConfig(q) \/ TruncateJSON(q) \/ WriteJSON(q)
        BY <4>2 DEF Extract, TearConfig, TruncateJSON, WriteJSON, Goto
      <4>3. QED
        BY <2>5, <4>1, <4>2
    <3>2. q # p /\ pc'[p] = pc[p]
      BY <1>t, <3>1 DEF TypeOK
    <3>3. QED
      BY <1>2, <3>1, <3>2
  <2>6. CASE \/ LocateKernel(q) \/ LocateInitrd(q) \/ RegisterMicroVM(q) \/ StartVM(q)
             \/ Prepared(q) \/ Fail(q) \/ FailLate(q)
    BY <1>t, <1>2, <2>6 DEF LocateKernel, LocateInitrd, RegisterMicroVM, StartVM, Prepared, Fail,
                            FailLate, Goto, Return, At, TypeOK
  <2>7. QED
    BY <1>3, <2>1, <2>2, <2>3, <2>4, <2>5, <2>6 DEF Step
<1>4. CASE (\E i \in Images : Override(i)) \/ (\E j \in Projects, d \in Ids : GuestBoot(j, d)) \/ UNCHANGED vars
  BY <1>2, <1>4 DEF Override, GuestBoot, vars
<1>5. QED
  BY <1>3, <1>4 DEF Next

\* Prepare hands out a finished tree when it had to pull for it.
THEOREM PreparationsWhole == Spec => PreparedWhole
<1> DEFINE A == \A p \in Runners : At(p, "boot") /\ missed[p] /\ outcome'[p] = "ok" =>
                  tree[Image(p)] = "whole"
           Inv == TypeInv /\ Entries /\ Pulled
<1>1. Init => Inv
  BY TypeInit, ExpandingInit DEF Init, Pulled
<1>2. Inv /\ [Next]_vars => Inv'
  BY TypeStep, EntriesStep, PulledStep
<1>3. Inv => A
  <2> SUFFICES ASSUME Inv, NEW p \in Runners, pc[p] = "boot", missed[p] PROVE tree[Image(p)] = "whole"
    BY DEF At
  <2>1. Asked(p)
    BY DEF TypeInv
  <2>2. Image(p) \in Images
    BY <2>1, RequestAssumption DEF Asked, Image, Manifests
  <2>3. QED
    BY <2>2 DEF Pulled, Entries
<1>4. Inv => [A]_vars
  BY <1>3
<1>5. QED
  BY <1>1, <1>2, <1>4, PTL DEF Spec, PreparedWhole
=============================================================================
