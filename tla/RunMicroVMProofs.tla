-------------------------- MODULE RunMicroVMProofs --------------------------
(***************************************************************************)
(* The two ways of calling Run that boot what was asked for, for every     *)
(* number of runs and VMs: any number of overlapping runs without a        *)
(* command on an image pulled beforehand; and runs that do not overlap and *)
(* always give a command, whatever fails or is killed.                     *)
(***************************************************************************)
EXTENDS RunMicroVM, TLAPS

LEMMA RecordType ==
  ASSUME TypeOK, NEW p \in Runners, ask[p] \in Asks
  PROVE  Record(p) \in VM /\ ask[p].name \in Names
BY AskAssumption DEF TypeOK, Record, VM, Specs, Trees

LEMMA ReturnType ==
  ASSUME TypeOK, NEW p \in Runners, NEW how \in {"ok", "err", "crash"},
         Return(p, how), UNCHANGED entry, vms' \in [Names -> VM \cup {None}]
  PROVE  TypeOK'
BY DEF TypeOK, Return, entry, Stage

LEMMA GotoType ==
  ASSUME TypeOK, NEW p \in Runners, pc[p] # "idle", NEW s \in Stage, Goto(p, s),
         s \in {"truncate", "rewrite"} => ask[p].cmd \in Cmds,
         rootfs' \in BOOLEAN, tree' \in Trees, conf' \in Specs,
         vms' \in [Names -> VM \cup {None}]
  PROVE  TypeOK'
BY DEF TypeOK, Goto

\* Starting a VM keeps its record a record.
LEMMA UpType ==
  ASSUME TypeOK, NEW n \in Names, vms[n] # None,
         vms' = [vms EXCEPT ![n].up = TRUE]
  PROVE  /\ vms' \in [Names -> VM \cup {None}]
         /\ \A m \in Names :
              /\ vms'[m] # None => vms[m] # None
              /\ vms'[m] # None => /\ vms'[m].asked = vms[m].asked
                                   /\ vms'[m].cmd = vms[m].cmd
                                   /\ vms'[m].tree = vms[m].tree
<1>1. vms[n] \in VM
  BY DEF TypeOK
<1>2. vms' = [vms EXCEPT ![n] = [vms[n] EXCEPT !.up = TRUE]]
  OBVIOUS
<1>3. [vms[n] EXCEPT !.up = TRUE] \in VM
  BY <1>1 DEF VM
<1>4. /\ [vms[n] EXCEPT !.up = TRUE].asked = vms[n].asked
      /\ [vms[n] EXCEPT !.up = TRUE].cmd = vms[n].cmd
      /\ [vms[n] EXCEPT !.up = TRUE].tree = vms[n].tree
  BY <1>1 DEF VM
<1>5. QED
  BY <1>2, <1>3, <1>4 DEF TypeOK

LEMMA TypeStep == TypeOK /\ [Next]_vars => TypeOK'
<1> SUFFICES ASSUME TypeOK, [Next]_vars PROVE TypeOK'
  OBVIOUS
<1>1. CASE UNCHANGED vars
  BY <1>1 DEF vars, TypeOK
<1>2. ASSUME NEW n \in Names, DeleteVM(n) PROVE TypeOK'
  BY <1>2 DEF DeleteVM, entry, TypeOK
<1>3. ASSUME NEW p \in Runners, NEW a \in Asks, Call(p, a) PROVE TypeOK'
  BY <1>3 DEF Call, At, entry, TypeOK, Stage
<1>4. ASSUME NEW p \in Runners, StatRootfs(p) \/ Pull(p) \/ ReadSpec(p) \/ Locate(p)
      PROVE  TypeOK'
  <2>1. pc[p] # "idle" /\ UNCHANGED <<rootfs, tree, conf, vms>>
    BY <1>4 DEF StatRootfs, Pull, ReadSpec, Locate, At, entry
  <2>2. CASE Return(p, "err")
    BY <2>1, <2>2, ReturnType DEF TypeOK, entry
  <2>3. CASE Goto(p, "read") \/ Goto(p, "pull") \/ Goto(p, "mkdir")
             \/ Goto(p, "locate") \/ Goto(p, "register")
    BY <2>1, <2>3, GotoType DEF TypeOK, Stage, PullStage
  <2>4. CASE Goto(p, "truncate") /\ ask[p].cmd # NoCmd
    <3>1. ask[p].cmd \in Cmds
      BY <2>1, <2>4, AskAssumption DEF TypeOK
    <3>2. QED
      BY <2>1, <2>4, <3>1, GotoType DEF TypeOK, Stage
  <2>5. QED
    BY <1>4, <2>2, <2>3, <2>4 DEF StatRootfs, Pull, ReadSpec, Locate
<1>5. ASSUME NEW p \in Runners, PullStep(p) PROVE TypeOK'
  <2>1. pc[p] # "idle" /\ \E s \in PullStage \cup {"read"} : Goto(p, s)
    BY <1>5 DEF PullStep, At, PullStage
  <2>2. rootfs' \in BOOLEAN /\ tree' \in Trees /\ conf' \in Specs /\ vms' = vms
    BY <1>5
    DEF PullStep, Entry!Mkdir, Entry!Extract, Entry!Tear, Entry!Write, TypeOK,
        Trees, Specs
  <2>3. QED
    BY <2>1, <2>2, GotoType DEF TypeOK, Stage, PullStage
<1>6. ASSUME NEW p \in Runners, TruncateSpec(p) PROVE TypeOK'
  <2>1. pc[p] # "idle" /\ Goto(p, "rewrite") /\ ask[p].cmd \in Cmds
    BY <1>6 DEF TruncateSpec, At, TypeOK
  <2>2. QED
    BY <1>6, <2>1, GotoType DEF TruncateSpec, TypeOK, Stage, Specs
<1>7. ASSUME NEW p \in Runners, RewriteSpec(p) PROVE TypeOK'
  <2>1. pc[p] # "idle" /\ Goto(p, "locate") /\ ask[p].cmd \in Cmds
    BY <1>7 DEF RewriteSpec, At, TypeOK
  <2>2. QED
    BY <1>7, <2>1, GotoType DEF RewriteSpec, TypeOK, Stage, Specs
<1>8. ASSUME NEW p \in Runners, RegisterMicroVM(p) \/ FailRegistered(p)
      PROVE  TypeOK'
  <2>1. pc[p] # "idle" /\ ask[p] \in Asks /\ UNCHANGED entry
    BY <1>8 DEF RegisterMicroVM, FailRegistered, At, TypeOK
  <2>2. vms' \in [Names -> VM \cup {None}]
    BY <1>8, <2>1, RecordType DEF RegisterMicroVM, FailRegistered, TypeOK
  <2>3. CASE Goto(p, "start")
    BY <2>1, <2>2, <2>3, GotoType DEF TypeOK, Stage, entry
  <2>4. CASE Return(p, "err")
    BY <2>1, <2>2, <2>4, ReturnType
  <2>5. QED
    BY <1>8, <2>3, <2>4 DEF RegisterMicroVM, FailRegistered
<1>9. ASSUME NEW p \in Runners, StartVM(p) \/ FailStart(p) PROVE TypeOK'
  <2>1. ask[p].name \in Names
    BY <1>9, AskAssumption DEF StartVM, FailStart, At, TypeOK
  <2>2. vms' \in [Names -> VM \cup {None}]
    BY <1>9, <2>1, UpType DEF StartVM, FailStart, TypeOK
  <2>3. QED
    BY <1>9, <2>2, ReturnType DEF StartVM, FailStart
<1>10. ASSUME NEW p \in Runners, Fail(p) \/ Crash(p) PROVE TypeOK'
  BY <1>10, ReturnType DEF Fail, Crash, TypeOK
<1>11. QED
  BY <1>1, <1>2, <1>3, <1>4, <1>5, <1>6, <1>7, <1>8, <1>9, <1>10 DEF Next, Step

\* Every variable keeps its type.
THEOREM TypeCorrect == Spec => []TypeOK
<1>1. Init => TypeOK
  BY DEF Init, Entry!Init, TypeOK, Stage, Trees, Specs
<1>2. QED
  BY <1>1, TypeStep, PTL DEF Spec

-----------------------------------------------------------------------------
(* What the steps of a call do to the entry and to the VMs.                *)

\* A VM's record after a step is an older one, started perhaps, or a clone of
\* the entry that a run at "register" has made.
LEMMA VmsStep ==
  ASSUME TypeOK, Next, NEW n \in Names, vms'[n] # None
  PROVE  \/ /\ vms[n] # None
            /\ vms'[n].asked = vms[n].asked /\ vms'[n].cmd = vms[n].cmd
            /\ vms'[n].tree = vms[n].tree
         \/ \E p \in Runners : pc[p] = "register" /\ vms'[n] = Record(p)
<1>1. ASSUME NEW m \in Names, DeleteVM(m) PROVE vms[n] # None /\ vms'[n] = vms[n]
  BY <1>1 DEF DeleteVM, TypeOK
<1>2. ASSUME NEW p \in Runners, RegisterMicroVM(p) \/ FailRegistered(p)
      PROVE  vms'[n] = vms[n] \/ (pc[p] = "register" /\ vms'[n] = Record(p))
  BY <1>2 DEF RegisterMicroVM, FailRegistered, At, TypeOK
<1>3. ASSUME NEW p \in Runners, StartVM(p) \/ FailStart(p)
      PROVE  /\ vms[n] # None
             /\ vms'[n].asked = vms[n].asked /\ vms'[n].cmd = vms[n].cmd
             /\ vms'[n].tree = vms[n].tree
  <2>1. ask[p].name \in Names
    BY <1>3, AskAssumption DEF StartVM, FailStart, At, TypeOK
  <2>2. QED
    BY <1>3, <2>1, UpType DEF StartVM, FailStart
<1>4. QED
  BY <1>1, <1>2, <1>3
  DEF Next, Step, Call, StatRootfs, Pull, PullStep, ReadSpec, TruncateSpec,
      RewriteSpec, Locate, Fail, Crash
-----------------------------------------------------------------------------
(* Runs without a command, on an image pulled beforehand, in any number.   *)

Readers == Cached /\ \A a \in Asks : a.cmd = NoCmd

ReadersInv ==
  /\ TypeOK
  /\ rootfs /\ tree = "whole" /\ conf = Image
  /\ \A p \in Runners : pc[p] \notin {"pull", "truncate", "rewrite"} \cup PullStage
  /\ AsAsked
  /\ BootsWhole

LEMMA ReadersStep == Readers /\ ReadersInv /\ [Next]_vars => ReadersInv'
<1> SUFFICES ASSUME Readers, ReadersInv, [Next]_vars PROVE ReadersInv'
  OBVIOUS
<1>t. TypeOK /\ TypeOK'
  BY TypeStep DEF ReadersInv
<1>1. CASE UNCHANGED vars
  BY <1>1, <1>t DEF vars, ReadersInv, AsAsked, BootsWhole
<1>2. CASE Next
  <2>1. UNCHANGED entry
    BY <1>2
    DEF ReadersInv, Next, Step, Call, DeleteVM, StatRootfs, Pull, PullStep,
        PullStage, ReadSpec, TruncateSpec, RewriteSpec, Locate, RegisterMicroVM,
        StartVM, Fail, FailRegistered, FailStart, Crash, At
  <2>2. ASSUME NEW p \in Runners
        PROVE  pc'[p] \notin {"pull", "truncate", "rewrite"} \cup PullStage
    <3>1. pc[p] \notin {"pull", "truncate", "rewrite"} \cup PullStage
      BY DEF ReadersInv
    <3>2. ASSUME NEW q \in Runners, NEW s \in
                 {"idle", "stat", "read", "locate", "register", "start"},
                 pc' = [pc EXCEPT ![q] = s]
          PROVE  pc'[p] \notin {"pull", "truncate", "rewrite"} \cup PullStage
      BY <3>1, <3>2, <1>t DEF TypeOK, PullStage
    <3>3. CASE \E n \in Names : DeleteVM(n)
      BY <3>3, <3>1 DEF DeleteVM
    <3>4. ASSUME NEW q \in Runners, NEW a \in Asks, Call(q, a)
          PROVE  pc' = [pc EXCEPT ![q] = "stat"]
      BY <3>4 DEF Call
    <3>5. ASSUME NEW q \in Runners, Step(q)
          PROVE  \E s \in {"idle", "read", "locate", "register", "start"} :
                   pc' = [pc EXCEPT ![q] = s]
      <4>1. rootfs /\ pc[q] \notin {"pull", "truncate", "rewrite"} \cup PullStage
        BY DEF ReadersInv
      <4>2. CASE StatRootfs(q)
        BY <4>1, <4>2 DEF StatRootfs, Goto, Return
      <4>3. CASE ReadSpec(q)
        <5>1. ask[q].cmd = NoCmd
          BY <4>3, <1>t DEF ReadSpec, At, TypeOK, Readers
        <5>2. QED
          BY <4>3, <5>1 DEF ReadSpec, Goto, Return
      <4>4. ASSUME Pull(q) \/ PullStep(q) \/ TruncateSpec(q) \/ RewriteSpec(q)
            PROVE  FALSE
        BY <4>1, <4>4
        DEF Pull, PullStep, TruncateSpec, RewriteSpec, At, PullStage
      <4>5. QED
        BY <3>5, <4>2, <4>3, <4>4
        DEF Step, Locate, RegisterMicroVM, StartVM, Fail, FailRegistered,
            FailStart, Crash, Goto, Return
    <3>6. QED
      BY <1>2, <3>2, <3>3, <3>4, <3>5 DEF Next
  <2>3. ASSUME NEW n \in Names, vms'[n] # None
        PROVE  /\ vms'[n].cmd = IF vms'[n].asked = NoCmd THEN Image
                                ELSE vms'[n].asked
               /\ vms'[n].tree = "whole"
    <3>1. ASSUME NEW p \in Runners, pc[p] = "register", vms'[n] = Record(p)
          PROVE  vms'[n].asked = NoCmd /\ vms'[n].cmd = Image
                   /\ vms'[n].tree = "whole"
      <4>1. ask[p].cmd = NoCmd
        BY <3>1, <1>t DEF TypeOK, Readers
      <4>2. QED
        BY <3>1, <4>1 DEF Record, ReadersInv
    <3>2. QED
      BY <1>2, <1>t, <2>3, <3>1, VmsStep DEF ReadersInv, AsAsked, BootsWhole
  <2>4. QED
    BY <1>t, <2>1, <2>2, <2>3 DEF entry, ReadersInv, AsAsked, BootsWhole
<1>3. QED
  BY <1>1, <1>2

LEMMA ReadersInit == Readers /\ Init => ReadersInv
<1> SUFFICES ASSUME Readers, Init PROVE ReadersInv
  OBVIOUS
<1>1. TypeOK
  BY DEF Init, Readers, TypeOK, Stage, Trees, Specs
<1>2. QED
  BY <1>1 DEF Readers, Init, ReadersInv, AsAsked, BootsWhole, PullStage

\* Overlapping runs without a command boot the image's own command from the
\* whole tree, whichever of them fail or are killed.
THEOREM ReadersBoot == ASSUME Readers PROVE Spec => [](AsAsked /\ BootsWhole)
<1>1. ReadersInv => AsAsked /\ BootsWhole
  BY DEF ReadersInv
<1>2. QED
  BY <1>1, ReadersInit, ReadersStep, PTL DEF Spec

\* ... and they leave the shared cache entry as it is.
THEOREM ReadersLeaveCache == ASSUME Readers PROVE Spec => CacheUntouched
<1>1. ReadersInv /\ ReadersInv' => [conf = Image => conf' = Image]_vars
  BY DEF ReadersInv
<1>2. QED
  BY <1>1, ReadersInit, ReadersStep, PTL DEF Spec, CacheUntouched

-----------------------------------------------------------------------------
(* Runs that do not overlap and always give a command, on this host.       *)

Writers ==
  /\ Exclusive /\ ~Cached
  /\ \A a \in Asks : a.cmd # NoCmd /\ ~a.remote

WritersInv ==
  /\ TypeOK
  /\ \A p, q \in Runners : pc[p] # "idle" /\ pc[q] # "idle" => p = q
  /\ conf # None => tree = "whole"
  /\ \A p \in Runners :
       /\ pc[p] \in {"truncate", "rewrite", "locate", "register"} =>
            conf # None
       /\ pc[p] \in {"locate", "register"} => conf = ask[p].cmd
  /\ AsAsked
  /\ BootsWhole

LEMMA WritersInit == Writers /\ Init => WritersInv
<1> SUFFICES ASSUME Writers, Init PROVE WritersInv
  OBVIOUS
<1>1. TypeOK
  BY DEF Init, Writers, Entry!Init, TypeOK, Stage, Trees, Specs
<1>2. QED
  BY <1>1 DEF Writers, Init, Entry!Init, WritersInv, AsAsked, BootsWhole

LEMMA WritersStep == Writers /\ WritersInv /\ [Next]_vars => WritersInv'
<1> SUFFICES ASSUME Writers, WritersInv, [Next]_vars PROVE WritersInv'
  OBVIOUS
<1> USE ValueAssumption
<1> DEFINE Alone == \A p, q \in Runners : pc[p] # "idle" /\ pc[q] # "idle" => p = q
           Ready(p) ==
             /\ pc[p] \in {"truncate", "rewrite", "locate", "register"} =>
                  conf # None
             /\ pc[p] \in {"locate", "register"} => conf = ask[p].cmd
           Sound(n) == vms[n] # None =>
             /\ vms[n].cmd = IF vms[n].asked = NoCmd THEN Image ELSE vms[n].asked
             /\ vms[n].tree = "whole"
<1>t. TypeOK /\ TypeOK'
  BY TypeStep DEF WritersInv
<1>a. \A p \in Runners : ask[p] \in Asks => ask[p].cmd # NoCmd /\ ~ask[p].remote
  BY DEF Writers
<1>1. CASE UNCHANGED vars
  BY <1>1, <1>t DEF vars, WritersInv, AsAsked, BootsWhole
<1>2. CASE Next
  <2>1. ASSUME NEW n \in Names PROVE Sound(n)'
    <3>1. ASSUME NEW p \in Runners, pc[p] = "register", vms'[n] = Record(p)
          PROVE  /\ vms'[n].asked # NoCmd /\ vms'[n].cmd = vms'[n].asked
                 /\ vms'[n].tree = "whole"
      <4>1. ask[p].cmd # NoCmd /\ ~ask[p].remote
        BY <3>1, <1>a, <1>t DEF TypeOK
      <4>2. conf = ask[p].cmd /\ tree = "whole"
        BY <3>1 DEF WritersInv
      <4>3. QED
        BY <3>1, <4>1, <4>2 DEF Record
    <3>2. QED
      BY <1>2, <1>t, <3>1, VmsStep DEF WritersInv, AsAsked, BootsWhole
  <2>2. ASSUME NEW n \in Names, DeleteVM(n)
        PROVE  Alone' /\ (conf # None => tree = "whole")' /\ \A p \in Runners : Ready(p)'
    BY <2>2 DEF DeleteVM, entry, WritersInv
  <2>3. ASSUME NEW p \in Runners, NEW a \in Asks, Call(p, a)
        PROVE  Alone' /\ (conf # None => tree = "whole")' /\ \A q \in Runners : Ready(q)'
    <3>1. \A q \in Runners : pc[q] = "idle"
      BY <2>3 DEF Call, Writers
    <3>2. pc'[p] = "stat" /\ \A q \in Runners \ {p} : pc'[q] = "idle"
      BY <2>3, <3>1, <1>t DEF Call, TypeOK
    <3>3. QED
      BY <2>3, <3>2 DEF Call, entry, WritersInv
  <2>4. ASSUME NEW p \in Runners, Step(p)
        PROVE  Alone' /\ (conf # None => tree = "whole")' /\ \A q \in Runners : Ready(q)'
    <3>1. pc[p] # "idle" /\ ask[p] \in Asks /\ \A q \in Runners \ {p} : pc[q] = "idle"
      BY <2>4, <1>t
      DEF WritersInv, TypeOK, Step, StatRootfs, Pull, PullStep, ReadSpec,
          TruncateSpec, RewriteSpec, Locate, RegisterMicroVM, StartVM, Fail,
          FailRegistered, FailStart, Crash, At
    <3>2. \A q \in Runners \ {p} : pc'[q] = "idle"
      BY <2>4, <3>1, <1>t
      DEF TypeOK, Step, StatRootfs, Pull, PullStep, ReadSpec, TruncateSpec,
          RewriteSpec, Locate, RegisterMicroVM, StartVM, Fail, FailRegistered,
          FailStart, Crash, Goto, Return
    <3>3. Alone' /\ \A q \in Runners \ {p} : Ready(q)'
      BY <3>2
    <3>4. (conf # None => tree = "whole")' /\ Ready(p)'
      <4>1. CASE UNCHANGED entry /\ pc'[p] \notin {"truncate", "rewrite", "locate", "register"}
        BY <4>1 DEF entry, WritersInv
      <4>2. CASE PullStep(p)
        BY <4>2, <1>t
        DEF PullStep, Entry!Mkdir, Entry!Extract, Entry!Tear, Entry!Write, Goto,
            At, WritersInv, TypeOK
      <4>3. CASE ReadSpec(p)
        BY <4>3, <3>1, <1>a, <1>t
        DEF ReadSpec, Goto, Return, At, entry, WritersInv, TypeOK
      <4>4. CASE TruncateSpec(p) \/ RewriteSpec(p)
        BY <4>4, <1>t
        DEF TruncateSpec, RewriteSpec, Goto, At, WritersInv, TypeOK
      <4>5. CASE Locate(p)
        BY <4>5, <1>t DEF Locate, Goto, At, entry, WritersInv, TypeOK
      <4>6. CASE StatRootfs(p) \/ Pull(p) \/ RegisterMicroVM(p) \/ StartVM(p)
                 \/ Fail(p) \/ FailRegistered(p) \/ FailStart(p) \/ Crash(p)
        <5>1. UNCHANGED entry
          BY <4>6
          DEF StatRootfs, Pull, RegisterMicroVM, StartVM, Fail, FailRegistered,
              FailStart, Crash
        <5>2. pc'[p] \in {"idle", "read", "pull", "mkdir", "start"}
          BY <4>6, <3>1, <1>a, <1>t
          DEF StatRootfs, Pull, RegisterMicroVM, StartVM, Fail, FailRegistered,
              FailStart, Crash, Goto, Return, TypeOK
        <5>3. QED
          BY <4>1, <5>1, <5>2
      <4>7. QED
        BY <2>4, <4>2, <4>3, <4>4, <4>5, <4>6 DEF Step
    <3>5. QED
      BY <3>3, <3>4
  <2>5. QED
    BY <1>2, <1>t, <2>1, <2>2, <2>3, <2>4
    DEF Next, WritersInv, AsAsked, BootsWhole
<1>3. QED
  BY <1>1, <1>2

\* Runs one after the other, each with a command, boot what they were asked
\* for, whatever fails or is killed in between.
THEOREM WritersBoot == ASSUME Writers PROVE Spec => []AsAsked
<1>1. WritersInv => AsAsked
  BY DEF WritersInv
<1>2. QED
  BY <1>1, WritersInit, WritersStep, PTL DEF Spec

\* ... and always from the whole tree: a pull that did not finish leaves no spec
\* to override, and the run ends there.
THEOREM WritersBootWhole == ASSUME Writers PROVE Spec => []BootsWhole
<1>1. WritersInv => BootsWhole
  BY DEF WritersInv
<1>2. QED
  BY <1>1, WritersInit, WritersStep, PTL DEF Spec
=============================================================================
