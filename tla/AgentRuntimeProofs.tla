------------------------- MODULE AgentRuntimeProofs -------------------------
(***************************************************************************)
(* The stamps of the AgentRuntime controller, for any AgentRuntimes,       *)
(* workloads, configurations, and any number of edits, faults and crashes. *)
(*                                                                         *)
(* A stamped workload has an owner because the worker stamps only for an   *)
(* AgentRuntime that has its finalizer, and removes a finalizer only after *)
(* the stamp is off.  Both must be known of the API server's objects while *)
(* the worker looks at copies: SeenOK says what an old copy still tells.   *)
(***************************************************************************)
EXTENDS AgentRuntime, TLAPS

\* A leaf that names no prover is one for Zenon.
USE Zenon

\* Steps of the worker for an AgentRuntime that stays, and for one that goes.
Stamping == {"target", "sandbox", "configmaps", "helper", "mesh", "scc", "cluster",
             "ns", "apply", "restart", "status"}
Cleaning == {"clean", "finalizer"}

Held(r) == rt[r].state = "live" /\ rt[r].fin = "yes"

\* An AgentRuntime that is not there has no finalizer; one to be created is not there;
\* a workload that is not there has no stamp.
ObjectsOK ==
  /\ \A r \in Runtimes : rt[r].state = "none" => rt[r].fin = "no"
  /\ \A r \in admitted : rt[r].state = "none"
  /\ \A w \in Workloads : wl[w].exists = "no" => wl[w].hash = NoHash

\* A copy with the finalizer is of an AgentRuntime that still has it, unless the copy
\* is marked for deletion; then the AgentRuntime has not got it a second time.  A
\* Deployment that the informer does not know carries no stamp.
SeenOK ==
  /\ \A r \in Runtimes :
       /\ seenRt[r].state = "none" => seenRt[r].fin = "no"
       /\ seenRt[r].state = "live" /\ seenRt[r].fin = "yes" => rt[r].fin = "yes"
       /\ seenRt[r].state = "deleting" => ~ Held(r)
  /\ \A w \in Workloads : View(w).exists = "no" => wl[w].hash = NoHash

WorkerOK ==
  /\ rec.pc \in Stamping => rt[Self].fin = "yes"
  /\ rec.pc \in Cleaning => ~ Held(Self)
  /\ rec.pc = "finalizer" => wl[Target].hash = NoHash

\* A stamped workload has an owner, which the controller will clean up after.
StampHasOwner == \A w \in Workloads : wl[w].hash # NoHash => Owners(w) # {}

ARInv == ARTypeOK /\ ObjectsOK /\ SeenOK /\ WorkerOK /\ StampHasOwner

-----------------------------------------------------------------------------
\* The records that objects and the worker start from.
LEMMA RecordsTyped ==
  /\ NoRuntime \in RuntimeRecord
  /\ NewWorkload \in WorkloadRecord /\ NoWorkload \in WorkloadRecord
  /\ Idle \in WorkerRecord /\ Idle.pc = "idle" /\ Idle.rt = "none"
<1>1. NoRuntime \in RuntimeRecord
  BY DEF NoRuntime, RuntimeRecord, Conditions
<1>2. NewWorkload \in WorkloadRecord /\ NoWorkload \in WorkloadRecord
  BY DEF NewWorkload, NoWorkload, WorkloadRecord
<1>3. Idle \in WorkerRecord /\ Idle.pc = "idle" /\ Idle.rt = "none"
  BY DEF Idle, WorkerRecord, Pcs
<1>4. QED
  BY <1>1, <1>2, <1>3

\* The record of an AgentRuntime stays one when a field is set.
LEMMA RuntimeFields ==
  ASSUME NEW x \in RuntimeRecord
  PROVE  /\ [x EXCEPT !.state = "deleting"] \in RuntimeRecord
         /\ [x EXCEPT !.fin = "yes"] \in RuntimeRecord
         /\ [x EXCEPT !.fin = "yes"].fin = "yes"
         /\ \A c \in {"target", "ready"} :
              LET failed == [x EXCEPT ![c] = "False"]
              IN  failed \in RuntimeRecord /\ failed.state = x.state /\ failed.fin = x.fin
<1>1. [x EXCEPT !.state = "deleting"] \in RuntimeRecord
  BY SMT DEF RuntimeRecord
<1>2. [x EXCEPT !.fin = "yes"] \in RuntimeRecord /\ [x EXCEPT !.fin = "yes"].fin = "yes"
  BY SMT DEF RuntimeRecord
<1>3. LET failed == [x EXCEPT !["target"] = "False"]
      IN  failed \in RuntimeRecord /\ failed.state = x.state /\ failed.fin = x.fin
  BY SMT DEF RuntimeRecord, Conditions
<1>4. LET failed == [x EXCEPT !["ready"] = "False"]
      IN  failed \in RuntimeRecord /\ failed.state = x.state /\ failed.fin = x.fin
  BY SMT DEF RuntimeRecord, Conditions
<1> QED
  BY <1>1, <1>2, <1>3, <1>4

\* Initially everything has its type.
LEMMA TypeInit == ARInit => ARTypeOK
<1> SUFFICES ASSUME ARInit PROVE ARTypeOK
  OBVIOUS
<1>1. rt \in [Runtimes -> RuntimeRecord] /\ seenRt \in [Runtimes -> RuntimeRecord]
  BY RecordsTyped DEF ARInit
<1>2. wl \in [Workloads -> WorkloadRecord] /\ seenWl \in [Workloads -> WorkloadRecord]
  BY RecordsTyped DEF ARInit
<1>3. \A r \in Runtimes : rt[r].state = "deleting" => rt[r].fin = "yes"
  BY DEF ARInit, NoRuntime
<1>4. QED
  BY <1>1, <1>2, <1>3, RecordsTyped, TemplateAssumption, RuntimeBoundsAssumption, SMT
  DEF ARInit, ARTypeOK

\* The steps that are not the worker's.
Environment ==
  \/ \E r \in Runtimes :
       \/ ValidateCreate(r) \/ DeleteRuntime(r) \/ RuntimeEvent(r)
       \/ \E s \in Specs : CreateRuntime(r, s) \/ EditRuntime(r, s)
  \/ \E w \in Workloads :
       EditWorkload(w) \/ WorkloadEvent(w) \/ RollOut(w) \/ ScaleSandbox(w)
  \/ EditConfig \/ ConfigEvent \/ Resync \/ Restart

\* They keep the types.
LEMMA TypeEnvironment ==
  ASSUME ARTypeOK, Environment
  PROVE  ARTypeOK'
<1> USE RuntimeBoundsAssumption
<1>1. ASSUME NEW r \in Runtimes, ValidateCreate(r) PROVE ARTypeOK'
  BY <1>1, SMT DEF ARTypeOK, ValidateCreate, Edit, CheckDuplicateTargetRef, Fault
<1>2. ASSUME NEW r \in Runtimes, DeleteRuntime(r) PROVE ARTypeOK'
  <2> DEFINE marked == [rt[r] EXCEPT !.state = "deleting"]
  <2>0. marked \in RuntimeRecord
    BY RuntimeFields DEF ARTypeOK
  <2>1. rt' \in [Runtimes -> RuntimeRecord]
    <3>1. rt' = [rt EXCEPT ![r] = IF rt[r].fin = "yes" THEN marked ELSE NoRuntime]
      BY <1>2 DEF DeleteRuntime
    <3> HIDE DEF marked
    <3>2. QED
      BY <2>0, <3>1, RecordsTyped DEF ARTypeOK
  <2>2. \A q \in Runtimes : rt'[q].state = "deleting" => rt'[q].fin = "yes"
    BY <1>2, SMT DEF ARTypeOK, DeleteRuntime, RuntimeRecord, NoRuntime
  <2>3. QED
    BY <1>2, <2>1, <2>2, SMT DEF ARTypeOK, DeleteRuntime, Edit
<1>3. ASSUME NEW r \in Runtimes, RuntimeEvent(r) PROVE ARTypeOK'
  BY <1>3 DEF ARTypeOK, RuntimeEvent
<1>4. ASSUME NEW r \in Runtimes, NEW s \in Specs, CreateRuntime(r, s) PROVE ARTypeOK'
  <2>1. rt' \in [Runtimes -> RuntimeRecord]
    BY <1>4 DEF ARTypeOK, CreateRuntime, RuntimeRecord, NewRuntime, Conditions
  <2>2. \A q \in Runtimes : rt'[q].state = "deleting" => rt'[q].fin = "yes"
    BY <1>4 DEF ARTypeOK, CreateRuntime, NewRuntime
  <2>3. QED
    BY <1>4, <2>1, <2>2 DEF ARTypeOK, CreateRuntime
<1>5. ASSUME NEW r \in Runtimes, NEW s \in Specs, EditRuntime(r, s) PROVE ARTypeOK'
  <2>1. rt' \in [Runtimes -> RuntimeRecord]
    BY <1>5, SMT DEF ARTypeOK, EditRuntime, RuntimeRecord
  <2>2. \A q \in Runtimes : rt'[q].state = "deleting" => rt'[q].fin = "yes"
    BY <1>5, SMT DEF ARTypeOK, EditRuntime, RuntimeRecord
  <2>3. QED
    BY <1>5, <2>1, <2>2, SMT DEF ARTypeOK, EditRuntime, Edit, CheckDuplicateTargetRef, Fault
<1>6. ASSUME NEW w \in Workloads, EditWorkload(w) PROVE ARTypeOK'
  <2> DEFINE bare == [wl[w] EXCEPT !.spec = NoSpec, !.hash = NoHash]
  <2>0. bare \in WorkloadRecord
    <3>1. wl[w] \in WorkloadRecord
      BY DEF ARTypeOK
    <3>2. QED
      BY <3>1 DEF WorkloadRecord
  <2>1. wl' \in [Workloads -> WorkloadRecord]
    <3>1. wl' = [wl EXCEPT ![w] = IF wl[w].exists = "no" THEN NewWorkload
                                  ELSE IF wl[w].spec = NoSpec THEN NoWorkload ELSE bare]
      BY <1>6 DEF EditWorkload
    <3> HIDE DEF bare
    <3>2. QED
      BY <2>0, <3>1, RecordsTyped DEF ARTypeOK
  <2>2. QED
    BY <1>6, <2>1, SMT DEF ARTypeOK, EditWorkload, Edit
<1>7. ASSUME NEW w \in Workloads, WorkloadEvent(w) PROVE ARTypeOK'
  BY <1>7 DEF ARTypeOK, WorkloadEvent, Known
<1>8. ASSUME NEW w \in Workloads, RollOut(w) PROVE ARTypeOK'
  BY <1>8 DEF ARTypeOK, RollOut, WorkloadRecord
<1>9. ASSUME NEW w \in Workloads, ScaleSandbox(w) PROVE ARTypeOK'
  BY <1>9 DEF ARTypeOK, ScaleSandbox, WorkloadRecord
<1>10. CASE EditConfig
  BY <1>10, SMT DEF ARTypeOK, EditConfig, Edit
<1>11. CASE ConfigEvent
  BY <1>11 DEF ARTypeOK, ConfigEvent, Known
<1>12. CASE Resync
  BY <1>12 DEF ARTypeOK, Resync, Known
<1>13. CASE Restart
  BY <1>13, SMT DEF ARTypeOK, Restart, Fault, Idle, WorkerRecord, Pcs
<1>14. QED
  BY <1>1, <1>2, <1>3, <1>4, <1>5, <1>6, <1>7, <1>8, <1>9, <1>10, <1>11, <1>12, <1>13 DEF Environment

\* The worker reconciles an AgentRuntime, whose target is a workload.
LEMMA TargetTyped ==
  ASSUME ARTypeOK, rec.pc # "idle"
  PROVE  Self \in Runtimes /\ Target \in Workloads
  BY TargetAssumption DEF ARTypeOK, WorkerRecord, Self, Target

\* The worker goes on with the same AgentRuntime, or ends the reconcile.
LEMMA GotoEffect ==
  ASSUME ARTypeOK, NEW pc \in Pcs \ {"idle"}, Goto(pc), rec.pc # "idle"
  PROVE  /\ rec' \in WorkerRecord /\ rec'.pc = pc /\ rec'.rt = rec.rt /\ rec'.rt # "none"
         /\ queue' = queue
  BY DEF ARTypeOK, Goto, WorkerRecord

\* A requeue leaves the worker idle and its AgentRuntime in the queue.
LEMMA RequeueEffect ==
  ASSUME ARTypeOK, Requeue, rec.pc # "idle"
  PROVE  rec' = Idle /\ queue' \subseteq Runtimes /\ Self \in Runtimes
  BY DEF ARTypeOK, Requeue, Self, WorkerRecord

\* The conditions of an AgentRuntime can be written, and nothing else is.
SameRuntimes ==
  /\ rt' \in [Runtimes -> RuntimeRecord]
  /\ \A r \in Runtimes : rt'[r].state = rt[r].state /\ rt'[r].fin = rt[r].fin

\* A workload keeps its stamp, and is there or not as before.
SameStamps ==
  /\ wl' \in [Workloads -> WorkloadRecord]
  /\ \A w \in Workloads : wl'[w].exists = wl[w].exists /\ wl'[w].hash = wl[w].hash

\* updateErrorStatus writes a condition only.
LEMMA FailsEffect ==
  ASSUME ARTypeOK, NEW c \in {"target", "ready"}, Fails(c), rec.pc # "idle"
  PROVE  rec' = Idle /\ queue' \subseteq Runtimes /\ SameRuntimes
<1>1. rec' = Idle /\ queue' \subseteq Runtimes /\ Self \in Runtimes
  BY RequeueEffect DEF Fails
<1>2. CASE UNCHANGED rt
  BY <1>1, <1>2 DEF SameRuntimes, ARTypeOK
<1>3. CASE rt' = [rt EXCEPT ![Self] = IF rt[Self].state = "none" THEN rt[Self]
                                      ELSE [rt[Self] EXCEPT ![c] = "False"]]
  <2> DEFINE failed == [rt[Self] EXCEPT ![c] = "False"]
  <2>1. failed \in RuntimeRecord /\ failed.state = rt[Self].state /\ failed.fin = rt[Self].fin
    BY <1>1, RuntimeFields DEF ARTypeOK
  <2>2. rt' = [rt EXCEPT ![Self] = IF rt[Self].state = "none" THEN rt[Self] ELSE failed]
    BY <1>3
  <2> HIDE DEF failed
  <2>3. SameRuntimes
    BY <1>1, <2>1, <2>2 DEF ARTypeOK, SameRuntimes
  <2>4. QED
    BY <1>1, <2>3
<1>4. QED
  BY <1>2, <1>3 DEF Fails

\* What all steps of a reconcile have in common.
WorkerFrame ==
  /\ UNCHANGED outside
  /\ nsconf' \in Configs \cup {Empty} /\ notice' \in {"yes", "no"}
  /\ prepared \subseteq prepared' /\ prepared' \subseteq Needed
  /\ queue' \subseteq Runtimes /\ faults' \in 0..MaxFaults

\* A step that neither stamps, cleans up, nor removes a finalizer.
Continues == rec' \in WorkerRecord /\ rec'.rt = rec.rt /\ {rec.pc, rec'.pc} \subseteq Stamping
Quiet == WorkerFrame /\ SameRuntimes /\ SameStamps /\ (rec' = Idle \/ Continues)

\* Its parts, for the steps that leave them alone.
LEMMA Unchanged ==
  ASSUME ARTypeOK
  PROVE  /\ UNCHANGED rt => SameRuntimes
         /\ UNCHANGED wl => SameStamps
         /\ UNCHANGED prepared => prepared \subseteq prepared' /\ prepared' \subseteq Needed
         /\ UNCHANGED nsconf => nsconf' \in Configs \cup {Empty}
         /\ UNCHANGED notice => notice' \in {"yes", "no"}
         /\ UNCHANGED faults \/ Fault => faults' \in 0..MaxFaults
         /\ UNCHANGED queue => queue' \subseteq Runtimes
  BY RuntimeBoundsAssumption, SMT DEF ARTypeOK, SameRuntimes, SameStamps, Fault

\* Going on between two steps that lead to a stamp.
LEMMA GotoContinues ==
  ASSUME ARTypeOK, NEW pc \in Stamping, Goto(pc), rec.pc \in Stamping
  PROVE  Continues /\ queue' \subseteq Runtimes
<1>1. pc \in Pcs \ {"idle"} /\ rec.pc # "idle"
  BY DEF Stamping, Pcs
<1>2. QED
  BY <1>1, GotoEffect DEF Continues, ARTypeOK

\* The target is looked up.
LEMMA ResolveQuiet == ARTypeOK /\ ResolveTargetRef => Quiet
<1> SUFFICES ASSUME ARTypeOK, ResolveTargetRef PROVE Quiet
  OBVIOUS
<1>0. rec.pc = "target" /\ rec.pc \in Stamping /\ rec.pc # "idle"
  BY DEF ResolveTargetRef, At, Stamping
<1>1. CASE Goto(IF kind[Target] = "Sandbox" THEN "sandbox" ELSE "configmaps")
           /\ UNCHANGED <<rt, faults>>
  <2>1. PICK pc \in Stamping : Goto(pc)
    BY <1>1 DEF Stamping
  <2>2. QED
    BY <1>0, <1>1, <2>1, GotoContinues, Unchanged
    DEF Quiet, WorkerFrame, ResolveTargetRef
<1>2. CASE Fails("target") /\ (UNCHANGED faults \/ Fault)
  BY <1>0, <1>2, FailsEffect, Unchanged DEF Quiet, WorkerFrame, ResolveTargetRef
<1>3. QED
  BY <1>1, <1>2 DEF ResolveTargetRef

\* Phase 2 of a Sandbox's restart scales it up.
LEMMA CompleteQuiet == ARTypeOK /\ CompleteSandboxRestart => Quiet
<1> SUFFICES ASSUME ARTypeOK, CompleteSandboxRestart PROVE Quiet
  OBVIOUS
<1>0. rec.pc = "sandbox" /\ rec.pc \in Stamping /\ rec.pc # "idle" /\ "configmaps" \in Stamping
  BY DEF CompleteSandboxRestart, At, Stamping
<1>1. SameStamps
  <2>1. CASE wl' = [wl EXCEPT ![Target].pending = "no", ![Target].replicas = 1]
    <3>1. /\ wl[Target] \in WorkloadRecord
          /\ wl' = [wl EXCEPT ![Target] = [wl[Target] EXCEPT !.pending = "no", !.replicas = 1]]
      BY <1>0, <2>1, TargetTyped DEF ARTypeOK
    <3> DEFINE done == [wl[Target] EXCEPT !.pending = "no", !.replicas = 1]
    <3>2. /\ done \in WorkloadRecord
          /\ done.exists = wl[Target].exists /\ done.hash = wl[Target].hash
      BY <3>1 DEF WorkloadRecord
    <3>3. wl' = [wl EXCEPT ![Target] = done]
      BY <3>1
    <3> HIDE DEF done
    <3>4. QED
      BY <3>2, <3>3 DEF SameStamps, ARTypeOK
  <2>2. QED
    BY <2>1, Unchanged DEF CompleteSandboxRestart
<1>2. CASE Requeue
  BY <1>0, <1>1, <1>2, RequeueEffect, Unchanged DEF Quiet, WorkerFrame, CompleteSandboxRestart
<1>3. CASE Goto("configmaps")
  BY <1>0, <1>1, <1>3, GotoContinues, Unchanged DEF Quiet, WorkerFrame, CompleteSandboxRestart
<1>4. QED
  BY <1>2, <1>3 DEF CompleteSandboxRestart

\* The namespace's ConfigMaps are created from their templates.
LEMMA ConfigMapsQuiet == ARTypeOK /\ EnsureNamespaceConfigMaps => Quiet
<1> SUFFICES ASSUME ARTypeOK, EnsureNamespaceConfigMaps PROVE Quiet
  OBVIOUS
<1>0. rec.pc \in Stamping /\ "helper" \in Stamping
  BY DEF EnsureNamespaceConfigMaps, At, Stamping
<1>1. Continues /\ queue' \subseteq Runtimes
  BY <1>0, GotoContinues DEF EnsureNamespaceConfigMaps
<1>2. nsconf' \in Configs \cup {Empty} /\ notice' \in {"yes", "no"}
  BY Unchanged, TemplateAssumption DEF EnsureNamespaceConfigMaps
<1>3. QED
  BY <1>1, <1>2, Unchanged DEF Quiet, WorkerFrame, EnsureNamespaceConfigMaps

\* The three steps that prepare the namespace.
LEMMA EnsureQuiet ==
  ASSUME ARTypeOK, NEW x, NEW pc \in Stamping, NEW next \in Stamping, NEW must \in BOOLEAN,
         Ensure(x, pc, next, must)
  PROVE  Quiet
<1>0. rec.pc \in Stamping /\ rec.pc # "idle"
  BY DEF Ensure, At, Stamping
<1>1. prepared \subseteq prepared' /\ prepared' \subseteq Needed
  BY DEF Ensure, ARTypeOK
<1>2. CASE Goto(next) /\ UNCHANGED rt
  BY <1>0, <1>1, <1>2, GotoContinues, Unchanged DEF Quiet, WorkerFrame, Ensure
<1>3. CASE Fails("ready")
  BY <1>0, <1>1, <1>3, FailsEffect, Unchanged DEF Quiet, WorkerFrame, Ensure
<1>4. QED
  BY <1>2, <1>3 DEF Ensure

\* The two steps that read the configuration.
LEMMA ReadQuiet == ARTypeOK /\ (ReadClusterDefaults \/ ReadNamespaceDefaults) => Quiet
<1> SUFFICES ASSUME ARTypeOK, ReadClusterDefaults \/ ReadNamespaceDefaults PROVE Quiet
  OBVIOUS
<1>1. Continues
  <2>1. CASE ReadClusterDefaults
    <3>1. /\ rec.pc = "cluster"
          /\ \E v \in Configs \cup {Empty} : rec' = [rec EXCEPT !.pc = "ns", !.cluster = v]
      BY <2>1 DEF ReadClusterDefaults, ReadConfig, At, ARTypeOK
    <3>2. QED
      BY <3>1 DEF Continues, Stamping, ARTypeOK, WorkerRecord, Pcs
  <2>2. CASE ReadNamespaceDefaults
    <3>1. /\ rec.pc = "ns"
          /\ \E v \in Configs \cup {Empty} : rec' = [rec EXCEPT !.pc = "apply", !.ns = v]
      BY <2>2 DEF ReadNamespaceDefaults, ReadConfig, At, ARTypeOK
    <3>2. QED
      BY <3>1 DEF Continues, Stamping, ARTypeOK, WorkerRecord, Pcs
  <2>3. QED
    BY <2>1, <2>2
<1>2. UNCHANGED <<outside, nsconf, prepared, rt, wl, notice, queue>>
      /\ (UNCHANGED faults \/ Fault)
  BY DEF ReadClusterDefaults, ReadNamespaceDefaults, ReadConfig
<1>3. QED
  BY <1>1, <1>2, Unchanged DEF Quiet, WorkerFrame

\* Phase 1 of a Sandbox's restart scales it down.
LEMMA RestartQuiet == ARTypeOK /\ BeginSandboxRestart => Quiet
<1> SUFFICES ASSUME ARTypeOK, BeginSandboxRestart PROVE Quiet
  OBVIOUS
<1>0. rec.pc \in Stamping /\ rec.pc # "idle" /\ "status" \in Stamping
  BY DEF BeginSandboxRestart, At, Stamping
<1>1. SameStamps
  <2>1. CASE wl' = [wl EXCEPT ![Target].replicas = 0, ![Target].pending = "yes"]
    <3>1. /\ wl[Target] \in WorkloadRecord
          /\ wl' = [wl EXCEPT ![Target] = [wl[Target] EXCEPT !.replicas = 0, !.pending = "yes"]]
      BY <1>0, <2>1, TargetTyped DEF ARTypeOK
    <3> DEFINE down == [wl[Target] EXCEPT !.replicas = 0, !.pending = "yes"]
    <3>2. /\ down \in WorkloadRecord
          /\ down.exists = wl[Target].exists /\ down.hash = wl[Target].hash
      BY <3>1 DEF WorkloadRecord
    <3>3. wl' = [wl EXCEPT ![Target] = down]
      BY <3>1
    <3> HIDE DEF down
    <3>4. QED
      BY <3>2, <3>3 DEF SameStamps, ARTypeOK
  <2>2. QED
    BY <2>1, Unchanged DEF BeginSandboxRestart
<1>2. CASE Goto("status") /\ UNCHANGED <<rt, faults>>
  BY <1>0, <1>1, <1>2, GotoContinues, Unchanged DEF Quiet, WorkerFrame, BeginSandboxRestart
<1>3. CASE Fails("ready") /\ (UNCHANGED faults \/ Fault)
  BY <1>0, <1>1, <1>3, FailsEffect, Unchanged DEF Quiet, WorkerFrame, BeginSandboxRestart
<1>4. QED
  BY <1>2, <1>3 DEF BeginSandboxRestart

\* The status is written.
LEMMA StatusQuiet == ARTypeOK /\ UpdateStatus => Quiet
<1> SUFFICES ASSUME ARTypeOK, UpdateStatus PROVE Quiet
  OBVIOUS
<1>0. rec.pc # "idle"
  BY DEF UpdateStatus, At
<1>1. SameRuntimes
  <2>1. CASE rt' = [rt EXCEPT ![Self].target = "True", ![Self].ready = "True"]
    <3>1. /\ rt[Self] \in RuntimeRecord
          /\ rt' = [rt EXCEPT ![Self] = [rt[Self] EXCEPT !.target = "True", !.ready = "True"]]
      BY <1>0, <2>1, TargetTyped DEF ARTypeOK
    <3> DEFINE done == [rt[Self] EXCEPT !.target = "True", !.ready = "True"]
    <3>2. done \in RuntimeRecord /\ done.state = rt[Self].state /\ done.fin = rt[Self].fin
      BY <3>1 DEF RuntimeRecord, Conditions
    <3>3. rt' = [rt EXCEPT ![Self] = done]
      BY <3>1
    <3> HIDE DEF done
    <3>4. QED
      BY <3>2, <3>3 DEF SameRuntimes, ARTypeOK
  <2>2. QED
    BY <2>1, Unchanged DEF UpdateStatus
<1>2. rec' = Idle /\ queue' \subseteq Runtimes
  BY <1>0, RequeueEffect, Unchanged DEF UpdateStatus
<1>3. QED
  BY <1>1, <1>2, Unchanged DEF Quiet, WorkerFrame, UpdateStatus

-----------------------------------------------------------------------------
\* The step that stamps: the worker reads a copy that shows the workload and is current.
Stamps ==
  /\ WorkerFrame /\ UNCHANGED <<rt, prepared>> /\ Continues /\ rec.pc = "apply"
  /\ View(Target).exists = "yes" /\ View(Target) = wl[Target]
  /\ \E stamped \in WorkloadRecord :
       stamped.exists = wl[Target].exists /\ wl' = [wl EXCEPT ![Target] = stamped]

\* The step after which the finalizer can be removed.
Cleans ==
  /\ WorkerFrame /\ UNCHANGED rt
  /\ rec.pc = "clean" /\ rec' \in WorkerRecord /\ rec'.pc = "finalizer" /\ rec'.rt = rec.rt
  /\ \/ View(Target).exists = "no" /\ UNCHANGED wl
     \/ \E bare \in WorkloadRecord :
          /\ bare.exists = wl[Target].exists /\ bare.hash = NoHash
          /\ wl' = [wl EXCEPT ![Target] = bare]

\* The step that lets an AgentRuntime go.
Releases ==
  /\ WorkerFrame /\ UNCHANGED <<wl, prepared>> /\ rec.pc = "finalizer" /\ rec' = Idle
  /\ seenRt[Self] = rt[Self] /\ rt[Self].state # "none"
  /\ rt' \in [Runtimes -> RuntimeRecord]
  /\ \A r \in Runtimes \ {Self} : rt'[r] = rt[r]
  /\ IF rt[Self].state = "deleting" THEN rt'[Self] = NoRuntime
                                    ELSE rt'[Self].state = rt[Self].state /\ rt'[Self].fin = "no"

\* applyWorkloadConfig stamps, finds the stamp in place, or fails.
LEMMA ApplyEffect == ARTypeOK /\ ApplyWorkloadConfig => Quiet \/ Stamps
<1> SUFFICES ASSUME ARTypeOK, ApplyWorkloadConfig PROVE Quiet \/ Stamps
  OBVIOUS
<1>0. rec.pc \in Stamping /\ rec.pc # "idle" /\ {"status", "restart"} \subseteq Stamping
  BY DEF ApplyWorkloadConfig, At, Stamping
<1>1. CASE Goto("status") /\ UNCHANGED <<rt, wl, faults>>
  BY <1>0, <1>1, GotoContinues, Unchanged DEF Quiet, WorkerFrame, ApplyWorkloadConfig
<1>2. CASE Fails("ready") /\ UNCHANGED wl /\ (UNCHANGED faults \/ Fault)
  BY <1>0, <1>2, FailsEffect, Unchanged DEF Quiet, WorkerFrame, ApplyWorkloadConfig
<1>3. CASE /\ View(Target).exists = "yes" /\ View(Target) = wl[Target]
           /\ wl' = [wl EXCEPT ![Target].spec = rec.spec, ![Target].hash = Hash]
           /\ \E pc \in {"restart", "status"} : Goto(pc)
           /\ UNCHANGED <<rt, faults>>
  <2>1. Continues /\ queue' \subseteq Runtimes
    BY <1>0, <1>3, GotoContinues
  <2>2. /\ wl[Target] \in WorkloadRecord
        /\ wl' = [wl EXCEPT ![Target] = [wl[Target] EXCEPT !.spec = rec.spec, !.hash = Hash]]
    BY <1>0, <1>3, TargetTyped DEF ARTypeOK
  <2>3. Hash \in Hashes /\ rec.spec \in Specs \cup {NoSpec}
    BY DEF Hash, Hashes, ARTypeOK, WorkerRecord
  <2> DEFINE stamped == [wl[Target] EXCEPT !.spec = rec.spec, !.hash = Hash]
  <2>4. stamped \in WorkloadRecord /\ stamped.exists = wl[Target].exists
    BY <2>2, <2>3 DEF WorkloadRecord
  <2>5. wl' = [wl EXCEPT ![Target] = stamped]
    BY <2>2
  <2> HIDE DEF stamped
  <2>6. Stamps
    BY <1>3, <2>1, <2>4, <2>5, Unchanged DEF Stamps, WorkerFrame, ApplyWorkloadConfig, At
  <2>7. QED
    BY <2>6
<1>4. QED
  BY <1>1, <1>2, <1>3 DEF ApplyWorkloadConfig

\* handleDeletion takes the stamp off, finds no workload, or is repeated.
LEMMA CleanEffect == ARTypeOK /\ CleanWorkload => Quiet \/ Cleans
<1> SUFFICES ASSUME ARTypeOK, CleanWorkload PROVE Quiet \/ Cleans
  OBVIOUS
<1>0. rec.pc = "clean" /\ rec.pc # "idle" /\ "finalizer" \in Pcs \ {"idle"}
  BY DEF CleanWorkload, At, Pcs
<1>1. CASE Requeue /\ UNCHANGED wl
  BY <1>0, <1>1, RequeueEffect, Unchanged DEF Quiet, WorkerFrame, CleanWorkload
<1>2. ASSUME Goto("finalizer") PROVE
        /\ WorkerFrame /\ UNCHANGED rt
        /\ rec' \in WorkerRecord /\ rec'.pc = "finalizer" /\ rec'.rt = rec.rt
  BY <1>0, <1>2, GotoEffect, Unchanged DEF WorkerFrame, CleanWorkload
<1>3. CASE View(Target).exists = "no" /\ Goto("finalizer") /\ UNCHANGED wl
  BY <1>0, <1>2, <1>3 DEF Cleans
<1>4. CASE /\ wl' = [wl EXCEPT ![Target].spec = NoSpec, ![Target].hash = NoHash]
           /\ Goto("finalizer")
  <2>1. /\ wl[Target] \in WorkloadRecord
        /\ wl' = [wl EXCEPT ![Target] = [wl[Target] EXCEPT !.spec = NoSpec, !.hash = NoHash]]
    BY <1>0, <1>4, TargetTyped DEF ARTypeOK
  <2> DEFINE bare == [wl[Target] EXCEPT !.spec = NoSpec, !.hash = NoHash]
  <2>2. bare \in WorkloadRecord /\ bare.exists = wl[Target].exists /\ bare.hash = NoHash
    BY <2>1 DEF WorkloadRecord
  <2>3. wl' = [wl EXCEPT ![Target] = bare]
    BY <2>1
  <2> HIDE DEF bare
  <2>4. QED
    BY <1>0, <1>2, <1>4, <2>2, <2>3 DEF Cleans
<1>5. QED
  BY <1>1, <1>3, <1>4 DEF CleanWorkload

\* handleDeletion removes the finalizer, or is repeated.
LEMMA RemoveEffect == ARTypeOK /\ RemoveFinalizer => Quiet \/ Releases
<1> SUFFICES ASSUME ARTypeOK, RemoveFinalizer PROVE Quiet \/ Releases
  OBVIOUS
<1>0. rec.pc = "finalizer" /\ rec.pc # "idle" /\ (UNCHANGED faults \/ Fault)
  BY DEF RemoveFinalizer, At, CheckDuplicateTargetRef
<1>1. CASE Requeue /\ UNCHANGED rt
  BY <1>0, <1>1, RequeueEffect, Unchanged DEF Quiet, WorkerFrame, RemoveFinalizer
<1>2. CASE /\ seenRt[Self] = rt[Self] /\ rt[Self].state # "none"
           /\ CheckDuplicateTargetRef(Self)
           /\ rt' = [rt EXCEPT ![Self] = IF rt[Self].state = "deleting" THEN NoRuntime
                                         ELSE [rt[Self] EXCEPT !.fin = "no"]]
           /\ rec' = Idle /\ UNCHANGED queue
  <2>1. Self \in Runtimes /\ rt[Self] \in RuntimeRecord
    BY <1>0, TargetTyped DEF ARTypeOK
  <2> DEFINE kept == [rt[Self] EXCEPT !.fin = "no"]
  <2>2. kept \in RuntimeRecord /\ kept.state = rt[Self].state /\ kept.fin = "no"
    BY <2>1 DEF RuntimeRecord
  <2>3. rt' = [rt EXCEPT ![Self] = IF rt[Self].state = "deleting" THEN NoRuntime ELSE kept]
    BY <1>2
  <2> HIDE DEF kept
  <2>4. /\ rt' \in [Runtimes -> RuntimeRecord]
        /\ \A r \in Runtimes \ {Self} : rt'[r] = rt[r]
        /\ IF rt[Self].state = "deleting" THEN rt'[Self] = NoRuntime
           ELSE rt'[Self].state = rt[Self].state /\ rt'[Self].fin = "no"
    BY <2>1, <2>2, <2>3, RecordsTyped DEF ARTypeOK
  <2>5. Releases
    BY <1>0, <1>2, <2>4, Unchanged DEF Releases, WorkerFrame, RemoveFinalizer
  <2>6. QED
    BY <2>5
<1>3. QED
  BY <1>1, <1>2 DEF RemoveFinalizer

\* Every step of a reconcile is quiet, stamps, cleans up or lets go.
LEMMA WorkerEffects ==
  ARTypeOK /\ ReconcileStep => Quiet \/ Stamps \/ Cleans \/ Releases
<1> SUFFICES ASSUME ARTypeOK, ReconcileStep PROVE Quiet \/ Stamps \/ Cleans \/ Releases
  OBVIOUS
<1>1. CASE EnsureSpiffeHelperConfigMap
  BY <1>1, EnsureQuiet DEF EnsureSpiffeHelperConfigMap, Stamping
<1>2. CASE EnsureIstioMeshLabels
  BY <1>2, EnsureQuiet DEF EnsureIstioMeshLabels, Stamping
<1>3. CASE EnsureNamespaceSCCBinding
  BY <1>3, EnsureQuiet DEF EnsureNamespaceSCCBinding, Stamping
<1>4. QED
  BY <1>1, <1>2, <1>3, ResolveQuiet, CompleteQuiet, ConfigMapsQuiet, ReadQuiet, RestartQuiet,
     StatusQuiet, ApplyEffect, CleanEffect, RemoveEffect
  DEF ReconcileStep

\* All of them keep the types.
LEMMA TypeWorker ==
  ASSUME ARTypeOK, Quiet \/ Stamps \/ Cleans \/ Releases
  PROVE  ARTypeOK'
<1>1. WorkerFrame
  BY DEF Quiet, Stamps, Cleans, Releases
<1>2. rt' \in [Runtimes -> RuntimeRecord]
  BY DEF ARTypeOK, Quiet, SameRuntimes, Stamps, Cleans, Releases
<1>3. \A r \in Runtimes : rt'[r].state = "deleting" => rt'[r].fin = "yes"
  <2>1. CASE Quiet
    BY <2>1 DEF ARTypeOK, Quiet, SameRuntimes
  <2>2. CASE Stamps \/ Cleans
    BY <2>2 DEF ARTypeOK, Stamps, Cleans
  <2>3. CASE Releases
    BY <2>3, SMT DEF ARTypeOK, Releases, NoRuntime
  <2>4. QED
    BY <2>1, <2>2, <2>3
<1>4. wl' \in [Workloads -> WorkloadRecord]
  BY DEF ARTypeOK, Quiet, SameStamps, Stamps, Cleans, Releases
<1>5. rec' \in WorkerRecord /\ (rec'.rt = "none") = (rec'.pc = "idle")
  <2>1. CASE rec' = Idle
    BY <2>1, RecordsTyped
  <2>2. CASE Continues
    BY <2>2 DEF ARTypeOK, Continues, Stamping
  <2>3. CASE Cleans
    BY <2>3 DEF ARTypeOK, Cleans
  <2>4. QED
    BY <2>1, <2>2, <2>3 DEF Quiet, Stamps, Releases
<1>6. QED
  BY <1>1, <1>2, <1>3, <1>4, <1>5 DEF ARTypeOK, WorkerFrame, outside

\* The worker begins with an AgentRuntime.
LEMMA TypeBegin ==
  ASSUME ARTypeOK, NEW r \in Runtimes, Begin(r)
  PROVE  ARTypeOK'
<1>1. CASE ReconcileGone(r)
  BY <1>1 DEF ARTypeOK, ReconcileGone, outside
<1>2. CASE AddFinalizer(r)
  <2>0. UNCHANGED rt \/ rt' = [rt EXCEPT ![r].fin = "yes"]
    BY <1>2 DEF AddFinalizer
  <2>1. rt' \in [Runtimes -> RuntimeRecord]
    <3>1. rt \in [Runtimes -> RuntimeRecord] /\ [rt[r] EXCEPT !.fin = "yes"] \in RuntimeRecord
      BY RuntimeFields DEF ARTypeOK
    <3> QED
      BY <2>0, <3>1
  <2>2. \A q \in Runtimes : rt'[q].state = "deleting" => rt'[q].fin = "yes"
    BY <1>2, SMT DEF ARTypeOK, AddFinalizer, RuntimeRecord
  <2>3. faults' \in 0..MaxFaults
    BY <1>2, Unchanged DEF AddFinalizer, CheckDuplicateTargetRef
  <2>4. queue' \subseteq Runtimes
    BY <1>2 DEF ARTypeOK, AddFinalizer
  <2>5. QED
    BY <1>2, <2>1, <2>2, <2>3, <2>4 DEF ARTypeOK, AddFinalizer, outside
<1>3. CASE ReconcileStart(r)
  <2>1. rec' \in WorkerRecord /\ rec'.rt # "none" /\ rec'.pc # "idle"
    <3> DEFINE pc == IF seenRt[r].state = "deleting" THEN "clean" ELSE "target"
    <3>1. rec' = [Idle EXCEPT !.pc = pc, !.rt = r, !.spec = seenRt[r].spec]
      BY <1>3 DEF ReconcileStart
    <3>2. pc \in Pcs \ {"idle"} /\ seenRt[r].spec \in Specs \cup {NoSpec} /\ r # "none"
      BY TargetAssumption DEF Pcs, ARTypeOK, RuntimeRecord
    <3> HIDE DEF pc
    <3>3. QED
      BY <3>1, <3>2, RecordsTyped DEF WorkerRecord
  <2>2. QED
    BY <1>3, <2>1 DEF ARTypeOK, ReconcileStart, outside
<1>4. QED
  BY <1>1, <1>2, <1>3 DEF Begin

\* Every step keeps the types.
LEMMA TypeStep == ARTypeOK /\ [ARNext]_arVars => ARTypeOK'
<1> SUFFICES ASSUME ARTypeOK, [ARNext]_arVars PROVE ARTypeOK'
  OBVIOUS
<1>1. CASE UNCHANGED arVars
  BY <1>1 DEF ARTypeOK, arVars
<1>2. CASE ReconcileStep
  BY <1>2, WorkerEffects, TypeWorker
<1>3. CASE \E r \in Runtimes : Begin(r)
  BY <1>3, TypeBegin
<1>4. QED
  BY <1>1, <1>2, <1>3, TypeEnvironment DEF ARNext, Environment

-----------------------------------------------------------------------------
\* The invariant.
LEMMA ARInvInit == ARInit => ARInv
<1> SUFFICES ASSUME ARInit PROVE ARInv
  OBVIOUS
<1>1. ARTypeOK
  BY TypeInit
<1>2. /\ \A r \in Runtimes : rt[r].state = "none" /\ rt[r].fin = "no" /\ seenRt[r] = rt[r]
      /\ \A w \in Workloads : wl[w].exists = "yes" /\ wl[w].hash = NoHash /\ seenWl[w] = wl[w]
  BY DEF ARInit, NoRuntime, NewWorkload
<1>3. ObjectsOK /\ StampHasOwner
  BY <1>2 DEF ObjectsOK, StampHasOwner, ARInit
<1>4. SeenOK
  BY <1>2 DEF SeenOK, Held, View
<1>5. WorkerOK
  BY RecordsTyped DEF WorkerOK, ARInit, Stamping, Cleaning
<1>6. QED
  BY <1>1, <1>3, <1>4, <1>5 DEF ARInv

\* A step that changes no finalizer, no stamp and no copy, whoever takes it.
LEMMA BystanderKeeps ==
  ASSUME ARInv, ARTypeOK', SameRuntimes, SameStamps,
         UNCHANGED <<kind, seenRt, seenWl, admitted>>,
         rec' = rec \/ rec' = Idle \/ Continues
  PROVE  ARInv'
<1> USE DEF ARInv
<1>1. ObjectsOK'
  BY SMTT(30) DEF ObjectsOK, SameRuntimes, SameStamps, ARTypeOK
<1>2. SeenOK'
  BY SMT DEF SeenOK, SameRuntimes, SameStamps, Held, View
<1>3. WorkerOK'
  <2>1. CASE rec' = Idle
    BY <2>1, RecordsTyped DEF WorkerOK, Stamping, Cleaning
  <2>2. CASE rec' = rec
    <3>1. CASE rec.pc = "idle"
      BY <2>2, <3>1 DEF WorkerOK, Stamping, Cleaning
    <3>2. CASE rec.pc # "idle"
      <4>1. Self' = Self /\ Target' = Target /\ Self \in Runtimes /\ Target \in Workloads
        BY <2>2, <3>2, TargetTyped DEF Self, Target
      <4>2. QED
        BY <2>2, <4>1 DEF WorkerOK, SameRuntimes, SameStamps, Held
    <3>3. QED
      BY <3>1, <3>2
  <2>3. CASE Continues
    <3>1. rec.pc \in Stamping /\ rec'.pc \in Stamping /\ Self' = Self
      BY <2>3 DEF Continues, Self
    <3>2. Self \in Runtimes
      BY <3>1, TargetTyped DEF Stamping
    <3>3. QED
      BY <3>1, <3>2 DEF WorkerOK, SameRuntimes, Stamping, Cleaning
  <2>4. QED
    BY <2>1, <2>2, <2>3
<1>4. StampHasOwner'
  <2>1. \A w \in Workloads : Owners(w)' = Owners(w)
    BY DEF Owners, SameRuntimes
  <2>2. QED
    BY <2>1 DEF StampHasOwner, SameStamps
<1>5. QED
  BY <1>1, <1>2, <1>3, <1>4

\* The worker stamps for an AgentRuntime with its finalizer, which then owns the
\* workload, and only what its copy shows.
LEMMA StampKeeps ==
  ASSUME ARInv, ARTypeOK', Stamps
  PROVE  ARInv'
<1> USE DEF ARInv
<1>0. /\ Self \in Runtimes /\ Target \in Workloads /\ rec.pc \in Stamping
      /\ UNCHANGED <<kind, seenRt, seenWl, admitted, rt>>
  BY TargetTyped DEF Stamps, Stamping, WorkerFrame, outside
<1>1. PICK stamped \in WorkloadRecord :
        stamped.exists = wl[Target].exists /\ wl' = [wl EXCEPT ![Target] = stamped]
  BY DEF Stamps
<1>2. wl[Target].exists = "yes" /\ View(Target).exists = "yes"
  BY DEF Stamps
<1>3. /\ wl'[Target].exists = "yes"
      /\ \A w \in Workloads \ {Target} : wl'[w] = wl[w]
  BY <1>0, <1>1, <1>2 DEF ARTypeOK
<1>4. ObjectsOK'
  BY <1>0, <1>3 DEF ObjectsOK
<1>5. SeenOK'
  <2>1. \A w \in Workloads : View(w)'.exists = "no" => wl'[w].hash = NoHash
    <3>1. \A w \in Workloads \ {Target} : View(w)' = View(w)
      BY <1>0, <1>3 DEF View
    <3>2. \A w \in Workloads : w = Target => View(w)'.exists = "yes"
      BY <1>0, <1>2, <1>3 DEF View
    <3>3. QED
      BY <1>3, <3>1, <3>2 DEF SeenOK
  <2>2. QED
    BY <1>0, <2>1 DEF SeenOK, Held
<1>6. WorkerOK'
  BY <1>0 DEF WorkerOK, Stamps, Continues, Stamping, Cleaning, Self
<1>7. StampHasOwner'
  <2>1. \A w \in Workloads : Owners(w)' = Owners(w)
    BY <1>0 DEF Owners
  <2>2. rt[Self].fin = "yes" /\ rt[Self].state # "none"
    BY <1>0 DEF WorkerOK, ObjectsOK
  <2>3. Self \in Owners(Target)
    BY <1>0, <2>2 DEF Owners, Target
  <2>4. QED
    BY <1>3, <2>1, <2>3 DEF StampHasOwner
<1>8. QED
  BY <1>4, <1>5, <1>6, <1>7

\* After the clean-up the stamp is off: if the worker's copy shows no workload, there
\* was no stamp (SeenOK).
LEMMA CleanKeeps ==
  ASSUME ARInv, ARTypeOK', Cleans
  PROVE  ARInv'
<1> USE DEF ARInv
<1>0. /\ Self \in Runtimes /\ Target \in Workloads /\ rec.pc \in Cleaning
      /\ UNCHANGED <<kind, seenRt, seenWl, admitted, rt>> /\ Self' = Self /\ Target' = Target
  BY TargetTyped DEF Cleans, Cleaning, WorkerFrame, outside, Self, Target
<1>1. /\ wl'[Target].exists = wl[Target].exists /\ wl'[Target].hash = NoHash
      /\ \A w \in Workloads \ {Target} : wl'[w] = wl[w]
  <2>1. CASE View(Target).exists = "no" /\ UNCHANGED wl
    BY <1>0, <2>1 DEF SeenOK
  <2>2. CASE \E bare \in WorkloadRecord :
               /\ bare.exists = wl[Target].exists /\ bare.hash = NoHash
               /\ wl' = [wl EXCEPT ![Target] = bare]
    BY <1>0, <2>2 DEF ARTypeOK
  <2>3. QED
    BY <2>1, <2>2 DEF Cleans
<1>2. ObjectsOK'
  BY <1>0, <1>1 DEF ObjectsOK
<1>3. SeenOK'
  BY <1>0, <1>1, SMTT(40) DEF SeenOK, Held, View
<1>4. WorkerOK'
  BY <1>0, <1>1 DEF WorkerOK, Held, Cleans, Stamping, Cleaning
<1>5. StampHasOwner'
  <2>1. \A w \in Workloads : Owners(w)' = Owners(w)
    BY <1>0 DEF Owners
  <2>2. QED
    BY <1>1, <2>1 DEF StampHasOwner
<1>6. QED
  BY <1>2, <1>3, <1>4, <1>5

\* An AgentRuntime that loses its finalizer leaves no stamp behind.
LEMMA ReleaseKeeps ==
  ASSUME ARInv, ARTypeOK', Releases
  PROVE  ARInv'
<1> USE DEF ARInv
<1>0. /\ Self \in Runtimes /\ Target \in Workloads
      /\ UNCHANGED <<kind, seenRt, seenWl, admitted, wl>>
      /\ \A r \in Runtimes \ {Self} : rt'[r] = rt[r]
  BY TargetTyped DEF Releases, WorkerFrame, outside
<1>1. ~ Held(Self) /\ wl[Target].hash = NoHash
  BY DEF WorkerOK, Releases, Cleaning
<1>2. rt'[Self].fin = "no" /\ (rt'[Self].state = "none" \/ rt'[Self].state = rt[Self].state)
  BY SMT DEF Releases, NoRuntime
<1>3. ObjectsOK'
  BY <1>0, <1>2, SMTT(40) DEF ObjectsOK, Releases, ARTypeOK
<1>4. SeenOK'
  <2>1. ~ (seenRt[Self].state = "live" /\ seenRt[Self].fin = "yes")
    BY <1>1 DEF Releases, Held
  <2>2. QED
    BY <1>0, <1>2, <2>1 DEF SeenOK, Held, View
<1>5. WorkerOK'
  BY RecordsTyped DEF WorkerOK, Releases, Stamping, Cleaning
<1>6. StampHasOwner'
  <2>1. \A w \in Workloads \ {Target} : Owners(w)' = Owners(w)
    BY <1>0 DEF Owners, Target
  <2>2. QED
    BY <1>0, <1>1, <2>1 DEF StampHasOwner
<1>7. QED
  BY <1>3, <1>4, <1>5, <1>6

\* The worker begins.  A copy with the finalizer and not marked for deletion is of an
\* AgentRuntime that still has it; one that is marked is of an AgentRuntime that is gone,
\* going, or new (SeenOK).
LEMMA BeginKeeps ==
  ASSUME ARInv, ARTypeOK', NEW r \in Runtimes, Begin(r)
  PROVE  ARInv'
<1> USE DEF ARInv
<1>0. rec.pc = "idle" /\ UNCHANGED <<kind, seenRt, seenWl, admitted, wl>>
  BY DEF Begin, ReconcileGone, AddFinalizer, ReconcileStart, Take, At, outside
<1>1. SameStamps
  BY <1>0, Unchanged
<1>2. CASE UNCHANGED <<rt, rec>>
  BY <1>0, <1>1, <1>2, Unchanged, BystanderKeeps
<1>3. CASE /\ seenRt[r].state = "live" /\ seenRt[r].fin = "no" /\ seenRt[r] = rt[r]
           /\ rt' = [rt EXCEPT ![r].fin = "yes"] /\ UNCHANGED rec
  <2>1. /\ rt'[r].state = "live" /\ rt'[r].fin = "yes"
        /\ \A q \in Runtimes \ {r} : rt'[q] = rt[q]
    BY <1>3, SMT DEF ARTypeOK, RuntimeRecord
  <2>2. ObjectsOK'
    BY <1>0, <1>3, <2>1, SMT DEF ObjectsOK, ARTypeOK
  <2>3. SeenOK'
    BY <1>0, <1>3, <2>1, SMT DEF SeenOK, Held, View
  <2>4. WorkerOK'
    BY <1>0, <1>3 DEF WorkerOK, Stamping, Cleaning
  <2>5. StampHasOwner'
    <3>1. \A w \in Workloads : Owners(w) \subseteq Owners(w)'
      BY <1>3, <2>1 DEF Owners
    <3>2. QED
      BY <1>0, <3>1 DEF StampHasOwner
  <2>6. QED
    BY <2>2, <2>3, <2>4, <2>5
<1>4. CASE ReconcileStart(r)
  <2>1. UNCHANGED rt /\ seenRt[r].fin = "yes"
    BY <1>4 DEF ReconcileStart
  <2>2. ObjectsOK' /\ SeenOK' /\ StampHasOwner'
    BY <1>0, <2>1 DEF ObjectsOK, SeenOK, StampHasOwner, Held, View, Owners
  <2>3. WorkerOK'
    <3>1. Self' = r /\ rec'.pc = IF seenRt[r].state = "deleting" THEN "clean" ELSE "target"
      BY <1>4 DEF ReconcileStart, Idle, Self
    <3>2. seenRt[r].state \in {"live", "deleting"}
      BY <2>1 DEF SeenOK, ARTypeOK, RuntimeRecord
    <3>3. QED
      BY <2>1, <3>1, <3>2 DEF WorkerOK, SeenOK, Held, Stamping, Cleaning
  <2>4. QED
    BY <2>2, <2>3
<1>5. QED
  BY <1>2, <1>3, <1>4 DEF Begin, ReconcileGone, AddFinalizer

\* Users and events.  A user's change leaves the finalizer and takes off stamps only; an
\* event makes a copy current.
LEMMA EnvironmentKeeps ==
  ASSUME ARInv, ARTypeOK', Environment
  PROVE  ARInv'
<1> USE DEF ARInv
<1>1. ASSUME NEW r \in Runtimes, ValidateCreate(r) PROVE ARInv'
  <2>1. /\ UNCHANGED <<kind, rt, wl, seenRt, seenWl, rec>>
        /\ admitted' = admitted \cup {r} /\ rt[r].state = "none"
    BY <1>1 DEF ValidateCreate
  <2>2. ObjectsOK'
    BY <2>1 DEF ObjectsOK
  <2>3. SeenOK' /\ StampHasOwner'
    BY <2>1 DEF SeenOK, StampHasOwner, Held, View, Owners
  <2>4. WorkerOK'
    BY <2>1 DEF WorkerOK, Held, Self, Target
  <2>5. QED
    BY <2>2, <2>3, <2>4
<1>2. ASSUME NEW r \in Runtimes, NEW s \in Specs, CreateRuntime(r, s) PROVE ARInv'
  <2>1. /\ UNCHANGED <<kind, wl, seenRt, seenWl, rec>> /\ admitted' = admitted \ {r}
        /\ rt[r].state = "none" /\ rt[r].fin = "no"
        /\ rt'[r].state = "live" /\ rt'[r].fin = "no"
        /\ \A q \in Runtimes \ {r} : rt'[q] = rt[q]
    BY <1>2 DEF CreateRuntime, ObjectsOK, NewRuntime, ARTypeOK
  <2>2. ObjectsOK'
    BY <2>1, SMT DEF ObjectsOK, ARTypeOK
  <2>3. SeenOK'
    BY <2>1 DEF SeenOK, Held, View
  <2>4. WorkerOK'
    BY <2>1, TargetTyped DEF WorkerOK, Held, Self, Target, Stamping, Cleaning
  <2>5. StampHasOwner'
    <3>1. \A w \in Workloads : Owners(w)' = Owners(w)
      BY <2>1 DEF Owners
    <3>2. QED
      BY <2>1, <3>1 DEF StampHasOwner
  <2>6. QED
    BY <2>2, <2>3, <2>4, <2>5
<1>3. ASSUME NEW r \in Runtimes, NEW s \in Specs, EditRuntime(r, s) PROVE ARInv'
  <2>1. SameRuntimes
    BY <1>3, SMT DEF EditRuntime, SameRuntimes, ARTypeOK, RuntimeRecord
  <2>2. QED
    BY <1>3, <2>1, Unchanged, BystanderKeeps DEF EditRuntime
<1>4. ASSUME NEW r \in Runtimes, DeleteRuntime(r) PROVE ARInv'
  <2>1. /\ UNCHANGED <<kind, wl, seenRt, seenWl, rec, admitted>> /\ rt[r].state = "live"
        /\ rt'[r].fin = rt[r].fin
        /\ rt'[r].state = IF rt[r].fin = "yes" THEN "deleting" ELSE "none"
        /\ \A q \in Runtimes \ {r} : rt'[q] = rt[q]
    BY <1>4, SMT DEF DeleteRuntime, NoRuntime, ARTypeOK, RuntimeRecord
  <2>2. ObjectsOK'
    <3>1. rt[r].fin \in {"yes", "no"}
      BY DEF ARTypeOK, RuntimeRecord
    <3>2. QED
      BY <2>1, <3>1, SMTT(40) DEF ObjectsOK, ARTypeOK
  <2>3. SeenOK'
    BY <2>1, SMT DEF SeenOK, Held, View
  <2>4. WorkerOK'
    BY <2>1, TargetTyped DEF WorkerOK, Held, Self, Target, Stamping, Cleaning
  <2>5. StampHasOwner'
    <3>1. \A w \in Workloads : Owners(w)' = Owners(w)
      BY <2>1 DEF Owners
    <3>2. QED
      BY <2>1, <3>1 DEF StampHasOwner
  <2>6. QED
    BY <2>2, <2>3, <2>4, <2>5
<1>5. ASSUME NEW r \in Runtimes, RuntimeEvent(r) PROVE ARInv'
  <2>1. /\ UNCHANGED <<kind, rt, wl, seenWl, rec, admitted>> /\ seenRt'[r] = rt[r]
        /\ \A q \in Runtimes \ {r} : seenRt'[q] = seenRt[q]
    BY <1>5 DEF RuntimeEvent, ARTypeOK
  <2>2. ObjectsOK' /\ StampHasOwner'
    BY <2>1 DEF ObjectsOK, StampHasOwner, Owners
  <2>3. SeenOK'
    BY <2>1, SMT DEF SeenOK, Held, View, ObjectsOK
  <2>4. WorkerOK'
    BY <2>1 DEF WorkerOK, Held, Self, Target
  <2>5. QED
    BY <2>2, <2>3, <2>4
<1>6. ASSUME NEW w \in Workloads, EditWorkload(w) PROVE ARInv'
  <2> DEFINE bare == [wl[w] EXCEPT !.spec = NoSpec, !.hash = NoHash]
  <2>0. NewWorkload.hash = NoHash /\ NoWorkload.hash = NoHash /\ bare.hash = NoHash
    <3>1. wl[w] \in WorkloadRecord
      BY DEF ARTypeOK
    <3>2. QED
      BY <3>1 DEF NewWorkload, NoWorkload, WorkloadRecord
  <2>1. /\ UNCHANGED <<kind, rt, seenRt, seenWl, rec, admitted>> /\ wl'[w].hash = NoHash
        /\ \A x \in Workloads \ {w} : wl'[x] = wl[x]
    <3>1. wl' = [wl EXCEPT ![w] = IF wl[w].exists = "no" THEN NewWorkload
                                  ELSE IF wl[w].spec = NoSpec THEN NoWorkload ELSE bare]
      BY <1>6 DEF EditWorkload
    <3> HIDE DEF bare
    <3>2. QED
      BY <1>6, <2>0, <3>1 DEF EditWorkload, ARTypeOK
  <2>2. ObjectsOK'
    BY <2>1 DEF ObjectsOK
  <2>3. SeenOK'
    BY <2>1, SMT DEF SeenOK, Held, View
  <2>4. WorkerOK'
    BY <2>1, TargetTyped DEF WorkerOK, Held, Self, Target, Stamping, Cleaning
  <2>5. StampHasOwner'
    BY <2>1 DEF StampHasOwner, Owners
  <2>6. QED
    BY <2>2, <2>3, <2>4, <2>5
<1>7. ASSUME NEW w \in Workloads, WorkloadEvent(w) PROVE ARInv'
  <2>1. /\ UNCHANGED <<kind, rt, wl, seenRt, rec, admitted>> /\ seenWl'[w] = wl[w]
        /\ \A x \in Workloads \ {w} : seenWl'[x] = seenWl[x]
    BY <1>7 DEF WorkloadEvent, ARTypeOK
  <2>2. ObjectsOK' /\ StampHasOwner'
    BY <2>1 DEF ObjectsOK, StampHasOwner, Owners
  <2>3. SeenOK'
    BY <2>1, SMT DEF SeenOK, Held, View, ObjectsOK
  <2>4. WorkerOK'
    BY <2>1 DEF WorkerOK, Held, Self, Target
  <2>5. QED
    BY <2>2, <2>3, <2>4
<1>8. ASSUME NEW w \in Workloads, RollOut(w) \/ ScaleSandbox(w) PROVE ARInv'
  BY <1>8, Unchanged, BystanderKeeps DEF RollOut, ScaleSandbox
<1>9. CASE EditConfig \/ ConfigEvent \/ Resync
  BY <1>9, Unchanged, BystanderKeeps DEF EditConfig, ConfigEvent, Resync
<1>10. CASE Restart
  <2>1. UNCHANGED <<kind, rt, wl, admitted>> /\ seenRt' = rt /\ seenWl' = wl /\ rec' = Idle
    BY <1>10 DEF Restart
  <2>2. ObjectsOK' /\ StampHasOwner'
    BY <2>1 DEF ObjectsOK, StampHasOwner, Owners
  <2>3. SeenOK'
    BY <2>1 DEF SeenOK, Held, View, ObjectsOK
  <2>4. WorkerOK'
    BY <2>1, RecordsTyped DEF WorkerOK, Stamping, Cleaning
  <2>5. QED
    BY <2>2, <2>3, <2>4
<1>11. QED
  BY <1>1, <1>2, <1>3, <1>4, <1>5, <1>6, <1>7, <1>8, <1>9, <1>10 DEF Environment

\* Every step keeps the invariant.
LEMMA ARInvStep == ARInv /\ [ARNext]_arVars => ARInv'
<1> SUFFICES ASSUME ARInv, [ARNext]_arVars PROVE ARInv'
  OBVIOUS
<1>0. ARTypeOK /\ ARTypeOK'
  BY TypeStep DEF ARInv
<1>1. CASE UNCHANGED arVars
  <2>1. UNCHANGED <<kind, rt, wl, seenRt, seenWl, rec, admitted>>
    BY <1>1 DEF arVars
  <2>2. QED
    BY <1>0, <2>1, Unchanged, BystanderKeeps
<1>2. CASE Quiet
  BY <1>0, <1>2, BystanderKeeps DEF Quiet, WorkerFrame, outside
<1>3. CASE ReconcileStep
  BY <1>0, <1>2, <1>3, WorkerEffects, StampKeeps, CleanKeeps, ReleaseKeeps
<1>4. CASE \E r \in Runtimes : Begin(r)
  BY <1>0, <1>4, BeginKeeps
<1>5. CASE Environment
  BY <1>0, <1>5, EnvironmentKeeps
<1>6. QED
  BY <1>1, <1>3, <1>4, <1>5 DEF ARNext, Environment

\* The invariant holds of the controller in every environment: the admission check may
\* fail open, requests may fail and the operator may crash.  In particular a stamped
\* workload always has an AgentRuntime with the finalizer (handleDeletion).
THEOREM StampNeverOrphaned == ARSpec => []ARInv
<1>1. QED
  BY ARInvInit, ARInvStep, PTL DEF ARSpec

-----------------------------------------------------------------------------
\* Two AgentRuntimes of one workload do not both have the finalizer.
OneOwner ==
  \A r, q \in Runtimes :
    TargetOf[r] = TargetOf[q] /\ rt[r].fin = "yes" /\ rt[q].fin = "yes" => r = q

\* Only AddFinalizer adds a finalizer.
LEMMA FinalizersAdded ==
  ASSUME ARInv, [ARNext]_arVars
  PROVE  \/ \A r \in Runtimes : rt'[r].fin = "yes" => rt[r].fin = "yes"
         \/ \E r \in Runtimes : /\ CheckDuplicateTargetRef(r)
                                /\ rt' = [rt EXCEPT ![r].fin = "yes"]
<1> USE DEF ARInv
<1> DEFINE NoneAdded == \A r \in Runtimes : rt'[r].fin = "yes" => rt[r].fin = "yes"
<1>1. SameRuntimes => NoneAdded
  BY DEF SameRuntimes
<1>2. CASE UNCHANGED rt
  BY <1>2
<1>3. CASE ReconcileStep
  <2>1. Releases => NoneAdded
    BY TargetTyped, SMT DEF Releases, NoRuntime
  <2>2. QED
    BY <1>1, <1>2, <1>3, <2>1, WorkerEffects DEF Quiet, Stamps, Cleans
<1>4. ASSUME NEW r \in Runtimes, Begin(r)
      PROVE  UNCHANGED rt \/ (CheckDuplicateTargetRef(r) /\ rt' = [rt EXCEPT ![r].fin = "yes"])
  BY <1>4 DEF Begin, ReconcileGone, ReconcileStart, AddFinalizer
<1>5. ASSUME NEW r \in Runtimes, NEW s \in Specs, CreateRuntime(r, s) \/ EditRuntime(r, s)
      PROVE  NoneAdded
  BY <1>5, SMT DEF CreateRuntime, EditRuntime, NewRuntime, ARTypeOK, RuntimeRecord
<1>6. ASSUME NEW r \in Runtimes, DeleteRuntime(r) PROVE NoneAdded
  BY <1>6 DEF DeleteRuntime, NoRuntime, ARTypeOK, RuntimeRecord
<1>7. CASE Environment
  <2>1. UNCHANGED rt \/ NoneAdded
    BY <1>5, <1>6, <1>7 DEF Environment, ValidateCreate, RuntimeEvent, EditWorkload,
       WorkloadEvent, RollOut, ScaleSandbox, EditConfig, ConfigEvent, Resync, Restart
  <2>2. QED
    BY <1>2, <2>1
<1>8. QED
  BY <1>2, <1>3, <1>4, <1>7 DEF ARNext, Environment, arVars

\* The check of the update that adds it finds every other AgentRuntime of the workload.
LEMMA OneOwnerStep ==
  ASSUME ~ FailOpen, ARInv, OneOwner, [ARNext]_arVars
  PROVE  OneOwner'
<1>1. CASE \A r \in Runtimes : rt'[r].fin = "yes" => rt[r].fin = "yes"
  BY <1>1 DEF OneOwner
<1>2. ASSUME NEW r \in Runtimes, CheckDuplicateTargetRef(r), rt' = [rt EXCEPT ![r].fin = "yes"]
      PROVE  OneOwner'
  <2>1. \A q \in Runtimes \ {r} : TargetOf[q] = TargetOf[r] => rt[q].fin = "no"
    BY <1>2 DEF CheckDuplicateTargetRef, ARInv, ObjectsOK
  <2>2. \A q \in Runtimes \ {r} : rt'[q] = rt[q]
    BY <1>2 DEF ARInv, ARTypeOK
  <2>3. QED
    BY <2>1, <2>2, SMT DEF OneOwner
<1>3. QED
  BY <1>1, <1>2, FinalizersAdded

\* If the list of the admission check does not fail, a workload has at most one owner,
\* and if it is stamped exactly one: for any number of AgentRuntimes and workloads, with
\* overlapping admissions, old copies, failed requests and crashes.
THEOREM StampsOwned == ~ FailOpen => (ARSpec => []StampOwned)
<1> SUFFICES ASSUME ~ FailOpen PROVE ARSpec => []StampOwned
  OBVIOUS
<1>1. ARInit => OneOwner
  BY SMT DEF ARInit, OneOwner, NoRuntime
<1>2. ARInv /\ OneOwner /\ [ARNext]_arVars => OneOwner'
  BY OneOwnerStep
<1>3. ARInv /\ OneOwner => StampOwned
  BY DEF ARInv, StampHasOwner, OneOwner, StampOwned, Owners
<1>4. QED
  BY <1>1, <1>2, <1>3, StampNeverOrphaned, PTL DEF ARSpec

-----------------------------------------------------------------------------
\* What the namespace has when the worker is past a step.
PastHelper == {"mesh", "scc", "cluster", "ns", "apply", "restart", "status"}
PastSCC == PastHelper \ {"mesh", "scc"}
PreparedOK ==
  /\ rec.pc \in PastHelper => "helper" \in prepared
  /\ rec.pc \in PastSCC => {"scc"} \cap Needed \subseteq prepared
  /\ StampedNamespaceReady

\* Each step that goes on leaves its part in place.
LEMMA PreparedKeeps ==
  ASSUME ARInv, ReconcileStep, PreparedOK
  PROVE  PreparedOK'
<1>0. ARTypeOK
  BY DEF ARInv
<1>1. prepared \subseteq prepared'
  BY <1>0, WorkerEffects DEF Quiet, Stamps, Cleans, Releases, WorkerFrame
<1>2. /\ rec'.pc \in PastHelper => "helper" \in prepared'
      /\ rec'.pc \in PastSCC => {"scc"} \cap Needed \subseteq prepared'
  <2> USE DEF PastHelper, PastSCC
  <2>1. CASE rec' = Idle
    BY <2>1, RecordsTyped
  <2>2. CASE EnsureSpiffeHelperConfigMap /\ Goto("mesh") /\ "helper" \in prepared'
    BY <1>0, <2>2, GotoEffect DEF EnsureSpiffeHelperConfigMap, Ensure, At, Pcs
  <2>3. CASE EnsureNamespaceSCCBinding /\ Goto("cluster") /\ {"scc"} \cap Needed \subseteq prepared'
    BY <1>0, <1>1, <2>3, GotoEffect DEF EnsureNamespaceSCCBinding, Ensure, At, Pcs, PreparedOK
  <2>4. CASE EnsureIstioMeshLabels
    BY <1>0, <1>1, <2>4, GotoEffect
    DEF EnsureIstioMeshLabels, Ensure, At, Pcs, PreparedOK, Fails, Requeue
  <2>5. CASE rec'.pc \notin PastHelper
    BY <2>5
  <2>6. CASE rec.pc \in PastSCC
    BY <1>1, <2>6 DEF PreparedOK
  <2>7. QED
    <3>1. CASE EnsureSpiffeHelperConfigMap
      BY <2>1, <2>2, <3>1, NeededAssumption DEF EnsureSpiffeHelperConfigMap, Ensure, Fails, Requeue
    <3>2. CASE EnsureNamespaceSCCBinding
      BY <2>1, <2>3, <3>2 DEF EnsureNamespaceSCCBinding, Ensure, Fails, Requeue
    <3>3. CASE ReadClusterDefaults \/ ReadNamespaceDefaults \/ ApplyWorkloadConfig
               \/ BeginSandboxRestart \/ UpdateStatus
      BY <2>6, <3>3 DEF ReadClusterDefaults, ReadNamespaceDefaults, ReadConfig,
         ApplyWorkloadConfig, BeginSandboxRestart, UpdateStatus, At
    <3>4. CASE ResolveTargetRef
      BY <1>0, <2>1, <2>5, <3>4 DEF ResolveTargetRef, Fails, Requeue, Goto, ARTypeOK, WorkerRecord
    <3>5. CASE CompleteSandboxRestart \/ EnsureNamespaceConfigMaps \/ CleanWorkload
      BY <1>0, <2>1, <2>5, <3>5 DEF CompleteSandboxRestart, EnsureNamespaceConfigMaps,
         CleanWorkload, Requeue, Goto, ARTypeOK, WorkerRecord
    <3>6. CASE RemoveFinalizer
      BY <2>1, <3>6 DEF RemoveFinalizer, Requeue
    <3>7. QED
      BY <2>4, <3>1, <3>2, <3>3, <3>4, <3>5, <3>6 DEF ReconcileStep
<1>3. StampedNamespaceReady'
  <2>1. CASE Stamps
    <3>1. rec.pc = "apply" /\ UNCHANGED prepared
      BY <2>1 DEF Stamps
    <3>2. Needed \ {"mesh"} \subseteq prepared
      BY <3>1, NeededAssumption DEF PreparedOK, PastHelper, PastSCC
    <3>3. QED
      BY <3>1, <3>2 DEF StampedNamespaceReady
  <2>2. CASE \A w \in Workloads : wl'[w].hash # NoHash => wl[w].hash # NoHash
    BY <1>1, <2>2 DEF StampedNamespaceReady, PreparedOK
  <2>3. Quiet \/ Releases => \A w \in Workloads : wl'[w].hash # NoHash => wl[w].hash # NoHash
    BY DEF Quiet, SameStamps, Releases
  <2>4. Cleans => \A w \in Workloads : wl'[w].hash # NoHash => wl[w].hash # NoHash
    BY <1>0 DEF Cleans, ARTypeOK
  <2>5. QED
    BY <1>0, <2>1, <2>2, <2>3, <2>4, WorkerEffects
<1>4. QED
  BY <1>2, <1>3 DEF PreparedOK

\* No workload is stamped before its namespace is prepared, for any number of
\* AgentRuntimes and workloads, and any faults and crashes (steps 4.5b, 4.8 and 7 of
\* Reconcile).
THEOREM NamespacePreparedFirst == ARSpec => []StampedNamespaceReady
<1>1. ARInit => PreparedOK
  BY RecordsTyped, SMT
  DEF ARInit, PreparedOK, PastHelper, PastSCC, StampedNamespaceReady, NewWorkload
<1>2. ASSUME ARInv, PreparedOK, [ARNext]_arVars PROVE PreparedOK'
  <2>1. CASE ReconcileStep
    BY <1>2, <2>1, PreparedKeeps
  <2>2. ASSUME prepared' = prepared, rec' = rec \/ rec'.pc \notin PastHelper,
               \A w \in Workloads : wl'[w].hash # NoHash => wl[w].hash # NoHash
        PROVE  PreparedOK'
    BY <1>2, <2>2 DEF PreparedOK, PastSCC, StampedNamespaceReady
  <2>3. ASSUME NEW r \in Runtimes, Begin(r) PROVE PreparedOK'
    <3>1. UNCHANGED <<prepared, wl>> /\ (rec' = rec \/ rec'.pc \in {"clean", "target"})
      BY <2>3 DEF Begin, ReconcileGone, AddFinalizer, ReconcileStart, Idle
    <3>2. QED
      BY <2>2, <3>1 DEF PastHelper
  <2>4. ASSUME NEW w \in Workloads, EditWorkload(w) PROVE PreparedOK'
    <3>1. \A x \in Workloads : wl'[x].hash # NoHash => wl[x].hash # NoHash
      BY <1>2, <2>4, SMT DEF EditWorkload, NewWorkload, NoWorkload, ARInv, ARTypeOK, WorkloadRecord
    <3>2. QED
      BY <2>2, <2>4, <3>1 DEF EditWorkload
  <2>5. CASE Restart
    <3>1. UNCHANGED <<prepared, wl>> /\ rec'.pc \notin PastHelper
      BY <2>5, RecordsTyped DEF Restart, PastHelper
    <3>2. QED
      BY <2>2, <3>1
  <2>6. CASE UNCHANGED <<prepared, wl, rec>>
    BY <2>2, <2>6
  <2>7. CASE Environment
    BY <2>4, <2>5, <2>6, <2>7, SMT DEF Environment, ValidateCreate, DeleteRuntime, RuntimeEvent,
       CreateRuntime, EditRuntime, WorkloadEvent, RollOut, ScaleSandbox, EditConfig,
       ConfigEvent, Resync
  <2>8. QED
    BY <1>2, <2>1, <2>3, <2>6, <2>7 DEF ARNext, Environment, arVars
<1>3. PreparedOK => StampedNamespaceReady
  BY DEF PreparedOK
<1>4. QED
  BY <1>1, <1>2, <1>3, StampNeverOrphaned, PTL DEF ARSpec
=============================================================================
