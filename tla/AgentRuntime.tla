---------------------------- MODULE AgentRuntime ----------------------------
(***************************************************************************)
(* The AgentRuntime controller of the operator                             *)
(* (operator/internal/controller/agentruntime_controller.go) and the       *)
(* admission check of AgentRuntime objects.  For each AgentRuntime the     *)
(* controller stamps a workload with labels and with the hash of the       *)
(* configuration, restarts a Sandbox whose hash has changed, and takes the *)
(* stamp off again before it lets a deleted AgentRuntime go.               *)
(*                                                                         *)
(* One worker runs Reconcile; each request it sends to the API server is a *)
(* step of its own.  The worker reads AgentRuntimes and workloads from the *)
(* informers' copies, which lag behind the API server; Sandboxes and       *)
(* ConfigMaps are read from the API server.  A write based on an old copy  *)
(* is refused (a conflict), any request can fail, and the process can      *)
(* crash between two requests.                                             *)
(*                                                                         *)
(* Data: spec stands for the type and the mTLS mode that the controller    *)
(* copies from the AgentRuntime to the workload, a hash is the pair of     *)
(* configurations it was computed from.  A requeue, delayed or not, puts   *)
(* the request back into the queue.  Card discovery (a flag of the         *)
(* operator) is off.                                                       *)
(***************************************************************************)
EXTENDS Naturals

CONSTANTS
  Runtimes,     \* names of AgentRuntimes
  Workloads,    \* names of workloads
  TargetOf,     \* the workload in spec.targetRef of each AgentRuntime
  Kinds,        \* the kinds a workload may have
  Specs,        \* what an AgentRuntime says of its workload
  Configs,      \* contents of a layer of configuration
  Template,     \* the content that an absent namespace layer is created with
  Needed,       \* what the namespace is prepared with: "helper", and "mesh" unless
                \* it has opted out, and "scc" on OpenShift
  FailOpen,     \* whether the list that the admission check makes may fail
  Edited,       \* what users change besides AgentRuntimes: "workload", "config"
  MaxEdits,     \* bound: changes made by users
  MaxFaults     \* bound: failed requests and crashes

ASSUME TargetAssumption == TargetOf \in [Runtimes -> Workloads] /\ "none" \notin Runtimes
ASSUME KindsAssumption == Kinds \subseteq {"Deployment", "Sandbox"}
ASSUME TemplateAssumption == Template \in Configs
ASSUME NeededAssumption == "helper" \in Needed /\ Needed \subseteq {"helper", "mesh", "scc"}
ASSUME EditedAssumption == Edited \subseteq {"workload", "config"}
ASSUME FailOpenAssumption == FailOpen \in BOOLEAN
ASSUME RuntimeBoundsAssumption == MaxEdits \in Nat /\ MaxFaults \in Nat

VARIABLES
  kind,       \* the kind of each workload
  cluster,    \* the cluster layer of the configuration
  nsconf,     \* the namespace layer
  prepared,   \* what the namespace has been prepared with
  rt,         \* the AgentRuntimes
  wl,         \* the workloads
  pods,       \* the hash in the pods that run for each workload
  seenRt,     \* the informers' copies of rt and wl
  seenWl,
  notice,     \* a configuration has changed and its event is not delivered yet
  admitted,   \* AgentRuntimes whose admission check has passed
  queue,      \* the controller's work queue
  rec,        \* the worker
  edits,
  faults

arVars == <<kind, cluster, nsconf, prepared, rt, wl, pods, seenRt, seenWl, notice,
            admitted, queue, rec, edits, faults>>

-----------------------------------------------------------------------------
Empty == "empty"        \* an absent layer of configuration
NoSpec == "none"
NoHash == <<>>
Hashes == (Configs \cup {Empty}) \X (Configs \cup {Empty})
NoPods == <<"none">>

NoRuntime == [state |-> "none", fin |-> "no", spec |-> NoSpec,
              target |-> "Unknown", ready |-> "Unknown"]
NewRuntime(s) == [state |-> "live", fin |-> "no", spec |-> s,
                  target |-> "Unknown", ready |-> "Unknown"]

NoWorkload == [exists |-> "no", spec |-> NoSpec, hash |-> NoHash,
               replicas |-> 0, pending |-> "no"]
NewWorkload == [exists |-> "yes", spec |-> NoSpec, hash |-> NoHash,
                replicas |-> 1, pending |-> "no"]

\* The worker between two reconciles.
Idle == [pc |-> "idle", rt |-> "none", spec |-> NoSpec, cluster |-> Empty, ns |-> Empty]

ARInit ==
  /\ kind \in [Workloads -> Kinds]
  /\ cluster = Template    \* which content it is makes no difference
  /\ nsconf = Empty
  /\ prepared = {}
  /\ rt = [r \in Runtimes |-> NoRuntime]
  /\ wl = [w \in Workloads |-> NewWorkload]
  /\ pods = [w \in Workloads |-> NoPods]
  /\ seenRt = rt
  /\ seenWl = wl
  /\ notice = "no"
  /\ admitted = {}
  /\ queue = {}
  /\ rec = Idle
  /\ edits = 0
  /\ faults = 0

-----------------------------------------------------------------------------
(* Users.                                                                  *)

Edit == edits < MaxEdits /\ edits' = edits + 1

Fault == faults < MaxFaults /\ faults' = faults + 1

\* checkDuplicateTargetRef, on every creation and update of the object itself (its
\* status excepted): it lists the stored objects, and lets the request pass if it
\* cannot.
CheckDuplicateTargetRef(r) ==
  \/ /\ \A q \in Runtimes \ {r} : rt[q].state # "none" => TargetOf[q] # TargetOf[r]
     /\ UNCHANGED faults
  \/ FailOpen /\ Fault

\* The check comes before the object is stored, so two of them can overlap.
ValidateCreate(r) ==
  /\ Edit
  /\ rt[r].state = "none" /\ r \notin admitted
  /\ CheckDuplicateTargetRef(r)
  /\ admitted' = admitted \cup {r}
  /\ UNCHANGED <<kind, cluster, nsconf, prepared, rt, wl, pods, seenRt, seenWl,
                 notice, queue, rec>>

CreateRuntime(r, s) ==
  /\ r \in admitted
  /\ admitted' = admitted \ {r}
  /\ rt' = [rt EXCEPT ![r] = NewRuntime(s)]
  /\ UNCHANGED <<kind, cluster, nsconf, prepared, wl, pods, seenRt, seenWl, notice,
                 queue, rec, edits, faults>>

EditRuntime(r, s) ==
  /\ Edit
  /\ rt[r].state = "live" /\ rt[r].spec # s
  /\ CheckDuplicateTargetRef(r)
  /\ rt' = [rt EXCEPT ![r].spec = s]
  /\ UNCHANGED <<kind, cluster, nsconf, prepared, wl, pods, seenRt, seenWl, notice,
                 admitted, queue, rec>>

\* An object with a finalizer is only marked.
DeleteRuntime(r) ==
  /\ Edit
  /\ rt[r].state = "live"
  /\ rt' = [rt EXCEPT ![r] = IF @.fin = "yes" THEN [@ EXCEPT !.state = "deleting"]
                                              ELSE NoRuntime]
  /\ UNCHANGED <<kind, cluster, nsconf, prepared, wl, pods, seenRt, seenWl, notice,
                 admitted, queue, rec, faults>>

\* A workload is deleted, created, or written as its author has it: unstamped.
EditWorkload(w) ==
  /\ Edit /\ "workload" \in Edited
  /\ wl' = [wl EXCEPT ![w] = IF @.exists = "no" THEN NewWorkload
                             ELSE IF @.spec = NoSpec THEN NoWorkload
                             ELSE [@ EXCEPT !.spec = NoSpec, !.hash = NoHash]]
  /\ pods' = [pods EXCEPT ![w] = IF wl'[w].exists = "no" THEN NoPods ELSE @]
  /\ UNCHANGED <<kind, cluster, nsconf, prepared, rt, seenRt, seenWl, notice,
                 admitted, queue, rec, faults>>

EditConfig ==
  /\ Edit /\ "config" \in Edited
  /\ \/ cluster' \in (Configs \cup {Empty}) \ {cluster} /\ UNCHANGED nsconf
     \/ nsconf' \in (Configs \cup {Empty}) \ {nsconf} /\ UNCHANGED cluster
  /\ notice' = "yes"
  /\ UNCHANGED <<kind, prepared, rt, wl, pods, seenRt, seenWl, admitted, queue,
                 rec, faults>>

-----------------------------------------------------------------------------
(* Informers and watches.  An event updates the informer's copy and puts   *)
(* the AgentRuntimes it concerns, as the informer knows them, in the queue. *)

Known == {r \in Runtimes : seenRt[r].state # "none"}

RuntimeEvent(r) ==
  /\ seenRt[r] # rt[r]
  /\ seenRt' = [seenRt EXCEPT ![r] = rt[r]]
  /\ queue' = queue \cup {r}
  /\ UNCHANGED <<kind, cluster, nsconf, prepared, rt, wl, pods, seenWl, notice,
                 admitted, rec, edits, faults>>

WorkloadEvent(w) ==
  /\ seenWl[w] # wl[w]
  /\ seenWl' = [seenWl EXCEPT ![w] = wl[w]]
  /\ queue' = queue \cup {r \in Known : TargetOf[r] = w}
  /\ UNCHANGED <<kind, cluster, nsconf, prepared, rt, wl, pods, seenRt, notice,
                 admitted, rec, edits, faults>>

ConfigEvent ==
  /\ notice = "yes"
  /\ notice' = "no"
  /\ queue' = queue \cup Known
  /\ UNCHANGED <<kind, cluster, nsconf, prepared, rt, wl, pods, seenRt, seenWl,
                 admitted, rec, edits, faults>>

\* The informers replay every object they know from time to time.
Resync ==
  /\ ~ (Known \subseteq queue)
  /\ queue' = queue \cup Known
  /\ UNCHANGED <<kind, cluster, nsconf, prepared, rt, wl, pods, seenRt, seenWl,
                 notice, admitted, rec, edits, faults>>

\* The operator crashes, or loses its lease, and starts anew: it lists everything.
Restart ==
  /\ Fault
  /\ rec' = Idle
  /\ seenRt' = rt /\ seenWl' = wl /\ notice' = "no"
  /\ queue' = {r \in Runtimes : rt[r].state # "none"}
  /\ UNCHANGED <<kind, cluster, nsconf, prepared, rt, wl, pods, admitted, edits>>

-----------------------------------------------------------------------------
(* Controllers of the cluster: a Deployment's pods follow its template; a  *)
(* Sandbox's pod keeps the template it was started with.                   *)

RollOut(w) ==
  /\ kind[w] = "Deployment" /\ wl[w].exists = "yes"
  /\ pods[w] # wl[w].hash
  /\ pods' = [pods EXCEPT ![w] = wl[w].hash]
  /\ UNCHANGED <<kind, cluster, nsconf, prepared, rt, wl, seenRt, seenWl, notice,
                 admitted, queue, rec, edits, faults>>

ScaleSandbox(w) ==
  /\ kind[w] = "Sandbox" /\ wl[w].exists = "yes"
  /\ (wl[w].replicas = 0) # (pods[w] = NoPods)
  /\ pods' = [pods EXCEPT ![w] = IF wl[w].replicas = 0 THEN NoPods ELSE wl[w].hash]
  /\ UNCHANGED <<kind, cluster, nsconf, prepared, rt, wl, seenRt, seenWl, notice,
                 admitted, queue, rec, edits, faults>>

-----------------------------------------------------------------------------
(* Reconcile.                                                              *)

\* Variables that no step of the worker changes.
outside == <<kind, cluster, pods, seenRt, seenWl, admitted, edits>>

Self == rec.rt
Target == TargetOf[Self]

\* The workload as the worker reads it: Sandboxes are not read from an informer.
View(w) == IF kind[w] = "Sandbox" THEN wl[w] ELSE seenWl[w]

At(pc) == rec.pc = pc

Goto(pc) == rec' = [rec EXCEPT !.pc = pc] /\ UNCHANGED queue

\* The reconcile ends, and is repeated.
Requeue == rec' = Idle /\ queue' = queue \cup {Self}

\* updateErrorStatus and a requeue.  The update is lost if the copy it is made from
\* is old, or the API server that failed the request fails this one too.
Fails(condition) ==
  /\ Requeue
  /\ \/ rt' = [rt EXCEPT ![Self] = IF @.state = "none" THEN @
                                   ELSE [@ EXCEPT ![condition] = "False"]]
     \/ (seenRt[Self] # rt[Self] \/ faults' # faults) /\ UNCHANGED rt

Take(r) == At("idle") /\ r \in queue

\* 1: the AgentRuntime is gone.
ReconcileGone(r) ==
  /\ Take(r) /\ seenRt[r].state = "none"
  /\ queue' = queue \ {r}
  /\ UNCHANGED <<outside, nsconf, prepared, rt, wl, notice, rec, faults>>

\* 3: the finalizer is added, and the update brings the AgentRuntime back.  The
\* update is refused if the copy is old or the admission check objects.
AddFinalizer(r) ==
  /\ Take(r) /\ seenRt[r].state = "live" /\ seenRt[r].fin = "no"
  /\ \/ /\ seenRt[r] = rt[r] /\ CheckDuplicateTargetRef(r)
        /\ rt' = [rt EXCEPT ![r].fin = "yes"]
        /\ queue' = queue \ {r}
     \/ UNCHANGED <<rt, queue>>
        /\ \/ /\ \/ seenRt[r] # rt[r]
                 \/ \E q \in Runtimes \ {r} : rt[q].state # "none" /\ TargetOf[q] = TargetOf[r]
              /\ UNCHANGED faults
           \/ Fault
  /\ UNCHANGED <<outside, nsconf, prepared, wl, notice, rec>>

\* Mutant: the deletion mark is not looked at.
MutStartIgnoresDeletion(r) ==
  /\ Take(r) /\ seenRt[r].fin = "yes"
  /\ queue' = queue \ {r}
  /\ rec' = [Idle EXCEPT !.pc = "target", !.rt = r, !.spec = seenRt[r].spec]
  /\ UNCHANGED <<outside, nsconf, prepared, rt, wl, notice, faults>>

\* 2 and 4: the worker starts on the AgentRuntime.
ReconcileStart(r) ==
  /\ Take(r) /\ seenRt[r].fin = "yes"
  /\ queue' = queue \ {r}
  /\ rec' = [Idle EXCEPT !.pc = IF seenRt[r].state = "deleting" THEN "clean" ELSE "target",
                         !.rt = r, !.spec = seenRt[r].spec]
  /\ UNCHANGED <<outside, nsconf, prepared, rt, wl, notice, faults>>

ResolveTargetRef ==
  /\ At("target")
  /\ \/ /\ View(Target).exists = "yes"
        /\ Goto(IF kind[Target] = "Sandbox" THEN "sandbox" ELSE "configmaps")
        /\ UNCHANGED <<rt, faults>>
     \/ View(Target).exists = "no" /\ UNCHANGED faults /\ Fails("target")
     \/ Fault /\ Fails("target")
  /\ UNCHANGED <<outside, nsconf, prepared, wl, notice>>

\* Phase 2 of a restart.  A failed first read counts as "no restart pending".
CompleteSandboxRestart ==
  /\ At("sandbox")
  /\ \/ /\ wl[Target].pending = "yes"
        /\ wl' = [wl EXCEPT ![Target].pending = "no", ![Target].replicas = 1]
        /\ Requeue /\ UNCHANGED faults
     \/ wl[Target].pending = "no" /\ Goto("configmaps") /\ UNCHANGED <<wl, faults>>
     \/ Fault /\ (Requeue \/ Goto("configmaps")) /\ UNCHANGED wl
  /\ UNCHANGED <<outside, nsconf, prepared, rt, notice>>

\* An absent ConfigMap is created from its template.  A failure is only logged.
EnsureNamespaceConfigMaps ==
  /\ At("configmaps")
  /\ Goto("helper")
  /\ \/ nsconf = Empty /\ nsconf' = Template /\ notice' = "yes" /\ UNCHANGED faults
     \/ nsconf # Empty /\ UNCHANGED <<nsconf, notice, faults>>
     \/ nsconf = Empty /\ Fault /\ UNCHANGED <<nsconf, notice>>
  /\ UNCHANGED <<outside, prepared, rt, wl>>

\* What the namespace needs is put in place; where it must be, a failure ends the
\* reconcile.
Ensure(x, pc, next, must) ==
  /\ At(pc)
  /\ \/ prepared' = prepared \cup ({x} \cap Needed) /\ Goto(next) /\ UNCHANGED <<rt, faults>>
     \/ must /\ Fault /\ Fails("ready") /\ UNCHANGED prepared
     \/ ~ must /\ Fault /\ Goto(next) /\ UNCHANGED <<prepared, rt>>
  /\ UNCHANGED <<outside, nsconf, wl, notice>>

EnsureSpiffeHelperConfigMap == Ensure("helper", "helper", "mesh", TRUE)
EnsureIstioMeshLabels == Ensure("mesh", "mesh", "scc", FALSE)
\* Mutant: a failure is only logged.
MutSCCOnlyLogged == Ensure("scc", "scc", "cluster", FALSE)

EnsureNamespaceSCCBinding == Ensure("scc", "scc", "cluster", TRUE)

\* ComputeConfigHash reads the layers one after the other; a layer that cannot be
\* read counts as absent.
ReadConfig(pc, layer, value, next) ==
  /\ At(pc)
  /\ \/ rec' = [rec EXCEPT !.pc = next, ![layer] = value] /\ UNCHANGED faults
     \/ rec' = [rec EXCEPT !.pc = next, ![layer] = Empty] /\ Fault
  /\ UNCHANGED <<outside, nsconf, prepared, rt, wl, notice, queue>>

ReadClusterDefaults == ReadConfig("cluster", "cluster", cluster, "ns")
ReadNamespaceDefaults == ReadConfig("ns", "ns", nsconf, "apply")

\* Mutant: the namespace layer is left out.
MutHashClusterOnly == <<rec.cluster, Empty>>

Hash == <<rec.cluster, rec.ns>>

\* The workload is stamped unless it is already.  A Sandbox that had another hash
\* is restarted.
ApplyWorkloadConfig ==
  LET view == View(Target)
      changed == kind[Target] = "Sandbox" /\ view.hash \notin {NoHash, Hash} IN
  /\ At("apply")
  /\ \/ /\ view.exists = "yes" /\ view.spec = rec.spec /\ view.hash = Hash
        /\ Goto("status") /\ UNCHANGED <<rt, wl, faults>>
     \/ /\ view.exists = "yes" /\ view = wl[Target]
        /\ ~ (view.spec = rec.spec /\ view.hash = Hash)
        /\ wl' = [wl EXCEPT ![Target].spec = rec.spec, ![Target].hash = Hash]
        /\ Goto(IF changed THEN "restart" ELSE "status")
        /\ UNCHANGED <<rt, faults>>
     \/ /\ view.exists = "no" \/ view # wl[Target]
        /\ UNCHANGED <<wl, faults>> /\ Fails("ready")
     \/ Fault /\ Fails("ready") /\ UNCHANGED wl
  /\ UNCHANGED <<outside, nsconf, prepared, notice>>

\* Mutant: the restart is not recorded in the Sandbox.
MutRestartUnrecorded ==
  /\ At("restart")
  /\ \/ /\ wl[Target].exists = "yes"
        /\ wl' = [wl EXCEPT ![Target].replicas = 0]
        /\ Goto("status") /\ UNCHANGED <<rt, faults>>
     \/ wl[Target].exists = "no" /\ UNCHANGED <<wl, faults>> /\ Fails("ready")
  /\ UNCHANGED <<outside, nsconf, prepared, notice>>

\* Phase 1 of a restart.
BeginSandboxRestart ==
  /\ At("restart")
  /\ \/ /\ wl[Target].exists = "yes"
        /\ wl' = [wl EXCEPT ![Target].replicas = 0, ![Target].pending = "yes"]
        /\ Goto("status") /\ UNCHANGED <<rt, faults>>
     \/ wl[Target].exists = "no" /\ UNCHANGED <<wl, faults>> /\ Fails("ready")
     \/ Fault /\ Fails("ready") /\ UNCHANGED wl
  /\ UNCHANGED <<outside, nsconf, prepared, notice>>

\* 8: the status is written over an up-to-date copy, or the reconcile is repeated.
UpdateStatus ==
  /\ At("status")
  /\ \/ /\ rt[Self].state # "none" /\ seenRt[Self] = rt[Self]
        /\ rt' = [rt EXCEPT ![Self].target = "True", ![Self].ready = "True"]
        /\ rec' = Idle /\ UNCHANGED <<queue, faults>>
     \/ /\ rt[Self].state = "none" \/ seenRt[Self] # rt[Self]
        /\ Requeue /\ UNCHANGED <<rt, faults>>
     \/ Fault /\ Requeue /\ UNCHANGED rt
  /\ UNCHANGED <<outside, nsconf, prepared, wl, notice>>

\* Mutant: a refused update is taken for done.
MutCleanGivesUp ==
  /\ At("clean")
  /\ wl' = [wl EXCEPT ![Target] = IF @.exists = "yes" /\ View(Target) = @
                                  THEN [@ EXCEPT !.spec = NoSpec, !.hash = NoHash] ELSE @]
  /\ Goto("finalizer")
  /\ UNCHANGED <<outside, nsconf, prepared, rt, notice, faults>>

\* handleDeletion: the stamp is taken off.
CleanWorkload ==
  /\ At("clean")
  /\ \/ View(Target).exists = "no" /\ Goto("finalizer") /\ UNCHANGED <<wl, faults>>
     \/ /\ View(Target).exists = "yes" /\ View(Target) = wl[Target]
        /\ wl' = [wl EXCEPT ![Target].spec = NoSpec, ![Target].hash = NoHash]
        /\ Goto("finalizer") /\ UNCHANGED faults
     \/ /\ View(Target).exists = "yes" /\ View(Target) # wl[Target]
        /\ Requeue /\ UNCHANGED <<wl, faults>>
     \/ Fault /\ Requeue /\ UNCHANGED wl
  /\ UNCHANGED <<outside, nsconf, prepared, rt, notice>>

\* The finalizer is removed from an up-to-date copy, and with it the object, unless
\* the admission check objects.
RemoveFinalizer ==
  /\ At("finalizer")
  /\ \/ /\ seenRt[Self] = rt[Self] /\ rt[Self].state # "none"
        /\ CheckDuplicateTargetRef(Self)
        /\ rt' = [rt EXCEPT ![Self] = IF @.state = "deleting" THEN NoRuntime
                                      ELSE [@ EXCEPT !.fin = "no"]]
        /\ rec' = Idle /\ UNCHANGED queue
     \/ Requeue /\ UNCHANGED rt
        /\ \/ /\ \/ seenRt[Self] # rt[Self]
                 \/ rt[Self].state = "none"
                 \/ \E q \in Runtimes \ {Self} : rt[q].state # "none" /\ TargetOf[q] = Target
              /\ UNCHANGED faults
           \/ Fault
  /\ UNCHANGED <<outside, nsconf, prepared, wl, notice>>

ReconcileStep ==
  \/ ResolveTargetRef \/ CompleteSandboxRestart \/ EnsureNamespaceConfigMaps
  \/ EnsureSpiffeHelperConfigMap \/ EnsureIstioMeshLabels \/ EnsureNamespaceSCCBinding
  \/ ReadClusterDefaults \/ ReadNamespaceDefaults \/ ApplyWorkloadConfig
  \/ BeginSandboxRestart \/ UpdateStatus \/ CleanWorkload \/ RemoveFinalizer

Begin(r) == ReconcileGone(r) \/ AddFinalizer(r) \/ ReconcileStart(r)

ARNext ==
  \/ \E r \in Runtimes :
       \/ ValidateCreate(r) \/ DeleteRuntime(r) \/ RuntimeEvent(r) \/ Begin(r)
       \/ \E s \in Specs : CreateRuntime(r, s) \/ EditRuntime(r, s)
  \/ \E w \in Workloads :
       EditWorkload(w) \/ WorkloadEvent(w) \/ RollOut(w) \/ ScaleSandbox(w)
  \/ EditConfig \/ ConfigEvent \/ Resync \/ Restart
  \/ ReconcileStep

ARSpec == ARInit /\ [][ARNext]_arVars

\* The queue is served in turn, the worker goes on, events arrive, the informers
\* replay what they know, and the cluster's controllers act.
ARFairSpec ==
  /\ ARSpec
  /\ \A r \in Runtimes : SF_arVars(Begin(r)) /\ WF_arVars(RuntimeEvent(r))
  /\ \A w \in Workloads :
       WF_arVars(WorkloadEvent(w)) /\ WF_arVars(RollOut(w) \/ ScaleSandbox(w))
  /\ WF_arVars(ConfigEvent) /\ WF_arVars(Resync) /\ WF_arVars(ReconcileStep)

-----------------------------------------------------------------------------
(* Properties.                                                             *)

Pcs == {"idle", "target", "sandbox", "configmaps", "helper", "mesh", "scc", "cluster",
        "ns", "apply", "restart", "status", "clean", "finalizer"}
Conditions == {"Unknown", "True", "False"}
RuntimeRecord ==
  [state : {"none", "live", "deleting"}, fin : {"yes", "no"}, spec : Specs \cup {NoSpec},
   target : Conditions, ready : Conditions]
WorkloadRecord ==
  [exists : {"yes", "no"}, spec : Specs \cup {NoSpec}, hash : Hashes \cup {NoHash},
   replicas : {0, 1}, pending : {"yes", "no"}]
WorkerRecord ==
  [pc : Pcs, rt : Runtimes \cup {"none"}, spec : Specs \cup {NoSpec},
   cluster : Configs \cup {Empty}, ns : Configs \cup {Empty}]

\* Every object is one that the API server can hold: an AgentRuntime is marked for
\* deletion only while it has its finalizer (agentruntime_controller.go, steps 2 and 3
\* of Reconcile), and the worker holds an AgentRuntime exactly while it reconciles.
ARTypeOK ==
  /\ kind \in [Workloads -> Kinds]
  /\ cluster \in Configs \cup {Empty} /\ nsconf \in Configs \cup {Empty}
  /\ prepared \subseteq Needed
  /\ rt \in [Runtimes -> RuntimeRecord] /\ seenRt \in [Runtimes -> RuntimeRecord]
  /\ \A r \in Runtimes : rt[r].state = "deleting" => rt[r].fin = "yes"
  /\ wl \in [Workloads -> WorkloadRecord] /\ seenWl \in [Workloads -> WorkloadRecord]
  /\ pods \in [Workloads -> Hashes \cup {NoHash, NoPods}]
  /\ notice \in {"yes", "no"}
  /\ admitted \subseteq Runtimes /\ queue \subseteq Runtimes
  /\ rec \in WorkerRecord /\ (rec.rt = "none") = (rec.pc = "idle")
  /\ edits \in 0..MaxEdits /\ faults \in 0..MaxFaults

Owners(w) == {r \in Runtimes : TargetOf[r] = w /\ rt[r].state # "none" /\ rt[r].fin = "yes"}

\* The state is well typed, a workload has at most one owner (an AgentRuntime with the
\* finalizer), and a stamped one has an owner.  Two AgentRuntimes whose admission checks
\* overlap can both be stored for one workload, but the update that adds the finalizer
\* is checked too (checkDuplicateTargetRef in ValidateUpdate), and handleDeletion lets an
\* AgentRuntime go only after the stamp is off, whatever copies the worker reads and
\* wherever it crashes.
StampOwned ==
  /\ ARTypeOK
  /\ \A w \in Workloads :
       /\ \A r, q \in Owners(w) : r = q
       /\ wl[w].hash # NoHash => Owners(w) # {}

\* No workload is stamped, so that its pods are replaced by injected ones, before its
\* namespace has the helper's configuration and, on OpenShift, the SCC binding that
\* those pods need (steps 4.5b and 4.8 of Reconcile).
StampedNamespaceReady ==
  (\E w \in Workloads : wl[w].hash # NoHash) => Needed \ {"mesh"} \subseteq prepared

\* r is and stays the only AgentRuntime of its workload, and both exist.
Settled(r) ==
  /\ rt[r].state = "live" /\ wl[TargetOf[r]].exists = "yes"
  /\ \A q \in Runtimes \ {r} : TargetOf[q] = TargetOf[r] => rt[q].state = "none"

\* The workload of an AgentRuntime that stays ends up with what the AgentRuntime and
\* the current configuration say, the AgentRuntime is Ready, and a Deployment's pods
\* have that configuration: no lost event, old copy, failed request or crash keeps
\* Reconcile from it for good.
Converges ==
  \A r \in Runtimes :
    <>[]Settled(r) =>
      <>[](/\ wl[TargetOf[r]].spec = rt[r].spec
           /\ wl[TargetOf[r]].hash = <<cluster, nsconf>>
           /\ rt[r].target = "True" /\ rt[r].ready = "True"
           /\ kind[TargetOf[r]] = "Deployment" =>
                pods[TargetOf[r]] = <<cluster, nsconf>>)

\* A deleted AgentRuntime goes away (handleDeletion), its workload existing or not: none
\* stays marked for deletion.
DeletionCompletes ==
  \A r \in Runtimes : []<>(rt[r].state # "deleting")

\* A Sandbox that a restart has scaled to zero comes back while its AgentRuntime stays:
\* the pending restart is recorded in the Sandbox and outlives a crash
\* (beginSandboxRestart, completeSandboxRestart).
SandboxComesBack ==
  \A r \in Runtimes : <>[]Settled(r) => <>[](wl[TargetOf[r]].replicas = 1)

\* What api-reference.md says of the hash, "Changes trigger rolling updates.", for the
\* pods of a Sandbox, which beginSandboxRestart and completeSandboxRestart replace: a
\* pod that was started with one hash does not run on under another.
SandboxFollowsHash ==
  \A r \in Runtimes :
    <>[]Settled(r) =>
      []<>(pods[TargetOf[r]] \in {NoHash, NoPods, wl[TargetOf[r]].hash})
=============================================================================
