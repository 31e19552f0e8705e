---------------------------- MODULE AgentPodsProofs ----------------------------
(***************************************************************************)
(* Proofs about the admissions of Pods beside each other, beside the       *)
(* registration and beside changes of the configuration, for any setups,   *)
(* templates, configuration files, number of Pods, edits and failures.     *)
(***************************************************************************)
EXTENDS AgentPods, PodInjectionProofs

\* A leaf that names no prover is one for Zenon.
USE Zenon

-----------------------------------------------------------------------------
(* The platform configuration.                                             *)

\* The compiled defaults pass their own validation.
LEMMA DefaultsValid == IsPlatform(CompiledDefaults)
<1>1. PICK c : c = CompiledDefaults
  OBVIOUS
<1>2. PICK a, b : a = c.transparent /\ b = c.transparentInbound
  OBVIOUS
<1>3. a \in FirstUserPort..MaxPort /\ b \in FirstUserPort..MaxPort /\ b # a
  BY <1>1, <1>2, SMT DEF CompiledDefaults, FirstUserPort, MaxPort
<1>4. /\ c.allowedInbound = <<"reverse-proxy", "transparent">>
      /\ c.allowedEgress = <<"enforce-redirect", "none">>
  BY <1>1, SMT DEF CompiledDefaults
<1>5. ASSUME NEW x, NEW y, NEW s, s = <<x, y>>
      PROVE  s # <<>> /\ Range(s) = {x, y} /\ IsSequence(s)
  <2>1. s # <<>> /\ s \in Seq({x, y}) /\ Len(s) = 2 /\ s[1] = x /\ s[2] = y /\ 1..2 = {1, 2}
    BY <1>5, SMT
  <2>2. Range(s) = {s[i] : i \in 1..Len(s)}
    BY <2>1, SequenceRange
  <2>3. Range(s) = {x, y}
    BY <2>1, <2>2
  <2> QED
    BY <2>1, <2>3 DEF IsSequence
<1>6. /\ c.allowedInbound # <<>> /\ Range(c.allowedInbound) = {"reverse-proxy", "transparent"}
      /\ IsSequence(c.allowedInbound)
  BY <1>4, <1>5
<1>7. /\ c.allowedEgress # <<>> /\ Range(c.allowedEgress) = {"enforce-redirect", "none"}
      /\ IsSequence(c.allowedEgress)
  BY <1>4, <1>5
<1> QED
  BY <1>1, <1>2, <1>3, <1>6, <1>7 DEF IsPlatform, Validate

\* A load leaves the webhook with a valid configuration, whatever the file says.
LEMMA LoadedValid ==
  ASSUME NEW s \in Setups, NEW file \in s.pods.platforms, NEW current, IsPlatform(current)
  PROVE  IsPlatform(LoadPlatformConfig(file, current))
<1>1. CASE file = <<>>
  BY <1>1, DefaultsValid DEF LoadPlatformConfig
<1>2. CASE file # <<>> /\ Validate(Head(file))
  <2>1. IsSequence(Head(file).allowedInbound) /\ IsSequence(Head(file).allowedEgress)
    BY <1>2, PodsAssumption
  <2> QED
    BY <1>2, <2>1 DEF LoadPlatformConfig, IsPlatform
<1>3. CASE file # <<>> /\ ~Validate(Head(file))
  BY <1>3 DEF LoadPlatformConfig
<1> QED
  BY <1>1, <1>2, <1>3

-----------------------------------------------------------------------------
(* One admission.                                                          *)

InputFields == {"gates", "platform", "yaml", "rt"}

\* The workload of a Pod has a place for its objects.
LEMMA OwnerResolved ==
  ASSUME NEW owner, owner.base \in Names
  PROVE  ResolveOwner(owner).name \in PodWorkloads
<1>1. \A n, k : [name |-> n, kind |-> k].name = n
  OBVIOUS
<1>2. ResolveOwner(owner).name \in {owner.base, ReplicaSetName}
  BY <1>1 DEF ResolveOwner
<1> QED
  BY <1>2 DEF PodWorkloads

\* What an admission promises.
Answered(pod, o, c) ==
    /\ WellFormed(o.pod) /\ o.pod.owner = pod.owner
    /\ GetsProxy(pod, o.pod) =>
         /\ PortsFreeIn(o.pod, c) /\ Obeys(o.pod, c) /\ Fits(o.pod, o.config, c)
         /\ "config" \in {o.writes[i] : i \in 1..Len(o.writes)}

\* The same Pod with another reference to credentials.
LEMMA Reannotated ==
  ASSUME NEW pod, WellFormed(pod), NEW v
  PROVE  /\ WellFormed([pod EXCEPT !.creds = v]) /\ [pod EXCEPT !.creds = v].owner = pod.owner
         /\ SameBody(pod, [pod EXCEPT !.creds = v]) /\ [pod EXCEPT !.creds = v].sa = pod.sa
<1>1. PICK q : q = [pod EXCEPT !.creds = v]
  OBVIOUS
<1>2. Sets(pod, q, "creds", v)
  BY <1>1, PodUpdated DEF WellFormed
<1>3. SameBody(pod, q) /\ q.owner = pod.owner /\ q.sa = pod.sa
  <2>1. /\ q.containers = pod.containers /\ q.inits = pod.inits
        /\ q.owner = pod.owner /\ q.volumes = pod.volumes /\ q.sa = pod.sa
    BY <1>2, SetsOne
  <2> QED
    BY <1>2, <2>1 DEF SameBody, Sets
<1>4. WellFormed(q)
  BY <1>3, SameBodySamePorts
<1> QED
  BY <1>1, <1>3, <1>4

\* What identifies an injected Pod.
LEMMA NotInjectedIsFresh ==
  ASSUME NEW pod
  PROVE  /\ ~IsAlreadyInjected(pod) => Fresh(pod)
         /\ Has(pod, ProxyContainer) \/ Has(pod, EnvoyContainer) => IsAlreadyInjected(pod)
  BY DEF IsAlreadyInjected, Fresh, Has, Unguarded

\* The Pod with the annotation that Handle adds.
WithReference(pod, in) ==
    IF pod.creds = <<>> /\ WorkloadWantsOperatorClientReg(pod.type, in.gates.injectTools)
      THEN [pod EXCEPT !.creds = SecretName(ResolveOwner(pod.owner).name)] ELSE pod

\* ... has the containers of the Pod.
LEMMA ReferenceSame ==
  ASSUME NEW pod, WellFormed(pod), NEW in
  PROVE  /\ WellFormed(WithReference(pod, in)) /\ WithReference(pod, in).owner = pod.owner
         /\ SameBody(pod, WithReference(pod, in)) /\ WithReference(pod, in).sa = pod.sa
<1>1. SameBody(pod, pod)
  BY DEF SameBody, WellFormed
<1> QED
  BY <1>1, Reannotated DEF WithReference

\* An injection returns an outcome.
LEMMA InjectionOutcome ==
  ASSUME NEW pod, NEW n, NEW in
  PROVE  \E result, writes, new, config :
           IsOutcome(InjectAuthBridge(pod, n, in), result, writes, new, config)
<1>1. \E result, writes, new, config :
        InjectAuthBridge(pod, n, in) = Outcome(result, writes, new, config)
  BY DEF InjectAuthBridge
<1> QED
  BY <1>1, OutcomeShape

\* The outcome for a Pod that is injected already.
Rehandled(pod, o) ==
    /\ o.result = "ok" /\ o.writes = <<>> /\ WellFormed(o.pod) /\ o.pod.owner = pod.owner
    /\ \A name : Has(o.pod, name) <=> Has(pod, name)
    /\ o.pod.inits = pod.inits /\ o.pod.sa = pod.sa
    /\ DOMAIN o.pod.containers = DOMAIN pod.containers
    /\ \A i \in DOMAIN pod.containers : SameContainer(pod.containers[i], o.pod.containers[i])

\* Asked about such a Pod, the webhook writes nothing and at most adds the volume and the
\* mounts of the credentials.
LEMMA HandledAgain ==
  ASSUME NEW pod, WellFormed(pod), NEW in, IsAlreadyInjected(pod)
  PROVE  Rehandled(pod, Handle(pod, in))
<1>1. PICK a : a = WithReference(pod, in)
  OBVIOUS
<1>2. WellFormed(a) /\ a.owner = pod.owner /\ SameBody(pod, a) /\ a.sa = pod.sa
  BY <1>1, ReferenceSame
<1>3. PICK q : q = ApplyCredentials(a)
  OBVIOUS
<1>4. WellFormed(q) /\ Remounts(a, q) /\ \A name : Has(q, name) <=> Has(a, name)
  BY <1>2, <1>3, CredentialsWellFormed
<1>5. \A name : Has(a, name) <=> Has(pod, name)
  BY <1>2, SameBodySamePorts
<1>6. /\ q.owner = pod.owner /\ q.inits = pod.inits /\ q.sa = pod.sa
      /\ DOMAIN q.containers = DOMAIN pod.containers
      /\ \A i \in DOMAIN pod.containers : SameContainer(pod.containers[i], q.containers[i])
  BY <1>2, <1>4 DEF Remounts, SameBody
<1>7. Handle(pod, in) = Outcome("ok", <<>>, q, NoConfig)
  BY <1>1, <1>3 DEF Handle, WithReference
<1>8. PICK o : o = Handle(pod, in)
  OBVIOUS
<1>9. o.result = "ok" /\ o.writes = <<>> /\ o.pod = q
  <2>1. IsOutcome(o, "ok", <<>>, q, NoConfig)
    BY <1>7, <1>8, OutcomeShape
  <2> QED
    BY <2>1 DEF IsOutcome
<1>10. Rehandled(pod, o)
  BY <1>4, <1>5, <1>6, <1>9 DEF Rehandled
<1> QED
  BY <1>8, <1>10

\* A Pod that is admitted is well formed and its workload's; if it got the proxy, everything
\* about the proxy is right for the platform configuration that the admission read.
LEMMA HandleSound ==
  ASSUME NEW pod, WellFormed(pod), NEW in, IsRecord(in, InputFields), IsPlatform(in.platform),
         Handle(pod, in).result # "error"
  PROVE  Answered(pod, Handle(pod, in), in.platform)
<1>1. PICK o : o = Handle(pod, in)
  OBVIOUS
<1>2. CASE IsAlreadyInjected(pod)
  <2>1. Rehandled(pod, o)
    BY <1>1, <1>2, HandledAgain
  <2> QED
    BY <1>1, <2>1 DEF Answered, GetsProxy, Rehandled
<1>3. CASE ~IsAlreadyInjected(pod)
  <2>1. PICK a : a = WithReference(pod, in)
    OBVIOUS
  <2>2. WellFormed(a) /\ a.owner = pod.owner /\ SameBody(pod, a)
    BY <2>1, ReferenceSame
  <2>3. Fresh(a)
    BY <1>3, <2>2, NotInjectedIsFresh, SameBodySamePorts
  <2>4. PICK w : w = ResolveOwner(pod.owner)
    OBVIOUS
  <2>5. PICK j : j = [in EXCEPT !.rt = RuntimeFor(in.rt, w)]
    OBVIOUS
  <2>6. j.platform = in.platform
    BY <2>5 DEF IsRecord, InputFields
  <2>7. PICK i : i = InjectAuthBridge(a, w.name, j)
    OBVIOUS
  <2>8. o = [i EXCEPT !.pod = IF i.result = "ok" THEN i.pod ELSE pod]
    BY <1>1, <1>3, <2>1, <2>4, <2>5, <2>7 DEF Handle, WithReference
  <2>9. IsRecord(i, {"result", "writes", "pod", "config"})
    BY <2>7, InjectionOutcome DEF IsOutcome
  <2>10. /\ o.result = i.result /\ o.writes = i.writes /\ o.config = i.config
         /\ o.pod = IF i.result = "ok" THEN i.pod ELSE pod
    BY <2>8, <2>9 DEF IsRecord
  <2>11. CASE i.result = "ok"
    <3>1. Sound(a, i, j.platform)
      BY <2>2, <2>3, <2>6, <2>7, <2>11, InjectionSound
    <3>2. Sound(a, i, in.platform) /\ o.pod = i.pod
      BY <2>6, <2>10, <2>11, <3>1
    <3>3. Answered(pod, o, in.platform)
      BY <2>2, <2>10, <3>2 DEF Answered, Sound, GetsProxy
    <3> QED
      BY <1>1, <3>3
  <2>12. CASE i.result # "ok"
    <3>1. o.pod = pod
      BY <2>10, <2>12
    <3>2. Answered(pod, o, in.platform)
      BY <3>1 DEF Answered, GetsProxy
    <3> QED
      BY <1>1, <3>2
  <2> QED
    BY <2>11, <2>12
<1> QED
  BY <1>2, <1>3

\* The container that another plugin adds.
LEMMA MeshShape ==
  /\ IsRecord(Mesh, ContainerFields) /\ Mesh.ports \in Seq(1..MaxPort)
  /\ Mesh.port = NoPort /\ Mesh.proxy = NoPort /\ Mesh.mounts = {<<"shared-data">>}
  /\ Mesh.name # ProxyContainer
<1>1. MeshPort \in 1..MaxPort
  BY SMT DEF MeshPort, MaxPort
<1>2. PICK m : m = Mesh
  OBVIOUS
<1>3. /\ m.ports = <<MeshPort>> /\ m.port = NoPort /\ m.proxy = NoPort
      /\ m.mounts = {<<"shared-data">>} /\ m.name = "mesh"
  BY <1>2 DEF Mesh
<1>4. IsRecord(m, ContainerFields)
  BY <1>2, SMT DEF Mesh, IsRecord, ContainerFields
<1>5. m.ports \in Seq(1..MaxPort)
  <2>1. PICK S : S = 1..MaxPort
    OBVIOUS
  <2>2. <<MeshPort>> \in Seq(S)
    BY <1>1, <2>1, SMT
  <2> QED
    BY <1>3, <2>1, <2>2
<1>6. m.name # ProxyContainer
  BY <1>3 DEF ProxyContainer
<1> QED
  BY <1>2, <1>3, <1>4, <1>5, <1>6

\* What another plugin makes of a Pod is again a Pod of the same workload.
LEMMA TouchedWellFormed ==
  ASSUME NEW pod, WellFormed(pod), NEW q \in Touched(pod)
  PROVE  WellFormed(q) /\ q.owner = pod.owner
<1>1. PICK new : new = Append(pod.containers, Mesh)
  OBVIOUS
<1>2. CASE q = [pod EXCEPT !.containers = new]
  <2>1. Sets(pod, q, "containers", new)
    BY <1>2, PodUpdated DEF WellFormed
  <2>2. /\ q.containers = new /\ q.inits = pod.inits /\ q.volumes = pod.volumes
        /\ q.owner = pod.owner /\ IsRecord(q, PodFields)
    <3>1. /\ q.inits = pod.inits /\ q.volumes = pod.volumes /\ q.owner = pod.owner
      BY <2>1, SetsOne
    <3> QED
      BY <2>1, <3>1 DEF Sets
  <2>3. IsSequence(pod.containers) /\ IsSequence(pod.inits)
    BY DEF WellFormed
  <2>4. Extends(pod.containers, Mesh, q.containers)
    BY <1>1, <2>2, <2>3, AppendSequence
  <2>5. VolumeNames(q) = VolumeNames(pod)
    BY <2>2 DEF VolumeNames
  <2>6. PICK l : l = Len(pod.containers) + 1
    OBVIOUS
  <2>7. /\ IsSequence(q.containers) /\ DOMAIN q.containers = DOMAIN pod.containers \cup {l}
        /\ q.containers[l] = Mesh /\ \A i \in DOMAIN pod.containers : q.containers[i] = pod.containers[i]
    BY <2>4, <2>6 DEF Extends
  <2>8. Has(pod, ProxyContainer) => Has(q, ProxyContainer)
    BY <2>7 DEF Has
  <2>9. PICK shared : shared = {<<"shared-data">>}
    OBVIOUS
  <2>10. ASSUME NEW i \in DOMAIN q.containers, NEW c, c = q.containers[i]
         PROVE  /\ IsRecord(c, ContainerFields) /\ c.ports \in Seq(1..MaxPort)
                /\ c.mounts \subseteq VolumeNames(q) \cup shared
                /\ ~Has(q, ProxyContainer) => c.port = NoPort /\ c.proxy \in {NoPort, 1}
    <3>1. CASE i = l
      <4>1. c = Mesh
        BY <2>7, <2>10, <3>1
      <4> QED
        BY <2>9, <4>1, MeshShape
    <3>2. CASE i \in DOMAIN pod.containers
      <4>1. c = pod.containers[i]
        BY <2>7, <2>10, <3>2
      <4>2. /\ IsRecord(c, ContainerFields) /\ c.ports \in Seq(1..MaxPort)
            /\ c.mounts \subseteq VolumeNames(pod) \cup shared
            /\ ~Has(pod, ProxyContainer) => c.port = NoPort /\ c.proxy \in {NoPort, 1}
        BY <2>9, <3>2, <4>1 DEF WellFormed
      <4> QED
        BY <2>5, <2>8, <4>2
    <3> QED
      BY <2>7, <3>1, <3>2
  <2> QED
    BY <2>2, <2>3, <2>7, <2>9, <2>10 DEF WellFormed
<1>3. CASE q = [pod EXCEPT !.creds = IF pod.creds = <<>> THEN <<"other">> ELSE pod.creds]
  <2>1. PICK v : v = IF pod.creds = <<>> THEN <<"other">> ELSE pod.creds
    OBVIOUS
  <2>2. q = [pod EXCEPT !.creds = v]
    BY <1>3, <2>1
  <2> QED
    BY <2>2, Reannotated
<1> QED
  BY <1>1, <1>2, <1>3 DEF Touched

-----------------------------------------------------------------------------
(* The inductive invariant.                                                *)

\* A slot holds no Pod, or one that is shaped like a Pod, of a workload of the namespace, and
\* was read with a valid platform configuration.
PodOK(p) ==
    \/ p.st \in {"none", "denied"}
    \/ /\ p.st \in {"review", "admitted", "running"}
       /\ IsRecord(p, {"st", "pod", "in", "pass", "injected"})
       /\ WellFormed(p.pod) /\ p.pod.owner.base \in Names
       /\ IsRecord(p.in, InputFields) /\ IsPlatform(p.in.platform)

\* The configuration, the objects that were written, the Pods.
HookOK ==
    /\ setup \in Setups
    /\ IsRecord(world, {"yaml", "rt", "platform"}) /\ world.platform \in setup.pods.platforms
    /\ IsRecord(hook, {"gates", "platform"}) /\ IsPlatform(hook.platform)

AppliedFields == {"accounts", "config", "routes", "envoy", "ca"}

AppliedOK(a) == IsRecord(a, AppliedFields) /\ IsRecord(a.config, PodWorkloads)

\* What is right about the Pod of slot s: the three safety properties, for one Pod.
Right(s, p, config) ==
    p.st \in {"admitted", "running"} /\ p.injected =>
      /\ PortsFreeIn(p.pod, p.in.platform) /\ Obeys(p.pod, p.in.platform)
      /\ config[ResolveOwner(p.pod.owner).name].by = s =>
           Fits(p.pod, config[ResolveOwner(p.pod.owner).name].doc, p.in.platform)

PodsInv ==
    /\ HookOK /\ AppliedOK(applied) /\ IsRecord(pods, Slots)
    /\ \A s \in Slots : PodOK(pods[s]) /\ Right(s, pods[s], applied.config)

\* It says what the runs check.
LEMMA PodsInvSays == PodsInv => PortsFree /\ ConfigFitsPod /\ PlatformObeyed
  BY DEF PodsInv, Right, PortsFree, ConfigFitsPod, PlatformObeyed, Proxied

-----------------------------------------------------------------------------
(* The writes of an admission.                                             *)

\* Of the configurations that are not as before slot s is the writer, and that of workload n
\* is the outcome's document if the writes got that far.
WrittenBy(a, s, n, o, k) ==
    /\ AppliedOK(a)
    /\ \A m \in PodWorkloads : a.config[m] # applied.config[m] => a.config[m].by = s
    /\ "config" \in {o.writes[i] : i \in 1..k} => a.config[n].doc = o.config

\* ... after the writes of an admission of workload n for slot s.
LEMMA WrittenFacts ==
  ASSUME AppliedOK(applied), NEW n \in PodWorkloads, NEW s, NEW o, NEW k
  PROVE  WrittenBy(Written(n, s, o, k), s, n, o, k)
<1>1. PICK done : done = {o.writes[i] : i \in 1..k}
  OBVIOUS
<1>2. PICK a : a = Written(n, s, o, k)
  OBVIOUS
<1>3. PICK r : r = [by |-> s, doc |-> o.config]
  OBVIOUS
<1>4. r.by = s /\ r.doc = o.config
  BY <1>3
<1>5. PICK old : old = applied.config
  OBVIOUS
<1>6. PICK new : new = [old EXCEPT ![n] = r]
  OBVIOUS
<1>7. /\ IsRecord(new, PodWorkloads) /\ new[n] = r
      /\ \A m \in PodWorkloads : m # n => new[m] = old[m]
  BY <1>5, <1>6 DEF AppliedOK, IsRecord
<1>8. IsRecord(a, AppliedFields) /\ a.config = IF "config" \in done THEN new ELSE old
  BY <1>1, <1>2, <1>3, <1>5, <1>6 DEF Written, AppliedOK, IsRecord, AppliedFields
<1>9. CASE "config" \in done
  <2>1. a.config = new
    BY <1>8, <1>9
  <2> QED
    BY <1>1, <1>2, <1>4, <1>5, <1>7, <1>8, <2>1 DEF AppliedOK, WrittenBy
<1>10. CASE "config" \notin done
  <2>1. a.config = old
    BY <1>8, <1>10
  <2> QED
    BY <1>1, <1>2, <1>5, <1>8, <1>10, <2>1 DEF AppliedOK, WrittenBy
<1> QED
  BY <1>9, <1>10

\* Without a write nothing changes.
LEMMA NothingWritten ==
  ASSUME AppliedOK(applied), NEW n, NEW s, NEW o, o.writes = <<>>
  PROVE  Written(n, s, o, Len(o.writes)) = applied
<1>1. 1..Len(o.writes) = {}
  BY SMT
<1>2. PICK done : done = {o.writes[i] : i \in 1..Len(o.writes)}
  OBVIOUS
<1>3. done = {}
  BY <1>1, <1>2
<1>4. PICK a : a = Written(n, s, o, Len(o.writes))
  OBVIOUS
<1>5. /\ "account" \notin done /\ "config" \notin done /\ "routes" \notin done
      /\ "envoy" \notin done
  BY <1>3
<1>6. a = [applied EXCEPT !.accounts = applied.accounts, !.config = applied.config,
                          !.routes = applied.routes, !.envoy = applied.envoy]
  BY <1>2, <1>4, <1>5 DEF Written
<1>7. a = applied
  BY <1>6 DEF AppliedOK, IsRecord, AppliedFields
<1> QED
  BY <1>4, <1>7

-----------------------------------------------------------------------------
(* The steps of the other components.                                      *)

\* No step of the registration or the bootstrap touches the setup.
LEMMA SetupKept ==
  ASSUME [Next]_crVars
  PROVE  setup' = setup
<1>1. WorkerStep => setup' = setup
  <2>1. BeginReconcile \/ PasswordToken \/ SpiffeToken \/ EnsureSecret \/ PatchTemplate
          => setup' = setup
    BY DEF BeginReconcile, PasswordToken, SpiffeToken, EnsureSecret, OnlySecret, PatchTemplate
  <2>2. FindClient \/ CreateClient \/ ReconcileExistingClient \/ ReadClientSecret
          => setup' = setup
    BY DEF FindClient, CreateClient, ReconcileExistingClient, ReadClientSecret, OutsideKeycloak
  <2>3. FindScope \/ CreateScope \/ AddMapper \/ VerifyMapper \/ CreateMapper \/ AttachScope
          => setup' = setup
    BY DEF FindScope, CreateScope, AddMapper, VerifyMapper, CreateMapper, AttachScope,
       OutsideKeycloak
  <2> QED
    BY <2>1, <2>2, <2>3 DEF WorkerStep
<1>2. UserStep \/ EditGates \/ EditConfig \/ KeycloakChanges \/ TokenAges => setup' = setup
  BY DEF UserStep, EditGates, EditConfig, KeycloakChanges, TokenAges
<1>3. Collector \/ Bootstrapping \/ (\E o \in Operators : OperatorRestarts(o)) => setup' = setup
  BY DEF Collector, CollectSecret, Bootstrapping, OperatorRestarts, regVars
<1>4. UNCHANGED crVars => setup' = setup
  BY DEF crVars, regVars
<1> QED
  BY <1>1, <1>2, <1>3, <1>4 DEF Next

\* A step is one of theirs or of the Pods.
LEMMA StepsSplit ==
  [APNext]_apVars => ([Next]_crVars /\ UNCHANGED podVars) \/ PodStep
  BY DEF APNext, apVars

-----------------------------------------------------------------------------
(* The invariant is inductive.                                             *)

\* It holds at first.
LEMMA PodsInvInit == APInit => PodsInv
<1> SUFFICES ASSUME APInit PROVE PodsInv
  OBVIOUS
<1>1. setup \in Setups
  BY DEF APInit, Init
<1>2. PICK files : files = {p \in setup.pods.platforms : p = <<>> \/ Validate(Head(p))}
  OBVIOUS
<1>3. world \in [yaml : setup.pods.yamls, rt : setup.pods.rts, platform : files]
  BY <1>2 DEF APInit
<1>4. IsRecord(world, {"yaml", "rt", "platform"}) /\ world.platform \in files
  BY <1>3, SMT DEF IsRecord
<1>5. world.platform \in setup.pods.platforms
  BY <1>2, <1>4
<1>6. PICK g, f : g = LoadFeatureGates(gates, DefaultFeatureGates)
                  /\ f = LoadPlatformConfig(world.platform, CompiledDefaults)
  OBVIOUS
<1>7. IsPlatform(f)
  BY <1>1, <1>5, <1>6, DefaultsValid, LoadedValid
<1>8. hook = [gates |-> g, platform |-> f]
  BY <1>6 DEF APInit
<1>9. IsRecord(hook, {"gates", "platform"}) /\ hook.platform = f
  BY <1>8, SMT DEF IsRecord
<1>10. HookOK
  BY <1>1, <1>4, <1>5, <1>7, <1>9 DEF HookOK
<1>11. PICK c, e : c = [n \in PodWorkloads |-> [by |-> 0]] /\ e = [n \in PodWorkloads |-> ""]
  OBVIOUS
<1>12. applied = [accounts |-> {}, config |-> c, routes |-> {}, envoy |-> e, ca |-> {}]
  BY <1>11 DEF APInit
<1>13. IsRecord(applied, AppliedFields) /\ applied.config = c
  BY <1>12, SMT DEF IsRecord, AppliedFields
<1>14. IsRecord(c, PodWorkloads)
  BY <1>11 DEF IsRecord
<1>15. pods = [s \in Slots |-> NoPod]
  BY DEF APInit
<1>16. NoPod.st = "none"
  BY DEF NoPod
<1>17. IsRecord(pods, Slots)
  BY <1>15 DEF IsRecord
<1>18. ASSUME NEW s \in Slots PROVE PodOK(pods[s]) /\ Right(s, pods[s], applied.config)
  <2>1. pods[s].st = "none"
    BY <1>15, <1>16
  <2> QED
    BY <2>1 DEF PodOK, Right
<1> QED
  BY <1>10, <1>13, <1>14, <1>17, <1>18 DEF PodsInv, AppliedOK

\* A change of configuration c to d leaves a Pod right unless it makes the Pod's slot the writer.
LEMMA StaysRight ==
  ASSUME NEW s, NEW p, PodOK(p), NEW c, NEW d, Right(s, p, c),
         \A m \in PodWorkloads : d[m] # c[m] => d[m].by # s
  PROVE  Right(s, p, d)
<1> SUFFICES ASSUME p.st \in {"admitted", "running"}, p.injected
             PROVE  /\ PortsFreeIn(p.pod, p.in.platform) /\ Obeys(p.pod, p.in.platform)
                    /\ d[ResolveOwner(p.pod.owner).name].by = s =>
                         Fits(p.pod, d[ResolveOwner(p.pod.owner).name].doc, p.in.platform)
  BY DEF Right
<1>1. PICK n : n = ResolveOwner(p.pod.owner).name
  OBVIOUS
<1>2. n \in PodWorkloads
  BY <1>1, OwnerResolved DEF PodOK
<1>3. /\ PortsFreeIn(p.pod, p.in.platform) /\ Obeys(p.pod, p.in.platform)
      /\ c[n].by = s => Fits(p.pod, c[n].doc, p.in.platform)
  BY <1>1 DEF Right
<1>4. d[n].by = s => d[n] = c[n]
  BY <1>2
<1> QED
  BY <1>1, <1>3, <1>4

\* A step of one Pod.
LEMMA OneSlot ==
  ASSUME PodsInv, HookOK', setup' = setup, NEW s \in Slots, NEW p,
         pods' = [pods EXCEPT ![s] = p], PodOK(p), AppliedOK(applied'),
         \A m \in PodWorkloads :
           applied'.config[m] # applied.config[m] => applied'.config[m].by = s,
         Right(s, p, applied'.config)
  PROVE  PodsInv'
<1>1. Slots' = Slots
  BY DEF Slots
<1>2. PICK c, d : c = applied.config /\ d = applied'.config
  OBVIOUS
<1>3. IsRecord(pods', Slots) /\ pods'[s] = p /\ \A t \in Slots : t # s => pods'[t] = pods[t]
  BY DEF PodsInv, IsRecord
<1>4. ASSUME NEW t \in Slots PROVE PodOK(pods'[t]) /\ Right(t, pods'[t], d)
  <2>1. CASE t = s
    BY <1>2, <1>3, <2>1
  <2>2. CASE t # s
    <3>1. pods'[t] = pods[t] /\ PodOK(pods[t]) /\ Right(t, pods[t], c)
      BY <1>2, <1>3, <2>2 DEF PodsInv
    <3>2. \A m \in PodWorkloads : d[m] # c[m] => d[m].by # t
      BY <1>2, <2>2
    <3>3. Right(t, pods[t], d)
      BY <3>1, <3>2, StaysRight
    <3> QED
      BY <3>1, <3>3
  <2> QED
    BY <2>1, <2>2
<1> QED
  BY <1>1, <1>2, <1>3, <1>4 DEF PodsInv

\* A step of no Pod.
LEMMA NoSlot ==
  ASSUME PodsInv, HookOK', setup' = setup, pods' = pods, AppliedOK(applied'),
         applied'.config = applied.config
  PROVE  PodsInv'
<1>1. Slots' = Slots
  BY DEF Slots
<1> QED
  BY <1>1 DEF PodsInv

\* The configuration is as it was.
LEMMA HookKept ==
  ASSUME HookOK, UNCHANGED <<setup, world, hook>>
  PROVE  HookOK'
  BY DEF HookOK

\* What an admission of a Pod reads.
LEMMA ReadStep ==
  ASSUME PodsInv, NEW s \in Slots, NEW pod, WellFormed(pod), pod.owner.base \in Names,
         NEW pass, Read(s, pod, pass), OnlyPods, UNCHANGED applied
  PROVE  PodsInv'
<1>1. PICK yaml, rt : pods' = [pods EXCEPT ![s] = [st |-> "review", pod |-> pod,
                                in |-> Inputs(yaml, rt), pass |-> pass, injected |-> FALSE]]
  BY DEF Read
<1>2. PICK in : in = Inputs(yaml, rt)
  OBVIOUS
<1>3. PICK h, g : h = hook.platform /\ g = hook.gates
  OBVIOUS
<1>4. IsRecord(in, InputFields) /\ in.platform = h
  BY <1>2, <1>3, SMT DEF Inputs, IsRecord, InputFields
<1>5. PICK p : p = [st |-> "review", pod |-> pod, in |-> in, pass |-> pass, injected |-> FALSE]
  OBVIOUS
<1>6. /\ IsRecord(p, {"st", "pod", "in", "pass", "injected"})
      /\ p.st = "review" /\ p.pod = pod /\ p.in = in
  BY <1>5, SMT DEF IsRecord
<1>7. IsPlatform(h) /\ HookOK /\ AppliedOK(applied)
  BY <1>3 DEF PodsInv, HookOK
<1>8. PodOK(p)
  BY <1>4, <1>6, <1>7 DEF PodOK
<1>9. Right(s, p, applied'.config)
  BY <1>6 DEF Right
<1>10. setup' = setup /\ HookOK'
  BY <1>7, HookKept DEF OnlyPods, regVars
<1>11. pods' = [pods EXCEPT ![s] = p]
  BY <1>1, <1>2, <1>5
<1>12. AppliedOK(applied') /\ \A m \in PodWorkloads : applied'.config[m] = applied.config[m]
  BY <1>7
<1> QED
  BY <1>8, <1>9, <1>10, <1>11, <1>12, OneSlot

\* A new Pod, and one that another plugin touched.
LEMMA AskedStep ==
  ASSUME PodsInv, NEW s \in Slots, CreatePod(s) \/ Reinvoke(s)
  PROVE  PodsInv'
<1>1. CASE CreatePod(s)
  <2>1. PICK t \in setup.pods.templates : Read(s, t, 1)
    BY <1>1 DEF CreatePod
  <2>2. WellFormed(t) /\ t.owner.base \in Names
    BY <2>1, PodsAssumption DEF PodsInv, HookOK
  <2> QED
    BY <1>1, <2>1, <2>2, ReadStep DEF CreatePod
<1>2. CASE Reinvoke(s)
  <2>1. PICK pod \in Touched(pods[s].pod) : Read(s, pod, pods[s].pass + 1)
    BY <1>2 DEF Reinvoke
  <2>2. WellFormed(pods[s].pod) /\ pods[s].pod.owner.base \in Names
    BY <1>2 DEF PodsInv, PodOK, Reinvoke
  <2>3. WellFormed(pod) /\ pod.owner.base \in Names
    BY <2>1, <2>2, TouchedWellFormed
  <2> QED
    BY <1>2, <2>1, <2>3, ReadStep DEF Reinvoke
<1> QED
  BY <1>1, <1>2

\* A Pod that is denied.
LEMMA DeniedStep ==
  ASSUME PodsInv, NEW s \in Slots, NEW n \in PodWorkloads, NEW o, NEW k, OnlyPods,
         applied' = Written(n, s, o, k), pods' = [pods EXCEPT ![s] = [st |-> "denied"]]
  PROVE  PodsInv'
<1>1. PICK p : p = [st |-> "denied"]
  OBVIOUS
<1>2. p.st = "denied" /\ pods' = [pods EXCEPT ![s] = p]
  BY <1>1
<1>3. PodOK(p) /\ Right(s, p, applied'.config)
  BY <1>2 DEF PodOK, Right
<1>4. HookOK /\ AppliedOK(applied)
  BY DEF PodsInv
<1>5. setup' = setup /\ HookOK'
  BY <1>4, HookKept DEF OnlyPods, regVars
<1>6. /\ AppliedOK(applied')
      /\ \A m \in PodWorkloads :
           applied'.config[m] # applied.config[m] => applied'.config[m].by = s
  <2>1. WrittenBy(applied', s, n, o, k)
    BY <1>4, WrittenFacts
  <2> QED
    BY <2>1 DEF WrittenBy
<1> QED
  BY <1>2, <1>3, <1>5, <1>6, OneSlot

\* An admission that is answered.
LEMMA AnswerStep ==
  ASSUME PodsInv, NEW s \in Slots, Answer(s)
  PROVE  PodsInv'
<1>1. PICK p : p = pods[s]
  OBVIOUS
<1>2. p.st = "review" /\ PodOK(p) /\ HookOK /\ AppliedOK(applied)
  BY <1>1 DEF PodsInv, Answer
<1>3. PICK pod, in : pod = p.pod /\ in = p.in
  OBVIOUS
<1>4. /\ IsRecord(p, {"st", "pod", "in", "pass", "injected"}) /\ WellFormed(pod)
      /\ pod.owner.base \in Names /\ IsRecord(in, InputFields) /\ IsPlatform(in.platform)
  BY <1>2, <1>3 DEF PodOK
<1>5. PICK n : n = ResolveOwner(pod.owner).name
  OBVIOUS
<1>6. n \in PodWorkloads
  BY <1>4, <1>5, OwnerResolved
<1>7. PICK o : o = Handle(pod, in)
  OBVIOUS
<1>8. PICK q : q = [p EXCEPT !.st = "admitted", !.pod = o.pod, !.injected = GetsProxy(pod, o.pod)]
  OBVIOUS
<1>9. /\ OnlyPods
      /\ \/ \E k : applied' = Written(n, s, o, k) /\ pods' = [pods EXCEPT ![s] = [st |-> "denied"]]
         \/ /\ applied' = Written(n, s, o, Len(o.writes)) /\ o.result # "error"
            /\ pods' = [pods EXCEPT ![s] = q]
  BY <1>1, <1>3, <1>5, <1>7, <1>8 DEF Answer
<1>10. CASE \E k : applied' = Written(n, s, o, k) /\ pods' = [pods EXCEPT ![s] = [st |-> "denied"]]
  BY <1>6, <1>9, <1>10, DeniedStep
<1>11. CASE /\ applied' = Written(n, s, o, Len(o.writes)) /\ o.result # "error"
            /\ pods' = [pods EXCEPT ![s] = q]
  <2>1. Answered(pod, o, in.platform)
    BY <1>4, <1>7, <1>11, HandleSound
  <2>2. /\ IsRecord(q, {"st", "pod", "in", "pass", "injected"}) /\ q.st = "admitted"
        /\ q.pod = o.pod /\ q.in = in /\ q.injected = GetsProxy(pod, o.pod)
    BY <1>3, <1>4, <1>8 DEF IsRecord
  <2>3. /\ WellFormed(o.pod) /\ o.pod.owner = pod.owner
        /\ GetsProxy(pod, o.pod) =>
             /\ PortsFreeIn(o.pod, in.platform) /\ Obeys(o.pod, in.platform)
             /\ Fits(o.pod, o.config, in.platform)
             /\ "config" \in {o.writes[i] : i \in 1..Len(o.writes)}
    BY <2>1 DEF Answered
  <2>4. PodOK(q)
    BY <1>4, <2>2, <2>3 DEF PodOK
  <2>5. /\ AppliedOK(applied')
        /\ \A m \in PodWorkloads :
             applied'.config[m] # applied.config[m] => applied'.config[m].by = s
        /\ "config" \in {o.writes[i] : i \in 1..Len(o.writes)} => applied'.config[n].doc = o.config
    <3>1. WrittenBy(applied', s, n, o, Len(o.writes))
      BY <1>2, <1>6, <1>11, WrittenFacts
    <3> QED
      BY <3>1 DEF WrittenBy
  <2>6. ResolveOwner(q.pod.owner).name = n
    BY <1>5, <2>2, <2>3
  <2>7. Right(s, q, applied'.config)
    <3>1. PICK c, d : c = in.platform /\ d = applied'.config
      OBVIOUS
    <3>2. GetsProxy(pod, o.pod) =>
            PortsFreeIn(o.pod, c) /\ Obeys(o.pod, c) /\ Fits(o.pod, d[n].doc, c)
      BY <2>3, <2>5, <3>1
    <3>3. Right(s, q, d)
      BY <2>2, <2>6, <3>1, <3>2 DEF Right
    <3> QED
      BY <3>1, <3>3
  <2>8. setup' = setup /\ HookOK'
    BY <1>2, <1>9, HookKept DEF OnlyPods, regVars
  <2> QED
    BY <1>11, <2>4, <2>5, <2>7, <2>8, OneSlot
<1> QED
  BY <1>9, <1>10, <1>11

\* A Pod that is started.
LEMMA StartStep ==
  ASSUME PodsInv, NEW s \in Slots, StartPod(s)
  PROVE  PodsInv'
<1>1. PICK p : p = pods[s]
  OBVIOUS
<1>2. PICK q : q = [p EXCEPT !.st = "running"]
  OBVIOUS
<1>3. /\ p.st = "admitted" /\ PodOK(p) /\ Right(s, p, applied.config)
      /\ HookOK /\ AppliedOK(applied)
  BY <1>1 DEF PodsInv, StartPod
<1>4. IsRecord(p, {"st", "pod", "in", "pass", "injected"})
  BY <1>3 DEF PodOK
<1>5. /\ IsRecord(q, {"st", "pod", "in", "pass", "injected"}) /\ q.st = "running"
      /\ q.pod = p.pod /\ q.in = p.in /\ q.injected = p.injected
  BY <1>2, <1>4 DEF IsRecord
<1>6. PodOK(q)
  BY <1>3, <1>5 DEF PodOK
<1>7. Right(s, q, applied.config)
  BY <1>3, <1>5 DEF Right
<1>8. pods' = [pods EXCEPT ![s] = q]
  BY <1>1, <1>2 DEF StartPod
<1>9. applied' = applied /\ OnlyPods
  BY DEF StartPod
<1>10. setup' = setup /\ HookOK'
  BY <1>3, <1>9, HookKept DEF OnlyPods, regVars
<1>11. /\ AppliedOK(applied') /\ Right(s, q, applied'.config)
       /\ \A m \in PodWorkloads : applied'.config[m] = applied.config[m]
  BY <1>3, <1>7, <1>9
<1> QED
  BY <1>6, <1>8, <1>10, <1>11, OneSlot

\* The certificate authority, the webhook's files and what they are read from.
LEMMA ConfigurationStep ==
  ASSUME PodsInv, ProvisionCA \/ ReloadGates \/ ReloadPlatform \/ EditWorld
  PROVE  PodsInv'
<1>1. HookOK /\ AppliedOK(applied)
  BY DEF PodsInv
<1>2. setup \in Setups /\ world.platform \in setup.pods.platforms /\ IsPlatform(hook.platform)
      /\ IsRecord(hook, {"gates", "platform"}) /\ IsRecord(world, {"yaml", "rt", "platform"})
  BY <1>1 DEF HookOK
<1>3. CASE ProvisionCA
  <2>1. /\ applied' = [applied EXCEPT !.ca = applied.ca \cup {world.rt.target}]
        /\ OnlyPods /\ pods' = pods
    BY <1>3 DEF ProvisionCA
  <2>2. AppliedOK(applied') /\ applied'.config = applied.config
    BY <1>1, <2>1 DEF AppliedOK, AppliedFields, IsRecord
  <2>3. setup' = setup /\ HookOK'
    BY <1>1, <2>1, HookKept DEF OnlyPods, regVars
  <2> QED
    BY <2>1, <2>2, <2>3, NoSlot
<1>4. CASE ReloadGates
  <2>1. PICK g : hook' = [hook EXCEPT !.gates = g]
    BY <1>4 DEF ReloadGates
  <2>2. /\ setup' = setup /\ world' = world /\ pods' = pods /\ applied' = applied
    BY <1>4 DEF ReloadGates, regVars
  <2>3. IsRecord(hook', {"gates", "platform"}) /\ hook'.platform = hook.platform
    BY <1>2, <2>1 DEF IsRecord
  <2>4. HookOK'
    BY <1>2, <2>2, <2>3 DEF HookOK
  <2> QED
    BY <1>1, <2>2, <2>4, NoSlot
<1>5. CASE ReloadPlatform
  <2>1. PICK f : f = LoadPlatformConfig(world.platform, hook.platform)
    OBVIOUS
  <2>2. hook' = [hook EXCEPT !.platform = f]
    BY <1>5, <2>1 DEF ReloadPlatform
  <2>3. IsPlatform(f)
    BY <1>2, <2>1, LoadedValid
  <2>4. /\ setup' = setup /\ world' = world /\ pods' = pods /\ applied' = applied
    BY <1>5 DEF ReloadPlatform, regVars
  <2>5. IsRecord(hook', {"gates", "platform"}) /\ hook'.platform = f
    BY <1>2, <2>2 DEF IsRecord
  <2>6. HookOK'
    BY <1>2, <2>3, <2>4, <2>5 DEF HookOK
  <2> QED
    BY <1>1, <2>4, <2>6, NoSlot
<1>6. CASE EditWorld
  <2>1. /\ setup' = setup /\ hook' = hook /\ pods' = pods /\ applied' = applied
    BY <1>6 DEF EditWorld
  <2>2. \/ \E y : world' = [world EXCEPT !.yaml = y]
        \/ \E rt : world' = [world EXCEPT !.rt = rt]
        \/ \E p \in setup.pods.platforms : world' = [world EXCEPT !.platform = p]
    BY <1>6 DEF EditWorld
  <2>3. IsRecord(world', {"yaml", "rt", "platform"}) /\ world'.platform \in setup.pods.platforms
    <3>1. CASE \E y : world' = [world EXCEPT !.yaml = y]
      BY <1>2, <3>1 DEF IsRecord
    <3>2. CASE \E rt : world' = [world EXCEPT !.rt = rt]
      BY <1>2, <3>2 DEF IsRecord
    <3>3. CASE \E p \in setup.pods.platforms : world' = [world EXCEPT !.platform = p]
      BY <1>2, <3>3 DEF IsRecord
    <3> QED
      BY <2>2, <3>1, <3>2, <3>3
  <2>4. HookOK'
    BY <1>2, <2>1, <2>3 DEF HookOK
  <2> QED
    BY <1>1, <2>1, <2>4, NoSlot
<1> QED
  BY <1>3, <1>4, <1>5, <1>6

\* Every step.
LEMMA PodsInvStep == PodsInv /\ [APNext]_apVars => PodsInv'
<1> SUFFICES ASSUME PodsInv, [APNext]_apVars PROVE PodsInv'
  OBVIOUS
<1>1. CASE [Next]_crVars /\ UNCHANGED podVars
  <2>1. setup' = setup
    BY <1>1, SetupKept
  <2>2. world' = world /\ hook' = hook /\ pods' = pods /\ applied' = applied
    BY <1>1 DEF podVars
  <2>3. HookOK /\ AppliedOK(applied)
    BY DEF PodsInv
  <2>4. HookOK' /\ AppliedOK(applied') /\ applied'.config = applied.config
    BY <2>1, <2>2, <2>3, HookKept
  <2> QED
    BY <2>1, <2>2, <2>4, NoSlot
<1>2. CASE PodStep
  BY <1>2, AskedStep, AnswerStep, StartStep, ConfigurationStep DEF PodStep, Admission
<1> QED
  BY <1>1, <1>2, StepsSplit

\* ... so the specification has it.
LEMMA PodsInvariant == APSpec => []PodsInv
  BY PodsInvInit, PodsInvStep, PTL DEF APSpec

-----------------------------------------------------------------------------
(* The theorems.                                                           *)

(* The ports that the webhook picked for an injected Pod are free, for any *)
(* declared ports, any platform configuration, and however admissions and  *)
(* reloads interleave.                                                     *)
THEOREM PortsSound == APSpec => []PortsFree
  BY PodsInvariant, PodsInvSays, PTL

(* The configuration that an injected Pod's own admission wrote last for   *)
(* its workload fits the Pod, although admissions of other Pods write to   *)
(* the same ConfigMap and some fail on the way.                            *)
THEOREM ConfigSound == APSpec => []ConfigFitsPod
  BY PodsInvariant, PodsInvSays, PTL

(* An injected Pod is unguarded or captured only as the platform           *)
(* configuration that its admission read allows.                           *)
THEOREM PlatformSound == APSpec => []PlatformObeyed
  BY PodsInvariant, PodsInvSays, PTL

\* A container that differs in its mounts alone.
LEMMA MountsAlone ==
  ASSUME NEW c, IsRecord(c, ContainerFields), NEW d, SameContainer(c, d)
  PROVE  d = [c EXCEPT !.mounts = d.mounts]
  BY DEF IsRecord, SameContainer, ContainerFields

\* Only an answer admits a Pod.
LEMMA OnlyAnswerAdmits ==
  ASSUME PodsInv, [APNext]_apVars, NEW s \in Slots, pods[s].st = "review",
         pods'[s].st = "admitted"
  PROVE  Answer(s)
<1>1. PodStep /\ pods' # pods
  <2>1. pods' # pods
    OBVIOUS
  <2> QED
    BY <2>1, StepsSplit DEF podVars
<1>2. PICK t \in Slots : Admission(t) \/ StartPod(t)
  BY <1>1 DEF PodStep, ProvisionCA, ReloadGates, ReloadPlatform, EditWorld
<1>3. \E p : pods' = [pods EXCEPT ![t] = p]
  BY <1>2 DEF Admission, CreatePod, Reinvoke, Read, Answer, StartPod
<1>4. t = s
  BY <1>3 DEF PodsInv, IsRecord
<1>5. ~CreatePod(s) /\ ~Reinvoke(s) /\ ~StartPod(s)
  BY DEF CreatePod, Reinvoke, StartPod
<1> QED
  BY <1>2, <1>4, <1>5 DEF Admission

\* What an answer makes of a Pod that has a sidecar already.
LEMMA AnsweredAgain ==
  ASSUME PodsInv, NEW s \in Slots, Answer(s), pods'[s].st = "admitted",
         IsAlreadyInjected(pods[s].pod)
  PROVE  applied' = applied /\ OnlyRemounted(pods[s].pod, pods'[s].pod)
<1>1. PICK p : p = pods[s]
  OBVIOUS
<1>2. p.st = "review" /\ PodOK(p) /\ AppliedOK(applied) /\ IsRecord(pods, Slots)
  BY <1>1 DEF PodsInv, Answer
<1>3. PICK pod, in : pod = p.pod /\ in = p.in
  OBVIOUS
<1>4. IsRecord(p, {"st", "pod", "in", "pass", "injected"}) /\ WellFormed(pod)
  BY <1>2, <1>3 DEF PodOK
<1>5. PICK n : n = ResolveOwner(pod.owner).name
  OBVIOUS
<1>6. PICK o : o = Handle(pod, in)
  OBVIOUS
<1>7. PICK q : q = [p EXCEPT !.st = "admitted", !.pod = o.pod, !.injected = GetsProxy(pod, o.pod)]
  OBVIOUS
<1>8. q.pod = o.pod
  BY <1>4, <1>7 DEF IsRecord
<1>9. \/ pods' = [pods EXCEPT ![s] = [st |-> "denied"]]
      \/ /\ applied' = Written(n, s, o, Len(o.writes)) /\ pods' = [pods EXCEPT ![s] = q]
  BY <1>1, <1>3, <1>5, <1>6, <1>7 DEF Answer
<1>10. pods' # [pods EXCEPT ![s] = [st |-> "denied"]]
  <2>1. PICK d : d = [st |-> "denied"]
    OBVIOUS
  <2>2. d.st # "admitted"
    BY <2>1
  <2>3. [pods EXCEPT ![s] = d][s] = d
    BY <1>2 DEF IsRecord
  <2> QED
    BY <2>1, <2>2, <2>3
<1>11. applied' = Written(n, s, o, Len(o.writes)) /\ pods'[s].pod = o.pod
  BY <1>2, <1>8, <1>9, <1>10 DEF IsRecord
<1>12. /\ o.writes = <<>> /\ o.pod.inits = pod.inits /\ o.pod.sa = pod.sa
       /\ DOMAIN o.pod.containers = DOMAIN pod.containers
       /\ \A i \in DOMAIN pod.containers : SameContainer(pod.containers[i], o.pod.containers[i])
  <2>1. Rehandled(pod, o)
    BY <1>1, <1>3, <1>4, <1>6, HandledAgain
  <2> QED
    BY <2>1 DEF Rehandled
<1>13. applied' = applied
  BY <1>2, <1>11, <1>12, NothingWritten
<1>14. ASSUME NEW i \in DOMAIN pod.containers
       PROVE  o.pod.containers[i] = [pod.containers[i] EXCEPT !.mounts = o.pod.containers[i].mounts]
  <2>1. IsRecord(pod.containers[i], ContainerFields)
    BY <1>4 DEF WellFormed
  <2> QED
    BY <1>12, <2>1, MountsAlone
<1>15. pods[s].pod = pod
  BY <1>1, <1>3
<1>16. OnlyRemounted(pod, o.pod)
  BY <1>12, <1>14 DEF OnlyRemounted
<1> QED
  BY <1>11, <1>13, <1>15, <1>16

(* Asked again about a Pod that it injected, the webhook adds mounts to    *)
(* its containers and changes neither its ports and environment nor its    *)
(* workload's configuration, for any Pod and whatever was reconfigured     *)
(* since.                                                                  *)
THEOREM InjectedOnceHolds == APSpec => InjectedOnce
<1>1. PodsInv /\ [APNext]_apVars =>
        [\A s \in Slots : AskedAgain(s) =>
           applied' = applied /\ OnlyRemounted(pods[s].pod, pods'[s].pod)]_podVars
  <2> SUFFICES ASSUME PodsInv, [APNext]_apVars, NEW s \in Slots, AskedAgain(s)
               PROVE  applied' = applied /\ OnlyRemounted(pods[s].pod, pods'[s].pod)
    OBVIOUS
  <2>1. IsAlreadyInjected(pods[s].pod)
    BY NotInjectedIsFresh DEF AskedAgain
  <2>2. Answer(s) /\ pods'[s].st = "admitted"
    BY OnlyAnswerAdmits DEF AskedAgain
  <2> QED
    BY <2>1, <2>2, AnsweredAgain
<1> QED
  BY <1>1, PodsInvariant, PTL DEF APSpec, InjectedOnce

=============================================================================
