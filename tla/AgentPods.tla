------------------------------- MODULE AgentPods -------------------------------
(***************************************************************************)
(* The Pods of the workloads that ClientRegistration registers: the        *)
(* AuthBridge webhook admits them, they mount the credentials Secret that  *)
(* the registration writes and the certificate authority that the TLS      *)
(* bridge controller orders, and the kubelet starts them when the volumes  *)
(* they require exist.                                                     *)
(*                                                                         *)
(* An admission reads the configuration in one step and writes and answers *)
(* in another, so that admissions of one workload overlap with each other  *)
(* and with changes of the configuration.  The webhook may be asked again  *)
(* about a Pod another admission plugin touched in between.                *)
(***************************************************************************)
EXTENDS ClientRegistration, PodInjection

(* The Pods are ones the API server accepts, of workloads of the           *)
(* namespace, and the platform file lists modes.                           *)
ASSUME PodsAssumption ==
    \A s \in Setups :
        /\ \A t \in s.pods.templates : WellFormed(t) /\ t.owner.base \in Names
        /\ \A f \in s.pods.platforms : f # <<>> =>
             IsSequence(Head(f).allowedInbound) /\ IsSequence(Head(f).allowedEgress)

VARIABLES
    world,     \* the namespace's runtime configuration, the AgentRuntime, the platform file
    hook,      \* the gates and the platform configuration the webhook works with
    pods,      \* [slot -> Pod and where its admission stands]
    applied    \* objects the admissions and the TLS bridge controller wrote

podVars == <<world, hook, pods, applied>>
apVars == <<crVars, podVars>>

Slots == setup.pods.slots
NoPod == [st |-> "none"]
----------------------------------------------------------------------------
(* ResolveOwner: the workload behind a Pod, by its controller and, for a   *)
(* ReplicaSet's Pod or one without a known controller, by the template     *)
(* hash at the end of the name.                                            *)
ReplicaSetName == "replicaset"

MutOwnerOfReplicaSet(owner) ==
    IF owner.kind \in {"StatefulSet", "Sandbox"} THEN [name |-> owner.base, kind |-> owner.kind]
    ELSE IF owner.kind = "ReplicaSet" THEN [name |-> ReplicaSetName, kind |-> "Deployment"]
    ELSE [name |-> owner.base, kind |-> ""]

ResolveOwner(owner) ==
    IF owner.kind \in {"StatefulSet", "Sandbox"} THEN [name |-> owner.base, kind |-> owner.kind]
    ELSE IF owner.hash THEN [name |-> owner.base, kind |-> "Deployment"]
    ELSE IF owner.kind = "ReplicaSet" THEN [name |-> ReplicaSetName, kind |-> ""]
    ELSE [name |-> owner.base, kind |-> ""]

PodWorkloads == Names \cup {ReplicaSetName}

SecretName(n) == <<"creds", n>>

MutOnlyInitInjected(pod) == \E i \in DOMAIN pod.inits : pod.inits[i].name = ProxyInit

IsAlreadyInjected(pod) ==
    \/ \E i \in DOMAIN pod.containers : pod.containers[i].name \in {EnvoyContainer, ProxyContainer}
    \/ \E i \in DOMAIN pod.inits : pod.inits[i].name = ProxyInit

(* The AgentRuntime that targets this workload.                            *)
RuntimeFor(rt, w) == IF rt.target = w.name /\ rt.kind = w.kind THEN rt ELSE NoRuntime

(* Handle.  The annotation it adds is lost when the Pod is not mutated.    *)
Handle(pod, in) ==
    LET w == ResolveOwner(pod.owner)
        wants == WorkloadWantsOperatorClientReg(pod.type, in.gates.injectTools)
        annotated == IF pod.creds = <<>> /\ wants
                       THEN [pod EXCEPT !.creds = SecretName(w.name)] ELSE pod
        o == InjectAuthBridge(annotated, w.name, [in EXCEPT !.rt = RuntimeFor(@, w)])
    IN  IF IsAlreadyInjected(pod) THEN Outcome("ok", <<>>, ApplyCredentials(annotated), NoConfig)
        ELSE [o EXCEPT !.pod = IF o.result = "ok" THEN @ ELSE pod]
----------------------------------------------------------------------------
(* An admission: what it reads.  A namespace configuration or a list of    *)
(* AgentRuntimes that cannot be read counts as empty.                      *)
Inputs(yaml, rt) == [gates |-> hook.gates, platform |-> hook.platform, yaml |-> yaml, rt |-> rt]

Read(s, pod, pass) ==
    \E yaml \in {world.yaml, NoYAML}, rt \in {world.rt, NoRuntime} :
        /\ IF yaml = world.yaml /\ rt = world.rt THEN UNCHANGED faults ELSE Fault
        /\ pods' = [pods EXCEPT ![s] = [st |-> "review", pod |-> pod, in |-> Inputs(yaml, rt),
                                        pass |-> pass, injected |-> FALSE]]

OnlyPods == UNCHANGED <<boot, kc, fresh, regVars, world, hook>>

CreatePod(s) ==
    /\ pods[s].st \in {"none", "denied"}
    /\ \E t \in setup.pods.templates : Read(s, t, 1)
    /\ OnlyPods /\ UNCHANGED applied

(* External: another plugin annotates the Pod or adds a container to it,   *)
(* and the API server asks the webhook again.                              *)
MeshPort == 15020

Mesh == [name |-> "mesh", ports |-> <<MeshPort>>, proxy |-> NoPort, port |-> NoPort,
         mounts |-> {<<"shared-data">>}]

Touched(pod) ==
    {[pod EXCEPT !.creds = IF @ = <<>> THEN <<"other">> ELSE @],
     [pod EXCEPT !.containers = Append(@, Mesh)]}

Reinvoke(s) ==
    /\ pods[s].st = "admitted" /\ pods[s].pass < setup.pods.passes
    /\ \E pod \in Touched(pods[s].pod) : Read(s, pod, pods[s].pass + 1)
    /\ OnlyPods /\ UNCHANGED applied

(* ... what it writes, one object after the other, and what it answers.    *)
(* A failed write denies the Pod and leaves the earlier ones.              *)
Written(n, s, o, k) ==
    LET done == {o.writes[i] : i \in 1..k}
    IN  [applied EXCEPT
            !.accounts = IF "account" \in done THEN @ \cup {n} ELSE @,
            !.config = IF "config" \in done
                         THEN [@ EXCEPT ![n] = [by |-> s, doc |-> o.config]] ELSE @,
            !.routes = IF "routes" \in done THEN @ \cup {n} ELSE @,
            !.envoy = IF "envoy" \in done THEN [@ EXCEPT ![n] = o.config.mtls] ELSE @]

Answer(s) ==
    /\ pods[s].st = "review"
    /\ LET o == Handle(pods[s].pod, pods[s].in)
           n == ResolveOwner(pods[s].pod.owner).name
           all == Len(o.writes)
       IN  \/ /\ UNCHANGED faults
              /\ applied' = Written(n, s, o, all)
              /\ pods' = [pods EXCEPT ![s] = IF o.result = "error" THEN [st |-> "denied"]
                                             ELSE [@ EXCEPT !.st = "admitted", !.pod = o.pod,
                                                            !.injected = GetsProxy(pods[s].pod, o.pod)]]
           \/ /\ Fault
              /\ \E k \in 0..(all - 1) : applied' = Written(n, s, o, k)
              /\ pods' = [pods EXCEPT ![s] = [st |-> "denied"]]
    /\ OnlyPods

(* TLSBridgeCAReconciler: an issuer and a certificate for an AgentRuntime  *)
(* that asks for the bridge; cert-manager then issues the Secret.          *)
ProvisionCA ==
    /\ Slots # {}
    /\ world.rt.bridge /\ world.rt.target \notin applied.ca
    /\ applied' = [applied EXCEPT !.ca = @ \cup {world.rt.target}]
    /\ OnlyPods /\ UNCHANGED <<faults, pods>>

(* External: the kubelet starts a Pod once its required volumes are there. *)
Available(source) ==
    CASE source[1] = "creds" -> source[2] \in Names /\ secrets[source[2]].owner # "none"
      [] source[1] = "ca" -> source[2] \in applied.ca
      [] source[1] = "routes" -> source[2] \in applied.routes
      [] OTHER -> TRUE

StartPod(s) ==
    /\ pods[s].st = "admitted"
    /\ \A v \in pods[s].pod.volumes : v.required => Available(v.source)
    /\ pods' = [pods EXCEPT ![s].st = "running"]
    /\ OnlyPods /\ UNCHANGED <<faults, applied>>
----------------------------------------------------------------------------
(* The webhook reloads its files some time after they change.              *)
ReloadGates ==
    /\ Slots # {}
    /\ hook' = [hook EXCEPT !.gates = LoadFeatureGates(gates, @)]
    /\ UNCHANGED <<bootVars, regVars, world, pods, applied>>

ReloadPlatform ==
    /\ Slots # {}
    /\ hook' = [hook EXCEPT !.platform = LoadPlatformConfig(world.platform, @)]
    /\ UNCHANGED <<bootVars, regVars, world, pods, applied>>

(* External: changes of the namespace's runtime configuration, the         *)
(* AgentRuntime and the platform file.                                     *)
EditWorld ==
    /\ edits < setup.edits
    /\ edits' = edits + 1
    /\ \/ world' \in {[world EXCEPT !.yaml = y] : y \in setup.pods.yamls}
       \/ world' \in {[world EXCEPT !.rt = rt] : rt \in setup.pods.rts}
       \/ world' \in {[world EXCEPT !.platform = p] : p \in setup.pods.platforms}
    /\ world' # world
    /\ UNCHANGED <<bootVars, setup, gates, conf, wl, secrets, realm, cache, queue, rec, unseen,
                   unlucky, hook, pods, applied>>

APInit ==
    /\ Init
    /\ world \in [yaml : setup.pods.yamls, rt : setup.pods.rts, 
                  platform : {p \in setup.pods.platforms : p = <<>> \/ Validate(Head(p))}]
    /\ hook = [gates |-> LoadFeatureGates(gates, DefaultFeatureGates),
               platform |-> LoadPlatformConfig(world.platform, CompiledDefaults)]
    /\ pods = [s \in Slots |-> NoPod]
    /\ applied = [accounts |-> {}, config |-> [n \in PodWorkloads |-> [by |-> 0]],
                  routes |-> {}, envoy |-> [n \in PodWorkloads |-> ""], ca |-> {}]

Admission(s) == CreatePod(s) \/ Reinvoke(s) \/ Answer(s)

PodStep ==
    \/ \E s \in Slots : Admission(s) \/ StartPod(s)
    \/ ProvisionCA
    \/ ReloadGates
    \/ ReloadPlatform
    \/ EditWorld

APNext == (Next /\ UNCHANGED podVars) \/ PodStep

(* Fairness: besides the registration's, the controller of the bridge      *)
(* reconciles and the kubelet retries its mounts.                          *)
APSpec ==
    /\ APInit /\ [][APNext]_apVars
    /\ Fairness
    /\ WF_apVars(ProvisionCA)
    /\ WF_apVars(\E s \in Slots : StartPod(s))
----------------------------------------------------------------------------
(* The last admission put the proxy into the Pod; its inputs are recorded. *)
Proxied(s) ==
    /\ pods[s].st \in {"admitted", "running"}
    /\ pods[s].injected

(* The ports of an injected Pod are free, wherever the declared ports      *)
(* pushed the search.                                                      *)
PortsFree == \A s \in Slots : Proxied(s) => PortsFreeIn(pods[s].pod, pods[s].in.platform)

(* A Pod's configuration fits the Pod, as long as its own admission wrote  *)
(* it last.                                                                *)
ConfigFitsPod ==
    \A s \in Slots : Proxied(s) =>
        LET config == applied.config[ResolveOwner(pods[s].pod.owner).name]
        IN  config.by = s => Fits(pods[s].pod, config.doc, pods[s].in.platform)

(* What the platform does not allow no namespace obtains, whichever        *)
(* configuration the admission raced with.                                 *)
PlatformObeyed == \A s \in Slots : Proxied(s) => Obeys(pods[s].pod, pods[s].in.platform)

(* Between two states a Pod keeps all but the mounts of its containers.    *)
OnlyRemounted(old, new) ==
    /\ new.inits = old.inits /\ new.sa = old.sa
    /\ DOMAIN new.containers = DOMAIN old.containers
    /\ \A i \in DOMAIN old.containers :
         new.containers[i] = [old.containers[i] EXCEPT !.mounts = new.containers[i].mounts]

AskedAgain(s) ==
    /\ pods[s].st = "review" /\ pods'[s].st = "admitted"
    /\ Has(pods[s].pod, ProxyContainer) \/ Has(pods[s].pod, EnvoyContainer)

(* Asked again about a Pod it has injected, the webhook at most mounts the *)
(* credentials: the agent does not move a second time, no environment      *)
(* changes, and the configuration the Pod was given stays.                 *)
InjectedOnce ==
    [][\A s \in Slots : AskedAgain(s) =>
         applied' = applied /\ OnlyRemounted(pods[s].pod, pods'[s].pod)]_podVars

(* A Pod of a workload that the registration serves, with the bridge only  *)
(* where the AgentRuntime asks for it.                                     *)
WorkloadKind(owner) == IF owner.kind = "ReplicaSet" THEN "Deployment" ELSE owner.kind

Served(pod) ==
    /\ pod.owner.kind = "ReplicaSet" => pod.owner.hash
    /\ pod.owner.base \in Names
    /\ Due(pod.owner.base) /\ Possible(pod.owner.base)
    /\ WorkloadKind(pod.owner) = KindFor(pod.owner.base)
    /\ pod.creds # <<"other">>
    /\ (\E v \in pod.volumes : v.name = <<"tls-bridge-ca">>) =>
         world.rt.bridge /\ world.rt.target = pod.owner.base

(* An admitted Pod that is served does not wait for ever: the Secrets that *)
(* the webhook made it require are the ones the controllers write.         *)
PodsStart == <>[](\A s \in Slots : ~(pods[s].st = "admitted" /\ Served(pods[s].pod)))
=============================================================================
