----------------------------- MODULE PodInjection -----------------------------
(***************************************************************************)
(* What the AuthBridge webhook makes of one Pod (internal/webhook): the    *)
(* hot-reloaded configuration it works with, the decision to inject, the   *)
(* resolution of the modes, the assignment of ports, the per-agent         *)
(* ConfigMap and the mutated Pod.  Everything here is a function of what   *)
(* the admission read; AgentPods has the steps.                            *)
(*                                                                         *)
(* Names of volumes and Secrets are tuples.  A container's HTTP_PROXY is a *)
(* port number, 0 when unset and 1 for a proxy of the user's; its PORT is  *)
(* the one the webhook sets, 0 where it sets none.                         *)
(* Images, resources, security contexts and the text of the configuration  *)
(* files are left out, and so is the choice between literal values and     *)
(* references in the environment.                                          *)
(***************************************************************************)
EXTENDS Integers, FiniteSets, Sequences, Functions, FiniteSetsExt

ProxyContainer == "authbridge-proxy"
EnvoyContainer == "envoy-proxy"
ProxyInit == "proxy-init"

NoPort == 0
FirstUserPort == 1024
MaxPort == 65535
----------------------------------------------------------------------------
(* The two configuration files, and what a (re)load makes of them.  A      *)
(* missing file means the compiled defaults; a file that does not parse or *)
(* validate leaves the configuration in use as it is.                      *)
DefaultFeatureGates ==
    [globalEnabled |-> TRUE, envoyProxy |-> TRUE, injectTools |-> FALSE,
     perWorkloadConfigResolution |-> FALSE, skillDiscovery |-> FALSE]

(* The file is the document under the well-known key, the first one.  When *)
(* every gate is off the defaults are taken instead.                       *)
LoadFeatureGates(docs, current) ==
    IF docs = <<>> THEN DefaultFeatureGates
    ELSE IF ~Head(docs).valid THEN current
    ELSE LET file == Head(docs).gates
             read == [g \in DOMAIN DefaultFeatureGates |->
                        IF g \in DOMAIN file THEN file[g] ELSE DefaultFeatureGates[g]]
         IN  IF \E g \in DOMAIN read : read[g] THEN read ELSE DefaultFeatureGates

CompiledDefaults ==
    [transparent |-> 8082, transparentInbound |-> 8083,
     allowedInbound |-> <<"reverse-proxy", "transparent">>,
     allowedEgress |-> <<"enforce-redirect", "none">>]

Validate(c) ==
    /\ {c.transparent, c.transparentInbound} \subseteq FirstUserPort..MaxPort
    /\ c.transparentInbound # c.transparent
    /\ c.allowedInbound # <<>>
    /\ Range(c.allowedInbound) \subseteq {"reverse-proxy", "transparent"}
    /\ c.allowedEgress # <<>>
    /\ Range(c.allowedEgress) \subseteq {"enforce-redirect", "none"}

LoadPlatformConfig(file, current) ==
    IF file = <<>> THEN CompiledDefaults
    ELSE IF Validate(Head(file)) THEN Head(file) ELSE current
----------------------------------------------------------------------------
(* The decision to inject.                                                 *)
Evaluate(pod, gates) ==
    [envoyProxy |-> gates.envoyProxy /\ ~pod.envoyOff,
     spiffeHelper |-> ~pod.spiffeOff]

AnyInjected(d) == d.envoyProxy \/ d.spiffeHelper

Eligible(pod, gates) ==
    /\ pod.type \in {"agent", "tool"}
    /\ gates.globalEnabled
    /\ pod.type = "tool" => gates.injectTools
    /\ ~pod.optOut
    /\ AnyInjected(Evaluate(pod, gates))

(* The modes: the namespace's authbridge-runtime-config, then the default; *)
(* an unknown value counts as none.  A file that does not parse or cannot  *)
(* be read says nothing.                                                   *)
NoYAML == [mode |-> "", mtls |-> "", egress |-> "", inbound |-> "", bridge |-> "", pipeline |-> {}]

Known(v, values, default) == IF v \in values THEN v ELSE default

MutNamespaceWins(v, allowed) == v

Permitted(v, allowed) == IF v \in Range(allowed) THEN v ELSE Head(allowed)

ExtractMTLSMode(y) == Known(y.mtls, {"disabled", "permissive", "strict"}, "permissive")

ExtractTLSBridgeMode(y) == Known(y.bridge, {"enabled", "disabled"}, "disabled")

ExtractEgressEnforcement(y, c) ==
    Permitted(Known(y.egress, {"enforce-redirect", "none"}, "enforce-redirect"), c.allowedEgress)

(* The deprecated annotation stands behind the namespace's mode.           *)
ExtractMode(y, pod) ==
    Known(IF y.mode = "" THEN pod.mode ELSE y.mode,
          {"proxy-sidecar", "envoy-sidecar", "lite", "waypoint"}, "proxy-sidecar")

(* Transparent interception needs the init container of the egress guard.  *)
ExtractInboundInterception(y, c) ==
    LET asked == Permitted(Known(y.inbound, {"reverse-proxy", "transparent"}, "reverse-proxy"),
                           c.allowedInbound)
    IN  IF ExtractEgressEnforcement(y, c) = "enforce-redirect" THEN asked ELSE "reverse-proxy"
----------------------------------------------------------------------------
(* The ports of a Pod whose sidecar is a proxy.                            *)
DefaultAgentPort == 8000
FirstForwardPort == 8081
AdminPorts == {9091, 9093, 9094}   \* health, stats, session events

MutForgetEgressListener(c) == AdminPorts \cup {c.transparentInbound}

SidecarPorts(c) == AdminPorts \cup {c.transparent, c.transparentInbound}

(* The first port from start on that is not in use, if there is one.       *)
FindFreePort(start, used) ==
    LET p == Min({q \in start..(start + Cardinality(used)) : q \notin used})
    IN  IF p > MaxPort THEN NoPort ELSE p

DeclaredPorts(pod) == UNION {Range(pod.containers[i].ports) : i \in DOMAIN pod.containers}

(* The container to move is the first application container with a port.   *)
AgentIndex(pod) ==
    LET with == {i \in DOMAIN pod.containers :
                   pod.containers[i].name # ProxyContainer /\ pod.containers[i].ports # <<>>}
    IN  IF with = {} THEN 0 ELSE Min(with)

OriginalPort(pod) ==
    IF AgentIndex(pod) = 0 THEN DefaultAgentPort ELSE Head(pod.containers[AgentIndex(pod)].ports)

(* A proxy-init that came with the Pod and captures no inbound traffic, or *)
(* a declared port that the sidecar binds, rules transparency out.         *)
StaysTransparent(pod, c) ==
    /\ \A i \in DOMAIN pod.inits : pod.inits[i].name = ProxyInit => pod.inits[i].capture # NoPort
    /\ \A i \in DOMAIN pod.containers :
         pod.containers[i].name # ProxyContainer =>
             Range(pod.containers[i].ports) \cap SidecarPorts(c) = {}

(* Transparently the agent keeps its ports; otherwise the reverse proxy    *)
(* takes the first one and the agent moves to a free one.                  *)
AssignPorts(pod, c, asked) ==
    LET used == DeclaredPorts(pod) \cup {OriginalPort(pod)} \cup SidecarPorts(c)
        transparent == asked = "transparent" /\ StaysTransparent(pod, c)
        moved == IF transparent THEN NoPort ELSE FindFreePort(OriginalPort(pod) + 1, used)
        forward == FindFreePort(FirstForwardPort, used \cup {moved})
    IN  [transparent |-> transparent, moved |-> moved, forward |-> forward,
         inbound |-> IF transparent THEN c.transparentInbound ELSE OriginalPort(pod),
         ok |-> (transparent \/ moved # NoPort) /\ forward # NoPort]

----------------------------------------------------------------------------
(* The plugin pipeline of the per-agent configuration: a policy for every  *)
(* plugin listed, and the plugins that have a configuration of their own.  *)
Plugins ==
    {"a2a-parser", "jwt-validation", "token-exchange", "token-broker", "inference-parser",
     "mcp-parser", "ibac"}
Policies == {"enforce", "observe", "off"}

PresetMembership ==
    [p \in {"auth-only", "ibac-only", "full"} |->
       (IF p = "auth-only" THEN {} ELSE {"a2a-parser", "inference-parser", "mcp-parser", "ibac"})
       \cup (IF p = "ibac-only" THEN {} ELSE {"jwt-validation", "token-exchange"})]

Pipeline(policy, configured) == [ok |-> TRUE, policy |-> policy, configured |-> configured]
Rejected == [ok |-> FALSE]

(* The chart's pipeline, or one made from the namespace's settings.        *)
BasePipeline(y) ==
    LET plugins == IF y.pipeline = {} THEN {"jwt-validation", "token-exchange"} ELSE y.pipeline
    IN  Pipeline([p \in plugins |-> "enforce"], plugins)

(* A preset lists every plugin.  Overrides apply in order, so that the     *)
(* last one of a plugin counts, and a plugin keeps the configuration it    *)
(* has in the base; an active ibac gets one.                               *)
ResolvePolicies(rt) ==
    LET member == IF rt.onError = "" THEN "enforce" ELSE rt.onError
        overrides(p) == {i \in DOMAIN rt.plugins : rt.plugins[i].name = p}
    IN  [p \in Plugins |->
           IF overrides(p) # {} THEN rt.plugins[Max(overrides(p))].policy
           ELSE IF p \in PresetMembership[rt.preset] THEN member ELSE "off"]

Exclusive(policy) == policy["token-exchange"] = "off" \/ policy["token-broker"] = "off"

SynthesizePresetPipeline(base, rt) ==
    LET legal == /\ rt.preset \in DOMAIN PresetMembership
                 /\ rt.onError \in Policies \cup {""}
                 /\ \A o \in Range(rt.plugins) : o.name \in Plugins /\ o.policy \in Policies
    IN  IF ~legal THEN Rejected
        ELSE LET policy == ResolvePolicies(rt)
             IN  IF ~Exclusive(policy) THEN Rejected
                 ELSE Pipeline(policy, (base.configured \cap Plugins) \cup
                                       (IF policy["ibac"] # "off" THEN {"ibac"} ELSE {}))

NoRuntime == [target |-> "", kind |-> "", preset |-> "", plugins |-> <<>>, onError |-> "",
              routes |-> FALSE, bridge |-> FALSE]

RenderPipeline(y, rt) ==
    IF rt.preset = "" THEN BasePipeline(y) ELSE SynthesizePresetPipeline(BasePipeline(y), rt)

(* ensurePerAgentConfigMap's document.  Routes reach the token-exchange    *)
(* plugin when the pipeline lists it.                                      *)
AgentConfig(mode, y, rt, listener, mtls, bridge, spire) ==
    LET pipeline == RenderPipeline(y, rt)
    IN  [mode |-> mode, listener |-> listener, mtls |-> mtls, bridge |-> bridge = "enabled",
         spiffe |-> spire, pipeline |-> pipeline, preset |-> rt.preset,
         base |-> BasePipeline(y).configured,
         routed |-> rt.routes /\ "token-exchange" \in DOMAIN pipeline.policy]

NoListener == [transparent |-> FALSE, inbound |-> NoPort, backend |-> NoPort, forward |-> NoPort]

Listener(ports) ==
    [transparent |-> ports.transparent, inbound |-> ports.inbound, backend |-> ports.moved,
     forward |-> ports.forward]
----------------------------------------------------------------------------
(* The mutated Pod.  A volume that is already there is kept.               *)
Volume(name, source, required) == [name |-> name, source |-> source, required |-> required]

AddVolumes(pod, volumes) ==
    [pod EXCEPT !.volumes = @ \cup {v \in volumes : \A w \in @ : w.name # v.name}]

SpireVolumes ==
    {Volume(<<"spire-agent-socket">>, <<"csi">>, FALSE),
     Volume(<<"spiffe-helper-config">>, <<"spiffe-helper-config">>, TRUE),
     Volume(<<"svid-output">>, <<"emptyDir">>, FALSE)}

(* BuildRequiredVolumes with the per-agent ConfigMaps put in.              *)
RequiredVolumes(n, spire, routes, envoy) ==
    {Volume(<<"shared-data">>, <<"emptyDir">>, FALSE),
     Volume(<<"authbridge-runtime-config">>, <<"config", n>>, FALSE),
     Volume(<<"authproxy-routes">>, IF routes THEN <<"routes", n>> ELSE <<"authproxy-routes">>, routes),
     Volume(<<"envoy-config">>, IF envoy THEN <<"envoy", n>> ELSE <<"envoy-config">>, FALSE)}
    \cup (IF spire THEN SpireVolumes ELSE {})

SpireMounts(spire) ==
    IF spire THEN {<<"svid-output">>, <<"spiffe-helper-config">>, <<"spire-agent-socket">>} ELSE {}

Sidecar(name, ports, mounts, spire) ==
    [name |-> name, ports |-> ports, proxy |-> NoPort, port |-> NoPort,
     mounts |-> {<<"shared-data">>, <<"authbridge-runtime-config">>, <<"authproxy-routes">>}
                \cup mounts \cup SpireMounts(spire)]

ProxySidecar(ports, spire) ==
    Sidecar(ProxyContainer, <<ports.inbound, ports.forward>>, {}, spire)

EnvoySidecar(spire) == Sidecar(EnvoyContainer, <<>>, {<<"envoy-config">>}, spire)

AddContainer(pod, c) ==
    IF \E i \in DOMAIN pod.containers : pod.containers[i].name = c.name THEN pod
    ELSE [pod EXCEPT !.containers = Append(@, c)]

AddInit(pod, init) ==
    IF \E i \in DOMAIN pod.inits : pod.inits[i].name = init.name THEN pod
    ELSE [pod EXCEPT !.inits = Append(@, init)]

(* The agent moves to its new port and is told so by PORT.                 *)
MoveAgent(pod, ports) ==
    IF ports.transparent \/ AgentIndex(pod) = 0 THEN pod
    ELSE [pod EXCEPT !.containers[AgentIndex(pod)] =
            [@ EXCEPT !.ports[1] = ports.moved, !.port = ports.moved]]

(* HTTP_PROXY for the application containers, unless they have their own.  *)
InjectHTTPProxyEnv(pod, forward) ==
    [pod EXCEPT !.containers = [i \in DOMAIN @ |->
        IF @[i].name # ProxyContainer /\ @[i].proxy = NoPort
          THEN [@[i] EXCEPT !.proxy = forward] ELSE @[i]]]

(* proxy-init captures inbound traffic only for a transparent sidecar, and *)
(* then spares the sidecar's own listeners.                                *)
MutGuardDefaultPort(ports, c) ==
    [name |-> ProxyInit, capture |-> IF ports.transparent THEN ports.inbound ELSE NoPort,
     spared |-> IF ports.transparent
                  THEN {FirstForwardPort} \cup AdminPorts \cup {c.transparent, c.transparentInbound}
                  ELSE {}]

BuildProxyInit(ports, c) ==
    [name |-> ProxyInit, capture |-> IF ports.transparent THEN ports.inbound ELSE NoPort,
     spared |-> IF ports.transparent
                  THEN {ports.forward} \cup AdminPorts \cup {c.transparent, c.transparentInbound}
                  ELSE {}]

RedirectInit == [name |-> ProxyInit, capture |-> NoPort, spared |-> {}]

WithMount(c, name) == [c EXCEPT !.mounts = @ \cup {name}]

(* The client credentials: a required Secret volume, mounted wherever      *)
(* shared-data is.                                                         *)
ApplyCredentials(pod) ==
    IF pod.creds = <<>> THEN pod
    ELSE [AddVolumes(pod, {Volume(pod.creds, pod.creds, TRUE)}) EXCEPT
            !.containers = [i \in DOMAIN @ |->
                IF <<"shared-data">> \in @[i].mounts THEN WithMount(@[i], pod.creds) ELSE @[i]]]

(* The agent's certificate authority: the key pair for the sidecar, the    *)
(* certificate alone for everyone else.                                    *)
ApplyTLSBridge(pod, n) ==
    LET key == <<"tls-bridge-ca">>
        cert == <<"tls-bridge-ca-cert">>
    IN  [AddVolumes(pod, {Volume(key, <<"ca", n>>, TRUE), Volume(cert, <<"ca", n>>, TRUE)}) EXCEPT
            !.containers = [i \in DOMAIN @ |->
                WithMount(@[i], IF @[i].name = ProxyContainer THEN key ELSE cert)]]

----------------------------------------------------------------------------
(* InjectAuthBridge: whether the Pod is mutated, the objects written on    *)
(* the way and in which order, the Pod, and its configuration.             *)
Outcome(result, writes, pod, config) ==
    [result |-> result, writes |-> writes, pod |-> pod, config |-> config]

NoConfig == [mode |-> ""]

ProxyPod(pod, n, in, ports, spire) ==
    LET moved == InjectHTTPProxyEnv(AddContainer(MoveAgent(pod, ports), ProxySidecar(ports, spire)),
                                    ports.forward)
        guarded == IF ExtractEgressEnforcement(in.yaml, in.platform) = "enforce-redirect"
                     THEN AddInit(moved, BuildProxyInit(ports, in.platform)) ELSE moved
        mounted == ApplyCredentials(AddVolumes(guarded, RequiredVolumes(n, spire, in.rt.routes, FALSE)))
    IN  IF ExtractTLSBridgeMode(in.yaml) = "enabled" THEN ApplyTLSBridge(mounted, n) ELSE mounted

EnvoyPod(pod, n, in, spire) ==
    LET proxied == IF Evaluate(pod, in.gates).envoyProxy
                     THEN AddInit(AddContainer(pod, EnvoySidecar(spire)), RedirectInit) ELSE pod
    IN  ApplyCredentials(AddVolumes(proxied, RequiredVolumes(n, spire, in.rt.routes, TRUE)))

InjectAuthBridge(pod, n, in) ==
    LET mtls == ExtractMTLSMode(in.yaml)
        bridge == ExtractTLSBridgeMode(in.yaml)
        mode == ExtractMode(in.yaml, pod)
        proxied == mode \in {"proxy-sidecar", "lite"}
        spire == Evaluate(pod, in.gates).spiffeHelper \/ mtls # "disabled"
        own == spire /\ pod.sa \in {"", "default"}
        account == IF own THEN <<"account">> ELSE <<>>
        named == IF own THEN [pod EXCEPT !.sa = n] ELSE pod
        ports == AssignPorts(pod, in.platform, ExtractInboundInterception(in.yaml, in.platform))
        files == account \o <<"config">> \o (IF in.rt.routes THEN <<"routes">> ELSE <<>>)
        failed == (proxied /\ ~ports.ok) \/ ~RenderPipeline(in.yaml, in.rt).ok
    IN  IF ~Eligible(pod, in.gates) THEN Outcome("skip", <<>>, pod, NoConfig)
        ELSE IF mode = "waypoint" THEN Outcome("skip", account, pod, NoConfig)
        ELSE IF failed THEN Outcome("error", account, pod, NoConfig)
        ELSE IF proxied THEN
             Outcome("ok", files, ProxyPod(named, n, in, ports, spire),
                     AgentConfig("proxy-sidecar", in.yaml, in.rt, Listener(ports), mtls, bridge, spire))
        ELSE Outcome("ok", Append(files, "envoy"), EnvoyPod(named, n, in, spire),
                     AgentConfig(mode, in.yaml, in.rt, NoListener, mtls, "", spire))
----------------------------------------------------------------------------
(* A Pod as it comes to the webhook: the API server has seen its ports, or *)
(* its template's.  A container mounts volumes of the Pod, or shared-data  *)
(* that the webhook is to add.                                             *)
IsRecord(r, F) == r = [f \in F |-> r[f]]
IsSequence(s) == s \in Seq(Range(s))

PodFields ==
    {"type", "optOut", "envoyOff", "spiffeOff", "mode", "creds", "sa", "owner", "containers",
     "inits", "volumes"}
ContainerFields == {"name", "ports", "proxy", "port", "mounts"}

VolumeNames(pod) == {v.name : v \in pod.volumes}
Has(pod, name) == \E i \in DOMAIN pod.containers : pod.containers[i].name = name

WellFormed(pod) ==
    /\ IsRecord(pod, PodFields)
    /\ IsSequence(pod.containers) /\ IsSequence(pod.inits)
    /\ \A i \in DOMAIN pod.containers :
         LET c == pod.containers[i]
         IN  /\ IsRecord(c, ContainerFields)
             /\ c.ports \in Seq(1..MaxPort)
             /\ c.mounts \subseteq VolumeNames(pod) \cup {<<"shared-data">>}
             /\ ~Has(pod, ProxyContainer) => c.port = NoPort /\ c.proxy \in {NoPort, 1}

(* What is right about a Pod into which an admission put the proxy, that   *)
(* had platform configuration c.                                           *)
GetsProxy(before, after) == Has(after, ProxyContainer) /\ ~Has(before, ProxyContainer)

SidecarOf(pod) == CHOOSE c \in Range(pod.containers) : c.name = ProxyContainer
AppsOf(pod) == {i \in DOMAIN pod.containers : pod.containers[i].name # ProxyContainer}
InitsOf(pod) == {i \in Range(pod.inits) : i.name = ProxyInit}
Listeners(c) == AdminPorts \cup {c.transparent, c.transparentInbound}

(* The ports the webhook picks, the forward proxy's and the one the agent  *)
(* moves to, are free: no other container declares them and no listener of *)
(* the sidecar binds them.  A transparent sidecar collides with no         *)
(* declared port at all.                                                   *)
PortsFreeIn(pod, c) ==
    LET sidecar == SidecarOf(pod).ports
        declared(i) == Range(pod.containers[i].ports)
    IN  /\ sidecar[2] \in 1..MaxPort
        /\ sidecar[2] \notin Listeners(c) \cup {sidecar[1]}
        /\ \A i \in AppsOf(pod) : sidecar[2] \notin declared(i)
        /\ \A i \in AppsOf(pod) : pod.containers[i].port # NoPort =>
             /\ pod.containers[i].port \in 1..MaxPort
             /\ pod.containers[i].port \notin Listeners(c) \cup {sidecar[1]}
             /\ \A j \in AppsOf(pod) \ {i} : pod.containers[i].port \notin declared(j)
        /\ (\E i \in InitsOf(pod) : i.capture # NoPort) =>
             \A i \in AppsOf(pod) : declared(i) \cap Listeners(c) = {}

(* The pipeline an agent runs: with a preset, every plugin is listed, the  *)
(* two sources of outbound tokens are never both active whatever the       *)
(* overrides, a plugin of the catalogue that the namespace configures      *)
(* stays configured and an active ibac is configured.                      *)
PipelineSound(doc) ==
    LET policy == doc.pipeline.policy
    IN  doc.preset # "" =>
          /\ DOMAIN policy = Plugins
          /\ policy["token-exchange"] = "off" \/ policy["token-broker"] = "off"
          /\ doc.base \cap Plugins \subseteq doc.pipeline.configured
          /\ policy["ibac"] # "off" => "ibac" \in doc.pipeline.configured

(* The configuration fits the Pod: the agent listens where the reverse     *)
(* proxy forwards, sends through the port the forward proxy binds,         *)
(* proxy-init captures for the inbound listener and spares every other     *)
(* one, the files of mutual TLS and of the bridge are mounted, and the     *)
(* pipeline is sound.                                                      *)
Fits(pod, doc, c) ==
    LET l == doc.listener
        sidecar == SidecarOf(pod)
    IN  /\ PipelineSound(doc)
        /\ sidecar.ports = <<l.inbound, l.forward>>
        /\ \A i \in AppsOf(pod) : /\ pod.containers[i].proxy \in {1, l.forward}
                                   /\ pod.containers[i].port \in {NoPort, l.backend}
        /\ \A i \in InitsOf(pod) :
             IF l.transparent
               THEN i.capture = l.inbound /\ i.spared = {l.forward} \cup Listeners(c)
               ELSE i.capture = NoPort
        /\ l.transparent => InitsOf(pod) # {}
        /\ doc.mtls # "disabled" => doc.spiffe
        /\ doc.spiffe => SpireMounts(TRUE) \subseteq sidecar.mounts
        /\ doc.bridge => <<"tls-bridge-ca">> \in sidecar.mounts
        /\ \A m \in Range(pod.containers) : m.mounts \subseteq VolumeNames(pod)

(* Traffic is left unguarded, and captured on the way in, only where the   *)
(* platform lists that.                                                    *)
Obeys(pod, c) ==
    /\ Validate(c)
    /\ InitsOf(pod) = {} => "none" \in Range(c.allowedEgress)
    /\ InitsOf(pod) # {} => "enforce-redirect" \in Range(c.allowedEgress)
    /\ (\E i \in InitsOf(pod) : i.capture # NoPort) => "transparent" \in Range(c.allowedInbound)
=============================================================================
