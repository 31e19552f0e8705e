------------------------- MODULE MCClientRegistration -------------------------
(***************************************************************************)
(* Instance of ClientRegistration and AgentPods.  The setups divide the    *)
(* question: a new cluster whose Keycloak two operator instances bootstrap,*)
(* clusters that are set up, each with one kind of change around the       *)
(* worker, and namespaces in which Pods are admitted.                      *)
(***************************************************************************)
EXTENDS AgentPods

InstanceKinds == <<"Deployment", "StatefulSet", "Sandbox">>
InstanceAccounts == [n \in Names |-> "sa"]

Gates(valid, g) == [valid |-> valid, gates |-> g]
NoGates == <<>>
ClosedGates == <<Gates(FALSE, <<>>), Gates(TRUE, "clientRegistration" :> FALSE)>>
ToolGates == <<Gates(TRUE, "injectTools" :> TRUE)>>
InstanceGates == {NoGates, ClosedGates, ToolGates}

Conf(url, auth, aud) ==
    [url |-> url, realm |-> "realm", auth |-> auth, alias |-> "", exch |-> "", aud |-> aud,
     platforms |-> {""}]
Secretly == Conf("url", "", "")
Federated == Conf("url", "federated-jwt", "")
NoAudience == Conf("url", "", "false")
Unset == Conf("", "", "")
InstanceRealms == {Secretly, Federated, NoAudience, Unset}

(* Pods: an agent of Deployment a with these ports, and variations.        *)
Container(name, ports) ==
    [name |-> name, ports |-> ports, proxy |-> NoPort, port |-> NoPort, mounts |-> {}]

Owner(kind, hash, base) == [kind |-> kind, hash |-> hash, base |-> base]

Agent(containers) ==
    [type |-> "agent", optOut |-> FALSE, envoyOff |-> FALSE, spiffeOff |-> FALSE, mode |-> "",
     creds |-> <<>>, sa |-> "", containers |-> containers, inits |-> <<>>, volumes |-> {},
     owner |-> Owner("ReplicaSet", TRUE, "a")]

Plain == Agent(<<Container("app", <<8000>>)>>)

(* The ports the search meets: the agent's own, the forward proxy's, the   *)
(* sidecar's, the last one, none, and several containers.                  *)
PortPods ==
    {Agent(<<Container("app", p)>>) :
        p \in {<<>>, <<8000>>, <<8000, 8001>>, <<8081>>, <<8081, 8084>>, <<8082>>, <<9090>>, <<65535>>}}
    \cup {Agent(<<Container("log", <<>>), Container("app", <<8080>>),
                  [Container("aux", <<8081, 8082>>) EXCEPT !.proxy = 1]>>),
          Agent(<<Container("app", <<8080>>), Container("aux", <<8081, 8083>>)>>),
          Agent(<<Container("app", <<8080>>), Container("aux", <<8081, 8084>>)>>)}

OtherPods ==
    {Plain, [Plain EXCEPT !.type = "tool"], [Plain EXCEPT !.type = "none"],
     [Plain EXCEPT !.optOut = TRUE], [Plain EXCEPT !.spiffeOff = TRUE],
     [Plain EXCEPT !.spiffeOff = TRUE, !.envoyOff = TRUE], [Plain EXCEPT !.envoyOff = TRUE],
     [Plain EXCEPT !.sa = "sa"], [Plain EXCEPT !.creds = <<"own">>],
     [Plain EXCEPT !.mode = "envoy-sidecar"], [Plain EXCEPT !.mode = "waypoint"],
     [Plain EXCEPT !.mode = "typo"],
     [Plain EXCEPT !.owner = Owner("StatefulSet", FALSE, "b")],
     [Plain EXCEPT !.owner = Owner("ReplicaSet", FALSE, "a")],
     [Plain EXCEPT !.owner = Owner("Job", FALSE, "a")]}

Modes == {[NoYAML EXCEPT !.mtls = m, !.egress = e, !.inbound = i] :
            m \in {"", "disabled"}, e \in {"", "none"}, i \in {"", "transparent"}}

OtherYAMLs ==
    {NoYAML, [NoYAML EXCEPT !.mode = "lite", !.mtls = "typo"], [NoYAML EXCEPT !.mode = "envoy-sidecar"],
     [NoYAML EXCEPT !.mtls = "strict", !.egress = "none"]}

Platforms ==
    {<<>>,
     <<[CompiledDefaults EXCEPT !.transparent = 8084, !.allowedEgress = <<"enforce-redirect">>]>>,
     <<[CompiledDefaults EXCEPT !.allowedInbound = <<"transparent">>, !.allowedEgress = <<"none">>]>>,
     <<[CompiledDefaults EXCEPT !.allowedInbound = <<"reverse-proxy">>]>>,
     <<[CompiledDefaults EXCEPT !.allowedEgress = <<>>]>>,
     <<[CompiledDefaults EXCEPT !.transparentInbound = 8082]>>,
     <<[CompiledDefaults EXCEPT !.transparent = 9093]>>}

(* AgentRuntimes of Deployment a.                                          *)
Runtime == [NoRuntime EXCEPT !.target = "a", !.kind = "Deployment"]
Override(p, v) == [name |-> p, policy |-> v]

Presets ==
    {[Runtime EXCEPT !.preset = p, !.plugins = o, !.onError = e] :
       p \in {"auth-only", "ibac-only", "full", "typo"}, e \in {"", "observe"},
       o \in {<<>>, <<Override("token-broker", "observe")>>,
              <<Override("token-broker", "enforce"), Override("token-exchange", "off")>>,
              <<Override("ibac", "off"), Override("ibac", "observe")>>}}
    \cup {[Runtime EXCEPT !.preset = "full", !.plugins = <<Override("ibac", "typo")>>],
          [Runtime EXCEPT !.preset = "full", !.routes = TRUE]}

RoutedRuntime == [Runtime EXCEPT !.routes = TRUE]
ChartYAML == [NoYAML EXCEPT !.pipeline = {"jwt-validation", "ibac"}]

NoPods ==
    [slots |-> {}, passes |-> 2, templates |-> {}, yamls |-> {NoYAML}, rts |-> {NoRuntime}, platforms |-> {<<>>}]
OnePod == [NoPods EXCEPT !.slots = {1}, !.templates = {Plain}]

Base ==
    [spire |-> FALSE, spiffe |-> "off", life |-> "fresh", edits |-> 2, what |-> {},
     kinds |-> {"Deployment"}, names |-> {"a"}, types |-> {"agent"}, initial |-> {"a"},
     gates |-> {NoGates}, confs |-> {Secretly}, namespace |-> ProvidedKeycloak, spent |-> 0, pods |-> NoPods]

(* A namespace without registered workloads, and one where nothing fails.  *)
Quiet == [Base EXCEPT !.initial = {}, !.edits = 0, !.confs = {NoAudience}]
Calm == [Quiet EXCEPT !.spent = MaxFaults]

InstanceSetups ==
    {[Base EXCEPT !.namespace = NewNamespace, !.edits = 0, !.confs = {NoAudience}],
     [Base EXCEPT !.namespace = OldNamespace, !.edits = 0, !.confs = {NoAudience}],
     [Base EXCEPT !.what = {"time", "scope"}, !.edits = 3],
     [Base EXCEPT !.what = {"client", "scope", "sidecar"}, !.spent = 1],
     [Base EXCEPT !.what = {"workload"}, !.kinds = {"Deployment", "StatefulSet"}, !.edits = 3,
                  !.types = {"agent", "none"}, !.confs = {NoAudience}],
     [Base EXCEPT !.what = {"workload", "gates"}, !.kinds = {"Sandbox"}, !.types = {"tool"},
                  !.gates = {NoGates, ToolGates}, !.initial = {}, !.confs = {NoAudience}],
     [Base EXCEPT !.what = {"config", "client"}, !.confs = InstanceRealms, !.spent = 1],
     [Base EXCEPT !.what = {"time", "client"}, !.life = "near", !.confs = {NoAudience}],
     [Base EXCEPT !.what = {"issuer", "workload"}, !.spire = TRUE, !.spiffe = "on",
                  !.initial = {"a", "b"}, !.names = {"b"}, !.confs = {NoAudience}],
     [Base EXCEPT !.spire = TRUE, !.spiffe = "incomplete", !.initial = {"a", "b"}],
     [Calm EXCEPT !.pods = [OnePod EXCEPT !.templates = PortPods, !.yamls = Modes,
                                          !.platforms = Platforms]],
     [Calm EXCEPT !.edits = 2, !.pods = [OnePod EXCEPT !.platforms = Platforms]],
     [Calm EXCEPT !.edits = 1, !.what = {"gates"}, !.gates = {NoGates, ToolGates},
                  !.pods = [OnePod EXCEPT !.templates = OtherPods, !.yamls = OtherYAMLs]],
     [Calm EXCEPT !.pods = [OnePod EXCEPT !.rts = Presets, !.yamls = {NoYAML, ChartYAML}]],
     [Quiet EXCEPT !.pods = [OnePod EXCEPT !.rts = {RoutedRuntime}, !.yamls = OtherYAMLs]],
     [Quiet EXCEPT !.edits = 2,
                   !.pods = [OnePod EXCEPT !.slots = {1, 2}, !.passes = 1, !.rts = {NoRuntime, RoutedRuntime},
                                           !.yamls = {NoYAML, [NoYAML EXCEPT !.inbound = "transparent"]}]],
     [Calm EXCEPT !.edits = 2, !.initial = {"a"}, !.what = {"workload"}, !.pods = OnePod],
     [Calm EXCEPT !.edits = 1, !.initial = {"a"}, !.what = {"gates"}, !.gates = {NoGates, ToolGates},
                  !.pods = [OnePod EXCEPT !.rts = {NoRuntime, [Runtime EXCEPT !.bridge = TRUE]},
                                          !.yamls = {NoYAML, [NoYAML EXCEPT !.bridge = "enabled"]}]]}
===============================================================================
