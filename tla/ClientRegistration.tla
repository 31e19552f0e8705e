--------------------------- MODULE ClientRegistration ---------------------------
(***************************************************************************)
(* Operator-managed OAuth client registration: the controller of           *)
(* internal/controller/clientregistration_controller.go, the Keycloak      *)
(* admin client it drives (internal/keycloak) and the naming rules it      *)
(* shares with the webhook (internal/clientreg).                           *)
(*                                                                         *)
(* One worker takes workload names from a queue.  A reconcile is a chain   *)
(* of requests; each request is a step, and between two steps users edit   *)
(* workloads and configuration, Keycloak administrators and the legacy     *)
(* registration sidecars change the realm, and the garbage collector runs. *)
(* A request may fail before or after it took effect.  Only workload       *)
(* changes are watched; everything else is seen by the next reconcile, if  *)
(* there is one.                                                           *)
(***************************************************************************)
EXTENDS KeycloakBootstrap, Sequences, Functions, FiniteSetsExt

CONSTANTS
    Names,       \* workload names of the namespace
    Accounts,    \* [Names -> service account], "" and "default" included
    Setups,      \* the clusters and operator configurations to start from
    Realms,      \* authbridge-config contents: see ParseConfig
    GateMaps,    \* rossoctl-feature-gates contents: see ReadClusterFeatureGates
    Kinds,       \* the workload kinds in the order Reconcile tries them
    Platform     \* clients that exist in the realm besides the workloads'

ASSUME RegistrationAssumption ==
    /\ IsFiniteSet(Names)
    /\ DOMAIN Accounts = Names
    /\ Kinds \in Seq({"Deployment", "StatefulSet", "Sandbox"})

ASSUME SetupsAssumption ==
    \A s \in Setups :
        /\ s.kinds \subseteq Range(Kinds) /\ s.names \subseteq Names
        /\ s.namespace \in {NewNamespace, OldNamespace, ProvidedKeycloak}
        /\ s.spent \in 0..MaxFaults

VARIABLES
    setup,     \* operator configuration (spire, spiffe) and bounds of this run
    gates,     \* the cluster feature-gates ConfigMap
    conf,      \* the namespace's authbridge-config
    wl,        \* [kind -> [name -> workload]]
    secrets,   \* [name -> credentials Secret]
    realm,     \* clients, scopes and attachments in Keycloak
    cache,     \* admin token and realm issuer remembered by the operator
    queue,     \* names waiting for the worker
    rec,       \* the reconcile in progress
    edits,     \* changes made by others so far
    unseen,    \* names whose last reconcile began before an unwatched change
    unlucky    \* names whose last reconcile lost its audience scope quietly

regVars == <<setup, gates, conf, wl, secrets, realm, cache, queue, rec, edits,
             unseen, unlucky>>
crVars == <<bootVars, regVars>>

KindSet == Range(Kinds)

Absent == [st |-> FALSE, type |-> "none", anno |-> FALSE]
NoSecret == [owner |-> "none", id |-> <<>>, secret |-> None]
Idle == [pc |-> "idle"]
----------------------------------------------------------------------------
(* What the controller reads.                                              *)

(* readClusterFeatureGates: the first document that parses, the well-known *)
(* key before the others in order, over the defaults.                      *)
DefaultGates ==
    [globalEnabled |-> TRUE, clientRegistration |-> TRUE, injectTools |-> FALSE]

ReadClusterFeatureGates(docs) ==
    LET parsed == SelectSeq(docs, LAMBDA d : d.valid)
    IN  IF parsed = <<>> THEN DefaultGates
        ELSE [g \in DOMAIN DefaultGates |->
                IF g \in DOMAIN Head(parsed).gates
                  THEN Head(parsed).gates[g] ELSE DefaultGates[g]]

GateOpen(docs) ==
    LET g == ReadClusterFeatureGates(docs)
    IN  g.globalEnabled /\ g.clientRegistration

(* SkipReason: agents always, tools when the gate says so, nothing else.   *)
WorkloadWantsOperatorClientReg(type, injectTools) ==
    type = "agent" \/ (type = "tool" /\ injectTools)

(* The watch predicate cannot read the gates and lets every tool through.  *)
Watched(w) == w.st /\ WorkloadWantsOperatorClientReg(w.type, TRUE)

Wanted(w) ==
    /\ w.st
    /\ WorkloadWantsOperatorClientReg(w.type, ReadClusterFeatureGates(gates).injectTools)

(* Reconcile takes the first kind that has an object of this name.         *)
KindsOf(n) == {i \in DOMAIN Kinds : wl[Kinds[i]][n].st}
KindFor(n) == Kinds[Min(KindsOf(n))]

(* readAuthbridgeConfigMap and the defaults reconcileOne applies to it.    *)
AuthTypeOf(c) == IF c.auth = "" THEN "client-secret" ELSE c.auth

ParsePlatformClientIDs(c) ==
    LET ids == c.platforms \ {""} IN IF ids = {} THEN {"rossoctl"} ELSE ids

ParseConfig(c) ==
    [ready |-> c.url # "" /\ c.realm # "",
     auth |-> AuthTypeOf(c),
     alias |-> IF c.alias = "" THEN "spire-spiffe" ELSE c.alias,
     exch |-> c.exch # "false",
     aud |-> c.aud # "false",
     platforms |-> ParsePlatformClientIDs(c)]

(* resolveKeycloakClientID: with SPIRE the id is the service account's, so *)
(* workloads that share an account share a client; the default account is  *)
(* refused.                                                                *)
NoClientID == <<>>

ResolveKeycloakClientID(n) ==
    IF ~setup.spire THEN <<"workload", n>>
    ELSE IF Accounts[n] \in {"", "default"} THEN NoClientID
    ELSE <<"spiffe", Accounts[n]>>

ClientIDs == {<<"workload", n>> : n \in Names} \cup {<<"spiffe", Accounts[n]>> : n \in Names}
----------------------------------------------------------------------------
(* The representation the controller wants, and how it is compared.        *)
DesiredAttributes(id, c) ==
    LET exchange == "exchange" :> c.exch
    IN  IF c.auth = "federated-jwt"
          THEN exchange @@ ("issuer" :> c.alias) @@ ("sub" :> id) ELSE exchange

DesiredRep(id, n, c) ==
    [name |-> n, flags |-> TRUE, auth |-> c.auth, attrs |-> DesiredAttributes(id, c)]

(* clientRepDrifted looks at the managed fields and attributes only.       *)
ClientRepDrifted(client, rep) ==
    \/ client.name # rep.name
    \/ client.flags # rep.flags
    \/ client.auth # rep.auth
    \/ ~ \A a \in DOMAIN rep.attrs :
           a \in DOMAIN client.attrs /\ client.attrs[a] = rep.attrs[a]

(* mergeDesiredClientIntoMap keeps what it does not manage.                *)
MutMergeReplaces(client, rep) ==
    [client EXCEPT !.name = rep.name, !.flags = rep.flags, !.attrs = rep.attrs @@ @]

MergeDesired(client, rep) ==
    [client EXCEPT !.name = rep.name, !.flags = rep.flags, !.auth = rep.auth,
                   !.attrs = rep.attrs @@ @]

NoClient == [uuid |-> None]
Exists(id) == realm.clients[id].uuid # None

(* Keycloak gives a new client an internal id and a secret of its own.     *)
NewClient(rep) ==
    [uuid |-> realm.next, secret |-> realm.next, name |-> rep.name, flags |-> rep.flags,
     auth |-> rep.auth, attrs |-> rep.attrs]

(* ... and the scopes that are realm defaults.                             *)
WithClient(id, rep) ==
    [realm EXCEPT !.clients[id] = NewClient(rep), !.next = @ + 1,
                  !.attached = @ \cup {<<id, n>> : n \in {m \in Names : <<<<"realm">>, m>> \in @}}]

(* Audience scopes are named after the workload; a mapper is absent, of a  *)
(* wrong type, without configuration, or adds one audience.                *)
NoScope == [st |-> FALSE, mapper |-> "none", aud |-> NoClientID]
EmptyScope == [st |-> TRUE, mapper |-> "none", aud |-> NoClientID]
AudienceMapper(s, id) == [s EXCEPT !.mapper = "audience", !.aud = id]
----------------------------------------------------------------------------
(* The queue holds a name once; a failed reconcile goes to its end.        *)
Enqueue(q, n) == IF n \in Range(q) THEN q ELSE Append(q, n)

Requeue ==
    /\ queue' = Enqueue(queue, rec.n)
    /\ rec' = Idle

Fault ==
    /\ faults < MaxFaults
    /\ faults' = faults + 1

Healthy == UNCHANGED faults

At(pc) == rec.pc = pc
Continue(pc) == rec' = [rec EXCEPT !.pc = pc] /\ UNCHANGED queue

(* Keycloak answers an expired token and an unknown id with an error.      *)
Refused == rec.tok = "expired"
SameClient == realm.clients[rec.id].uuid = rec.uuid

(* A request that fails: before it took effect, or after.                  *)
Fails(write) == Fault /\ Requeue /\ (UNCHANGED realm \/ write)

----------------------------------------------------------------------------
(* Reconcile and the checks of reconcileOne that come before any request   *)
(* to Keycloak.                                                            *)
BeginReconcile ==
    /\ At("idle") /\ queue # <<>>
    /\ LET n == Head(queue)
           c == ParseConfig(conf)
           id == ResolveKeycloakClientID(n)
           wanted == GateOpen(gates) /\ KindsOf(n) # {} /\ Wanted(wl[KindFor(n)][n])
       IN  /\ unseen' = unseen \ {n}
           /\ unlucky' = unlucky \ {n}
           /\ \/ Fault /\ queue' = Append(Tail(queue), n) /\ UNCHANGED rec
              \/ ~wanted /\ Healthy /\ queue' = Tail(queue) /\ UNCHANGED rec
              \/ /\ wanted /\ (~c.ready \/ id = NoClientID)
                 /\ Healthy /\ queue' = Append(Tail(queue), n) /\ UNCHANGED rec
              \/ /\ wanted /\ c.ready /\ id # NoClientID /\ Healthy
                 /\ queue' = Tail(queue)
                 /\ rec' = [pc |-> "token", n |-> n, kind |-> KindFor(n), gone |-> FALSE,
                            conf |-> c, id |-> id, tok |-> "none", uuid |-> None,
                            secret |-> None]
    /\ UNCHANGED <<boot, kc, fresh, setup, gates, conf, wl, secrets, realm, cache, edits>>

(* The administrator's token: the cached one unless it is near its expiry. *)
UseToken(t) == rec' = [rec EXCEPT !.pc = "find", !.tok = t] /\ UNCHANGED queue

CachedTokenGood == cache.tok = "fresh"

PasswordToken ==
    /\ At("token") /\ setup.spiffe = "off"
    /\ \/ ~kc.admin /\ Healthy /\ Requeue /\ UNCHANGED cache
       \/ kc.admin /\ CachedTokenGood /\ Healthy /\ UseToken("fresh") /\ UNCHANGED cache
       \/ /\ kc.admin /\ ~CachedTokenGood
          /\ \/ /\ Healthy /\ UseToken(setup.life)
                /\ cache' = [cache EXCEPT !.tok = setup.life]
             \/ Fault /\ Requeue /\ UNCHANGED cache
    /\ UNCHANGED <<boot, kc, fresh, setup, gates, conf, wl, secrets, realm, edits, unseen, unlucky>>

(* getKeycloakIssuer looks the realm's issuer up once per process.         *)
KeycloakIssuer == IF cache.issuer = None THEN realm.issuer ELSE cache.issuer

(* Keycloak accepts a JWT-SVID whose audience is its issuer.               *)
JWTSVIDAccepted(audience) == audience = realm.issuer

(* A token for the operator's own SPIFFE identity.                         *)
SpiffeToken ==
    /\ At("token") /\ setup.spiffe # "off"
    /\ LET issuer == KeycloakIssuer
       IN  \/ setup.spiffe = "incomplete" /\ Healthy /\ Requeue /\ UNCHANGED cache
           \/ setup.spiffe = "on" /\ Fault /\ Requeue /\ cache' \in {cache, [cache EXCEPT !.issuer = issuer]}
           \/ /\ setup.spiffe = "on" /\ Healthy
              /\ cache' = [cache EXCEPT !.issuer = issuer]
              /\ IF JWTSVIDAccepted(issuer) THEN UseToken("fresh") ELSE Requeue
    /\ UNCHANGED <<boot, kc, fresh, setup, gates, conf, wl, secrets, realm, edits, unseen, unlucky>>

OutsideKeycloak ==
    UNCHANGED <<boot, kc, fresh, setup, gates, conf, wl, secrets, cache, edits, unseen>>

----------------------------------------------------------------------------
(* RegisterOrFetchClientWithToken.                                         *)
FindClient ==
    /\ At("find")
    /\ \/ Refused /\ Healthy /\ Requeue
       \/ ~Refused /\ Fault /\ Requeue
       \/ /\ ~Refused /\ Healthy
          /\ rec' = [rec EXCEPT !.pc = IF Exists(rec.id) THEN "update" ELSE "create",
                                !.uuid = realm.clients[rec.id].uuid]
          /\ UNCHANGED queue
    /\ UNCHANGED <<realm, unlucky>> /\ OutsideKeycloak

(* createClient: a client that appeared since is taken as it is.           *)
CreateClient ==
    LET rep == DesiredRep(rec.id, rec.n, rec.conf)
    IN  /\ At("create")
        /\ \/ Refused /\ Healthy /\ Requeue /\ UNCHANGED realm
           \/ /\ ~Refused /\ Exists(rec.id)
              /\ \/ /\ Healthy /\ UNCHANGED <<realm, queue>>
                    /\ rec' = [rec EXCEPT !.pc = "read", !.uuid = realm.clients[rec.id].uuid]
                 \/ Fault /\ Requeue /\ UNCHANGED realm
           \/ /\ ~Refused /\ ~Exists(rec.id)
              /\ \/ /\ Healthy /\ realm' = WithClient(rec.id, rep) /\ UNCHANGED queue
                    /\ rec' = [rec EXCEPT !.pc = "read", !.uuid = realm.next]
                 \/ Fails(realm' = WithClient(rec.id, rep))
        /\ UNCHANGED unlucky /\ OutsideKeycloak

(* reconcileExistingClient: read, compare, write back only a difference.   *)
ReconcileExistingClient ==
    LET rep == DesiredRep(rec.id, rec.n, rec.conf)
        client == realm.clients[rec.id]
        updated == [realm EXCEPT !.clients[rec.id] = MergeDesired(client, rep)]
    IN  /\ At("update")
        /\ \/ (Refused \/ ~SameClient) /\ Healthy /\ Requeue /\ UNCHANGED realm
           \/ /\ ~Refused /\ SameClient
              /\ \/ /\ ~ClientRepDrifted(client, rep)
                    /\ Healthy /\ Continue("read") /\ UNCHANGED realm
                 \/ /\ ClientRepDrifted(client, rep)
                    /\ \/ Healthy /\ Continue("read") /\ realm' = updated
                       \/ Fails(realm' = updated)
        /\ UNCHANGED unlucky /\ OutsideKeycloak

ReadClientSecret ==
    /\ At("read")
    /\ \/ (Refused \/ ~SameClient) /\ Healthy /\ Requeue
       \/ ~Refused /\ SameClient /\ Fault /\ Requeue
       \/ /\ ~Refused /\ SameClient /\ Healthy /\ UNCHANGED queue
          /\ rec' = [rec EXCEPT !.pc = IF rec.conf.aud THEN "scope" ELSE "secret",
                                !.secret = realm.clients[rec.id].secret]
    /\ UNCHANGED <<realm, unlucky>> /\ OutsideKeycloak

----------------------------------------------------------------------------
(* EnsureAudienceScope.  Its error is logged and the reconcile goes on to  *)
(* write the credentials: nothing schedules another attempt.               *)
Scope == realm.scopes[rec.n]
WithScope(scope) == [realm EXCEPT !.scopes[rec.n] = scope]

GiveUpAudience ==
    /\ Continue("secret")
    /\ unlucky' = unlucky \cup {rec.n}

ScopeFails(write) == Fault /\ GiveUpAudience /\ (UNCHANGED realm \/ write)

FindScope ==
    /\ At("scope")
    /\ \/ Refused /\ Healthy /\ GiveUpAudience
       \/ ~Refused /\ Fault /\ GiveUpAudience
       \/ ~Refused /\ Healthy /\ UNCHANGED unlucky
          /\ Continue(IF Scope.st THEN "verify" ELSE "newScope")
    /\ UNCHANGED realm /\ OutsideKeycloak

(* createClientScope: a conflict means somebody else made the scope.       *)
CreateScope ==
    LET created == WithScope(IF Scope.st THEN Scope ELSE EmptyScope)
    IN  /\ At("newScope")
        /\ \/ Refused /\ Healthy /\ GiveUpAudience /\ UNCHANGED realm
           \/ ~Refused /\ Healthy /\ Continue("mapper") /\ realm' = created /\ UNCHANGED unlucky
           \/ ~Refused /\ ScopeFails(realm' = created)
        /\ OutsideKeycloak

(* ensureAudienceMapper, and updateAudienceMapperIfNeeded when one is      *)
(* there already; a mapper without configuration is passed over here.  Of  *)
(* the wrong type, it is replaced by two requests: one step, because the   *)
(* verification that follows repairs whatever lies between them.           *)
MapperAdded ==
    IF Scope.mapper = "bare" THEN Scope ELSE AudienceMapper(Scope, rec.id)

AddMapper ==
    /\ At("mapper")
    /\ Continue("verify")
    /\ \/ Refused /\ Healthy /\ UNCHANGED realm
       \/ ~Refused /\ Healthy /\ realm' = WithScope(MapperAdded)
       \/ ~Refused /\ Fault /\ (UNCHANGED realm \/ realm' = WithScope(MapperAdded))
    /\ UNCHANGED unlucky /\ OutsideKeycloak

(* verifyAudienceMapper: every reconcile repairs the mapper.  One of the   *)
(* wrong type is deleted and made anew in two requests.                    *)
MapperRight == Scope.mapper = "audience" /\ Scope.aud = rec.id

RemovedMapper == WithScope([Scope EXCEPT !.mapper = "none"])

VerifyMapper ==
    LET repaired == WithScope(AudienceMapper(Scope, rec.id))
    IN  /\ At("verify")
        /\ \/ Refused /\ Healthy /\ GiveUpAudience /\ UNCHANGED realm
           \/ ~Refused /\ Scope.mapper = "other"
              /\ \/ Healthy /\ Continue("remap") /\ realm' = RemovedMapper /\ UNCHANGED unlucky
                 \/ ScopeFails(realm' = RemovedMapper)
           \/ ~Refused /\ MapperRight /\ Healthy /\ Continue("attach") /\ UNCHANGED <<realm, unlucky>>
           \/ ~Refused /\ Scope.mapper # "other" /\ ~MapperRight
              /\ \/ Healthy /\ Continue("attach") /\ realm' = repaired /\ UNCHANGED unlucky
                 \/ ScopeFails(realm' = repaired)
        /\ OutsideKeycloak

(* createAudienceMapperBestEffort: a conflict with a mapper that is not    *)
(* visible as an audience mapper counts as success.                        *)
CreateMapper ==
    LET created == WithScope(AudienceMapper(Scope, rec.id))
    IN  /\ At("remap")
        /\ \/ Refused /\ Healthy /\ GiveUpAudience /\ UNCHANGED realm
           \/ ~Refused /\ Scope.mapper # "other"
              /\ \/ Healthy /\ Continue("attach") /\ realm' = created /\ UNCHANGED unlucky
                 \/ ScopeFails(realm' = created)
           \/ /\ ~Refused /\ Healthy /\ Continue("attach") /\ UNCHANGED realm
              /\ Scope.mapper = "other"
              /\ unlucky' = unlucky \cup {rec.n}
        /\ OutsideKeycloak

(* The scope becomes a realm default and a default of the workload's and   *)
(* the platform's clients.  Errors are ignored one by one.                 *)
AttachTargets ==
    {<<"realm">>} \cup (IF SameClient THEN {rec.id} ELSE {})
    \cup {<<"platform", p>> : p \in rec.conf.platforms \cap Platform}

Attached(targets) ==
    [realm EXCEPT !.attached = @ \cup (targets \X {rec.n})]

AttachScope ==
    /\ At("attach")
    /\ Continue("secret")
    /\ \/ Refused /\ Healthy /\ UNCHANGED realm /\ unlucky' = unlucky \cup {rec.n}
       \/ ~Refused /\ Healthy /\ realm' = Attached(AttachTargets)
          /\ unlucky' = IF SameClient THEN unlucky ELSE unlucky \cup {rec.n}
       \/ ~Refused /\ Fault /\ unlucky' = unlucky \cup {rec.n}
          /\ \E t \in AttachTargets : realm' = Attached(AttachTargets \ {t})
    /\ OutsideKeycloak

----------------------------------------------------------------------------
(* ensureClientCredentialsSecret: an object that another controller owns   *)
(* is not touched.  A deleted workload's uid is no longer its name's.      *)
OwnerRef == IF rec.gone THEN "gone" ELSE rec.kind
MutOwnedAnyway == TRUE
MayOwn == secrets[rec.n].owner = "none" \/ (secrets[rec.n].owner = rec.kind /\ ~rec.gone)

Credentials ==
    [owner |-> OwnerRef, id |-> rec.id,
     secret |-> IF rec.conf.auth = "federated-jwt" THEN None ELSE rec.secret]

OnlySecret == UNCHANGED <<boot, kc, fresh, setup, gates, conf, wl, realm, cache, edits, unseen, unlucky>>

MutSecretBestEffort ==
    /\ At("secret") /\ Continue("patch")
    /\ \/ MayOwn /\ Healthy /\ secrets' = [secrets EXCEPT ![rec.n] = Credentials]
       \/ MayOwn /\ Fault /\ UNCHANGED secrets
       \/ ~MayOwn /\ Healthy /\ UNCHANGED secrets
    /\ OnlySecret

EnsureSecret ==
    LET written == [secrets EXCEPT ![rec.n] = Credentials]
    IN  /\ At("secret")
        /\ \/ MayOwn /\ Healthy /\ Continue("patch") /\ secrets' = written
           \/ MayOwn /\ Fault /\ Requeue /\ secrets' \in {secrets, written}
           \/ ~MayOwn /\ Healthy /\ Requeue /\ UNCHANGED secrets
        /\ OnlySecret

(* patchTemplate reads the workload again; its own update is an event.     *)
Annotated == [wl EXCEPT ![rec.kind][rec.n].anno = TRUE]

PatchTemplate ==
    LET w == wl[rec.kind][rec.n]
    IN  /\ At("patch")
        /\ \/ ~w.st /\ Healthy /\ Requeue /\ UNCHANGED wl
           \/ w.st /\ w.anno /\ Healthy /\ rec' = Idle /\ UNCHANGED <<wl, queue>>
           \/ /\ w.st /\ ~w.anno /\ Healthy /\ rec' = Idle /\ wl' = Annotated
              /\ queue' = IF Watched(w) THEN Enqueue(queue, rec.n) ELSE queue
           \/ w.st /\ ~w.anno /\ Fault /\ Requeue /\ wl' \in {wl, Annotated}
        /\ UNCHANGED <<boot, kc, fresh, setup, gates, conf, secrets, realm, cache, edits,
                       unseen, unlucky>>

WorkerStep ==
    \/ BeginReconcile
    \/ PasswordToken
    \/ SpiffeToken
    \/ FindClient
    \/ CreateClient
    \/ ReconcileExistingClient
    \/ ReadClientSecret
    \/ FindScope
    \/ CreateScope
    \/ AddMapper
    \/ VerifyMapper
    \/ CreateMapper
    \/ AttachScope
    \/ EnsureSecret
    \/ PatchTemplate

----------------------------------------------------------------------------
(* External: what others do meanwhile.  A workload change reaches the      *)
(* queue when the watch predicate lets its event through.                  *)
Edit(what) ==
    /\ what \in setup.what
    /\ edits < setup.edits
    /\ edits' = edits + 1

Event(n, w) ==
    \/ Watched(w) /\ queue' = Enqueue(queue, n) /\ UNCHANGED unseen
    \/ ~Watched(w) /\ unseen' = unseen \cup {n} /\ UNCHANGED queue

Unwatched == unseen' = Names /\ UNCHANGED queue

CreateWorkload(k, n, type) ==
    LET w == [st |-> TRUE, type |-> type, anno |-> FALSE]
    IN  /\ Edit("workload") /\ ~wl[k][n].st
        /\ wl' = [wl EXCEPT ![k][n] = w]
        /\ Event(n, w)
        /\ UNCHANGED <<secrets, rec>>

RelabelWorkload(k, n, type) ==
    /\ Edit("workload") /\ wl[k][n].st /\ wl[k][n].type # type
    /\ wl' = [wl EXCEPT ![k][n].type = type]
    /\ Event(n, wl'[k][n])
    /\ UNCHANGED <<secrets, rec>>

DeleteWorkload(k, n) ==
    /\ Edit("workload") /\ wl[k][n].st
    /\ wl' = [wl EXCEPT ![k][n] = Absent]
    /\ secrets' = [secrets EXCEPT ![n].owner = IF @ = k THEN "gone" ELSE @]
    /\ rec' = IF ~At("idle") /\ rec.n = n /\ rec.kind = k THEN [rec EXCEPT !.gone = TRUE] ELSE rec
    /\ Event(n, wl[k][n])

UserStep ==
    /\ \E k \in setup.kinds, n \in setup.names :
         \/ \E t \in setup.types : CreateWorkload(k, n, t) \/ RelabelWorkload(k, n, t)
         \/ DeleteWorkload(k, n)
    /\ UNCHANGED <<bootVars, setup, gates, conf, realm, cache, unlucky>>

EditGates ==
    /\ Edit("gates") /\ gates' \in GateMaps \ {gates} /\ Unwatched
    /\ UNCHANGED <<bootVars, setup, conf, wl, secrets, realm, cache, rec, unlucky>>

EditConfig ==
    /\ Edit("config") /\ conf' \in Realms \ {conf} /\ Unwatched
    /\ UNCHANGED <<bootVars, setup, gates, wl, secrets, realm, cache, rec, unlucky>>

(* Administrators of the realm, and the registration sidecars of workloads *)
(* that predate the operator, which create the same clients and scopes.    *)
RotateSecret(id) ==
    /\ Exists(id)
    /\ realm' = [realm EXCEPT !.clients[id].secret = realm.next, !.next = @ + 1]

EditClient(id) ==
    /\ Exists(id)
    /\ \/ realm' = [realm EXCEPT !.clients[id].flags = FALSE]
       \/ realm' = [realm EXCEPT !.clients[id].auth = "client-jwt"]

DeleteClient(id) ==
    /\ Exists(id)
    /\ realm' = [realm EXCEPT !.clients[id] = NoClient,
                               !.attached = {a \in @ : a[1] # id}]

EditMapper(n) ==
    /\ realm.scopes[n].st
    /\ \E m \in {"none", "other", "bare"} \ {realm.scopes[n].mapper} :
         realm' = [realm EXCEPT !.scopes[n].mapper = m, !.scopes[n].aud = NoClientID]

SidecarRegisters(n) ==
    LET id == ResolveKeycloakClientID(n)
        rep == [name |-> n, flags |-> TRUE, auth |-> "client-secret",
                attrs |-> "exchange" :> FALSE]
    IN  /\ id # NoClientID /\ ~Exists(id)
        /\ realm' = [WithClient(id, rep) EXCEPT
                        !.scopes[n] = IF @.st THEN @ ELSE AudienceMapper(EmptyScope, id)]

ChangeIssuer == realm' = [realm EXCEPT !.issuer = 3 - @]

KeycloakChanges ==
    /\ \/ Edit("client") /\ \E id \in ClientIDs : RotateSecret(id) \/ EditClient(id) \/ DeleteClient(id)
       \/ Edit("scope") /\ \E n \in setup.names : EditMapper(n)
       \/ Edit("sidecar") /\ \E n \in setup.names : SidecarRegisters(n)
       \/ Edit("issuer") /\ ChangeIssuer
    /\ Unwatched
    /\ UNCHANGED <<bootVars, setup, gates, conf, wl, secrets, cache, rec, unlucky>>

(* Time passes for the cached token and for the one in use.                *)
Older(t) == CASE t = "fresh" -> "near" [] t = "near" -> "expired" [] OTHER -> t

TokenAges ==
    /\ Edit("time")
    /\ cache.tok \in {"fresh", "near"} \/ (~At("idle") /\ rec.tok \in {"fresh", "near"})
    /\ cache' = [cache EXCEPT !.tok = Older(@)]
    /\ rec' = IF At("idle") THEN rec ELSE [rec EXCEPT !.tok = Older(@)]
    /\ UNCHANGED <<bootVars, setup, gates, conf, wl, secrets, realm, queue, unseen, unlucky>>

(* The garbage collector removes a Secret whose owner is gone.             *)
CollectSecret(n) ==
    /\ secrets[n].owner = "gone"
    /\ secrets' = [secrets EXCEPT ![n] = NoSecret]
    /\ UNCHANGED <<bootVars, setup, gates, conf, wl, realm, cache, queue, rec, edits,
                   unseen, unlucky>>

(* A restarted operator has no caches and lists every workload.            *)
Listed ==
    LET all == {n \in Names : \E k \in KindSet : Watched(wl[k][n])}
    IN  CHOOSE s \in Bijection(1..Cardinality(all), all) : TRUE

OperatorRestarts(o) ==
    /\ BootstrapRestarts(o)
    /\ rec' = Idle
    /\ cache' = [tok |-> "none", issuer |-> None]
    /\ queue' = Listed
    /\ UNCHANGED <<setup, gates, conf, wl, secrets, realm, edits, unseen, unlucky>>

----------------------------------------------------------------------------
InitRegistration ==
    /\ gates \in setup.gates
    /\ conf \in setup.confs
    /\ wl = [k \in KindSet |-> [n \in Names |->
               IF k = Head(Kinds) /\ n \in setup.initial
                 THEN [st |-> TRUE, type |-> "agent", anno |-> FALSE] ELSE Absent]]
    /\ secrets = [n \in Names |-> NoSecret]
    /\ realm = [clients |-> [id \in ClientIDs |-> NoClient],
                scopes |-> [n \in Names |-> NoScope],
                attached |-> {}, issuer |-> 1, next |-> 1]
    /\ cache = [tok |-> "none", issuer |-> None]
    /\ queue = Listed
    /\ rec = Idle
    /\ edits = 0
    /\ unseen = {}
    /\ unlucky = {}

Init ==
    /\ setup \in Setups
    /\ InitBootstrap(setup.namespace, setup.spent)
    /\ InitRegistration

Collector == \E n \in Names : CollectSecret(n)

Bootstrapping ==
    /\ \/ \E o \in Operators : BootstrapStep(o) \/ BootstrapFails(o)
       \/ RouterAssignsHost
       \/ KeycloakComesUp
    /\ UNCHANGED regVars

Next ==
    \/ WorkerStep
    \/ UserStep
    \/ EditGates
    \/ EditConfig
    \/ KeycloakChanges
    \/ TokenAges
    \/ Collector
    \/ Bootstrapping
    \/ \E o \in Operators : OperatorRestarts(o)

(* Fairness: the worker goes on while it has work (a delayed requeue fires *)
(* in the end), the garbage collector runs, and Keycloak comes up.         *)
Work == ~At("idle") \/ queue # <<>>

Fairness ==
    /\ []<>~Work \/ []<><<WorkerStep>>_crVars
    /\ WF_crVars(Collector)
    /\ WF_crVars(KeycloakComesUp /\ UNCHANGED regVars)

CRSpec == Init /\ [][Next]_crVars /\ Fairness

----------------------------------------------------------------------------
(* The state has the shape the operations assume: a name waits once, and a *)
(* reconcile past registration works with a client id of its own workload. *)
CRTypeOK ==
    /\ IsInjective(queue) /\ Range(queue) \subseteq Names
    /\ \A n \in Names : secrets[n].owner \in KindSet \cup {"none", "gone"}
    /\ ~At("idle") => rec.id \in ClientIDs /\ rec.n \in Names /\ rec.kind \in KindSet
    /\ unseen \cup unlucky \subseteq Names

(* A credentials Secret never passes from one live workload to another of  *)
(* the same name, nor is it rewritten for one that does not own it: the    *)
(* Pods that mount it would get someone else's identity.                   *)
SecretNeverStolen ==
    [][\A n \in Names : secrets'[n] # secrets[n] =>
         \/ secrets[n].owner = "none"
         \/ secrets'[n] = NoSecret
         \/ secrets'[n].owner \in {secrets[n].owner, "gone"}]_secrets

(* The workload a reconcile of this name would work on, and whether it     *)
(* would register it.                                                      *)
Due(n) ==
    /\ GateOpen(gates)
    /\ KindsOf(n) # {}
    /\ Wanted(wl[KindFor(n)][n])
    /\ n \notin unseen

Pending(n) == n \in Range(queue) \/ (~At("idle") /\ rec.n = n)

(* The state is well typed, and a Pod template refers to a Secret that     *)
(* exists and belongs to the workload, or a reconcile that will make it so *)
(* is pending: the workload may be deleted and created again between any   *)
(* two steps of a reconcile.                                               *)
ReferencesResolve ==
    /\ CRTypeOK
    /\ \A n \in Names : Due(n) /\ wl[KindFor(n)][n].anno =>
          secrets[n].owner = KindFor(n) \/ Pending(n)

(* Nothing outside the operator stands in the way for good: the namespace  *)
(* is configured, the client id can be derived, no other workload owns the *)
(* Secret, and the operator can obtain a token.                            *)
Possible(n) ==
    /\ ParseConfig(conf).ready
    /\ ResolveKeycloakClientID(n) # NoClientID
    /\ secrets[n].owner \in {"none", "gone", KindFor(n)}
    /\ IF setup.spiffe = "off" THEN kc.admin
       ELSE setup.spiffe = "on" /\ cache.issuer \in {None, realm.issuer}

(* Workloads that share a service account share a client; its display name *)
(* is the last one's.                                                      *)
Registered(n) ==
    LET id == ResolveKeycloakClientID(n)
        c == ParseConfig(conf)
        client == realm.clients[id]
        alone == \A m \in Names \ {n} : ResolveKeycloakClientID(m) # id
    IN  /\ Exists(id)
        /\ ~ClientRepDrifted(client, DesiredRep(id, IF alone THEN n ELSE client.name, c))
        /\ secrets[n].owner = KindFor(n)
        /\ secrets[n].id = id
        /\ secrets[n].secret = IF c.auth = "federated-jwt" THEN None ELSE client.secret
        /\ wl[KindFor(n)][n].anno

(* The mapper of the workload's scope adds its client id, and the scope is *)
(* attached to its client.                                                 *)
AudienceScoped(n) ==
    LET id == ResolveKeycloakClientID(n)
    IN  /\ realm.scopes[n] = AudienceMapper(EmptyScope, id)
        /\ <<id, n>> \in realm.attached

(* Once the changes stop, every workload that is due and possible has its  *)
(* client in Keycloak as configured, the client's current secret in its    *)
(* Secret and the reference in its template, whatever failed on the way;   *)
(* changes the controller does not watch count from its next reconcile.    *)
(* It has its audience scope too, unless the reconcile lost that to an     *)
(* error that EnsureAudienceScope's caller only logs.                      *)
RegistrationSettles ==
    <>[](\A n \in Names : Due(n) /\ Possible(n) =>
           /\ Registered(n)
           /\ ParseConfig(conf).aud /\ n \notin unlucky => AudienceScoped(n))
=============================================================================
