--------------------------- MODULE BundleService ---------------------------
(***************************************************************************)
(* The bundle service (operator/internal/bundleservice): agents poll for   *)
(* the OPA bundle of their client identity; the provider answers from      *)
(* three caches or builds the bundle from AuthorizationPolicy CRs; the     *)
(* watcher's event handler invalidates the caches when a CR changes.       *)
(*                                                                         *)
(* Each cache has a mutex of its own and each of its methods is one step.  *)
(* A request, and the handler, make several of these steps; nothing orders *)
(* the steps of a build with those of an invalidation.                     *)
(*                                                                         *)
(* Data: every write of a CR has a new version, which stands for the       *)
(* policies in it.  A bundle is, for each of its three tiers, the set of   *)
(* CRs with their versions; it is identified with its content hash (the    *)
(* ETag).                                                                  *)
(***************************************************************************)
EXTENDS Naturals, FiniteSets, Sequences

CONSTANTS
  Names,             \* namespace/name of the CRs and of the clients
  Namespaces,
  NamespaceOf,       \* the namespace in each of the Names
  ServiceNamespace,
  ScopesOf,          \* the scopes the authors of each CR give it
  Agents,            \* processes that poll, one request at a time
  ClientOf,          \* the client identity of each agent
  MaxConcurrentBuilds,
  MaxEntries,        \* capacity of the bundle cache
  None,              \* an empty cache slot, an absent CR
  Stored,            \* the CRs that exist when the service starts
  MaxChanges         \* bound: writes and deletions of CRs

Scopes == {"global", "namespace", "client"}

ASSUME NamesAssumption ==
  /\ NamespaceOf \in [Names -> Namespaces]
  /\ ScopesOf \in [Names -> SUBSET Scopes]
  /\ ClientOf \in [Agents -> Names]
  /\ Stored \subseteq Names
  /\ None \notin Agents /\ None \notin Scopes
ASSUME LimitsAssumption ==
  /\ MaxConcurrentBuilds \in Nat \ {0}
  /\ MaxEntries \in Nat \ {0}
  /\ MaxChanges \in Nat

VARIABLES
  changes,   \* number of changes made to CRs
  cr,        \* the informer's store: the scope and version of each CR
  notices,   \* changes the event handler has not finished with, oldest first
  handler,   \* the event handler's next step: "policy", "etag" or "bundle"
  etags,     \* ETagCache
  bundles,   \* BundleCache: its entries, most recently used first
  stale,     \* the entries of BundleCache whose TTL has passed
  global,    \* PolicyCache.global
  nsCache,   \* PolicyCache.ns
  flight,    \* singleflight: the agent whose request builds for each client
  slots,     \* taken places of the build semaphore
  agent,     \* the agents' requests
  overlap    \* history: a request has run while a change was being handled

caches == <<etags, bundles, stale, global, nsCache>>
crVars == <<changes, cr, notices, handler>>
bsVars == <<crVars, caches, flight, slots, agent, overlap>>

-----------------------------------------------------------------------------
Versions == 0..MaxChanges
Tier == SUBSET (Names \X Versions)
Bundle == [global : Tier, ns : Tier, client : Tier]

Absent == [scope |-> None, version |-> 0]

IdleAgent(held, ans) ==
  [pc |-> "idle", built |-> [global |-> {}, ns |-> {}, client |-> {}],
   held |-> held, ans |-> ans]

BSInit ==
  /\ changes = 0
  /\ \E scope \in [Stored -> Scopes] :
       /\ \A n \in Stored : scope[n] \in ScopesOf[n]
       /\ cr = [n \in Names |-> IF n \in Stored THEN [scope |-> scope[n], version |-> 0]
                                ELSE Absent]
  /\ notices = <<>>
  /\ handler = "policy"
  /\ etags = [n \in Names |-> None]
  /\ bundles = <<>>
  /\ stale = {}
  /\ global = None
  /\ nsCache = [s \in Namespaces |-> None]
  /\ flight = [n \in Names |-> None]
  /\ slots = 0
  /\ agent = [a \in Agents |-> IdleAgent(None, "none")]
  /\ overlap = FALSE

\* overlap records a request that is active while a change is pending.
NoteOverlap ==
  overlap' = (overlap \/ (notices' # <<>> /\ \E a \in Agents : agent'[a].pc # "idle"))

-----------------------------------------------------------------------------
(* The watcher's reads of the informer's store.                            *)

VersionsOf(S) == {<<n, cr[n].version>> : n \in S}

GetGlobalPolicies ==
  VersionsOf({n \in Names : cr[n].scope = "global" /\ NamespaceOf[n] = ServiceNamespace})

GetNamespacePolicies(s) ==
  VersionsOf({n \in Names : cr[n].scope = "namespace" /\ NamespaceOf[n] = s})

\* The CR of that name, whatever its scope.
GetPolicy(n) == IF cr[n] = Absent THEN {} ELSE VersionsOf({n})

\* What a build reads when nothing changes under it and nothing is cached.
Current(n) ==
  [global |-> GetGlobalPolicies, ns |-> GetNamespacePolicies(NamespaceOf[n]),
   client |-> GetPolicy(n)]

-----------------------------------------------------------------------------
(* The informer: a change reaches the store first, then the handler.  The  *)
(* handler is given the new object of an update, the old one of a delete.  *)

ApplyCR(n, scope) ==
  /\ changes < MaxChanges
  /\ scope \in ScopesOf[n]
  /\ changes' = changes + 1
  /\ cr' = [cr EXCEPT ![n] = [scope |-> scope, version |-> changes']]
  /\ notices' = Append(notices, [name |-> n, scope |-> scope])
  /\ UNCHANGED <<handler, caches, flight, slots, agent>>
  /\ NoteOverlap

DeleteCR(n) ==
  /\ changes < MaxChanges
  /\ cr[n] # Absent
  /\ changes' = changes + 1
  /\ cr' = [cr EXCEPT ![n] = Absent]
  /\ notices' = Append(notices, [name |-> n, scope |-> cr[n].scope])
  /\ UNCHANGED <<handler, caches, flight, slots, agent>>
  /\ NoteOverlap

-----------------------------------------------------------------------------
(* BundleCache: its entries by key, and its list without the entry of k.   *)

CachedKeys == {bundles[i].key : i \in 1..Len(bundles)}
EntryOf(k) == CHOOSE i \in 1..Len(bundles) : bundles[i].key = k
CachedBundle(k) == bundles[EntryOf(k)].bundle
Without(k) ==
  IF k \in CachedKeys
  THEN SubSeq(bundles, 1, EntryOf(k) - 1) \o SubSeq(bundles, EntryOf(k) + 1, Len(bundles))
  ELSE bundles

-----------------------------------------------------------------------------
(* Watcher.invalidate, one step per cache.                                 *)

Change == Head(notices)

\* Mutant: the namespace's cached policies are kept.
MutInvalidateKeepsNs ==
  LET ignored == Change.scope = "global" /\ NamespaceOf[Change.name] # ServiceNamespace
  IN /\ notices # <<>>
     /\ handler = "policy"
     /\ global' = IF Change.scope = "global" /\ ~ ignored THEN None ELSE global
     /\ handler' = IF ignored THEN "policy" ELSE "etag"
     /\ notices' = IF ignored THEN Tail(notices) ELSE notices
     /\ UNCHANGED <<changes, cr, etags, bundles, stale, nsCache, flight, slots, agent>>
     /\ NoteOverlap

\* A global CR outside the service namespace is ignored.
InvalidatePolicies ==
  LET s == NamespaceOf[Change.name]
      ignored == Change.scope = "global" /\ s # ServiceNamespace
  IN /\ notices # <<>>
     /\ handler = "policy"
     /\ global' = IF Change.scope = "global" /\ ~ ignored THEN None ELSE global
     /\ nsCache' = IF Change.scope = "namespace"
                   THEN [nsCache EXCEPT ![s] = None] ELSE nsCache
     /\ handler' = IF ignored THEN "policy" ELSE "etag"
     /\ notices' = IF ignored THEN Tail(notices) ELSE notices
     /\ UNCHANGED <<changes, cr, etags, bundles, stale, flight, slots, agent>>
     /\ NoteOverlap

Affected == IF Change.scope = "client" THEN {Change.name} ELSE Names

InvalidateETags ==
  /\ handler = "etag"
  /\ etags' = [n \in Names |-> IF n \in Affected THEN None ELSE etags[n]]
  /\ handler' = "bundle"
  /\ UNCHANGED <<changes, cr, notices, bundles, stale, global, nsCache,
                 flight, slots, agent, overlap>>

InvalidateBundles ==
  /\ handler = "bundle"
  /\ bundles' = IF Change.scope = "client" THEN Without(Change.name) ELSE <<>>
  /\ stale' = stale \ Affected
  /\ handler' = "policy"
  /\ notices' = Tail(notices)
  /\ UNCHANGED <<changes, cr, etags, global, nsCache, flight, slots, agent>>
  /\ NoteOverlap

-----------------------------------------------------------------------------
(* BundleCache.Set and the expiry of an entry.                             *)

\* Mutant: the capacity is off by one.
MutCacheOneMore(k, b) ==
  LET updated == <<[key |-> k, bundle |-> b]>> \o Without(k)
  IN /\ bundles' = IF Len(updated) > MaxEntries + 1
                  THEN SubSeq(updated, 1, MaxEntries) ELSE updated
     /\ stale' = stale \cap {bundles'[i].key : i \in 2..Len(bundles')}

\* A full cache drops its least recently used entry.
CacheBundle(k, b) ==
  LET updated == <<[key |-> k, bundle |-> b]>> \o Without(k)
  IN /\ bundles' = IF Len(updated) > MaxEntries
                  THEN SubSeq(updated, 1, MaxEntries) ELSE updated
     /\ stale' = stale \cap {bundles'[i].key : i \in 2..Len(bundles')}

EntryTimesOut(k) ==
  /\ k \in CachedKeys \ stale
  /\ stale' = stale \cup {k}
  /\ UNCHANGED <<crVars, etags, bundles, global, nsCache, flight, slots, agent, overlap>>

-----------------------------------------------------------------------------
(* Provider.GetBundle.  An agent sends the ETag of the bundle it holds.    *)

GoTo(a, pc) == agent' = [agent EXCEPT ![a].pc = pc]

Answered(a, ans) == IdleAgent(agent[a].held, ans)
Served(b) == IdleAgent(b, "200")

\* The HTTP server is started after the informer has synced, so a request finds
\* the service ready.
ServeBundle(a) ==
  /\ agent[a].pc = "idle"
  /\ agent' = [agent EXCEPT ![a].pc = "etag", ![a].ans = "none"]
  /\ UNCHANGED <<crVars, caches, flight, slots>>
  /\ NoteOverlap

CheckETag(a) ==
  LET held == agent[a].held
  IN /\ agent[a].pc = "etag"
     /\ IF held # None /\ etags[ClientOf[a]] = held
        THEN agent' = [agent EXCEPT ![a] = Answered(a, "304")]
        ELSE GoTo(a, "bundle")
     /\ UNCHANGED <<crVars, caches, flight, slots, overlap>>

BundleHit(a) ==
  LET k == ClientOf[a]
  IN /\ agent[a].pc = "bundle"
     /\ k \in CachedKeys \ stale
     /\ bundles' = <<[key |-> k, bundle |-> CachedBundle(k)]>> \o Without(k)
     /\ agent' = [agent EXCEPT ![a].pc = "hit", ![a].built = CachedBundle(k)]
     /\ UNCHANGED <<crVars, etags, stale, global, nsCache, flight, slots, overlap>>

\* The ETag of the bundle that was found is set, and the bundle is served.
ServeHit(a) ==
  /\ agent[a].pc = "hit"
  /\ etags' = [etags EXCEPT ![ClientOf[a]] = agent[a].built]
  /\ agent' = [agent EXCEPT ![a] = Served(agent[a].built)]
  /\ UNCHANGED <<crVars, bundles, stale, global, nsCache, flight, slots, overlap>>

BundleMiss(a) ==
  LET k == ClientOf[a]
  IN /\ agent[a].pc = "bundle"
     /\ k \notin CachedKeys \ stale
     /\ bundles' = Without(k)
     /\ stale' = stale \ {k}
     /\ GoTo(a, "do")
     /\ UNCHANGED <<crVars, etags, global, nsCache, flight, slots, overlap>>

\* Mutant: every request that misses the caches builds.
MutLeadAlways(a) ==
  /\ agent[a].pc = "do"
  /\ flight' = [flight EXCEPT ![ClientOf[a]] = a]
  /\ GoTo(a, "slot")
  /\ UNCHANGED <<crVars, caches, slots, overlap>>

\* singleflight.Do: the first request of a client builds, the others wait.
Lead(a) ==
  /\ agent[a].pc = "do"
  /\ flight[ClientOf[a]] = None
  /\ flight' = [flight EXCEPT ![ClientOf[a]] = a]
  /\ GoTo(a, "slot")
  /\ UNCHANGED <<crVars, caches, slots, overlap>>

Join(a) ==
  /\ agent[a].pc = "do"
  /\ flight[ClientOf[a]] # None
  /\ GoTo(a, "joined")
  /\ UNCHANGED <<crVars, caches, flight, slots, overlap>>

\* The end of the call: its result goes to the leader and to all who joined.
EndFlight(a, result) ==
  /\ flight' = [flight EXCEPT ![ClientOf[a]] = None]
  /\ agent' = [b \in Agents |->
       IF b = a \/ (agent[b].pc = "joined" /\ ClientOf[b] = ClientOf[a])
       THEN result[b] ELSE agent[b]]

\* Mutant: the semaphore is made one place too large.
MutAcquireOneMore(a) ==
  /\ agent[a].pc = "slot"
  /\ slots <= MaxConcurrentBuilds
  /\ slots' = slots + 1
  /\ GoTo(a, "global")
  /\ UNCHANGED <<crVars, caches, flight, overlap>>

AcquireSlot(a) ==
  /\ agent[a].pc = "slot"
  /\ slots < MaxConcurrentBuilds
  /\ slots' = slots + 1
  /\ GoTo(a, "global")
  /\ UNCHANGED <<crVars, caches, flight, overlap>>

\* The client of the request that leads disconnects while it waits for a slot.
SlotCancelled(a) ==
  /\ agent[a].pc = "slot"
  /\ EndFlight(a, [b \in Agents |-> Answered(b, IF b = a THEN "gone" ELSE "500")])
  /\ UNCHANGED <<crVars, caches, slots, overlap>>

-----------------------------------------------------------------------------
(* Provider.buildBundle                                                    *)

ReadGlobal(a) ==
  /\ agent[a].pc = "global"
  /\ IF global = None
     THEN agent' = [agent EXCEPT ![a].pc = "setGlobal", ![a].built.global = GetGlobalPolicies]
     ELSE agent' = [agent EXCEPT ![a].pc = "ns", ![a].built.global = global]
  /\ UNCHANGED <<crVars, caches, flight, slots, overlap>>

SetGlobal(a) ==
  /\ agent[a].pc = "setGlobal"
  /\ global' = agent[a].built.global
  /\ GoTo(a, "ns")
  /\ UNCHANGED <<crVars, etags, bundles, stale, nsCache, flight, slots, overlap>>

ReadNamespace(a) ==
  LET s == NamespaceOf[ClientOf[a]]
  IN /\ agent[a].pc = "ns"
     /\ IF nsCache[s] = None
        THEN agent' = [agent EXCEPT ![a].pc = "setNs", ![a].built.ns = GetNamespacePolicies(s)]
        ELSE agent' = [agent EXCEPT ![a].pc = "client", ![a].built.ns = nsCache[s]]
     /\ UNCHANGED <<crVars, caches, flight, slots, overlap>>

SetNamespace(a) ==
  /\ agent[a].pc = "setNs"
  /\ nsCache' = [nsCache EXCEPT ![NamespaceOf[ClientOf[a]]] = agent[a].built.ns]
  /\ GoTo(a, "client")
  /\ UNCHANGED <<crVars, etags, bundles, stale, global, flight, slots, overlap>>

ReadClient(a) ==
  /\ agent[a].pc = "client"
  /\ agent' = [agent EXCEPT ![a].pc = "setETag", ![a].built.client = GetPolicy(ClientOf[a])]
  /\ UNCHANGED <<crVars, caches, flight, slots, overlap>>

SetETag(a) ==
  /\ agent[a].pc = "setETag"
  /\ etags' = [etags EXCEPT ![ClientOf[a]] = agent[a].built]
  /\ GoTo(a, "build")
  /\ UNCHANGED <<crVars, bundles, stale, global, nsCache, flight, slots, overlap>>

\* The deferred release of the slot and the end of the flight follow the last
\* step of buildBundle; no other goroutine can tell them from one step.
BundleBuilt(a) ==
  /\ agent[a].pc = "build"
  /\ CacheBundle(ClientOf[a], agent[a].built)
  /\ slots' = slots - 1
  /\ EndFlight(a, [b \in Agents |-> Served(agent[a].built)])
  /\ UNCHANGED <<crVars, etags, global, nsCache, overlap>>

\* Mutant: a failed build keeps its slot.
MutFailKeepsSlot(a) ==
  /\ agent[a].pc = "build"
  /\ EndFlight(a, [b \in Agents |-> Answered(b, "500")])
  /\ UNCHANGED <<crVars, caches, slots, overlap>>

\* The client's CR does not convert, the archive cannot be written (500), or it
\* exceeds maxBundleSize (413).
BuildFails(a) ==
  /\ \/ agent[a].pc = "client" /\ cr[ClientOf[a]] # Absent
     \/ agent[a].pc = "build"
  /\ slots' = slots - 1
  /\ \E ans \in IF agent[a].pc = "build" THEN {"413", "500"} ELSE {"500"} :
        EndFlight(a, [b \in Agents |-> Answered(b, ans)])
  /\ UNCHANGED <<crVars, caches, overlap>>

-----------------------------------------------------------------------------
BuildStep(a) ==
  \/ ReadGlobal(a) \/ SetGlobal(a) \/ ReadNamespace(a) \/ SetNamespace(a)
  \/ ReadClient(a) \/ SetETag(a) \/ BundleBuilt(a) \/ BuildFails(a)

OwnStep(a) ==
  \/ CheckETag(a) \/ BundleHit(a) \/ ServeHit(a) \/ BundleMiss(a)
  \/ Lead(a) \/ Join(a) \/ BuildStep(a)

HandlerStep == InvalidatePolicies \/ InvalidateETags \/ InvalidateBundles

BSNext ==
  \/ \E n \in Names : DeleteCR(n) \/ \E scope \in Scopes : ApplyCR(n, scope)
  \/ HandlerStep
  \/ \E k \in Names : EntryTimesOut(k)
  \/ \E a \in Agents :
        ServeBundle(a) \/ OwnStep(a) \/ AcquireSlot(a) \/ SlotCancelled(a)

BSSpec == BSInit /\ [][BSNext]_bsVars

\* Goroutines are scheduled, and a send that blocks on a full channel is served
\* in the order of arrival, so a request that keeps waiting gets a slot.
BSFairSpec ==
  /\ BSSpec
  /\ WF_bsVars(HandlerStep)
  /\ \A a \in Agents : WF_bsVars(OwnStep(a)) /\ SF_bsVars(AcquireSlot(a))

-----------------------------------------------------------------------------
(* Properties                                                              *)

Building == {"global", "setGlobal", "ns", "setNs", "client", "setETag", "build"}
Builders == {a \in Agents : agent[a].pc \in Building}

\* The type invariant of the service.
BSTypeOK ==
  /\ changes \in 0..MaxChanges
  /\ cr \in [Names -> {Absent} \cup [scope : Scopes, version : Versions]]
  /\ notices \in Seq([name : Names, scope : Scopes])
  /\ handler \in {"policy", "etag", "bundle"}
  /\ etags \in [Names -> Bundle \cup {None}]
  /\ bundles \in Seq([key : Names, bundle : Bundle])
  /\ stale \subseteq Names
  /\ global \in Tier \cup {None}
  /\ nsCache \in [Namespaces -> Tier \cup {None}]
  /\ flight \in [Names -> Agents \cup {None}]
  /\ slots \in 0..MaxConcurrentBuilds
  /\ agent \in [Agents ->
       [pc : {"idle", "etag", "bundle", "hit", "do", "joined", "slot"} \cup Building,
        built : Bundle, held : Bundle \cup {None},
        ans : {"none", "200", "304", "413", "500", "gone"}]]
  /\ overlap \in BOOLEAN

\* Singleflight, through every way a build can end or be given up: two requests
\* never build the bundle of one client, or wait to build it, at the same time.
SingleBuild ==
  LET leaders == {a \in Agents : agent[a].pc \in Building \cup {"slot"}}
  IN \A a, b \in leaders : ClientOf[a] = ClientOf[b] => a = b

\* The semaphore, through every way of not getting or giving up a slot: at most
\* MaxConcurrentBuilds builds run.
BuildLimit == Cardinality(Builders) <= MaxConcurrentBuilds

\* The state is well typed, and the bundle cache sound at its limit: one entry per
\* client, never more entries than its capacity, and no entry that outlives its
\* place in the LRU list.
BundleCacheSound ==
  /\ BSTypeOK
  /\ Len(bundles) <= MaxEntries
  /\ \A i, j \in 1..Len(bundles) : bundles[i].key = bundles[j].key => i = j
  /\ stale \subseteq CachedKeys

\* Every CR keeps one scope, and a global CR is in the service namespace.
ScopesStable ==
  \A n \in Names :
    /\ \A s, t \in ScopesOf[n] : s = t
    /\ "global" \in ScopesOf[n] => NamespaceOf[n] = ServiceNamespace

CachesFresh ==
  /\ global \in {None, GetGlobalPolicies}
  /\ \A s \in Namespaces : nsCache[s] \in {None, GetNamespacePolicies(s)}
  /\ \A n \in Names : etags[n] \in {None, Current(n)}
  /\ \A i \in 1..Len(bundles) : bundles[i].bundle = Current(bundles[i].key)

\* The invalidation reaches everything that depends on a changed CR, in every
\* tier: as long as no request has overlapped the handling of a change, all that
\* is cached once the changes are handled is what the CRs say now.
FreshWhenUndisturbed ==
  ScopesStable /\ ~ overlap /\ notices = <<>> => CachesFresh

\* No request waits forever, neither for a slot nor for the build it joined.
RequestServed == \A a \in Agents : agent[a].pc # "idle" ~> agent[a].pc = "idle"

-----------------------------------------------------------------------------
(* What the documentation says and the code does not do.                   *)

\* ARCHITECTURE.md: "304 Not Modified - the bundle has not changed since the
\* provided ETag".  Asked only when the watcher has handled every change.
NotModifiedIsCurrent ==
  [][\A a \in Agents :
       agent[a].pc = "etag" /\ agent'[a].ans = "304" /\ notices = <<>> =>
         agent[a].held = Current(ClientOf[a])]_bsVars

=============================================================================
