------------------------------ MODULE AgentCard ------------------------------
(***************************************************************************)
(* The AgentCard controllers of the operator: Sync creates an AgentCard    *)
(* for a workload, the AgentCard controller fetches the card of the        *)
(* agent, decides whether to trust it and labels the workload's pods, the  *)
(* NetworkPolicy controller opens or closes the network of the workload.   *)
(*                                                                         *)
(* One workload of one namespace and the AgentCards around it.  Each       *)
(* controller has one worker, a FIFO work queue, and takes its steps       *)
(* between those of the others: a step reads what it needs and sends at    *)
(* most one kind of write to the API server.  Requests fail and the        *)
(* operator crashes.  A requeue, delayed or not, goes to the end of the    *)
(* queue.  An update that changes nothing raises no event.                 *)
(***************************************************************************)
EXTENDS CardSignature, Functions

CONSTANTS
  Cards,        \* names of AgentCards
  AutoName,     \* the name Sync gives to its card, getAgentCardNameFromWorkload
  Modes,        \* configurations of the operator, each with what happens around it
  Sources,      \* what an agent may serve
  Bundles,      \* what the trust bundle ConfigMap holds in turn
  Key,          \* the key of the agent's SVID
  TrustDomain,  \* --spire-trust-domain
  Signer,       \* the identity that Sigstore bundles must come from
  APIServers,   \* the addresses DiscoverKubeAPIServerCIDRs found
  FailOpen,     \* whether the list of the admission check may fail
  MaxFaults     \* bound: failed requests and crashes

\* The workloads a card may name, this one or another, and the three ways its identity
\* binding is configured.
Targets == {"here", "elsewhere"}
Binds == {"none", "lax", "strict"}

\* A document as a parser returns it: its signatures and their certificates are lists.
IsDoc(doc) ==
  /\ doc.sigs \in Seq(Range(doc.sigs))
  /\ \A s \in Range(doc.sigs) : s.x5c \in Seq(Range(s.x5c))

\* What an agent serves: the ConfigMap of the signer, the two endpoints, its identity.
SourceFields == {"name", "cm", "current", "legacy", "peer"}
IsSource(s) ==
  /\ s = [f \in SourceFields |-> s[f]]
  /\ \A f \in {"cm", "current", "legacy"} : s[f].kind = "doc" => IsDoc(s[f].doc)

ASSUME CardsAssumption == AutoName \in Cards /\ IsFiniteSet(Cards)
ASSUME RequestsAssumption == \A m \in Modes : m.requests \subseteq Cards \X Targets \X Binds
ASSUME SourcesAssumption == \A s \in Sources : IsSource(s)
ASSUME BundlesAssumption == Bundles # <<>>
ASSUME CardBoundsAssumption ==
  (\A m \in Modes : m.edits \in Nat) /\ MaxFaults \in Nat /\ FailOpen \in BOOLEAN

VARIABLES
  mode,     \* the configuration of the operator
  cards,    \* the AgentCards
  wl,       \* the workload
  pol,      \* the NetworkPolicy of the workload
  src,      \* what the agent serves, and its ConfigMap
  svid,     \* the identity document the agent signs with
  tb,       \* the trust bundle: the stage published, what the provider has loaded
  q,        \* the work queues
  ac, np, sy,   \* the workers
  adm,      \* AgentCards of users that have passed the admission check
  shared,   \* whether two AgentCards have ever targeted the workload together
  leaked,   \* AgentCards whose annotation a failed cleanup has left behind
  edits, faults

acVars == <<mode, cards, wl, pol, src, svid, tb, q, ac, np, sy, adm, shared, leaked,
            edits, faults>>

-----------------------------------------------------------------------------
NoCard == [st |-> "absent", auto |-> FALSE, owned |-> "none", fins |-> {},
           target |-> "none", bind |-> "none", synced |-> "none", verified |-> "none",
           ready |-> "none", bound |-> "none"]

NewCard(auto, owned, target, bind) ==
  [NoCard EXCEPT !.st = "live", !.auto = auto, !.owned = owned, !.target = target,
                 !.bind = bind]

NewWorkload ==
  [st |-> "agent", proto |-> TRUE, ready |-> TRUE, svc |-> "tls",
   annos |-> [c \in Cards |-> "none"], label |-> FALSE, hash |-> {},
   trig |-> "none", leaf |-> 0, roll |-> FALSE]

NoPolicy == [ingress |-> {}, egress |-> "none", sel |-> FALSE, owner |-> "none"]

\* The ingress that every policy allows, and the two policies.  The pods are selected
\* by the labels of the pod template, the verified label among them.
OperatorIngress == {"operator", "defaults"}

PermissivePolicy(c, sel) ==
  [ingress |-> OperatorIngress \cup {"verified"}, egress |-> "all", sel |-> sel,
   owner |-> c]

RestrictivePolicy(c, sel) ==
  [ingress |-> OperatorIngress, egress |-> IF APIServers = {} THEN "none" ELSE "api",
   sel |-> sel, owner |-> c]

NoDoc == [fields |-> [name |-> ""], sigs |-> <<>>,
          attestations |-> [kind |-> "absent"], material |-> [kind |-> "absent"]]

Exists(c) == cards[c].st # "absent"
Here(c) == Exists(c) /\ cards[c].target = "here"
IdleAC == [pc |-> "idle", card |-> AutoName, doc |-> NoDoc, peer |-> NoID, sig |-> FALSE,
           id |-> NoID]
IdleSync == [pc |-> "idle", owner |-> "current"]
IdleNP == [pc |-> "idle", card |-> AutoName, verified |-> FALSE, sel |-> FALSE]

\* newPodTemplateAccessor: only these kinds have a pod template to write to.
HasTemplate == mode.kind \in {"Deployment", "StatefulSet"}

\* The cards that are not queued yet go to the end of a queue, in any order.
AddAll(seq, S) ==
  LET new == S \ Range(seq)
  IN seq \o (CHOOSE s \in Bijection(1 .. Cardinality(new), new) : TRUE)

\* agentLabelPredicate, on the object as the event shows it.
Labelled(newWl) == IF newWl.st = "absent" THEN wl.st = "agent" ELSE newWl.st = "agent"

\* mapWorkloadToAgentCards, by the index of targets.
MappedCards(ks) == {c \in Cards : ks[c].target = "here"}

\* Mutant: the NetworkPolicy controller does not see the label updates either.
MutOwnUnseen(newCards, newWl, newPol, own, base) ==
  LET event == newWl # wl /\ Labelled(newWl)
      changed == {c \in Cards : newCards[c] # cards[c]}
      mapped == IF event /\ ~own THEN MappedCards(newCards) ELSE {}
      owners == {c \in Cards : newPol # pol /\ c \in {pol.owner, newPol.owner}}
  IN /\ cards' = newCards /\ wl' = newWl /\ pol' = newPol
     /\ q' = [ac |-> AddAll(base.ac, changed \cup mapped),
              np |-> AddAll(base.np, IF mode.enforce THEN changed \cup mapped \cup owners ELSE {}),
              sync |-> base.sync \/ event]
     /\ shared' = (shared \/ \E c, d \in Cards : c # d /\ newCards[c].target = "here"
                                                       /\ newCards[d].target = "here")

\* What a write makes of the queues.  Cards are watched by two controllers, policies
\* through the card that controls them.  Workload events reach the AgentCard
\* controller only when they are not its own (ignoreOperatorLabelUpdatePredicate).
Publish(newCards, newWl, newPol, own, base) ==
  LET event == newWl # wl /\ Labelled(newWl)
      changed == {c \in Cards : newCards[c] # cards[c]}
      mapped == IF event THEN MappedCards(newCards) ELSE {}
      owners == {c \in Cards : newPol # pol /\ c \in {pol.owner, newPol.owner}}
      forNP == IF mode.enforce THEN changed \cup mapped \cup owners ELSE {}
  IN /\ cards' = newCards
     /\ wl' = newWl
     /\ pol' = newPol
     /\ q' = [ac |-> AddAll(base.ac, changed \cup IF own THEN {} ELSE mapped),
              np |-> AddAll(base.np, forNP),
              sync |-> base.sync \/ event]
     /\ shared' = (shared \/ \E c, d \in Cards : c # d /\ newCards[c].target = "here"
                                                       /\ newCards[d].target = "here")

WriteCard(c, k, base) == Publish([cards EXCEPT ![c] = k], wl, pol, FALSE, base)
WriteWorkload(w, own, base) == Publish(cards, w, pol, own, base)
WritePolicy(p, base) == Publish(cards, wl, p, FALSE, base)

\* Bounds: mode.edits changes from outside, MaxFaults failed requests and crashes.
Edit == edits < mode.edits /\ edits' = edits + 1
Fault == faults < MaxFaults /\ faults' = faults + 1

\* Deleting an object with finalizers only marks it.
Deleted(k) == IF k.st = "absent" \/ k.fins = {} THEN NoCard ELSE [k EXCEPT !.st = "deleting"]

\* The last finalizer to go takes a deleted object with it.
Released(k, f) ==
  IF k.st = "deleting" /\ k.fins \subseteq {f} THEN NoCard ELSE [k EXCEPT !.fins = @ \ {f}]

\* checkDuplicateTargetRef, on creations and updates (not of the status): it lists
\* the stored cards, deleted ones included, and lets the request pass if it cannot.
Admits(c, target) ==
  \/ /\ \A d \in Cards \ {c} : Exists(d) => cards[d].target # target
     /\ UNCHANGED faults
  \/ FailOpen /\ Fault

Refuses(c, target) ==
  /\ \E d \in Cards \ {c} : Exists(d) /\ cards[d].target = target
  /\ UNCHANGED faults

ACInit ==
  /\ mode \in Modes
  /\ cards = [c \in Cards |-> NoCard]
  /\ wl = NewWorkload
  /\ pol = NoPolicy
  /\ src \in {s \in Sources : s.name = mode.serves}
  /\ svid = [root |-> 1, exp |-> 1, due |-> 0]
  /\ tb = [stage |-> 1, loaded |-> {}, age |-> "old"]
  /\ q = [ac |-> <<>>, np |-> <<>>, sync |-> TRUE]
  /\ ac = IdleAC /\ np = IdleNP /\ sy = IdleSync
  /\ adm = <<>>
  /\ shared = FALSE /\ leaked = {}
  /\ edits = 0 /\ faults = 0

-----------------------------------------------------------------------------
(* Users, the agent and the cluster.                                       *)

\* A user's AgentCard is checked first and stored later, so two checks can overlap.
ValidateCreate(c, target, bind) ==
  /\ "cards" \in mode.env /\ Edit
  /\ ~Exists(c) /\ adm = <<>>
  /\ Admits(c, target)
  /\ adm' = <<c, target, bind>>
  /\ UNCHANGED <<mode, cards, wl, pol, src, svid, tb, q, ac, np, sy, shared, leaked>>

CreateCard ==
  /\ adm # <<>>
  /\ adm' = <<>>
  /\ LET k == NewCard(FALSE, "none", adm[2], adm[3])
     IN WriteCard(adm[1], IF Exists(adm[1]) THEN cards[adm[1]] ELSE k, q)
  /\ UNCHANGED <<mode, src, svid, tb, ac, np, sy, leaked, edits, faults>>

DeleteCard(c) ==
  /\ "cards" \in mode.env /\ Edit
  /\ cards[c].st = "live"
  /\ WriteCard(c, Deleted(cards[c]), q)
  /\ UNCHANGED <<mode, src, svid, tb, ac, np, sy, adm, leaked, faults>>

\* A workload gains and loses its labels, its readiness, the ports of its Service.
EditWorkload(w) ==
  /\ "workload" \in mode.env /\ Edit
  /\ wl.st # "absent" /\ w # wl
  /\ WriteWorkload(w, FALSE, q)
  /\ UNCHANGED <<mode, src, svid, tb, ac, np, sy, adm, leaked, faults>>

EditedWorkloads ==
  {[wl EXCEPT !.st = "plain"], [wl EXCEPT !.st = "agent"], [wl EXCEPT !.proto = ~@],
   [wl EXCEPT !.ready = ~@], [wl EXCEPT !.svc = "none"], [wl EXCEPT !.svc = "http"]}

\* The cards it owns are left with an owner that is gone.
DeleteWorkload ==
  /\ "workload" \in mode.env /\ Edit
  /\ wl.st # "absent"
  /\ Publish([c \in Cards |-> [cards[c] EXCEPT !.owned = IF @ = "current" THEN "old" ELSE @]],
             [NewWorkload EXCEPT !.st = "absent"], pol, FALSE, q)
  /\ leaked' = {}
  /\ sy' = [sy EXCEPT !.owner = IF sy.pc = "idle" THEN @ ELSE "old"]
  /\ UNCHANGED <<mode, src, svid, tb, ac, np, adm, faults>>

CreateWorkload ==
  /\ "workload" \in mode.env
  /\ wl.st = "absent"
  /\ WriteWorkload(NewWorkload, FALSE, q)
  /\ UNCHANGED <<mode, src, svid, tb, ac, np, sy, adm, leaked, edits, faults>>

\* The garbage collector removes what an owner has left.
CollectCard(c) ==
  /\ cards[c].owned = "old" /\ cards[c].st = "live"
  /\ WriteCard(c, Deleted(cards[c]), q)
  /\ UNCHANGED <<mode, src, svid, tb, ac, np, sy, adm, leaked, edits, faults>>

EditSource(s) ==
  /\ "content" \in mode.env /\ Edit
  /\ s # src
  /\ src' = s
  /\ UNCHANGED <<mode, cards, wl, pol, svid, tb, q, ac, np, sy, adm, shared, leaked, faults>>

-----------------------------------------------------------------------------
(* SPIRE and the signer in the agent's init container.                     *)

AgentID == [scheme |-> "spiffe", domain |-> TrustDomain, path |-> "agent"]

Leaf(root, exp) ==
  [subject |-> 0, issuer |-> root, key |-> Key, uris |-> {AgentID}, notAfter |-> exp]

UnsignedCard == [NoDoc EXCEPT !.fields = [name |-> "agent", version |-> ""]]

SignedBy(s) == [kind |-> "doc", doc |-> SignCard(UnsignedCard, Key, <<Leaf(s.root, s.exp)>>)]

RootsAt(stage) == ParseBundle(Bundles[stage])

\* The next bundle is published.  A root is taken out of it only when it no longer
\* signs the SVID of the agent.
PublishBundle ==
  /\ "rotation" \in mode.env
  /\ tb.stage < Len(Bundles)
  /\ svid.root \in RootsAt(tb.stage + 1)
  /\ tb' = [tb EXCEPT !.stage = @ + 1]
  /\ UNCHANGED <<mode, cards, wl, pol, src, svid, q, ac, np, sy, adm, shared, leaked,
                 edits, faults>>

LeafNearsExpiry ==
  /\ "rotation" \in mode.env /\ Edit
  /\ svid.due < svid.exp
  /\ svid' = [svid EXCEPT !.due = svid.exp]
  /\ UNCHANGED <<mode, cards, wl, pol, src, tb, q, ac, np, sy, adm, shared, leaked, faults>>

\* A changed pod template restarts the pods: the signer takes a fresh SVID from the
\* newest root and writes the signed card to its file and then to the ConfigMap.  The
\* second write may fail, which is only logged.
Rollout ==
  /\ wl.roll
  /\ svid' = [root |-> Max(RootsAt(tb.stage)), exp |-> svid.exp + 1, due |-> svid.due]
  /\ CanSign(<<Leaf(svid.root, svid.exp)>>, Key)
  /\ \/ /\ src' = [src EXCEPT !.current = SignedBy(svid'), !.cm = SignedBy(svid')]
        /\ UNCHANGED faults
     \/ /\ src' = [src EXCEPT !.current = SignedBy(svid')]
        /\ Fault
  /\ WriteWorkload([wl EXCEPT !.roll = FALSE], FALSE, q)
  /\ UNCHANGED <<mode, tb, ac, np, sy, adm, leaked, edits>>

\* Time passes: the last restart is longer ago than the grace period, the loaded
\* bundle older than the refresh interval.
GracePeriodEnds ==
  /\ wl.trig = "recent"
  /\ wl' = [wl EXCEPT !.trig = "old"]
  /\ UNCHANGED <<mode, cards, pol, src, svid, tb, q, ac, np, sy, adm, shared, leaked, edits,
                 faults>>

BundleAges ==
  /\ "rotation" \in mode.env /\ tb.age = "fresh"
  /\ tb' = [tb EXCEPT !.age = "old"]
  /\ UNCHANGED <<mode, cards, wl, pol, src, svid, q, ac, np, sy, adm, shared, leaked, edits,
                 faults>>

-----------------------------------------------------------------------------
(* AgentCardSyncReconciler: ensureAgentCard for the workload.              *)

ShouldSyncWorkload == wl.st = "agent" /\ wl.proto

\* findCardForWorkload
OtherCardFor(c) == \E d \in Cards \ {c} : Here(d)

Unsynced == [q EXCEPT !.sync = FALSE]

\* The owner reference of a card that exists under the name of Sync: another target is
\* an error, and so is another owner, and both are tried again.
AdoptCard ==
  \/ /\ cards[AutoName].target = "here" /\ cards[AutoName].owned = "none"
     /\ \/ /\ Admits(AutoName, "here")
           /\ WriteCard(AutoName, [cards[AutoName] EXCEPT !.owned = "current"], Unsynced)
        \/ /\ Refuses(AutoName, "here")
           /\ UNCHANGED <<cards, wl, pol, q, shared>>
  \/ /\ cards[AutoName].target # "here" \/ cards[AutoName].owned = "old"
     /\ UNCHANGED <<cards, wl, pol, q, shared, faults>>

\* An automatic card gives way to any other card of the workload; without one, a card
\* of the workload keeps Sync from creating its own.
EnsureAgentCard ==
  /\ sy.pc = "idle" /\ q.sync
  /\ \/ /\ \/ ~ShouldSyncWorkload
           \/ ~Exists(AutoName) /\ OtherCardFor(AutoName)
           \/ Here(AutoName) /\ cards[AutoName].owned = "current" /\ ~OtherCardFor(AutoName)
           \/ Here(AutoName) /\ cards[AutoName].owned = "current" /\ ~cards[AutoName].auto
        /\ q' = Unsynced
        /\ UNCHANGED <<cards, wl, pol, sy, shared, faults>>
     \/ /\ ShouldSyncWorkload /\ Exists(AutoName) /\ cards[AutoName].auto /\ OtherCardFor(AutoName)
        /\ WriteCard(AutoName, Deleted(cards[AutoName]), Unsynced)
        /\ UNCHANGED <<sy, faults>>
     \/ /\ ShouldSyncWorkload /\ Exists(AutoName)
        /\ ~(cards[AutoName].auto /\ OtherCardFor(AutoName))
        /\ AdoptCard
        /\ UNCHANGED sy
     \/ /\ ShouldSyncWorkload /\ ~Exists(AutoName) /\ ~OtherCardFor(AutoName)
        /\ sy' = [sy EXCEPT !.pc = "admit"]
        /\ UNCHANGED <<cards, wl, pol, q, shared, faults>>
  /\ UNCHANGED <<mode, src, svid, tb, ac, np, adm, leaked, edits>>

SyncAdmit ==
  /\ sy.pc = "admit"
  /\ \/ Admits(AutoName, "here") /\ sy' = [sy EXCEPT !.pc = "create"]
     \/ (Refuses(AutoName, "here") \/ Fault) /\ sy' = IdleSync
  /\ UNCHANGED <<mode, cards, wl, pol, src, svid, tb, q, ac, np, adm, shared, leaked, edits>>

\* createAgentCardForWorkload; handleAlreadyExistsOnCreate adopts the card instead.
\* The owner is the workload that was read, which may be gone by now.
CreateAgentCardForWorkload ==
  /\ sy.pc = "create"
  /\ sy' = IdleSync
  /\ \/ /\ ~Exists(AutoName)
        /\ WriteCard(AutoName, NewCard(TRUE, sy.owner, "here",
                                       IF TrustDomain = "" THEN "none" ELSE "lax"), Unsynced)
        /\ UNCHANGED faults
     \/ Exists(AutoName) /\ AdoptCard
  /\ UNCHANGED <<mode, src, svid, tb, ac, np, adm, leaked, edits>>

-----------------------------------------------------------------------------
(* AgentCardReconciler.                                                    *)

ACHead == Head(q.ac)
ACRest == [q EXCEPT !.ac = Tail(@)]
ACAgain(c) == [q EXCEPT !.ac = AddAll(@, {c})]

SetSynced(k, v) == [k EXCEPT !.synced = v]

\* The reasons that keep a card from being fetched: only Synced is set, and Bound when
\* there is no such agent.
NotAgent(c) == cards[c].target # "here" \/ wl.st # "agent"

NotFetchable(c) == NotAgent(c) \/ ~wl.ready \/ ~wl.proto \/ wl.svc = "none"

Unfetched(c) ==
  [SetSynced(cards[c], "false") EXCEPT
     !.bound = IF NotAgent(c) /\ cards[c].bind # "none" THEN "false" ELSE @]

\* Reconcile up to the fetch.
ReconcileCard ==
  /\ ac.pc = "idle" /\ q.ac # <<>>
  /\ LET c == ACHead
         again == [q EXCEPT !.ac = Append(Tail(@), c)]
     IN \/ /\ ~Exists(c) \/ (cards[c].st = "deleting" /\ "card" \notin cards[c].fins)
           /\ q' = ACRest
           /\ UNCHANGED <<cards, wl, pol, ac, shared, faults>>
        \/ /\ cards[c].st = "deleting" /\ "card" \in cards[c].fins
           /\ ac' = [IdleAC EXCEPT !.pc = "cleanup", !.card = c]
           /\ q' = ACRest
           /\ UNCHANGED <<cards, wl, pol, shared, faults>>
        \/ /\ cards[c].st = "live" /\ "card" \notin cards[c].fins
           /\ \/ /\ Admits(c, cards[c].target)
                 /\ WriteCard(c, [cards[c] EXCEPT !.fins = @ \cup {"card"}], ACRest)
              \/ /\ Refuses(c, cards[c].target) \/ Fault
                 /\ q' = again
                 /\ UNCHANGED <<cards, wl, pol, shared>>
           /\ UNCHANGED ac
        \/ /\ cards[c].st = "live" /\ "card" \in cards[c].fins /\ NotFetchable(c)
           /\ WriteCard(c, Unfetched(c), again)
           /\ UNCHANGED <<ac, faults>>
        \/ /\ cards[c].st = "live" /\ "card" \in cards[c].fins /\ ~NotFetchable(c)
           /\ ac' = [IdleAC EXCEPT !.pc = "fetch", !.card = c]
           /\ q' = ACRest
           /\ UNCHANGED <<cards, wl, pol, shared, faults>>
  /\ UNCHANGED <<mode, src, svid, tb, np, sy, adm, leaked, edits>>

\* FetchAuthenticated takes part in mTLS with members of the trust domain only.
AuthenticatedFetch == mode.mtls /\ wl.svc = "tls"

Fetched ==
  IF AuthenticatedFetch
  THEN IF src.peer.domain = TrustDomain THEN FetchA2ACard(src.current, src.legacy)
       ELSE [kind |-> "down"]
  ELSE FetchCard(src.cm, src.current, src.legacy)

\* cleanupVerifiedFetchFields
VerifiedCleared(k) == [k EXCEPT !.verified = "none"]

\* fetchCardData.  A failed fetch leaves the labels of the workload as they are; a
\* plain one, with verified fetch off, takes the Verified condition away until the
\* status is written.
FetchCardData ==
  /\ ac.pc = "fetch"
  /\ LET c == ac.card
         k == cards[c]
     IN \/ /\ Fetched.kind # "doc"
           /\ WriteCard(c, [SetSynced(k, "false") EXCEPT !.ready = "false",
                              !.verified = IF AuthenticatedFetch THEN "false" ELSE @],
                        ACAgain(c))
           /\ ac' = IdleAC
           /\ UNCHANGED faults
        \/ /\ Fetched.kind = "doc"
           /\ ac' = [ac EXCEPT !.pc = "trust", !.doc = Fetched.doc,
                               !.peer = IF AuthenticatedFetch THEN src.peer ELSE NoID]
           /\ \/ /\ WriteCard(c, IF mode.mtls THEN k ELSE VerifiedCleared(k), q)
                 /\ UNCHANGED faults
              \/ ~mode.mtls /\ Fault /\ UNCHANGED <<cards, wl, pol, q, shared>>
  /\ UNCHANGED <<mode, src, svid, tb, np, sy, adm, leaked, edits>>

\* Mutant: a loaded bundle is never read again.
MutNeverRefreshed == IF tb.loaded = {} THEN RootsAt(tb.stage) ELSE tb.loaded

\* maybeRefreshTrustBundle: a bundle that cannot be read leaves the loaded one.
RefreshedBundle ==
  IF (tb.loaded = {} \/ tb.age = "old") /\ RootsAt(tb.stage) # {} THEN RootsAt(tb.stage)
  ELSE tb.loaded

\* Mutant: the leaf is waited for until a later one is due.
MutDueLate(exp) == exp < svid.due

\* The time has come for this leaf, or for a later one.
NearExpiry(exp) == exp <= svid.due

\* maybeRestartForResign: the workload as it is left for a verified card.  Nothing is
\* done for a grace period after a restart, nor twice for one leaf.  The first bundle
\* seen is only recorded.
Resigned(exp, bundle) ==
  IF wl.trig = "recent" \/ (NearExpiry(exp) /\ wl.leaf = exp) THEN wl
  ELSE IF NearExpiry(exp) \/ wl.hash \notin {{}, bundle}
       THEN [wl EXCEPT !.trig = "recent", !.leaf = exp, !.hash = bundle,
                       !.roll = "rotation" \in mode.env]
       ELSE [wl EXCEPT !.hash = bundle]

\* verifySignature, when signatures are required.
SignatureResult(bundle) == VerifySignature(ac.doc, IF mode.sig THEN bundle ELSE {})

\* evaluateTrust: the signature, the restart for a new one, the identity proven.
EvaluateTrust ==
  /\ ac.pc = "trust"
  /\ LET bundle == IF mode.sig THEN RefreshedBundle ELSE tb.loaded
         vr == SignatureResult(bundle)
         new == IF vr.verified /\ HasTemplate /\ wl.st # "absent"
                THEN Resigned(vr.notAfter, bundle) ELSE wl
     IN /\ tb' = [tb EXCEPT !.loaded = bundle, !.age = IF mode.sig THEN "fresh" ELSE @]
        /\ ac' = [ac EXCEPT !.pc = "status", !.sig = vr.verified,
                            !.id = IF ac.peer # NoID THEN ac.peer ELSE vr.id]
        /\ \/ WriteWorkload(new, new.hash # wl.hash, q) /\ UNCHANGED faults
           \/ new # wl /\ Fault /\ UNCHANGED <<cards, wl, pol, q, shared>>
  /\ UNCHANGED <<mode, src, svid, np, sy, adm, leaked, edits>>

\* The decision: mTLS decides alone; otherwise the signature, and the binding when it
\* is strict.
MTLSVerified == ac.peer # NoID
BindingPassed == ComputeBinding(ac.id, TrustDomain)
IsVerified ==
  \/ MTLSVerified
  \/ mode.sig /\ ac.sig /\ (cards[ac.card].bind = "strict" => BindingPassed)

Truth(b) == IF b THEN "true" ELSE "false"

SigstoreFailed == mode.store /\ VerifySignedAgentCard(ac.doc, Signer) = "failed"

\* applyBindingToStatus
BoundStatus(k) == IF k.bind = "none" THEN k.bound ELSE Truth(BindingPassed)

\* The conditions of updateAgentCardStatus.
StatusOf(k) ==
  LET rejected == \/ mode.sig /\ ~ac.sig /\ ~mode.audit /\ ~MTLSVerified
                  \/ SigstoreFailed /\ ~mode.storeAudit
      verified == IF MTLSVerified \/ mode.sig \/ mode.mtls THEN Truth(IsVerified)
                  ELSE k.verified
  IN [k EXCEPT !.synced = Truth(~rejected), !.verified = verified,
               !.ready = Truth(~rejected /\ verified \in {"none", "true"}),
               !.bound = BoundStatus(k)]

UpdateAgentCardStatus ==
  /\ ac.pc = "status"
  /\ \/ /\ WriteCard(ac.card, StatusOf(cards[ac.card]), q)
        /\ ac' = [ac EXCEPT !.pc = "label"]
        /\ UNCHANGED faults
     \/ /\ Fault
        /\ ac' = IdleAC
        /\ q' = ACAgain(ac.card)
        /\ UNCHANGED <<cards, wl, pol, shared>>
  /\ UNCHANGED <<mode, src, svid, tb, np, sy, adm, leaked, edits>>

\* Mutant: one verified card is enough.
MutAnyVerified(annos) == \E c \in Cards : annos[c] = "true"

\* aggregateVerifiedState: there is an annotation, and all of them are true.
Aggregate(annos) ==
  LET set == {c \in Cards : annos[c] # "none"}
  IN set # {} /\ \A c \in set : annos[c] = "true"

\* A workload with the annotation of a card set, and the label that follows from all
\* of them.  The label is in the pod template, so a change of it restarts the pods.
Annotated(c, v) ==
  LET annos == [wl.annos EXCEPT ![c] = v]
  IN [wl EXCEPT !.annos = annos, !.label = Aggregate(annos),
                !.roll = @ \/ ("rotation" \in mode.env /\ wl.label # Aggregate(annos))]

\* propagateLabelToWorkload, when some mechanism of trust is on; the predicate keeps
\* the AgentCard controller from seeing a change of its own annotation.
PropagateLabel ==
  /\ ac.pc = "label"
  /\ ac' = IdleAC
  /\ LET v == Truth(IsVerified)
     IN \/ /\ HasTemplate /\ wl.st # "absent" /\ (mode.sig \/ mode.mtls)
           /\ WriteWorkload(Annotated(ac.card, v), wl.annos[ac.card] # v, ACAgain(ac.card))
           /\ UNCHANGED faults
        \/ /\ \/ ~(HasTemplate /\ wl.st # "absent" /\ (mode.sig \/ mode.mtls)) /\ UNCHANGED faults
              \/ Fault
           /\ q' = ACAgain(ac.card)
           /\ UNCHANGED <<cards, wl, pol, shared>>
  /\ UNCHANGED <<mode, src, svid, tb, np, sy, adm, leaked, edits>>

\* Mutant: the annotation is left to the next reconcile.
MutNoCleanup ==
  /\ ac.pc = "cleanup"
  /\ ac' = [ac EXCEPT !.pc = "finalize"]
  /\ UNCHANGED <<mode, cards, wl, pol, src, svid, tb, q, np, sy, adm, shared, leaked, edits,
                 faults>>

\* cleanupPerCardAnnotation: its failure is only logged.
CleanupAnnotation ==
  /\ ac.pc = "cleanup"
  /\ ac' = [ac EXCEPT !.pc = "finalize"]
  /\ LET c == ac.card
         has == HasTemplate /\ cards[c].target = "here" /\ wl.annos[c] # "none"
     IN \/ /\ WriteWorkload(IF has THEN Annotated(c, "none") ELSE wl, TRUE, q)
           /\ leaked' = IF wl'.annos[c] = "none" THEN leaked \ {c} ELSE leaked
           /\ UNCHANGED faults
        \/ /\ has /\ Fault
           /\ leaked' = leaked \cup {c}
           /\ UNCHANGED <<cards, wl, pol, q, shared>>
  /\ UNCHANGED <<mode, src, svid, tb, np, sy, adm, edits>>

\* Mutant: a failed update is not tried again.
MutFinalizeOnce ==
  /\ ac.pc = "finalize"
  /\ ac' = IdleAC
  /\ \/ /\ Admits(ac.card, cards[ac.card].target)
        /\ WriteCard(ac.card, Released(cards[ac.card], "card"), q)
     \/ Fault /\ UNCHANGED <<cards, wl, pol, q, shared>>
  /\ UNCHANGED <<mode, src, svid, tb, np, sy, adm, leaked, edits>>

\* The finalizer goes with an update, which the admission check sees too.
RemoveCardFinalizer ==
  /\ ac.pc = "finalize"
  /\ ac' = IdleAC
  /\ LET c == ac.card
     IN \/ /\ Admits(c, cards[c].target)
           /\ WriteCard(c, Released(cards[c], "card"), q)
        \/ /\ Refuses(c, cards[c].target) \/ Fault
           /\ q' = ACAgain(c)
           /\ UNCHANGED <<cards, wl, pol, shared>>
  /\ UNCHANGED <<mode, src, svid, tb, np, sy, adm, leaked, edits>>

-----------------------------------------------------------------------------
(* AgentCardNetworkPolicyReconciler.                                       *)

NPRest == [q EXCEPT !.np = Tail(@)]
NPAgain(c) == [q EXCEPT !.np = AddAll(@, {c})]

\* resolveWorkload: a kind without a pod template is selected by fixed labels, unread.
Unresolved(c) == cards[c].target # "here" \/ (HasTemplate /\ wl.st = "absent")

\* Reconcile up to the policy.
ReconcilePolicy ==
  /\ mode.enforce /\ np.pc = "idle" /\ q.np # <<>>
  /\ LET c == Head(q.np)
     IN \/ /\ \/ ~Exists(c)
              \/ cards[c].st = "deleting" /\ "np" \notin cards[c].fins
              \/ cards[c].st = "live" /\ "np" \in cards[c].fins /\ Unresolved(c)
           /\ q' = NPRest
           /\ UNCHANGED <<cards, wl, pol, np, shared, faults>>
        \/ /\ cards[c].st = "live" /\ "np" \notin cards[c].fins
           /\ \/ /\ Admits(c, cards[c].target)
                 /\ WriteCard(c, [cards[c] EXCEPT !.fins = @ \cup {"np"}], NPRest)
              \/ /\ Refuses(c, cards[c].target) \/ Fault
                 /\ q' = [q EXCEPT !.np = Append(Tail(@), c)]
                 /\ UNCHANGED <<cards, wl, pol, shared>>
           /\ UNCHANGED np
        \/ /\ cards[c].st = "live" /\ "np" \in cards[c].fins /\ ~Unresolved(c)
           /\ np' = [pc |-> "write", card |-> c, verified |-> cards[c].verified = "true",
                     sel |-> HasTemplate /\ wl.label]
           /\ q' = NPRest
           /\ UNCHANGED <<cards, wl, pol, shared, faults>>
        \/ /\ cards[c].st = "deleting" /\ "np" \in cards[c].fins
           /\ np' = [IdleNP EXCEPT !.pc = "remove", !.card = c]
           /\ q' = NPRest
           /\ UNCHANGED <<cards, wl, pol, shared, faults>>
  /\ UNCHANGED <<mode, src, svid, tb, ac, sy, adm, leaked, edits>>

FailPolicy ==
  /\ np.pc # "idle" /\ Fault
  /\ np' = IdleNP
  /\ q' = NPAgain(np.card)
  /\ UNCHANGED <<mode, cards, wl, pol, src, svid, tb, ac, sy, adm, shared, leaked, edits>>

\* manageNetworkPolicy: the policy of the workload, by its name, takes the rules and
\* the owner of this card.
ManageNetworkPolicy ==
  /\ np.pc = "write"
  /\ np' = IdleNP
  /\ WritePolicy(IF np.verified THEN PermissivePolicy(np.card, np.sel)
                 ELSE RestrictivePolicy(np.card, np.sel), q)
  /\ UNCHANGED <<mode, src, svid, tb, ac, sy, adm, leaked, edits, faults>>

\* handleDeletion: the policy of that name goes, whoever wrote it last, and then the
\* finalizer.
DeleteNetworkPolicy ==
  /\ np.pc = "remove"
  /\ np' = [np EXCEPT !.pc = "release"]
  /\ WritePolicy(IF cards[np.card].target = "here" THEN NoPolicy ELSE pol, q)
  /\ UNCHANGED <<mode, src, svid, tb, ac, sy, adm, leaked, edits, faults>>

RemovePolicyFinalizer ==
  /\ np.pc = "release"
  /\ np' = IdleNP
  /\ LET c == np.card
     IN \/ /\ Admits(c, cards[c].target)
           /\ WriteCard(c, Released(cards[c], "np"), q)
        \/ /\ Refuses(c, cards[c].target)
           /\ q' = NPAgain(c)
           /\ UNCHANGED <<cards, wl, pol, shared>>
  /\ UNCHANGED <<mode, src, svid, tb, ac, sy, adm, leaked, edits>>

-----------------------------------------------------------------------------
(* A crash: the workers and the loaded bundle are gone, and the caches of  *)
(* the next process list every object.                                     *)
Crash ==
  /\ Fault
  /\ LET all == AddAll(<<>>, {c \in Cards : Exists(c)})
     IN q' = [ac |-> all, np |-> IF mode.enforce THEN all ELSE <<>>,
              sync |-> wl.st = "agent"]
  /\ ac' = IdleAC /\ np' = IdleNP /\ sy' = IdleSync
  /\ tb' = [tb EXCEPT !.loaded = {}, !.age = "old"]
  /\ UNCHANGED <<mode, cards, wl, pol, src, svid, adm, shared, leaked, edits>>

SyncStep == EnsureAgentCard \/ SyncAdmit \/ CreateAgentCardForWorkload

CardStep ==
  \/ ReconcileCard \/ FetchCardData \/ EvaluateTrust \/ UpdateAgentCardStatus
  \/ PropagateLabel \/ CleanupAnnotation \/ RemoveCardFinalizer

PolicyStep ==
  \/ ReconcilePolicy \/ FailPolicy \/ ManageNetworkPolicy \/ DeleteNetworkPolicy
  \/ RemovePolicyFinalizer

GCStep == \E c \in Cards : CollectCard(c)

UserStep ==
  \/ \E r \in mode.requests : ValidateCreate(r[1], r[2], r[3])
  \/ CreateCard
  \/ \E c \in Cards : DeleteCard(c)
  \/ \E w \in EditedWorkloads : EditWorkload(w)
  \/ DeleteWorkload \/ CreateWorkload
  \/ \E s \in Sources : EditSource(s)

IdentityStep == PublishBundle \/ LeafNearsExpiry \/ Rollout \/ GracePeriodEnds \/ BundleAges

ACNext == UserStep \/ IdentityStep \/ GCStep \/ SyncStep \/ CardStep \/ PolicyStep \/ Crash

ACSpec == ACInit /\ [][ACNext]_acVars

\* A worker has something to do.
CardWork == ac.pc # "idle" \/ q.ac # <<>>
PolicyWork == mode.enforce /\ (np.pc # "idle" \/ q.np # <<>>)

\* The workers run while they have something to do, the cluster collects garbage and
\* replaces pods, and time passes.  The first two conjuncts are weak fairness of
\* CardStep and PolicyStep, with what enables them written out.
ACFairSpec ==
  /\ ACSpec
  /\ []<>~CardWork \/ []<><<CardStep>>_acVars
  /\ []<>~PolicyWork \/ []<><<PolicyStep>>_acVars
  /\ WF_acVars(SyncStep) /\ WF_acVars(GCStep) /\ WF_acVars(Rollout)
  /\ WF_acVars(GracePeriodEnds) /\ WF_acVars(BundleAges)

-----------------------------------------------------------------------------
(* Properties.                                                             *)

Conditions == {"none", "true", "false"}

\* Every object has the fields its controllers write, the queues hold each card once,
\* and a card being worked on by a controller still has that controller's finalizer.
CardTypeOK ==
  /\ \A c \in Cards :
       /\ cards[c].st \in {"absent", "live", "deleting"}
       /\ cards[c].fins \subseteq {"card", "np"}
       /\ {cards[c].synced, cards[c].verified, cards[c].ready, cards[c].bound}
            \subseteq Conditions
       /\ cards[c].st = "absent" => cards[c] = NoCard
       /\ cards[c].st = "deleting" => cards[c].fins # {}
       /\ wl.annos[c] \in Conditions
  /\ wl.st \in {"absent", "agent", "plain"}
  /\ IsInjective(q.ac) /\ IsInjective(q.np)
  /\ ac.pc # "idle" => "card" \in cards[ac.card].fins
  /\ np.pc # "idle" => "np" \in cards[np.card].fins

\* The verified label of the pods says what the annotations of the cards add up to: all
\* true, and at least one.  Several cards, cleanups and failures write annotations
\* (patchLabelAndAnnotation, cleanupPerCardAnnotation).
LabelIsAggregate ==
  wl.label <=> /\ \E c \in Cards : wl.annos[c] = "true"
               /\ \A c \in Cards : wl.annos[c] # "false"

\* The state is well typed, and an annotation on the workload belongs to a card that
\* exists, unless the write that should have removed it failed: deleting a card must not
\* leave its vote behind (Reconcile's deletion branch runs the cleanup before the
\* finalizer goes).
AnnotationHasCard ==
  /\ CardTypeOK
  /\ \A c \in Cards : wl.annos[c] # "none" => Exists(c) \/ c \in leaked

\* When the NetworkPolicy controller has nothing left to do, the policy of an agent is
\* the one of its card's Verified condition, selects the pods by the labels they have
\* now, and is owned by the card.  Events of cards, workloads and policies, failures
\* and crashes come in between (SetupWithManager's watches).  Cards that share the
\* workload never get there: each takes the policy from the other.
PolicyCaughtUp ==
  \A c \in Cards :
    (/\ mode.enforce /\ np.pc = "idle" /\ q.np = <<>>
     /\ cards[c].st = "live" /\ Here(c) /\ wl.st = "agent")
    => pol = IF cards[c].verified = "true" THEN PermissivePolicy(c, HasTemplate /\ wl.label)
             ELSE RestrictivePolicy(c, HasTemplate /\ wl.label)

\* The leaf leads to a root by at most three certificates, each issued by the next.
HasPath(chain, roots) ==
  \E n \in 1 .. 3 : \E path \in [1 .. n -> Range(chain)] :
    /\ path[1] = chain[1] /\ path[n].issuer \in roots
    /\ \A i \in 1 .. n - 1 : path[i].issuer = path[i + 1].subject

\* A signature of doc that proves identity id: its own key made it over this document
\* and this header, and its leaf, with the one SPIFFE identity id, chains to a root.
Proves(doc, roots, id) ==
  \E s \in Range(doc.sigs) :
    /\ s.x5c # <<>> /\ Len(s.x5c) <= 3
    /\ s.value.key = s.x5c[1].key
    /\ s.value.input = [alg |-> s.alg, x5c |-> s.x5c, payload |-> CreateCanonicalCardJSON(doc)]
    /\ s.alg \in SupportedAlgorithms /\ AlgorithmFitsKey(s.alg, s.x5c[1].key)
    /\ {u \in s.x5c[1].uris : u.scheme = "spiffe"} = {id}
    /\ HasPath(s.x5c, roots)

\* The identities that the certificates of a document name, and the roots that have been
\* published.
Identities(doc) == UNION {UNION {c.uris : c \in Range(s.x5c)} : s \in Range(doc.sigs)}
Published == UNION {RootsAt(i) : i \in 1 .. tb.stage}

\* A card is found verified only on evidence: a peer of the trust domain served it over
\* mTLS, or a signature over this very content chains to a root that was published,
\* and names an identity of the trust domain when the binding is strict
\* (evaluateTrust; the content, the bundle and the workload change meanwhile).
TrustEarned ==
  (ac.pc = "status" /\ IsVerified) =>
    \/ mode.mtls /\ ac.peer.domain = TrustDomain
    \/ /\ mode.sig
       /\ \E id \in Identities(ac.doc) :
            /\ Proves(ac.doc, Published, id)
            /\ cards[ac.card].bind = "strict" => id.domain = TrustDomain /\ id.path # ""

\* A deleted card goes away in the end, unless the admission check was passed by two
\* cards of one workload (both finalizers are removed by updates it checks).
CardDeletionCompletes == []<>(shared \/ \A c \in Cards : cards[c].st # "deleting")

\* What the label of a workload should become: the card it has is fetched, and by mTLS
\* or signature found to be trusted.
Settled(c) ==
  /\ cards[c].st = "live" /\ Here(c) /\ ~shared /\ leaked = {}
  /\ ~NotFetchable(c) /\ Fetched.kind = "doc" /\ HasTemplate
  /\ mode.sig \/ mode.mtls

Trusted(c) ==
  \/ AuthenticatedFetch
  \/ /\ mode.sig
     /\ LET vr == VerifySignature(Fetched.doc, RootsAt(tb.stage))
        IN vr.verified /\ (cards[c].bind = "strict" => ComputeBinding(vr.id, TrustDomain))

\* Once the agent, the workload and the cards stop changing, the label of the pods tells
\* whether the agent's card is trusted.  Nothing else retries a lost update: the
\* periodic requeue of Reconcile must do it, after failures and crashes too.
TrustConverges == <>[](\A c \in Cards : Settled(c) => (wl.label <=> Trusted(c)))

\* A leaf that nears its expiry is replaced in the end: the card is signed again by
\* restarted pods (maybeRestartForResign), unless the signer's last write to its
\* ConfigMap failed, which hides the new leaf.
LeafReplaced == []<>(svid.due < svid.exp \/ src.cm # src.current)
=============================================================================
