-------------------------- MODULE RegistrationProofs --------------------------
(***************************************************************************)
(* Proofs about the Keycloak bootstrap and client registration, for any    *)
(* number of operator instances, workloads, edits, failures and restarts.  *)
(* The bootstrap's specification is that of the bootstrap among other      *)
(* components, which leave its variables alone but spend faults.           *)
(***************************************************************************)
EXTENDS AgentPods, FiniteSetTheorems, TLAPS

\* A leaf that names no prover is one for Zenon.
USE Zenon

-----------------------------------------------------------------------------
(* The bootstrap.                                                          *)

BootstrapInit ==
    \E ns \in {NewNamespace, OldNamespace, ProvidedKeycloak}, spent \in 0..MaxFaults :
        InitBootstrap(ns, spent)

BootstrapNext ==
    \/ \E o \in Operators : BootstrapStep(o) \/ BootstrapFails(o) \/ BootstrapRestarts(o)
    \/ RouterAssignsHost
    \/ KeycloakComesUp

BootstrapSpec == BootstrapInit /\ [][BootstrapNext]_<<boot, kc, fresh>>

(* The steps of the runnable from the one after each object exists.        *)
Done == {"complete"}
FromUsers == {"users", "newUsers", "import"} \cup Done
FromPoll == {"poll"} \cup FromUsers
FromRoute == {"route", "newRoute"} \cup FromPoll
FromCR == {"cr"} \cup FromRoute
FromService == {"svc"} \cup FromCR
FromStatefulSet == {"sts"} \cup FromService
FromInit == {"init"} \cup FromStatefulSet
Steps == {"off", "ended", "db"} \cup FromInit

BootstrapTypeOK ==
    /\ boot \in [Operators -> [pc : Steps, pw : Nat, polls : Nat]]
    /\ kc \in [ns : BOOLEAN, db : Nat, init : {"absent", "old", "current"}, sts : BOOLEAN,
               svc : BOOLEAN, cr : BOOLEAN, route : {"absent", "noHost", "host"},
               users : Nat, imp : Nat, admin : BOOLEAN]
    /\ fresh \in Nat

(* What the step an instance is at says of the namespace, the passwords it *)
(* is about to import included.                                            *)
StepOK(o) ==
    /\ boot[o].pc \in FromInit => kc.db # None
    /\ boot[o].pc \in FromStatefulSet => kc.init = "current"
    /\ boot[o].pc \in FromService => kc.sts
    /\ boot[o].pc \in FromCR => kc.svc
    /\ boot[o].pc \in FromRoute => kc.cr
    /\ boot[o].pc \in FromPoll => kc.route # "absent"
    /\ boot[o].pc = "import" => kc.users # None /\ boot[o].pw = kc.users
    /\ boot[o].pc \in Done => kc.imp # None

BootstrapInv ==
    /\ BootstrapTypeOK
    /\ \A o \in Operators : StepOK(o)
    /\ kc.imp # None => kc.imp = kc.users /\ kc.cr /\ kc.svc /\ kc.sts /\ kc.db # None

(* Nothing the bootstrap has made is taken away or given new passwords.    *)
Grows ==
    /\ kc.db # None => kc'.db # None
    /\ kc.init = "current" => kc'.init = "current"
    /\ kc.sts => kc'.sts
    /\ kc.svc => kc'.svc
    /\ kc.cr => kc'.cr
    /\ kc.route # "absent" => kc'.route # "absent"
    /\ kc.users # None => kc'.users = kc.users
    /\ kc.imp # None => kc'.imp # None

\* The invariant holds before the operator starts.
LEMMA BootstrapInvInit == BootstrapInit => BootstrapInv
<1> SUFFICES ASSUME NEW ns \in {NewNamespace, OldNamespace, ProvidedKeycloak},
                    NEW spent \in 0..MaxFaults, InitBootstrap(ns, spent)
             PROVE  BootstrapInv
  BY DEF BootstrapInit
<1> USE DEF None
<1>1. BootstrapTypeOK
  <2>1. kc \in [ns : BOOLEAN, db : Nat, init : {"absent", "old", "current"}, sts : BOOLEAN,
                svc : BOOLEAN, cr : BOOLEAN, route : {"absent", "noHost", "host"},
                users : Nat, imp : Nat, admin : BOOLEAN]
    <3>1. CASE ns = NewNamespace
      BY <3>1 DEF InitBootstrap, NewNamespace
    <3>2. CASE ns = OldNamespace
      BY <3>2 DEF InitBootstrap, OldNamespace
    <3>3. CASE ns = ProvidedKeycloak
      BY <3>3 DEF InitBootstrap, ProvidedKeycloak, NewNamespace
    <3>4. QED
      BY <3>1, <3>2, <3>3
  <2>2. QED
    BY <2>1 DEF InitBootstrap, NotStarted, BootstrapTypeOK, Steps
<1>2. \A o \in Operators : boot[o].pc \in {"off", "ended"}
  BY DEF InitBootstrap, NotStarted
<1>3. \A o \in Operators : StepOK(o)
  BY <1>2 DEF StepOK, FromInit, FromStatefulSet, FromService, FromCR, FromRoute, FromPoll,
     FromUsers, Done
<1>4. kc.imp # None => kc.imp = kc.users /\ kc.cr /\ kc.svc /\ kc.sts /\ kc.db # None
  <2>1. CASE ns = OldNamespace
    BY <2>1 DEF InitBootstrap, OldNamespace
  <2>2. CASE ns = NewNamespace
    BY <2>2 DEF InitBootstrap, NewNamespace
  <2>3. CASE ns = ProvidedKeycloak
    BY <2>3 DEF InitBootstrap, ProvidedKeycloak, NewNamespace
  <2>4. QED
    BY <2>1, <2>2, <2>3
<1>5. QED
  BY <1>1, <1>3, <1>4 DEF BootstrapInv

(* An instance that does not move keeps its place as the namespace grows.  *)
LEMMA Bystander ==
  ASSUME BootstrapInv, Grows, NEW o \in Operators, boot'[o] = boot[o]
  PROVE  StepOK(o)'
  BY DEF BootstrapInv, StepOK, Grows

\* An import that is there has the passwords, and a complete Keycloak around it.
LEMMA Imported ==
  ASSUME BootstrapInv, Grows, NEW o \in Operators,
         kc'.imp = kc.imp \/ (kc'.imp = kc.users /\ boot[o].pc = "import")
  PROVE  (kc.imp # None => kc.imp = kc.users /\ kc.cr /\ kc.svc /\ kc.sts /\ kc.db # None)'
<1> SUFFICES ASSUME kc'.imp # None
             PROVE  kc'.imp = kc'.users /\ kc'.cr /\ kc'.svc /\ kc'.sts /\ kc'.db # None
  OBVIOUS
<1>1. kc'.imp = kc.users /\ kc.users # None /\ kc.cr /\ kc.svc /\ kc.sts /\ kc.db # None
  <2>1. CASE kc'.imp = kc.imp
    BY <2>1 DEF BootstrapInv
  <2>2. CASE kc'.imp = kc.users /\ boot[o].pc = "import"
    <3>1. /\ "import" \in FromInit /\ "import" \in FromService /\ "import" \in FromCR
          /\ "import" \in FromRoute
      BY DEF FromInit, FromStatefulSet, FromService, FromCR, FromRoute, FromPoll, FromUsers
    <3> QED
      BY <2>2, <3>1 DEF BootstrapInv, StepOK
  <2> QED
    BY <2>1, <2>2
<1> QED
  BY <1>1 DEF Grows

(* Every step of an instance keeps the types and lets the namespace grow;  *)
(* the instance that takes it is at a step whose objects exist.            *)
LEMMA InstanceStep ==
  ASSUME BootstrapInv, NEW o \in Operators,
         BootstrapStep(o) \/ BootstrapFails(o) \/ BootstrapRestarts(o)
  PROVE  BootstrapInv'
<1> USE DEF FromInit, FromStatefulSet, FromService, FromCR, FromRoute, FromPoll, FromUsers,
            Done, Steps, None
<1>t. BootstrapTypeOK /\ StepOK(o)
  BY DEF BootstrapInv
<1>s. SUFFICES /\ BootstrapTypeOK' /\ Grows /\ StepOK(o)'
               /\ \A p \in Operators \ {o} : boot'[p] = boot[p]
               /\ kc'.imp = kc.imp \/ (kc'.imp = kc.users /\ boot[o].pc = "import")
  <2> SUFFICES ASSUME BootstrapTypeOK', Grows, StepOK(o)',
                      \A p \in Operators \ {o} : boot'[p] = boot[p],
                      kc'.imp = kc.imp \/ (kc'.imp = kc.users /\ boot[o].pc = "import")
               PROVE  BootstrapInv'
    OBVIOUS
  <2>1. \A p \in Operators : StepOK(p)'
    BY Bystander
  <2>2. (kc.imp # None => kc.imp = kc.users /\ kc.cr /\ kc.svc /\ kc.sts /\ kc.db # None)'
    BY Imported
  <2> QED
    BY <2>1, <2>2 DEF BootstrapInv
<1>1. CASE Start(o)
  BY <1>t, <1>1, SMT DEF Start, Goto, BootstrapTypeOK, StepOK, Grows
<1>2. CASE EnsureDBSecret(o)
  BY <1>t, <1>2, SMT DEF EnsureDBSecret, Goto, BootstrapTypeOK, StepOK, Grows
<1>3. CASE EnsureInitConfigMap(o)
  BY <1>t, <1>3, SMT DEF EnsureInitConfigMap, Goto, BootstrapTypeOK, StepOK, Grows
<1>4. CASE EnsureStatefulSet(o)
  BY <1>t, <1>4, ZenonT(40) DEF EnsureStatefulSet, Goto, BootstrapTypeOK, StepOK, Grows
<1>5. CASE EnsureService(o)
  BY <1>t, <1>5, ZenonT(40) DEF EnsureService, Goto, BootstrapTypeOK, StepOK, Grows
<1>6. CASE EnsureKeycloakCR(o)
  BY <1>t, <1>6, ZenonT(40) DEF EnsureKeycloakCR, Goto, BootstrapTypeOK, StepOK, Grows
<1>7. CASE ReadRoute(o)
  BY <1>t, <1>7, SMT DEF ReadRoute, AfterRoute, Goto, BootstrapTypeOK, StepOK, Grows
<1>8. CASE CreateRoute(o)
  BY <1>t, <1>8, SMT DEF CreateRoute, AfterRoute, Goto, BootstrapTypeOK, StepOK, Grows
<1>9. CASE DiscoverPublicURL(o)
  BY <1>t, <1>9, SMT DEF DiscoverPublicURL, Goto, BootstrapTypeOK, StepOK, Grows
<1>10. CASE ReadTestUsers(o)
  BY <1>t, <1>10, SMT DEF ReadTestUsers, Goto, BootstrapTypeOK, StepOK, Grows
<1>11. CASE CreateTestUsers(o)
  <2>1. CASE kc.users = None
    <3>1. /\ boot[o].pc = "newUsers" /\ fresh' = fresh + 1
          /\ kc' = [kc EXCEPT !.users = fresh']
          /\ boot' = [boot EXCEPT ![o] = [@ EXCEPT !.pw = fresh', !.pc = "import"]]
      BY <1>t, <1>11, <2>1 DEF CreateTestUsers, BootstrapTypeOK
    <3>2. fresh' \in Nat \ {0}
      BY <1>t, <3>1, SMT DEF BootstrapTypeOK
    <3>3. BootstrapTypeOK'
      <4>1. boot' \in [Operators -> [pc : Steps, pw : Nat, polls : Nat]]
        <5> HIDE DEF Steps
        <5>1. boot[o] \in [pc : Steps, pw : Nat, polls : Nat] /\ "import" \in Steps
          BY <1>t DEF BootstrapTypeOK, Steps
        <5>2. [boot[o] EXCEPT !.pw = fresh', !.pc = "import"] \in [pc : Steps, pw : Nat, polls : Nat]
          BY <3>2, <5>1
        <5>3. QED
          BY <1>t, <3>1, <5>2 DEF BootstrapTypeOK
      <4>2. kc' \in [ns : BOOLEAN, db : Nat, init : {"absent", "old", "current"}, sts : BOOLEAN,
                     svc : BOOLEAN, cr : BOOLEAN, route : {"absent", "noHost", "host"},
                     users : Nat, imp : Nat, admin : BOOLEAN]
        BY <1>t, <3>1, <3>2 DEF BootstrapTypeOK
      <4>3. QED
        BY <3>2, <4>1, <4>2 DEF BootstrapTypeOK
    <3>4. StepOK(o)' /\ Grows /\ kc'.imp = kc.imp
      BY <1>t, <2>1, <3>1, <3>2, SMT DEF BootstrapTypeOK, StepOK, Grows
    <3>5. QED
      BY <1>t, <3>1, <3>3, <3>4 DEF BootstrapTypeOK
  <2>2. CASE kc.users # None
    BY <1>t, <1>11, <2>2, SMT DEF CreateTestUsers, Goto, BootstrapTypeOK, StepOK, Grows
  <2>3. QED
    BY <2>1, <2>2
<1>12. CASE EnsureRealmImport(o)
  BY <1>t, <1>12, SMT DEF EnsureRealmImport, Goto, BootstrapTypeOK, StepOK, Grows
<1>13. CASE BootstrapFails(o)
  BY <1>t, <1>13, SMT DEF BootstrapFails, Goto, BootstrapTypeOK, StepOK, Grows
<1>14. CASE BootstrapRestarts(o)
  BY <1>t, <1>14, SMT DEF BootstrapRestarts, NotStarted, BootstrapTypeOK, StepOK, Grows
<1>15. QED
  BY <1>1, <1>2, <1>3, <1>4, <1>5, <1>6, <1>7, <1>8, <1>9, <1>10, <1>11, <1>12, <1>13, <1>14
     DEF BootstrapStep

\* Every step keeps the invariant.
LEMMA BootstrapInvStep ==
  BootstrapInv /\ [BootstrapNext]_<<boot, kc, fresh>> => BootstrapInv'
<1> SUFFICES ASSUME BootstrapInv, [BootstrapNext]_<<boot, kc, fresh>> PROVE BootstrapInv'
  OBVIOUS
<1>1. CASE RouterAssignsHost
  <2>1. Grows /\ boot' = boot /\ BootstrapTypeOK' /\ kc'.imp = kc.imp
    BY <1>1 DEF RouterAssignsHost, Grows, BootstrapInv, BootstrapTypeOK
  <2>2. QED
    BY <2>1, Bystander DEF BootstrapInv, Grows
<1>2. CASE KeycloakComesUp
  <2>1. Grows /\ boot' = boot /\ BootstrapTypeOK' /\ kc'.imp = kc.imp
    BY <1>2 DEF KeycloakComesUp, Grows, BootstrapInv, BootstrapTypeOK
  <2>2. kc.imp # None => kc'.imp = kc'.users
    BY <1>2 DEF KeycloakComesUp, BootstrapInv, BootstrapTypeOK
  <2>3. QED
    BY <2>1, <2>2, Bystander DEF BootstrapInv, Grows
<1>3. CASE UNCHANGED <<boot, kc, fresh>>
  BY <1>3, SMT DEF BootstrapInv, BootstrapTypeOK, StepOK
<1>4. QED
  BY <1>1, <1>2, <1>3, InstanceStep DEF BootstrapNext

(* The realm carries the passwords of the test-users Secret, is imported   *)
(* after the Keycloak resource, and a completed bootstrap left nothing     *)
(* out, for any number of instances and however they fail and restart.     *)
THEOREM BootstrapSound == BootstrapSpec => []ImportMatchesSecret
<1>1. BootstrapInv => ImportMatchesSecret
  BY DEF BootstrapInv, StepOK, ImportMatchesSecret, Done, FromUsers, FromPoll, FromRoute,
     FromCR, FromService, FromStatefulSet
<1>2. QED
  BY BootstrapInvInit, BootstrapInvStep, <1>1, PTL DEF BootstrapSpec

-----------------------------------------------------------------------------
(* Client registration: the invariant.                                     *)

WorkloadFields == {"st", "type", "anno"}
SecretFields == {"owner", "id", "secret"}
ReconcileFields == {"pc", "n", "kind", "gone", "conf", "id", "tok", "uuid", "secret"}

WorkloadsOK ==
    /\ wl = [k \in KindSet |-> wl[k]]
    /\ \A k \in KindSet : wl[k] = [n \in Names |-> wl[k][n]]
    /\ \A k \in KindSet, n \in Names : IsRecord(wl[k][n], WorkloadFields)

SecretsOK ==
    /\ secrets = [n \in Names |-> secrets[n]]
    /\ \A n \in Names : /\ IsRecord(secrets[n], SecretFields)
                        /\ secrets[n].owner \in KindSet \cup {"none", "gone"}

\* A queue holds each name once.
QueueOK(q) == q \in Seq(Names) /\ IsInjective(q)

ReconcileOK(r) ==
    /\ IsRecord(r, ReconcileFields)
    /\ r.pc # "idle"
    /\ r.n \in Names /\ r.kind \in KindSet /\ r.id \in ClientIDs

\* The reconcile works on the workload of its name, unless that has changed: then another
\* one follows, or the change was not to be seen.  It annotates the workload when the
\* Secret is the workload's.
Current(r) ==
    /\ r.n \in Range(queue) \cup unseen \/ (KindFor(r.n) = r.kind /\ ~r.gone)
    /\ r.pc = "patch" /\ ~r.gone => secrets[r.n].owner = r.kind

Resolved(n) == Due(n) /\ wl[KindFor(n)][n].anno => secrets[n].owner = KindFor(n) \/ Pending(n)

RegistrationTypeOK ==
    /\ setup \in Setups
    /\ WorkloadsOK /\ SecretsOK
    /\ QueueOK(queue)
    /\ unseen \subseteq Names /\ unlucky \subseteq Names
    /\ rec = Idle \/ ReconcileOK(rec)

RegistrationInv ==
    /\ RegistrationTypeOK
    /\ rec = Idle \/ Current(rec)
    /\ \A n \in Names : Resolved(n)

-----------------------------------------------------------------------------
(* The queue.                                                              *)

\* The range of a sequence, by its indices.
LEMMA RangeSeq ==
  ASSUME NEW S, NEW s \in Seq(S)
  PROVE  /\ Len(s) \in Nat /\ DOMAIN s = 1..Len(s)
         /\ Range(s) = {s[i] : i \in 1..Len(s)}
         /\ Range(s) \subseteq S
<1>1. Len(s) \in Nat /\ DOMAIN s = 1..Len(s) /\ \A i \in 1..Len(s) : s[i] \in S
  BY SMT
<1> QED
  BY <1>1 DEF Range

\* A name that is not queued goes to the end.
LEMMA AppendFacts ==
  ASSUME NEW q, QueueOK(q), NEW n \in Names, n \notin Range(q)
  PROVE  QueueOK(Append(q, n)) /\ Range(Append(q, n)) = Range(q) \cup {n}
<1> DEFINE r == Append(q, n)
           m == Len(q)
<1>1. q \in Seq(Names)
  BY DEF QueueOK
<1>2. m \in Nat /\ DOMAIN q = 1..m /\ Range(q) = {q[i] : i \in 1..m}
  BY <1>1, RangeSeq
<1>3. r \in Seq(Names) /\ Len(r) = m + 1 /\ r[m + 1] = n /\ \A i \in 1..m : r[i] = q[i]
  BY <1>1, SMT
<1>4. DOMAIN r = 1..(m + 1) /\ Range(r) = {r[i] : i \in 1..(m + 1)}
  <2>1. DOMAIN r = 1..Len(r) /\ Range(r) = {r[i] : i \in 1..Len(r)}
    BY <1>3, RangeSeq
  <2> QED
    BY <1>3, <2>1
<1>5. \A i, j \in 1..m : q[i] = q[j] => i = j
  BY <1>2 DEF QueueOK, IsInjective
<1> HIDE DEF r, m
<1>6. \A i \in 1..(m + 1) : i \in 1..m \/ i = m + 1
  BY <1>2, SMT
<1>7. m + 1 \in 1..(m + 1) /\ \A i \in 1..m : i \in 1..(m + 1)
  BY <1>2, SMT
<1>8. \A i \in 1..m : q[i] # n
  BY <1>2
<1>9. IsInjective(r)
  BY <1>3, <1>4, <1>5, <1>6, <1>8 DEF IsInjective
<1>10. ASSUME NEW x \in Range(r) PROVE x \in Range(q) \cup {n}
  BY <1>2, <1>3, <1>4, <1>6
<1>11. ASSUME NEW x \in Range(q) \cup {n} PROVE x \in Range(r)
  BY <1>2, <1>3, <1>4, <1>7
<1> QED
  BY <1>3, <1>9, <1>10, <1>11 DEF QueueOK, r

\* Enqueue adds a name.
LEMMA EnqueueFacts ==
  ASSUME NEW q, QueueOK(q), NEW n \in Names
  PROVE  QueueOK(Enqueue(q, n)) /\ Range(Enqueue(q, n)) = Range(q) \cup {n}
  BY AppendFacts DEF Enqueue

\* The first name of a queue, and the rest.
LEMMA TailFacts ==
  ASSUME NEW q, QueueOK(q), q # <<>>
  PROVE  /\ Head(q) \in Names /\ QueueOK(Tail(q)) /\ Range(Tail(q)) = Range(q) \ {Head(q)}
         /\ QueueOK(Append(Tail(q), Head(q))) /\ Range(Append(Tail(q), Head(q))) = Range(q)
<1> DEFINE h == Head(q)
           t == Tail(q)
           n == Len(q)
<1>1. q \in Seq(Names)
  BY DEF QueueOK
<1>2. h \in Names /\ t \in Seq(Names) /\ h = q[1] /\ n \in Nat /\ n >= 1
  BY <1>1, SMT
<1>3. Len(t) = n - 1 /\ \A i \in 1..(n - 1) : t[i] = q[i + 1]
  BY <1>1, <1>2, SMT
<1>4. DOMAIN q = 1..n /\ Range(q) = {q[i] : i \in 1..n}
  BY <1>1, RangeSeq
<1>5. DOMAIN t = 1..(n - 1) /\ Range(t) = {t[i] : i \in 1..(n - 1)}
  <2>1. DOMAIN t = 1..Len(t) /\ Range(t) = {t[i] : i \in 1..Len(t)}
    BY <1>2, RangeSeq
  <2> QED
    BY <1>3, <2>1
<1>6. \A i, j \in 1..n : q[i] = q[j] => i = j
  BY <1>4 DEF QueueOK, IsInjective
<1> HIDE DEF h, t, n
<1>7. 1 \in 1..n /\ \A i \in 1..(n - 1) : i + 1 \in 1..n /\ i + 1 # 1
  BY <1>2, SMT
<1>8. \A i \in 1..n : i = 1 \/ (i - 1 \in 1..(n - 1) /\ (i - 1) + 1 = i)
  BY <1>2, SMT
<1>9. IsInjective(t)
  <2> SUFFICES ASSUME NEW i \in 1..(n - 1), NEW j \in 1..(n - 1), t[i] = t[j] PROVE i = j
    BY <1>5 DEF IsInjective
  <2>1. i + 1 = j + 1
    BY <1>3, <1>6, <1>7
  <2> QED
    BY <1>2, <2>1, SMT
<1>10. ASSUME NEW x \in Range(t) PROVE x \in Range(q) \ {h}
  <2>1. PICK i \in 1..(n - 1) : x = t[i]
    BY <1>5
  <2>2. x = q[i + 1] /\ i + 1 \in 1..n /\ i + 1 # 1
    BY <1>3, <1>7, <2>1
  <2> QED
    BY <1>2, <1>4, <1>6, <1>7, <2>2
<1>11. ASSUME NEW x \in Range(q), x # h PROVE x \in Range(t)
  <2>1. PICK i \in 1..n : x = q[i]
    BY <1>4
  <2>2. i - 1 \in 1..(n - 1) /\ (i - 1) + 1 = i
    BY <1>2, <1>8, <1>11, <2>1
  <2>3. x = t[i - 1]
    BY <1>3, <2>1, <2>2
  <2> QED
    BY <1>5, <2>2, <2>3
<1>12. Range(t) = Range(q) \ {h} /\ h \in Range(q)
  BY <1>2, <1>4, <1>7, <1>10, <1>11
<1>13. QueueOK(t)
  BY <1>2, <1>9 DEF QueueOK
<1>14. QueueOK(Append(t, h)) /\ Range(Append(t, h)) = Range(t) \cup {h}
  BY <1>2, <1>12, <1>13, AppendFacts
<1>15. Range(t) \cup {h} = Range(q)
  BY <1>12
<1> QED
  BY <1>2, <1>12, <1>13, <1>14, <1>15 DEF h, t

\* The names that a restarted operator queues.
LEMMA ListedFacts ==
  /\ QueueOK(Listed)
  /\ Range(Listed) = {n \in Names : \E k \in KindSet : Watched(wl[k][n])}
<1> DEFINE all == {n \in Names : \E k \in KindSet : Watched(wl[k][n])}
           m == Cardinality(all)
           t == CHOOSE s \in Bijection(1..m, all) : TRUE
<1>1. IsFiniteSet(all)
  BY FS_Subset, RegistrationAssumption
<1>2. m \in Nat /\ Bijection(1..m, all) # {}
  BY <1>1, FS_CardinalityType DEF ExistsBijection
<1>3. t \in Bijection(1..m, all)
  BY <1>2
<1>4. Listed = t
  BY DEF Listed
<1> HIDE DEF t, m
<1>5. t \in [1..m -> all] /\ IsInjective(t) /\ \A d \in all : \E i \in 1..m : t[i] = d
  BY <1>3 DEF Bijection, Injection, Surjection
<1>6. Range(t) = all
  BY <1>5 DEF Range
<1>7. t \in [1..m -> Names]
  BY <1>5
<1>8. t \in Seq(Names)
  BY <1>2, <1>7, SMT
<1> QED
  BY <1>4, <1>5, <1>6, <1>8 DEF QueueOK

-----------------------------------------------------------------------------
(* The workload of a name.                                                 *)

\* The least of some numbers is one of them.
LEMMA MinIn ==
  ASSUME NEW S \in SUBSET Nat, S # {}
  PROVE  Min(S) \in S
<1>1. PICK x \in S : \A y \in S : ~(<<y, x>> \in OpToRel(<, Nat))
  BY NatLessThanWellFounded, WFMin
<1>2. \A y \in S : ~(y < x)
  BY <1>1 DEF OpToRel
<1>3. \A y \in S : x <= y
  BY <1>2, SMT
<1> QED
  BY <1>3 DEF Min

\* The first kind that has an object of the name is a kind, and has one.
LEMMA KindFound ==
  ASSUME NEW n, KindsOf(n) # {}
  PROVE  KindFor(n) \in KindSet /\ wl[KindFor(n)][n].st
<1>1. DOMAIN Kinds \subseteq Nat
  BY RegistrationAssumption, SMT
<1>2. KindsOf(n) \in SUBSET Nat
  BY <1>1 DEF KindsOf
<1>3. Min(KindsOf(n)) \in KindsOf(n)
  BY <1>2, MinIn
<1> QED
  BY <1>3 DEF KindsOf, KindFor, KindSet, Range

\* It depends on the objects of the name alone.
LEMMA KindKept ==
  ASSUME NEW n, \A k \in KindSet : wl'[k][n].st = wl[k][n].st
  PROVE  KindsOf(n)' = KindsOf(n) /\ KindFor(n)' = KindFor(n)
<1>1. \A i \in DOMAIN Kinds : Kinds[i] \in KindSet
  BY DEF KindSet, Range
<1>2. KindsOf(n)' = KindsOf(n)
  BY <1>1 DEF KindsOf
<1> QED
  BY <1>2 DEF KindFor

\* A name that is due is listed after a restart.
LEMMA DueListed ==
  ASSUME NEW n \in Names, Due(n)
  PROVE  n \in Range(Listed)
<1>1. KindFor(n) \in KindSet /\ Wanted(wl[KindFor(n)][n])
  BY KindFound DEF Due
<1>2. Watched(wl[KindFor(n)][n])
  BY <1>1 DEF Wanted, Watched, WorkloadWantsOperatorClientReg
<1> QED
  BY <1>1, <1>2, ListedFacts

\* A step elsewhere does not make a name due.
LEMMA DueBefore ==
  ASSUME NEW n \in Names, gates' = gates, \A k \in KindSet : wl'[k][n] = wl[k][n],
         n \in unseen => n \in unseen', Due(n)'
  PROVE  /\ Due(n)
         /\ KindFor(n)' = KindFor(n)
         /\ wl'[KindFor(n)][n] = wl[KindFor(n)][n]
<1>1. KindsOf(n)' = KindsOf(n) /\ KindFor(n)' = KindFor(n)
  BY KindKept
<1>2. KindsOf(n) # {} /\ KindFor(n) \in KindSet
  BY <1>1, KindFound DEF Due
<1>3. wl'[KindFor(n)][n] = wl[KindFor(n)][n]
  BY <1>2
<1>4. Wanted(wl[KindFor(n)][n])
  BY <1>1, <1>3 DEF Due, Wanted
<1>5. GateOpen(gates) /\ n \notin unseen
  BY DEF Due
<1> QED
  BY <1>1, <1>2, <1>3, <1>4, <1>5 DEF Due

\* ... nor a reference dangling.
LEMMA ResolvedKept ==
  ASSUME NEW n \in Names, Resolved(n), gates' = gates, \A k \in KindSet : wl'[k][n] = wl[k][n],
         n \in unseen => n \in unseen', secrets'[n].owner = secrets[n].owner,
         Pending(n) => Pending(n)'
  PROVE  Resolved(n)'
<1> SUFFICES ASSUME Due(n)', wl'[KindFor(n)'][n].anno
             PROVE  secrets'[n].owner = KindFor(n)' \/ Pending(n)'
  BY DEF Resolved
<1>1. Due(n) /\ KindFor(n)' = KindFor(n) /\ wl'[KindFor(n)][n] = wl[KindFor(n)][n]
  BY DueBefore
<1>2. secrets[n].owner = KindFor(n) \/ Pending(n)
  BY <1>1 DEF Resolved
<1> QED
  BY <1>1, <1>2

-----------------------------------------------------------------------------
(* Steps of a reconcile before it writes to the cluster.                   *)

Advances ==
    /\ UNCHANGED queue
    /\ ReconcileOK(rec')
    /\ rec'.n = rec.n /\ rec'.kind = rec.kind /\ rec'.gone = rec.gone
    /\ rec'.pc # "patch" \/ rec'.pc = rec.pc

ClusterKept == UNCHANGED <<setup, gates, wl, secrets, unseen>>

\* What the state of a reconcile in progress is.
LEMMA AtWork ==
  ASSUME RegistrationTypeOK, NEW pc, At(pc), pc # "idle"
  PROVE  rec # Idle /\ ReconcileOK(rec)
<1>1. Idle.pc = "idle"
  BY DEF Idle
<1> QED
  BY <1>1 DEF RegistrationTypeOK, At

\* A reconcile goes on, or ends and is tried again.
LEMMA Passing ==
  ASSUME RegistrationInv, ReconcileOK(rec), rec # Idle, ClusterKept, unlucky' \subseteq Names,
         Requeue \/ Advances
  PROVE  RegistrationInv'
<1>1. /\ RegistrationTypeOK /\ Current(rec)
      /\ \A n \in Names : Resolved(n)
  BY DEF RegistrationInv
<1>2. rec.n \in Names /\ QueueOK(queue) /\ ~At("idle")
  BY <1>1 DEF ReconcileOK, RegistrationTypeOK, At
<1>3. WorkloadsOK' /\ SecretsOK' /\ setup' \in Setups /\ unseen' \subseteq Names
  BY <1>1 DEF RegistrationTypeOK, ClusterKept, WorkloadsOK, SecretsOK
<1>4. gates' = gates /\ wl' = wl /\ secrets' = secrets /\ unseen' = unseen
  BY DEF ClusterKept
<1>5. CASE Requeue
  <2>1. QueueOK(queue') /\ Range(queue') = Range(queue) \cup {rec.n} /\ rec' = Idle
    BY <1>2, <1>5, EnqueueFacts DEF Requeue
  <2>2. \A n \in Names : Pending(n) => Pending(n)'
    BY <2>1 DEF Pending
  <2>3. \A n \in Names : Resolved(n)'
    BY <1>1, <1>4, <2>2, ResolvedKept
  <2> QED
    BY <1>3, <2>1, <2>3 DEF RegistrationInv, RegistrationTypeOK
<1>6. CASE Advances
  <2>1. queue' = queue /\ rec'.n = rec.n /\ rec'.pc # "idle"
    BY <1>6 DEF Advances, ReconcileOK
  <2>2. \A n \in Names : Pending(n) => Pending(n)'
    BY <2>1 DEF Pending, At
  <2>3. \A n \in Names : Resolved(n)'
    BY <1>1, <1>4, <2>2, ResolvedKept
  <2>4. Current(rec)'
    BY <1>1, <1>4, <1>6, <2>1 DEF Current, Advances, KindFor, KindsOf
  <2> QED
    BY <1>2, <1>3, <1>6, <2>1, <2>3, <2>4 DEF RegistrationInv, RegistrationTypeOK, Advances
<1> QED
  BY <1>5, <1>6

\* The writes to the state of a reconcile.
LEMMA ReconcileSet ==
  ASSUME ReconcileOK(rec), NEW p, p # "idle", NEW v,
         \/ rec' = [rec EXCEPT !.pc = p]
         \/ rec' = [rec EXCEPT !.pc = p, !.tok = v]
         \/ rec' = [rec EXCEPT !.pc = p, !.uuid = v]
         \/ rec' = [rec EXCEPT !.pc = p, !.secret = v]
  PROVE  /\ ReconcileOK(rec')
         /\ rec'.n = rec.n /\ rec'.kind = rec.kind /\ rec'.gone = rec.gone /\ rec'.pc = p
<1> USE DEF ReconcileOK, IsRecord, ReconcileFields
<1>1. CASE rec' = [rec EXCEPT !.pc = p]
  BY <1>1
<1>2. CASE rec' = [rec EXCEPT !.pc = p, !.tok = v]
  BY <1>2
<1>3. CASE rec' = [rec EXCEPT !.pc = p, !.uuid = v]
  BY <1>3
<1>4. CASE rec' = [rec EXCEPT !.pc = p, !.secret = v]
  BY <1>4
<1> QED
  BY <1>1, <1>2, <1>3, <1>4

\* ... are steps of it.
LEMMA Advancing ==
  ASSUME ReconcileOK(rec), UNCHANGED queue, NEW p, p \notin {"idle", "patch"}, NEW v,
         \/ rec' = [rec EXCEPT !.pc = p]
         \/ rec' = [rec EXCEPT !.pc = p, !.tok = v]
         \/ rec' = [rec EXCEPT !.pc = p, !.uuid = v]
         \/ rec' = [rec EXCEPT !.pc = p, !.secret = v]
  PROVE  Advances
<1>1. p # "idle"
  OBVIOUS
<1>2. /\ ReconcileOK(rec')
      /\ rec'.n = rec.n /\ rec'.kind = rec.kind /\ rec'.gone = rec.gone /\ rec'.pc = p
  BY <1>1, ReconcileSet
<1> QED
  BY <1>2 DEF Advances

\* Going on to another request.
LEMMA Continuing ==
  ASSUME ReconcileOK(rec), NEW p, p \notin {"idle", "patch"}, Continue(p)
  PROVE  Advances
  BY Advancing DEF Continue

\* Losing the audience scope.
LEMMA GivingUp ==
  ASSUME RegistrationTypeOK, ReconcileOK(rec), GiveUpAudience
  PROVE  Advances /\ unlucky' \subseteq Names
  BY Continuing DEF GiveUpAudience, RegistrationTypeOK, ReconcileOK

\* Requests for a token.
LEMMA TokenSteps ==
  ASSUME RegistrationInv, PasswordToken \/ SpiffeToken
  PROVE  RegistrationInv'
<1>1. RegistrationTypeOK /\ unlucky \subseteq Names
  BY DEF RegistrationInv, RegistrationTypeOK
<1>2. rec # Idle /\ ReconcileOK(rec)
  BY <1>1, AtWork DEF PasswordToken, SpiffeToken
<1>3. ClusterKept /\ unlucky' \subseteq Names
  BY <1>1 DEF PasswordToken, SpiffeToken, ClusterKept
<1>4. ASSUME NEW t, UseToken(t) PROVE Advances
  BY <1>2, <1>4, Advancing DEF UseToken
<1>5. Requeue \/ Advances
  BY <1>4 DEF PasswordToken, SpiffeToken
<1> QED
  BY <1>2, <1>3, <1>5, Passing

\* Requests about the client.
LEMMA ClientSteps ==
  ASSUME RegistrationInv,
         FindClient \/ CreateClient \/ ReconcileExistingClient \/ ReadClientSecret
  PROVE  RegistrationInv'
<1>1. RegistrationTypeOK /\ unlucky \subseteq Names
  BY DEF RegistrationInv, RegistrationTypeOK
<1>2. rec # Idle /\ ReconcileOK(rec)
  BY <1>1, AtWork DEF FindClient, CreateClient, ReconcileExistingClient, ReadClientSecret
<1>3. ClusterKept /\ unlucky' \subseteq Names
  BY <1>1 DEF FindClient, CreateClient, ReconcileExistingClient, ReadClientSecret,
     OutsideKeycloak, ClusterKept
<1>4. Requeue \/ Advances
  <2>1. CASE FindClient
    BY <1>2, <2>1, Advancing DEF FindClient
  <2>2. CASE CreateClient
    BY <1>2, <2>2, Advancing DEF CreateClient, Fails
  <2>3. CASE ReconcileExistingClient
    BY <1>2, <2>3, Continuing DEF ReconcileExistingClient, Fails
  <2>4. CASE ReadClientSecret
    BY <1>2, <2>4, Advancing DEF ReadClientSecret
  <2> QED
    BY <2>1, <2>2, <2>3, <2>4
<1> QED
  BY <1>2, <1>3, <1>4, Passing

\* Requests about the audience scope.
LEMMA ScopeSteps ==
  ASSUME RegistrationInv,
         FindScope \/ CreateScope \/ AddMapper \/ VerifyMapper \/ CreateMapper \/ AttachScope
  PROVE  RegistrationInv'
<1>1. RegistrationTypeOK /\ unlucky \subseteq Names
  BY DEF RegistrationInv, RegistrationTypeOK
<1>2. rec # Idle /\ ReconcileOK(rec) /\ rec.n \in Names
  <2>1. \/ At("scope") \/ At("newScope") \/ At("mapper") \/ At("verify") \/ At("remap")
        \/ At("attach")
    BY DEF FindScope, CreateScope, AddMapper, VerifyMapper, CreateMapper, AttachScope
  <2> QED
    BY <1>1, <2>1, AtWork DEF ReconcileOK
<1>3. ClusterKept
  BY DEF FindScope, CreateScope, AddMapper, VerifyMapper, CreateMapper, AttachScope,
     OutsideKeycloak, ClusterKept
<1>4. Advances /\ unlucky' \subseteq Names
  <2>1. CASE FindScope
    BY <1>1, <1>2, <2>1, Continuing, GivingUp DEF FindScope
  <2>2. CASE CreateScope
    BY <1>1, <1>2, <2>2, Continuing, GivingUp DEF CreateScope, ScopeFails
  <2>3. CASE AddMapper
    BY <1>1, <1>2, <2>3, Continuing DEF AddMapper
  <2>4. CASE VerifyMapper
    BY <1>1, <1>2, <2>4, Continuing, GivingUp DEF VerifyMapper, ScopeFails
  <2>5. CASE CreateMapper
    BY <1>1, <1>2, <2>5, Continuing, GivingUp DEF CreateMapper, ScopeFails
  <2>6. CASE AttachScope
    BY <1>1, <1>2, <2>6, Continuing DEF AttachScope
  <2> QED
    BY <2>1, <2>2, <2>3, <2>4, <2>5, <2>6
<1> QED
  BY <1>2, <1>3, <1>4, Passing

-----------------------------------------------------------------------------
(* The other steps of a reconcile.                                         *)

\* An idle worker has no reconcile.
LEMMA AtRest ==
  ASSUME RegistrationTypeOK, At("idle")
  PROVE  rec = Idle
  BY DEF RegistrationTypeOK, ReconcileOK, At

\* A client id that is derived is one of the workloads'.
LEMMA ClientIDFound ==
  ASSUME NEW n \in Names, ResolveKeycloakClientID(n) # NoClientID
  PROVE  ResolveKeycloakClientID(n) \in ClientIDs
  BY DEF ResolveKeycloakClientID, ClientIDs

\* A reconcile begins with the workload of its name.
LEMMA BeginStep ==
  ASSUME RegistrationInv, BeginReconcile
  PROVE  RegistrationInv'
<1>1. RegistrationTypeOK /\ At("idle") /\ queue # <<>> /\ \A m \in Names : Resolved(m)
  BY DEF RegistrationInv, BeginReconcile
<1>2. rec = Idle
  BY <1>1, AtRest
<1>h. PICK n \in Names : n = Head(queue)
  BY <1>1, TailFacts DEF RegistrationTypeOK
<1>i. PICK id : id = ResolveKeycloakClientID(n)
  OBVIOUS
<1> DEFINE wanted == GateOpen(gates) /\ KindsOf(n) # {} /\ Wanted(wl[KindFor(n)][n])
           started == [pc |-> "token", n |-> n, kind |-> KindFor(n), gone |-> FALSE,
                       conf |-> ParseConfig(conf), id |-> id, tok |-> "none", uuid |-> None,
                       secret |-> None]
<1>3. /\ QueueOK(Tail(queue)) /\ Range(Tail(queue)) = Range(queue) \ {n}
      /\ QueueOK(Append(Tail(queue), n)) /\ Range(Append(Tail(queue), n)) = Range(queue)
  BY <1>1, <1>h, TailFacts DEF RegistrationTypeOK
<1>4. n \in Range(queue)
  <2>1. queue \in Seq(Names) /\ queue # <<>>
    BY <1>1 DEF RegistrationTypeOK, QueueOK
  <2>2. 1 \in DOMAIN queue /\ n = queue[1]
    BY <1>h, <2>1, SMT
  <2> QED
    BY <2>2 DEF Range
<1>5. /\ unseen' = unseen \ {n} /\ unlucky' = unlucky \ {n}
      /\ UNCHANGED <<setup, gates, conf, wl, secrets>>
  BY <1>h DEF BeginReconcile
<1>6. /\ WorkloadsOK' /\ SecretsOK' /\ setup' \in Setups
      /\ unseen' \subseteq Names /\ unlucky' \subseteq Names
  BY <1>1, <1>5 DEF RegistrationTypeOK, WorkloadsOK, SecretsOK
<1>7. \/ queue' = Append(Tail(queue), n) /\ rec' = rec
      \/ ~wanted /\ queue' = Tail(queue) /\ rec' = rec
      \/ wanted /\ id # NoClientID /\ queue' = Tail(queue) /\ rec' = started
  BY <1>h, <1>i DEF BeginReconcile
<1>8. ASSUME NEW m \in Names, m # n PROVE Resolved(m)'
  <2>1. m \in Range(queue) => m \in Range(queue')
    BY <1>3, <1>7, <1>8
  <2>2. Pending(m) => Pending(m)'
    BY <1>1, <2>1 DEF Pending
  <2>3. m \in unseen => m \in unseen'
    BY <1>5, <1>8
  <2> QED
    BY <1>1, <1>5, <2>2, <2>3, ResolvedKept
<1>9. CASE queue' = Append(Tail(queue), n) /\ rec' = rec
  <2>1. Resolved(n)'
    BY <1>3, <1>4, <1>9 DEF Resolved, Pending
  <2> QED
    BY <1>2, <1>3, <1>6, <1>8, <1>9, <2>1 DEF RegistrationInv, RegistrationTypeOK
<1>10. CASE ~wanted /\ queue' = Tail(queue) /\ rec' = rec
  <2>1. KindsOf(n)' = KindsOf(n) /\ KindFor(n)' = KindFor(n)
    BY <1>5, KindKept
  <2>2. ~Due(n)'
    BY <1>5, <1>10, <2>1 DEF Due, Wanted
  <2>3. Resolved(n)'
    BY <2>2 DEF Resolved
  <2> QED
    BY <1>2, <1>3, <1>6, <1>8, <1>10, <2>3 DEF RegistrationInv, RegistrationTypeOK
<1>11. CASE wanted /\ id # NoClientID /\ queue' = Tail(queue) /\ rec' = started
  <2>1. KindFor(n) \in KindSet /\ id \in ClientIDs /\ KindFor(n)' = KindFor(n)
    BY <1>5, <1>i, <1>11, KindFound, KindKept, ClientIDFound
  <2>2. /\ IsRecord(rec', ReconcileFields)
        /\ rec'.pc = "token" /\ rec'.n = n /\ rec'.kind = KindFor(n) /\ rec'.gone = FALSE
        /\ rec'.id = id
    BY <1>11 DEF IsRecord, ReconcileFields
  <2>3. ReconcileOK(rec')
    BY <2>1, <2>2 DEF ReconcileOK
  <2>4. KindFor(rec.n)' = KindFor(n)'
    BY <2>2 DEF KindFor, KindsOf
  <2>5. Current(rec)'
    BY <2>1, <2>2, <2>4 DEF Current
  <2>6. Resolved(n)'
    BY <2>2 DEF Resolved, Pending, At
  <2> QED
    BY <1>3, <1>6, <1>8, <1>11, <2>3, <2>5, <2>6 DEF RegistrationInv, RegistrationTypeOK
<1> QED
  BY <1>7, <1>9, <1>10, <1>11

\* The Secret that is written is the workload's.
LEMMA CredentialsFacts ==
  ASSUME ReconcileOK(rec)
  PROVE  /\ IsRecord(Credentials, SecretFields)
         /\ Credentials.owner \in KindSet \cup {"gone"}
         /\ ~rec.gone => Credentials.owner = rec.kind
<1>1. Credentials.owner = OwnerRef
  BY DEF Credentials
<1>2. IsRecord(Credentials, SecretFields)
  BY DEF Credentials, IsRecord, SecretFields
<1> QED
  BY <1>1, <1>2 DEF OwnerRef, ReconcileOK

\* The step that writes the Secret changes no other one.
LEMMA SecretWritten ==
  ASSUME SecretsOK, ReconcileOK(rec),
         secrets' = secrets \/ secrets' = [secrets EXCEPT ![rec.n] = Credentials]
  PROVE  /\ SecretsOK'
         /\ \A m \in Names : m # rec.n => secrets'[m] = secrets[m]
<1>1. CASE secrets' = secrets
  BY <1>1 DEF SecretsOK
<1>2. CASE secrets' = [secrets EXCEPT ![rec.n] = Credentials]
  <2>1. rec.n \in Names
    BY DEF ReconcileOK
  <2>2. secrets = [n \in Names |-> secrets[n]]
    BY DEF SecretsOK
  <2>3. /\ secrets' = [m \in Names |-> secrets'[m]]
        /\ secrets'[rec.n] = Credentials
        /\ \A m \in Names : m # rec.n => secrets'[m] = secrets[m]
    BY <1>2, <2>1, <2>2
  <2>4. ASSUME NEW m \in Names
        PROVE  /\ IsRecord(secrets'[m], SecretFields)
               /\ secrets'[m].owner \in KindSet \cup {"none", "gone"}
    BY <2>3, CredentialsFacts DEF SecretsOK
  <2> QED
    BY <2>3, <2>4 DEF SecretsOK
<1> QED
  BY <1>1, <1>2

\* The reconcile annotates the workload after it has written the Secret.
LEMMA SecretStep ==
  ASSUME RegistrationInv, EnsureSecret
  PROVE  RegistrationInv'
<1>1. RegistrationTypeOK /\ \A m \in Names : Resolved(m)
  BY DEF RegistrationInv
<1>2. rec # Idle /\ ReconcileOK(rec)
  BY <1>1, AtWork DEF EnsureSecret
<1>n. PICK n \in Names : n = rec.n
  BY <1>2 DEF ReconcileOK
<1>3. Current(rec) /\ QueueOK(queue)
  BY <1>1, <1>2 DEF RegistrationInv, RegistrationTypeOK
<1>4. /\ setup' = setup /\ gates' = gates /\ wl' = wl /\ unseen' = unseen /\ unlucky' = unlucky
      /\ \/ Continue("patch") /\ secrets' = [secrets EXCEPT ![rec.n] = Credentials]
         \/ Requeue /\ (secrets' = secrets \/ secrets' = [secrets EXCEPT ![rec.n] = Credentials])
  BY DEF EnsureSecret, OnlySecret
<1>5. SecretsOK' /\ \A m \in Names : m # n => secrets'[m] = secrets[m]
  BY <1>1, <1>2, <1>4, <1>n, SecretWritten DEF RegistrationTypeOK
<1>6. WorkloadsOK' /\ setup' \in Setups /\ unseen' \subseteq Names /\ unlucky' \subseteq Names
  BY <1>1, <1>4 DEF RegistrationTypeOK, WorkloadsOK
<1>7. ASSUME Range(queue) \subseteq Range(queue'), Pending(n)'
      PROVE  \A m \in Names : Resolved(m)'
  <2>1. ASSUME NEW m \in Names, m # n PROVE Resolved(m)'
    <3>1. Pending(m) => Pending(m)'
      BY <1>7, <1>n, <2>1 DEF Pending
    <3> QED
      BY <1>1, <1>4, <1>5, <2>1, <3>1, ResolvedKept
  <2>2. Resolved(n)'
    BY <1>7 DEF Resolved
  <2> QED
    BY <2>1, <2>2
<1>8. CASE Requeue
  <2>1. QueueOK(queue') /\ Range(queue') = Range(queue) \cup {n} /\ rec' = Idle
    BY <1>3, <1>8, <1>n, EnqueueFacts DEF Requeue
  <2>2. \A m \in Names : Resolved(m)'
    BY <1>7, <2>1 DEF Pending
  <2> QED
    BY <1>5, <1>6, <2>1, <2>2 DEF RegistrationInv, RegistrationTypeOK
<1>9. CASE Continue("patch") /\ secrets' = [secrets EXCEPT ![rec.n] = Credentials]
  <2>1. queue' = queue /\ rec' = [rec EXCEPT !.pc = "patch"]
    BY <1>9 DEF Continue
  <2>2. /\ ReconcileOK(rec') /\ rec'.n = n /\ rec'.kind = rec.kind /\ rec'.gone = rec.gone
        /\ rec'.pc = "patch"
    BY <1>2, <1>n, <2>1, ReconcileSet
  <2>3. \A m \in Names : Resolved(m)'
    BY <1>7, <2>1, <2>2 DEF Pending, At
  <2>4. secrets'[n] = Credentials
    BY <1>1, <1>9, <1>n DEF RegistrationTypeOK, SecretsOK
  <2>5. ~rec.gone => secrets'[n].owner = rec.kind
    BY <1>2, <2>4, CredentialsFacts
  <2>6. Current(rec)'
    BY <1>3, <1>4, <1>n, <2>1, <2>2, <2>5 DEF Current, KindFor, KindsOf
  <2> QED
    BY <1>3, <1>5, <1>6, <2>1, <2>2, <2>3, <2>6 DEF RegistrationInv, RegistrationTypeOK
<1> QED
  BY <1>4, <1>8, <1>9

\* A write to an object of one kind and name.
Writes(k, n, w) == wl' = [wl EXCEPT ![k][n] = w]

\* ... leaves the others alone, whatever it writes.
LEMMA WorkloadSet ==
  ASSUME WorkloadsOK, NEW k \in KindSet, NEW n \in Names, NEW w, IsRecord(w, WorkloadFields),
         Writes(k, n, w)
  PROVE  /\ WorkloadsOK'
         /\ wl'[k][n] = w
         /\ \A j \in KindSet, m \in Names : <<j, m>> # <<k, n>> => wl'[j][m] = wl[j][m]
<1>1. /\ wl = [j \in KindSet |-> wl[j]]
      /\ \A j \in KindSet : wl[j] = [m \in Names |-> wl[j][m]]
  BY DEF WorkloadsOK
<1>2. /\ wl' = [j \in KindSet |-> wl'[j]]
      /\ wl'[k] = [wl[k] EXCEPT ![n] = w]
      /\ \A j \in KindSet : j # k => wl'[j] = wl[j]
  BY <1>1 DEF Writes
<1>3. /\ wl'[k] = [m \in Names |-> wl'[k][m]]
      /\ wl'[k][n] = w
      /\ \A m \in Names : m # n => wl'[k][m] = wl[k][m]
  BY <1>1, <1>2
<1>4. \A j \in KindSet, m \in Names : <<j, m>> # <<k, n>> => wl'[j][m] = wl[j][m]
  BY <1>2, <1>3
<1>5. ASSUME NEW j \in KindSet PROVE wl'[j] = [m \in Names |-> wl'[j][m]]
  <2>1. CASE j = k
    BY <1>3, <2>1
  <2>2. CASE j # k
    <3>1. wl'[j] = wl[j] /\ wl[j] = [m \in Names |-> wl[j][m]]
      BY <1>1, <1>2, <2>2
    <3> QED
      BY <3>1
  <2> QED
    BY <2>1, <2>2
<1>6. ASSUME NEW j \in KindSet, NEW m \in Names PROVE IsRecord(wl'[j][m], WorkloadFields)
  BY <1>3, <1>4 DEF WorkloadsOK
<1> QED
  BY <1>2, <1>3, <1>4, <1>5, <1>6 DEF WorkloadsOK

\* The annotation is a write to the object of the reconcile.
LEMMA AnnotatedFacts ==
  ASSUME WorkloadsOK, ReconcileOK(rec), wl' = wl \/ wl' = Annotated
  PROVE  /\ WorkloadsOK'
         /\ \A j \in KindSet, m \in Names : m # rec.n => wl'[j][m] = wl[j][m]
         /\ \A j \in KindSet, m \in Names : wl'[j][m].st = wl[j][m].st
<1>k. PICK k \in KindSet, n \in Names : k = rec.kind /\ n = rec.n
  BY DEF ReconcileOK
<1>1. CASE wl' = wl
  BY <1>1 DEF WorkloadsOK
<1>2. CASE wl' = Annotated
  <2>1. PICK w : w = [wl[k][n] EXCEPT !.anno = TRUE]
    OBVIOUS
  <2>2. Writes(k, n, w)
    BY <1>2, <1>k, <2>1 DEF Annotated, Writes
  <2>3. IsRecord(w, WorkloadFields) /\ w.st = wl[k][n].st
    <3>1. IsRecord(wl[k][n], WorkloadFields)
      BY DEF WorkloadsOK
    <3> QED
      BY <2>1, <3>1 DEF IsRecord, WorkloadFields
  <2>4. /\ WorkloadsOK' /\ wl'[k][n] = w
        /\ \A j \in KindSet, m \in Names : <<j, m>> # <<k, n>> => wl'[j][m] = wl[j][m]
    BY <2>2, <2>3, WorkloadSet
  <2> QED
    BY <1>k, <2>3, <2>4
<1> QED
  BY <1>1, <1>2

\* A reconcile ends with the Secret written for the workload, or is followed by another.
LEMMA PatchStep ==
  ASSUME RegistrationInv, PatchTemplate
  PROVE  RegistrationInv'
<1>1. RegistrationTypeOK /\ \A m \in Names : Resolved(m)
  BY DEF RegistrationInv
<1>2. rec # Idle /\ ReconcileOK(rec) /\ rec.pc = "patch"
  BY <1>1, AtWork DEF PatchTemplate, At
<1>n. PICK n \in Names : n = rec.n
  BY <1>2 DEF ReconcileOK
<1>3. Current(rec) /\ QueueOK(queue)
  BY <1>1, <1>2 DEF RegistrationInv, RegistrationTypeOK
<1>4. /\ setup' = setup /\ gates' = gates /\ secrets' = secrets
      /\ unseen' = unseen /\ unlucky' = unlucky /\ rec' = Idle
      /\ wl' = wl \/ wl' = Annotated
      /\ queue' = queue \/ queue' = Enqueue(queue, rec.n)
  BY DEF PatchTemplate, Requeue
<1>5. /\ QueueOK(queue') /\ Range(queue) \subseteq Range(queue')
      /\ n \in Range(queue') \/ queue' = queue
  <2>1. QueueOK(Enqueue(queue, n)) /\ Range(Enqueue(queue, n)) = Range(queue) \cup {n}
    BY <1>3, EnqueueFacts
  <2> QED
    BY <1>3, <1>4, <1>n, <2>1
<1>6. /\ WorkloadsOK'
      /\ \A j \in KindSet, m \in Names : m # n => wl'[j][m] = wl[j][m]
      /\ \A j \in KindSet, m \in Names : wl'[j][m].st = wl[j][m].st
  BY <1>1, <1>2, <1>4, <1>n, AnnotatedFacts DEF RegistrationTypeOK
<1>7. SecretsOK' /\ setup' \in Setups /\ unseen' \subseteq Names /\ unlucky' \subseteq Names
  BY <1>1, <1>4 DEF RegistrationTypeOK, SecretsOK
<1>8. ASSUME NEW m \in Names, m # n PROVE Resolved(m)'
  <2>1. Pending(m) => Pending(m)'
    BY <1>5, <1>8, <1>n DEF Pending
  <2> QED
    BY <1>1, <1>4, <1>6, <1>8, <2>1, ResolvedKept
<1>9. Resolved(n)'
  <2>1. KindFor(n)' = KindFor(n)
    BY <1>6, KindKept
  <2>2. CASE n \in Range(queue')
    BY <2>2 DEF Resolved, Pending
  <2>3. CASE n \in unseen
    BY <1>4, <2>3 DEF Resolved, Due
  <2>4. CASE KindFor(n) = rec.kind /\ ~rec.gone
    BY <1>2, <1>3, <1>4, <1>n, <2>1, <2>4 DEF Resolved, Current
  <2> QED
    BY <1>3, <1>5, <1>n, <2>2, <2>3, <2>4 DEF Current
<1> QED
  BY <1>4, <1>5, <1>6, <1>7, <1>8, <1>9 DEF RegistrationInv, RegistrationTypeOK

\* The steps of the worker.
LEMMA WorkerSteps ==
  ASSUME RegistrationInv, WorkerStep
  PROVE  RegistrationInv'
  BY BeginStep, TokenSteps, ClientSteps, ScopeSteps, SecretStep, PatchStep DEF WorkerStep

-----------------------------------------------------------------------------
(* The steps of others.                                                    *)

\* A change of a workload is queued, or not to be seen.
LEMMA EventFacts ==
  ASSUME RegistrationTypeOK, NEW n \in Names, NEW w, Event(n, w)
  PROVE  /\ QueueOK(queue') /\ Range(queue) \subseteq Range(queue')
         /\ unseen \subseteq unseen' /\ unseen' \subseteq Names
         /\ n \in Range(queue') \cup unseen'
<1>1. QueueOK(queue) /\ unseen \subseteq Names
  BY DEF RegistrationTypeOK
<1>2. QueueOK(Enqueue(queue, n)) /\ Range(Enqueue(queue, n)) = Range(queue) \cup {n}
  BY <1>1, EnqueueFacts
<1> QED
  BY <1>1, <1>2 DEF Event

\* The reconcile in progress after a change of a workload: it may have lost the workload.
Follows(k, n) ==
    \/ rec' = rec
    \/ /\ rec # Idle /\ rec.n = n /\ rec.kind = k
       /\ ReconcileOK(rec')
       /\ rec'.n = rec.n /\ rec'.pc = rec.pc /\ rec'.gone = TRUE

\* A change of a workload keeps the invariant.
LEMMA WorkloadChanged ==
  ASSUME RegistrationInv, NEW k \in KindSet, NEW n \in Names, NEW w, Event(n, w),
         UNCHANGED <<setup, gates, unlucky>>, WorkloadsOK', SecretsOK',
         \A j \in KindSet, m \in Names : <<j, m>> # <<k, n>> => wl'[j][m] = wl[j][m],
         \A m \in Names : m # n => secrets'[m] = secrets[m],
         secrets'[n].owner = secrets[n].owner
           \/ (secrets[n].owner = k /\ (rec # Idle /\ rec.n = n /\ rec.kind = k => rec'.gone)),
         Follows(k, n)
  PROVE  RegistrationInv'
<1>1. RegistrationTypeOK /\ \A m \in Names : Resolved(m)
  BY DEF RegistrationInv
<1>2. /\ QueueOK(queue') /\ Range(queue) \subseteq Range(queue')
      /\ unseen \subseteq unseen' /\ unseen' \subseteq Names
      /\ n \in Range(queue') \cup unseen'
  BY <1>1, EventFacts
<1>3. rec' = Idle \/ ReconcileOK(rec')
  BY <1>1 DEF RegistrationTypeOK, Follows
<1>4. (rec' = Idle <=> rec = Idle) /\ (rec # Idle => rec'.n = rec.n /\ rec'.pc = rec.pc)
  <2>1. CASE rec' = rec
    BY <2>1
  <2>2. CASE rec' # rec
    <3>1. rec # Idle /\ ReconcileOK(rec') /\ rec'.n = rec.n /\ rec'.pc = rec.pc
      BY <2>2 DEF Follows
    <3>2. Idle.pc = "idle" /\ rec'.pc # "idle"
      BY <3>1 DEF Idle, ReconcileOK
    <3> QED
      BY <3>1, <3>2
  <2> QED
    BY <2>1, <2>2
<1>5. ASSUME NEW m \in Names, m # n PROVE Resolved(m)'
  <2>1. Pending(m) => Pending(m)'
    BY <1>1, <1>2, <1>4 DEF Pending, At, RegistrationTypeOK, ReconcileOK, Idle
  <2> QED
    BY <1>1, <1>2, <1>5, <2>1, ResolvedKept
<1>6. Resolved(n)'
  BY <1>2 DEF Resolved, Due, Pending
<1>7. ASSUME rec # Idle PROVE Current(rec)'
  <2>1. Current(rec) /\ ReconcileOK(rec) /\ rec.n \in Names
    BY <1>1, <1>7 DEF RegistrationInv, RegistrationTypeOK, ReconcileOK
  <2>2. CASE rec.n # n
    <3>1. rec' = rec /\ secrets'[rec.n] = secrets[rec.n]
      BY <2>1, <2>2 DEF Follows
    <3>2. KindFor(rec.n)' = KindFor(rec.n)
      <4>1. PICK m \in Names : m = rec.n
        BY <2>1
      <4>2. KindFor(m)' = KindFor(m)
        BY <2>2, <4>1, KindKept
      <4>3. m = rec'.n
        BY <3>1, <4>1
      <4> QED
        BY <4>1, <4>2, <4>3
    <3> QED
      BY <1>2, <2>1, <3>1, <3>2 DEF Current
  <2>3. CASE rec.n = n
    <3>1. rec'.n \in Range(queue') \cup unseen'
      BY <1>2, <1>4, <1>7, <2>3
    <3>2. ASSUME rec'.pc = "patch", ~rec'.gone PROVE secrets'[rec'.n].owner = rec'.kind
      <4>1. rec' = rec
        BY <3>2 DEF Follows
      <4>2. secrets[n].owner = rec.kind
        BY <2>1, <2>3, <3>2, <4>1 DEF Current
      <4> QED
        BY <1>7, <2>3, <3>2, <4>1, <4>2
    <3> QED
      BY <3>1, <3>2 DEF Current
  <2> QED
    BY <2>2, <2>3
<1> QED
  BY <1>1, <1>2, <1>3, <1>4, <1>5, <1>6, <1>7 DEF RegistrationInv, RegistrationTypeOK

\* A user creates or relabels a workload.
LEMMA WorkloadEdited ==
  ASSUME RegistrationInv, NEW k \in KindSet, NEW n \in Names, NEW t,
         CreateWorkload(k, n, t) \/ RelabelWorkload(k, n, t), UNCHANGED <<setup, gates, unlucky>>
  PROVE  RegistrationInv'
<1>1. WorkloadsOK /\ SecretsOK
  BY DEF RegistrationInv, RegistrationTypeOK
<1>2. secrets' = secrets /\ rec' = rec
  BY DEF CreateWorkload, RelabelWorkload
<1>3. PICK w, v : Writes(k, n, w) /\ IsRecord(w, WorkloadFields) /\ Event(n, v)
  <2>1. CASE CreateWorkload(k, n, t)
    <3>1. PICK w : w = [st |-> TRUE, type |-> t, anno |-> FALSE]
      OBVIOUS
    <3>2. Writes(k, n, w) /\ Event(n, w)
      BY <2>1, <3>1 DEF CreateWorkload, Writes
    <3>3. IsRecord(w, WorkloadFields)
      BY <3>1 DEF IsRecord, WorkloadFields
    <3> QED
      BY <3>2, <3>3
  <2>2. CASE RelabelWorkload(k, n, t)
    <3>1. PICK w : w = [wl[k][n] EXCEPT !.type = t]
      OBVIOUS
    <3>2. Writes(k, n, w)
      BY <2>2, <3>1 DEF RelabelWorkload, Writes
    <3>3. IsRecord(wl[k][n], WorkloadFields)
      BY <1>1 DEF WorkloadsOK
    <3>4. IsRecord(w, WorkloadFields)
      BY <3>1, <3>3 DEF IsRecord, WorkloadFields
    <3> QED
      BY <2>2, <3>2, <3>4 DEF RelabelWorkload
  <2> QED
    BY <2>1, <2>2
<1>4. /\ WorkloadsOK'
      /\ \A j \in KindSet, m \in Names : <<j, m>> # <<k, n>> => wl'[j][m] = wl[j][m]
  BY <1>1, <1>3, WorkloadSet
<1>5. SecretsOK' /\ Follows(k, n)
  BY <1>1, <1>2 DEF SecretsOK, Follows
<1> QED
  BY <1>2, <1>3, <1>4, <1>5, WorkloadChanged

\* What the Secrets are after a workload is deleted.
LEMMA Orphaned ==
  ASSUME SecretsOK, NEW k \in KindSet, NEW n \in Names,
         secrets' = [secrets EXCEPT ![n].owner = IF @ = k THEN "gone" ELSE @]
  PROVE  /\ SecretsOK'
         /\ \A m \in Names : m # n => secrets'[m] = secrets[m]
         /\ secrets'[n].owner = secrets[n].owner
              \/ (secrets[n].owner = k /\ secrets'[n].owner = "gone")
<1>1. secrets = [m \in Names |-> secrets[m]] /\ IsRecord(secrets[n], SecretFields)
  BY DEF SecretsOK
<1>2. PICK o : o = IF secrets[n].owner = k THEN "gone" ELSE secrets[n].owner
  OBVIOUS
<1>3. PICK s : s = [secrets[n] EXCEPT !.owner = o]
  OBVIOUS
<1>4. secrets' = [secrets EXCEPT ![n] = s]
  BY <1>2, <1>3
<1>5. /\ secrets' = [m \in Names |-> secrets'[m]]
      /\ secrets'[n] = s
      /\ \A m \in Names : m # n => secrets'[m] = secrets[m]
  BY <1>1, <1>4
<1>6. IsRecord(s, SecretFields) /\ s.owner = o
  BY <1>1, <1>3 DEF IsRecord, SecretFields
<1>7. o \in KindSet \cup {"none", "gone"}
  BY <1>2 DEF SecretsOK
<1>8. ASSUME NEW m \in Names
      PROVE  /\ IsRecord(secrets'[m], SecretFields)
             /\ secrets'[m].owner \in KindSet \cup {"none", "gone"}
  BY <1>5, <1>6, <1>7 DEF SecretsOK
<1> QED
  BY <1>2, <1>5, <1>6, <1>8 DEF SecretsOK

\* A user deletes a workload: its Secret and its reconcile lose their owner.
LEMMA WorkloadDeleted ==
  ASSUME RegistrationInv, NEW k \in KindSet, NEW n \in Names, DeleteWorkload(k, n),
         UNCHANGED <<setup, gates, unlucky>>
  PROVE  RegistrationInv'
<1>1. RegistrationTypeOK /\ WorkloadsOK /\ SecretsOK
  BY DEF RegistrationInv, RegistrationTypeOK
<1>2. /\ SecretsOK'
      /\ \A m \in Names : m # n => secrets'[m] = secrets[m]
      /\ secrets'[n].owner = secrets[n].owner
           \/ (secrets[n].owner = k /\ secrets'[n].owner = "gone")
  BY <1>1, Orphaned DEF DeleteWorkload
<1>3. Writes(k, n, Absent) /\ IsRecord(Absent, WorkloadFields)
  BY DEF DeleteWorkload, Writes, Absent, IsRecord, WorkloadFields
<1>4. /\ WorkloadsOK'
      /\ \A j \in KindSet, m \in Names : <<j, m>> # <<k, n>> => wl'[j][m] = wl[j][m]
  BY <1>1, <1>3, WorkloadSet
<1>5. Follows(k, n) /\ (rec # Idle /\ rec.n = n /\ rec.kind = k => rec'.gone)
  <2>1. CASE rec # Idle /\ rec.n = n /\ rec.kind = k
    <3>1. ReconcileOK(rec) /\ ~At("idle")
      BY <1>1, <2>1 DEF RegistrationTypeOK, ReconcileOK, At
    <3>2. rec' = [rec EXCEPT !.gone = TRUE]
      BY <2>1, <3>1 DEF DeleteWorkload
    <3>3. ReconcileOK(rec') /\ rec'.n = rec.n /\ rec'.pc = rec.pc /\ rec'.gone = TRUE
      BY <3>1, <3>2 DEF ReconcileOK, IsRecord, ReconcileFields
    <3> QED
      BY <2>1, <3>3 DEF Follows
  <2>2. CASE ~(rec # Idle /\ rec.n = n /\ rec.kind = k)
    <3>1. rec = Idle => At("idle")
      <4>1. Idle.pc = "idle"
        BY DEF Idle
      <4> QED
        BY <4>1 DEF At
    <3>2. rec' = rec
      BY <2>2, <3>1 DEF DeleteWorkload
    <3> QED
      BY <2>2, <3>2 DEF Follows
  <2> QED
    BY <2>1, <2>2
<1>6. PICK w : Event(n, w)
  BY DEF DeleteWorkload
<1>7. secrets'[n].owner = secrets[n].owner
        \/ (secrets[n].owner = k /\ (rec # Idle /\ rec.n = n /\ rec.kind = k => rec'.gone))
  BY <1>2, <1>5
<1> QED
  BY <1>2, <1>4, <1>5, <1>6, <1>7, WorkloadChanged

\* Users.
LEMMA UserSteps ==
  ASSUME RegistrationInv, UserStep
  PROVE  RegistrationInv'
<1>1. setup.kinds \subseteq KindSet /\ setup.names \subseteq Names
  BY SetupsAssumption DEF RegistrationInv, RegistrationTypeOK, KindSet
<1>2. UNCHANGED <<setup, gates, unlucky>>
  BY DEF UserStep
<1>3. PICK k \in KindSet, n \in Names :
        \/ \E t \in setup.types : CreateWorkload(k, n, t) \/ RelabelWorkload(k, n, t)
        \/ DeleteWorkload(k, n)
  BY <1>1 DEF UserStep
<1> QED
  BY <1>2, <1>3, WorkloadEdited, WorkloadDeleted

\* A step that leaves the workloads, the Secrets, the queue and the reconcile alone.
LEMMA Elsewhere ==
  ASSUME RegistrationInv, UNCHANGED <<setup, wl, secrets, queue, rec, unlucky>>,
         unseen' = Names \/ (unseen' = unseen /\ gates' = gates)
  PROVE  RegistrationInv'
<1>1. RegistrationTypeOK /\ \A n \in Names : Resolved(n)
  BY DEF RegistrationInv
<1>2. RegistrationTypeOK'
  BY <1>1 DEF RegistrationTypeOK, WorkloadsOK, SecretsOK
<1>3. rec # Idle => Current(rec)'
  <2>1. unseen \subseteq unseen'
    BY <1>1 DEF RegistrationTypeOK
  <2> QED
    BY <2>1 DEF RegistrationInv, Current, KindFor, KindsOf
<1>4. ASSUME NEW n \in Names PROVE Resolved(n)'
  <2>1. CASE unseen' = Names
    BY <2>1 DEF Resolved, Due
  <2>2. CASE unseen' = unseen /\ gates' = gates
    BY <1>1, <2>2, ResolvedKept DEF Pending, At
  <2> QED
    BY <2>1, <2>2
<1> QED
  BY <1>2, <1>3, <1>4 DEF RegistrationInv

\* Changes of the configuration and in Keycloak.
LEMMA ConfigurationSteps ==
  ASSUME RegistrationInv, EditGates \/ EditConfig \/ KeycloakChanges \/ Bootstrapping
  PROVE  RegistrationInv'
<1>1. UNCHANGED <<setup, wl, secrets, queue, rec, unlucky>>
  BY DEF EditGates, EditConfig, KeycloakChanges, Bootstrapping, Unwatched, regVars
<1>2. unseen' = Names \/ (unseen' = unseen /\ gates' = gates)
  BY DEF EditGates, EditConfig, KeycloakChanges, Bootstrapping, Unwatched, regVars
<1> QED
  BY <1>1, <1>2, Elsewhere

\* Time passes.
LEMMA TimeStep ==
  ASSUME RegistrationInv, TokenAges
  PROVE  RegistrationInv'
<1>1. RegistrationTypeOK
  BY DEF RegistrationInv
<1>2. UNCHANGED <<setup, gates, wl, secrets, queue, unseen, unlucky>>
  BY DEF TokenAges
<1>3. CASE At("idle")
  BY <1>2, <1>3, Elsewhere DEF TokenAges
<1>4. CASE ~At("idle")
  <2>1. rec # Idle /\ ReconcileOK(rec)
    <3>1. Idle.pc = "idle"
      BY DEF Idle
    <3> QED
      BY <1>1, <1>4, <3>1 DEF RegistrationTypeOK, At
  <2>2. PICK t : rec' = [rec EXCEPT !.tok = t]
    BY <1>4 DEF TokenAges
  <2>3. /\ ReconcileOK(rec')
        /\ rec'.n = rec.n /\ rec'.kind = rec.kind /\ rec'.gone = rec.gone /\ rec'.pc = rec.pc
    BY <2>1, <2>2 DEF ReconcileOK, IsRecord, ReconcileFields
  <2>4. Advances /\ ClusterKept /\ unlucky' \subseteq Names
    BY <1>1, <1>2, <2>3 DEF Advances, ClusterKept, RegistrationTypeOK
  <2> QED
    BY <2>1, <2>4, Passing
<1> QED
  BY <1>3, <1>4

\* The garbage collector.
LEMMA CollectorStep ==
  ASSUME RegistrationInv, NEW n \in Names, CollectSecret(n)
  PROVE  RegistrationInv'
<1>1. RegistrationTypeOK /\ \A m \in Names : Resolved(m)
  BY DEF RegistrationInv
<1>2. /\ secrets[n].owner = "gone" /\ secrets' = [secrets EXCEPT ![n] = NoSecret]
      /\ setup' = setup /\ gates' = gates /\ wl' = wl /\ queue' = queue /\ rec' = rec
      /\ unseen' = unseen /\ unlucky' = unlucky
  BY DEF CollectSecret
<1>3. "gone" \notin KindSet
  <2>1. Range(Kinds) \subseteq {"Deployment", "StatefulSet", "Sandbox"}
    BY RegistrationAssumption, RangeSeq
  <2> QED
    BY <2>1 DEF KindSet
<1>4. /\ secrets' = [m \in Names |-> secrets'[m]]
      /\ secrets'[n] = NoSecret
      /\ \A m \in Names : m # n => secrets'[m] = secrets[m]
  BY <1>1, <1>2 DEF RegistrationTypeOK, SecretsOK
<1>5. IsRecord(NoSecret, SecretFields) /\ NoSecret.owner = "none"
  BY DEF NoSecret, IsRecord, SecretFields
<1>6. ASSUME NEW m \in Names
      PROVE  /\ IsRecord(secrets'[m], SecretFields)
             /\ secrets'[m].owner \in KindSet \cup {"none", "gone"}
  BY <1>1, <1>4, <1>5 DEF RegistrationTypeOK, SecretsOK
<1>7. RegistrationTypeOK'
  <2>1. WorkloadsOK'
    BY <1>1, <1>2 DEF RegistrationTypeOK, WorkloadsOK
  <2>2. SecretsOK'
    BY <1>4, <1>6 DEF SecretsOK
  <2> QED
    BY <1>1, <1>2, <2>1, <2>2 DEF RegistrationTypeOK
<1>8. rec # Idle => Current(rec)'
  <2>1. ASSUME rec # Idle PROVE Current(rec) /\ rec.n \in Names /\ rec.kind # "gone"
    BY <1>1, <1>3, <2>1 DEF RegistrationInv, RegistrationTypeOK, ReconcileOK
  <2>2. ASSUME rec # Idle, rec.pc = "patch", ~rec.gone PROVE secrets'[rec.n].owner = rec.kind
    <3>1. secrets[rec.n].owner = rec.kind /\ rec.n # n
      BY <1>2, <2>1, <2>2 DEF Current
    <3> QED
      BY <1>4, <2>1, <2>2, <3>1
  <2> QED
    BY <1>2, <2>1, <2>2 DEF Current, KindFor, KindsOf
<1>9. ASSUME NEW m \in Names PROVE Resolved(m)'
  <2>1. Pending(m) => Pending(m)'
    BY <1>2 DEF Pending, At
  <2>2. CASE m # n
    BY <1>1, <1>2, <1>4, <2>1, <2>2, ResolvedKept
  <2>3. CASE m = n
    <3> SUFFICES ASSUME Due(n)', wl'[KindFor(n)'][n].anno PROVE Pending(n)'
      BY <2>3 DEF Resolved
    <3>1. Due(n) /\ KindFor(n)' = KindFor(n) /\ wl'[KindFor(n)][n] = wl[KindFor(n)][n]
      BY <1>2, DueBefore
    <3>2. KindFor(n) \in KindSet
      BY <3>1, KindFound DEF Due
    <3>3. Pending(n)
      BY <1>1, <1>2, <1>3, <3>1, <3>2 DEF Resolved
    <3> QED
      BY <2>1, <2>3, <3>3
  <2> QED
    BY <2>2, <2>3
<1> QED
  BY <1>2, <1>7, <1>8, <1>9 DEF RegistrationInv

\* A restarted operator lists what is due.
LEMMA RestartStep ==
  ASSUME RegistrationInv, NEW o \in Operators, OperatorRestarts(o)
  PROVE  RegistrationInv'
<1>1. RegistrationTypeOK
  BY DEF RegistrationInv
<1>2. /\ rec' = Idle /\ queue' = Listed
      /\ UNCHANGED <<setup, gates, wl, secrets, unseen, unlucky>>
  BY DEF OperatorRestarts
<1>3. QueueOK(queue')
  BY <1>2, ListedFacts
<1>4. WorkloadsOK' /\ SecretsOK'
  BY <1>1, <1>2 DEF RegistrationTypeOK, WorkloadsOK, SecretsOK
<1>5. RegistrationTypeOK'
  BY <1>1, <1>2, <1>3, <1>4 DEF RegistrationTypeOK
<1>6. ASSUME NEW n \in Names PROVE Resolved(n)'
  <2>1. ASSUME Due(n)' PROVE n \in Range(queue')
    <3>1. Due(n)
      BY <1>2, <2>1, DueBefore
    <3> QED
      BY <1>2, <3>1, DueListed
  <2> QED
    BY <2>1 DEF Resolved, Pending
<1> QED
  BY <1>2, <1>5, <1>6 DEF RegistrationInv

-----------------------------------------------------------------------------
(* The theorems about registration.                                        *)

\* The invariant holds in every cluster to start from.
LEMMA RegistrationInvInit == Init => RegistrationInv
<1> SUFFICES ASSUME Init PROVE RegistrationInv
  OBVIOUS
<1>1. /\ setup \in Setups /\ secrets = [n \in Names |-> NoSecret]
      /\ queue = Listed /\ rec = Idle /\ unseen = {} /\ unlucky = {}
      /\ wl = [k \in KindSet |-> [n \in Names |->
                 IF k = Head(Kinds) /\ n \in setup.initial
                   THEN [st |-> TRUE, type |-> "agent", anno |-> FALSE] ELSE Absent]]
  BY DEF Init, InitRegistration
<1>2. WorkloadsOK
  <2>1. /\ IsRecord(Absent, WorkloadFields)
        /\ IsRecord([st |-> TRUE, type |-> "agent", anno |-> FALSE], WorkloadFields)
    BY DEF IsRecord, WorkloadFields, Absent
  <2>2. ASSUME NEW k \in KindSet, NEW n \in Names PROVE IsRecord(wl[k][n], WorkloadFields)
    <3>1. wl[k][n] \in {Absent, [st |-> TRUE, type |-> "agent", anno |-> FALSE]}
      BY <1>1
    <3> QED
      BY <2>1, <3>1
  <2>3. /\ wl = [k \in KindSet |-> wl[k]]
        /\ \A k \in KindSet : wl[k] = [n \in Names |-> wl[k][n]]
    BY <1>1
  <2> QED
    BY <2>2, <2>3 DEF WorkloadsOK
<1>3. SecretsOK
  <2>1. IsRecord(NoSecret, SecretFields) /\ NoSecret.owner = "none"
    BY DEF IsRecord, SecretFields, NoSecret
  <2> QED
    BY <1>1, <2>1 DEF SecretsOK
<1>4. QueueOK(queue)
  BY <1>1, ListedFacts
<1>5. ASSUME NEW n \in Names PROVE Resolved(n)
  BY <1>1, DueListed DEF Resolved, Pending
<1> QED
  BY <1>1, <1>2, <1>3, <1>4, <1>5 DEF RegistrationInv, RegistrationTypeOK

\* Every step keeps the invariant.
LEMMA RegistrationInvStep == RegistrationInv /\ [Next]_crVars => RegistrationInv'
<1> SUFFICES ASSUME RegistrationInv, [Next]_crVars PROVE RegistrationInv'
  OBVIOUS
<1>1. CASE UNCHANGED crVars
  BY <1>1, Elsewhere DEF crVars, regVars
<1>2. CASE Collector
  BY <1>2, CollectorStep DEF Collector
<1> QED
  BY <1>1, <1>2, WorkerSteps, UserSteps, ConfigurationSteps, TimeStep, RestartStep DEF Next

\* ... which the specification therefore has.
LEMMA RegistrationInvariant == CRSpec => []RegistrationInv
  BY RegistrationInvInit, RegistrationInvStep, PTL DEF CRSpec

\* It says what the run checks.
LEMMA RegistrationInvSays == RegistrationInv => ReferencesResolve
<1> SUFFICES ASSUME RegistrationInv PROVE ReferencesResolve
  OBVIOUS
<1>1. RegistrationTypeOK /\ \A n \in Names : Resolved(n)
  BY DEF RegistrationInv
<1>2. IsInjective(queue) /\ Range(queue) \subseteq Names
  BY <1>1, RangeSeq DEF RegistrationTypeOK, QueueOK
<1>3. ~At("idle") => rec.id \in ClientIDs /\ rec.n \in Names /\ rec.kind \in KindSet
  <2>1. Idle.pc = "idle"
    BY DEF Idle
  <2> QED
    BY <1>1, <2>1 DEF RegistrationTypeOK, ReconcileOK, At
<1>4. CRTypeOK
  BY <1>1, <1>2, <1>3 DEF CRTypeOK, RegistrationTypeOK, SecretsOK
<1> QED
  BY <1>1, <1>4 DEF ReferencesResolve, Resolved

(* A reference in a Pod template is to a Secret of the workload, or a      *)
(* reconcile of it is pending, for any workloads and however users, the    *)
(* garbage collector, failures and restarts come between the requests of a *)
(* reconcile.                                                              *)
THEOREM ReferencesSound == CRSpec => []ReferencesResolve
  BY RegistrationInvSays, RegistrationInvariant, PTL

\* What a step may do to a Secret.
NotStolen(n) ==
    secrets'[n] # secrets[n] =>
      \/ secrets[n].owner = "none"
      \/ secrets'[n] = NoSecret
      \/ secrets'[n].owner \in {secrets[n].owner, "gone"}

\* The reconcile writes a Secret that has no owner, or the workload's own.
LEMMA SecretStepHonest ==
  ASSUME RegistrationInv, EnsureSecret, NEW n \in Names
  PROVE  NotStolen(n)
<1>1. RegistrationTypeOK /\ SecretsOK
  BY DEF RegistrationInv, RegistrationTypeOK
<1>2. ReconcileOK(rec)
  BY <1>1, AtWork DEF EnsureSecret
<1>3. \/ secrets' = secrets
      \/ MayOwn /\ secrets' = [secrets EXCEPT ![rec.n] = Credentials]
  BY DEF EnsureSecret
<1>4. CASE secrets' = secrets
  BY <1>4 DEF NotStolen
<1>5. CASE MayOwn /\ secrets' = [secrets EXCEPT ![rec.n] = Credentials]
  <2>1. CASE n # rec.n
    BY <1>1, <1>2, <1>5, <2>1, SecretWritten DEF NotStolen
  <2>2. CASE n = rec.n
    <3>1. secrets'[n] = Credentials
      BY <1>1, <1>5, <2>2 DEF SecretsOK
    <3>2. secrets[n].owner = "none" \/ (secrets[n].owner = rec.kind /\ ~rec.gone)
      BY <1>5, <2>2 DEF MayOwn
    <3> QED
      BY <1>2, <3>1, <3>2, CredentialsFacts DEF NotStolen
  <2> QED
    BY <2>1, <2>2
<1> QED
  BY <1>3, <1>4, <1>5

\* The other steps remove Secrets, or take away their owners.
LEMMA OtherStepsHonest ==
  ASSUME RegistrationInv, [Next]_crVars, ~EnsureSecret, NEW n \in Names
  PROVE  NotStolen(n)
<1>1. SecretsOK /\ setup \in Setups
  BY DEF RegistrationInv, RegistrationTypeOK
<1>2. CASE secrets' = secrets
  BY <1>2 DEF NotStolen
<1>3. CASE Collector
  <2>1. PICK m \in Names : secrets' = [secrets EXCEPT ![m] = NoSecret]
    BY <1>3 DEF Collector, CollectSecret
  <2> QED
    BY <1>1, <2>1 DEF NotStolen, SecretsOK
<1>4. CASE UserStep
  <2>1. setup.kinds \subseteq KindSet /\ setup.names \subseteq Names
    BY <1>1, SetupsAssumption DEF KindSet
  <2>2. \/ secrets' = secrets
        \/ \E k \in KindSet, m \in Names : DeleteWorkload(k, m)
    BY <1>4, <2>1 DEF UserStep, CreateWorkload, RelabelWorkload
  <2>3. ASSUME NEW k \in KindSet, NEW m \in Names, DeleteWorkload(k, m) PROVE NotStolen(n)
    <3>1. /\ \A i \in Names : i # m => secrets'[i] = secrets[i]
          /\ secrets'[m].owner = secrets[m].owner
               \/ (secrets[m].owner = k /\ secrets'[m].owner = "gone")
      BY <1>1, <2>3, Orphaned DEF DeleteWorkload
    <3> QED
      BY <3>1 DEF NotStolen
  <2> QED
    BY <1>2, <2>2, <2>3
<1>5. ASSUME WorkerStep PROVE secrets' = secrets
  <2>1. BeginReconcile \/ PasswordToken \/ SpiffeToken \/ PatchTemplate => secrets' = secrets
    BY DEF BeginReconcile, PasswordToken, SpiffeToken, PatchTemplate
  <2>2. FindClient \/ CreateClient \/ ReconcileExistingClient \/ ReadClientSecret
          => secrets' = secrets
    BY DEF FindClient, CreateClient, ReconcileExistingClient, ReadClientSecret, OutsideKeycloak
  <2>3. FindScope \/ CreateScope \/ AddMapper \/ VerifyMapper \/ CreateMapper \/ AttachScope
          => secrets' = secrets
    BY DEF FindScope, CreateScope, AddMapper, VerifyMapper, CreateMapper, AttachScope,
       OutsideKeycloak
  <2> QED
    BY <1>5, <2>1, <2>2, <2>3 DEF WorkerStep
<1>6. ASSUME \/ EditGates \/ EditConfig \/ KeycloakChanges \/ TokenAges \/ Bootstrapping
             \/ \E o \in Operators : OperatorRestarts(o)
             \/ UNCHANGED crVars
      PROVE  secrets' = secrets
  BY <1>6 DEF EditGates, EditConfig, KeycloakChanges, TokenAges, Bootstrapping, OperatorRestarts,
     crVars, regVars
<1> QED
  BY <1>2, <1>3, <1>4, <1>5, <1>6 DEF Next

(* No step gives the credentials Secret of a live workload to another one  *)
(* or rewrites it for one that does not own it.                            *)
THEOREM SecretsHeld == CRSpec => SecretNeverStolen
<1>1. RegistrationInv /\ [Next]_crVars =>
        [\A n \in Names : secrets'[n] # secrets[n] =>
           \/ secrets[n].owner = "none"
           \/ secrets'[n] = NoSecret
           \/ secrets'[n].owner \in {secrets[n].owner, "gone"}]_secrets
  BY SecretStepHonest, OtherStepsHonest DEF NotStolen
<1> QED
  BY <1>1, RegistrationInvariant, PTL DEF CRSpec, SecretNeverStolen

-----------------------------------------------------------------------------
(* The bootstrap within the operator.                                      *)

\* The operator starts the bootstrap in a namespace it knows.
LEMMA BootstrapStarts == Init => BootstrapInit
<1> SUFFICES ASSUME Init PROVE BootstrapInit
  OBVIOUS
<1>1. /\ InitBootstrap(setup.namespace, setup.spent)
      /\ setup.namespace \in {NewNamespace, OldNamespace, ProvidedKeycloak}
      /\ setup.spent \in 0..MaxFaults
  BY SetupsAssumption DEF Init
<1> QED
  BY <1>1 DEF BootstrapInit

\* The other components leave what the bootstrap works on alone.
LEMMA BootstrapProceeds == [Next]_crVars => [BootstrapNext]_<<boot, kc, fresh>>
<1> SUFFICES ASSUME [Next]_crVars, ~UNCHANGED <<boot, kc, fresh>> PROVE BootstrapNext
  OBVIOUS
<1>1. ~WorkerStep
  <2>1. ~(BeginReconcile \/ PasswordToken \/ SpiffeToken \/ EnsureSecret \/ PatchTemplate)
    BY DEF BeginReconcile, PasswordToken, SpiffeToken, EnsureSecret, OnlySecret, PatchTemplate
  <2>2. ~(FindClient \/ CreateClient \/ ReconcileExistingClient \/ ReadClientSecret)
    BY DEF FindClient, CreateClient, ReconcileExistingClient, ReadClientSecret, OutsideKeycloak
  <2>3. ~(FindScope \/ CreateScope \/ AddMapper \/ VerifyMapper \/ CreateMapper \/ AttachScope)
    BY DEF FindScope, CreateScope, AddMapper, VerifyMapper, CreateMapper, AttachScope,
       OutsideKeycloak
  <2> QED
    BY <2>1, <2>2, <2>3 DEF WorkerStep
<1>2. ~(UserStep \/ EditGates \/ EditConfig \/ KeycloakChanges \/ TokenAges \/ Collector)
  BY DEF UserStep, EditGates, EditConfig, KeycloakChanges, TokenAges, Collector, CollectSecret,
     bootVars
<1>3. ~UNCHANGED crVars
  BY DEF crVars, bootVars
<1> QED
  BY <1>1, <1>2, <1>3 DEF Next, Bootstrapping, OperatorRestarts, BootstrapNext

(* The operator with its registration behaves, for the bootstrap, as the   *)
(* bootstrap's own specification says.                                     *)
THEOREM BootstrapWithin == CRSpec => BootstrapSpec
  BY BootstrapStarts, BootstrapProceeds, PTL DEF CRSpec, BootstrapSpec

(* ... so that what is imported is what the test-users Secret holds while  *)
(* workloads are registered as well.                                       *)
THEOREM ImportSound == CRSpec => []ImportMatchesSecret
  BY BootstrapWithin, BootstrapSound, PTL

-----------------------------------------------------------------------------
(* The registration and the bootstrap beside the Pods.                     *)

\* What the registration and the bootstrap work on, without the counts of edits and failures.
Registration ==
    <<boot, kc, fresh, setup, gates, conf, wl, secrets, realm, cache, queue, rec, unseen, unlucky>>

\* The steps of the Pods leave that alone.
LEMMA PodStepsBeside == PodStep => UNCHANGED Registration
<1>1. \A s : Admission(s) \/ StartPod(s) => OnlyPods
  BY DEF Admission, CreatePod, Reinvoke, Answer, StartPod
<1>2. ProvisionCA => OnlyPods
  BY DEF ProvisionCA
<1>3. OnlyPods => UNCHANGED <<setup, gates, conf, wl, secrets, realm>>
  BY DEF OnlyPods, regVars
<1>4. OnlyPods => UNCHANGED <<boot, kc, fresh, cache, queue, rec, unseen, unlucky>>
  BY DEF OnlyPods, regVars
<1>5. ReloadGates \/ ReloadPlatform \/ EditWorld =>
        UNCHANGED <<boot, kc, fresh, setup, gates, conf, wl, secrets, realm>>
  BY DEF ReloadGates, ReloadPlatform, EditWorld, regVars, bootVars
<1>6. ReloadGates \/ ReloadPlatform \/ EditWorld =>
        UNCHANGED <<cache, queue, rec, unseen, unlucky>>
  BY DEF ReloadGates, ReloadPlatform, EditWorld, regVars, bootVars
<1> QED
  BY <1>1, <1>2, <1>3, <1>4, <1>5, <1>6 DEF PodStep, Registration

\* So a step is one or the other.
LEMMA StepsSplit ==
  [APNext]_apVars => ([Next]_crVars /\ UNCHANGED podVars) \/ PodStep
  BY DEF APNext, apVars

\* The registration's invariant beside the Pods.
LEMMA RegistrationKept == RegistrationInv /\ [APNext]_apVars => RegistrationInv'
<1>1. ASSUME RegistrationInv, PodStep PROVE RegistrationInv'
  <2>1. /\ setup' = setup /\ wl' = wl /\ secrets' = secrets /\ queue' = queue /\ rec' = rec
        /\ unlucky' = unlucky /\ unseen' = unseen /\ gates' = gates
    BY <1>1, PodStepsBeside DEF Registration
  <2> QED
    BY <1>1, <2>1, Elsewhere
<1> QED
  BY <1>1, StepsSplit, RegistrationInvStep

\* Their invariant.
LEMMA RegistrationBeside == APSpec => []RegistrationInv
<1>1. APInit => RegistrationInv
  BY RegistrationInvInit DEF APInit
<1> QED
  BY <1>1, RegistrationKept, PTL DEF APSpec

(* A reference in a Pod template resolves, or a reconcile is pending,      *)
(* while Pods are admitted with that Secret as well.                       *)
THEOREM ReferencesBesidePods == APSpec => []ReferencesResolve
  BY RegistrationBeside, RegistrationInvSays, PTL

(* The credentials that Pods mount are never taken over: neither the       *)
(* registration nor an admission gives the Secret of a live workload away. *)
THEOREM SecretsBesidePods == APSpec => SecretNeverStolen
<1>1. RegistrationInv /\ [APNext]_apVars =>
        [\A n \in Names : secrets'[n] # secrets[n] =>
           \/ secrets[n].owner = "none"
           \/ secrets'[n] = NoSecret
           \/ secrets'[n].owner \in {secrets[n].owner, "gone"}]_secrets
  <2>1. PodStep => secrets' = secrets
    BY PodStepsBeside DEF Registration
  <2>2. RegistrationInv /\ [Next]_crVars => \A n \in Names : NotStolen(n)
    BY SecretStepHonest, OtherStepsHonest
  <2> QED
    BY <2>1, <2>2, StepsSplit DEF NotStolen
<1> QED
  BY <1>1, RegistrationBeside, PTL DEF APSpec, SecretNeverStolen

(* With its webhook and its workers the operator still implements, on the  *)
(* bootstrap's variables, the specification of the bootstrap alone.        *)
THEOREM BootstrapBesidePods == APSpec => BootstrapSpec
<1>1. APInit => BootstrapInit
  BY BootstrapStarts DEF APInit
<1>2. [APNext]_apVars => [BootstrapNext]_<<boot, kc, fresh>>
  <2>1. PodStep => UNCHANGED <<boot, kc, fresh>>
    BY PodStepsBeside DEF Registration
  <2> QED
    BY <2>1, StepsSplit, BootstrapProceeds
<1> QED
  BY <1>1, <1>2, PTL DEF APSpec, BootstrapSpec

(* ... so that what is imported is what the test-users Secret holds.       *)
THEOREM ImportBesidePods == APSpec => []ImportMatchesSecret
  BY BootstrapBesidePods, BootstrapSound, PTL

=============================================================================
