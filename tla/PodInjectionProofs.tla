-------------------------- MODULE PodInjectionProofs --------------------------
(***************************************************************************)
(* Proofs about what the webhook makes of one Pod, whatever its containers *)
(* and the configuration.                                                  *)
(***************************************************************************)
EXTENDS PodInjection, FiniteSetTheorems, TLAPS

\* A leaf that names no prover is one for Zenon.
USE Zenon

-----------------------------------------------------------------------------
(* Sequences, and the least of some numbers.                               *)

\* The range of a sequence, by its indices.
LEMMA SequenceRange ==
  ASSUME NEW S, NEW s \in Seq(S)
  PROVE  /\ Len(s) \in Nat /\ DOMAIN s = 1..Len(s)
         /\ Range(s) = {s[i] : i \in 1..Len(s)}
         /\ Range(s) \subseteq S
<1>1. Len(s) \in Nat /\ DOMAIN s = 1..Len(s) /\ \A i \in 1..Len(s) : s[i] \in S
  BY SMT
<1> QED
  BY <1>1 DEF Range

\* A function on 1..n is a sequence.
LEMMA FunctionIsSequence ==
  ASSUME NEW n \in Nat, NEW s, s = [i \in 1..n |-> s[i]]
  PROVE  IsSequence(s) /\ Len(s) = n
<1>1. s \in [1..n -> Range(s)]
  BY DEF Range
<1>2. s \in Seq(Range(s)) /\ Len(s) = n
  BY <1>1, SMT
<1> QED
  BY <1>2 DEF IsSequence

\* Sequence t is s with one more element, e.
Extends(s, e, t) ==
    /\ IsSequence(t)
    /\ DOMAIN t = DOMAIN s \cup {Len(s) + 1}
    /\ t[Len(s) + 1] = e
    /\ \A i \in DOMAIN s : t[i] = s[i]

\* What Append does.
LEMMA AppendSequence ==
  ASSUME NEW s, IsSequence(s), NEW e
  PROVE  /\ Len(s) \in Nat /\ DOMAIN s = 1..Len(s) /\ Len(s) + 1 \notin DOMAIN s
         /\ Extends(s, e, Append(s, e))
<1> DEFINE S == Range(s) \cup {e}
           t == Append(s, e)
           n == Len(s)
<1>1. s \in Seq(S) /\ e \in S
  <2>1. s \in Seq(Range(s)) /\ Range(s) \subseteq S
    BY DEF IsSequence
  <2> HIDE DEF S
  <2>2. s \in Seq(S)
    BY <2>1, SMT
  <2> QED
    BY <2>2 DEF S
<1> HIDE DEF S
<1>2. n \in Nat /\ DOMAIN s = 1..n /\ n + 1 \notin 1..n /\ 1..(n + 1) = (1..n) \cup {n + 1}
  BY <1>1, SMT
<1>3. /\ t \in Seq(S) /\ Len(t) = n + 1 /\ t[n + 1] = e /\ \A i \in 1..n : t[i] = s[i]
  BY <1>1, SMT
<1> HIDE DEF t
<1>4. DOMAIN t = 1..(n + 1) /\ t = [i \in 1..(n + 1) |-> t[i]]
  <2>1. t \in [1..(n + 1) -> S]
    BY <1>2, <1>3, SMT
  <2> QED
    BY <2>1
<1>5. IsSequence(t)
  <2>1. n + 1 \in Nat
    BY <1>2, SMT
  <2> QED
    BY <1>4, <2>1, FunctionIsSequence
<1> QED
  BY <1>2, <1>3, <1>4, <1>5 DEF t, Extends

\* The least of some numbers is one of them.
LEMMA LeastIn ==
  ASSUME NEW S \in SUBSET Nat, S # {}
  PROVE  Min(S) \in S /\ \A x \in S : Min(S) <= x
<1>1. PICK x \in S : \A y \in S : ~(<<y, x>> \in OpToRel(<, Nat))
  BY NatLessThanWellFounded, WFMin
<1>2. \A y \in S : ~(y < x)
  BY <1>1 DEF OpToRel
<1>3. \A y \in S : x <= y
  BY <1>2, SMT
<1> QED
  BY <1>3 DEF Min

-----------------------------------------------------------------------------
(* The ports.                                                              *)

\* The ports that have a name.
LEMMA PortNumbers ==
  /\ MaxPort \in Nat /\ DefaultAgentPort \in 1..MaxPort
  /\ FirstForwardPort \in Nat /\ FirstForwardPort # 0
  /\ FirstUserPort \in Nat /\ FirstUserPort >= 1
  /\ AdminPorts \subseteq 1..MaxPort
<1>1. MaxPort \in Nat
  BY SMT DEF MaxPort
<1>2. DefaultAgentPort \in 1..MaxPort
  BY SMT DEF MaxPort, DefaultAgentPort
<1>3. FirstForwardPort \in Nat /\ FirstForwardPort # 0
  BY SMT DEF FirstForwardPort
<1>4. FirstUserPort \in Nat /\ FirstUserPort >= 1
  BY SMT DEF FirstUserPort
<1>5. AdminPorts \subseteq 1..MaxPort
  BY SMT DEF AdminPorts, MaxPort
<1> QED
  BY <1>1, <1>2, <1>3, <1>4, <1>5

\* The first of a sequence that is not empty.
LEMMA HeadIn ==
  ASSUME NEW S, NEW s \in Seq(S), s # <<>>
  PROVE  1 \in DOMAIN s /\ Head(s) = s[1] /\ Head(s) \in S /\ Head(s) \in Range(s)
<1>1. 1 \in DOMAIN s /\ Head(s) = s[1] /\ s[1] \in S
  BY SMT
<1> QED
  BY <1>1 DEF Range

\* The ports of a Pod's containers are port numbers.
LEMMA DeclaredAreNumbers ==
  ASSUME NEW pod, WellFormed(pod)
  PROVE  DeclaredPorts(pod) \subseteq 1..MaxPort
<1>1. ASSUME NEW i \in DOMAIN pod.containers PROVE Range(pod.containers[i].ports) \subseteq 1..MaxPort
  <2>1. pod.containers[i].ports \in Seq(1..MaxPort)
    BY DEF WellFormed
  <2> QED
    BY <2>1, SequenceRange
<1> QED
  BY <1>1 DEF DeclaredPorts

\* The search finds a number that is not in use, or says that there is none.
LEMMA FreePort ==
  ASSUME NEW start \in Nat, start # 0, NEW used \in SUBSET Nat, IsFiniteSet(used),
         FindFreePort(start, used) # NoPort
  PROVE  FindFreePort(start, used) \in 1..MaxPort /\ FindFreePort(start, used) \notin used
<1> DEFINE k == Cardinality(used)
           S == {q \in start..(start + k) : q \notin used}
<1>1. k \in Nat
  BY FS_CardinalityType
<1>2. S # {}
  <2> SUFFICES ASSUME S = {} PROVE FALSE
    OBVIOUS
  <2>1. start..(start + k) \subseteq used
    OBVIOUS
  <2>2. Cardinality(start..(start + k)) <= k
    BY <2>1, FS_Subset
  <2>3. start \in Int /\ start + k \in Int /\ start <= start + k /\ ~((start + k) - start + 1 <= k)
    BY <1>1, SMT
  <2>4. Cardinality(start..(start + k)) = (start + k) - start + 1
    <3>1. Cardinality(start..(start + k)) =
            IF start > start + k THEN 0 ELSE (start + k) - start + 1
      BY <2>3, FS_Interval
    <3>2. ~(start > start + k)
      BY <1>1, SMT
    <3> QED
      BY <3>1, <3>2
  <2> QED
    BY <2>2, <2>3, <2>4
<1>3. S \in SUBSET Nat
  <2>1. \A q \in start..(start + k) : q \in Nat
    BY <1>1, SMT
  <2> QED
    BY <2>1
<1>4. Min(S) \in S
  BY <1>2, <1>3, LeastIn
<1>5. FindFreePort(start, used) = IF Min(S) > MaxPort THEN NoPort ELSE Min(S)
  BY DEF FindFreePort
<1>6. PICK p : p = Min(S)
  OBVIOUS
<1>7. p \in start..(start + k) /\ p \notin used /\ ~(p > MaxPort) /\ FindFreePort(start, used) = p
  BY <1>4, <1>5, <1>6
<1>8. p \in 1..MaxPort
  BY <1>1, <1>7, PortNumbers, SMT
<1> QED
  BY <1>7, <1>8

\* The container that is to move, and the port that the proxy takes over.
LEMMA AgentFacts ==
  ASSUME NEW pod, WellFormed(pod)
  PROVE  /\ AgentIndex(pod) # 0 =>
              /\ AgentIndex(pod) \in DOMAIN pod.containers
              /\ pod.containers[AgentIndex(pod)].ports # <<>>
         /\ 0 \notin DOMAIN pod.containers
         /\ OriginalPort(pod) \in 1..MaxPort
<1> DEFINE with == {i \in DOMAIN pod.containers :
                      pod.containers[i].name # ProxyContainer /\ pod.containers[i].ports # <<>>}
<1>1. pod.containers \in Seq(Range(pod.containers))
  BY DEF WellFormed, IsSequence
<1>2. 0 \notin DOMAIN pod.containers /\ DOMAIN pod.containers \subseteq Nat
  BY <1>1, SMT
<1>3. AgentIndex(pod) = IF with = {} THEN 0 ELSE Min(with)
  BY DEF AgentIndex
<1>4. AgentIndex(pod) # 0 => AgentIndex(pod) \in with
  <2>1. with \in SUBSET Nat
    BY <1>2
  <2> QED
    BY <1>3, <2>1, LeastIn
<1>5. CASE AgentIndex(pod) # 0
  <2>1. /\ pod.containers[AgentIndex(pod)].ports \in Seq(1..MaxPort)
        /\ pod.containers[AgentIndex(pod)].ports # <<>>
    BY <1>4, <1>5 DEF WellFormed
  <2> QED
    BY <1>2, <1>4, <1>5, <2>1, HeadIn DEF OriginalPort
<1>6. CASE AgentIndex(pod) = 0
  BY <1>2, <1>6, PortNumbers DEF OriginalPort
<1> QED
  BY <1>5, <1>6

\* What the search has to avoid.
Used(pod, c) == DeclaredPorts(pod) \cup {OriginalPort(pod)} \cup SidecarPorts(c)

\* ... are finitely many numbers.
LEMMA UsedFinite ==
  ASSUME NEW pod, WellFormed(pod), NEW c, Validate(c)
  PROVE  Used(pod, c) \in SUBSET (1..MaxPort) /\ IsFiniteSet(Used(pod, c))
<1>1. c.transparent \in 1..MaxPort /\ c.transparentInbound \in 1..MaxPort
  <2>1. c.transparent \in FirstUserPort..MaxPort /\ c.transparentInbound \in FirstUserPort..MaxPort
    BY DEF Validate
  <2> QED
    BY <2>1, PortNumbers, SMT
<1>2. SidecarPorts(c) \subseteq 1..MaxPort
  BY <1>1, PortNumbers DEF SidecarPorts
<1>3. Used(pod, c) \in SUBSET (1..MaxPort)
  BY <1>2, DeclaredAreNumbers, AgentFacts DEF Used
<1>4. IsFiniteSet(1..MaxPort)
  <2>1. 1 \in Int /\ MaxPort \in Int
    BY PortNumbers, SMT
  <2> QED
    BY <2>1, FS_Interval
<1> QED
  BY <1>3, <1>4, FS_Subset

\* The assignment of ports, when it succeeds.
LEMMA PortsAssigned ==
  ASSUME NEW pod, WellFormed(pod), NEW c, Validate(c), NEW asked,
         AssignPorts(pod, c, asked).ok
  PROVE  LET r == AssignPorts(pod, c, asked)
         IN  /\ r.forward \in 1..MaxPort /\ r.forward \notin Used(pod, c) \cup {r.moved}
             /\ r.transparent \in BOOLEAN
             /\ r.transparent => /\ asked = "transparent" /\ StaysTransparent(pod, c)
                                 /\ r.inbound = c.transparentInbound
             /\ ~r.transparent => /\ r.moved \in 1..MaxPort /\ r.moved \notin Used(pod, c)
                                  /\ r.inbound = OriginalPort(pod)
<1> DEFINE used == Used(pod, c)
           clear == asked = "transparent" /\ StaysTransparent(pod, c)
           moved == IF clear THEN NoPort ELSE FindFreePort(OriginalPort(pod) + 1, used)
           forward == FindFreePort(FirstForwardPort, used \cup {moved})
           r == AssignPorts(pod, c, asked)
<1>1. /\ r.transparent = clear /\ r.moved = moved /\ r.forward = forward
      /\ r.inbound = IF clear THEN c.transparentInbound ELSE OriginalPort(pod)
      /\ (clear \/ moved # NoPort) /\ forward # NoPort
  BY DEF AssignPorts, Used
<1>2. used \in SUBSET (1..MaxPort) /\ IsFiniteSet(used)
  BY UsedFinite
<1>3. \A x \in 1..MaxPort : x \in Nat /\ x + 1 \in Nat /\ x + 1 # 0
  BY PortNumbers, SMT
<1>4. used \in SUBSET Nat
  BY <1>2, <1>3
<1>5. ~clear => moved \in 1..MaxPort /\ moved \notin used
  <2> SUFFICES ASSUME ~clear PROVE moved \in 1..MaxPort /\ moved \notin used
    OBVIOUS
  <2>1. moved = FindFreePort(OriginalPort(pod) + 1, used)
    OBVIOUS
  <2>2. OriginalPort(pod) + 1 \in Nat /\ OriginalPort(pod) + 1 # 0
    BY <1>3, AgentFacts
  <2> HIDE DEF used, clear, moved
  <2> QED
    BY <1>1, <1>2, <1>4, <2>1, <2>2, FreePort
<1>6. moved \in Nat
  <2>1. NoPort \in Nat
    BY SMT DEF NoPort
  <2> QED
    BY <1>3, <1>5, <2>1
<1>7. forward \in 1..MaxPort /\ forward \notin used \cup {moved}
  <2>1. used \cup {moved} \in SUBSET Nat /\ IsFiniteSet(used \cup {moved})
    BY <1>2, <1>4, <1>6, FS_AddElement
  <2> HIDE DEF used, moved
  <2> QED
    BY <1>1, <2>1, PortNumbers, FreePort
<1> QED
  BY <1>1, <1>5, <1>7

-----------------------------------------------------------------------------
(* The changes of a Pod, one after the other.                              *)

\* The containers of a Pod, as sequences of records go.
Shaped(p) ==
    /\ IsRecord(p, PodFields)
    /\ IsSequence(p.containers)
    /\ \A i \in DOMAIN p.containers : IsRecord(p.containers[i], ContainerFields)

\* The same container with more volumes mounted, if any.
SameContainer(c, d) ==
    /\ IsRecord(d, ContainerFields)
    /\ d.name = c.name /\ d.ports = c.ports /\ d.proxy = c.proxy /\ d.port = c.port
    /\ c.mounts \subseteq d.mounts

\* The same Pod with more volumes and mounts, if any.
Remounts(p, q) ==
    /\ Shaped(q)
    /\ q.inits = p.inits /\ q.owner = p.owner /\ q.sa = p.sa /\ q.creds = p.creds
    /\ DOMAIN q.containers = DOMAIN p.containers
    /\ \A i \in DOMAIN p.containers : SameContainer(p.containers[i], q.containers[i])
    /\ VolumeNames(p) \subseteq VolumeNames(q)

\* What is mounted is a volume of the Pod, or one of X.
MountedBut(p, X) ==
    \A i \in DOMAIN p.containers : p.containers[i].mounts \subseteq VolumeNames(p) \cup X

\* An update of one field.
Sets(p, q, f, v) ==
    /\ IsRecord(q, PodFields) /\ q[f] = v
    /\ \A g \in PodFields : g # f => q[g] = p[g]

\* ... for the fields that the webhook updates.
LEMMA PodUpdated ==
  ASSUME NEW p, IsRecord(p, PodFields), NEW v
  PROVE  /\ Sets(p, [p EXCEPT !.containers = v], "containers", v)
         /\ Sets(p, [p EXCEPT !.inits = v], "inits", v)
         /\ Sets(p, [p EXCEPT !.volumes = v], "volumes", v)
         /\ Sets(p, [p EXCEPT !.creds = v], "creds", v)
         /\ Sets(p, [p EXCEPT !.sa = v], "sa", v)
<1>1. "containers" \in PodFields /\ "inits" \in PodFields /\ "volumes" \in PodFields
  BY DEF PodFields
<1>2. "creds" \in PodFields /\ "sa" \in PodFields
  BY DEF PodFields
<1>3. Sets(p, [p EXCEPT !.containers = v], "containers", v)
  BY <1>1 DEF Sets, IsRecord
<1>4. Sets(p, [p EXCEPT !.inits = v], "inits", v)
  BY <1>1 DEF Sets, IsRecord
<1>5. Sets(p, [p EXCEPT !.volumes = v], "volumes", v)
  BY <1>1 DEF Sets, IsRecord
<1>6. Sets(p, [p EXCEPT !.creds = v], "creds", v)
  BY <1>2 DEF Sets, IsRecord
<1>7. Sets(p, [p EXCEPT !.sa = v], "sa", v)
  BY <1>2 DEF Sets, IsRecord
<1> QED
  BY <1>3, <1>4, <1>5, <1>6, <1>7

\* What an update leaves alone, field by field.
LEMMA SetsOne ==
  ASSUME NEW p, NEW q, NEW v
  PROVE  /\ Sets(p, q, "containers", v) =>
              /\ q.inits = p.inits /\ q.volumes = p.volumes
              /\ q.owner = p.owner /\ q.sa = p.sa /\ q.creds = p.creds
         /\ Sets(p, q, "inits", v) =>
              /\ q.containers = p.containers /\ q.volumes = p.volumes
              /\ q.owner = p.owner /\ q.sa = p.sa /\ q.creds = p.creds
         /\ Sets(p, q, "volumes", v) =>
              /\ q.containers = p.containers /\ q.inits = p.inits
              /\ q.owner = p.owner /\ q.sa = p.sa /\ q.creds = p.creds
         /\ Sets(p, q, "sa", v) =>
              /\ q.containers = p.containers /\ q.inits = p.inits
              /\ q.owner = p.owner /\ q.volumes = p.volumes /\ q.creds = p.creds
         /\ Sets(p, q, "creds", v) =>
              /\ q.containers = p.containers /\ q.inits = p.inits
              /\ q.owner = p.owner /\ q.volumes = p.volumes /\ q.sa = p.sa
<1>1. /\ {"containers", "inits", "volumes"} \subseteq PodFields
      /\ {"owner", "sa", "creds"} \subseteq PodFields
  BY DEF PodFields
<1>2. ASSUME Sets(p, q, "containers", v)
      PROVE  /\ q.inits = p.inits /\ q.volumes = p.volumes
             /\ q.owner = p.owner /\ q.sa = p.sa /\ q.creds = p.creds
  BY <1>1, <1>2 DEF Sets
<1>3. ASSUME Sets(p, q, "inits", v)
      PROVE  /\ q.containers = p.containers /\ q.volumes = p.volumes
             /\ q.owner = p.owner /\ q.sa = p.sa /\ q.creds = p.creds
  BY <1>1, <1>3 DEF Sets
<1>4. ASSUME Sets(p, q, "volumes", v)
      PROVE  /\ q.containers = p.containers /\ q.inits = p.inits
             /\ q.owner = p.owner /\ q.sa = p.sa /\ q.creds = p.creds
  BY <1>1, <1>4 DEF Sets
<1>5. ASSUME Sets(p, q, "sa", v)
      PROVE  /\ q.containers = p.containers /\ q.inits = p.inits
             /\ q.owner = p.owner /\ q.volumes = p.volumes /\ q.creds = p.creds
  BY <1>1, <1>5 DEF Sets
<1>6. ASSUME Sets(p, q, "creds", v)
      PROVE  /\ q.containers = p.containers /\ q.inits = p.inits
             /\ q.owner = p.owner /\ q.volumes = p.volumes /\ q.sa = p.sa
  BY <1>1, <1>6 DEF Sets
<1> QED
  BY <1>2, <1>3, <1>4, <1>5, <1>6

\* A container that mounts more.
LEMMA MountsMore ==
  ASSUME NEW c, IsRecord(c, ContainerFields), NEW m
  PROVE  /\ SameContainer(c, c)
         /\ SameContainer(c, WithMount(c, m))
         /\ WithMount(c, m).mounts = c.mounts \cup {m}
<1>1. "mounts" \in ContainerFields
  BY DEF ContainerFields
<1>2. PICK d : d = WithMount(c, m)
  OBVIOUS
<1>3. IsRecord(d, ContainerFields) /\ d.mounts = c.mounts \cup {m}
  BY <1>1, <1>2 DEF IsRecord, WithMount
<1>4. d.name = c.name /\ d.ports = c.ports /\ d.proxy = c.proxy /\ d.port = c.port
  BY <1>2 DEF IsRecord, ContainerFields, WithMount
<1> QED
  BY <1>2, <1>3, <1>4 DEF SameContainer

\* Adding volumes.
LEMMA VolumesAdded ==
  ASSUME NEW p, Shaped(p), NEW vs
  PROVE  LET q == AddVolumes(p, vs)
         IN  /\ Remounts(p, q) /\ q.containers = p.containers
             /\ VolumeNames(q) = VolumeNames(p) \cup {v.name : v \in vs}
<1>1. PICK q : q = AddVolumes(p, vs)
  OBVIOUS
<1>2. Sets(p, q, "volumes", p.volumes \cup {v \in vs : \A w \in p.volumes : w.name # v.name})
  BY <1>1, PodUpdated DEF AddVolumes, Shaped
<1>3. /\ IsRecord(q, PodFields) /\ q.containers = p.containers /\ q.inits = p.inits
      /\ q.owner = p.owner /\ q.sa = p.sa /\ q.creds = p.creds
      /\ q.volumes = p.volumes \cup {v \in vs : \A w \in p.volumes : w.name # v.name}
  <2>1. /\ q.containers = p.containers /\ q.inits = p.inits
        /\ q.owner = p.owner /\ q.sa = p.sa /\ q.creds = p.creds
    BY <1>2, SetsOne
  <2> QED
    BY <1>2, <2>1 DEF Sets
<1>4. VolumeNames(q) = VolumeNames(p) \cup {v.name : v \in vs}
  <2>1. ASSUME NEW x \in VolumeNames(q) PROVE x \in VolumeNames(p) \cup {v.name : v \in vs}
    BY <1>3 DEF VolumeNames
  <2>2. ASSUME NEW x \in VolumeNames(p) PROVE x \in VolumeNames(q)
    BY <1>3 DEF VolumeNames
  <2>3. ASSUME NEW v \in vs PROVE v.name \in VolumeNames(q)
    <3>1. CASE \A w \in p.volumes : w.name # v.name
      <4>1. v \in q.volumes
        BY <1>3, <3>1
      <4> QED
        BY <4>1 DEF VolumeNames
    <3>2. CASE \E w \in p.volumes : w.name = v.name
      BY <2>2, <3>2 DEF VolumeNames
    <3> QED
      BY <3>1, <3>2
  <2> QED
    BY <2>1, <2>2, <2>3
<1>5. \A i \in DOMAIN p.containers : SameContainer(p.containers[i], q.containers[i])
  BY <1>3, MountsMore DEF Shaped
<1> QED
  BY <1>1, <1>3, <1>4, <1>5 DEF Remounts, Shaped

\* More mounts for the containers: what the last three changes have in common.
LEMMA ContainersRemounted ==
  ASSUME NEW p, Shaped(p), NEW q, NEW cs, Sets(p, q, "containers", cs),
         cs = [i \in DOMAIN p.containers |-> cs[i]],
         \A i \in DOMAIN p.containers : SameContainer(p.containers[i], cs[i])
  PROVE  Remounts(p, q) /\ q.containers = cs /\ VolumeNames(q) = VolumeNames(p)
<1>1. /\ IsRecord(q, PodFields) /\ q.containers = cs
      /\ q.inits = p.inits /\ q.owner = p.owner /\ q.sa = p.sa /\ q.creds = p.creds
      /\ q.volumes = p.volumes
  <2>1. /\ q.inits = p.inits /\ q.owner = p.owner /\ q.sa = p.sa /\ q.creds = p.creds
        /\ q.volumes = p.volumes
    BY SetsOne
  <2> QED
    BY <2>1 DEF Sets
<1>2. p.containers \in Seq(Range(p.containers))
  BY DEF Shaped, IsSequence
<1>3. DOMAIN p.containers = 1..Len(p.containers) /\ Len(p.containers) \in Nat
  BY <1>2, SequenceRange
<1>4. IsSequence(cs) /\ DOMAIN cs = DOMAIN p.containers
  BY <1>3, FunctionIsSequence
<1>5. Shaped(q)
  BY <1>1, <1>4 DEF Shaped, SameContainer
<1> QED
  BY <1>1, <1>4, <1>5 DEF Remounts, VolumeNames

\* One change of volumes and mounts after another.
LEMMA RemountsTwice ==
  ASSUME NEW p, NEW q, NEW r, Remounts(p, q), Remounts(q, r)
  PROVE  Remounts(p, r)
<1>1. \A i \in DOMAIN p.containers : SameContainer(p.containers[i], r.containers[i])
  BY DEF Remounts, SameContainer
<1> QED
  BY <1>1 DEF Remounts

\* The credentials.
LEMMA CredentialsApplied ==
  ASSUME NEW p, Shaped(p), NEW X, MountedBut(p, X)
  PROVE  Remounts(p, ApplyCredentials(p)) /\ MountedBut(ApplyCredentials(p), X)
<1>1. CASE p.creds = <<>>
  <2>1. \A i \in DOMAIN p.containers : SameContainer(p.containers[i], p.containers[i])
    BY MountsMore DEF Shaped
  <2> QED
    BY <1>1, <2>1 DEF ApplyCredentials, Remounts
<1>2. CASE p.creds # <<>>
  <2> DEFINE more(c) == IF <<"shared-data">> \in c.mounts THEN WithMount(c, p.creds) ELSE c
             cs == [i \in DOMAIN p.containers |-> more(p.containers[i])]
  <2>1. PICK v : v = AddVolumes(p, {Volume(p.creds, p.creds, TRUE)})
    OBVIOUS
  <2>2. /\ Remounts(p, v) /\ v.containers = p.containers
        /\ VolumeNames(v) = VolumeNames(p) \cup {p.creds}
    <3>1. Volume(p.creds, p.creds, TRUE).name = p.creds
      BY DEF Volume
    <3>2. {w.name : w \in {Volume(p.creds, p.creds, TRUE)}} = {p.creds}
      BY <3>1
    <3> QED
      BY <2>1, <3>2, VolumesAdded
  <2>3. PICK q : q = ApplyCredentials(p)
    OBVIOUS
  <2>4. q = [v EXCEPT !.containers = cs]
    BY <1>2, <2>1, <2>2, <2>3 DEF ApplyCredentials
  <2>5. \A i \in DOMAIN p.containers :
          /\ SameContainer(p.containers[i], cs[i])
          /\ cs[i].mounts \subseteq p.containers[i].mounts \cup {p.creds}
    <3> SUFFICES ASSUME NEW i \in DOMAIN p.containers
                 PROVE  /\ SameContainer(p.containers[i], more(p.containers[i]))
                        /\ more(p.containers[i]).mounts \subseteq p.containers[i].mounts \cup {p.creds}
      OBVIOUS
    <3>1. IsRecord(p.containers[i], ContainerFields)
      BY DEF Shaped
    <3> QED
      BY <3>1, MountsMore
  <2>6. Sets(v, q, "containers", cs)
    <3>1. IsRecord(v, PodFields)
      BY <2>2 DEF Remounts, Shaped
    <3> HIDE DEF cs
    <3> QED
      BY <2>4, <3>1, PodUpdated
  <2>7. cs = [i \in DOMAIN v.containers |-> cs[i]]
    BY <2>2
  <2> HIDE DEF cs, more
  <2>8. Remounts(v, q) /\ q.containers = cs /\ VolumeNames(q) = VolumeNames(v)
    <3>1. Shaped(v) /\ \A i \in DOMAIN v.containers : SameContainer(v.containers[i], cs[i])
      BY <2>2, <2>5 DEF Remounts
    <3> QED
      BY <2>6, <2>7, <3>1, ContainersRemounted
  <2>9. Remounts(p, q)
    BY <2>2, <2>8, RemountsTwice
  <2>10. MountedBut(q, X)
    BY <2>2, <2>5, <2>8, <2>9 DEF MountedBut, Remounts
  <2> QED
    BY <2>3, <2>9, <2>10
<1> QED
  BY <1>1, <1>2

\* The bridge: whoever has the sidecar's name mounts the key.
LEMMA BridgeApplied ==
  ASSUME NEW p, Shaped(p), NEW X, MountedBut(p, X), NEW n
  PROVE  LET q == ApplyTLSBridge(p, n)
         IN  /\ Remounts(p, q) /\ MountedBut(q, X)
             /\ \A i \in DOMAIN p.containers : p.containers[i].name = ProxyContainer =>
                  <<"tls-bridge-ca">> \in q.containers[i].mounts
<1> DEFINE key == <<"tls-bridge-ca">>
           cert == <<"tls-bridge-ca-cert">>
           which(c) == IF c.name = ProxyContainer THEN key ELSE cert
           cs == [i \in DOMAIN p.containers |-> WithMount(p.containers[i], which(p.containers[i]))]
           added == {Volume(key, <<"ca", n>>, TRUE), Volume(cert, <<"ca", n>>, TRUE)}
<1>1. PICK v : v = AddVolumes(p, added)
  OBVIOUS
<1>2. /\ Remounts(p, v) /\ v.containers = p.containers
      /\ key \in VolumeNames(v) /\ cert \in VolumeNames(v) /\ VolumeNames(p) \subseteq VolumeNames(v)
  <2>1. key \in {w.name : w \in added} /\ cert \in {w.name : w \in added}
    BY DEF Volume
  <2> HIDE DEF key, cert, added
  <2> QED
    BY <1>1, <2>1, VolumesAdded
<1>3. PICK q : q = ApplyTLSBridge(p, n)
  OBVIOUS
<1>4. q = [v EXCEPT !.containers = cs]
  BY <1>1, <1>2, <1>3 DEF ApplyTLSBridge
<1>5. ASSUME NEW i \in DOMAIN p.containers
      PROVE  /\ SameContainer(p.containers[i], cs[i])
             /\ cs[i].mounts = p.containers[i].mounts \cup {which(p.containers[i])}
  <2>1. IsRecord(p.containers[i], ContainerFields)
    BY DEF Shaped
  <2>2. PICK c, m : c = p.containers[i] /\ m = which(p.containers[i])
    OBVIOUS
  <2>3. cs[i] = WithMount(c, m)
    BY <2>2
  <2>4. SameContainer(c, WithMount(c, m)) /\ WithMount(c, m).mounts = c.mounts \cup {m}
    BY <2>1, <2>2, MountsMore
  <2> HIDE DEF cs, which
  <2> QED
    BY <2>2, <2>3, <2>4
<1>6. cs = [i \in DOMAIN v.containers |-> cs[i]]
  BY <1>2
<1>7. \A c : which(c) \in {key, cert} /\ (c.name = ProxyContainer => which(c) = key)
  OBVIOUS
<1> HIDE DEF cs, which, key, cert
<1>8. Sets(v, q, "containers", cs)
  <2>1. IsRecord(v, PodFields)
    BY <1>2 DEF Remounts, Shaped
  <2> QED
    BY <1>4, <2>1, PodUpdated
<1>9. Remounts(v, q) /\ q.containers = cs /\ VolumeNames(q) = VolumeNames(v)
  <2>1. Shaped(v) /\ \A i \in DOMAIN v.containers : SameContainer(v.containers[i], cs[i])
    BY <1>2, <1>5 DEF Remounts
  <2> QED
    BY <1>6, <1>8, <2>1, ContainersRemounted
<1>10. Remounts(p, q)
  BY <1>2, <1>9, RemountsTwice
<1>11. MountedBut(q, X)
  <2> SUFFICES ASSUME NEW i \in DOMAIN q.containers
               PROVE  q.containers[i].mounts \subseteq VolumeNames(q) \cup X
    BY DEF MountedBut
  <2>1. i \in DOMAIN p.containers /\ q.containers[i].mounts = p.containers[i].mounts \cup {which(p.containers[i])}
    BY <1>5, <1>9, <1>10 DEF Remounts
  <2>2. p.containers[i].mounts \subseteq VolumeNames(p) \cup X
    BY <2>1 DEF MountedBut
  <2> QED
    BY <1>2, <1>7, <1>9, <2>1, <2>2
<1>12. \A i \in DOMAIN p.containers : p.containers[i].name = ProxyContainer =>
         key \in q.containers[i].mounts
  BY <1>5, <1>7, <1>9
<1> QED
  BY <1>3, <1>10, <1>11, <1>12 DEF key

\* The same Pod with the init containers of S besides its own.
OnlyInits(p, q, S) ==
    /\ Shaped(q) /\ q.containers = p.containers /\ q.volumes = p.volumes
    /\ q.owner = p.owner /\ q.sa = p.sa /\ q.creds = p.creds
    /\ IsSequence(q.inits) /\ Range(q.inits) = Range(p.inits) \cup S

\* Another init container, unless one of its name is there.
LEMMA InitAdded ==
  ASSUME NEW p, Shaped(p), IsSequence(p.inits), NEW new,
         \A i \in DOMAIN p.inits : p.inits[i].name # new.name
  PROVE  OnlyInits(p, AddInit(p, new), {new})
<1>1. PICK q : q = AddInit(p, new)
  OBVIOUS
<1>2. q = [p EXCEPT !.inits = Append(p.inits, new)]
  BY <1>1 DEF AddInit
<1>3. Sets(p, q, "inits", Append(p.inits, new))
  BY <1>2, PodUpdated DEF Shaped
<1>4. /\ q.containers = p.containers /\ q.volumes = p.volumes
      /\ q.owner = p.owner /\ q.sa = p.sa /\ q.creds = p.creds
  BY <1>3, SetsOne
<1>5. IsRecord(q, PodFields) /\ q.inits = Append(p.inits, new)
  BY <1>3 DEF Sets
<1>6. Extends(p.inits, new, q.inits)
  BY <1>5, AppendSequence
<1>7. Range(q.inits) = Range(p.inits) \cup {new}
  <2>1. ASSUME NEW x \in Range(q.inits) PROVE x \in Range(p.inits) \cup {new}
    BY <1>6 DEF Range, Extends
  <2>2. ASSUME NEW x \in Range(p.inits) \cup {new} PROVE x \in Range(q.inits)
    BY <1>6 DEF Range, Extends
  <2> QED
    BY <2>1, <2>2
<1> QED
  BY <1>1, <1>4, <1>5, <1>6, <1>7 DEF Shaped, Extends, OnlyInits

-----------------------------------------------------------------------------
(* The agent moves, the sidecar joins it, and the proxy is announced.      *)

\* The first port of a container replaced, and announced by PORT.
LEMMA ContainerMoved ==
  ASSUME NEW c, IsRecord(c, ContainerFields), c.ports \in Seq(1..MaxPort), c.ports # <<>>,
         NEW m \in 1..MaxPort
  PROVE  LET d == [c EXCEPT !.ports[1] = m, !.port = m]
         IN  /\ IsRecord(d, ContainerFields)
             /\ d.name = c.name /\ d.proxy = c.proxy /\ d.mounts = c.mounts /\ d.port = m
             /\ d.ports \in Seq(1..MaxPort) /\ Range(d.ports) \subseteq Range(c.ports) \cup {m}
<1> DEFINE s == c.ports
           t == [s EXCEPT ![1] = m]
           S == 1..MaxPort
<1>1. PICK d : d = [c EXCEPT !.ports[1] = m, !.port = m]
  OBVIOUS
<1>2. d = [c EXCEPT !.ports = t, !.port = m]
  BY <1>1
<1>3. Len(s) \in Nat /\ DOMAIN s = 1..Len(s) /\ s \in [1..Len(s) -> S]
  <2> HIDE DEF S
  <2>1. s \in Seq(S)
    BY DEF S
  <2> HIDE DEF s
  <2> QED
    BY <2>1, SMT
<1>4. DOMAIN t = DOMAIN s /\ \A i \in DOMAIN s : t[i] = s[i] \/ t[i] = m
  BY <1>3
<1>5. t \in [1..Len(s) -> S]
  BY <1>3
<1>6. t \in Seq(S)
  <2> HIDE DEF s, t, S
  <2> QED
    BY <1>3, <1>5, SMT
<1>7. Range(t) \subseteq Range(s) \cup {m}
  BY <1>4 DEF Range
<1> HIDE DEF t
<1>8. IsRecord(d, ContainerFields)
  BY <1>2 DEF IsRecord
<1>9. d.name = c.name /\ d.proxy = c.proxy /\ d.mounts = c.mounts /\ d.port = m /\ d.ports = t
  <2>1. /\ {"name", "ports", "proxy", "port", "mounts"} \subseteq DOMAIN c
    BY DEF IsRecord, ContainerFields
  <2> QED
    BY <1>2, <2>1
<1> QED
  BY <1>1, <1>6, <1>7, <1>8, <1>9

\* The containers of q are those of p but for the agent, that has moved.
Moved(p, q, ports) ==
    /\ DOMAIN q.containers = DOMAIN p.containers
    /\ \A i \in DOMAIN p.containers :
         LET c == p.containers[i]
             d == q.containers[i]
         IN  /\ d.name = c.name /\ d.proxy = c.proxy /\ d.mounts = c.mounts
             /\ d.ports \in Seq(1..MaxPort)
             /\ IF ~ports.transparent /\ i = AgentIndex(p)
                  THEN d.port = ports.moved /\ Range(d.ports) \subseteq Range(c.ports) \cup {ports.moved}
                  ELSE d.port = c.port /\ d.ports = c.ports

\* Everything but the containers is the same.
OnlyContainers(p, q) ==
    /\ Shaped(q)
    /\ q.inits = p.inits /\ q.volumes = p.volumes
    /\ q.owner = p.owner /\ q.sa = p.sa /\ q.creds = p.creds

\* The move.
LEMMA AgentMoved ==
  ASSUME NEW p, WellFormed(p), NEW ports, ports.transparent \/ ports.moved \in 1..MaxPort
  PROVE  OnlyContainers(p, MoveAgent(p, ports)) /\ Moved(p, MoveAgent(p, ports), ports)
<1> DEFINE a == AgentIndex(p)
           m == ports.moved
<1>1. Shaped(p) /\ \A i \in DOMAIN p.containers : p.containers[i].ports \in Seq(1..MaxPort)
  BY DEF WellFormed, Shaped
<1>2. PICK q : q = MoveAgent(p, ports)
  OBVIOUS
<1>3. CASE ports.transparent \/ a = 0
  <2>1. q = p
    BY <1>2, <1>3 DEF MoveAgent
  <2>2. a = 0 => a \notin DOMAIN p.containers
    BY AgentFacts
  <2>3. \A i \in DOMAIN p.containers : ~(~ports.transparent /\ i = a)
    BY <1>3, <2>2
  <2> QED
    BY <1>1, <1>2, <2>1, <2>3 DEF OnlyContainers, Moved
<1>4. CASE ~ports.transparent /\ a # 0
  <2> DEFINE c == p.containers[a]
             d == [c EXCEPT !.ports[1] = m, !.port = m]
             cs == [p.containers EXCEPT ![a] = d]
  <2>1. a \in DOMAIN p.containers /\ c.ports # <<>>
    BY <1>4, AgentFacts
  <2>2. m \in 1..MaxPort
    BY <1>4
  <2>3. /\ IsRecord(d, ContainerFields)
        /\ d.name = c.name /\ d.proxy = c.proxy /\ d.mounts = c.mounts /\ d.port = m
        /\ d.ports \in Seq(1..MaxPort) /\ Range(d.ports) \subseteq Range(c.ports) \cup {m}
    <3>1. IsRecord(c, ContainerFields) /\ c.ports \in Seq(1..MaxPort)
      BY <1>1, <2>1 DEF Shaped
    <3> QED
      BY <2>1, <2>2, <3>1, ContainerMoved
  <2>4. q = [p EXCEPT !.containers = cs]
    BY <1>2, <1>4 DEF MoveAgent
  <2>5. DOMAIN cs = DOMAIN p.containers /\ cs[a] = d
        /\ \A i \in DOMAIN p.containers : i # a => cs[i] = p.containers[i]
    BY <2>1
  <2>6. IsSequence(cs)
    <3>1. Len(p.containers) \in Nat /\ DOMAIN p.containers = 1..Len(p.containers)
      BY <1>1, SequenceRange DEF Shaped, IsSequence
    <3>2. cs = [i \in 1..Len(p.containers) |-> cs[i]]
      BY <3>1
    <3> HIDE DEF cs
    <3> QED
      BY <3>1, <3>2, FunctionIsSequence
  <2> HIDE DEF cs, d
  <2>7. Sets(p, q, "containers", cs)
    BY <1>1, <2>4, PodUpdated DEF Shaped
  <2>8. q.containers = cs /\ IsRecord(q, PodFields)
    BY <2>7 DEF Sets
  <2>9. Shaped(q)
    BY <1>1, <2>3, <2>5, <2>6, <2>8 DEF Shaped
  <2>10. OnlyContainers(p, q)
    BY <2>7, <2>9, SetsOne DEF OnlyContainers
  <2>11. Moved(p, q, ports)
    <3> SUFFICES ASSUME NEW i \in DOMAIN p.containers
                 PROVE  /\ cs[i].name = p.containers[i].name
                        /\ cs[i].proxy = p.containers[i].proxy /\ cs[i].mounts = p.containers[i].mounts
                        /\ cs[i].ports \in Seq(1..MaxPort)
                        /\ IF ~ports.transparent /\ i = a
                             THEN /\ cs[i].port = m
                                  /\ Range(cs[i].ports) \subseteq Range(p.containers[i].ports) \cup {m}
                             ELSE cs[i].port = p.containers[i].port /\ cs[i].ports = p.containers[i].ports
      BY <2>5, <2>8 DEF Moved
    <3>1. CASE i = a
      BY <1>4, <2>3, <2>5, <3>1
    <3>2. CASE i # a
      BY <1>1, <2>5, <3>2
    <3> QED
      BY <3>1, <3>2
  <2> QED
    BY <1>2, <2>10, <2>11
<1> QED
  BY <1>3, <1>4

\* A container the Pod has none of the name of.
LEMMA ContainerAdded ==
  ASSUME NEW p, Shaped(p), NEW new, IsRecord(new, ContainerFields), ~Has(p, new.name)
  PROVE  /\ OnlyContainers(p, AddContainer(p, new))
         /\ Extends(p.containers, new, AddContainer(p, new).containers)
<1>1. PICK q : q = AddContainer(p, new)
  OBVIOUS
<1>2. q = [p EXCEPT !.containers = Append(p.containers, new)]
  BY <1>1 DEF AddContainer, Has
<1>3. Sets(p, q, "containers", Append(p.containers, new))
  BY <1>2, PodUpdated DEF Shaped
<1>4. IsRecord(q, PodFields) /\ q.containers = Append(p.containers, new)
  BY <1>3 DEF Sets
<1>5. Extends(p.containers, new, q.containers)
  BY <1>4, AppendSequence DEF Shaped
<1>6. Shaped(q)
  <2>1. IsSequence(q.containers)
    BY <1>5 DEF Extends
  <2>2. \A i \in DOMAIN q.containers : IsRecord(q.containers[i], ContainerFields)
    BY <1>5 DEF Extends, Shaped
  <2> QED
    BY <1>4, <2>1, <2>2 DEF Shaped
<1>7. OnlyContainers(p, q)
  BY <1>3, <1>6, SetsOne DEF OnlyContainers
<1> QED
  BY <1>1, <1>5, <1>7

\* The same container, told of the proxy at port f.
Announces(c, d, f) ==
    /\ d.name = c.name /\ d.ports = c.ports /\ d.port = c.port /\ d.mounts = c.mounts
    /\ d.proxy = IF c.name # ProxyContainer /\ c.proxy = NoPort THEN f ELSE c.proxy

\* HTTP_PROXY.
LEMMA ProxyAnnounced ==
  ASSUME NEW p, Shaped(p), NEW f
  PROVE  LET q == InjectHTTPProxyEnv(p, f)
         IN  /\ OnlyContainers(p, q) /\ DOMAIN q.containers = DOMAIN p.containers
             /\ \A i \in DOMAIN p.containers : Announces(p.containers[i], q.containers[i], f)
<1> DEFINE told(c) == IF c.name # ProxyContainer /\ c.proxy = NoPort THEN [c EXCEPT !.proxy = f] ELSE c
           cs == [i \in DOMAIN p.containers |-> told(p.containers[i])]
<1>1. PICK q : q = InjectHTTPProxyEnv(p, f)
  OBVIOUS
<1>2. q = [p EXCEPT !.containers = cs]
  BY <1>1 DEF InjectHTTPProxyEnv
<1>3. ASSUME NEW c, IsRecord(c, ContainerFields)
      PROVE  /\ IsRecord(told(c), ContainerFields) /\ told(c).name = c.name
             /\ told(c).ports = c.ports /\ told(c).port = c.port /\ told(c).mounts = c.mounts
             /\ told(c).proxy = IF c.name # ProxyContainer /\ c.proxy = NoPort THEN f ELSE c.proxy
  <2>1. CASE c.name # ProxyContainer /\ c.proxy = NoPort
    <3>1. PICK d : d = [c EXCEPT !.proxy = f] /\ d = told(c)
      BY <2>1
    <3>2. {"name", "ports", "proxy", "port", "mounts"} \subseteq DOMAIN c
      BY <1>3 DEF IsRecord, ContainerFields
    <3>3. IsRecord(d, ContainerFields)
      BY <1>3, <3>1 DEF IsRecord
    <3>4. d.name = c.name /\ d.ports = c.ports /\ d.port = c.port /\ d.mounts = c.mounts /\ d.proxy = f
      BY <3>1, <3>2
    <3> HIDE DEF told
    <3> QED
      BY <2>1, <3>1, <3>3, <3>4
  <2>2. CASE ~(c.name # ProxyContainer /\ c.proxy = NoPort)
    <3>1. told(c) = c
      BY <2>2
    <3> HIDE DEF told
    <3> QED
      BY <1>3, <2>2, <3>1
  <2> QED
    BY <2>1, <2>2
<1>4. IsSequence(cs)
  <2>1. Len(p.containers) \in Nat /\ DOMAIN p.containers = 1..Len(p.containers)
    BY SequenceRange DEF Shaped, IsSequence
  <2>2. cs = [i \in 1..Len(p.containers) |-> cs[i]]
    BY <2>1
  <2> HIDE DEF cs
  <2> QED
    BY <2>1, <2>2, FunctionIsSequence
<1>5. DOMAIN cs = DOMAIN p.containers /\ \A i \in DOMAIN p.containers : cs[i] = told(p.containers[i])
  OBVIOUS
<1> HIDE DEF cs, told
<1>6. Sets(p, q, "containers", cs)
  BY <1>2, PodUpdated DEF Shaped
<1>7. q.containers = cs /\ IsRecord(q, PodFields)
  BY <1>6 DEF Sets
<1>8. Shaped(q)
  BY <1>3, <1>4, <1>5, <1>7 DEF Shaped
<1>9. OnlyContainers(p, q)
  BY <1>6, <1>8, SetsOne DEF OnlyContainers
<1>10. ASSUME NEW i \in DOMAIN p.containers
       PROVE  Announces(p.containers[i], q.containers[i], f)
  <2>1. IsRecord(p.containers[i], ContainerFields)
    BY DEF Shaped
  <2> QED
    BY <1>3, <1>5, <1>7, <2>1 DEF Announces
<1> QED
  BY <1>1, <1>5, <1>7, <1>9, <1>10

\* The sidecars.
IsSidecar(s, name, ports, mounts) ==
    /\ IsRecord(s, ContainerFields) /\ s.name = name /\ s.ports = ports
    /\ s.proxy = NoPort /\ s.port = NoPort /\ s.mounts = mounts

SidecarMounts(spire) ==
    {<<"shared-data">>, <<"authbridge-runtime-config">>, <<"authproxy-routes">>} \cup SpireMounts(spire)

\* ... as built.
LEMMA SidecarShape ==
  ASSUME NEW name, NEW ports, NEW mounts, NEW spire
  PROVE  IsSidecar(Sidecar(name, ports, mounts, spire), name, ports, mounts \cup SidecarMounts(spire))
<1>1. PICK all : all = {<<"shared-data">>, <<"authbridge-runtime-config">>, <<"authproxy-routes">>}
                       \cup mounts \cup SpireMounts(spire)
  OBVIOUS
<1>2. PICK s : s = [name |-> name, ports |-> ports, proxy |-> NoPort, port |-> NoPort, mounts |-> all]
  OBVIOUS
<1>3. s = Sidecar(name, ports, mounts, spire)
  BY <1>1, <1>2 DEF Sidecar
<1>4. IsRecord(s, ContainerFields)
  BY <1>2, SMT DEF IsRecord, ContainerFields
<1>5. s.name = name /\ s.ports = ports /\ s.proxy = NoPort /\ s.port = NoPort /\ s.mounts = all
  BY <1>2
<1>6. all = mounts \cup SidecarMounts(spire)
  BY <1>1 DEF SidecarMounts
<1> QED
  BY <1>3, <1>4, <1>5, <1>6 DEF IsSidecar

\* A container of the application, in a Pod that gets the proxy.
Told(p, i, d, ports) ==
    LET c == p.containers[i]
    IN  /\ d.name = c.name /\ d.name # ProxyContainer
        /\ d.proxy \in {1, ports.forward}
        /\ d.ports \in Seq(1..MaxPort)
        /\ IF ~ports.transparent /\ i = AgentIndex(p)
             THEN d.port = ports.moved /\ Range(d.ports) \subseteq Range(c.ports) \cup {ports.moved}
             ELSE d.port = NoPort /\ d.ports = c.ports

\* The sidecar comes last.
Placed(p, q, ports, spire) ==
    LET k == Len(p.containers) + 1
    IN  /\ DOMAIN q.containers = DOMAIN p.containers \cup {k} /\ k \notin DOMAIN p.containers
        /\ q.containers[k].name = ProxyContainer
        /\ q.containers[k].ports = <<ports.inbound, ports.forward>>
        /\ q.containers[k].port = NoPort
        /\ SpireMounts(spire) \subseteq q.containers[k].mounts
        /\ \A i \in DOMAIN p.containers : Told(p, i, q.containers[i], ports)

\* Move, join and announce.
LEMMA ProxyJoined ==
  ASSUME NEW p, WellFormed(p), ~Has(p, ProxyContainer), NEW spire,
         NEW ports, ports.transparent \/ ports.moved \in 1..MaxPort
  PROVE  LET q == InjectHTTPProxyEnv(AddContainer(MoveAgent(p, ports), ProxySidecar(ports, spire)),
                                     ports.forward)
         IN  /\ OnlyContainers(p, q) /\ Placed(p, q, ports, spire)
             /\ MountedBut(q, SidecarMounts(spire))
<1> DEFINE k == Len(p.containers) + 1
<1>1. PICK m : m = MoveAgent(p, ports)
  OBVIOUS
<1>2. OnlyContainers(p, m) /\ Moved(p, m, ports)
  BY <1>1, AgentMoved
<1>3. PICK s : s = ProxySidecar(ports, spire)
  OBVIOUS
<1>4. /\ IsRecord(s, ContainerFields) /\ s.name = ProxyContainer /\ s.port = NoPort
      /\ s.ports = <<ports.inbound, ports.forward>> /\ s.mounts = SidecarMounts(spire)
  <2>1. PICK ps : ps = <<ports.inbound, ports.forward>>
    OBVIOUS
  <2>2. s = Sidecar(ProxyContainer, ps, {}, spire)
    BY <1>3, <2>1 DEF ProxySidecar
  <2>3. IsSidecar(s, ProxyContainer, ps, {} \cup SidecarMounts(spire))
    BY <2>2, SidecarShape
  <2> QED
    BY <2>1, <2>3 DEF IsSidecar
<1>5. PICK a : a = AddContainer(m, s)
  OBVIOUS
<1>6. OnlyContainers(m, a) /\ Extends(m.containers, s, a.containers)
  <2>1. ~Has(m, s.name)
    BY <1>2, <1>4 DEF Has, Moved
  <2> QED
    BY <1>2, <1>4, <1>5, <2>1, ContainerAdded DEF OnlyContainers
<1>7. PICK q : q = InjectHTTPProxyEnv(a, ports.forward)
  OBVIOUS
<1>8. /\ OnlyContainers(a, q) /\ DOMAIN q.containers = DOMAIN a.containers
      /\ \A i \in DOMAIN a.containers : Announces(a.containers[i], q.containers[i], ports.forward)
  <2>1. Shaped(a)
    BY <1>6 DEF OnlyContainers
  <2> QED
    BY <1>7, <2>1, ProxyAnnounced
<1>9. OnlyContainers(p, q)
  BY <1>2, <1>6, <1>8 DEF OnlyContainers
<1>10. /\ Len(m.containers) = Len(p.containers) /\ DOMAIN m.containers = DOMAIN p.containers
       /\ k \notin DOMAIN p.containers
  <2>1. IsSequence(m.containers) /\ IsSequence(p.containers)
    BY <1>2 DEF OnlyContainers, Shaped, WellFormed
  <2>2. /\ DOMAIN m.containers = 1..Len(m.containers) /\ Len(m.containers) \in Nat
        /\ DOMAIN p.containers = 1..Len(p.containers) /\ Len(p.containers) \in Nat
    BY <2>1, SequenceRange DEF IsSequence
  <2>3. DOMAIN m.containers = DOMAIN p.containers
    BY <1>2 DEF Moved
  <2>4. Len(m.containers) = Len(p.containers) /\ k \notin DOMAIN p.containers
    BY <2>2, <2>3, SMT
  <2> QED
    BY <2>3, <2>4
<1>11. /\ DOMAIN a.containers = DOMAIN p.containers \cup {k} /\ a.containers[k] = s
       /\ \A i \in DOMAIN p.containers : a.containers[i] = m.containers[i]
  BY <1>6, <1>10 DEF Extends
<1>12. ASSUME NEW i \in DOMAIN p.containers
       PROVE  Told(p, i, q.containers[i], ports) /\ q.containers[i].mounts = p.containers[i].mounts
  <2>1. p.containers[i].port = NoPort /\ p.containers[i].proxy \in {NoPort, 1}
    BY DEF WellFormed
  <2>2. p.containers[i].name # ProxyContainer
    BY DEF Has
  <2>3. /\ q.containers[i].name = m.containers[i].name /\ q.containers[i].ports = m.containers[i].ports
        /\ q.containers[i].port = m.containers[i].port /\ q.containers[i].mounts = m.containers[i].mounts
        /\ q.containers[i].proxy =
             IF m.containers[i].name # ProxyContainer /\ m.containers[i].proxy = NoPort
               THEN ports.forward ELSE m.containers[i].proxy
    BY <1>8, <1>11 DEF Announces
  <2>4. /\ m.containers[i].name = p.containers[i].name /\ m.containers[i].proxy = p.containers[i].proxy
        /\ m.containers[i].mounts = p.containers[i].mounts
        /\ m.containers[i].ports \in Seq(1..MaxPort)
        /\ IF ~ports.transparent /\ i = AgentIndex(p)
             THEN /\ m.containers[i].port = ports.moved
                  /\ Range(m.containers[i].ports) \subseteq Range(p.containers[i].ports) \cup {ports.moved}
             ELSE /\ m.containers[i].port = p.containers[i].port
                  /\ m.containers[i].ports = p.containers[i].ports
    BY <1>2 DEF Moved
  <2>5. q.containers[i].proxy \in {1, ports.forward}
    BY <2>1, <2>2, <2>3, <2>4
  <2>6. IF ~ports.transparent /\ i = AgentIndex(p)
          THEN /\ q.containers[i].port = ports.moved
               /\ Range(q.containers[i].ports) \subseteq Range(p.containers[i].ports) \cup {ports.moved}
          ELSE q.containers[i].port = NoPort /\ q.containers[i].ports = p.containers[i].ports
    BY <2>1, <2>3, <2>4
  <2> QED
    BY <2>2, <2>3, <2>4, <2>5, <2>6 DEF Told
<1>13. /\ q.containers[k].name = ProxyContainer /\ q.containers[k].port = NoPort
       /\ q.containers[k].ports = <<ports.inbound, ports.forward>>
       /\ q.containers[k].mounts = SidecarMounts(spire)
  BY <1>4, <1>8, <1>11 DEF Announces
<1>14. Placed(p, q, ports, spire)
  BY <1>8, <1>10, <1>11, <1>12, <1>13 DEF Placed, SidecarMounts
<1>15. MountedBut(q, SidecarMounts(spire))
  <2>1. \A i \in DOMAIN p.containers : p.containers[i].mounts \subseteq VolumeNames(p) \cup {<<"shared-data">>}
    BY DEF WellFormed
  <2>2. VolumeNames(q) = VolumeNames(p)
    BY <1>9 DEF OnlyContainers, VolumeNames
  <2>3. <<"shared-data">> \in SidecarMounts(spire)
    BY DEF SidecarMounts
  <2>4. DOMAIN q.containers = DOMAIN p.containers \cup {k}
    BY <1>8, <1>11
  <2> QED
    BY <1>12, <1>13, <2>1, <2>2, <2>3, <2>4 DEF MountedBut
<1> QED
  BY <1>1, <1>3, <1>5, <1>7, <1>9, <1>14, <1>15

\* More mounts change nothing of that.
LEMMA PlacedStays ==
  ASSUME NEW p, NEW q, NEW r, NEW ports, NEW spire, Placed(p, q, ports, spire), Remounts(q, r)
  PROVE  Placed(p, r, ports, spire)
<1> DEFINE k == Len(p.containers) + 1
<1>1. /\ DOMAIN q.containers = DOMAIN p.containers \cup {k} /\ k \notin DOMAIN p.containers
      /\ q.containers[k].name = ProxyContainer
      /\ q.containers[k].ports = <<ports.inbound, ports.forward>>
      /\ q.containers[k].port = NoPort
      /\ SpireMounts(spire) \subseteq q.containers[k].mounts
      /\ \A i \in DOMAIN p.containers : Told(p, i, q.containers[i], ports)
  BY DEF Placed
<1>2. /\ DOMAIN r.containers = DOMAIN q.containers
      /\ \A i \in DOMAIN q.containers :
           /\ r.containers[i].name = q.containers[i].name /\ r.containers[i].ports = q.containers[i].ports
           /\ r.containers[i].proxy = q.containers[i].proxy /\ r.containers[i].port = q.containers[i].port
           /\ q.containers[i].mounts \subseteq r.containers[i].mounts
  BY DEF Remounts, SameContainer
<1>3. ASSUME NEW i \in DOMAIN p.containers PROVE Told(p, i, r.containers[i], ports)
  <2>1. PICK d, e : d = q.containers[i] /\ e = r.containers[i]
    OBVIOUS
  <2>2. e.name = d.name /\ e.ports = d.ports /\ e.proxy = d.proxy /\ e.port = d.port
    BY <1>1, <1>2, <2>1
  <2>3. Told(p, i, d, ports)
    BY <1>1, <2>1
  <2>4. Told(p, i, e, ports)
    BY <2>2, <2>3 DEF Told
  <2> QED
    BY <2>1, <2>4
<1>4. /\ r.containers[k].name = ProxyContainer
      /\ r.containers[k].ports = <<ports.inbound, ports.forward>> /\ r.containers[k].port = NoPort
      /\ SpireMounts(spire) \subseteq r.containers[k].mounts
  BY <1>1, <1>2
<1> QED
  BY <1>1, <1>2, <1>3, <1>4 DEF Placed

-----------------------------------------------------------------------------
(* The whole Pod.                                                          *)

\* The volumes the webhook adds are those its sidecars mount.
LEMMA RequiredNames ==
  ASSUME NEW n, NEW spire \in BOOLEAN, NEW routes, NEW envoy
  PROVE  SidecarMounts(spire) \cup {<<"envoy-config">>} \subseteq
           {v.name : v \in RequiredVolumes(n, spire, routes, envoy)}
<1> DEFINE vs == RequiredVolumes(n, spire, routes, envoy)
           names == {v.name : v \in vs}
<1>1. ASSUME NEW name, NEW source, NEW required, Volume(name, source, required) \in vs
      PROVE  name \in names
  <2>1. Volume(name, source, required).name = name
    BY DEF Volume
  <2> QED
    BY <1>1, <2>1
<1>2. <<"shared-data">> \in names
  <2>1. Volume(<<"shared-data">>, <<"emptyDir">>, FALSE) \in vs
    BY DEF RequiredVolumes
  <2> QED
    BY <1>1, <2>1
<1>3. <<"authbridge-runtime-config">> \in names
  <2>1. Volume(<<"authbridge-runtime-config">>, <<"config", n>>, FALSE) \in vs
    BY DEF RequiredVolumes
  <2> QED
    BY <1>1, <2>1
<1>4. <<"authproxy-routes">> \in names
  <2>1. PICK source : source = IF routes THEN <<"routes", n>> ELSE <<"authproxy-routes">>
    OBVIOUS
  <2>2. Volume(<<"authproxy-routes">>, source, routes) \in vs
    BY <2>1 DEF RequiredVolumes
  <2> QED
    BY <1>1, <2>2
<1>5. <<"envoy-config">> \in names
  <2>1. PICK source : source = IF envoy THEN <<"envoy", n>> ELSE <<"envoy-config">>
    OBVIOUS
  <2>2. Volume(<<"envoy-config">>, source, FALSE) \in vs
    BY <2>1 DEF RequiredVolumes
  <2> QED
    BY <1>1, <2>2
<1>6. SpireMounts(spire) \subseteq names
  <2>1. CASE spire
    <3>1. SpireVolumes \subseteq vs
      BY <2>1 DEF RequiredVolumes
    <3>2. <<"spire-agent-socket">> \in names
      BY <1>1, <3>1 DEF SpireVolumes
    <3>3. <<"spiffe-helper-config">> \in names
      BY <1>1, <3>1 DEF SpireVolumes
    <3>4. <<"svid-output">> \in names
      BY <1>1, <3>1 DEF SpireVolumes
    <3> HIDE DEF names
    <3> QED
      BY <2>1, <3>2, <3>3, <3>4 DEF SpireMounts
  <2>2. CASE ~spire
    BY <2>2 DEF SpireMounts
  <2> QED
    BY <2>1, <2>2
<1> HIDE DEF names
<1>7. SidecarMounts(spire) \cup {<<"envoy-config">>} \subseteq names
  BY <1>2, <1>3, <1>4, <1>5, <1>6 DEF SidecarMounts
<1> QED
  BY <1>7 DEF names

\* With the volumes and the credentials, what is mounted is there.
LEMMA VolumesMounted ==
  ASSUME NEW p, Shaped(p), NEW X, MountedBut(p, X), NEW vs, X \subseteq {v.name : v \in vs}
  PROVE  LET q == ApplyCredentials(AddVolumes(p, vs))
         IN  Remounts(p, q) /\ MountedBut(q, {})
<1>1. PICK v : v = AddVolumes(p, vs)
  OBVIOUS
<1>2. /\ Remounts(p, v) /\ v.containers = p.containers
      /\ VolumeNames(v) = VolumeNames(p) \cup {w.name : w \in vs}
  BY <1>1, VolumesAdded
<1>3. Shaped(v) /\ MountedBut(v, {})
  BY <1>2 DEF Remounts, MountedBut
<1>4. Remounts(v, ApplyCredentials(v)) /\ MountedBut(ApplyCredentials(v), {})
  BY <1>3, CredentialsApplied
<1>5. Remounts(p, ApplyCredentials(v))
  BY <1>2, <1>4, RemountsTwice
<1> QED
  BY <1>1, <1>4, <1>5

\* No init container is proxy-init yet.
Unguarded(p) == \A i \in DOMAIN p.inits : p.inits[i].name # ProxyInit

\* What becomes of the init containers.
Guard(in, ports) ==
    IF ExtractEgressEnforcement(in.yaml, in.platform) = "enforce-redirect"
      THEN {BuildProxyInit(ports, in.platform)} ELSE {}

\* A Pod with a proxy.
IsProxyPod(p, q, in, ports, spire) ==
    /\ Shaped(q) /\ Placed(p, q, ports, spire) /\ MountedBut(q, {})
    /\ q.owner = p.owner
    /\ IsSequence(q.inits) /\ Range(q.inits) = Range(p.inits) \cup Guard(in, ports)
    /\ ExtractTLSBridgeMode(in.yaml) = "enabled" =>
         <<"tls-bridge-ca">> \in q.containers[Len(p.containers) + 1].mounts

\* ... as made.
LEMMA ProxyPodMade ==
  ASSUME NEW p, WellFormed(p), ~Has(p, ProxyContainer), Unguarded(p), NEW spire \in BOOLEAN,
         NEW ports, ports.transparent \/ ports.moved \in 1..MaxPort, NEW n, NEW in
  PROVE  IsProxyPod(p, ProxyPod(p, n, in, ports, spire), in, ports, spire)
<1> DEFINE k == Len(p.containers) + 1
           on == ExtractTLSBridgeMode(in.yaml) = "enabled"
<1>1. PICK e : e = InjectHTTPProxyEnv(AddContainer(MoveAgent(p, ports), ProxySidecar(ports, spire)),
                                      ports.forward)
  OBVIOUS
<1>2. OnlyContainers(p, e) /\ Placed(p, e, ports, spire) /\ MountedBut(e, SidecarMounts(spire))
  BY <1>1, ProxyJoined
<1>3. PICK g : g = IF ExtractEgressEnforcement(in.yaml, in.platform) = "enforce-redirect"
                     THEN AddInit(e, BuildProxyInit(ports, in.platform)) ELSE e
  OBVIOUS
<1>4. OnlyInits(e, g, Guard(in, ports))
  <2>1. Shaped(e) /\ IsSequence(e.inits) /\ \A i \in DOMAIN e.inits : e.inits[i].name # ProxyInit
    BY <1>2 DEF OnlyContainers, WellFormed, Unguarded
  <2>2. CASE ExtractEgressEnforcement(in.yaml, in.platform) = "enforce-redirect"
    <3>1. PICK i : i = BuildProxyInit(ports, in.platform)
      OBVIOUS
    <3>2. i.name = ProxyInit
      BY <3>1 DEF BuildProxyInit
    <3>3. g = AddInit(e, i) /\ Guard(in, ports) = {i}
      BY <1>3, <2>2, <3>1 DEF Guard
    <3> QED
      BY <2>1, <3>2, <3>3, InitAdded
  <2>3. CASE ExtractEgressEnforcement(in.yaml, in.platform) # "enforce-redirect"
    BY <1>3, <2>1, <2>3 DEF Guard, OnlyInits
  <2> QED
    BY <2>2, <2>3
<1>5. Placed(p, g, ports, spire) /\ MountedBut(g, SidecarMounts(spire))
  BY <1>2, <1>4 DEF Placed, MountedBut, VolumeNames, OnlyInits
<1>6. PICK vs : vs = RequiredVolumes(n, spire, in.rt.routes, FALSE)
  OBVIOUS
<1>7. PICK m : m = ApplyCredentials(AddVolumes(g, vs))
  OBVIOUS
<1>8. Remounts(g, m) /\ MountedBut(m, {})
  <2>1. SidecarMounts(spire) \subseteq {v.name : v \in vs}
    BY <1>6, RequiredNames
  <2> QED
    BY <1>4, <1>5, <1>7, <2>1, VolumesMounted DEF OnlyInits
<1>9. Placed(p, m, ports, spire)
  BY <1>5, <1>8, PlacedStays
<1>10. PICK q : q = ProxyPod(p, n, in, ports, spire)
  OBVIOUS
<1>11. q = IF on THEN ApplyTLSBridge(m, n) ELSE m
  BY <1>1, <1>3, <1>6, <1>7, <1>10 DEF ProxyPod
<1>12. /\ Shaped(q) /\ Placed(p, q, ports, spire) /\ MountedBut(q, {})
       /\ q.owner = m.owner /\ q.inits = m.inits
       /\ on => <<"tls-bridge-ca">> \in q.containers[k].mounts
  <2>1. CASE on
    <3>1. Shaped(m)
      BY <1>8 DEF Remounts
    <3>2. /\ Remounts(m, q) /\ MountedBut(q, {})
          /\ \A i \in DOMAIN m.containers : m.containers[i].name = ProxyContainer =>
               <<"tls-bridge-ca">> \in q.containers[i].mounts
      BY <1>8, <1>11, <2>1, <3>1, BridgeApplied
    <3>3. k \in DOMAIN m.containers /\ m.containers[k].name = ProxyContainer
      BY <1>9 DEF Placed
    <3>4. Placed(p, q, ports, spire)
      BY <1>9, <3>2, PlacedStays
    <3> QED
      BY <3>2, <3>3, <3>4 DEF Remounts
  <2>2. CASE ~on
    BY <1>8, <1>9, <1>11, <2>2 DEF Remounts
  <2> QED
    BY <2>1, <2>2
<1>13. q.owner = p.owner /\ q.inits = g.inits
  BY <1>2, <1>4, <1>8, <1>12 DEF Remounts, OnlyContainers, OnlyInits
<1>14. IsSequence(q.inits) /\ Range(q.inits) = Range(p.inits) \cup Guard(in, ports)
  BY <1>2, <1>4, <1>13 DEF OnlyContainers, OnlyInits
<1> QED
  BY <1>10, <1>12, <1>13, <1>14 DEF IsProxyPod

-----------------------------------------------------------------------------
(* What is right about a Pod that got the proxy.                           *)

\* The sidecar is the one container of its name.
LEMMA SidecarFound ==
  ASSUME NEW p, NEW q, NEW ports, NEW spire, Placed(p, q, ports, spire)
  PROVE  SidecarOf(q) = q.containers[Len(p.containers) + 1] /\ AppsOf(q) = DOMAIN p.containers
<1> DEFINE k == Len(p.containers) + 1
<1>1. /\ DOMAIN q.containers = DOMAIN p.containers \cup {k} /\ k \notin DOMAIN p.containers
      /\ q.containers[k].name = ProxyContainer
      /\ \A i \in DOMAIN p.containers : q.containers[i].name # ProxyContainer
  BY DEF Placed, Told
<1> HIDE DEF k
<1>2. AppsOf(q) = DOMAIN p.containers
  BY <1>1 DEF AppsOf
<1>3. q.containers[k] \in Range(q.containers)
  BY <1>1 DEF Range
<1>4. \A c \in Range(q.containers) : c.name = ProxyContainer => c = q.containers[k]
  BY <1>1 DEF Range
<1>5. SidecarOf(q) = q.containers[k]
  <2>1. PICK s : s = SidecarOf(q)
    OBVIOUS
  <2>2. s \in Range(q.containers) /\ s.name = ProxyContainer
    BY <1>1, <1>3, <2>1 DEF SidecarOf
  <2> QED
    BY <1>4, <2>1, <2>2
<1> QED
  BY <1>2, <1>5 DEF k

\* proxy-init captures for a transparent sidecar only.
LEMMA GuardShape ==
  ASSUME NEW in, NEW ports, NEW g \in Guard(in, ports)
  PROVE  /\ g.name = ProxyInit
         /\ g.capture = IF ports.transparent THEN ports.inbound ELSE NoPort
         /\ ports.transparent => g.spared = {ports.forward} \cup Listeners(in.platform)
<1>1. g = BuildProxyInit(ports, in.platform)
  BY DEF Guard
<1>2. PICK s, k : /\ k = IF ports.transparent THEN ports.inbound ELSE NoPort
                  /\ s = IF ports.transparent
                           THEN {ports.forward} \cup AdminPorts
                                \cup {in.platform.transparent, in.platform.transparentInbound}
                           ELSE {}
  OBVIOUS
<1>3. g = [name |-> ProxyInit, capture |-> k, spared |-> s]
  BY <1>1, <1>2 DEF BuildProxyInit
<1>4. g.name = ProxyInit /\ g.capture = k /\ g.spared = s
  BY <1>3
<1>5. ports.transparent => s = {ports.forward} \cup Listeners(in.platform)
  BY <1>2 DEF Listeners
<1> QED
  BY <1>2, <1>4, <1>5

\* proxy-init is the one the webhook added.
LEMMA GuardFound ==
  ASSUME NEW p, NEW q, NEW in, NEW ports, NEW spire, Unguarded(p),
         IsProxyPod(p, q, in, ports, spire)
  PROVE  InitsOf(q) = Guard(in, ports)
<1> USE DEF IsProxyPod
<1>1. \A i \in Range(p.inits) : i.name # ProxyInit
  BY DEF Unguarded, Range
<1>2. \A i \in Guard(in, ports) : i.name = ProxyInit
  BY GuardShape
<1> QED
  BY <1>1, <1>2 DEF InitsOf

\* The lists of a platform configuration.
LEMMA PermittedIn ==
  ASSUME NEW v, NEW allowed, IsSequence(allowed), allowed # <<>>
  PROVE  Permitted(v, allowed) \in Range(allowed)
<1>1. Head(allowed) \in Range(allowed)
  BY HeadIn DEF IsSequence
<1> QED
  BY <1>1 DEF Permitted

\* The modes are among those the platform allows.
LEMMA ModesAllowed ==
  ASSUME NEW y, NEW c, Validate(c), IsSequence(c.allowedInbound), IsSequence(c.allowedEgress)
  PROVE  /\ ExtractEgressEnforcement(y, c) \in Range(c.allowedEgress)
         /\ ExtractEgressEnforcement(y, c) \in {"enforce-redirect", "none"}
         /\ ExtractInboundInterception(y, c) = "transparent" =>
              /\ "transparent" \in Range(c.allowedInbound)
              /\ ExtractEgressEnforcement(y, c) = "enforce-redirect"
<1>1. c.allowedInbound # <<>> /\ c.allowedEgress # <<>>
      /\ Range(c.allowedEgress) \subseteq {"enforce-redirect", "none"}
  BY DEF Validate
<1>2. PICK e : e = Known(y.egress, {"enforce-redirect", "none"}, "enforce-redirect")
  OBVIOUS
<1>3. ExtractEgressEnforcement(y, c) \in Range(c.allowedEgress)
  <2>1. ExtractEgressEnforcement(y, c) = Permitted(e, c.allowedEgress)
    BY <1>2 DEF ExtractEgressEnforcement
  <2> QED
    BY <1>1, <2>1, PermittedIn
<1>4. PICK i : i = Known(y.inbound, {"reverse-proxy", "transparent"}, "reverse-proxy")
  OBVIOUS
<1>5. PICK asked : asked = Permitted(i, c.allowedInbound)
  OBVIOUS
<1>6. asked \in Range(c.allowedInbound)
  BY <1>1, <1>5, PermittedIn
<1>7. ExtractInboundInterception(y, c) =
        IF ExtractEgressEnforcement(y, c) = "enforce-redirect" THEN asked ELSE "reverse-proxy"
  BY <1>4, <1>5 DEF ExtractInboundInterception
<1> QED
  BY <1>1, <1>3, <1>6, <1>7

\* The sidecar's listeners are among the ports in use.
LEMMA ListenersUsed ==
  ASSUME NEW p, NEW c
  PROVE  /\ Listeners(c) = SidecarPorts(c) /\ Listeners(c) \subseteq Used(p, c)
         /\ OriginalPort(p) \in Used(p, c) /\ c.transparentInbound \in Used(p, c)
         /\ \A i \in DOMAIN p.containers : Range(p.containers[i].ports) \subseteq Used(p, c)
<1>1. Listeners(c) = SidecarPorts(c) /\ c.transparentInbound \in SidecarPorts(c)
  BY DEF Listeners, SidecarPorts
<1>2. \A i \in DOMAIN p.containers : Range(p.containers[i].ports) \subseteq DeclaredPorts(p)
  BY DEF DeclaredPorts
<1> QED
  BY <1>1, <1>2 DEF Used

\* The assigned ports are free in the Pod.
LEMMA PortsAreFree ==
  ASSUME NEW p, WellFormed(p), Unguarded(p), NEW q, NEW in, Validate(in.platform),
         NEW asked, NEW spire, NEW ports,
         ports = AssignPorts(p, in.platform, asked), ports.ok,
         IsProxyPod(p, q, in, ports, spire)
  PROVE  PortsFreeIn(q, in.platform)
<1>1. PICK c : c = in.platform
  OBVIOUS
<1>2. /\ ports.forward \in 1..MaxPort /\ ports.forward \notin Used(p, c) \cup {ports.moved}
      /\ ports.transparent => StaysTransparent(p, c) /\ ports.inbound = c.transparentInbound
      /\ ~ports.transparent => /\ ports.moved \in 1..MaxPort /\ ports.moved \notin Used(p, c)
                               /\ ports.inbound = OriginalPort(p)
  BY <1>1, PortsAssigned
<1>3. Placed(p, q, ports, spire)
  BY DEF IsProxyPod
<1>4. InitsOf(q) = Guard(in, ports)
  BY GuardFound
<1>5. AppsOf(q) = DOMAIN p.containers /\ SidecarOf(q).ports = <<ports.inbound, ports.forward>>
  BY <1>3, SidecarFound DEF Placed
<1>6. SidecarOf(q).ports[1] = ports.inbound /\ SidecarOf(q).ports[2] = ports.forward
  BY <1>5, SMT
<1>7. ASSUME NEW i \in DOMAIN p.containers PROVE Told(p, i, q.containers[i], ports)
  BY <1>3 DEF Placed
<1>8. ports.inbound \in Used(p, c)
  BY <1>2, ListenersUsed
<1>9. ASSUME NEW i \in AppsOf(q) PROVE ports.forward \notin Range(q.containers[i].ports)
  <2>1. Range(p.containers[i].ports) \subseteq Used(p, c)
    BY <1>5, ListenersUsed
  <2>2. Range(q.containers[i].ports) \subseteq Range(p.containers[i].ports) \cup {ports.moved}
    BY <1>5, <1>7 DEF Told
  <2> QED
    BY <1>2, <2>1, <2>2
<1>10. ASSUME NEW i \in AppsOf(q), q.containers[i].port # NoPort
       PROVE  /\ q.containers[i].port \in 1..MaxPort
              /\ q.containers[i].port \notin Listeners(c) \cup {ports.inbound}
              /\ \A j \in AppsOf(q) \ {i} : q.containers[i].port \notin Range(q.containers[j].ports)
  <2>1. ~ports.transparent /\ i = AgentIndex(p) /\ q.containers[i].port = ports.moved
    BY <1>5, <1>7, <1>10 DEF Told
  <2>2. ASSUME NEW j \in AppsOf(q) \ {i} PROVE Range(q.containers[j].ports) \subseteq Used(p, c)
    <3>1. q.containers[j].ports = p.containers[j].ports
      BY <1>5, <1>7, <2>1 DEF Told
    <3> QED
      BY <1>5, <3>1, ListenersUsed
  <2>3. Listeners(c) \subseteq Used(p, c)
    BY ListenersUsed
  <2> QED
    BY <1>2, <1>8, <2>1, <2>2, <2>3
<1>11. ASSUME NEW g \in InitsOf(q), g.capture # NoPort, NEW i \in AppsOf(q)
       PROVE  Range(q.containers[i].ports) \cap Listeners(c) = {}
  <2>1. ports.transparent
    <3>1. g \in Guard(in, ports)
      BY <1>4
    <3>2. g.capture = IF ports.transparent THEN ports.inbound ELSE NoPort
      BY <3>1, GuardShape
    <3> QED
      BY <1>11, <3>2
  <2>2. p.containers[i].name # ProxyContainer /\ q.containers[i].ports = p.containers[i].ports
    BY <1>5, <1>7, <2>1 DEF Told
  <2>3. Range(p.containers[i].ports) \cap SidecarPorts(c) = {}
    BY <1>2, <1>5, <2>1, <2>2 DEF StaysTransparent
  <2> QED
    BY <2>2, <2>3, ListenersUsed
<1>12. ports.forward \notin Listeners(c) \cup {ports.inbound}
  BY <1>2, <1>8, ListenersUsed
<1> QED
  BY <1>1, <1>2, <1>6, <1>9, <1>10, <1>11, <1>12 DEF PortsFreeIn

\* The Pod obeys the platform.
LEMMA PodObeys ==
  ASSUME NEW p, WellFormed(p), Unguarded(p), NEW q, NEW in, NEW c, c = in.platform, Validate(c),
         IsSequence(c.allowedInbound), IsSequence(c.allowedEgress), NEW spire, NEW ports,
         ports = AssignPorts(p, c, ExtractInboundInterception(in.yaml, c)), ports.ok,
         IsProxyPod(p, q, in, ports, spire)
  PROVE  Obeys(q, c) /\ (ports.transparent => InitsOf(q) # {})
<1>1. InitsOf(q) = Guard(in, ports)
  BY GuardFound
<1>2. PICK y : y = in.yaml
  OBVIOUS
<1>3. /\ ExtractEgressEnforcement(y, c) \in Range(c.allowedEgress)
      /\ ExtractEgressEnforcement(y, c) \in {"enforce-redirect", "none"}
      /\ ExtractInboundInterception(y, c) = "transparent" =>
           /\ "transparent" \in Range(c.allowedInbound)
           /\ ExtractEgressEnforcement(y, c) = "enforce-redirect"
  BY ModesAllowed
<1>4. InitsOf(q) = {} <=> ExtractEgressEnforcement(y, c) # "enforce-redirect"
  BY <1>1, <1>2 DEF Guard
<1>5. ports.transparent => ExtractInboundInterception(y, c) = "transparent"
  BY <1>2, PortsAssigned
<1>6. ASSUME NEW i \in InitsOf(q), i.capture # NoPort PROVE ports.transparent
  <2>1. i \in Guard(in, ports)
    BY <1>1, <1>6
  <2>2. i.capture = IF ports.transparent THEN ports.inbound ELSE NoPort
    BY <2>1, GuardShape
  <2> QED
    BY <1>6, <2>2
<1> QED
  BY <1>3, <1>4, <1>5, <1>6 DEF Obeys

\* The fields of a per-agent configuration.
IsConfig(doc, y, rt, listener, mtls, bridge, spire) ==
    /\ doc.listener = listener /\ doc.mtls = mtls /\ doc.bridge = (bridge = "enabled")
    /\ doc.spiffe = spire /\ doc.pipeline = RenderPipeline(y, rt) /\ doc.preset = rt.preset
    /\ doc.base = BasePipeline(y).configured

\* ... as rendered.
LEMMA ConfigShape ==
  ASSUME NEW mode, NEW y, NEW rt, NEW listener, NEW mtls, NEW bridge, NEW spire
  PROVE  IsConfig(AgentConfig(mode, y, rt, listener, mtls, bridge, spire),
                  y, rt, listener, mtls, bridge, spire)
<1>1. PICK pl, base, on : /\ pl = RenderPipeline(y, rt) /\ base = BasePipeline(y).configured
                          /\ on = (bridge = "enabled")
  OBVIOUS
<1>2. PICK routed : routed = (rt.routes /\ "token-exchange" \in DOMAIN pl.policy)
  OBVIOUS
<1>3. PICK doc : doc = [mode |-> mode, listener |-> listener, mtls |-> mtls, bridge |-> on,
                        spiffe |-> spire, pipeline |-> pl, preset |-> rt.preset, base |-> base,
                        routed |-> routed]
  OBVIOUS
<1>4. doc = AgentConfig(mode, y, rt, listener, mtls, bridge, spire)
  BY <1>1, <1>2, <1>3 DEF AgentConfig
<1>5. /\ doc.listener = listener /\ doc.mtls = mtls /\ doc.bridge = on
      /\ doc.spiffe = spire /\ doc.pipeline = pl /\ doc.preset = rt.preset
      /\ doc.base = base
  BY <1>3
<1> QED
  BY <1>1, <1>4, <1>5 DEF IsConfig

\* A pipeline that is rendered is sound.
LEMMA PipelineIsSound ==
  ASSUME NEW y, NEW rt, RenderPipeline(y, rt).ok, NEW doc, doc.pipeline = RenderPipeline(y, rt),
         doc.preset = rt.preset, doc.base = BasePipeline(y).configured
  PROVE  PipelineSound(doc)
<1> SUFFICES ASSUME rt.preset # ""
             PROVE  /\ DOMAIN doc.pipeline.policy = Plugins
                    /\ \/ doc.pipeline.policy["token-exchange"] = "off"
                       \/ doc.pipeline.policy["token-broker"] = "off"
                    /\ doc.base \cap Plugins \subseteq doc.pipeline.configured
                    /\ doc.pipeline.policy["ibac"] # "off" => "ibac" \in doc.pipeline.configured
  BY DEF PipelineSound
<1>1. PICK base : base = BasePipeline(y)
  OBVIOUS
<1>2. PICK pl : pl = RenderPipeline(y, rt)
  OBVIOUS
<1>3. pl = SynthesizePresetPipeline(base, rt)
  BY <1>1, <1>2 DEF RenderPipeline
<1>4. PICK policy : policy = ResolvePolicies(rt)
  OBVIOUS
<1>5. ~Rejected.ok
  BY DEF Rejected
<1>6. /\ Exclusive(policy)
      /\ pl = Pipeline(policy, (base.configured \cap Plugins) \cup
                               (IF policy["ibac"] # "off" THEN {"ibac"} ELSE {}))
  BY <1>2, <1>3, <1>4, <1>5 DEF SynthesizePresetPipeline
<1>7. PICK configured : configured = (base.configured \cap Plugins) \cup
                                     (IF policy["ibac"] # "off" THEN {"ibac"} ELSE {})
  OBVIOUS
<1>8. pl.policy = policy /\ pl.configured = configured
  BY <1>6, <1>7 DEF Pipeline
<1>9. DOMAIN policy = Plugins
  BY <1>4 DEF ResolvePolicies
<1>10. policy["token-exchange"] = "off" \/ policy["token-broker"] = "off"
  BY <1>6 DEF Exclusive
<1>11. base.configured \cap Plugins \subseteq configured /\ (policy["ibac"] # "off" => "ibac" \in configured)
  BY <1>7
<1> QED
  BY <1>1, <1>2, <1>8, <1>9, <1>10, <1>11

\* Transparency takes a guard, and mutual TLS takes an identity.
Consistent(q, ports, mtls, spire) ==
    /\ ports.transparent \in BOOLEAN /\ (ports.transparent => InitsOf(q) # {})
    /\ spire \in BOOLEAN /\ (mtls # "disabled" => spire)

\* The configuration fits the Pod.
LEMMA ConfigFits ==
  ASSUME NEW p, Unguarded(p), NEW q, NEW in, NEW spire, NEW ports, NEW mtls,
         Consistent(q, ports, mtls, spire), IsProxyPod(p, q, in, ports, spire),
         RenderPipeline(in.yaml, in.rt).ok,
         NEW doc, IsConfig(doc, in.yaml, in.rt, Listener(ports), mtls,
                           ExtractTLSBridgeMode(in.yaml), spire)
  PROVE  Fits(q, doc, in.platform)
<1> DEFINE k == Len(p.containers) + 1
           c == in.platform
<1>1. PICK l : l = Listener(ports)
  OBVIOUS
<1>2. /\ l.transparent = ports.transparent /\ l.inbound = ports.inbound
      /\ l.backend = ports.moved /\ l.forward = ports.forward
  BY <1>1 DEF Listener
<1>3. /\ doc.listener = l /\ doc.mtls = mtls /\ doc.spiffe = spire
      /\ doc.bridge = (ExtractTLSBridgeMode(in.yaml) = "enabled")
      /\ doc.pipeline = RenderPipeline(in.yaml, in.rt) /\ doc.preset = in.rt.preset
      /\ doc.base = BasePipeline(in.yaml).configured
  BY <1>1 DEF IsConfig
<1>4. PipelineSound(doc)
  BY <1>3, PipelineIsSound
<1>5. Placed(p, q, ports, spire) /\ MountedBut(q, {})
  BY DEF IsProxyPod
<1>6. SidecarOf(q) = q.containers[k] /\ AppsOf(q) = DOMAIN p.containers
  BY <1>5, SidecarFound
<1>7. InitsOf(q) = Guard(in, ports)
  BY GuardFound
<1>8. SidecarOf(q).ports = <<l.inbound, l.forward>>
  BY <1>2, <1>5, <1>6 DEF Placed
<1>9. ASSUME NEW i \in AppsOf(q)
      PROVE  q.containers[i].proxy \in {1, l.forward} /\ q.containers[i].port \in {NoPort, l.backend}
  <2>1. Told(p, i, q.containers[i], ports)
    BY <1>5, <1>6 DEF Placed
  <2> QED
    BY <1>2, <2>1 DEF Told
<1>10. ASSUME NEW i \in InitsOf(q)
       PROVE  IF l.transparent
                THEN i.capture = l.inbound /\ i.spared = {l.forward} \cup Listeners(c)
                ELSE i.capture = NoPort
  <2>1. i \in Guard(in, ports)
    BY <1>7
  <2>2. /\ i.capture = IF ports.transparent THEN ports.inbound ELSE NoPort
        /\ ports.transparent => i.spared = {ports.forward} \cup Listeners(c)
    BY <2>1, GuardShape
  <2> QED
    BY <1>2, <2>2 DEF Consistent
<1>11. l.transparent => InitsOf(q) # {}
  BY <1>2 DEF Consistent
<1>12. doc.mtls # "disabled" => doc.spiffe
  BY <1>3 DEF Consistent
<1>13. doc.spiffe => SpireMounts(TRUE) \subseteq SidecarOf(q).mounts
  BY <1>3, <1>5, <1>6 DEF Placed, Consistent
<1>14. doc.bridge => <<"tls-bridge-ca">> \in SidecarOf(q).mounts
  BY <1>3, <1>6 DEF IsProxyPod
<1>15. \A m \in Range(q.containers) : m.mounts \subseteq VolumeNames(q)
  BY <1>5 DEF MountedBut, Range
<1> QED
  BY <1>3, <1>4, <1>8, <1>9, <1>10, <1>11, <1>12, <1>13, <1>14, <1>15 DEF Fits

\* ... and the Pod is well-formed.
LEMMA ProxyPodWellFormed ==
  ASSUME NEW p, WellFormed(p), NEW q, NEW in, NEW c, Validate(c), NEW asked, NEW spire, NEW ports,
         ports = AssignPorts(p, c, asked), ports.ok, IsProxyPod(p, q, in, ports, spire)
  PROVE  WellFormed(q) /\ Has(q, ProxyContainer)
<1> DEFINE k == Len(p.containers) + 1
<1>1. Shaped(q) /\ Placed(p, q, ports, spire) /\ MountedBut(q, {}) /\ IsSequence(q.inits)
  BY DEF IsProxyPod
<1>2. /\ DOMAIN q.containers = DOMAIN p.containers \cup {k}
      /\ q.containers[k].name = ProxyContainer /\ q.containers[k].ports = <<ports.inbound, ports.forward>>
      /\ \A i \in DOMAIN p.containers : Told(p, i, q.containers[i], ports)
  BY <1>1 DEF Placed
<1>3. Has(q, ProxyContainer)
  BY <1>2 DEF Has
<1>4. ports.inbound \in 1..MaxPort /\ ports.forward \in 1..MaxPort
  <2>1. Used(p, c) \in SUBSET (1..MaxPort)
    BY UsedFinite
  <2>2. /\ ports.forward \in 1..MaxPort /\ ports.transparent \in BOOLEAN
        /\ ports.transparent => ports.inbound = c.transparentInbound
        /\ ~ports.transparent => ports.inbound = OriginalPort(p)
    BY PortsAssigned
  <2>3. ports.inbound \in Used(p, c)
    BY <2>2, ListenersUsed
  <2> QED
    BY <2>1, <2>2, <2>3
<1>5. q.containers[k].ports \in Seq(1..MaxPort)
  <2>1. PICK S : S = 1..MaxPort
    OBVIOUS
  <2>2. ASSUME NEW a \in S, NEW b \in S PROVE <<a, b>> \in Seq(S)
    BY SMT
  <2> QED
    BY <1>2, <1>4, <2>1, <2>2
<1>6. ASSUME NEW i \in DOMAIN q.containers PROVE q.containers[i].ports \in Seq(1..MaxPort)
  BY <1>2, <1>5 DEF Told
<1> QED
  BY <1>1, <1>3, <1>6 DEF WellFormed, Shaped, MountedBut

-----------------------------------------------------------------------------
(* The injection.                                                          *)

\* More mounts keep a Pod well-formed.
LEMMA RemountedWellFormed ==
  ASSUME NEW p, WellFormed(p), NEW q, Remounts(p, q), MountedBut(q, {<<"shared-data">>})
  PROVE  WellFormed(q) /\ \A name : Has(q, name) <=> Has(p, name)
<1>1. /\ Shaped(q) /\ q.inits = p.inits /\ DOMAIN q.containers = DOMAIN p.containers
      /\ \A i \in DOMAIN p.containers : SameContainer(p.containers[i], q.containers[i])
  BY DEF Remounts
<1>2. \A name : Has(q, name) <=> Has(p, name)
  BY <1>1 DEF Has, SameContainer
<1>3. ASSUME NEW i \in DOMAIN q.containers
      PROVE  /\ q.containers[i].ports \in Seq(1..MaxPort)
             /\ ~Has(q, ProxyContainer) =>
                  q.containers[i].port = NoPort /\ q.containers[i].proxy \in {NoPort, 1}
  <2>1. /\ p.containers[i].ports \in Seq(1..MaxPort)
        /\ ~Has(p, ProxyContainer) =>
             p.containers[i].port = NoPort /\ p.containers[i].proxy \in {NoPort, 1}
    BY <1>1 DEF WellFormed
  <2> QED
    BY <1>1, <1>2, <2>1 DEF SameContainer
<1>4. IsSequence(q.inits)
  BY <1>1 DEF WellFormed
<1>5. \A i \in DOMAIN q.containers :
        q.containers[i].mounts \subseteq VolumeNames(q) \cup {<<"shared-data">>}
  BY DEF MountedBut
<1> QED
  BY <1>1, <1>2, <1>3, <1>4, <1>5 DEF WellFormed, Shaped

\* The credentials alone: what a repeated admission does.
LEMMA CredentialsWellFormed ==
  ASSUME NEW p, WellFormed(p)
  PROVE  /\ WellFormed(ApplyCredentials(p)) /\ Remounts(p, ApplyCredentials(p))
         /\ \A name : Has(ApplyCredentials(p), name) <=> Has(p, name)
<1>1. Shaped(p) /\ MountedBut(p, {<<"shared-data">>})
  BY DEF WellFormed, Shaped, MountedBut
<1>2. Remounts(p, ApplyCredentials(p)) /\ MountedBut(ApplyCredentials(p), {<<"shared-data">>})
  BY <1>1, CredentialsApplied
<1> QED
  BY <1>2, RemountedWellFormed

\* A Pod that nothing was injected into.
Fresh(p) == ~Has(p, ProxyContainer) /\ ~Has(p, EnvoyContainer) /\ Unguarded(p)

\* A Pod with an Envoy sidecar, or with volumes alone.
LEMMA EnvoyPodMade ==
  ASSUME NEW p, WellFormed(p), Fresh(p), NEW n, NEW in, NEW spire \in BOOLEAN
  PROVE  LET q == EnvoyPod(p, n, in, spire)
         IN  WellFormed(q) /\ ~Has(q, ProxyContainer) /\ q.owner = p.owner
<1> DEFINE X == SidecarMounts(spire) \cup {<<"envoy-config">>}
<1>1. Shaped(p) /\ IsSequence(p.inits)
  BY DEF WellFormed, Shaped
<1>2. <<"shared-data">> \in X
  BY DEF SidecarMounts
<1>3. PICK s : s = EnvoySidecar(spire)
  OBVIOUS
<1>4. IsSidecar(s, EnvoyContainer, <<>>, {<<"envoy-config">>} \cup SidecarMounts(spire))
  BY <1>3, SidecarShape DEF EnvoySidecar
<1>5. PICK a : a = AddContainer(p, s)
  OBVIOUS
<1>6. OnlyContainers(p, a) /\ Extends(p.containers, s, a.containers)
  BY <1>1, <1>4, <1>5, ContainerAdded DEF IsSidecar, Fresh
<1>7. PICK g : g = AddInit(a, RedirectInit)
  OBVIOUS
<1>8. OnlyInits(a, g, {RedirectInit})
  <2>1. RedirectInit.name = ProxyInit
    BY DEF RedirectInit
  <2>2. Shaped(a) /\ a.inits = p.inits
    BY <1>6 DEF OnlyContainers
  <2>3. IsSequence(a.inits) /\ \A i \in DOMAIN a.inits : a.inits[i].name # RedirectInit.name
    BY <1>1, <2>1, <2>2 DEF Fresh, Unguarded
  <2> QED
    BY <1>7, <2>2, <2>3, InitAdded
<1>9. PICK e : e = IF Evaluate(p, in.gates).envoyProxy THEN g ELSE p
  OBVIOUS
<1>10. /\ Shaped(e) /\ IsSequence(e.inits) /\ e.owner = p.owner /\ e.volumes = p.volumes
       /\ DOMAIN p.containers \subseteq DOMAIN e.containers
       /\ \A i \in DOMAIN p.containers : e.containers[i] = p.containers[i]
       /\ \A i \in DOMAIN e.containers : i \in DOMAIN p.containers \/ e.containers[i] = s
  <2>1. CASE Evaluate(p, in.gates).envoyProxy
    <3>1. /\ Shaped(g) /\ IsSequence(g.inits) /\ g.owner = p.owner /\ g.volumes = p.volumes
          /\ g.containers = a.containers
      BY <1>6, <1>8 DEF OnlyContainers, OnlyInits
    <3>2. /\ DOMAIN p.containers \subseteq DOMAIN a.containers
          /\ \A i \in DOMAIN p.containers : a.containers[i] = p.containers[i]
          /\ \A i \in DOMAIN a.containers : i \in DOMAIN p.containers \/ a.containers[i] = s
      BY <1>6 DEF Extends
    <3> QED
      BY <1>9, <2>1, <3>1, <3>2
  <2>2. CASE ~Evaluate(p, in.gates).envoyProxy
    BY <1>1, <1>9, <2>2
  <2> QED
    BY <2>1, <2>2
<1>11. /\ s.name = EnvoyContainer /\ s.ports = <<>> /\ s.port = NoPort /\ s.proxy = NoPort /\ s.mounts \subseteq X
  BY <1>4 DEF IsSidecar
<1>12. MountedBut(e, X)
  <2>1. VolumeNames(e) = VolumeNames(p)
    BY <1>10 DEF VolumeNames
  <2>2. \A i \in DOMAIN p.containers : p.containers[i].mounts \subseteq VolumeNames(p) \cup {<<"shared-data">>}
    BY DEF WellFormed
  <2> HIDE DEF X
  <2> QED
    BY <1>2, <1>10, <1>11, <2>1, <2>2 DEF MountedBut
<1>13. PICK vs : vs = RequiredVolumes(n, spire, in.rt.routes, TRUE)
  OBVIOUS
<1>14. X \subseteq {v.name : v \in vs}
  BY <1>13, RequiredNames
<1>15. PICK q : q = ApplyCredentials(AddVolumes(e, vs))
  OBVIOUS
<1>16. q = EnvoyPod(p, n, in, spire)
  BY <1>3, <1>5, <1>7, <1>9, <1>13, <1>15 DEF EnvoyPod
<1> HIDE DEF X
<1>17. Remounts(e, q) /\ MountedBut(q, {})
  BY <1>10, <1>12, <1>14, <1>15, VolumesMounted
<1>18. /\ Shaped(q) /\ IsSequence(q.inits) /\ q.owner = p.owner
       /\ DOMAIN q.containers = DOMAIN e.containers
       /\ \A i \in DOMAIN e.containers : SameContainer(e.containers[i], q.containers[i])
  BY <1>10, <1>17 DEF Remounts
<1>19. <<>> \in Seq(1..MaxPort) /\ EnvoyContainer # ProxyContainer
  <2>1. PICK S : S = 1..MaxPort
    OBVIOUS
  <2>2. <<>> \in Seq(S)
    BY SMT
  <2> QED
    BY <2>1, <2>2 DEF EnvoyContainer, ProxyContainer
<1>20. ASSUME NEW i \in DOMAIN q.containers
       PROVE  /\ q.containers[i].name # ProxyContainer /\ q.containers[i].ports \in Seq(1..MaxPort)
              /\ q.containers[i].port = NoPort /\ q.containers[i].proxy \in {NoPort, 1}
  <2>1. PICK d : d = e.containers[i]
    OBVIOUS
  <2>2. /\ q.containers[i].name = d.name /\ q.containers[i].ports = d.ports
        /\ q.containers[i].port = d.port /\ q.containers[i].proxy = d.proxy
    BY <1>18, <2>1 DEF SameContainer
  <2>3. CASE i \in DOMAIN p.containers
    <3>1. /\ p.containers[i].ports \in Seq(1..MaxPort)
          /\ p.containers[i].port = NoPort /\ p.containers[i].proxy \in {NoPort, 1}
      BY <2>3 DEF WellFormed, Fresh
    <3>2. p.containers[i].name # ProxyContainer
      BY <2>3 DEF Fresh, Has
    <3> QED
      BY <1>10, <2>1, <2>2, <2>3, <3>1, <3>2
  <2>4. CASE d = s
    BY <1>11, <1>19, <2>2, <2>4
  <2> QED
    BY <1>10, <1>18, <2>1, <2>3, <2>4
<1>21. ~Has(q, ProxyContainer)
  BY <1>20 DEF Has
<1>22. WellFormed(q)
  BY <1>17, <1>18, <1>20 DEF WellFormed, Shaped, MountedBut
<1> QED
  BY <1>16, <1>18, <1>21, <1>22

\* A change of another field.
SameBody(p, q) ==
    /\ IsRecord(q, PodFields)
    /\ q.containers = p.containers /\ q.inits = p.inits /\ q.volumes = p.volumes

\* ... matters neither to the shape of the Pod nor to its ports.
LEMMA SameBodySamePorts ==
  ASSUME NEW p, WellFormed(p), NEW q, SameBody(p, q)
  PROVE  /\ WellFormed(q) /\ (Fresh(p) => Fresh(q))
         /\ \A name : Has(q, name) <=> Has(p, name)
         /\ \A c, asked : AssignPorts(q, c, asked) = AssignPorts(p, c, asked)
<1>1. \A name : Has(q, name) <=> Has(p, name)
  BY DEF SameBody, Has
<1>2. VolumeNames(q) = VolumeNames(p)
  BY DEF SameBody, VolumeNames
<1>3. WellFormed(q)
  <2>1. \A i \in DOMAIN p.containers :
          /\ IsRecord(p.containers[i], ContainerFields)
          /\ p.containers[i].ports \in Seq(1..MaxPort)
          /\ p.containers[i].mounts \subseteq VolumeNames(p) \cup {<<"shared-data">>}
          /\ ~Has(p, ProxyContainer) => p.containers[i].port = NoPort /\ p.containers[i].proxy \in {NoPort, 1}
    BY DEF WellFormed
  <2>2. IsSequence(p.containers) /\ IsSequence(p.inits)
    BY DEF WellFormed
  <2> QED
    BY <1>1, <1>2, <2>1, <2>2 DEF WellFormed, SameBody
<1>4. Fresh(p) => Fresh(q)
  BY <1>1 DEF Fresh, Unguarded, SameBody
<1>5. DeclaredPorts(q) = DeclaredPorts(p)
  BY DEF DeclaredPorts, SameBody
<1>6. AgentIndex(q) = AgentIndex(p)
  BY DEF AgentIndex, SameBody
<1>7. OriginalPort(q) = OriginalPort(p)
  BY <1>6 DEF OriginalPort, SameBody
<1>8. \A c : StaysTransparent(q, c) = StaysTransparent(p, c)
  BY DEF StaysTransparent, SameBody
<1>9. \A c, asked : AssignPorts(q, c, asked) = AssignPorts(p, c, asked)
  BY <1>5, <1>7, <1>8 DEF AssignPorts
<1> QED
  BY <1>1, <1>3, <1>4, <1>9

\* The objects of an injection: the configuration is among them.
LEMMA FilesWritten ==
  ASSUME NEW a, a \in {<<>>, <<"account">>}, NEW r, r \in {<<>>, <<"routes">>}, NEW files,
         files = a \o <<"config">> \o r
  PROVE  "config" \in {files[i] : i \in 1..Len(files)}
<1>1. CASE a = <<>>
  <2>1. CASE r = <<>>
    <3>1. 1 \in 1..Len(files) /\ files[1] = "config"
      BY <1>1, <2>1, SMT
    <3> QED
      BY <3>1
  <2>2. CASE r = <<"routes">>
    <3>1. 1 \in 1..Len(files) /\ files[1] = "config"
      BY <1>1, <2>2, SMT
    <3> QED
      BY <3>1
  <2> QED
    BY <2>1, <2>2
<1>2. CASE a = <<"account">>
  <2>1. CASE r = <<>>
    <3>1. 2 \in 1..Len(files) /\ files[2] = "config"
      BY <1>2, <2>1, SMT
    <3> QED
      BY <3>1
  <2>2. CASE r = <<"routes">>
    <3>1. 2 \in 1..Len(files) /\ files[2] = "config"
      BY <1>2, <2>2, SMT
    <3> QED
      BY <3>1
  <2> QED
    BY <2>1, <2>2
<1> QED
  BY <1>1, <1>2

\* What an injection promises about the Pod that it answers.
Sound(pod, o, c) ==
    /\ WellFormed(o.pod) /\ o.pod.owner = pod.owner
    /\ Has(o.pod, ProxyContainer) =>
         /\ PortsFreeIn(o.pod, c) /\ Obeys(o.pod, c) /\ Fits(o.pod, o.config, c)
         /\ "config" \in {o.writes[i] : i \in 1..Len(o.writes)}

\* The fields of an outcome.
IsOutcome(o, result, writes, pod, config) ==
    /\ o.result = result /\ o.writes = writes /\ o.pod = pod /\ o.config = config
    /\ IsRecord(o, {"result", "writes", "pod", "config"})

\* ... as returned.
LEMMA OutcomeShape ==
  ASSUME NEW result, NEW writes, NEW pod, NEW config
  PROVE  IsOutcome(Outcome(result, writes, pod, config), result, writes, pod, config)
<1>1. PICK o : o = [result |-> result, writes |-> writes, pod |-> pod, config |-> config]
  OBVIOUS
<1>2. o = Outcome(result, writes, pod, config)
  BY <1>1 DEF Outcome
<1>3. o.result = result /\ o.writes = writes /\ o.pod = pod /\ o.config = config
  BY <1>1
<1>4. IsRecord(o, {"result", "writes", "pod", "config"})
  BY <1>1, SMT DEF IsRecord
<1> QED
  BY <1>2, <1>3, <1>4 DEF IsOutcome

\* A platform configuration the webhook works with.
IsPlatform(c) == Validate(c) /\ IsSequence(c.allowedInbound) /\ IsSequence(c.allowedEgress)

\* The Pod of a successful injection: its ports are free, it obeys the platform, and its
\* configuration fits it and is written.
THEOREM InjectionSound ==
  ASSUME NEW pod, WellFormed(pod), Fresh(pod), NEW n, NEW in, IsPlatform(in.platform),
         InjectAuthBridge(pod, n, in).result = "ok"
  PROVE  Sound(pod, InjectAuthBridge(pod, n, in), in.platform)
<1>1. PICK c, y : c = in.platform /\ y = in.yaml
  OBVIOUS
<1>2. PICK mtls : mtls = ExtractMTLSMode(y)
  OBVIOUS
<1>3. PICK bridge : bridge = ExtractTLSBridgeMode(y)
  OBVIOUS
<1>4. PICK mode : mode = ExtractMode(y, pod)
  OBVIOUS
<1>5. PICK spire \in BOOLEAN : spire = (Evaluate(pod, in.gates).spiffeHelper \/ mtls # "disabled")
  OBVIOUS
<1>6. PICK own \in BOOLEAN : own = (spire /\ pod.sa \in {"", "default"})
  OBVIOUS
<1>7. PICK account : account = IF own THEN <<"account">> ELSE <<>>
  OBVIOUS
<1>8. PICK named : named = IF own THEN [pod EXCEPT !.sa = n] ELSE pod
  OBVIOUS
<1>9. PICK ports : ports = AssignPorts(pod, c, ExtractInboundInterception(y, c))
  OBVIOUS
<1>10. PICK routes : routes = IF in.rt.routes THEN <<"routes">> ELSE <<>>
  OBVIOUS
<1>11. PICK files : files = account \o <<"config">> \o routes
  OBVIOUS
<1>12. PICK proxied : proxied = (mode \in {"proxy-sidecar", "lite"})
  OBVIOUS
<1>13. PICK failed \in BOOLEAN : failed = ((proxied /\ ~ports.ok) \/ ~RenderPipeline(y, in.rt).ok)
  OBVIOUS
<1>14. PICK doc : doc = AgentConfig("proxy-sidecar", y, in.rt, Listener(ports), mtls, bridge, spire)
  OBVIOUS
<1>15. PICK o : o = InjectAuthBridge(pod, n, in)
  OBVIOUS
<1>16. o = IF ~Eligible(pod, in.gates) THEN Outcome("skip", <<>>, pod, NoConfig)
           ELSE IF mode = "waypoint" THEN Outcome("skip", account, pod, NoConfig)
           ELSE IF failed THEN Outcome("error", account, pod, NoConfig)
           ELSE IF proxied THEN Outcome("ok", files, ProxyPod(named, n, in, ports, spire), doc)
           ELSE Outcome("ok", Append(files, "envoy"), EnvoyPod(named, n, in, spire),
                        AgentConfig(mode, y, in.rt, NoListener, mtls, "", spire))
  BY <1>1, <1>2, <1>3, <1>4, <1>5, <1>6, <1>7, <1>8, <1>9, <1>10, <1>11, <1>12, <1>13, <1>14, <1>15
     DEF InjectAuthBridge
<1>17. ~failed
       /\ \/ proxied /\ o = Outcome("ok", files, ProxyPod(named, n, in, ports, spire), doc)
          \/ ~proxied /\ o = Outcome("ok", Append(files, "envoy"), EnvoyPod(named, n, in, spire),
                                     AgentConfig(mode, y, in.rt, NoListener, mtls, "", spire))
  <2>1. o.result = "ok"
    BY <1>15
  <2>2. \A w, p, d : Outcome("skip", w, p, d).result # "ok" /\ Outcome("error", w, p, d).result # "ok"
    BY DEF Outcome
  <2> QED
    BY <1>16, <2>1, <2>2
<1>18. SameBody(pod, named) /\ named.owner = pod.owner
  <2>1. IsRecord(pod, PodFields)
    BY DEF WellFormed
  <2>2. CASE own
    <3>1. Sets(pod, named, "sa", n)
      BY <1>8, <2>1, <2>2, PodUpdated
    <3>2. /\ named.containers = pod.containers /\ named.inits = pod.inits
          /\ named.volumes = pod.volumes /\ named.owner = pod.owner
      BY <3>1, SetsOne
    <3> QED
      BY <3>1, <3>2 DEF SameBody, Sets
  <2>3. CASE ~own
    BY <1>8, <2>1, <2>3 DEF SameBody
  <2> QED
    BY <2>2, <2>3
<1>19. /\ WellFormed(named) /\ Fresh(named)
       /\ ports = AssignPorts(named, c, ExtractInboundInterception(y, c))
  <2>1. /\ WellFormed(named) /\ (Fresh(pod) => Fresh(named))
        /\ \A b, asked : AssignPorts(named, b, asked) = AssignPorts(pod, b, asked)
    BY <1>18, SameBodySamePorts
  <2> QED
    BY <1>9, <2>1
<1>20. CASE proxied
  <2>1. PICK q : q = ProxyPod(named, n, in, ports, spire)
    OBVIOUS
  <2>2. o.pod = q /\ o.writes = files /\ o.config = doc
    <3>1. o = Outcome("ok", files, q, doc)
      BY <1>17, <1>20, <2>1
    <3>2. IsOutcome(o, "ok", files, q, doc)
      BY <3>1, OutcomeShape
    <3> QED
      BY <3>2 DEF IsOutcome
  <2>3. ports.ok /\ RenderPipeline(y, in.rt).ok
    BY <1>13, <1>17, <1>20
  <2>4. Validate(c) /\ IsSequence(c.allowedInbound) /\ IsSequence(c.allowedEgress)
    BY <1>1 DEF IsPlatform
  <2>5. ports.transparent \in BOOLEAN /\ (ports.transparent \/ ports.moved \in 1..MaxPort)
    BY <1>19, <2>3, <2>4, PortsAssigned
  <2>6. IsProxyPod(named, q, in, ports, spire)
    BY <1>19, <2>1, <2>5, ProxyPodMade DEF Fresh
  <2>7. Unguarded(named)
    BY <1>19 DEF Fresh
  <2>8. PortsFreeIn(q, c)
    BY <1>1, <1>19, <2>3, <2>4, <2>6, <2>7, PortsAreFree
  <2>9. Obeys(q, c) /\ (ports.transparent => InitsOf(q) # {})
    BY <1>1, <1>19, <2>3, <2>4, <2>6, <2>7, PodObeys
  <2>10. Fits(q, doc, c)
    <3>1. Consistent(q, ports, mtls, spire)
      BY <1>5, <2>5, <2>9 DEF Consistent
    <3>2. IsConfig(doc, in.yaml, in.rt, Listener(ports), mtls, ExtractTLSBridgeMode(in.yaml), spire)
      BY <1>1, <1>3, <1>14, ConfigShape
    <3>3. RenderPipeline(in.yaml, in.rt).ok
      BY <1>1, <2>3
    <3> QED
      BY <1>1, <2>6, <2>7, <3>1, <3>2, <3>3, ConfigFits
  <2>11. WellFormed(q)
    BY <1>19, <2>3, <2>4, <2>6, ProxyPodWellFormed
  <2>12. q.owner = pod.owner
    BY <1>18, <2>6 DEF IsProxyPod
  <2>13. "config" \in {files[i] : i \in 1..Len(files)}
    <3>1. account \in {<<>>, <<"account">>} /\ routes \in {<<>>, <<"routes">>}
      BY <1>7, <1>10
    <3> QED
      BY <1>11, <3>1, FilesWritten
  <2> QED
    BY <1>1, <1>15, <2>2, <2>8, <2>9, <2>10, <2>11, <2>12, <2>13 DEF Sound
<1>21. CASE ~proxied
  <2>1. PICK q : q = EnvoyPod(named, n, in, spire)
    OBVIOUS
  <2>2. o.pod = q
    <3>1. PICK w, d : o = Outcome("ok", w, q, d)
      BY <1>17, <1>21, <2>1
    <3>2. IsOutcome(o, "ok", w, q, d)
      BY <3>1, OutcomeShape
    <3> QED
      BY <3>2 DEF IsOutcome
  <2>3. WellFormed(q) /\ ~Has(q, ProxyContainer) /\ q.owner = named.owner
    BY <1>19, <2>1, EnvoyPodMade
  <2> QED
    BY <1>15, <1>18, <2>2, <2>3 DEF Sound
<1> QED
  BY <1>20, <1>21

=============================================================================
