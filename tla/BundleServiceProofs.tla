------------------------ MODULE BundleServiceProofs ------------------------
(***************************************************************************)
(* The bundle service, for any number of agents, clients, CRs, changes,    *)
(* build slots and cache entries.                                          *)
(*                                                                         *)
(*   - One build per client and never more builds than slots: BuildInv.    *)
(*     The flight of a client names the request that leads it, and the     *)
(*     slots taken are exactly the requests that build.                    *)
(*   - Types, and the bundle cache sound at its capacity: SoundInv.        *)
(*   - Undisturbed, the caches say what the CRs say: FreshInv.  A cache    *)
(*     that is out of date has a pending change that will invalidate it.   *)
(***************************************************************************)
EXTENDS BundleService, FiniteSetTheorems, TLAPS

\* A leaf that names no prover is one for Zenon.
USE Zenon

Fields == {"pc", "built", "held", "ans"}
Leading == Building \cup {"slot"}

AgentsOK ==
  /\ agent = [a \in Agents |-> agent[a]]
  /\ \A a \in Agents : DOMAIN agent[a] = Fields
FlightsOK ==
  /\ flight \in [Names -> Agents \cup {None}]
  /\ \A a \in Agents : agent[a].pc \in Leading => flight[ClientOf[a]] = a
SlotsOK ==
  /\ slots \in 0..MaxConcurrentBuilds
  /\ IsFiniteSet(Builders) /\ Cardinality(Builders) = slots
BuildInv == AgentsOK /\ FlightsOK /\ SlotsOK

\* Only request a moves, to pc.
Moves(a, pc) ==
  /\ DOMAIN agent'[a] = Fields /\ agent'[a].pc = pc
  /\ agent' = [b \in Agents |-> agent'[b]]
  /\ \A b \in Agents \ {a} : agent'[b] = agent[b]

\* Initially nobody builds.
LEMMA BuildInvInit == BSInit => BuildInv
<1> SUFFICES ASSUME BSInit PROVE BuildInv
  OBVIOUS
<1>1. AgentsOK
  BY DEF BSInit, AgentsOK, IdleAgent, Fields
<1>2. \A a \in Agents : agent[a].pc = "idle"
  BY DEF BSInit, IdleAgent
<1>3. FlightsOK
  BY <1>2 DEF BSInit, FlightsOK, Leading, Building
<1>4. Builders = {}
  BY <1>2 DEF Builders, Building
<1>5. SlotsOK
  BY <1>4, FS_EmptySet, LimitsAssumption, SMT DEF BSInit, SlotsOK
<1>6. QED
  BY <1>1, <1>3, <1>5 DEF BuildInv

\* A request that does not build moves to a step that is no building either.
LEMMA MoveOutside ==
  ASSUME BuildInv, NEW a \in Agents, NEW pc,
         Moves(a, pc), agent[a].pc \notin Leading, pc \notin Leading,
         UNCHANGED <<flight, slots>>
  PROVE  BuildInv'
<1>1. AgentsOK'
  BY DEF BuildInv, AgentsOK, Moves
<1>2. FlightsOK'
  BY DEF BuildInv, FlightsOK, Moves
<1>3. Builders' = Builders
  BY DEF Builders, Moves, Leading
<1>4. SlotsOK'
  BY <1>3 DEF BuildInv, SlotsOK
<1>5. QED
  BY <1>1, <1>2, <1>4 DEF BuildInv

\* A request that builds goes on building.
LEMMA MoveInside ==
  ASSUME BuildInv, NEW a \in Agents, NEW pc,
         Moves(a, pc), agent[a].pc \in Building, pc \in Building,
         UNCHANGED <<flight, slots>>
  PROVE  BuildInv'
<1>1. AgentsOK'
  BY DEF BuildInv, AgentsOK, Moves
<1>2. FlightsOK'
  BY DEF BuildInv, FlightsOK, Moves, Leading
<1>3. Builders' = Builders
  BY DEF Builders, Moves
<1>4. SlotsOK'
  BY <1>3 DEF BuildInv, SlotsOK
<1>5. QED
  BY <1>1, <1>2, <1>4 DEF BuildInv

\* Its slot is one more, and so are the builders.
LEMMA MoveIn ==
  ASSUME BuildInv, NEW a \in Agents, NEW pc,
         Moves(a, pc), agent[a].pc = "slot", pc \in Building,
         slots < MaxConcurrentBuilds, slots' = slots + 1, UNCHANGED flight
  PROVE  BuildInv'
<1>1. AgentsOK'
  BY DEF BuildInv, AgentsOK, Moves
<1>2. FlightsOK'
  BY DEF BuildInv, FlightsOK, Moves, Leading
<1>3. Builders' = Builders \cup {a} /\ a \notin Builders
  BY DEF Builders, Moves, Building
<1>4. IsFiniteSet(Builders') /\ Cardinality(Builders') = Cardinality(Builders) + 1
  BY <1>3, FS_AddElement DEF BuildInv, SlotsOK
<1>5. SlotsOK'
  BY <1>4, LimitsAssumption, SMT DEF BuildInv, SlotsOK
<1>6. QED
  BY <1>1, <1>2, <1>5 DEF BuildInv

\* The end of a flight: the leader and those who joined it are answered.
Ends(a) ==
  /\ flight' = [flight EXCEPT ![ClientOf[a]] = None]
  /\ agent' = [b \in Agents |-> agent'[b]]
  /\ DOMAIN agent'[a] = Fields /\ agent'[a].pc = "idle"
  /\ \A b \in Agents \ {a} :
       \/ agent'[b] = agent[b]
       \/ agent[b].pc = "joined" /\ DOMAIN agent'[b] = Fields /\ agent'[b].pc = "idle"

\* Only the leader stops building, and no other request led this flight.
LEMMA EndOfFlight ==
  ASSUME BuildInv, NEW a \in Agents, Ends(a), agent[a].pc \in Leading
  PROVE  AgentsOK' /\ FlightsOK' /\ Builders' = Builders \ {a}
<1>1. AgentsOK'
  BY DEF BuildInv, AgentsOK, Ends
<1>2. \A b \in Agents \ {a} : agent'[b].pc \in Leading => agent'[b] = agent[b]
  BY DEF Ends, Leading, Building
<1>3. \A b \in Agents \ {a} : agent'[b].pc \in Leading => ClientOf[b] # ClientOf[a]
  BY <1>2 DEF BuildInv, FlightsOK
<1>4. FlightsOK'
  BY <1>2, <1>3, NamesAssumption DEF BuildInv, FlightsOK, Ends, Leading, Building
<1>5. Builders' = Builders \ {a}
  BY DEF Ends, Builders, Building
<1>6. QED
  BY <1>1, <1>4, <1>5

\* Answers are idle requests with all their fields.
LEMMA IdleIsRecord ==
  ASSUME NEW held, NEW ans
  PROVE  DOMAIN IdleAgent(held, ans) = Fields /\ IdleAgent(held, ans).pc = "idle"
  BY DEF IdleAgent, Fields

\* The release of the slot with the end of a build.
LEMMA MoveOut ==
  ASSUME BuildInv, NEW a \in Agents, Ends(a), agent[a].pc \in Building, slots' = slots - 1
  PROVE  BuildInv'
<1>1. agent[a].pc \in Leading /\ a \in Builders
  BY DEF Leading, Builders
<1>2. AgentsOK' /\ FlightsOK' /\ Builders' = Builders \ {a}
  BY <1>1, EndOfFlight
<1>3. IsFiniteSet(Builders') /\ Cardinality(Builders') = Cardinality(Builders) - 1
  BY <1>1, <1>2, FS_RemoveElement DEF BuildInv, SlotsOK
<1>4. Cardinality(Builders') \in Nat
  BY <1>3, FS_CardinalityType
<1>5. SlotsOK'
  BY <1>3, <1>4, LimitsAssumption, SMT DEF BuildInv, SlotsOK
<1>6. QED
  BY <1>2, <1>5 DEF BuildInv

-----------------------------------------------------------------------------
\* Every step of a request keeps the invariant: it moves outside a build, joins or
\* leads a flight, takes a slot, builds on, or ends the flight.
LEMMA RequestStep ==
  ASSUME BuildInv, NEW a \in Agents,
         ServeBundle(a) \/ OwnStep(a) \/ AcquireSlot(a) \/ SlotCancelled(a)
  PROVE  BuildInv'
<1>r. agent = [b \in Agents |-> agent[b]] /\ \A b \in Agents : DOMAIN agent[b] = Fields
  BY DEF BuildInv, AgentsOK
<1>1. CASE ServeBundle(a)
  <2>1. Moves(a, "etag") /\ agent[a].pc = "idle" /\ UNCHANGED <<flight, slots>>
    BY <1>r, <1>1 DEF ServeBundle, Moves, Fields
  <2>2. QED
    BY <2>1, MoveOutside DEF Leading, Building
<1>2. CASE CheckETag(a)
  <2>1. agent[a].pc = "etag" /\ UNCHANGED <<flight, slots>>
    BY <1>2 DEF CheckETag
  <2>2. Moves(a, "idle") \/ Moves(a, "bundle")
    BY <1>r, <1>2, IdleIsRecord, SMT DEF CheckETag, Moves, Fields, Answered, GoTo
  <2>3. QED
    BY <2>1, <2>2, MoveOutside DEF Leading, Building
<1>3. CASE BundleHit(a)
  <2>1. Moves(a, "hit") /\ agent[a].pc = "bundle" /\ UNCHANGED <<flight, slots>>
    BY <1>r, <1>3 DEF BundleHit, Moves, Fields
  <2>2. QED
    BY <2>1, MoveOutside DEF Leading, Building
<1>4. CASE ServeHit(a)
  <2>1. Moves(a, "idle") /\ agent[a].pc = "hit" /\ UNCHANGED <<flight, slots>>
    BY <1>r, <1>4, IdleIsRecord DEF ServeHit, Moves, Served
  <2>2. QED
    BY <2>1, MoveOutside DEF Leading, Building
<1>5. CASE BundleMiss(a)
  <2>1. Moves(a, "do") /\ agent[a].pc = "bundle" /\ UNCHANGED <<flight, slots>>
    BY <1>r, <1>5 DEF BundleMiss, Moves, Fields, GoTo
  <2>2. QED
    BY <2>1, MoveOutside DEF Leading, Building
<1>6. CASE Lead(a)
  <2>1. /\ Moves(a, "slot") /\ agent[a].pc = "do" /\ UNCHANGED slots
        /\ flight[ClientOf[a]] = None /\ flight' = [flight EXCEPT ![ClientOf[a]] = a]
    BY <1>r, <1>6 DEF Lead, Moves, Fields, GoTo
  <2>2. AgentsOK'
    BY <1>r, <2>1 DEF AgentsOK, Moves
  <2>3. \A b \in Agents : agent[b].pc \in Leading => ClientOf[b] # ClientOf[a]
    BY <2>1, NamesAssumption DEF BuildInv, FlightsOK
  <2>4. FlightsOK'
    BY <2>1, <2>3, NamesAssumption DEF BuildInv, FlightsOK, Moves
  <2>5. Builders' = Builders
    BY <2>1 DEF Builders, Moves, Building
  <2>6. QED
    BY <2>1, <2>2, <2>4, <2>5 DEF BuildInv, SlotsOK
<1>7. CASE Join(a)
  <2>1. Moves(a, "joined") /\ agent[a].pc = "do" /\ UNCHANGED <<flight, slots>>
    BY <1>r, <1>7 DEF Join, Moves, Fields, GoTo
  <2>2. QED
    BY <2>1, MoveOutside DEF Leading, Building
<1>8. CASE ReadGlobal(a) \/ SetGlobal(a) \/ ReadNamespace(a) \/ SetNamespace(a)
           \/ ReadClient(a) \/ SetETag(a)
  <2>1. agent[a].pc \in Building /\ UNCHANGED <<flight, slots>>
    BY <1>8 DEF ReadGlobal, SetGlobal, ReadNamespace, SetNamespace, ReadClient, SetETag,
       Building
  <2>2. \E pc \in Building : Moves(a, pc)
    <3>1. CASE ReadGlobal(a)
      BY <1>r, <3>1, SMT DEF ReadGlobal, Moves, Fields, Building
    <3>2. CASE SetGlobal(a)
      BY <1>r, <3>2 DEF SetGlobal, GoTo, Moves, Fields, Building
    <3>3. CASE ReadNamespace(a)
      BY <1>r, <3>3, SMT DEF ReadNamespace, Moves, Fields, Building
    <3>4. CASE SetNamespace(a)
      BY <1>r, <3>4 DEF SetNamespace, GoTo, Moves, Fields, Building
    <3>5. CASE ReadClient(a)
      BY <1>r, <3>5 DEF ReadClient, Moves, Fields, Building
    <3>6. CASE SetETag(a)
      BY <1>r, <3>6 DEF SetETag, GoTo, Moves, Fields, Building
    <3>7. QED
      BY <1>8, <3>1, <3>2, <3>3, <3>4, <3>5, <3>6
  <2>3. QED
    BY <2>1, <2>2, MoveInside
<1>9. CASE BundleBuilt(a)
  <2>1. /\ agent[a].pc \in Building /\ slots' = slots - 1
        /\ EndFlight(a, [b \in Agents |-> Served(agent[a].built)])
    BY <1>9 DEF BundleBuilt, Building
  <2>2. Ends(a)
    BY <2>1, IdleIsRecord DEF EndFlight, Ends, Served
  <2>3. QED
    BY <2>1, <2>2, MoveOut
<1>10. CASE BuildFails(a)
  <2>1. agent[a].pc \in Building /\ slots' = slots - 1
    BY <1>10 DEF BuildFails, Building
  <2>2. PICK ans : EndFlight(a, [b \in Agents |-> Answered(b, ans)])
    BY <1>10 DEF BuildFails
  <2>3. Ends(a)
    BY <2>2, IdleIsRecord DEF EndFlight, Ends, Answered
  <2>4. QED
    BY <2>1, <2>3, MoveOut
<1>11. CASE AcquireSlot(a)
  <2>1. /\ Moves(a, "global") /\ agent[a].pc = "slot" /\ UNCHANGED flight
        /\ slots < MaxConcurrentBuilds /\ slots' = slots + 1
    BY <1>r, <1>11 DEF AcquireSlot, GoTo, Moves, Fields
  <2>2. QED
    BY <2>1, MoveIn DEF Building
<1>12. CASE SlotCancelled(a)
  <2>1. /\ agent[a].pc = "slot" /\ UNCHANGED slots
        /\ EndFlight(a, [b \in Agents |-> Answered(b, IF b = a THEN "gone" ELSE "500")])
    BY <1>12 DEF SlotCancelled
  <2>2. Ends(a)
    BY <2>1, IdleIsRecord DEF EndFlight, Ends, Answered
  <2>3. AgentsOK' /\ FlightsOK' /\ Builders' = Builders
    BY <2>1, <2>2, EndOfFlight DEF Leading, Builders, Building
  <2>4. QED
    BY <2>1, <2>3 DEF BuildInv, SlotsOK
<1>13. QED
  BY <1>1, <1>2, <1>3, <1>4, <1>5, <1>6, <1>7, <1>8, <1>9, <1>10, <1>11, <1>12
     DEF OwnStep, BuildStep

\* Every step keeps the invariant.
LEMMA BuildInvStep == BuildInv /\ [BSNext]_bsVars => BuildInv'
<1> SUFFICES ASSUME BuildInv, [BSNext]_bsVars PROVE BuildInv'
  OBVIOUS
<1>1. ASSUME UNCHANGED <<flight, slots, agent>> PROVE BuildInv'
  BY <1>1 DEF BuildInv, AgentsOK, FlightsOK, SlotsOK, Builders
<1>2. ASSUME NEW n \in Names, DeleteCR(n) PROVE BuildInv'
  BY <1>1, <1>2 DEF DeleteCR
<1>3. ASSUME NEW n \in Names, NEW scope \in Scopes, ApplyCR(n, scope) PROVE BuildInv'
  BY <1>1, <1>3 DEF ApplyCR
<1>4. CASE HandlerStep
  BY <1>1, <1>4 DEF HandlerStep, InvalidatePolicies, InvalidateETags, InvalidateBundles
<1>5. ASSUME NEW k \in Names, EntryTimesOut(k) PROVE BuildInv'
  BY <1>1, <1>5 DEF EntryTimesOut
<1>6. CASE UNCHANGED bsVars
  BY <1>1, <1>6 DEF bsVars
<1>7. QED
  BY <1>2, <1>3, <1>4, <1>5, <1>6, RequestStep DEF BSNext

\* The control of the builds is consistent for any agents, clients and limits.
THEOREM BuildsConsistent == BSSpec => []BuildInv
  BY BuildInvInit, BuildInvStep, PTL DEF BSSpec

\* Two requests never build, or wait to build, the bundle of one client, for any
\* number of agents and clients.
THEOREM OneBuildPerClient == BSSpec => []SingleBuild
<1>1. BuildInv => SingleBuild
  BY DEF BuildInv, FlightsOK, SingleBuild, Leading
<1>2. QED
  BY BuildsConsistent, <1>1, PTL

\* At most MaxConcurrentBuilds builds run, for any limit and any number of agents.
THEOREM BuildsLimited == BSSpec => []BuildLimit
<1>1. BuildInv => BuildLimit
  BY LimitsAssumption, SMT DEF BuildInv, SlotsOK, BuildLimit
<1>2. QED
  BY BuildsConsistent, <1>1, PTL

-----------------------------------------------------------------------------
(* The list of the bundle cache.                                           *)

Entry == [key : Names, bundle : Bundle]
KeysIn(s) == {s[i].key : i \in 1..Len(s)}
Distinct(s) == \A i, j \in 1..Len(s) : s[i].key = s[j].key => i = j
ListOK == bundles \in Seq(Entry) /\ Distinct(bundles)

\* A sequence without its i-th element: the ones after i move down by one.
LEMMA RemovedAt ==
  ASSUME NEW S, NEW s \in Seq(S), NEW i \in 1..Len(s)
  PROVE  LET r == SubSeq(s, 1, i - 1) \o SubSeq(s, i + 1, Len(s))
         IN  /\ r \in Seq(S) /\ Len(r) = Len(s) - 1
             /\ \A j \in 1..Len(r) : r[j] = IF j < i THEN s[j] ELSE s[j + 1]
<1> DEFINE front == SubSeq(s, 1, i - 1)
           back == SubSeq(s, i + 1, Len(s))
<1>0. Len(s) \in Nat /\ i \in Int
  BY SMT
<1>1. /\ front \in Seq(S) /\ Len(front) = i - 1
      /\ \A j \in 1..(i - 1) : front[j] = s[j]
  BY <1>0, SMT
<1>2. /\ back \in Seq(S) /\ Len(back) = Len(s) - i
      /\ \A j \in 1..(Len(s) - i) : back[j] = s[i + j]
  BY <1>0, SMT
<1> HIDE DEF front, back
<1>3. /\ front \o back \in Seq(S) /\ Len(front \o back) = Len(s) - 1
      /\ \A j \in 1..(Len(s) - 1) :
           (front \o back)[j] = IF j < i THEN front[j] ELSE back[j - (i - 1)]
  <2>1. front \o back \in Seq(S) /\ Len(front \o back) = Len(front) + Len(back)
    <3>1. front \in Seq(S) /\ back \in Seq(S)
      BY <1>1, <1>2
    <3>2. Len(front \o back) = Len(front) + Len(back)
      BY <3>1, SMT
    <3>3. front \o back \in Seq(S)
      BY <3>1, SMT
    <3> QED
      BY <3>2, <3>3
  <2>2. Len(front \o back) = Len(s) - 1
    BY <1>0, <1>1, <1>2, <2>1, SMT
  <2>3. ASSUME NEW j \in 1..(Len(front) + Len(back))
        PROVE  (front \o back)[j] = IF j <= Len(front) THEN front[j] ELSE back[j - Len(front)]
    BY <1>1, <1>2, SMT
  <2> QED
    BY <1>0, <1>1, <1>2, <2>1, <2>2, <2>3, SMT
<1>4. \A j \in 1..(Len(s) - 1) : (front \o back)[j] = IF j < i THEN s[j] ELSE s[j + 1]
  <2> TAKE j \in 1..(Len(s) - 1)
  <2>1. CASE j < i
    <3>1. j \in 1..(i - 1)
      BY <1>0, <2>1, SMT
    <3> QED
      BY <1>1, <1>3, <2>1, <3>1
  <2>2. CASE ~ (j < i)
    <3> DEFINE m == j - (i - 1)
    <3>1. m \in 1..(Len(s) - i) /\ i + m = j + 1
      BY <1>0, <2>2, SMT
    <3>2. (front \o back)[j] = back[m]
      BY <1>3, <2>2
    <3> HIDE DEF m
    <3> QED
      BY <1>2, <2>2, <3>1, <3>2
  <2> QED
    BY <2>1, <2>2
<1>5. \A j \in 1..Len(front \o back) : (front \o back)[j] = IF j < i THEN s[j] ELSE s[j + 1]
  BY <1>3, <1>4
<1> QED
  BY <1>3, <1>5 DEF front, back

\* removeElement takes the entry of k out of the list and nothing else.
LEMMA WithoutFacts ==
  ASSUME ListOK, NEW k
  PROVE  /\ Without(k) \in Seq(Entry) /\ Distinct(Without(k))
         /\ Len(Without(k)) = IF k \in CachedKeys THEN Len(bundles) - 1 ELSE Len(bundles)
         /\ \A i \in 1..Len(Without(k)) : /\ Without(k)[i].key # k
                                        /\ \E j \in 1..Len(bundles) : Without(k)[i] = bundles[j]
         /\ KeysIn(Without(k)) = CachedKeys \ {k}
<1> DEFINE r == Without(k)
<1>1. CASE k \notin CachedKeys
  <2>1. r = bundles
    BY <1>1 DEF Without
  <2> QED
    BY <1>1, <2>1 DEF ListOK, CachedKeys, KeysIn
<1>2. CASE k \in CachedKeys
  <2> DEFINE e == EntryOf(k)
  <2>1. e \in 1..Len(bundles) /\ bundles[e].key = k
    BY <1>2 DEF CachedKeys, EntryOf
  <2>2. Len(bundles) \in Nat /\ bundles \in Seq(Entry) /\ Distinct(bundles)
    BY SMT DEF ListOK
  <2>3. r = SubSeq(bundles, 1, e - 1) \o SubSeq(bundles, e + 1, Len(bundles))
    BY <1>2 DEF Without
  <2> HIDE DEF r, e
  <2>4. /\ r \in Seq(Entry) /\ Len(r) = Len(bundles) - 1
        /\ \A j \in 1..Len(r) : r[j] = IF j < e THEN bundles[j] ELSE bundles[j + 1]
    BY <2>1, <2>2, <2>3, RemovedAt
  <2> DEFINE old(j) == IF j < e THEN j ELSE j + 1
  <2>5. \A j \in 1..Len(r) : /\ r[j] = bundles[old(j)]
                            /\ old(j) \in 1..Len(bundles) /\ old(j) # e
    BY <2>1, <2>2, <2>4, SMT
  <2>6. \A i, j \in 1..Len(r) : old(i) = old(j) => i = j
    BY <2>1, <2>2, <2>4, SMT
  <2>7. \A i \in 1..Len(bundles) : i # e => \E j \in 1..Len(r) : i = old(j)
    <3> TAKE i \in 1..Len(bundles)
    <3>1. i < e => i \in 1..Len(r) /\ i = old(i)
      BY <2>1, <2>2, <2>4, SMT
    <3>2. i > e => i - 1 \in 1..Len(r) /\ i = old(i - 1)
      BY <2>1, <2>2, <2>4, SMT
    <3>3. i < e \/ i > e \/ i = e
      BY <2>1, <2>2, SMT
    <3> QED
      BY <3>1, <3>2, <3>3
  <2> HIDE DEF old
  <2>8. Distinct(r)
    BY <2>2, <2>5, <2>6, ZenonT(40) DEF Distinct
  <2>9. \A i \in 1..Len(r) : r[i].key # k /\ \E j \in 1..Len(bundles) : r[i] = bundles[j]
    BY <2>1, <2>2, <2>5 DEF Distinct
  <2>10. KeysIn(r) = CachedKeys \ {k}
    <3>1. \A x \in KeysIn(r) : x \in CachedKeys /\ x # k
      BY <2>9 DEF KeysIn, CachedKeys
    <3>2. ASSUME NEW x \in CachedKeys, x # k PROVE x \in KeysIn(r)
      <4>1. PICK i \in 1..Len(bundles) : bundles[i].key = x
        BY DEF CachedKeys
      <4>2. PICK j \in 1..Len(r) : i = old(j)
        BY <2>1, <2>7, <3>2, <4>1
      <4> QED
        BY <2>5, <4>1, <4>2 DEF KeysIn
    <3> QED
      BY <3>1, <3>2
  <2> QED
    BY <1>2, <2>4, <2>8, <2>9, <2>10 DEF r
<1> QED
  BY <1>1, <1>2

\* An entry put at the front of the list, its old one out of it.
LEMMA PutFacts ==
  ASSUME ListOK, NEW k \in Names, NEW b \in Bundle
  PROVE  LET new == [key |-> k, bundle |-> b]
             u == <<new>> \o Without(k)
         IN  /\ u \in Seq(Entry) /\ Distinct(u) /\ Len(u) = Len(Without(k)) + 1
             /\ KeysIn(u) = CachedKeys \cup {k}
             /\ \A i \in 1..Len(u) : u[i] = new \/ \E j \in 1..Len(bundles) : u[i] = bundles[j]
<1> DEFINE new == [key |-> k, bundle |-> b]
           w == Without(k)
           u == <<new>> \o w
<1>1. new \in Entry /\ new.key = k
  BY DEF Entry
<1>2. /\ w \in Seq(Entry) /\ Distinct(w) /\ KeysIn(w) = CachedKeys \ {k}
      /\ \A i \in 1..Len(w) : w[i].key # k /\ \E j \in 1..Len(bundles) : w[i] = bundles[j]
  BY WithoutFacts
<1> HIDE DEF w, new
<1>3. <<new>> \in Seq(Entry) /\ Len(<<new>>) = 1 /\ <<new>>[1] = new /\ Len(w) \in Nat
  BY <1>1, <1>2, SMT
<1>4. u \in Seq(Entry)
  BY <1>2, <1>3, SMT
<1>5. Len(u) = Len(w) + 1
  BY <1>2, <1>3, SMT
<1>6. u[1] = new /\ \A i \in 1..Len(w) : u[i + 1] = w[i]
  BY <1>2, <1>3, SMT
<1>7. \A i \in 1..Len(u) : i = 1 \/ \E j \in 1..Len(w) : i = j + 1
  <2> TAKE i \in 1..Len(u)
  <2>1. i = 1 \/ (i - 1 \in 1..Len(w) /\ i = (i - 1) + 1)
    BY <1>3, <1>5, SMT
  <2> QED
    BY <2>1
<1>8. 1 \in 1..Len(u) /\ \A j \in 1..Len(w) : j + 1 \in 1..Len(u)
  BY <1>3, <1>5, SMT
<1> HIDE DEF u
<1>r. \A i \in 1..Len(u) : i = 1 \/ (u[i].key # k /\ \E j \in 1..Len(w) : u[i] = w[j])
  <2> TAKE i \in 1..Len(u)
  <2>1. ASSUME NEW j \in 1..Len(w), i = j + 1 PROVE u[i] = w[j] /\ w[j].key # k
    BY <1>2, <1>6, <2>1
  <2> QED
    BY <1>7, <2>1
<1>9. Distinct(u)
  <2> SUFFICES ASSUME NEW i \in 1..Len(u), NEW j \in 1..Len(u), u[i].key = u[j].key
               PROVE  i = j
    BY DEF Distinct
  <2>1. CASE i = 1
    BY <1>r, <1>1, <1>6, <2>1
  <2>2. CASE j = 1
    BY <1>r, <1>1, <1>6, <2>2
  <2>3. CASE i # 1 /\ j # 1
    <3>1. PICK x \in 1..Len(w), y \in 1..Len(w) : i = x + 1 /\ j = y + 1
      BY <1>7, <2>3
    <3> QED
      BY <1>2, <1>6, <3>1 DEF Distinct
  <2> QED
    BY <2>1, <2>2, <2>3
<1>10. \A i \in 1..Len(u) : u[i] = new \/ \E j \in 1..Len(bundles) : u[i] = bundles[j]
  <2> TAKE i \in 1..Len(u)
  <2>1. CASE i = 1
    BY <1>6, <2>1
  <2>2. ASSUME NEW j \in 1..Len(w), u[i] = w[j] PROVE \E x \in 1..Len(bundles) : u[i] = bundles[x]
    BY <1>2, <2>2
  <2> QED
    BY <1>r, <2>1, <2>2
<1>11. KeysIn(u) = CachedKeys \cup {k}
  <2>1. k \in KeysIn(u)
    BY <1>1, <1>6, <1>8 DEF KeysIn
  <2>2. \A x \in KeysIn(w) : x \in KeysIn(u)
    BY <1>6, <1>8 DEF KeysIn
  <2>3. \A x \in KeysIn(u) : x = k \/ x \in KeysIn(w)
    <3>1. ASSUME NEW i \in 1..Len(u) PROVE u[i].key = k \/ u[i].key \in KeysIn(w)
      BY <1>r, <1>1, <1>6 DEF KeysIn
    <3> QED
      BY <3>1 DEF KeysIn
  <2> QED
    BY <1>2, <2>1, <2>2, <2>3
<1> QED
  BY <1>4, <1>5, <1>9, <1>10, <1>11 DEF u, w, new

\* The cache is sound: one entry per client, within its capacity, none outlived.
SoundList == ListOK /\ Len(bundles) <= MaxEntries /\ stale \subseteq CachedKeys

\* Every entry of the list was there before.
EntriesKept == \A i \in 1..Len(bundles') : \E j \in 1..Len(bundles) : bundles'[i] = bundles[j]

\* Get of a stale entry, and Invalidate.
LEMMA RemoveSound ==
  ASSUME SoundList, NEW k, bundles' = Without(k), stale' = stale \ {k}
  PROVE  SoundList' /\ EntriesKept /\ \A i \in 1..Len(bundles') : bundles'[i].key # k
<1>1. ListOK /\ Len(bundles) <= MaxEntries /\ stale \subseteq CachedKeys /\ Len(bundles) \in Nat
  BY SMT DEF SoundList, ListOK
<1>2. ListOK' /\ EntriesKept /\ \A i \in 1..Len(bundles') : bundles'[i].key # k
  <2>1. /\ bundles' \in Seq(Entry) /\ Distinct(bundles')
        /\ \A i \in 1..Len(bundles') : /\ bundles'[i].key # k
                                      /\ \E j \in 1..Len(bundles) : bundles'[i] = bundles[j]
    BY <1>1, WithoutFacts, SMT
  <2>2. ListOK'
    BY <2>1 DEF ListOK, Distinct
  <2> QED
    BY <2>1, <2>2 DEF EntriesKept
<1>3. stale' \subseteq CachedKeys'
  <2>1. KeysIn(bundles') = CachedKeys \ {k}
    BY <1>1, WithoutFacts
  <2> QED
    BY <1>1, <2>1 DEF CachedKeys, KeysIn
<1>4. Len(bundles') <= MaxEntries
  <2>1. Len(bundles') \in {Len(bundles) - 1, Len(bundles)}
    BY <1>1, WithoutFacts
  <2> QED
    BY <1>1, <2>1, LimitsAssumption, SMT
<1> QED
  BY <1>2, <1>3, <1>4 DEF SoundList

\* Get of a fresh entry moves it to the front.
LEMMA HitSound ==
  ASSUME SoundList, NEW k \in CachedKeys, UNCHANGED stale,
         bundles' = <<[key |-> k, bundle |-> CachedBundle(k)]>> \o Without(k)
  PROVE  SoundList' /\ EntriesKept /\ CachedBundle(k) \in Bundle
         /\ \E i \in 1..Len(bundles) : bundles[i] = [key |-> k, bundle |-> CachedBundle(k)]
<1> DEFINE e == EntryOf(k)
           b == CachedBundle(k)
<1>1. ListOK /\ Len(bundles) <= MaxEntries /\ stale \subseteq CachedKeys /\ Len(bundles) \in Nat
  BY SMT DEF SoundList, ListOK
<1>2. e \in 1..Len(bundles) /\ bundles[e].key = k
  BY DEF CachedKeys, EntryOf
<1>3. bundles[e] \in Entry
  BY <1>1, <1>2, SMT DEF ListOK
<1>4. k \in Names /\ b \in Bundle /\ bundles[e] = [key |-> k, bundle |-> b]
  BY <1>2, <1>3, SMT DEF Entry, CachedBundle
<1> HIDE DEF b, e
<1>5. bundles' = <<[key |-> k, bundle |-> b]>> \o Without(k)
  BY DEF b
<1>6. ListOK' /\ CachedKeys' = CachedKeys \cup {k} /\ Len(bundles') = Len(Without(k)) + 1
  <2>1. /\ bundles' \in Seq(Entry) /\ Distinct(bundles')
        /\ KeysIn(bundles') = CachedKeys \cup {k} /\ Len(bundles') = Len(Without(k)) + 1
    BY <1>1, <1>4, <1>5, PutFacts
  <2> QED
    BY <2>1 DEF ListOK, Distinct, CachedKeys, KeysIn
<1>7. EntriesKept
  <2> DEFINE u == <<[key |-> k, bundle |-> b]>> \o Without(k)
  <2>1. \A i \in 1..Len(u) : \/ u[i] = [key |-> k, bundle |-> b]
                            \/ \E j \in 1..Len(bundles) : u[i] = bundles[j]
    BY <1>1, <1>4, PutFacts
  <2>2. bundles' = u
    BY <1>5
  <2> HIDE DEF u
  <2>3. \A i \in 1..Len(u) : \E j \in 1..Len(bundles) : u[i] = bundles[j]
    BY <1>2, <1>4, <2>1
  <2> QED
    BY <2>2, <2>3 DEF EntriesKept
<1>8. Len(bundles') <= MaxEntries
  <2>1. Len(Without(k)) = Len(bundles) - 1
    BY <1>1, WithoutFacts
  <2> QED
    BY <1>1, <1>6, <2>1, LimitsAssumption, SMT
<1> QED
  BY <1>1, <1>2, <1>4, <1>6, <1>7, <1>8 DEF SoundList, b

\* Set puts the entry at the front and drops the least recently used one.
LEMMA SetSound ==
  ASSUME SoundList, NEW k \in Names, NEW b \in Bundle, CacheBundle(k, b)
  PROVE  /\ SoundList'
         /\ \A i \in 1..Len(bundles') :
              \/ bundles'[i] = [key |-> k, bundle |-> b]
              \/ \E j \in 1..Len(bundles) : bundles'[i] = bundles[j]
<1> DEFINE new == [key |-> k, bundle |-> b]
           u == <<new>> \o Without(k)
<1>1. ListOK /\ Len(bundles) <= MaxEntries /\ Len(bundles) \in Nat
  BY SMT DEF SoundList, ListOK
<1>2. /\ u \in Seq(Entry) /\ Distinct(u)
      /\ \A i \in 1..Len(u) : u[i] = new \/ \E j \in 1..Len(bundles) : u[i] = bundles[j]
  BY <1>1, PutFacts
<1>3. bundles' = IF Len(u) > MaxEntries THEN SubSeq(u, 1, MaxEntries) ELSE u
  BY DEF CacheBundle
<1>4. stale' = stale \cap {bundles'[i].key : i \in 2..Len(bundles')}
  BY DEF CacheBundle
<1> HIDE DEF u
<1>5. /\ bundles' \in Seq(Entry) /\ Len(bundles') <= MaxEntries
      /\ \A i \in 1..Len(bundles') : i \in 1..Len(u) /\ bundles'[i] = u[i]
  <2>1. CASE Len(u) > MaxEntries
    BY <1>2, <1>3, <2>1, LimitsAssumption, SMT
  <2>2. CASE ~ (Len(u) > MaxEntries)
    BY <1>2, <1>3, <2>2, LimitsAssumption, SMT
  <2> QED
    BY <2>1, <2>2
<1>6. ListOK'
  BY <1>2, <1>5 DEF ListOK, Distinct
<1>7. \A i \in 2..Len(bundles') : i \in 1..Len(bundles')
  BY <1>5, SMT
<1>8. stale' \subseteq CachedKeys'
  BY <1>4, <1>7 DEF CachedKeys
<1> QED
  BY <1>2, <1>5, <1>6, <1>8 DEF SoundList

-----------------------------------------------------------------------------
(* Types, and the capacity of the bundle cache.                            *)

Notice == [name : Names, scope : Scopes]
AgentPcs == {"idle", "etag", "bundle", "hit", "do", "joined", "slot"} \cup Building
Answers == {"none", "200", "304", "413", "500", "gone"}
AgentRecord == [pc : AgentPcs, built : Bundle, held : Bundle \cup {None}, ans : Answers]

\* A change that the handler is at stays in the queue until it is done with it, and
\* a CR and its changes have a scope that its authors give it.
CRInv ==
  /\ changes \in 0..MaxChanges
  /\ cr \in [Names -> {Absent} \cup [scope : Scopes, version : Versions]]
  /\ notices \in Seq(Notice)
  /\ handler \in {"policy", "etag", "bundle"}
  /\ handler # "policy" => notices # <<>>
  /\ \A n \in Names : cr[n] # Absent => cr[n].scope \in ScopesOf[n]
  /\ \A i \in 1..Len(notices) : notices[i].scope \in ScopesOf[notices[i].name]
CachesTyped ==
  /\ etags \in [Names -> Bundle \cup {None}]
  /\ global \in Tier \cup {None}
  /\ nsCache \in [Namespaces -> Tier \cup {None}]
AgentsTyped == agent \in [Agents -> AgentRecord]
SoundInv ==
  BuildInv /\ CRInv /\ CachesTyped /\ SoundList /\ AgentsTyped /\ overlap \in BOOLEAN

\* The entries have the key of a client and a bundle.
LEMMA EntriesTyped ==
  ASSUME ListOK
  PROVE  \A i \in 1..Len(bundles) : bundles[i].key \in Names /\ bundles[i].bundle \in Bundle
<1>1. \A i \in 1..Len(bundles) : bundles[i] \in Entry
  BY SMT DEF ListOK
<1> QED
  BY <1>1 DEF Entry

\* What the invariant is for.
LEMMA SoundIsSound == SoundInv => BundleCacheSound
<1> SUFFICES ASSUME SoundInv PROVE BundleCacheSound
  OBVIOUS
<1>1. CachedKeys \subseteq Names
  BY EntriesTyped DEF SoundInv, SoundList, CachedKeys
<1>2. BSTypeOK
  BY <1>1 DEF SoundInv, BSTypeOK, CRInv, CachesTyped, SoundList, ListOK, Entry, AgentsTyped,
     AgentRecord, AgentPcs, Answers, Notice, BuildInv, FlightsOK, SlotsOK
<1> QED
  BY <1>2 DEF SoundInv, SoundList, ListOK, Distinct, BundleCacheSound

\* The watcher's reads are tiers of a bundle.
LEMMA ReadsTyped ==
  ASSUME CRInv
  PROVE  /\ GetGlobalPolicies \in Tier
         /\ \A s : GetNamespacePolicies(s) \in Tier
         /\ \A n \in Names : GetPolicy(n) \in Tier
<1>1. \A n \in Names : cr[n].version \in Versions
  <2> TAKE n \in Names
  <2>1. cr[n] \in {Absent} \cup [scope : Scopes, version : Versions]
    BY DEF CRInv
  <2>2. Absent.version = 0 /\ 0 \in Versions
    BY LimitsAssumption, SMT DEF Absent, Versions
  <2> QED
    BY <2>1, <2>2
<1>2. \A S \in SUBSET Names : VersionsOf(S) \in Tier
  <2> TAKE S \in SUBSET Names
  <2>1. \A n \in S : <<n, cr[n].version>> \in Names \X Versions
    BY <1>1
  <2>2. {<<n, cr[n].version>> : n \in S} \subseteq Names \X Versions
    BY <2>1
  <2> QED
    BY <2>2 DEF VersionsOf, Tier
<1> QED
  BY <1>2 DEF GetGlobalPolicies, GetNamespacePolicies, GetPolicy, Tier

\* Initially the caches are empty.
LEMMA SoundInit == BSInit => SoundInv
<1> SUFFICES ASSUME BSInit PROVE SoundInv
  OBVIOUS
<1>1. CRInv
  <2>1. 0 \in Versions /\ 0 \in 0..MaxChanges /\ <<>> \in Seq(Notice) /\ 1..Len(<<>>) = {}
    BY LimitsAssumption, SMT DEF Versions
  <2>2. PICK scope \in [Stored -> Scopes] :
          /\ \A n \in Stored : scope[n] \in ScopesOf[n]
          /\ cr = [n \in Names |-> IF n \in Stored THEN [scope |-> scope[n], version |-> 0]
                                   ELSE Absent]
    BY DEF BSInit
  <2>3. /\ cr \in [Names -> {Absent} \cup [scope : Scopes, version : Versions]]
        /\ \A n \in Names : cr[n] # Absent => cr[n].scope \in ScopesOf[n]
    BY <2>1, <2>2
  <2> QED
    BY <2>1, <2>3 DEF BSInit, CRInv
<1>2. CachesTyped
  BY DEF BSInit, CachesTyped
<1>3. SoundList
  <2>1. <<>> \in Seq(Entry) /\ Len(<<>>) = 0 /\ 1..0 = {} /\ 0 <= MaxEntries
    BY LimitsAssumption, SMT
  <2> QED
    BY <2>1 DEF BSInit, SoundList, ListOK, Distinct, CachedKeys
<1>4. AgentsTyped
  BY DEF BSInit, AgentsTyped, AgentRecord, AgentPcs, Answers, IdleAgent, Bundle, Tier
<1> QED
  BY <1>1, <1>2, <1>3, <1>4, BuildInvInit DEF BSInit, SoundInv

\* A change enters the store and the queue with its scope.
LEMMA ChangeInv ==
  ASSUME CRInv, NEW n \in Names, NEW scope \in ScopesOf[n], scope \in Scopes,
         changes < MaxChanges, changes' = changes + 1, UNCHANGED handler,
         notices' = Append(notices, [name |-> n, scope |-> scope]),
         cr' = [cr EXCEPT ![n] = [scope |-> scope, version |-> changes']]
           \/ cr' = [cr EXCEPT ![n] = Absent]
  PROVE  CRInv'
<1> DEFINE c == [name |-> n, scope |-> scope]
<1>1. /\ changes \in 0..MaxChanges /\ notices \in Seq(Notice)
      /\ cr \in [Names -> {Absent} \cup [scope : Scopes, version : Versions]]
      /\ handler \in {"policy", "etag", "bundle"}
      /\ \A m \in Names : cr[m] # Absent => cr[m].scope \in ScopesOf[m]
      /\ \A i \in 1..Len(notices) : notices[i].scope \in ScopesOf[notices[i].name]
  BY DEF CRInv
<1>2. changes' \in 0..MaxChanges /\ changes' \in Versions
  BY <1>1, LimitsAssumption, SMT DEF Versions
<1>3. /\ cr' \in [Names -> {Absent} \cup [scope : Scopes, version : Versions]]
      /\ \A m \in Names : cr'[m] # Absent => cr'[m].scope \in ScopesOf[m]
  <2>1. CASE cr' = [cr EXCEPT ![n] = [scope |-> scope, version |-> changes']]
    BY <1>1, <1>2, <2>1
  <2>2. CASE cr' = [cr EXCEPT ![n] = Absent]
    BY <1>1, <2>2
  <2> QED
    BY <2>1, <2>2
<1>4. c \in Notice /\ c.name = n /\ c.scope = scope
  BY DEF Notice
<1> HIDE DEF c
<1>5. /\ notices' \in Seq(Notice) /\ notices' # <<>> /\ Len(notices') = Len(notices) + 1
      /\ notices'[Len(notices) + 1] = c
      /\ \A i \in 1..Len(notices) : notices'[i] = notices[i]
  <2>1. notices' = Append(notices, c)
    BY DEF c
  <2> QED
    BY <1>1, <1>4, <2>1, SMT
<1>6. \A i \in 1..Len(notices') : i \in 1..Len(notices) \/ i = Len(notices) + 1
  BY <1>1, <1>5, SMT
<1>7. \A i \in 1..Len(notices') : notices'[i].scope \in ScopesOf[notices'[i].name]
  <2> TAKE i \in 1..Len(notices')
  <2>1. CASE i \in 1..Len(notices)
    BY <1>1, <1>5, <2>1
  <2>2. CASE i = Len(notices) + 1
    BY <1>4, <1>5, <2>2
  <2> QED
    BY <1>6, <2>1, <2>2
<1> QED
  BY <1>1, <1>2, <1>3, <1>5, <1>7 DEF CRInv

\* The handler is done with the oldest change.
LEMMA ChangeDone ==
  ASSUME CRInv, notices # <<>>, notices' = Tail(notices), handler' = "policy",
         UNCHANGED <<changes, cr>>
  PROVE  CRInv'
<1>1. notices \in Seq(Notice)
  BY DEF CRInv
<1>2. /\ notices' \in Seq(Notice)
      /\ \A i \in 1..Len(notices') : i + 1 \in 1..Len(notices) /\ notices'[i] = notices[i + 1]
  BY <1>1, SMT
<1> QED
  BY <1>2 DEF CRInv

\* The store, the watcher's queue and its handler.
LEMMA WatcherSound ==
  ASSUME SoundInv, BuildInv',
         \/ \E n \in Names : DeleteCR(n) \/ \E scope \in Scopes : ApplyCR(n, scope)
         \/ HandlerStep
  PROVE  SoundInv'
<1>1. CRInv /\ CachesTyped /\ SoundList /\ AgentsTyped /\ overlap \in BOOLEAN
  BY DEF SoundInv
<1>2. UNCHANGED agent /\ overlap' \in BOOLEAN
  BY <1>1 DEF DeleteCR, ApplyCR, HandlerStep, InvalidatePolicies, InvalidateETags,
     InvalidateBundles, NoteOverlap
<1>3. ASSUME CRInv', UNCHANGED caches PROVE SoundInv'
  BY <1>1, <1>2, <1>3 DEF SoundInv, CachesTyped, AgentsTyped, SoundList, ListOK, CachedKeys,
     Distinct, caches
<1>4. ASSUME NEW n \in Names, DeleteCR(n) PROVE SoundInv'
  <2>1. cr[n].scope \in ScopesOf[n] /\ cr[n].scope \in Scopes
    <3>1. cr[n] \in [scope : Scopes, version : Versions] /\ cr[n] # Absent
      BY <1>1, <1>4 DEF DeleteCR, CRInv
    <3> QED
      BY <1>1, <3>1 DEF CRInv
  <2>2. CRInv'
    BY <1>1, <1>4, <2>1, ChangeInv DEF DeleteCR
  <2> QED
    BY <1>3, <1>4, <2>2 DEF DeleteCR
<1>5. ASSUME NEW n \in Names, NEW scope \in Scopes, ApplyCR(n, scope) PROVE SoundInv'
  <2>1. CRInv'
    BY <1>1, <1>5, ChangeInv DEF ApplyCR
  <2> QED
    BY <1>3, <1>5, <2>1 DEF ApplyCR
<1>6. CASE InvalidatePolicies
  <2>1. CRInv'
    <3>1. /\ notices # <<>> /\ UNCHANGED <<changes, cr>>
          /\ \/ handler' = "policy" /\ notices' = Tail(notices)
             \/ handler' = "etag" /\ notices' = notices
      BY <1>6 DEF InvalidatePolicies
    <3> QED
      BY <1>1, <3>1, ChangeDone DEF CRInv
  <2>2. CachesTyped'
    BY <1>1, <1>6 DEF InvalidatePolicies, CachesTyped
  <2>3. SoundList'
    BY <1>1, <1>6 DEF InvalidatePolicies, SoundList, ListOK, Distinct, CachedKeys
  <2> QED
    BY <1>1, <1>2, <2>1, <2>2, <2>3 DEF SoundInv, AgentsTyped
<1>7. CASE InvalidateETags
  <2>1. CRInv'
    BY <1>1, <1>7 DEF InvalidateETags, CRInv
  <2>2. CachesTyped'
    BY <1>1, <1>7 DEF InvalidateETags, CachesTyped
  <2>3. SoundList'
    BY <1>1, <1>7 DEF InvalidateETags, SoundList, ListOK, Distinct, CachedKeys
  <2> QED
    BY <1>1, <1>2, <2>1, <2>2, <2>3 DEF SoundInv, AgentsTyped
<1>8. CASE InvalidateBundles
  <2>1. CRInv'
    BY <1>1, <1>8, ChangeDone DEF InvalidateBundles, CRInv
  <2>2. CachesTyped'
    BY <1>1, <1>8 DEF InvalidateBundles, CachesTyped
  <2>3. SoundList'
    <3>1. CASE Change.scope = "client"
      BY <1>1, <1>8, <3>1, RemoveSound DEF InvalidateBundles, Affected
    <3>2. CASE Change.scope # "client"
      <4>1. bundles' = <<>> /\ stale' = stale \ Names
        BY <1>8, <3>2 DEF InvalidateBundles, Affected
      <4>2. <<>> \in Seq(Entry) /\ Len(<<>>) = 0 /\ 1..0 = {} /\ 0 <= MaxEntries
        BY LimitsAssumption, SMT
      <4>3. stale \subseteq Names
        BY SoundIsSound DEF BundleCacheSound, BSTypeOK
      <4> QED
        BY <4>1, <4>2, <4>3 DEF SoundList, ListOK, Distinct, CachedKeys
    <3> QED
      BY <3>1, <3>2
  <2> QED
    BY <1>1, <1>2, <2>1, <2>2, <2>3 DEF SoundInv, AgentsTyped
<1> QED
  BY <1>4, <1>5, <1>6, <1>7, <1>8 DEF HandlerStep

\* The record of a request stays one when it moves, and when it is answered.
LEMMA RequestFields ==
  ASSUME NEW x \in AgentRecord
  PROVE  /\ \A pc \in AgentPcs : [x EXCEPT !.pc = pc] \in AgentRecord
         /\ \A held \in Bundle \cup {None}, ans \in Answers : IdleAgent(held, ans) \in AgentRecord
         /\ \A pc \in AgentPcs, t \in Tier :
              /\ [x EXCEPT !.pc = pc, !.built.global = t] \in AgentRecord
              /\ [x EXCEPT !.pc = pc, !.built.ns = t] \in AgentRecord
              /\ [x EXCEPT !.pc = pc, !.built.client = t] \in AgentRecord
         /\ \A pc \in AgentPcs, b \in Bundle :
              [x EXCEPT !.pc = pc, !.built = b] \in AgentRecord
         /\ [x EXCEPT !.pc = "etag", !.ans = "none"] \in AgentRecord
<1>1. x.built \in Bundle
  BY DEF AgentRecord
<1>2. \A t \in Tier : /\ [x.built EXCEPT !.global = t] \in Bundle
                      /\ [x.built EXCEPT !.ns = t] \in Bundle
                      /\ [x.built EXCEPT !.client = t] \in Bundle
  BY <1>1 DEF Bundle
<1>3. \A pc \in AgentPcs : [x EXCEPT !.pc = pc] \in AgentRecord
  BY DEF AgentRecord
<1>4. \A held \in Bundle \cup {None}, ans \in Answers : IdleAgent(held, ans) \in AgentRecord
  BY DEF AgentRecord, IdleAgent, AgentPcs, Bundle, Tier
<1>5. \A pc \in AgentPcs, b \in Bundle : [x EXCEPT !.pc = pc, !.built = b] \in AgentRecord
  BY DEF AgentRecord
<1>6. \A pc \in AgentPcs, t \in Tier :
        /\ [x EXCEPT !.pc = pc, !.built.global = t] \in AgentRecord
        /\ [x EXCEPT !.pc = pc, !.built.ns = t] \in AgentRecord
        /\ [x EXCEPT !.pc = pc, !.built.client = t] \in AgentRecord
  BY <1>2 DEF AgentRecord
<1>7. [x EXCEPT !.pc = "etag", !.ans = "none"] \in AgentRecord
  BY DEF AgentRecord, AgentPcs, Answers
<1> QED
  BY <1>3, <1>4, <1>5, <1>6, <1>7

\* The end of a flight answers requests.
LEMMA EndTyped ==
  ASSUME AgentsTyped, NEW a \in Agents, NEW result,
         EndFlight(a, result), \A b \in Agents : result[b] \in AgentRecord
  PROVE  AgentsTyped'
  BY DEF AgentsTyped, EndFlight

\* The steps of a request.
LEMMA RequestTyped ==
  ASSUME SoundInv, NEW a \in Agents,
         ServeBundle(a) \/ OwnStep(a) \/ AcquireSlot(a) \/ SlotCancelled(a)
  PROVE  AgentsTyped' /\ CachesTyped' /\ SoundList' /\ overlap' \in BOOLEAN
<1> DEFINE k == ClientOf[a]
<1>1. /\ CRInv /\ CachesTyped /\ SoundList /\ AgentsTyped /\ overlap \in BOOLEAN
      /\ agent[a] \in AgentRecord /\ k \in Names /\ NamespaceOf[k] \in Namespaces
      /\ agent[a].built \in Bundle /\ agent[a].held \in Bundle \cup {None}
  BY NamesAssumption DEF SoundInv, AgentsTyped, AgentRecord
<1>2. ASSUME UNCHANGED <<etags, global, nsCache>> PROVE CachesTyped'
  BY <1>1, <1>2 DEF CachesTyped
<1>3. ASSUME UNCHANGED <<bundles, stale>> PROVE SoundList'
  BY <1>1, <1>3 DEF SoundList, ListOK, Distinct, CachedKeys
<1>4. ASSUME NEW x \in AgentRecord, agent' = [agent EXCEPT ![a] = x] PROVE AgentsTyped'
  BY <1>1, <1>4 DEF AgentsTyped
<1>5. ASSUME NEW pc \in AgentPcs, GoTo(a, pc) PROVE AgentsTyped'
  BY <1>1, <1>5, RequestFields DEF AgentsTyped, GoTo
<1>6. \A b \in Agents, ans \in Answers : Answered(b, ans) \in AgentRecord
  BY <1>1, RequestFields DEF Answered, AgentsTyped, AgentRecord
<1>7. Served(agent[a].built) \in AgentRecord
  BY <1>1, RequestFields DEF Served, Answers
<1>8. CASE ServeBundle(a)
  <2>1. AgentsTyped'
    BY <1>1, <1>8, RequestFields DEF AgentsTyped, ServeBundle
  <2>2. overlap' \in BOOLEAN
    BY <1>8 DEF ServeBundle, NoteOverlap
  <2> QED
    BY <1>2, <1>3, <1>8, <2>1, <2>2 DEF ServeBundle, caches
<1>9. CASE CheckETag(a)
  <2>1. AgentsTyped'
    BY <1>4, <1>5, <1>6, <1>9 DEF CheckETag, Answers, AgentPcs
  <2> QED
    BY <1>1, <1>2, <1>3, <1>9, <2>1 DEF CheckETag, caches
<1>10. CASE BundleHit(a)
  <2>1. SoundList' /\ CachedBundle(k) \in Bundle
    BY <1>1, <1>10, HitSound DEF BundleHit
  <2>2. AgentsTyped'
    BY <1>1, <1>10, <2>1, RequestFields DEF AgentsTyped, BundleHit, AgentPcs
  <2> QED
    BY <1>1, <1>2, <1>10, <2>1, <2>2 DEF BundleHit
<1>11. CASE ServeHit(a)
  <2>1. AgentsTyped'
    BY <1>4, <1>7, <1>11 DEF ServeHit
  <2>2. CachesTyped'
    BY <1>1, <1>11 DEF ServeHit, CachesTyped
  <2> QED
    BY <1>1, <1>3, <1>11, <2>1, <2>2 DEF ServeHit
<1>12. CASE BundleMiss(a)
  <2>1. SoundList'
    BY <1>1, <1>12, RemoveSound DEF BundleMiss
  <2> QED
    BY <1>1, <1>2, <1>5, <1>12, <2>1 DEF BundleMiss, AgentPcs
<1>13. CASE Lead(a) \/ Join(a) \/ AcquireSlot(a)
  BY <1>1, <1>2, <1>3, <1>5, <1>13 DEF Lead, Join, AcquireSlot, caches, AgentPcs, Building
<1>14. CASE ReadGlobal(a)
  <2>1. AgentsTyped'
    <3>1. PICK t \in Tier, pc \in AgentPcs :
            agent' = [agent EXCEPT ![a].pc = pc, ![a].built.global = t]
      BY <1>1, <1>14, ReadsTyped DEF ReadGlobal, CachesTyped, AgentPcs, Building
    <3> QED
      BY <1>1, <3>1, RequestFields DEF AgentsTyped
  <2> QED
    BY <1>1, <1>2, <1>3, <1>14, <2>1 DEF ReadGlobal, caches
<1>15. CASE SetGlobal(a)
  <2>1. CachesTyped'
    BY <1>1, <1>15 DEF SetGlobal, CachesTyped, Bundle
  <2> QED
    BY <1>1, <1>3, <1>5, <1>15, <2>1 DEF SetGlobal, AgentPcs, Building
<1>16. CASE ReadNamespace(a)
  <2>1. AgentsTyped'
    <3>1. PICK t \in Tier, pc \in AgentPcs :
            agent' = [agent EXCEPT ![a].pc = pc, ![a].built.ns = t]
      BY <1>1, <1>16, ReadsTyped DEF ReadNamespace, CachesTyped, AgentPcs, Building
    <3> QED
      BY <1>1, <3>1, RequestFields DEF AgentsTyped
  <2> QED
    BY <1>1, <1>2, <1>3, <1>16, <2>1 DEF ReadNamespace, caches
<1>17. CASE SetNamespace(a)
  <2>1. CachesTyped'
    BY <1>1, <1>17 DEF SetNamespace, CachesTyped, Bundle
  <2> QED
    BY <1>1, <1>3, <1>5, <1>17, <2>1 DEF SetNamespace, AgentPcs, Building
<1>18. CASE ReadClient(a)
  <2>1. AgentsTyped'
    BY <1>1, <1>18, ReadsTyped, RequestFields DEF AgentsTyped, ReadClient, AgentPcs, Building
  <2> QED
    BY <1>1, <1>2, <1>3, <1>18, <2>1 DEF ReadClient, caches
<1>19. CASE SetETag(a)
  <2>1. CachesTyped'
    BY <1>1, <1>19 DEF SetETag, CachesTyped
  <2> QED
    BY <1>1, <1>3, <1>5, <1>19, <2>1 DEF SetETag, AgentPcs, Building
<1>20. CASE BundleBuilt(a)
  <2>1. SoundList'
    BY <1>1, <1>20, SetSound DEF BundleBuilt
  <2>2. AgentsTyped'
    <3> DEFINE result == [b \in Agents |-> Served(agent[a].built)]
    <3>1. EndFlight(a, result) /\ \A b \in Agents : result[b] \in AgentRecord
      BY <1>7, <1>20 DEF BundleBuilt
    <3> QED
      BY <1>1, <3>1, EndTyped
  <2> QED
    BY <1>1, <1>2, <1>20, <2>1, <2>2 DEF BundleBuilt
<1>21. CASE BuildFails(a)
  <2>1. AgentsTyped'
    <3>1. PICK ans \in Answers : EndFlight(a, [b \in Agents |-> Answered(b, ans)])
      BY <1>21 DEF BuildFails, Answers
    <3> DEFINE result == [b \in Agents |-> Answered(b, ans)]
    <3>2. \A b \in Agents : result[b] \in AgentRecord
      BY <1>6
    <3> QED
      BY <1>1, <3>1, <3>2, EndTyped
  <2> QED
    BY <1>1, <1>2, <1>3, <1>21, <2>1 DEF BuildFails, caches
<1>22. CASE SlotCancelled(a)
  <2>1. AgentsTyped'
    <3> DEFINE result == [b \in Agents |-> Answered(b, IF b = a THEN "gone" ELSE "500")]
    <3>1. EndFlight(a, result) /\ \A b \in Agents : result[b] \in AgentRecord
      BY <1>6, <1>22 DEF SlotCancelled, Answers
    <3> QED
      BY <1>1, <3>1, EndTyped
  <2> QED
    BY <1>1, <1>2, <1>3, <1>22, <2>1 DEF SlotCancelled, caches
<1> QED
  BY <1>8, <1>9, <1>10, <1>11, <1>12, <1>13, <1>14, <1>15, <1>16, <1>17, <1>18, <1>19, <1>20,
     <1>21, <1>22 DEF OwnStep, BuildStep

\* Every step keeps the invariant.
LEMMA SoundStep == SoundInv /\ [BSNext]_bsVars => SoundInv'
<1> SUFFICES ASSUME SoundInv, [BSNext]_bsVars PROVE SoundInv'
  OBVIOUS
<1>1. BuildInv'
  BY BuildInvStep DEF SoundInv
<1>2. ASSUME UNCHANGED crVars PROVE CRInv'
  BY <1>2 DEF SoundInv, CRInv, crVars
<1>3. ASSUME NEW a \in Agents,
             ServeBundle(a) \/ OwnStep(a) \/ AcquireSlot(a) \/ SlotCancelled(a)
      PROVE  SoundInv'
  <2>1. UNCHANGED crVars
    BY <1>3 DEF ServeBundle, OwnStep, AcquireSlot, SlotCancelled, CheckETag, BundleHit, ServeHit,
       BundleMiss, Lead, Join, BuildStep, ReadGlobal, SetGlobal, ReadNamespace, SetNamespace,
       ReadClient, SetETag, BundleBuilt, BuildFails
  <2> QED
    BY <1>1, <1>2, <1>3, <2>1, RequestTyped DEF SoundInv
<1>4. ASSUME NEW k \in Names, EntryTimesOut(k) PROVE SoundInv'
  <2>1. CRInv' /\ CachesTyped' /\ AgentsTyped' /\ overlap' \in BOOLEAN
    BY <1>2, <1>4 DEF SoundInv, EntryTimesOut, CachesTyped, AgentsTyped
  <2>2. SoundList'
    BY <1>4 DEF SoundInv, SoundList, ListOK, Distinct, CachedKeys, EntryTimesOut
  <2> QED
    BY <1>1, <2>1, <2>2 DEF SoundInv
<1>5. CASE UNCHANGED bsVars
  BY <1>1, <1>2, <1>5 DEF SoundInv, CachesTyped, AgentsTyped, SoundList, ListOK, Distinct,
     CachedKeys, bsVars, caches
<1> QED
  BY <1>1, <1>3, <1>4, <1>5, WatcherSound DEF BSNext

\* Types, capacity, one entry per client and no entry outlived, for any clients,
\* agents, CRs, capacity and numbers of changes.
THEOREM CacheSound == BSSpec => []BundleCacheSound
<1>1. SoundInv => BundleCacheSound
  BY SoundIsSound
<1> QED
  BY SoundInit, SoundStep, <1>1, PTL DEF BSSpec

-----------------------------------------------------------------------------
(* Freshness.  While changes are pending a cache may be out of date, but   *)
(* then one of the changes that will invalidate it is still due.           *)

\* The pending changes whose invalidation is at one of these steps or before it.
Due(steps) == {i \in 1..Len(notices) : i > 1 \/ handler \in steps}
GlobalDue == \E i \in Due({"policy"}) : notices[i].scope = "global"
NamespaceDue(s) ==
  \E i \in Due({"policy"}) : notices[i].scope = "namespace" /\ NamespaceOf[notices[i].name] = s
Touches(c, k) == c.scope # "client" \/ c.name = k
ETagDue(k) == \E i \in Due({"policy", "etag"}) : Touches(notices[i], k)
BundleDue(k) == \E i \in Due({"policy", "etag", "bundle"}) : Touches(notices[i], k)

CachesOK ==
  /\ global \in {None, GetGlobalPolicies} \/ GlobalDue
  /\ \A s \in Namespaces : nsCache[s] \in {None, GetNamespacePolicies(s)} \/ NamespaceDue(s)
  /\ \A k \in Names : etags[k] \in {None, Current(k)} \/ ETagDue(k)
  /\ \A i \in 1..Len(bundles) :
       bundles[i].bundle = Current(bundles[i].key) \/ BundleDue(bundles[i].key)

\* What a request has found or built so far is what the CRs say.
BuiltOK(a) ==
  LET b == agent[a].built
      k == ClientOf[a]
  IN /\ agent[a].pc = "hit" => b = Current(k)
     /\ agent[a].pc \in Building \ {"global"} => b.global = GetGlobalPolicies
     /\ agent[a].pc \in {"setNs", "client", "setETag", "build"} =>
          b.ns = GetNamespacePolicies(NamespaceOf[k])
     /\ agent[a].pc \in {"setETag", "build"} => b.client = GetPolicy(k)

Undisturbed ==
  /\ CachesOK
  /\ notices # <<>> => \A a \in Agents : agent[a].pc = "idle"
  /\ \A a \in Agents : BuiltOK(a)
FreshInv == SoundInv /\ (ScopesStable /\ ~ overlap => Undisturbed)

\* With no change pending nothing is due.
LEMMA NothingDue == notices = <<>> => (CachesOK <=> CachesFresh)
<1> SUFFICES ASSUME notices = <<>> PROVE CachesOK <=> CachesFresh
  OBVIOUS
<1>1. 1..Len(notices) = {}
  BY SMT
<1>2. \A steps : Due(steps) = {}
  BY <1>1 DEF Due
<1>3. /\ ~ GlobalDue
      /\ \A s : ~ NamespaceDue(s)
      /\ \A k : ~ ETagDue(k) /\ ~ BundleDue(k)
  BY <1>2 DEF GlobalDue, NamespaceDue, ETagDue, BundleDue
<1> QED
  BY <1>3 DEF CachesOK, CachesFresh

\* What the invariant is for.
LEMMA FreshIsFresh == FreshInv => FreshWhenUndisturbed
  BY NothingDue DEF FreshInv, Undisturbed, FreshWhenUndisturbed

\* Initially nothing is cached.
LEMMA FreshInit == BSInit => FreshInv
<1> SUFFICES ASSUME BSInit PROVE FreshInv
  OBVIOUS
<1>1. notices = <<>> /\ \A a \in Agents : agent[a].pc = "idle"
  BY DEF BSInit, IdleAgent
<1>2. CachesFresh
  <2>1. 1..Len(<<>>) = {}
    BY SMT
  <2> QED
    BY <2>1 DEF BSInit, CachesFresh
<1>3. \A a \in Agents : BuiltOK(a)
  BY <1>1 DEF BuiltOK, Building
<1> QED
  BY <1>1, <1>2, <1>3, NothingDue, SoundInit DEF FreshInv, Undisturbed

\* The reads depend on the CRs of their scope, and on no others.
LEMMA ChangeEffect ==
  ASSUME CRInv, CRInv', ScopesStable, NEW n \in Names, NEW scope \in ScopesOf[n],
         \A m \in Names \ {n} : cr'[m] = cr[m]
  PROVE  /\ scope # "global" => GetGlobalPolicies' = GetGlobalPolicies
         /\ \A s : ~ (scope = "namespace" /\ NamespaceOf[n] = s) =>
              GetNamespacePolicies(s)' = GetNamespacePolicies(s)
         /\ \A m \in Names \ {n} : GetPolicy(m)' = GetPolicy(m)
<1>1. \A c \in Scopes \ {scope} : cr[n].scope # c /\ cr'[n].scope # c
  <2>1. \A c \in ScopesOf[n] : c = scope
    BY DEF ScopesStable
  <2>2. cr[n] = Absent \/ cr[n].scope \in ScopesOf[n]
    BY DEF CRInv
  <2>3. cr'[n] = Absent \/ cr'[n].scope \in ScopesOf[n]
    BY DEF CRInv
  <2>4. Absent.scope \notin Scopes
    BY NamesAssumption DEF Absent
  <2> QED
    BY <2>1, <2>2, <2>3, <2>4
<1>2. ASSUME NEW S, n \notin S, S \subseteq Names PROVE VersionsOf(S)' = VersionsOf(S)
  <2>1. \A m \in S : cr'[m] = cr[m]
    BY <1>2
  <2> QED
    BY <2>1 DEF VersionsOf
<1>3. ASSUME scope # "global" PROVE GetGlobalPolicies' = GetGlobalPolicies
  <2> DEFINE S == {m \in Names : cr[m].scope = "global" /\ NamespaceOf[m] = ServiceNamespace}
  <2>1. S' = S /\ n \notin S /\ S \subseteq Names
    BY <1>1, <1>3 DEF Scopes
  <2> QED
    BY <1>2, <2>1 DEF GetGlobalPolicies, VersionsOf
<1>4. ASSUME NEW s, ~ (scope = "namespace" /\ NamespaceOf[n] = s)
      PROVE  GetNamespacePolicies(s)' = GetNamespacePolicies(s)
  <2> DEFINE S == {m \in Names : cr[m].scope = "namespace" /\ NamespaceOf[m] = s}
  <2>1. S' = S /\ n \notin S /\ S \subseteq Names
    BY <1>1, <1>4 DEF Scopes
  <2> QED
    BY <1>2, <2>1 DEF GetNamespacePolicies, VersionsOf
<1>5. \A m \in Names \ {n} : GetPolicy(m)' = GetPolicy(m)
  BY DEF GetPolicy, VersionsOf
<1> QED
  BY <1>3, <1>4, <1>5

\* A change makes due the invalidation of all that depends on it.
LEMMA ChangeFresh ==
  ASSUME SoundInv, SoundInv', ScopesStable, CachesOK, NEW n \in Names, NEW scope \in ScopesOf[n],
         \A m \in Names \ {n} : cr'[m] = cr[m], UNCHANGED <<handler, caches>>,
         notices' = Append(notices, [name |-> n, scope |-> scope])
  PROVE  CachesOK'
<1> DEFINE c == [name |-> n, scope |-> scope]
           last == Len(notices) + 1
<1>1. CRInv /\ CRInv' /\ notices \in Seq(Notice) /\ (notices = <<>> => handler = "policy")
  BY DEF SoundInv, CRInv
<1>2. c.name = n /\ c.scope = scope
  OBVIOUS
<1>3. notices' = Append(notices, c)
  OBVIOUS
<1> HIDE DEF c
<1>4. /\ Len(notices') = last /\ notices'[last] = c
      /\ \A i \in 1..Len(notices) : i \in 1..Len(notices') /\ notices'[i] = notices[i]
      /\ last \in 1..Len(notices') /\ (last > 1 \/ notices = <<>>)
  <2>1. Len(notices) \in Nat /\ Len(notices') = last /\ notices'[last] = c
    BY <1>1, <1>3, SMT
  <2>2. Len(notices) = 0 => notices = <<>>
    BY <1>1, SMT
  <2>3. \A i \in 1..Len(notices) : notices'[i] = notices[i]
    BY <1>1, <1>3, SMT
  <2>4. /\ \A i \in 1..Len(notices) : i \in 1..last
        /\ last \in 1..last /\ (last > 1 \/ Len(notices) = 0)
    BY <2>1, SMT
  <2> QED
    BY <2>1, <2>2, <2>3, <2>4
<1> HIDE DEF last
<1>5. ASSUME NEW steps, "policy" \in steps
      PROVE  /\ last \in Due(steps)'
             /\ \A i \in Due(steps) : i \in Due(steps)' /\ notices'[i] = notices[i]
  BY <1>1, <1>4, <1>5 DEF Due
<1>6. /\ scope # "global" => GetGlobalPolicies' = GetGlobalPolicies
      /\ \A s : ~ (scope = "namespace" /\ NamespaceOf[n] = s) =>
           GetNamespacePolicies(s)' = GetNamespacePolicies(s)
      /\ \A m \in Names \ {n} : GetPolicy(m)' = GetPolicy(m)
  BY <1>1, ChangeEffect
<1>7. global' \in {None, GetGlobalPolicies'} \/ GlobalDue'
  <2>1. CASE scope = "global"
    BY <1>2, <1>4, <1>5, <2>1 DEF GlobalDue
  <2>2. CASE scope # "global"
    <3>1. GlobalDue => GlobalDue'
      BY <1>5 DEF GlobalDue
    <3> QED
      BY <1>6, <2>2, <3>1 DEF CachesOK, caches
  <2> QED
    BY <2>1, <2>2
<1>8. ASSUME NEW s \in Namespaces
      PROVE  nsCache'[s] \in {None, GetNamespacePolicies(s)'} \/ NamespaceDue(s)'
  <2>1. CASE scope = "namespace" /\ NamespaceOf[n] = s
    BY <1>2, <1>4, <1>5, <2>1, ZenonT(40) DEF NamespaceDue
  <2>2. CASE ~ (scope = "namespace" /\ NamespaceOf[n] = s)
    <3>1. NamespaceDue(s) => NamespaceDue(s)'
      BY <1>5 DEF NamespaceDue
    <3> QED
      BY <1>6, <2>2, <3>1 DEF CachesOK, caches
  <2> QED
    BY <2>1, <2>2
<1>9. ASSUME NEW k \in Names, ~ Touches(c, k) PROVE Current(k)' = Current(k)
  <2>1. scope = "client" /\ k # n
    BY <1>2, <1>9 DEF Touches
  <2> QED
    BY <1>6, <2>1 DEF Current
<1>10. ASSUME NEW k \in Names PROVE etags'[k] \in {None, Current(k)'} \/ ETagDue(k)'
  <2>1. CASE Touches(c, k)
    BY <1>4, <1>5, <2>1 DEF ETagDue, Touches
  <2>2. CASE ~ Touches(c, k)
    <3>1. ETagDue(k) => ETagDue(k)'
      BY <1>5 DEF ETagDue, Touches
    <3> QED
      BY <1>9, <2>2, <3>1 DEF CachesOK, caches
  <2> QED
    BY <2>1, <2>2
<1>11. ASSUME NEW k \in Names, NEW b, b = Current(k) \/ BundleDue(k)
       PROVE  b = Current(k)' \/ BundleDue(k)'
  <2>1. CASE Touches(c, k)
    BY <1>4, <1>5, <2>1 DEF BundleDue, Touches
  <2>2. CASE ~ Touches(c, k)
    <3>1. BundleDue(k) => BundleDue(k)'
      BY <1>5 DEF BundleDue, Touches
    <3> QED
      BY <1>9, <1>11, <2>2, <3>1
  <2> QED
    BY <2>1, <2>2
<1>12. ASSUME NEW i \in 1..Len(bundles)
       PROVE  (bundles[i].bundle = Current(bundles[i].key) \/ BundleDue(bundles[i].key))'
  <2>1. bundles[i].key \in Names /\ bundles' = bundles
    BY EntriesTyped DEF SoundInv, SoundList, caches
  <2>2. bundles[i].bundle = Current(bundles[i].key) \/ BundleDue(bundles[i].key)
    BY DEF CachesOK
  <2> QED
    BY <1>11, <2>1, <2>2
<1> QED
  BY <1>7, <1>8, <1>10, <1>12 DEF CachesOK, caches

\* Reads of an unchanged store.
LEMMA SameReads ==
  ASSUME UNCHANGED cr
  PROVE  /\ GetGlobalPolicies' = GetGlobalPolicies
         /\ \A s : GetNamespacePolicies(s)' = GetNamespacePolicies(s)
         /\ \A k : GetPolicy(k)' = GetPolicy(k) /\ Current(k)' = Current(k)
<1>1. \A S : VersionsOf(S)' = VersionsOf(S)
  BY DEF VersionsOf
<1>2. GetGlobalPolicies' = GetGlobalPolicies
  BY DEF GetGlobalPolicies, VersionsOf
<1>3. \A s : GetNamespacePolicies(s)' = GetNamespacePolicies(s)
  BY DEF GetNamespacePolicies, VersionsOf
<1>4. \A k : GetPolicy(k)' = GetPolicy(k)
  BY DEF GetPolicy, VersionsOf
<1> QED
  BY <1>2, <1>3, <1>4 DEF Current

\* Each step of the handler empties what the change at hand was due to invalidate.
LEMMA HandlerFresh ==
  ASSUME SoundInv, ScopesStable, CachesOK, HandlerStep
  PROVE  CachesOK'
<1>1. CRInv /\ CachesTyped /\ SoundList
  BY DEF SoundInv
<1>2. /\ notices # <<>> /\ UNCHANGED cr
      /\ handler \in {"policy", "etag", "bundle"}
  BY <1>1 DEF HandlerStep, InvalidatePolicies, InvalidateETags, InvalidateBundles, CRInv
<1>3. /\ Change = notices[1] /\ 1 \in 1..Len(notices) /\ Change \in Notice
      /\ \A i \in 1..Len(notices) : i = 1 \/ i > 1
  <2>1. notices \in Seq(Notice)
    BY <1>1 DEF CRInv
  <2> QED
    BY <1>2, <2>1, SMT DEF Change
<1>4. /\ Change.scope \in ScopesOf[Change.name] /\ Change.name \in Names
      /\ NamespaceOf[Change.name] \in Namespaces
  BY <1>1, <1>3, NamesAssumption DEF CRInv, Notice
<1>5. /\ GetGlobalPolicies' = GetGlobalPolicies
      /\ \A s : GetNamespacePolicies(s)' = GetNamespacePolicies(s)
      /\ \A k : Current(k)' = Current(k)
  BY <1>2, SameReads
<1>6. \A k \in Names : k \in Affected <=> Touches(Change, k)
  BY DEF Affected, Touches
<1>7. CASE InvalidatePolicies
  <2>1. ~ (Change.scope = "global" /\ NamespaceOf[Change.name] # ServiceNamespace)
    BY <1>4, ZenonT(40) DEF ScopesStable
  <2>2. /\ handler = "policy" /\ handler' = "etag"
        /\ UNCHANGED <<notices, etags, bundles>>
        /\ global' = IF Change.scope = "global" THEN None ELSE global
        /\ nsCache' = IF Change.scope = "namespace"
                      THEN [nsCache EXCEPT ![NamespaceOf[Change.name]] = None] ELSE nsCache
    BY <1>7, <2>1 DEF InvalidatePolicies
  <2>3. /\ \A i \in Due({"policy"}) : i = 1 \/ i \in Due({"policy"})'
        /\ Due({"policy", "etag"})' = Due({"policy", "etag"})
        /\ Due({"policy", "etag", "bundle"})' = Due({"policy", "etag", "bundle"})
    BY <1>3, <2>2 DEF Due
  <2>4. global' \in {None, GetGlobalPolicies'} \/ GlobalDue'
    <3>1. CASE Change.scope = "global"
      BY <2>2, <3>1
    <3>2. CASE Change.scope # "global"
      <4>1. GlobalDue => GlobalDue'
        BY <1>3, <2>2, <2>3, <3>2 DEF GlobalDue
      <4> QED
        BY <1>5, <2>2, <3>2, <4>1 DEF CachesOK
    <3> QED
      BY <3>1, <3>2
  <2>5. ASSUME NEW s \in Namespaces
        PROVE  nsCache'[s] \in {None, GetNamespacePolicies(s)'} \/ NamespaceDue(s)'
    <3>1. CASE Change.scope = "namespace" /\ NamespaceOf[Change.name] = s
      BY <1>1, <2>2, <3>1 DEF CachesTyped
    <3>2. CASE ~ (Change.scope = "namespace" /\ NamespaceOf[Change.name] = s)
      <4>1. NamespaceDue(s) => NamespaceDue(s)'
        BY <1>3, <2>2, <2>3, <3>2 DEF NamespaceDue
      <4>2. nsCache'[s] = nsCache[s]
        BY <1>1, <2>2, <3>2 DEF CachesTyped
      <4> QED
        BY <1>5, <4>1, <4>2 DEF CachesOK
    <3> QED
      BY <3>1, <3>2
  <2>6. \A k : (ETagDue(k) => ETagDue(k)') /\ (BundleDue(k) => BundleDue(k)')
    BY <2>2, <2>3 DEF ETagDue, BundleDue, Touches
  <2> QED
    BY <1>5, <2>2, <2>4, <2>5, <2>6 DEF CachesOK
<1>8. CASE InvalidateETags
  <2>1. /\ handler = "etag" /\ handler' = "bundle"
        /\ UNCHANGED <<notices, global, nsCache, bundles>>
        /\ etags' = [k \in Names |-> IF k \in Affected THEN None ELSE etags[k]]
    BY <1>8 DEF InvalidateETags
  <2>2. /\ Due({"policy"})' = Due({"policy"})
        /\ \A i \in Due({"policy", "etag"}) : i = 1 \/ i \in Due({"policy", "etag"})'
        /\ Due({"policy", "etag", "bundle"})' = Due({"policy", "etag", "bundle"})
    BY <1>3, <2>1 DEF Due
  <2>3. /\ GlobalDue => GlobalDue'
        /\ \A s : NamespaceDue(s) => NamespaceDue(s)'
        /\ \A k : BundleDue(k) => BundleDue(k)'
    BY <2>1, <2>2 DEF GlobalDue, NamespaceDue, BundleDue, Touches
  <2>4. ASSUME NEW k \in Names PROVE etags'[k] \in {None, Current(k)'} \/ ETagDue(k)'
    <3>1. CASE k \in Affected
      BY <2>1, <3>1
    <3>2. CASE k \notin Affected
      <4>1. ETagDue(k) => ETagDue(k)'
        BY <1>3, <1>6, <2>1, <2>2, <3>2 DEF ETagDue, Touches
      <4> QED
        BY <1>5, <2>1, <3>2, <4>1 DEF CachesOK
    <3> QED
      BY <3>1, <3>2
  <2> QED
    BY <1>5, <2>1, <2>3, <2>4 DEF CachesOK
<1>9. CASE InvalidateBundles
  <2>1. /\ handler = "bundle" /\ handler' = "policy" /\ notices' = Tail(notices)
        /\ UNCHANGED <<global, nsCache, etags>>
    BY <1>9 DEF InvalidateBundles
  <2>2. /\ \A i \in 1..Len(notices) : i > 1 => /\ i - 1 \in 1..Len(notices')
                                              /\ notices'[i - 1] = notices[i]
    <3>1. notices \in Seq(Notice)
      BY <1>1 DEF CRInv
    <3> QED
      BY <1>2, <2>1, <3>1, SMT
  <2>3. ASSUME NEW steps, "policy" \in steps, NEW i \in Due(steps), i > 1
        PROVE  i - 1 \in Due(steps)' /\ notices'[i - 1] = notices[i]
    BY <2>1, <2>2, <2>3 DEF Due
  <2>4. \A i \in Due({"policy"}) \cup Due({"policy", "etag"}) : i > 1
    BY <2>1 DEF Due
  <2>5. /\ GlobalDue => GlobalDue'
        /\ \A s : NamespaceDue(s) => NamespaceDue(s)'
        /\ \A k : ETagDue(k) => ETagDue(k)'
    BY <2>3, <2>4 DEF GlobalDue, NamespaceDue, ETagDue, Touches
  <2>6. ASSUME NEW k \in Names, ~ Touches(Change, k), BundleDue(k) PROVE BundleDue(k)'
    <3>1. PICK i \in Due({"policy", "etag", "bundle"}) : Touches(notices[i], k)
      BY <2>6 DEF BundleDue
    <3>2. i > 1
      BY <1>3, <2>6, <3>1 DEF Due
    <3> QED
      BY <2>3, <3>1, <3>2 DEF BundleDue, Touches
  <2>7. \A i \in 1..Len(bundles') : /\ bundles'[i].key \notin Affected
                                    /\ \E j \in 1..Len(bundles) : bundles'[i] = bundles[j]
    <3>1. CASE Change.scope = "client"
      BY <1>1, <1>9, <3>1, RemoveSound DEF InvalidateBundles, Affected, EntriesKept
    <3>2. CASE Change.scope # "client"
      <4>1. bundles' = <<>> /\ 1..Len(<<>>) = {}
        BY <1>9, <3>2, SMT DEF InvalidateBundles
      <4> QED
        BY <4>1
    <3> QED
      BY <3>1, <3>2
  <2>8. ASSUME NEW i \in 1..Len(bundles')
        PROVE  (bundles[i].bundle = Current(bundles[i].key) \/ BundleDue(bundles[i].key))'
    <3>1. PICK j \in 1..Len(bundles) : bundles'[i] = bundles[j]
      BY <2>7
    <3>2. bundles[j].key \in Names /\ ~ Touches(Change, bundles[j].key)
      BY <1>1, <1>6, <2>7, <3>1, EntriesTyped DEF SoundList
    <3>3. bundles[j].bundle = Current(bundles[j].key) \/ BundleDue(bundles[j].key)
      BY DEF CachesOK
    <3> QED
      BY <1>5, <2>6, <3>1, <3>2, <3>3
  <2> QED
    BY <1>5, <2>1, <2>5, <2>8 DEF CachesOK
<1> QED
  BY <1>7, <1>8, <1>9 DEF HandlerStep

\* With no change pending, a request finds, builds and caches what the CRs say.
LEMMA RequestFresh ==
  ASSUME SoundInv, CachesFresh, \A b \in Agents : BuiltOK(b), UNCHANGED crVars,
         NEW a \in Agents,
         ServeBundle(a) \/ OwnStep(a) \/ AcquireSlot(a) \/ SlotCancelled(a)
  PROVE  CachesFresh' /\ \A b \in Agents : BuiltOK(b)'
<1> DEFINE k == ClientOf[a]
           r == agent[a].built
           s == NamespaceOf[k]
           Start == {"idle", "etag", "bundle", "do", "joined", "slot", "global"}
<1>1. /\ k \in Names /\ s \in Namespaces /\ CachesTyped /\ SoundList
      /\ agent \in [Agents -> AgentRecord] /\ r \in Bundle /\ BuiltOK(a)
  BY NamesAssumption DEF SoundInv, AgentsTyped, AgentRecord
<1>2. /\ GetGlobalPolicies' = GetGlobalPolicies
      /\ \A x : GetNamespacePolicies(x)' = GetNamespacePolicies(x)
      /\ \A x : GetPolicy(x)' = GetPolicy(x) /\ Current(x)' = Current(x)
  BY SameReads DEF crVars
<1>3. ASSUME NEW b \in Agents, agent'[b] = agent[b] \/ agent'[b].pc \in Start PROVE BuiltOK(b)'
  <2>1. CASE agent'[b] = agent[b]
    <3>1. BuiltOK(b)
      OBVIOUS
    <3> QED
      BY <1>2, <2>1, <3>1 DEF BuiltOK
  <2>2. CASE agent'[b].pc \in Start
    BY <2>2 DEF BuiltOK, Building
  <2> QED
    BY <1>3, <2>1, <2>2
<1>4. ASSUME UNCHANGED caches PROVE CachesFresh'
  BY <1>2, <1>4 DEF CachesFresh, caches
<1>5. ASSUME NEW x \in Bundle, x.global = GetGlobalPolicies, x.ns = GetNamespacePolicies(s),
             x.client = GetPolicy(k)
      PROVE  x = Current(k)
  BY <1>5 DEF Current, Bundle
<1>6. CASE ServeBundle(a)
  <2>1. \A b \in Agents : agent'[b] = agent[b] \/ agent'[b].pc \in Start
    BY <1>1, <1>6 DEF ServeBundle, AgentRecord
  <2> QED
    BY <1>3, <1>4, <1>6, <2>1 DEF ServeBundle
<1>7. CASE CheckETag(a)
  <2>1. \A b \in Agents : agent'[b] = agent[b] \/ agent'[b].pc \in Start
    <3>1. CASE agent' = [agent EXCEPT ![a] = Answered(a, "304")]
      BY <1>1, <3>1 DEF Answered, IdleAgent
    <3>2. CASE GoTo(a, "bundle")
      BY <1>1, <3>2 DEF AgentRecord, GoTo
    <3> QED
      BY <1>7, <3>1, <3>2 DEF CheckETag
  <2> QED
    BY <1>3, <1>4, <1>7, <2>1 DEF CheckETag
<1>8. CASE BundleHit(a)
  <2>1. /\ UNCHANGED <<global, nsCache, etags, stale>>
        /\ agent' = [agent EXCEPT ![a].pc = "hit", ![a].built = CachedBundle(k)]
        /\ k \in CachedKeys
        /\ bundles' = <<[key |-> k, bundle |-> CachedBundle(k)]>> \o Without(k)
    BY <1>8 DEF BundleHit
  <2>2. /\ EntriesKept
        /\ \E i \in 1..Len(bundles) : bundles[i] = [key |-> k, bundle |-> CachedBundle(k)]
    BY <1>1, <2>1, HitSound
  <2>3. CachedBundle(k) = Current(k)
    <3>1. PICK i \in 1..Len(bundles) : bundles[i] = [key |-> k, bundle |-> CachedBundle(k)]
      BY <2>2
    <3>2. bundles[i].bundle = Current(bundles[i].key)
      BY DEF CachesFresh
    <3>3. bundles[i].bundle = CachedBundle(k) /\ bundles[i].key = k
      BY <3>1, SMT
    <3> QED
      BY <3>2, <3>3
  <2>4. \A i \in 1..Len(bundles') : (bundles[i].bundle = Current(bundles[i].key))'
    <3> TAKE i \in 1..Len(bundles')
    <3>1. PICK j \in 1..Len(bundles) : bundles'[i] = bundles[j]
      BY <2>2 DEF EntriesKept
    <3> QED
      BY <1>2, <3>1 DEF CachesFresh
  <2>5. CachesFresh'
    BY <1>2, <2>1, <2>4 DEF CachesFresh
  <2>6. agent'[a].pc = "hit" /\ agent'[a].built = Current(k)
    BY <1>1, <2>1, <2>3 DEF AgentRecord
  <2>7. BuiltOK(a)'
    BY <1>2, <2>6 DEF BuiltOK, Building
  <2>8. \A b \in Agents \ {a} : agent'[b] = agent[b]
    BY <1>1, <2>1
  <2> QED
    BY <1>3, <2>5, <2>7, <2>8
<1>9. CASE ServeHit(a)
  <2>1. \A b \in Agents : agent'[b] = agent[b] \/ agent'[b].pc \in Start
    BY <1>1, <1>9 DEF ServeHit, Served, IdleAgent
  <2>2. r = Current(k)
    BY <1>1, <1>9 DEF ServeHit, BuiltOK
  <2>3. etags' = [etags EXCEPT ![k] = r] /\ UNCHANGED <<global, nsCache, bundles>>
    BY <1>9 DEF ServeHit
  <2>4. \A n \in Names : etags'[n] \in {None, Current(n)}
    BY <1>1, <2>2, <2>3 DEF CachesFresh, CachesTyped
  <2> QED
    BY <1>2, <1>3, <2>1, <2>3, <2>4 DEF CachesFresh
<1>10. CASE BundleMiss(a)
  <2>1. \A b \in Agents : agent'[b] = agent[b] \/ agent'[b].pc \in Start
    BY <1>1, <1>10 DEF BundleMiss, GoTo, AgentRecord
  <2>2. EntriesKept /\ UNCHANGED <<global, nsCache, etags>>
    BY <1>1, <1>10, RemoveSound DEF BundleMiss
  <2>3. \A i \in 1..Len(bundles') : (bundles[i].bundle = Current(bundles[i].key))'
    <3> TAKE i \in 1..Len(bundles')
    <3>1. PICK j \in 1..Len(bundles) : bundles'[i] = bundles[j]
      BY <2>2 DEF EntriesKept
    <3> QED
      BY <1>2, <3>1 DEF CachesFresh
  <2> QED
    BY <1>2, <1>3, <2>1, <2>2, <2>3 DEF CachesFresh
<1>11. CASE Lead(a) \/ Join(a) \/ AcquireSlot(a)
  <2>1. \A b \in Agents : agent'[b] = agent[b] \/ agent'[b].pc \in Start
    BY <1>1, <1>11 DEF Lead, Join, AcquireSlot, GoTo, AgentRecord
  <2> QED
    BY <1>3, <1>4, <1>11, <2>1 DEF Lead, Join, AcquireSlot
<1>12. ASSUME NEW result, EndFlight(a, result), \A b \in Agents : result[b].pc = "idle"
       PROVE  \A b \in Agents : BuiltOK(b)'
  <2>1. \A b \in Agents : agent'[b] = agent[b] \/ agent'[b].pc \in Start
    BY <1>12 DEF EndFlight
  <2> QED
    BY <1>3, <2>1
<1>13. ASSUME NEW t, NEW pc, agent' = [agent EXCEPT ![a].pc = pc, ![a].built.global = t],
              t = GetGlobalPolicies, pc \in {"setGlobal", "ns"}
       PROVE  \A b \in Agents : BuiltOK(b)'
  <2>1. agent'[a].pc = pc /\ agent'[a].built.global = t
    BY <1>1, <1>13 DEF AgentRecord, Bundle
  <2>2. BuiltOK(a)'
    BY <1>2, <1>13, <2>1 DEF BuiltOK, Building
  <2>3. \A b \in Agents \ {a} : agent'[b] = agent[b]
    BY <1>1, <1>13
  <2> QED
    BY <1>3, <2>2, <2>3
<1>14. CASE ReadGlobal(a)
  <2>1. UNCHANGED caches
    BY <1>14 DEF ReadGlobal
  <2>2. global \in {None, GetGlobalPolicies}
    BY DEF CachesFresh
  <2> QED
    BY <1>4, <1>13, <1>14, <2>1, <2>2 DEF ReadGlobal
<1>15. CASE SetGlobal(a)
  <2>1. /\ global' = r.global /\ GoTo(a, "ns") /\ agent[a].pc = "setGlobal"
        /\ UNCHANGED <<etags, bundles, nsCache>>
    BY <1>15 DEF SetGlobal
  <2>2. r.global = GetGlobalPolicies
    BY <1>1, <2>1 DEF BuiltOK, Building
  <2>3. agent'[a].pc = "ns" /\ agent'[a].built = r
    BY <1>1, <2>1 DEF GoTo, AgentRecord
  <2>4. BuiltOK(a)'
    BY <1>2, <2>2, <2>3 DEF BuiltOK, Building
  <2>5. \A b \in Agents \ {a} : agent'[b] = agent[b]
    BY <1>1, <2>1 DEF GoTo
  <2>6. CachesFresh'
    BY <1>2, <2>1, <2>2 DEF CachesFresh
  <2> QED
    BY <1>3, <2>4, <2>5, <2>6
<1>16. ASSUME NEW t, NEW pc, agent' = [agent EXCEPT ![a].pc = pc, ![a].built.ns = t],
              t = GetNamespacePolicies(s), pc \in {"setNs", "client"}, agent[a].pc = "ns"
       PROVE  \A b \in Agents : BuiltOK(b)'
  <2>1. agent'[a].pc = pc /\ agent'[a].built.ns = t /\ agent'[a].built.global = r.global
    BY <1>1, <1>16 DEF AgentRecord, Bundle
  <2>2. r.global = GetGlobalPolicies
    BY <1>1, <1>16 DEF BuiltOK, Building
  <2>3. BuiltOK(a)'
    BY <1>2, <1>16, <2>1, <2>2 DEF BuiltOK, Building
  <2>4. \A b \in Agents \ {a} : agent'[b] = agent[b]
    BY <1>1, <1>16
  <2> QED
    BY <1>3, <2>3, <2>4
<1>17. CASE ReadNamespace(a)
  <2>1. UNCHANGED caches
    BY <1>17 DEF ReadNamespace
  <2>2. nsCache[s] \in {None, GetNamespacePolicies(s)}
    BY <1>1 DEF CachesFresh
  <2> QED
    BY <1>4, <1>16, <1>17, <2>1, <2>2 DEF ReadNamespace
<1>18. CASE SetNamespace(a)
  <2>1. /\ nsCache' = [nsCache EXCEPT ![s] = r.ns] /\ GoTo(a, "client")
        /\ agent[a].pc = "setNs" /\ UNCHANGED <<etags, bundles, global>>
    BY <1>18 DEF SetNamespace
  <2>2. r.global = GetGlobalPolicies /\ r.ns = GetNamespacePolicies(s)
    BY <1>1, <2>1 DEF BuiltOK, Building
  <2>3. agent'[a].pc = "client" /\ agent'[a].built = r
    BY <1>1, <2>1 DEF GoTo, AgentRecord
  <2>4. BuiltOK(a)'
    BY <1>2, <2>2, <2>3 DEF BuiltOK, Building
  <2>5. \A b \in Agents \ {a} : agent'[b] = agent[b]
    BY <1>1, <2>1 DEF GoTo
  <2>6. \A x \in Namespaces : nsCache'[x] \in {None, GetNamespacePolicies(x)}
    BY <1>1, <2>1, <2>2 DEF CachesFresh, CachesTyped
  <2>7. CachesFresh'
    BY <1>2, <2>1, <2>6 DEF CachesFresh
  <2> QED
    BY <1>3, <2>4, <2>5, <2>7
<1>19. CASE ReadClient(a)
  <2>1. /\ agent[a].pc = "client" /\ UNCHANGED caches
        /\ agent' = [agent EXCEPT ![a].pc = "setETag", ![a].built.client = GetPolicy(k)]
    BY <1>19 DEF ReadClient
  <2>2. /\ agent'[a].pc = "setETag" /\ agent'[a].built.client = GetPolicy(k)
        /\ agent'[a].built.global = r.global /\ agent'[a].built.ns = r.ns
    <3>1. ASSUME NEW t, agent' = [agent EXCEPT ![a].pc = "setETag", ![a].built.client = t]
          PROVE  /\ agent'[a].pc = "setETag" /\ agent'[a].built.client = t
                 /\ agent'[a].built.global = r.global /\ agent'[a].built.ns = r.ns
      BY <1>1, <3>1 DEF AgentRecord, Bundle
    <3> QED
      BY <2>1, <3>1
  <2>3. r.global = GetGlobalPolicies /\ r.ns = GetNamespacePolicies(s)
    BY <1>1, <2>1 DEF BuiltOK, Building
  <2>4. BuiltOK(a)'
    BY <1>2, <2>2, <2>3 DEF BuiltOK, Building
  <2>5. \A b \in Agents \ {a} : agent'[b] = agent[b]
    BY <1>1, <2>1
  <2> QED
    BY <1>3, <1>4, <2>1, <2>4, <2>5
<1>20. ASSUME agent[a].pc \in {"setETag", "build"} PROVE r = Current(k)
  BY <1>1, <1>5, <1>20 DEF BuiltOK, Building
<1>21. CASE SetETag(a)
  <2>1. /\ etags' = [etags EXCEPT ![k] = r] /\ GoTo(a, "build") /\ agent[a].pc = "setETag"
        /\ UNCHANGED <<bundles, global, nsCache>>
    BY <1>21 DEF SetETag
  <2>2. agent'[a].pc = "build" /\ agent'[a].built = r
    BY <1>1, <2>1 DEF GoTo, AgentRecord
  <2>3. r = Current(k)
    BY <1>20, <2>1
  <2>4. BuiltOK(a)'
    <3>1. /\ r.global = GetGlobalPolicies /\ r.ns = GetNamespacePolicies(s)
          /\ r.client = GetPolicy(k)
      BY <2>3, SMT DEF Current
    <3> QED
      BY <1>2, <2>2, <3>1 DEF BuiltOK, Building
  <2>5. \A b \in Agents \ {a} : agent'[b] = agent[b]
    BY <1>1, <2>1 DEF GoTo
  <2>6. \A x \in Names : etags'[x] \in {None, Current(x)}
    BY <1>1, <2>1, <2>3 DEF CachesFresh, CachesTyped
  <2>7. CachesFresh'
    BY <1>2, <2>1, <2>6 DEF CachesFresh
  <2> QED
    BY <1>3, <2>4, <2>5, <2>7
<1>22. CASE BundleBuilt(a)
  <2>1. /\ agent[a].pc = "build" /\ CacheBundle(k, r) /\ UNCHANGED <<etags, global, nsCache>>
        /\ EndFlight(a, [b \in Agents |-> Served(r)])
    BY <1>22 DEF BundleBuilt
  <2>2. r = Current(k)
    BY <1>20, <2>1
  <2>3. \A i \in 1..Len(bundles') : (bundles[i].bundle = Current(bundles[i].key))'
    <3> TAKE i \in 1..Len(bundles')
    <3>1. CASE bundles'[i] = [key |-> k, bundle |-> r]
      <4>1. bundles'[i].key = k /\ bundles'[i].bundle = r
        BY <3>1, SMT
      <4> QED
        BY <1>2, <2>2, <4>1
    <3>2. ASSUME NEW j \in 1..Len(bundles), bundles'[i] = bundles[j]
          PROVE  (bundles[i].bundle = Current(bundles[i].key))'
      BY <1>2, <3>2 DEF CachesFresh
    <3> QED
      BY <1>1, <2>1, <3>1, <3>2, SetSound
  <2>4. CachesFresh'
    BY <1>2, <2>1, <2>3 DEF CachesFresh
  <2>5. \A b \in Agents : [x \in Agents |-> Served(r)][b].pc = "idle"
    BY DEF Served, IdleAgent
  <2> QED
    BY <1>12, <2>1, <2>4, <2>5
<1>23. CASE BuildFails(a)
  <2>1. PICK ans : EndFlight(a, [b \in Agents |-> Answered(b, ans)]) /\ UNCHANGED caches
    BY <1>23 DEF BuildFails
  <2>2. \A b \in Agents : [x \in Agents |-> Answered(x, ans)][b].pc = "idle"
    BY DEF Answered, IdleAgent
  <2> QED
    BY <1>4, <1>12, <2>1, <2>2
<1>24. CASE SlotCancelled(a)
  <2> DEFINE result == [b \in Agents |-> Answered(b, IF b = a THEN "gone" ELSE "500")]
  <2>1. EndFlight(a, result) /\ UNCHANGED caches
    BY <1>24 DEF SlotCancelled
  <2>2. \A b \in Agents : result[b].pc = "idle"
    BY DEF Answered, IdleAgent
  <2> QED
    BY <1>4, <1>12, <2>1, <2>2
<1> QED
  BY <1>6, <1>7, <1>8, <1>9, <1>10, <1>11, <1>14, <1>15, <1>17, <1>18, <1>19, <1>21, <1>22,
     <1>23, <1>24 DEF OwnStep, BuildStep

\* Every step keeps the invariant.  A request that is active while a change is pending
\* sets overlap, so an undisturbed step is one of a request with no change pending, or
\* one of the store or the handler with no request active.
LEMMA FreshStep == FreshInv /\ [BSNext]_bsVars => FreshInv'
<1> SUFFICES ASSUME FreshInv, [BSNext]_bsVars PROVE FreshInv'
  OBVIOUS
<1>1. SoundInv /\ SoundInv'
  BY SoundStep DEF FreshInv
<1> SUFFICES ASSUME ScopesStable, ~ overlap' PROVE Undisturbed'
  BY <1>1 DEF FreshInv, ScopesStable
<1>2. ~ overlap
  <2>1. overlap' \in {TRUE, overlap} \/ NoteOverlap
    BY DEF BSNext, HandlerStep, OwnStep, BuildStep, bsVars, DeleteCR, ApplyCR, InvalidatePolicies,
       InvalidateETags, InvalidateBundles, EntryTimesOut, ServeBundle, AcquireSlot, SlotCancelled,
       CheckETag, BundleHit, ServeHit, BundleMiss, Lead, Join, ReadGlobal, SetGlobal,
       ReadNamespace, SetNamespace, ReadClient, SetETag, BundleBuilt, BuildFails
  <2> QED
    BY <2>1 DEF NoteOverlap
<1>3. Undisturbed /\ CachesOK /\ \A a \in Agents : BuiltOK(a)
  BY <1>2 DEF FreshInv, Undisturbed
<1>4. ASSUME UNCHANGED <<crVars, etags, bundles, global, nsCache, agent>> PROVE Undisturbed'
  <2>1. /\ GetGlobalPolicies' = GetGlobalPolicies
        /\ \A s : GetNamespacePolicies(s)' = GetNamespacePolicies(s)
        /\ \A k : GetPolicy(k)' = GetPolicy(k) /\ Current(k)' = Current(k)
    BY <1>4, SameReads DEF crVars
  <2>2. \A steps : Due(steps)' = Due(steps)
    BY <1>4 DEF Due, crVars
  <2>3. /\ GlobalDue' = GlobalDue
        /\ \A s : NamespaceDue(s)' = NamespaceDue(s)
        /\ \A k : ETagDue(k)' = ETagDue(k) /\ BundleDue(k)' = BundleDue(k)
    BY <1>4, <2>2 DEF GlobalDue, NamespaceDue, ETagDue, BundleDue, Touches, crVars
  <2>4. CachesOK'
    BY <1>3, <1>4, <2>1, <2>3 DEF CachesOK
  <2>5. \A a \in Agents : BuiltOK(a)'
    BY <1>3, <1>4, <2>1 DEF BuiltOK
  <2> QED
    BY <1>3, <1>4, <2>4, <2>5 DEF Undisturbed, crVars
<1>5. ASSUME \A a \in Agents : agent[a].pc = "idle", UNCHANGED agent, CachesOK'
      PROVE  Undisturbed'
  BY <1>5 DEF Undisturbed, BuiltOK, Building
<1>6. ASSUME notices' # <<>>, NoteOverlap, UNCHANGED agent
      PROVE  \A a \in Agents : agent[a].pc = "idle"
  BY <1>6 DEF NoteOverlap
<1>7. ASSUME NEW n \in Names, DeleteCR(n) PROVE Undisturbed'
  <2>1. /\ cr[n] # Absent /\ UNCHANGED <<handler, caches, agent>> /\ NoteOverlap
        /\ cr' = [cr EXCEPT ![n] = Absent]
        /\ notices' = Append(notices, [name |-> n, scope |-> cr[n].scope])
    BY <1>7 DEF DeleteCR
  <2>2. cr[n].scope \in ScopesOf[n] /\ notices \in Seq(Notice) /\ DOMAIN cr = Names
    BY <1>1, <2>1 DEF SoundInv, CRInv
  <2>3. \A m \in Names \ {n} : cr'[m] = cr[m]
    BY <2>1, <2>2
  <2>4. notices' # <<>>
    BY <2>1, <2>2, SMT
  <2>5. CachesOK'
    BY <1>1, <1>3, <2>1, <2>2, <2>3, ChangeFresh
  <2> QED
    BY <1>5, <1>6, <2>1, <2>4, <2>5
<1>8. ASSUME NEW n \in Names, NEW scope \in Scopes, ApplyCR(n, scope) PROVE Undisturbed'
  <2>1. /\ scope \in ScopesOf[n] /\ UNCHANGED <<handler, caches, agent>> /\ NoteOverlap
        /\ cr' = [cr EXCEPT ![n] = [scope |-> scope, version |-> changes']]
        /\ notices' = Append(notices, [name |-> n, scope |-> scope])
    BY <1>8 DEF ApplyCR
  <2>2. notices \in Seq(Notice) /\ DOMAIN cr = Names
    BY <1>1, <2>1 DEF SoundInv, CRInv
  <2>3. \A m \in Names \ {n} : cr'[m] = cr[m]
    BY <2>1, <2>2
  <2>4. notices' # <<>>
    BY <2>1, <2>2, SMT
  <2>5. CachesOK'
    BY <1>1, <1>3, <2>1, <2>2, <2>3, ChangeFresh
  <2> QED
    BY <1>5, <1>6, <2>1, <2>4, <2>5
<1>9. CASE HandlerStep
  <2>1. notices # <<>> /\ UNCHANGED agent
    BY <1>1, <1>9 DEF HandlerStep, InvalidatePolicies, InvalidateETags, InvalidateBundles,
       SoundInv, CRInv
  <2>2. CachesOK'
    BY <1>1, <1>3, <1>9, HandlerFresh
  <2> QED
    BY <1>3, <1>5, <2>1, <2>2 DEF Undisturbed
<1>10. ASSUME NEW k \in Names, EntryTimesOut(k) PROVE Undisturbed'
  BY <1>4, <1>10 DEF EntryTimesOut
<1>11. ASSUME NEW a \in Agents,
              ServeBundle(a) \/ OwnStep(a) \/ AcquireSlot(a) \/ SlotCancelled(a)
       PROVE  Undisturbed'
  <2>1. UNCHANGED crVars
    BY <1>11 DEF ServeBundle, OwnStep, AcquireSlot, SlotCancelled, CheckETag, BundleHit, ServeHit,
       BundleMiss, Lead, Join, BuildStep, ReadGlobal, SetGlobal, ReadNamespace, SetNamespace,
       ReadClient, SetETag, BundleBuilt, BuildFails
  <2>2. notices = <<>>
    <3>1. CASE agent[a].pc # "idle"
      BY <1>3, <3>1 DEF Undisturbed
    <3>2. CASE agent[a].pc = "idle"
      <4>1. ServeBundle(a)
        BY <1>11, <3>2 DEF OwnStep, AcquireSlot, SlotCancelled, CheckETag, BundleHit, ServeHit,
           BundleMiss, Lead, Join, BuildStep, ReadGlobal, SetGlobal, ReadNamespace, SetNamespace,
           ReadClient, SetETag, BundleBuilt, BuildFails
      <4>2. agent'[a].pc # "idle"
        BY <1>1, <4>1 DEF ServeBundle, SoundInv, AgentsTyped, AgentRecord
      <4> QED
        BY <2>1, <4>1, <4>2 DEF ServeBundle, NoteOverlap, crVars
    <3> QED
      BY <3>1, <3>2
  <2>3. CachesFresh' /\ \A b \in Agents : BuiltOK(b)'
    BY <1>1, <1>3, <1>11, <2>1, <2>2, NothingDue, RequestFresh
  <2>4. (notices = <<>>)'
    BY <2>1, <2>2 DEF crVars
  <2>5. CachesOK'
    BY <2>3, <2>4, NothingDue, PTL
  <2> QED
    BY <2>3, <2>4, <2>5 DEF Undisturbed
<1>12. CASE UNCHANGED bsVars
  BY <1>4, <1>12 DEF bsVars, caches
<1> QED
  BY <1>7, <1>8, <1>9, <1>10, <1>11, <1>12 DEF BSNext

\* For any clients, agents and CRs: as long as no request overlaps the handling of a
\* change, all that is cached once the changes are handled is what the CRs say now.
THEOREM InvalidationComplete == BSSpec => []FreshWhenUndisturbed
  BY FreshInit, FreshStep, FreshIsFresh, PTL DEF BSSpec

=============================================================================
