--------------------------- MODULE AgentCardProofs ---------------------------
(***************************************************************************)
(* Proofs about the AgentCard controllers, for any set of cards, any       *)
(* configurations and sources, any number of edits, faults and crashes.    *)
(***************************************************************************)
EXTENDS AgentCard, FiniteSetTheorems, TLAPS

\* A leaf that names no prover is one for Zenon.
USE Zenon

-----------------------------------------------------------------------------
(* The invariant.                                                          *)

CardRecord ==
  [st : {"absent", "live", "deleting"}, auto : BOOLEAN, owned : {"none", "current", "old"},
   fins : SUBSET {"card", "np"}, target : {"none"} \cup Targets, bind : Binds,
   synced : Conditions, verified : Conditions, ready : Conditions, bound : Conditions]

\* A deleted card has a finalizer left.
CardOK(k) ==
  /\ k \in CardRecord
  /\ k.st = "absent" => k = NoCard
  /\ k.st = "deleting" => k.fins # {}

\* A record with these fields, whatever they hold.
IsRecord(r, F) == r = [f \in F |-> r[f]]

WorkloadFields ==
  {"st", "proto", "ready", "svc", "annos", "label", "hash", "trig", "leaf", "roll"}
QueueFields == {"ac", "np", "sync"}
ACFields == {"pc", "card", "doc", "peer", "sig", "id"}
NPFields == {"pc", "card", "verified", "sel"}

WorkloadOK(w) ==
  /\ IsRecord(w, WorkloadFields)
  /\ w.st \in {"absent", "agent", "plain"}
  /\ w.annos \in [Cards -> Conditions]
  /\ w.label = Aggregate(w.annos)

\* A queue holds each card once.
QueueOK(s) == s \in Seq(Cards) /\ IsInjective(s)

QueuesOK(b) ==
  /\ IsRecord(b, QueueFields)
  /\ QueueOK(b.ac) /\ QueueOK(b.np)

WorkersOK ==
  /\ IsRecord(ac, ACFields)
  /\ ac.card \in Cards
  /\ IsRecord(np, NPFields)
  /\ np.card \in Cards
  /\ IsRecord(sy, {"pc", "owner"})
  /\ sy.owner \in {"none", "current", "old"}
  /\ adm \in {<<>>} \cup (Cards \X Targets \X Binds)
  /\ mode \in Modes

\* The annotation of a card is gone, or a failed write has left it.
Cleaned(c) == wl.annos[c] = "none" \/ c \in leaked

\* A controller works on a card that has its finalizer; the AgentCard controller fetches
\* only for cards of the workload, and takes the finalizer after the annotation.
ACHolds(a) ==
  /\ a.pc # "idle" => "card" \in cards[a.card].fins
  /\ a.pc \in {"fetch", "trust", "status", "label"} => cards[a.card].target = "here"
  /\ a.pc = "finalize" => Cleaned(a.card)

NPHolds(n) == n.pc # "idle" => "np" \in cards[n.card].fins

\* An annotation needs a pod template, and a card of the workload with the finalizer.
AnnotationsHeld ==
  \A c \in Cards :
    /\ wl.annos[c] # "none" => HasTemplate
    /\ "card" \notin cards[c].fins \/ cards[c].target # "here" => Cleaned(c)

CardsOK ==
  /\ cards = [c \in Cards |-> cards[c]]
  /\ \A c \in Cards : CardOK(cards[c])

CardInv ==
  /\ CardsOK /\ WorkloadOK(wl) /\ QueuesOK(q) /\ WorkersOK
  /\ ACHolds(ac) /\ NPHolds(np) /\ AnnotationsHeld

-----------------------------------------------------------------------------
(* The policy.                                                             *)

PolicyOf(c, verified, sel) ==
  IF verified THEN PermissivePolicy(c, sel) ELSE RestrictivePolicy(c, sel)

\* The policy that card c calls for now.
PolicyFor(c) == PolicyOf(c, cards[c].verified = "true", HasTemplate /\ wl.label)

\* A card of the agent has its policy, or the policy is about to be written, or the card
\* is queued.
Due(c) == mode.enforce /\ cards[c].st = "live" /\ cards[c].target = "here" /\ wl.st = "agent"
Planned(c) == np.pc = "write" /\ np.card = c /\ PolicyOf(c, np.verified, np.sel) = PolicyFor(c)
Handled(c) == c \in Range(q.np) \/ Planned(c) \/ pol = PolicyFor(c)

PolicyInv == \A c \in Cards : Due(c) => Handled(c)

-----------------------------------------------------------------------------
(* The queues.                                                             *)

\* The range of a sequence, by its indices.
LEMMA RangeSeq ==
  ASSUME NEW S, NEW s \in Seq(S)
  PROVE  /\ Len(s) \in Nat /\ DOMAIN s = 1..Len(s)
         /\ Range(s) = {s[i] : i \in 1..Len(s)}
         /\ Range(s) \subseteq S
<1>1. Len(s) \in Nat /\ DOMAIN s = 1..Len(s) /\ \A i \in 1..Len(s) : s[i] \in S
  BY SMT
<1> QED
  BY <1>1 DEF Range

\* Two queues of different cards make one.
LEMMA ConcatOK ==
  ASSUME NEW s, NEW t, QueueOK(s), QueueOK(t), Range(s) \cap Range(t) = {}
  PROVE  QueueOK(s \o t) /\ Range(s \o t) = Range(s) \cup Range(t)
<1> DEFINE r == s \o t
           m == Len(s)
           n == Len(t)
<1>1. s \in Seq(Cards) /\ t \in Seq(Cards)
  BY DEF QueueOK
<1>2. /\ m \in Nat /\ n \in Nat /\ DOMAIN s = 1..m /\ DOMAIN t = 1..n
      /\ Range(s) = {s[i] : i \in 1..m} /\ Range(t) = {t[i] : i \in 1..n}
  BY <1>1, RangeSeq
<1>3. /\ r \in Seq(Cards) /\ Len(r) = m + n
      /\ \A i \in 1..(m + n) : r[i] = IF i <= m THEN s[i] ELSE t[i - m]
  BY <1>1, SMT
<1>4. DOMAIN r = 1..(m + n) /\ Range(r) = {r[i] : i \in 1..(m + n)}
  <2>1. DOMAIN r = 1..Len(r) /\ Range(r) = {r[i] : i \in 1..Len(r)}
    BY <1>3, RangeSeq
  <2> QED
    BY <1>3, <2>1
<1>5. /\ \A i, j \in 1..m : s[i] = s[j] => i = j
      /\ \A i, j \in 1..n : t[i] = t[j] => i = j
      /\ \A i \in 1..m, j \in 1..n : s[i] # t[j]
  <2>1. /\ \A i, j \in DOMAIN s : s[i] = s[j] => i = j
        /\ \A i, j \in DOMAIN t : t[i] = t[j] => i = j
    BY DEF QueueOK, IsInjective
  <2>2. ASSUME NEW i \in 1..m, NEW j \in 1..n, s[i] = t[j] PROVE FALSE
    <3>1. s[i] \in Range(s) /\ t[j] \in Range(t)
      BY <1>2
    <3> QED
      BY <2>2, <3>1
  <2> QED
    BY <1>2, <2>1, <2>2
<1> HIDE DEF r, m, n
<1>6. /\ \A i \in 1..m : i \in 1..(m + n) /\ r[i] = s[i]
      /\ \A i \in 1..n : m + i \in 1..(m + n) /\ r[m + i] = t[i]
      /\ \A i \in 1..(m + n) : \/ i \in 1..m /\ r[i] = s[i]
                               \/ i - m \in 1..n /\ r[i] = t[i - m]
  BY <1>2, <1>3, SMT
<1>7. Range(r) = Range(s) \cup Range(t)
  <2>1. ASSUME NEW x \in Range(r) PROVE x \in Range(s) \cup Range(t)
    <3>1. PICK i \in 1..(m + n) : x = r[i]
      BY <1>4, <2>1
    <3> QED
      BY <1>2, <1>6, <3>1
  <2>2. ASSUME NEW x \in Range(s) \cup Range(t) PROVE x \in Range(r)
    BY <1>2, <1>4, <1>6, <2>2
  <2> QED
    BY <2>1, <2>2
<1>8. IsInjective(r)
  <2> SUFFICES ASSUME NEW i \in 1..(m + n), NEW j \in 1..(m + n), r[i] = r[j]
               PROVE  i = j
    BY <1>4 DEF IsInjective
  <2>1. CASE i \in 1..m /\ j \in 1..m /\ r[i] = s[i] /\ r[j] = s[j]
    BY <1>5, <2>1
  <2>2. CASE i - m \in 1..n /\ j - m \in 1..n /\ r[i] = t[i - m] /\ r[j] = t[j - m]
    <3>1. i - m = j - m
      BY <1>5, <2>2
    <3> QED
      BY <1>2, <3>1, SMT
  <2>3. CASE i \in 1..m /\ j - m \in 1..n /\ r[i] = s[i] /\ r[j] = t[j - m]
    BY <1>5, <2>3
  <2>4. CASE i - m \in 1..n /\ j \in 1..m /\ r[i] = t[i - m] /\ r[j] = s[j]
    BY <1>5, <2>4
  <2> QED
    BY <1>6, <2>1, <2>2, <2>3, <2>4
<1> QED
  BY <1>3, <1>7, <1>8 DEF QueueOK, r

\* AddAll adds the cards that are not queued.
LEMMA AddAllFacts ==
  ASSUME NEW s, QueueOK(s), NEW S \in SUBSET Cards
  PROVE  QueueOK(AddAll(s, S)) /\ Range(AddAll(s, S)) = Range(s) \cup S
<1> DEFINE D == S \ Range(s)
           n == Cardinality(D)
           t == CHOOSE g \in Bijection(1..n, D) : TRUE
<1>1. IsFiniteSet(D)
  BY FS_Subset, CardsAssumption
<1>2. n \in Nat /\ Bijection(1..n, D) # {}
  BY <1>1, FS_CardinalityType DEF ExistsBijection
<1>3. t \in Bijection(1..n, D)
  BY <1>2
<1>4. AddAll(s, S) = s \o t
  BY DEF AddAll
<1> HIDE DEF t, n
<1>5. t \in [1..n -> D] /\ IsInjective(t) /\ \A d \in D : \E i \in 1..n : t[i] = d
  BY <1>3 DEF Bijection, Injection, Surjection
<1>6. Range(t) = D
  BY <1>5 DEF Range
<1>7. t \in [1..n -> Cards]
  BY <1>5
<1>8. t \in Seq(Cards)
  BY <1>2, <1>7, SMT
<1>9. QueueOK(t) /\ Range(s) \cap Range(t) = {}
  BY <1>5, <1>6, <1>8 DEF QueueOK
<1>10. QueueOK(s \o t) /\ Range(s \o t) = Range(s) \cup Range(t)
  BY <1>9, ConcatOK
<1> QED
  BY <1>4, <1>6, <1>10

\* The first card of a queue, and the rest.
LEMMA TailFacts ==
  ASSUME NEW s, QueueOK(s), s # <<>>
  PROVE  /\ Head(s) \in Cards /\ QueueOK(Tail(s)) /\ Range(Tail(s)) = Range(s) \ {Head(s)}
         /\ QueueOK(Append(Tail(s), Head(s))) /\ Range(Append(Tail(s), Head(s))) = Range(s)
<1> DEFINE h == Head(s)
           t == Tail(s)
           n == Len(s)
<1>1. s \in Seq(Cards)
  BY DEF QueueOK
<1>2. h \in Cards /\ t \in Seq(Cards) /\ h = s[1] /\ n \in Nat /\ n >= 1
  BY <1>1, SMT
<1>3. Len(t) = n - 1 /\ \A i \in 1..(n - 1) : t[i] = s[i + 1]
  BY <1>1, <1>2, SMT
<1>4. /\ DOMAIN s = 1..n /\ Range(s) = {s[i] : i \in 1..n}
  BY <1>1, RangeSeq
<1>5. DOMAIN t = 1..(n - 1) /\ Range(t) = {t[i] : i \in 1..(n - 1)}
  <2>1. DOMAIN t = 1..Len(t) /\ Range(t) = {t[i] : i \in 1..Len(t)}
    BY <1>2, RangeSeq
  <2> QED
    BY <1>3, <2>1
<1>6. \A i, j \in 1..n : s[i] = s[j] => i = j
  BY <1>4 DEF QueueOK, IsInjective
<1>7. <<h>> \in Seq(Cards) /\ Len(<<h>>) = 1 /\ <<h>>[1] = h /\ t \o <<h>> = Append(t, h)
  BY <1>2, SMT
<1> HIDE DEF h, t, n
<1>8. \A i \in 1..(n - 1) : i + 1 \in 1..n /\ i + 1 # 1
  BY <1>2, SMT
<1>9. \A i \in 1..n : i = 1 \/ (i - 1 \in 1..(n - 1) /\ (i - 1) + 1 = i)
  BY <1>2, SMT
<1>10. IsInjective(t)
  <2> SUFFICES ASSUME NEW i \in 1..(n - 1), NEW j \in 1..(n - 1), t[i] = t[j] PROVE i = j
    BY <1>5 DEF IsInjective
  <2>1. i + 1 = j + 1
    BY <1>3, <1>6, <1>8
  <2> QED
    BY <1>2, <2>1, SMT
<1>11. Range(t) = Range(s) \ {h}
  <2>1. ASSUME NEW x \in Range(t) PROVE x \in Range(s) \ {h}
    <3>1. PICK i \in 1..(n - 1) : x = t[i]
      BY <1>5
    <3>2. x = s[i + 1] /\ i + 1 \in 1..n /\ i + 1 # 1 /\ 1 \in 1..n
      BY <1>2, <1>3, <1>8, <3>1, SMT
    <3> QED
      BY <1>2, <1>4, <1>6, <3>2
  <2>2. ASSUME NEW x \in Range(s), x # h PROVE x \in Range(t)
    <3>1. PICK i \in 1..n : x = s[i]
      BY <1>4
    <3>2. i - 1 \in 1..(n - 1) /\ (i - 1) + 1 = i
      BY <1>2, <1>9, <2>2, <3>1
    <3>3. x = t[i - 1]
      BY <1>3, <3>1, <3>2
    <3> QED
      BY <1>5, <3>2, <3>3
  <2> QED
    BY <2>1, <2>2
<1>12. QueueOK(<<h>>) /\ Range(<<h>>) = {h}
  <2>1. DOMAIN <<h>> = 1..1 /\ Range(<<h>>) = {<<h>>[i] : i \in 1..1}
    BY <1>7, RangeSeq
  <2>2. \A i \in 1..1 : i = 1
    BY SMT
  <2>3. 1 \in 1..1
    BY SMT
  <2>4. Range(<<h>>) = {h}
    BY <1>7, <2>1, <2>2, <2>3
  <2>5. IsInjective(<<h>>)
    BY <2>1, <2>2 DEF IsInjective
  <2> QED
    BY <1>7, <2>4, <2>5 DEF QueueOK
<1>13. QueueOK(t)
  BY <1>2, <1>10 DEF QueueOK
<1>14. h \in Range(s)
  <2>1. 1 \in 1..n
    BY <1>2, SMT
  <2> QED
    BY <1>2, <1>4, <2>1
<1>15. Range(t) \cap Range(<<h>>) = {} /\ Range(t) \cup {h} = Range(s)
  BY <1>11, <1>12, <1>14
<1>16. QueueOK(t \o <<h>>) /\ Range(t \o <<h>>) = Range(t) \cup Range(<<h>>)
  BY <1>12, <1>13, <1>15, ConcatOK
<1> QED
  BY <1>2, <1>7, <1>11, <1>12, <1>13, <1>15, <1>16 DEF h, t

-----------------------------------------------------------------------------
(* Writes.                                                                 *)

\* The NetworkPolicy controller hears of a changed card, of what it reads of the agent,
\* and of a policy that its card has lost.
Heard ==
  \A c \in Cards :
    (/\ mode.enforce
     /\ \/ cards'[c] # cards[c]
        \/ /\ wl'.st # wl.st \/ wl'.label # wl.label
           /\ wl'.st = "agent" /\ cards'[c].target = "here"
        \/ pol' # pol /\ pol.owner = c)
    => c \in Range(q'.np)

\* Publish keeps the queues well formed and only adds to them.
LEMMA PublishQueues ==
  ASSUME NEW newCards, NEW newWl, NEW newPol, NEW own, NEW base, QueuesOK(base),
         Publish(newCards, newWl, newPol, own, base)
  PROVE  QueuesOK(q') /\ Range(base.np) \subseteq Range(q'.np) /\ Heard
<1> DEFINE event == newWl # wl /\ Labelled(newWl)
           changed == {c \in Cards : newCards[c] # cards[c]}
           mapped == IF event THEN MappedCards(newCards) ELSE {}
           owners == {c \in Cards : newPol # pol /\ c \in {pol.owner, newPol.owner}}
           forAC == changed \cup IF own THEN {} ELSE mapped
           forNP == IF mode.enforce THEN changed \cup mapped \cup owners ELSE {}
           qac == AddAll(base.ac, forAC)
           qnp == AddAll(base.np, forNP)
           sync == base.sync \/ event
<1>1. q' = [ac |-> qac, np |-> qnp, sync |-> sync]
  BY DEF Publish
<1>2. mapped \subseteq Cards
  BY DEF MappedCards
<1>3. forAC \in SUBSET Cards /\ forNP \in SUBSET Cards
  BY <1>2
<1>4. newWl # wl /\ newWl.st = "agent" => event
  BY DEF Labelled
<1>5. \A c \in Cards :
        (/\ mode.enforce
         /\ \/ newCards[c] # cards[c]
            \/ newWl # wl /\ newWl.st = "agent" /\ newCards[c].target = "here"
            \/ newPol # pol /\ pol.owner = c)
        => c \in forNP
  <2> TAKE c \in Cards
  <2> HAVE /\ mode.enforce
           /\ \/ newCards[c] # cards[c]
              \/ newWl # wl /\ newWl.st = "agent" /\ newCards[c].target = "here"
              \/ newPol # pol /\ pol.owner = c
  <2>1. CASE newCards[c] # cards[c]
    BY <2>1
  <2>2. CASE newWl # wl /\ newWl.st = "agent" /\ newCards[c].target = "here"
    <3>1. c \in mapped
      BY <1>4, <2>2 DEF MappedCards
    <3> QED
      BY <3>1
  <2>3. CASE newPol # pol /\ pol.owner = c
    <3>1. c \in owners
      BY <2>3
    <3> QED
      BY <3>1
  <2> QED
    BY <2>1, <2>2, <2>3
<1>6. QueueOK(qac) /\ QueueOK(qnp) /\ Range(qnp) = Range(base.np) \cup forNP
  BY <1>3, AddAllFacts DEF QueuesOK
<1> HIDE DEF qac, qnp, forNP, sync
<1>7. q'.ac = qac /\ q'.np = qnp /\ q'.sync = sync
  BY <1>1, SMT
<1>8. QueuesOK(q')
  <2>1. IsRecord(q', QueueFields)
    BY <1>1 DEF IsRecord, QueueFields
  <2> QED
    BY <1>6, <1>7, <2>1 DEF QueuesOK
<1>9. cards' = newCards /\ wl' = newWl /\ pol' = newPol
  BY DEF Publish
<1>10. Heard
  <2> SUFFICES ASSUME NEW c \in Cards, mode.enforce,
                      \/ cards'[c] # cards[c]
                      \/ /\ wl'.st # wl.st \/ wl'.label # wl.label
                         /\ wl'.st = "agent" /\ cards'[c].target = "here"
                      \/ pol' # pol /\ pol.owner = c
               PROVE  c \in Range(q'.np)
    BY DEF Heard
  <2>1. \/ newCards[c] # cards[c]
        \/ newWl # wl /\ newWl.st = "agent" /\ newCards[c].target = "here"
        \/ newPol # pol /\ pol.owner = c
    BY <1>9
  <2> QED
    BY <1>5, <1>6, <1>7, <2>1
<1> QED
  BY <1>6, <1>7, <1>8, <1>10

\* A write of one card.
LEMMA WriteCardFacts ==
  ASSUME NEW c \in Cards, NEW k, NEW base, CardsOK, QueuesOK(base), CardOK(k),
         WriteCard(c, k, base)
  PROVE  /\ CardsOK' /\ QueuesOK(q') /\ Heard /\ Range(base.np) \subseteq Range(q'.np)
         /\ wl' = wl /\ pol' = pol /\ cards'[c] = k /\ \A d \in Cards \ {c} : cards'[d] = cards[d]
<1>1. Publish([cards EXCEPT ![c] = k], wl, pol, FALSE, base)
  BY DEF WriteCard
<1>2. QueuesOK(q') /\ Heard /\ Range(base.np) \subseteq Range(q'.np)
  BY <1>1, PublishQueues
<1>3. cards' = [cards EXCEPT ![c] = k] /\ wl' = wl /\ pol' = pol
  BY <1>1 DEF Publish
<1>4. DOMAIN cards = Cards /\ \A d \in Cards : CardOK(cards[d])
  BY DEF CardsOK
<1>5. cards' = [d \in Cards |-> IF d = c THEN k ELSE cards[d]]
  BY <1>3, <1>4
<1>6. cards'[c] = k /\ \A d \in Cards \ {c} : cards'[d] = cards[d]
  BY <1>5
<1>7. cards' = [d \in Cards |-> cards'[d]]
  BY <1>5
<1>8. ASSUME NEW d \in Cards PROVE CardOK(cards'[d])
  BY <1>4, <1>6
<1>9. CardsOK'
  BY <1>7, <1>8 DEF CardsOK, CardOK
<1> QED
  BY <1>2, <1>3, <1>6, <1>9

\* A write of the workload.
LEMMA WriteWorkloadFacts ==
  ASSUME NEW w, NEW own, NEW base, CardsOK, QueuesOK(base), WriteWorkload(w, own, base)
  PROVE  /\ CardsOK' /\ QueuesOK(q') /\ Heard /\ Range(base.np) \subseteq Range(q'.np)
         /\ cards' = cards /\ wl' = w /\ pol' = pol
<1>1. Publish(cards, w, pol, own, base)
  BY DEF WriteWorkload
<1>2. QueuesOK(q') /\ Heard /\ Range(base.np) \subseteq Range(q'.np)
  BY <1>1, PublishQueues
<1>3. cards' = cards /\ wl' = w /\ pol' = pol
  BY <1>1 DEF Publish
<1>4. CardsOK'
  BY <1>3 DEF CardsOK, CardOK
<1> QED
  BY <1>2, <1>3, <1>4

\* A write of the policy.
LEMMA WritePolicyFacts ==
  ASSUME NEW p, NEW base, CardsOK, QueuesOK(base), WritePolicy(p, base)
  PROVE  /\ CardsOK' /\ QueuesOK(q') /\ Heard /\ Range(base.np) \subseteq Range(q'.np)
         /\ cards' = cards /\ wl' = wl /\ pol' = p
<1>1. Publish(cards, wl, p, FALSE, base)
  BY DEF WritePolicy
<1>2. QueuesOK(q') /\ Heard /\ Range(base.np) \subseteq Range(q'.np)
  BY <1>1, PublishQueues
<1>3. cards' = cards /\ wl' = wl /\ pol' = p
  BY <1>1 DEF Publish
<1>4. CardsOK'
  BY <1>3 DEF CardsOK, CardOK
<1> QED
  BY <1>2, <1>3, <1>4

-----------------------------------------------------------------------------
(* What becomes of a card.                                                 *)

\* The finalizer f of a card is kept, and its target while it is there.
Keep(f, k, new) == f \in k.fins => f \in new.fins /\ new.target = k.target

\* The owner of an existing card is set.
LEMMA OwnerSet ==
  ASSUME NEW k, CardOK(k), k.st # "absent", NEW o \in {"none", "current", "old"}
  PROVE  /\ CardOK([k EXCEPT !.owned = o]) /\ [k EXCEPT !.owned = o].fins = k.fins
         /\ [k EXCEPT !.owned = o].target = k.target
<1> DEFINE n == [k EXCEPT !.owned = o]
<1>1. k \in CardRecord /\ (k.st = "deleting" => k.fins # {})
  BY DEF CardOK
<1>2. n \in CardRecord /\ n.st = k.st /\ n.fins = k.fins /\ n.target = k.target
  BY <1>1, SMT DEF CardRecord
<1> HIDE DEF n
<1>3. CardOK(n)
  BY <1>1, <1>2 DEF CardOK
<1> QED
  BY <1>2, <1>3 DEF n

\* A finalizer is added to an existing card.
LEMMA FinalizerAdded ==
  ASSUME NEW k, CardOK(k), k.st # "absent", NEW f \in {"card", "np"}
  PROVE  LET n == [k EXCEPT !.fins = @ \cup {f}]
         IN  CardOK(n) /\ Keep("card", k, n) /\ Keep("np", k, n)
<1> DEFINE F == k.fins \cup {f}
           n == [k EXCEPT !.fins = F]
<1>1. k \in CardRecord
  BY DEF CardOK
<1>2. k.fins \in SUBSET {"card", "np"}
  BY <1>1, SMT DEF CardRecord
<1>3. F \in SUBSET {"card", "np"} /\ F # {} /\ k.fins \subseteq F
  BY <1>2
<1> HIDE DEF F
<1>4. n \in CardRecord /\ n.st = k.st /\ n.fins = F /\ n.target = k.target
  BY <1>1, <1>3, SMT DEF CardRecord
<1> HIDE DEF n
<1>5. CardOK(n)
  BY <1>3, <1>4 DEF CardOK
<1>6. Keep("card", k, n) /\ Keep("np", k, n)
  BY <1>3, <1>4 DEF Keep
<1> QED
  BY <1>5, <1>6 DEF n, F

\* A card keeps its state, its finalizers and its target.
SameHold(k, n) == CardOK(n) /\ n.st = k.st /\ n.fins = k.fins /\ n.target = k.target

\* A condition of an existing card is set.
LEMMA ConditionSet ==
  ASSUME NEW k, CardOK(k), k.st # "absent", NEW v \in Conditions
  PROVE  /\ SameHold(k, [k EXCEPT !.synced = v]) /\ SameHold(k, [k EXCEPT !.verified = v])
         /\ SameHold(k, [k EXCEPT !.ready = v]) /\ SameHold(k, [k EXCEPT !.bound = v])
<1> DEFINE Same(n) == n \in CardRecord /\ n.st = k.st /\ n.fins = k.fins /\ n.target = k.target
<1>1. k \in CardRecord /\ (k.st = "deleting" => k.fins # {})
  BY DEF CardOK
<1>2. Same([k EXCEPT !.synced = v])
  BY <1>1, SMT DEF CardRecord
<1>3. Same([k EXCEPT !.verified = v])
  BY <1>1, SMT DEF CardRecord
<1>4. Same([k EXCEPT !.ready = v])
  BY <1>1, SMT DEF CardRecord
<1>5. Same([k EXCEPT !.bound = v])
  BY <1>1, SMT DEF CardRecord
<1>6. ASSUME NEW n, Same(n) PROVE SameHold(k, n)
  BY <1>1, <1>6 DEF CardOK, SameHold
<1> HIDE DEF Same
<1> QED
  BY <1>2, <1>3, <1>4, <1>5, <1>6

\* No card, and a new one.
LEMMA NewCards ==
  ASSUME NEW auto \in BOOLEAN, NEW o \in {"none", "current", "old"}, NEW t \in Targets,
         NEW b \in Binds
  PROVE  /\ CardOK(NoCard) /\ NoCard.fins = {} /\ NoCard.target = "none" /\ NoCard.st = "absent"
         /\ CardOK(NewCard(auto, o, t, b)) /\ NewCard(auto, o, t, b).fins = {}
         /\ NewCard(auto, o, t, b).st = "live"
<1> DEFINE k == NewCard(auto, o, t, b)
<1>1. /\ NoCard \in CardRecord /\ NoCard.fins = {} /\ NoCard.target = "none"
      /\ NoCard.st = "absent"
  BY SMT DEF NoCard, CardRecord, Conditions, Binds
<1>2. k \in CardRecord /\ k.fins = {} /\ k.st = "live"
  <2> DEFINE k1 == [NoCard EXCEPT !.st = "live"]
             k2 == [k1 EXCEPT !.auto = auto]
             k3 == [k2 EXCEPT !.owned = o]
             k4 == [k3 EXCEPT !.target = t]
             k5 == [k4 EXCEPT !.bind = b]
             Live(n) == n \in CardRecord /\ n.st = "live" /\ n.fins = {}
  <2>1. k = k5
    BY DEF NewCard
  <2>2. Live(k1)
    BY <1>1, SMT DEF CardRecord
  <2> HIDE DEF k1
  <2>3. Live(k2)
    BY <2>2, SMT DEF CardRecord
  <2> HIDE DEF k2
  <2>4. Live(k3)
    BY <2>3, SMT DEF CardRecord
  <2> HIDE DEF k3
  <2>5. Live(k4)
    BY <2>4, SMT DEF CardRecord
  <2> HIDE DEF k4
  <2>6. Live(k5)
    BY <2>5, SMT DEF CardRecord
  <2> HIDE DEF k5, k
  <2> QED
    BY <2>1, <2>6
<1> HIDE DEF k
<1>3. CardOK(k) /\ CardOK(NoCard)
  BY <1>1, <1>2 DEF CardOK
<1> QED
  BY <1>1, <1>2, <1>3 DEF k

\* A deleted card keeps its finalizers, and goes only without any.
LEMMA DeletedFacts ==
  ASSUME NEW k, CardOK(k)
  PROVE  CardOK(Deleted(k)) /\ Keep("card", k, Deleted(k)) /\ Keep("np", k, Deleted(k))
<1> DEFINE d == [k EXCEPT !.st = "deleting"]
<1>1. k \in CardRecord
  BY DEF CardOK
<1>2. d \in CardRecord /\ d.st = "deleting" /\ d.fins = k.fins /\ d.target = k.target
  BY <1>1, SMT DEF CardRecord
<1> HIDE DEF d
<1>3. CASE k.st = "absent"
  <2>1. k = NoCard /\ Deleted(k) = NoCard
    BY <1>3 DEF CardOK, Deleted
  <2> QED
    BY <2>1 DEF Keep
<1>4. CASE k.st # "absent" /\ k.fins = {}
  <2>1. Deleted(k) = NoCard
    BY <1>4 DEF Deleted
  <2>2. CardOK(NoCard)
    BY NewCards DEF Targets, Binds
  <2> QED
    BY <1>4, <2>1, <2>2 DEF Keep
<1>5. CASE k.st # "absent" /\ k.fins # {}
  <2>1. Deleted(k) = d
    BY <1>5 DEF Deleted, d
  <2>2. CardOK(d)
    BY <1>2, <1>5 DEF CardOK
  <2> QED
    BY <1>2, <2>1, <2>2 DEF Keep
<1> QED
  BY <1>3, <1>4, <1>5

\* A released card keeps the other finalizer.
LEMMA ReleasedFacts ==
  ASSUME NEW k, CardOK(k), NEW f \in {"card", "np"}, NEW g \in {"card", "np"} \ {f}
  PROVE  CardOK(Released(k, f)) /\ Keep(g, k, Released(k, f))
<1> DEFINE r == [k EXCEPT !.fins = @ \ {f}]
<1>1. k \in CardRecord
  BY DEF CardOK
<1>2. k.fins \ {f} \in SUBSET {"card", "np"}
  <2>1. k.fins \in SUBSET {"card", "np"}
    BY <1>1, SMT DEF CardRecord
  <2> QED
    BY <2>1
<1>3. r \in CardRecord /\ r.st = k.st /\ r.fins = k.fins \ {f} /\ r.target = k.target
  BY <1>1, <1>2, SMT DEF CardRecord
<1>4. CASE k.st = "deleting" /\ k.fins \subseteq {f}
  <2>1. Released(k, f) = NoCard
    BY <1>4 DEF Released
  <2>2. CardOK(NoCard)
    BY NewCards DEF Targets, Binds
  <2> QED
    BY <1>4, <2>1, <2>2 DEF Keep
<1>5. CASE ~(k.st = "deleting" /\ k.fins \subseteq {f})
  <2>1. Released(k, f) = r
    BY <1>5 DEF Released
  <2>2. k.st = "absent" => r = NoCard
    <3>1. k.st = "absent" => k = NoCard
      BY DEF CardOK
    <3>2. NoCard.fins \ {f} = {}
      BY NewCards DEF Targets, Binds
    <3>3. [NoCard EXCEPT !.fins = {}] = NoCard
      BY SMT DEF NoCard
    <3> QED
      BY <3>1, <3>2, <3>3
  <2>3. r.st = "deleting" => r.fins # {}
    BY <1>3, <1>5
  <2>4. r.st = "absent" => r = NoCard
    BY <1>3, <2>2
  <2> HIDE DEF r
  <2>5. CardOK(r)
    BY <1>3, <2>3, <2>4 DEF CardOK
  <2> QED
    BY <1>3, <2>1, <2>5 DEF Keep
<1> QED
  BY <1>4, <1>5

-----------------------------------------------------------------------------
(* The queues as the controllers leave them, before what their writes add. *)

\* A queue of its own for a controller, the others kept.
LEMMA QueueSet ==
  ASSUME QueuesOK(q), NEW s, QueueOK(s)
  PROVE  /\ QueuesOK([q EXCEPT !.ac = s]) /\ [q EXCEPT !.ac = s].np = q.np
         /\ QueuesOK([q EXCEPT !.np = s]) /\ [q EXCEPT !.np = s].np = s
         /\ QueuesOK(Unsynced) /\ Unsynced.np = q.np
<1> DEFINE x == [q EXCEPT !.ac = s]
           y == [q EXCEPT !.np = s]
           z == [q EXCEPT !.sync = FALSE]
<1>1. IsRecord(q, QueueFields) /\ QueueOK(q.ac) /\ QueueOK(q.np)
  BY DEF QueuesOK
<1>2. IsRecord(x, QueueFields) /\ x.ac = s /\ x.np = q.np
  BY <1>1 DEF IsRecord, QueueFields
<1>3. IsRecord(y, QueueFields) /\ y.ac = q.ac /\ y.np = s
  BY <1>1 DEF IsRecord, QueueFields
<1>4. IsRecord(z, QueueFields) /\ z.ac = q.ac /\ z.np = q.np
  BY <1>1 DEF IsRecord, QueueFields
<1> HIDE DEF x, y, z
<1>5. QueuesOK(x) /\ QueuesOK(y) /\ QueuesOK(z)
  BY <1>1, <1>2, <1>3, <1>4 DEF QueuesOK
<1> QED
  BY <1>2, <1>3, <1>4, <1>5 DEF x, y, z, Unsynced

\* A requeue, and the end of a sync.
LEMMA Requeued ==
  ASSUME QueuesOK(q), NEW c \in Cards
  PROVE  /\ QueuesOK(ACAgain(c)) /\ ACAgain(c).np = q.np
         /\ QueuesOK(NPAgain(c)) /\ Range(NPAgain(c).np) = Range(q.np) \cup {c}
         /\ QueuesOK(Unsynced) /\ Unsynced.np = q.np
<1>1. QueueOK(q.ac) /\ QueueOK(q.np)
  BY DEF QueuesOK
<1>2. {c} \in SUBSET Cards
  OBVIOUS
<1>3. /\ QueueOK(AddAll(q.ac, {c})) /\ QueueOK(AddAll(q.np, {c}))
      /\ Range(AddAll(q.np, {c})) = Range(q.np) \cup {c}
  BY <1>1, <1>2, AddAllFacts
<1>4. /\ QueuesOK([q EXCEPT !.ac = AddAll(q.ac, {c})])
      /\ [q EXCEPT !.ac = AddAll(q.ac, {c})].np = q.np
  BY <1>3, QueueSet
<1>5. /\ QueuesOK([q EXCEPT !.np = AddAll(q.np, {c})])
      /\ [q EXCEPT !.np = AddAll(q.np, {c})].np = AddAll(q.np, {c})
  BY <1>3, QueueSet
<1>6. QueuesOK(Unsynced) /\ Unsynced.np = q.np
  BY <1>1, QueueSet
<1> QED
  BY <1>3, <1>4, <1>5, <1>6 DEF ACAgain, NPAgain

\* The AgentCard controller takes a card, or puts it back at the end.
LEMMA TakenAC ==
  ASSUME QueuesOK(q), q.ac # <<>>
  PROVE  /\ ACHead \in Cards /\ QueuesOK(ACRest) /\ ACRest.np = q.np
         /\ QueuesOK([q EXCEPT !.ac = Append(Tail(@), ACHead)])
         /\ [q EXCEPT !.ac = Append(Tail(@), ACHead)].np = q.np
<1>1. QueueOK(q.ac)
  BY DEF QueuesOK
<1>2. /\ Head(q.ac) \in Cards /\ QueueOK(Tail(q.ac))
      /\ QueueOK(Append(Tail(q.ac), Head(q.ac)))
  BY <1>1, TailFacts
<1>3. /\ QueuesOK([q EXCEPT !.ac = Tail(q.ac)])
      /\ [q EXCEPT !.ac = Tail(q.ac)].np = q.np
  BY <1>2, QueueSet
<1>4. /\ QueuesOK([q EXCEPT !.ac = Append(Tail(q.ac), Head(q.ac))])
      /\ [q EXCEPT !.ac = Append(Tail(q.ac), Head(q.ac))].np = q.np
  BY <1>2, QueueSet
<1> QED
  BY <1>2, <1>3, <1>4 DEF ACHead, ACRest

\* The NetworkPolicy controller does the same.
LEMMA TakenNP ==
  ASSUME QueuesOK(q), q.np # <<>>
  PROVE  LET c == Head(q.np)
             again == [q EXCEPT !.np = Append(Tail(@), c)]
         IN  /\ c \in Cards /\ QueuesOK(NPRest) /\ Range(NPRest.np) = Range(q.np) \ {c}
             /\ QueuesOK(again) /\ Range(again.np) = Range(q.np)
<1> DEFINE c == Head(q.np)
           t == Tail(q.np)
           e == Append(Tail(q.np), c)
<1>1. QueueOK(q.np)
  BY DEF QueuesOK
<1>2. /\ c \in Cards /\ QueueOK(t) /\ Range(t) = Range(q.np) \ {c}
      /\ QueueOK(e) /\ Range(e) = Range(q.np)
  BY <1>1, TailFacts
<1>3. QueuesOK([q EXCEPT !.np = t]) /\ [q EXCEPT !.np = t].np = t
  BY <1>2, QueueSet
<1>4. QueuesOK([q EXCEPT !.np = e]) /\ [q EXCEPT !.np = e].np = e
  BY <1>2, QueueSet
<1> QED
  BY <1>2, <1>3, <1>4 DEF NPRest

-----------------------------------------------------------------------------
(* The workload.                                                           *)

\* An update of the fields outside the annotations and the label.
LEMMA WorkloadUpdates ==
  ASSUME NEW w, WorkloadOK(w), NEW n, NEW st \in {"absent", "agent", "plain"},
         NEW x,
         \/ n = w \/ n = [w EXCEPT !.st = st] \/ n = [w EXCEPT !.proto = x]
         \/ n = [w EXCEPT !.ready = x] \/ n = [w EXCEPT !.svc = x]
         \/ n = [w EXCEPT !.roll = x] \/ n = [w EXCEPT !.trig = x]
         \/ n = [w EXCEPT !.hash = x]
  PROVE  WorkloadOK(n) /\ n.annos = w.annos /\ n.label = w.label
<1>1. IsRecord(w, WorkloadFields) /\ w.st \in {"absent", "agent", "plain"}
      /\ w.annos \in [Cards -> Conditions] /\ w.label = Aggregate(w.annos)
  BY DEF WorkloadOK
<1>2. IsRecord(n, WorkloadFields)
  BY <1>1 DEF IsRecord
<1>3. n.annos = w.annos /\ n.label = w.label
  BY <1>1 DEF IsRecord, WorkloadFields
<1>4. n.st \in {"absent", "agent", "plain"}
  BY <1>1 DEF IsRecord, WorkloadFields
<1> QED
  BY <1>1, <1>2, <1>3, <1>4 DEF WorkloadOK

\* A fresh workload, and none.
LEMMA NewWorkloads ==
  ASSUME NEW w, w = NewWorkload \/ w = [NewWorkload EXCEPT !.st = "absent"]
  PROVE  WorkloadOK(w) /\ w.annos = [c \in Cards |-> "none"] /\ w.label = FALSE
<1> DEFINE n == NewWorkload
<1>1. n.annos = [c \in Cards |-> "none"] /\ n.label = FALSE /\ n.st = "agent"
  BY DEF NewWorkload
<1>2. IsRecord(n, WorkloadFields)
  BY DEF NewWorkload, IsRecord, WorkloadFields
<1>3. WorkloadOK(n)
  <2>1. n.annos \in [Cards -> Conditions] /\ \A c \in Cards : n.annos[c] = "none"
    BY <1>1 DEF Conditions
  <2>2. Aggregate(n.annos) = FALSE
    BY <2>1 DEF Aggregate
  <2> QED
    BY <1>1, <1>2, <2>1, <2>2 DEF WorkloadOK
<1> HIDE DEF n
<1>4. w = n \/ w = [n EXCEPT !.st = "absent"]
  BY DEF n
<1>5. WorkloadOK(w) /\ w.annos = n.annos /\ w.label = n.label
  BY <1>3, <1>4, WorkloadUpdates
<1> QED
  BY <1>1, <1>5

\* A workload with an annotation set, and the label to it.
LEMMA AnnotatedFacts ==
  ASSUME WorkloadOK(wl), NEW c \in Cards, NEW v \in Conditions
  PROVE  /\ WorkloadOK(Annotated(c, v)) /\ Annotated(c, v).st = wl.st
         /\ Annotated(c, v).annos[c] = v
         /\ \A d \in Cards \ {c} : Annotated(c, v).annos[d] = wl.annos[d]
<1> DEFINE annos == [wl.annos EXCEPT ![c] = v]
           n == Annotated(c, v)
<1>1. /\ IsRecord(wl, WorkloadFields) /\ wl.st \in {"absent", "agent", "plain"}
      /\ wl.annos \in [Cards -> Conditions]
  BY DEF WorkloadOK
<1>2. /\ annos \in [Cards -> Conditions] /\ annos[c] = v
      /\ \A d \in Cards \ {c} : annos[d] = wl.annos[d]
  BY <1>1
<1>3. n = [wl EXCEPT !.annos = annos, !.label = Aggregate(annos),
                     !.roll = @ \/ ("rotation" \in mode.env /\ wl.label # Aggregate(annos))]
  BY DEF Annotated
<1> HIDE DEF annos, n
<1>4. n.annos = annos /\ n.label = Aggregate(annos) /\ n.st = wl.st
  BY <1>1, <1>3 DEF IsRecord, WorkloadFields
<1>5. IsRecord(n, WorkloadFields)
  BY <1>1, <1>3 DEF IsRecord
<1>6. WorkloadOK(n)
  BY <1>1, <1>2, <1>4, <1>5 DEF WorkloadOK
<1> QED
  BY <1>2, <1>4, <1>6 DEF n

-----------------------------------------------------------------------------
(* Finalizers and annotations.                                             *)

\* What a step must keep of the cards, the annotations and the workers for the holds to
\* be kept: the cards a controller works on after it were held before.
LEMMA HoldsKept ==
  ASSUME CardInv, mode' = mode, leaked' = leaked, wl'.annos = wl.annos,
         ac'.card \in Cards, np'.card \in Cards,
         \A c \in Cards : Keep("card", cards[c], cards'[c]), ACHolds(ac'),
         \A c \in Cards : Keep("np", cards[c], cards'[c]) \/ np'.pc = "idle", NPHolds(np')
  PROVE  ACHolds(ac)' /\ NPHolds(np)' /\ AnnotationsHeld'
<1>1. \A c \in Cards : Cleaned(c)' <=> Cleaned(c)
  BY DEF Cleaned
<1>2. ACHolds(ac)'
  <2>1. CASE ac'.pc = "idle"
    BY <2>1 DEF ACHolds
  <2>2. CASE ac'.pc # "idle"
    <3>1. "card" \in cards[ac'.card].fins
      BY <2>2 DEF ACHolds
    <3>2. "card" \in cards'[ac'.card].fins /\ cards'[ac'.card].target = cards[ac'.card].target
      BY <3>1 DEF Keep
    <3> QED
      BY <1>1, <3>2 DEF ACHolds
  <2> QED
    BY <2>1, <2>2
<1>3. NPHolds(np)'
  BY DEF NPHolds, Keep
<1>4. AnnotationsHeld'
  <2> SUFFICES ASSUME NEW c \in Cards
               PROVE  /\ wl'.annos[c] # "none" => HasTemplate'
                      /\ "card" \notin cards'[c].fins \/ cards'[c].target # "here" => Cleaned(c)'
    BY DEF AnnotationsHeld
  <2>1. /\ wl.annos[c] # "none" => HasTemplate
        /\ "card" \notin cards[c].fins \/ cards[c].target # "here" => Cleaned(c)
    BY DEF CardInv, AnnotationsHeld
  <2>2. HasTemplate' <=> HasTemplate
    BY DEF HasTemplate
  <2>3. Keep("card", cards[c], cards'[c])
    OBVIOUS
  <2> QED
    BY <1>1, <2>1, <2>2, <2>3 DEF Keep
<1> QED
  BY <1>2, <1>3, <1>4

-----------------------------------------------------------------------------
(* Steps by what they write.                                               *)

\* A step of anyone but the NetworkPolicy controller, for that controller.
Quiet == mode' = mode /\ np' = np /\ Heard /\ Range(q.np) \subseteq Range(q'.np)

\* A card is written, and keeps its finalizers.
LEMMA CardWritten ==
  ASSUME CardInv, NEW c \in Cards, NEW k, CardOK(k),
         Keep("card", cards[c], k), Keep("np", cards[c], k),
         NEW base, QueuesOK(base), base.np = q.np, WriteCard(c, k, base),
         WorkersOK', np' = np, mode' = mode, leaked' = leaked, ACHolds(ac')
  PROVE  CardInv' /\ Quiet
<1>1. /\ CardsOK' /\ QueuesOK(q') /\ Heard /\ Range(base.np) \subseteq Range(q'.np)
      /\ wl' = wl /\ cards'[c] = k /\ \A d \in Cards \ {c} : cards'[d] = cards[d]
  BY WriteCardFacts DEF CardInv
<1>2. \A d \in Cards : Keep("card", cards[d], cards'[d]) /\ Keep("np", cards[d], cards'[d])
  <2> TAKE d \in Cards
  <2>1. CASE d = c
    BY <1>1, <2>1
  <2>2. CASE d # c
    BY <1>1, <2>2 DEF Keep
  <2> QED
    BY <2>1, <2>2
<1>3. ac'.card \in Cards /\ np'.card \in Cards
  BY DEF WorkersOK
<1>4. NPHolds(np')
  BY DEF CardInv, NPHolds
<1>5. ACHolds(ac)' /\ NPHolds(np)' /\ AnnotationsHeld'
  BY <1>1, <1>2, <1>3, <1>4, HoldsKept
<1>6. WorkloadOK(wl)' /\ QueuesOK(q)'
  BY <1>1 DEF CardInv, WorkloadOK, Aggregate, QueuesOK
<1> QED
  BY <1>1, <1>5, <1>6 DEF CardInv, Quiet

\* The workload is written, and keeps its annotations.
LEMMA WorkloadWritten ==
  ASSUME CardInv, NEW w, WorkloadOK(w), w.annos = wl.annos, NEW own,
         NEW base, QueuesOK(base), base.np = q.np, WriteWorkload(w, own, base),
         WorkersOK', np' = np, mode' = mode, leaked' = leaked, ACHolds(ac')
  PROVE  CardInv' /\ Quiet
<1>1. /\ CardsOK' /\ QueuesOK(q') /\ Heard /\ Range(base.np) \subseteq Range(q'.np)
      /\ wl' = w /\ cards' = cards
  BY WriteWorkloadFacts DEF CardInv
<1>2. \A d \in Cards : Keep("card", cards[d], cards'[d]) /\ Keep("np", cards[d], cards'[d])
  BY <1>1 DEF Keep
<1>3. ac'.card \in Cards /\ np'.card \in Cards
  BY DEF WorkersOK
<1>4. NPHolds(np')
  BY DEF CardInv, NPHolds
<1>5. ACHolds(ac)' /\ NPHolds(np)' /\ AnnotationsHeld'
  BY <1>1, <1>2, <1>3, <1>4, HoldsKept
<1>6. WorkloadOK(wl)' /\ QueuesOK(q)'
  BY <1>1 DEF WorkloadOK, Aggregate, QueuesOK
<1> QED
  BY <1>1, <1>5, <1>6 DEF CardInv, Quiet

\* Nothing is written that a controller watches.
LEMMA NothingWritten ==
  ASSUME CardInv, cards' = cards, pol' = pol, WorkloadOK(wl'), wl'.annos = wl.annos,
         wl'.label = wl.label, wl'.st = wl.st,
         QueuesOK(q'), Range(q.np) \subseteq Range(q'.np),
         WorkersOK', np' = np, mode' = mode, leaked' = leaked, ACHolds(ac')
  PROVE  CardInv' /\ Quiet
<1>1. \A d \in Cards : Keep("card", cards[d], cards'[d]) /\ Keep("np", cards[d], cards'[d])
  BY DEF Keep
<1>2. ac'.card \in Cards /\ np'.card \in Cards
  BY DEF WorkersOK
<1>3. NPHolds(np')
  BY DEF CardInv, NPHolds
<1>4. ACHolds(ac)' /\ NPHolds(np)' /\ AnnotationsHeld'
  BY <1>1, <1>2, <1>3, HoldsKept
<1>5. WorkloadOK(wl)' /\ QueuesOK(q)'
  BY DEF WorkloadOK, Aggregate, QueuesOK
<1>6. CardsOK'
  BY DEF CardInv, CardsOK, CardOK
<1>7. Heard
  BY DEF Heard
<1> QED
  BY <1>4, <1>5, <1>6, <1>7 DEF CardInv, Quiet

-----------------------------------------------------------------------------
(* Users, the agent and the cluster.                                       *)

\* A step that leaves the controllers alone, and all they watch.
LEMMA Unwatched ==
  ASSUME CardInv, UNCHANGED <<mode, cards, wl, pol, q, ac, np, sy, adm, leaked>>
  PROVE  CardInv' /\ Quiet
<1>1. WorkersOK'
  BY DEF CardInv, WorkersOK
<1>2. ACHolds(ac')
  BY DEF CardInv, ACHolds
<1>3. WorkloadOK(wl') /\ QueuesOK(q')
  BY DEF CardInv
<1> QED
  BY <1>1, <1>2, <1>3, NothingWritten

\* A user's card is checked, and stored if there is none of its name.
LEMMA UserCreates ==
  ASSUME CardInv
  PROVE  /\ \A r \in mode.requests : ValidateCreate(r[1], r[2], r[3]) => CardInv' /\ Quiet
         /\ CreateCard => CardInv' /\ Quiet
<1>1. WorkersOK /\ QueuesOK(q) /\ WorkloadOK(wl) /\ ACHolds(ac) /\ CardsOK
  BY DEF CardInv
<1>2. ASSUME NEW r \in mode.requests, ValidateCreate(r[1], r[2], r[3]) PROVE CardInv' /\ Quiet
  <2>1. r \in Cards \X Targets \X Binds
    BY <1>1, RequestsAssumption DEF WorkersOK
  <2>2. <<r[1], r[2], r[3]>> \in Cards \X Targets \X Binds
    BY <2>1
  <2>3. adm' = <<r[1], r[2], r[3]>> /\ UNCHANGED <<mode, cards, wl, pol, q, ac, np, sy, leaked>>
    BY <1>2 DEF ValidateCreate
  <2>4. WorkersOK'
    BY <1>1, <2>2, <2>3 DEF WorkersOK
  <2>5. ACHolds(ac')
    BY <1>1, <2>3 DEF ACHolds
  <2>6. QueuesOK(q') /\ WorkloadOK(wl')
    BY <1>1, <2>3
  <2> QED
    BY <2>3, <2>4, <2>5, <2>6, NothingWritten
<1>3. ASSUME CreateCard PROVE CardInv' /\ Quiet
  <2> DEFINE c == adm[1]
             k == NewCard(FALSE, "none", adm[2], adm[3])
             n == IF Exists(c) THEN cards[c] ELSE k
  <2>1. adm \in Cards \X Targets \X Binds
    BY <1>1, <1>3 DEF WorkersOK, CreateCard
  <2>2. c \in Cards /\ adm[2] \in Targets /\ adm[3] \in Binds
    BY <2>1
  <2>3. /\ WriteCard(c, n, q) /\ adm' = <<>>
        /\ UNCHANGED <<mode, ac, np, sy, leaked>>
    BY <1>3 DEF CreateCard
  <2>4. CardOK(k)
    BY <2>2, NewCards
  <2>5. CardOK(cards[c])
    BY <1>1, <2>2 DEF CardsOK
  <2>6. CardOK(n) /\ Keep("card", cards[c], n) /\ Keep("np", cards[c], n)
    <3>1. CASE Exists(c)
      BY <2>5, <3>1 DEF Keep
    <3>2. CASE ~Exists(c)
      <4>1. cards[c] = NoCard
        BY <2>5, <3>2 DEF CardOK, Exists
      <4>2. NoCard.fins = {}
        BY NewCards DEF Targets, Binds
      <4> QED
        BY <2>4, <3>2, <4>1, <4>2 DEF Keep
    <3> QED
      BY <3>1, <3>2
  <2>7. WorkersOK'
    BY <1>1, <2>3 DEF WorkersOK
  <2>8. ACHolds(ac')
    BY <1>1, <2>3 DEF ACHolds
  <2> HIDE DEF c, n, k
  <2> QED
    BY <1>1, <2>2, <2>3, <2>6, <2>7, <2>8, CardWritten
<1> QED
  BY <1>2, <1>3

\* A card is deleted, by a user or by the garbage collector.
LEMMA CardDeleted ==
  ASSUME CardInv, NEW c \in Cards, NEW base, QueuesOK(base), base.np = q.np,
         WriteCard(c, Deleted(cards[c]), base),
         UNCHANGED <<mode, ac, np, sy, adm, leaked>>
  PROVE  CardInv' /\ Quiet
<1>1. CardOK(cards[c])
  BY DEF CardInv, CardsOK
<1>2. /\ CardOK(Deleted(cards[c]))
      /\ Keep("card", cards[c], Deleted(cards[c])) /\ Keep("np", cards[c], Deleted(cards[c]))
  BY <1>1, DeletedFacts
<1>3. WorkersOK'
  BY DEF CardInv, WorkersOK
<1>4. ACHolds(ac')
  BY DEF CardInv, ACHolds
<1> QED
  BY <1>2, <1>3, <1>4, CardWritten

\* The workload is changed outside its annotations and label.
LEMMA WorkloadEdited ==
  ASSUME CardInv, NEW w, WorkloadOK(w), w.annos = wl.annos, NEW own,
         WriteWorkload(w, own, q), UNCHANGED <<mode, ac, np, sy, adm, leaked>>
  PROVE  CardInv' /\ Quiet
<1>1. WorkersOK' /\ QueuesOK(q)
  BY DEF CardInv, WorkersOK
<1>2. ACHolds(ac')
  BY DEF CardInv, ACHolds
<1> QED
  BY <1>1, <1>2, WorkloadWritten

\* The workload is created or deleted, with the cards it owns orphaned.
LEMMA WorkloadReplaced ==
  ASSUME CardInv, NEW w, WorkloadOK(w), w.annos = [c \in Cards |-> "none"],
         NEW new, new = [c \in Cards |-> new[c]],
         \A c \in Cards : /\ CardOK(new[c])
                          /\ new[c].fins = cards[c].fins /\ new[c].target = cards[c].target,
         NEW own, Publish(new, w, pol, own, q), WorkersOK',
         UNCHANGED <<mode, ac, np>>
  PROVE  CardInv' /\ Quiet
<1>1. QueuesOK(q') /\ Heard /\ Range(q.np) \subseteq Range(q'.np)
  BY PublishQueues DEF CardInv
<1>2. cards' = new /\ wl' = w
  BY DEF Publish
<1>3. CardsOK'
  BY <1>2 DEF CardsOK, CardOK
<1>4. \A c \in Cards : Cleaned(c)'
  BY <1>2 DEF Cleaned
<1>5. ac.card \in Cards /\ np.card \in Cards /\ ACHolds(ac) /\ NPHolds(np)
  BY DEF CardInv, WorkersOK
<1>6. ACHolds(ac)'
  BY <1>2, <1>4, <1>5 DEF ACHolds
<1>7. NPHolds(np)'
  BY <1>2, <1>5 DEF NPHolds
<1>8. AnnotationsHeld'
  BY <1>2, <1>4 DEF AnnotationsHeld
<1>9. WorkloadOK(wl)' /\ QueuesOK(q)'
  BY <1>1, <1>2 DEF WorkloadOK, Aggregate, QueuesOK
<1> QED
  BY <1>1, <1>3, <1>6, <1>7, <1>8, <1>9 DEF CardInv, Quiet

\* A workload comes and goes.
LEMMA WorkloadComesAndGoes ==
  ASSUME CardInv, DeleteWorkload \/ CreateWorkload
  PROVE  CardInv' /\ Quiet
<1>1. /\ cards = [c \in Cards |-> cards[c]] /\ \A c \in Cards : CardOK(cards[c])
      /\ WorkersOK
  BY DEF CardInv, CardsOK
<1>2. CASE DeleteWorkload
  <2> DEFINE w == [NewWorkload EXCEPT !.st = "absent"]
             new == [c \in Cards |->
                       [cards[c] EXCEPT !.owned = IF @ = "current" THEN "old" ELSE @]]
  <2>1. /\ Publish(new, w, pol, FALSE, q) /\ UNCHANGED <<mode, ac, np, adm>>
        /\ sy' = [sy EXCEPT !.owner = IF sy.pc = "idle" THEN @ ELSE "old"]
    BY <1>2 DEF DeleteWorkload
  <2>2. WorkloadOK(w) /\ w.annos = [c \in Cards |-> "none"]
    BY NewWorkloads
  <2>3. ASSUME NEW c \in Cards
        PROVE  /\ CardOK(new[c])
               /\ new[c].fins = cards[c].fins /\ new[c].target = cards[c].target
    <3> DEFINE k == cards[c]
               o == IF k.owned = "current" THEN "old" ELSE k.owned
    <3>1. new[c] = [k EXCEPT !.owned = o] /\ CardOK(k)
      BY <1>1, <2>3
    <3>2. o \in {"none", "current", "old"}
      <4>1. k \in CardRecord
        BY <3>1 DEF CardOK
      <4>2. k.owned \in {"none", "current", "old"}
        BY <4>1, SMT DEF CardRecord
      <4> QED
        BY <4>2
    <3>3. CASE k.st # "absent"
      <4> HIDE DEF k, o
      <4>1. /\ CardOK([k EXCEPT !.owned = o]) /\ [k EXCEPT !.owned = o].fins = k.fins
            /\ [k EXCEPT !.owned = o].target = k.target
        BY <3>1, <3>2, <3>3, OwnerSet
      <4> QED
        BY <3>1, <4>1 DEF k
    <3>4. CASE k.st = "absent"
      <4>1. k = NoCard
        BY <3>1, <3>4 DEF CardOK
      <4>2. [NoCard EXCEPT !.owned = "none"] = NoCard /\ NoCard.owned = "none"
        BY SMT DEF NoCard
      <4>3. o = "none"
        BY <4>1, <4>2
      <4>4. new[c] = k
        BY <3>1, <4>1, <4>2, <4>3
      <4> QED
        BY <3>1, <4>4
    <3> QED
      BY <3>3, <3>4
  <2>4. new = [c \in Cards |-> new[c]]
    OBVIOUS
  <2>5. sy'.owner \in {"none", "current", "old"} /\ IsRecord(sy', {"pc", "owner"})
    BY <1>1, <2>1 DEF WorkersOK, IsRecord
  <2>6. WorkersOK'
    BY <1>1, <2>1, <2>5 DEF WorkersOK
  <2> HIDE DEF w, new
  <2> QED
    BY <2>1, <2>2, <2>3, <2>4, <2>6, WorkloadReplaced
<1>3. CASE CreateWorkload
  <2>1. Publish(cards, NewWorkload, pol, FALSE, q) /\ UNCHANGED <<mode, ac, np, adm, sy>>
    BY <1>3 DEF CreateWorkload, WriteWorkload
  <2>2. WorkloadOK(NewWorkload) /\ NewWorkload.annos = [c \in Cards |-> "none"]
    BY NewWorkloads
  <2>3. WorkersOK'
    BY <1>1, <2>1 DEF WorkersOK
  <2> QED
    BY <1>1, <2>1, <2>2, <2>3, WorkloadReplaced
<1> QED
  BY <1>2, <1>3

\* The steps of users.
LEMMA UserSteps ==
  ASSUME CardInv, UserStep
  PROVE  CardInv' /\ Quiet
<1>1. QueuesOK(q) /\ WorkloadOK(wl)
  BY DEF CardInv
<1>2. CASE \E r \in mode.requests : ValidateCreate(r[1], r[2], r[3])
  BY <1>2, UserCreates
<1>3. CASE CreateCard
  BY <1>3, UserCreates
<1>4. ASSUME NEW c \in Cards, DeleteCard(c) PROVE CardInv' /\ Quiet
  <2>1. WriteCard(c, Deleted(cards[c]), q) /\ UNCHANGED <<mode, ac, np, sy, adm, leaked>>
    BY <1>4 DEF DeleteCard
  <2> QED
    BY <1>1, <2>1, CardDeleted
<1>5. ASSUME NEW w \in EditedWorkloads, EditWorkload(w) PROVE CardInv' /\ Quiet
  <2>1. WriteWorkload(w, FALSE, q) /\ UNCHANGED <<mode, ac, np, sy, adm, leaked>>
    BY <1>5 DEF EditWorkload
  <2>2. \E st \in {"absent", "agent", "plain"} : \E x :
          \/ w = [wl EXCEPT !.st = st] \/ w = [wl EXCEPT !.proto = x]
          \/ w = [wl EXCEPT !.ready = x] \/ w = [wl EXCEPT !.svc = x]
    BY <1>5 DEF EditedWorkloads
  <2>3. WorkloadOK(w) /\ w.annos = wl.annos
    BY <1>1, <2>2, WorkloadUpdates
  <2> QED
    BY <2>1, <2>3, WorkloadEdited
<1>6. CASE DeleteWorkload \/ CreateWorkload
  BY <1>6, WorkloadComesAndGoes
<1>7. ASSUME NEW s \in Sources, EditSource(s) PROVE CardInv' /\ Quiet
  <2>1. UNCHANGED <<mode, cards, wl, pol, q, ac, np, sy, adm, leaked>>
    BY <1>7 DEF EditSource
  <2> QED
    BY <2>1, Unwatched
<1> QED
  BY <1>2, <1>3, <1>4, <1>5, <1>6, <1>7 DEF UserStep

\* The identity of the agent, the passing of time, and the garbage collector.
LEMMA IdentitySteps ==
  ASSUME CardInv, IdentityStep \/ GCStep
  PROVE  CardInv' /\ Quiet
<1>1. QueuesOK(q) /\ WorkloadOK(wl)
  BY DEF CardInv
<1>2. CASE PublishBundle \/ LeafNearsExpiry \/ BundleAges
  <2>1. UNCHANGED <<mode, cards, wl, pol, q, ac, np, sy, adm, leaked>>
    BY <1>2 DEF PublishBundle, LeafNearsExpiry, BundleAges
  <2> QED
    BY <2>1, Unwatched
<1>3. CASE Rollout
  <2>1. /\ WriteWorkload([wl EXCEPT !.roll = FALSE], FALSE, q)
        /\ UNCHANGED <<mode, ac, np, sy, adm, leaked>>
    BY <1>3 DEF Rollout
  <2>2. PICK w : w = [wl EXCEPT !.roll = FALSE]
    OBVIOUS
  <2>3. WorkloadOK(w) /\ w.annos = wl.annos
    BY <1>1, <2>2, WorkloadUpdates
  <2> QED
    BY <2>1, <2>2, <2>3, WorkloadEdited
<1>4. CASE GracePeriodEnds
  <2>1. /\ wl' = [wl EXCEPT !.trig = "old"]
        /\ UNCHANGED <<mode, cards, pol, q, ac, np, sy, adm, leaked>>
    BY <1>4 DEF GracePeriodEnds
  <2>2. WorkloadOK(wl') /\ wl'.annos = wl.annos /\ wl'.label = wl.label
    BY <1>1, <2>1, WorkloadUpdates
  <2>3. wl'.st = wl.st
    BY <1>1, <2>1 DEF WorkloadOK, IsRecord, WorkloadFields
  <2>4. WorkersOK'
    BY <2>1 DEF CardInv, WorkersOK
  <2>5. ACHolds(ac')
    BY <2>1 DEF CardInv, ACHolds
  <2> QED
    BY <1>1, <2>1, <2>2, <2>3, <2>4, <2>5, NothingWritten
<1>5. ASSUME NEW c \in Cards, CollectCard(c) PROVE CardInv' /\ Quiet
  <2>1. WriteCard(c, Deleted(cards[c]), q) /\ UNCHANGED <<mode, ac, np, sy, adm, leaked>>
    BY <1>5 DEF CollectCard
  <2> QED
    BY <1>1, <2>1, CardDeleted
<1> QED
  BY <1>2, <1>3, <1>4, <1>5 DEF IdentityStep, GCStep

-----------------------------------------------------------------------------
(* Sync.                                                                   *)

\* The workers after a step of Sync.
LEMMA SyncWorkers ==
  ASSUME CardInv, UNCHANGED <<mode, ac, np, adm>>,
         sy' = sy \/ sy' = IdleSync \/ (\E p : sy' = [sy EXCEPT !.pc = p])
  PROVE  WorkersOK' /\ ACHolds(ac')
<1>1. WorkersOK /\ ACHolds(ac)
  BY DEF CardInv
<1>2. IsRecord(sy', {"pc", "owner"}) /\ sy'.owner \in {"none", "current", "old"}
  <2>1. IsRecord(sy, {"pc", "owner"}) /\ sy.owner \in {"none", "current", "old"}
    BY <1>1 DEF WorkersOK
  <2>2. CASE sy' = sy
    BY <2>1, <2>2
  <2>3. CASE sy' = IdleSync
    BY <2>3 DEF IsRecord, IdleSync
  <2>4. ASSUME NEW p, sy' = [sy EXCEPT !.pc = p]
        PROVE  IsRecord(sy', {"pc", "owner"}) /\ sy'.owner \in {"none", "current", "old"}
    BY <2>1, <2>4 DEF IsRecord
  <2> QED
    BY <2>2, <2>3, <2>4
<1>3. WorkersOK'
  BY <1>1, <1>2 DEF WorkersOK
<1> QED
  BY <1>1, <1>3

\* A step of Sync that writes no card.
LEMMA SyncOnly ==
  ASSUME CardInv, UNCHANGED <<mode, cards, wl, pol, ac, np, adm, leaked>>,
         q' = q \/ q' = Unsynced,
         sy' = sy \/ sy' = IdleSync \/ (\E p : sy' = [sy EXCEPT !.pc = p])
  PROVE  CardInv' /\ Quiet
<1>1. WorkersOK' /\ ACHolds(ac')
  BY SyncWorkers
<1>2. QueuesOK(q) /\ WorkloadOK(wl')
  BY DEF CardInv
<1>3. AutoName \in Cards
  BY CardsAssumption
<1>4. QueuesOK(Unsynced) /\ Unsynced.np = q.np
  BY <1>2, <1>3, Requeued
<1>5. QueuesOK(q') /\ q'.np = q.np
  BY <1>2, <1>4
<1> QED
  BY <1>1, <1>2, <1>5, NothingWritten

\* A card of the name of Sync gets the workload as its owner, or nothing changes.
LEMMA Adopted ==
  ASSUME CardInv, AdoptCard, UNCHANGED <<mode, ac, np, adm, leaked>>,
         sy' = sy \/ sy' = IdleSync
  PROVE  CardInv' /\ Quiet
<1>1. AutoName \in Cards
  BY CardsAssumption
<1>2. WorkersOK' /\ ACHolds(ac')
  BY SyncWorkers
<1>3. CASE UNCHANGED <<cards, wl, pol, q>>
  BY <1>3, SyncOnly
<1>4. CASE /\ cards[AutoName].target = "here"
           /\ WriteCard(AutoName, [cards[AutoName] EXCEPT !.owned = "current"], Unsynced)
  <2> DEFINE k == cards[AutoName]
             n == [k EXCEPT !.owned = "current"]
  <2>1. CardOK(k) /\ QueuesOK(q)
    BY <1>1 DEF CardInv, CardsOK
  <2>2. k.st # "absent"
    <3>1. NoCard.target = "none"
      BY NewCards DEF Targets, Binds
    <3> QED
      BY <1>4, <2>1, <3>1 DEF CardOK
  <2>3. CardOK(n) /\ n.fins = k.fins /\ n.target = k.target
    BY <2>1, <2>2, OwnerSet
  <2>4. Keep("card", k, n) /\ Keep("np", k, n)
    BY <2>3 DEF Keep
  <2>5. QueuesOK(Unsynced) /\ Unsynced.np = q.np
    BY <1>1, <2>1, Requeued
  <2> QED
    BY <1>1, <1>2, <1>4, <2>3, <2>4, <2>5, CardWritten
<1> QED
  BY <1>3, <1>4 DEF AdoptCard

\* The steps of Sync.
LEMMA SyncSteps ==
  ASSUME CardInv, SyncStep
  PROVE  CardInv' /\ Quiet
<1>1. QueuesOK(q) /\ AutoName \in Cards /\ WorkersOK
  BY CardsAssumption DEF CardInv
<1>2. QueuesOK(Unsynced) /\ Unsynced.np = q.np
  BY <1>1, Requeued
<1>3. CASE EnsureAgentCard
  <2>1. UNCHANGED <<mode, ac, np, adm, leaked>>
    BY <1>3 DEF EnsureAgentCard
  <2>2. CASE q' = Unsynced /\ UNCHANGED <<cards, wl, pol, sy>>
    BY <2>1, <2>2, SyncOnly
  <2>3. CASE WriteCard(AutoName, Deleted(cards[AutoName]), Unsynced) /\ UNCHANGED sy
    BY <1>1, <1>2, <2>1, <2>3, CardDeleted
  <2>4. CASE AdoptCard /\ UNCHANGED sy
    BY <2>1, <2>4, Adopted
  <2>5. CASE sy' = [sy EXCEPT !.pc = "admit"] /\ UNCHANGED <<cards, wl, pol, q>>
    BY <2>1, <2>5, SyncOnly
  <2> QED
    BY <1>3, <2>2, <2>3, <2>4, <2>5 DEF EnsureAgentCard
<1>4. CASE SyncAdmit
  <2>1. UNCHANGED <<mode, cards, wl, pol, q, ac, np, adm, leaked>>
    BY <1>4 DEF SyncAdmit
  <2>2. sy' = IdleSync \/ sy' = [sy EXCEPT !.pc = "create"]
    BY <1>4 DEF SyncAdmit
  <2> QED
    BY <2>1, <2>2, SyncOnly
<1>5. CASE CreateAgentCardForWorkload
  <2>1. UNCHANGED <<mode, ac, np, adm, leaked>> /\ sy' = IdleSync
    BY <1>5 DEF CreateAgentCardForWorkload
  <2>2. CASE AdoptCard
    BY <2>1, <2>2, Adopted
  <2>3. CASE ~Exists(AutoName) /\ ~AdoptCard
    <3> DEFINE b == IF TrustDomain = "" THEN "none" ELSE "lax"
               k == NewCard(TRUE, sy.owner, "here", b)
    <3>1. WriteCard(AutoName, k, Unsynced)
      BY <1>5, <2>3 DEF CreateAgentCardForWorkload
    <3>2. b \in Binds /\ "here" \in Targets /\ sy.owner \in {"none", "current", "old"}
      BY <1>1 DEF Binds, Targets, WorkersOK
    <3>3. CardOK(k)
      BY <3>2, NewCards
    <3>4. cards[AutoName] = NoCard
      BY <1>1, <2>3 DEF CardInv, CardsOK, CardOK, Exists
    <3>5. NoCard.fins = {}
      BY <3>2, NewCards
    <3>6. Keep("card", cards[AutoName], k) /\ Keep("np", cards[AutoName], k)
      BY <3>4, <3>5 DEF Keep
    <3>7. WorkersOK' /\ ACHolds(ac')
      BY <2>1, SyncWorkers
    <3> HIDE DEF k
    <3> QED
      BY <1>1, <1>2, <2>1, <3>1, <3>3, <3>6, <3>7, CardWritten
  <2> QED
    BY <1>5, <2>2, <2>3 DEF CreateAgentCardForWorkload
<1> QED
  BY <1>3, <1>4, <1>5 DEF SyncStep

-----------------------------------------------------------------------------
(* The AgentCard controller.                                               *)

\* The workers after a step of the AgentCard controller.
LEMMA ACWorkers ==
  ASSUME CardInv, UNCHANGED <<mode, np, sy, adm>>, IsRecord(ac', ACFields), ac'.card \in Cards
  PROVE  WorkersOK'
BY DEF CardInv, WorkersOK

\* The card that the controller works on exists.
LEMMA HeldExists ==
  ASSUME CardInv, ac.pc # "idle"
  PROVE  /\ ac.card \in Cards /\ CardOK(cards[ac.card]) /\ cards[ac.card].st # "absent"
         /\ "card" \in cards[ac.card].fins /\ IsRecord(ac, ACFields)
<1>1. ac.card \in Cards /\ IsRecord(ac, ACFields) /\ "card" \in cards[ac.card].fins
  BY DEF CardInv, WorkersOK, ACHolds
<1>2. CardOK(cards[ac.card])
  BY <1>1 DEF CardInv, CardsOK
<1>3. NoCard.fins = {}
  BY NewCards DEF Targets, Binds
<1> QED
  BY <1>1, <1>2, <1>3 DEF CardOK

\* An idle worker, and one that starts on a card.
LEMMA ACStarts ==
  ASSUME NEW c \in Cards, NEW p
  PROVE  /\ IsRecord(IdleAC, ACFields) /\ IdleAC.card \in Cards /\ ACHolds(IdleAC)
         /\ LET a == [IdleAC EXCEPT !.pc = p, !.card = c]
            IN  IsRecord(a, ACFields) /\ a.card = c /\ a.pc = p
<1>1. IsRecord(IdleAC, ACFields)
  BY DEF IsRecord, ACFields, IdleAC
<1>2. IdleAC.card \in Cards /\ IdleAC.pc = "idle"
  BY CardsAssumption DEF IdleAC
<1>3. ACHolds(IdleAC)
  BY <1>2 DEF ACHolds
<1> QED
  BY <1>1, <1>2, <1>3 DEF IsRecord, ACFields

\* A card is written with its state, its finalizers and its target kept.
LEMMA StatusWritten ==
  ASSUME CardInv, NEW c \in Cards, NEW n, SameHold(cards[c], n),
         NEW base, QueuesOK(base), base.np = q.np, WriteCard(c, n, base),
         IsRecord(ac', ACFields), ac'.card \in Cards, ACHolds(ac'),
         UNCHANGED <<mode, np, sy, adm, leaked>>
  PROVE  CardInv' /\ Quiet
<1>1. CardOK(n) /\ Keep("card", cards[c], n) /\ Keep("np", cards[c], n)
  BY DEF SameHold, Keep
<1>2. WorkersOK'
  BY ACWorkers
<1> QED
  BY <1>1, <1>2, CardWritten

\* Only the worker and its queue change.
LEMMA ACOnly ==
  ASSUME CardInv, UNCHANGED <<mode, cards, wl, pol, np, sy, adm, leaked>>,
         QueuesOK(q'), q'.np = q.np,
         IsRecord(ac', ACFields), ac'.card \in Cards, ACHolds(ac')
  PROVE  CardInv' /\ Quiet
<1>1. WorkersOK'
  BY ACWorkers
<1>2. WorkloadOK(wl')
  BY DEF CardInv
<1> QED
  BY <1>1, <1>2, NothingWritten

\* Reconcile up to the fetch.
LEMMA ReconcileCardStep ==
  ASSUME CardInv, ReconcileCard
  PROVE  CardInv' /\ Quiet
<1> DEFINE c == ACHead
           k == cards[c]
           again == [q EXCEPT !.ac = Append(Tail(@), c)]
<1>1. QueuesOK(q) /\ q.ac # <<>> /\ ac.pc = "idle" /\ IsRecord(ac, ACFields)
      /\ ac.card \in Cards /\ ACHolds(ac)
  BY DEF CardInv, WorkersOK, ReconcileCard
<1>2. c \in Cards /\ QueuesOK(ACRest) /\ ACRest.np = q.np /\ QueuesOK(again) /\ again.np = q.np
  BY <1>1, TakenAC
<1>3. UNCHANGED <<mode, np, sy, adm, leaked>>
  BY DEF ReconcileCard
<1>4. CardOK(k)
  BY <1>2 DEF CardInv, CardsOK
<1>5. \/ q' = ACRest /\ UNCHANGED <<cards, wl, pol, ac>>
      \/ /\ "card" \in k.fins /\ ac' = [IdleAC EXCEPT !.pc = "cleanup", !.card = c]
         /\ q' = ACRest /\ UNCHANGED <<cards, wl, pol>>
      \/ /\ k.st = "live" /\ UNCHANGED ac
         /\ WriteCard(c, [k EXCEPT !.fins = @ \cup {"card"}], ACRest)
      \/ q' = again /\ UNCHANGED <<cards, wl, pol, ac>>
      \/ k.st = "live" /\ WriteCard(c, Unfetched(c), again) /\ UNCHANGED ac
      \/ /\ "card" \in k.fins /\ ~NotFetchable(c)
         /\ ac' = [IdleAC EXCEPT !.pc = "fetch", !.card = c]
         /\ q' = ACRest /\ UNCHANGED <<cards, wl, pol>>
  BY DEF ReconcileCard
<1> HIDE DEF c
<1>6. CASE (q' = ACRest \/ q' = again) /\ UNCHANGED <<cards, wl, pol, ac>>
  BY <1>1, <1>2, <1>3, <1>6, ACOnly
<1>7. CASE /\ "card" \in k.fins /\ ac' = [IdleAC EXCEPT !.pc = "cleanup", !.card = c]
           /\ q' = ACRest /\ UNCHANGED <<cards, wl, pol>>
  <2>1. IsRecord(ac', ACFields) /\ ac'.card = c /\ ac'.pc = "cleanup"
    BY <1>2, <1>7, ACStarts
  <2>2. ACHolds(ac')
    BY <1>7, <2>1 DEF ACHolds
  <2> QED
    BY <1>2, <1>3, <1>7, <2>1, <2>2, ACOnly
<1>8. CASE /\ k.st = "live" /\ UNCHANGED ac
           /\ WriteCard(c, [k EXCEPT !.fins = @ \cup {"card"}], ACRest)
  <2> DEFINE n == [k EXCEPT !.fins = @ \cup {"card"}]
  <2>1. CardOK(n) /\ Keep("card", k, n) /\ Keep("np", k, n)
    BY <1>4, <1>8, FinalizerAdded
  <2>2. WorkersOK' /\ ACHolds(ac')
    BY <1>1, <1>3, <1>8, ACWorkers
  <2> HIDE DEF n
  <2>3. WriteCard(c, n, ACRest)
    BY <1>8 DEF n
  <2> QED
    BY <1>2, <1>3, <2>1, <2>2, <2>3, CardWritten
<1>9. CASE k.st = "live" /\ WriteCard(c, Unfetched(c), again) /\ UNCHANGED ac
  <2> DEFINE k1 == [k EXCEPT !.synced = "false"]
             b == IF NotAgent(c) /\ k.bind # "none" THEN "false" ELSE k1.bound
             k2 == [k1 EXCEPT !.bound = b]
  <2>1. Unfetched(c) = k2
    BY DEF Unfetched, SetSynced
  <2>2. "false" \in Conditions
    BY DEF Conditions
  <2>3. SameHold(k, k1)
    BY <1>4, <1>9, <2>2, ConditionSet
  <2> HIDE DEF k1
  <2>4. b \in Conditions
    <3>1. k1 \in CardRecord
      BY <2>3 DEF SameHold, CardOK
    <3>2. k1.bound \in Conditions
      BY <3>1, SMT DEF CardRecord
    <3> QED
      BY <2>2, <3>2
  <2> HIDE DEF b
  <2>5. SameHold(k1, k2)
    BY <1>9, <2>3, <2>4, ConditionSet DEF SameHold
  <2>6. SameHold(k, k2)
    BY <2>3, <2>5 DEF SameHold
  <2> HIDE DEF k2
  <2> QED
    BY <1>1, <1>2, <1>3, <1>9, <2>1, <2>6, StatusWritten
<1>10. CASE /\ "card" \in k.fins /\ ~NotFetchable(c)
            /\ ac' = [IdleAC EXCEPT !.pc = "fetch", !.card = c]
            /\ q' = ACRest /\ UNCHANGED <<cards, wl, pol>>
  <2>1. IsRecord(ac', ACFields) /\ ac'.card = c /\ ac'.pc = "fetch"
    BY <1>2, <1>10, ACStarts
  <2>2. ACHolds(ac')
    BY <1>10, <2>1 DEF ACHolds, NotFetchable, NotAgent
  <2> QED
    BY <1>2, <1>3, <1>10, <2>1, <2>2, ACOnly
<1> QED
  BY <1>5, <1>6, <1>7, <1>8, <1>9, <1>10

\* The worker goes on with the same card.
LEMMA ACGoesOn ==
  ASSUME CardInv, ac.pc \in {"fetch", "trust", "status", "label"},
         ac'.pc \in {"fetch", "trust", "status", "label"}, ac'.card = ac.card
  PROVE  ACHolds(ac')
BY DEF CardInv, ACHolds

\* A fetch.
LEMMA FetchStep ==
  ASSUME CardInv, FetchCardData
  PROVE  CardInv' /\ Quiet
<1> DEFINE c == ac.card
           k == cards[c]
<1>1. ac.pc = "fetch" /\ UNCHANGED <<mode, np, sy, adm, leaked>>
  BY DEF FetchCardData
<1>2. c \in Cards /\ CardOK(k) /\ k.st # "absent" /\ IsRecord(ac, ACFields)
  BY <1>1, HeldExists
<1>3. QueuesOK(q) /\ QueuesOK(ACAgain(c)) /\ ACAgain(c).np = q.np
  BY <1>2, Requeued DEF CardInv
<1>4. "false" \in Conditions /\ "none" \in Conditions
  BY DEF Conditions
<1>5. CASE Fetched.kind # "doc"
  <2> DEFINE k1 == [k EXCEPT !.synced = "false"]
             k2 == [k1 EXCEPT !.ready = "false"]
             v == IF AuthenticatedFetch THEN "false" ELSE k2.verified
             k3 == [k2 EXCEPT !.verified = v]
             n == [SetSynced(k, "false") EXCEPT !.ready = "false",
                     !.verified = IF AuthenticatedFetch THEN "false" ELSE @]
  <2>1. WriteCard(c, n, ACAgain(c)) /\ ac' = IdleAC
    BY <1>5 DEF FetchCardData
  <2>2. n = k3
    BY DEF SetSynced
  <2>3. SameHold(k, k1)
    BY <1>2, <1>4, ConditionSet
  <2> HIDE DEF k1, n
  <2>4. SameHold(k1, k2)
    BY <1>2, <1>4, <2>3, ConditionSet DEF SameHold
  <2> HIDE DEF k2
  <2>5. v \in Conditions
    <3>1. k2 \in CardRecord
      BY <2>4 DEF SameHold, CardOK
    <3>2. k2.verified \in Conditions
      BY <3>1, SMT DEF CardRecord
    <3> QED
      BY <1>4, <3>2
  <2> HIDE DEF v
  <2>6. SameHold(k2, k3)
    BY <1>2, <2>3, <2>4, <2>5, ConditionSet DEF SameHold
  <2>7. SameHold(k, n)
    BY <2>2, <2>3, <2>4, <2>6 DEF SameHold
  <2>8. IsRecord(ac', ACFields) /\ ac'.card \in Cards /\ ACHolds(ac')
    BY <1>2, <2>1, ACStarts
  <2> QED
    BY <1>1, <1>2, <1>3, <2>1, <2>7, <2>8, StatusWritten
<1>6. CASE Fetched.kind = "doc"
  <2>1. ac' = [ac EXCEPT !.pc = "trust", !.doc = Fetched.doc,
                         !.peer = IF AuthenticatedFetch THEN src.peer ELSE NoID]
    BY <1>6 DEF FetchCardData
  <2>2. IsRecord(ac', ACFields) /\ ac'.pc = "trust" /\ ac'.card = c
    BY <1>2, <2>1 DEF IsRecord, ACFields
  <2>3. ACHolds(ac')
    BY <1>1, <2>2, ACGoesOn
  <2>4. CASE WriteCard(c, IF mode.mtls THEN k ELSE VerifiedCleared(k), q)
    <3> DEFINE n == IF mode.mtls THEN k ELSE VerifiedCleared(k)
    <3>1. SameHold(k, k) /\ SameHold(k, VerifiedCleared(k))
      BY <1>2, <1>4, ConditionSet DEF SameHold, VerifiedCleared
    <3>2. SameHold(k, n)
      BY <3>1
    <3> HIDE DEF n
    <3>3. WriteCard(c, n, q)
      BY <2>4 DEF n
    <3> QED
      BY <1>1, <1>2, <1>3, <2>2, <2>3, <3>2, <3>3, StatusWritten
  <2>5. CASE UNCHANGED <<cards, wl, pol, q>>
    BY <1>1, <1>2, <1>3, <2>2, <2>3, <2>5, ACOnly
  <2> QED
    BY <1>6, <2>4, <2>5 DEF FetchCardData
<1> QED
  BY <1>5, <1>6

\* The trust in a card, and a restart of the pods for a new signature.
LEMMA TrustStep ==
  ASSUME CardInv, EvaluateTrust
  PROVE  CardInv' /\ Quiet
<1> DEFINE bundle == IF mode.sig THEN RefreshedBundle ELSE tb.loaded
           vr == SignatureResult(bundle)
           new == IF vr.verified /\ HasTemplate /\ wl.st # "absent"
                  THEN Resigned(vr.notAfter, bundle) ELSE wl
<1>1. ac.pc = "trust" /\ UNCHANGED <<mode, np, sy, adm, leaked>>
  BY DEF EvaluateTrust
<1>2. ac.card \in Cards /\ IsRecord(ac, ACFields) /\ QueuesOK(q) /\ WorkloadOK(wl)
  BY <1>1, HeldExists DEF CardInv
<1>3. ac' = [ac EXCEPT !.pc = "status", !.sig = vr.verified,
                       !.id = IF ac.peer # NoID THEN ac.peer ELSE vr.id]
  BY DEF EvaluateTrust
<1>4. IsRecord(ac', ACFields) /\ ac'.pc = "status" /\ ac'.card = ac.card
  BY <1>2, <1>3 DEF IsRecord, ACFields
<1>5. ACHolds(ac')
  BY <1>1, <1>4, ACGoesOn
<1>6. ASSUME NEW e, NEW b PROVE WorkloadOK(Resigned(e, b)) /\ Resigned(e, b).annos = wl.annos
  <2> DEFINE r == Resigned(e, b)
             u == "rotation" \in mode.env
  <2>1. \/ r = wl \/ r = [wl EXCEPT !.hash = b]
        \/ r = [wl EXCEPT !.trig = "recent", !.leaf = e, !.hash = b, !.roll = u]
    BY DEF Resigned
  <2> HIDE DEF r, u
  <2>2. CASE r = wl \/ r = [wl EXCEPT !.hash = b]
    BY <1>2, <2>2, WorkloadUpdates DEF r
  <2>3. CASE r = [wl EXCEPT !.trig = "recent", !.leaf = e, !.hash = b, !.roll = u]
    <3>1. IsRecord(wl, WorkloadFields)
      BY <1>2 DEF WorkloadOK
    <3>2. IsRecord(r, WorkloadFields)
      BY <2>3, <3>1 DEF IsRecord
    <3>3. r.st = wl.st /\ r.annos = wl.annos /\ r.label = wl.label
      BY <2>3, <3>1 DEF IsRecord, WorkloadFields
    <3> QED
      BY <1>2, <3>2, <3>3 DEF WorkloadOK, r
  <2> QED
    BY <2>1, <2>2, <2>3
<1>7. WorkloadOK(new) /\ new.annos = wl.annos
  BY <1>2, <1>6
<1>8. WorkersOK'
  BY <1>1, <1>2, <1>4, ACWorkers
<1>9. \/ WriteWorkload(new, new.hash # wl.hash, q)
      \/ UNCHANGED <<cards, wl, pol, q>>
  BY DEF EvaluateTrust
<1> HIDE DEF new
<1>10. CASE WriteWorkload(new, new.hash # wl.hash, q)
  BY <1>1, <1>2, <1>5, <1>7, <1>8, <1>10, WorkloadWritten
<1>11. CASE UNCHANGED <<cards, wl, pol, q>>
  BY <1>1, <1>2, <1>4, <1>5, <1>11, ACOnly
<1> QED
  BY <1>9, <1>10, <1>11

\* The status of a card.
LEMMA StatusStep ==
  ASSUME CardInv, UpdateAgentCardStatus
  PROVE  CardInv' /\ Quiet
<1> DEFINE c == ac.card
           k == cards[c]
<1>1. ac.pc = "status" /\ UNCHANGED <<mode, np, sy, adm, leaked>>
  BY DEF UpdateAgentCardStatus
<1>2. c \in Cards /\ CardOK(k) /\ k.st # "absent" /\ IsRecord(ac, ACFields)
  BY <1>1, HeldExists
<1>3. QueuesOK(q) /\ QueuesOK(ACAgain(c)) /\ ACAgain(c).np = q.np
  BY <1>2, Requeued DEF CardInv
<1>4. CASE WriteCard(c, StatusOf(k), q) /\ ac' = [ac EXCEPT !.pc = "label"]
  <2> DEFINE rejected == \/ mode.sig /\ ~ac.sig /\ ~mode.audit /\ ~MTLSVerified
                         \/ SigstoreFailed /\ ~mode.storeAudit
             s == Truth(~rejected)
             v == IF MTLSVerified \/ mode.sig \/ mode.mtls THEN Truth(IsVerified)
                  ELSE k.verified
             r == Truth(~rejected /\ v \in {"none", "true"})
             b == BoundStatus(k)
  <2>1. StatusOf(k) = [k EXCEPT !.synced = s, !.verified = v, !.ready = r, !.bound = b]
    BY DEF StatusOf
  <2>2. k.verified \in Conditions /\ k.bound \in Conditions
    <3>1. k \in CardRecord
      BY <1>2 DEF CardOK
    <3> QED
      BY <3>1, SMT DEF CardRecord
  <2>3. s \in Conditions /\ r \in Conditions
    BY DEF Truth, Conditions
  <2>4. v \in Conditions
    BY <2>2 DEF Truth, Conditions
  <2>5. b \in Conditions
    BY <2>2 DEF BoundStatus, Truth, Conditions
  <2> HIDE DEF s, v, r, b
  <2>6. SameHold(k, StatusOf(k))
    <3> DEFINE k1 == [k EXCEPT !.synced = s]
               k2 == [k1 EXCEPT !.verified = v]
               k3 == [k2 EXCEPT !.ready = r]
               k4 == [k3 EXCEPT !.bound = b]
    <3>1. StatusOf(k) = k4
      BY <2>1
    <3>2. SameHold(k, k1)
      BY <1>2, <2>3, ConditionSet
    <3> HIDE DEF k1
    <3>3. SameHold(k1, k2)
      BY <1>2, <2>4, <3>2, ConditionSet DEF SameHold
    <3> HIDE DEF k2
    <3>4. SameHold(k2, k3)
      BY <1>2, <2>3, <3>2, <3>3, ConditionSet DEF SameHold
    <3> HIDE DEF k3
    <3>5. SameHold(k3, k4)
      BY <1>2, <2>5, <3>2, <3>3, <3>4, ConditionSet DEF SameHold
    <3> QED
      BY <3>1, <3>2, <3>3, <3>4, <3>5 DEF SameHold
  <2>7. IsRecord(ac', ACFields) /\ ac'.pc = "label" /\ ac'.card = c
    BY <1>2, <1>4 DEF IsRecord, ACFields
  <2>8. ACHolds(ac')
    BY <1>1, <2>7, ACGoesOn
  <2> QED
    BY <1>1, <1>2, <1>3, <1>4, <2>6, <2>7, <2>8, StatusWritten
<1>5. CASE ac' = IdleAC /\ q' = ACAgain(c) /\ UNCHANGED <<cards, wl, pol>>
  <2>1. IsRecord(ac', ACFields) /\ ac'.card \in Cards /\ ACHolds(ac')
    BY <1>2, <1>5, ACStarts
  <2> QED
    BY <1>1, <1>3, <1>5, <2>1, ACOnly
<1> QED
  BY <1>4, <1>5 DEF UpdateAgentCardStatus

\* The label.
LEMMA LabelStep ==
  ASSUME CardInv, PropagateLabel
  PROVE  CardInv' /\ Quiet
<1> DEFINE c == ac.card
           v == Truth(IsVerified)
<1>1. ac.pc = "label" /\ ac' = IdleAC /\ UNCHANGED <<mode, np, sy, adm, leaked>>
  BY DEF PropagateLabel
<1>2. c \in Cards /\ "card" \in cards[c].fins /\ cards[c].target = "here"
  BY <1>1, HeldExists DEF CardInv, ACHolds
<1>3. QueuesOK(ACAgain(c)) /\ ACAgain(c).np = q.np /\ WorkloadOK(wl)
  BY <1>2, Requeued DEF CardInv
<1>4. IsRecord(ac', ACFields) /\ ac'.card \in Cards /\ ACHolds(ac')
  BY <1>1, <1>2, ACStarts
<1>5. CASE HasTemplate /\ WriteWorkload(Annotated(c, v), wl.annos[c] # v, ACAgain(c))
  <2>1. v \in Conditions
    BY DEF Truth, Conditions
  <2>2. /\ WorkloadOK(Annotated(c, v))
        /\ \A d \in Cards \ {c} : Annotated(c, v).annos[d] = wl.annos[d]
    BY <1>2, <1>3, <2>1, AnnotatedFacts
  <2>3. CardsOK
    BY DEF CardInv
  <2>4. /\ CardsOK' /\ QueuesOK(q') /\ Heard /\ Range(q.np) \subseteq Range(q'.np)
        /\ wl' = Annotated(c, v) /\ cards' = cards
    BY <1>3, <1>5, <2>3, WriteWorkloadFacts
  <2>5. ACHolds(ac)'
    BY <1>1 DEF ACHolds, IdleAC
  <2>6. NPHolds(np)'
    BY <1>1, <2>4 DEF CardInv, NPHolds
  <2>7. AnnotationsHeld'
    <3> SUFFICES ASSUME NEW d \in Cards
                 PROVE  /\ wl'.annos[d] # "none" => HasTemplate'
                        /\ "card" \notin cards'[d].fins \/ cards'[d].target # "here" => Cleaned(d)'
      BY DEF AnnotationsHeld
    <3>1. HasTemplate'
      BY <1>1, <1>5 DEF HasTemplate
    <3>2. CASE d = c
      BY <1>2, <2>4, <3>1, <3>2
    <3>3. CASE d # c
      <4>1. "card" \notin cards[d].fins \/ cards[d].target # "here" => Cleaned(d)
        BY DEF CardInv, AnnotationsHeld
      <4>2. wl'.annos[d] = wl.annos[d]
        BY <2>2, <2>4, <3>3
      <4> QED
        BY <1>1, <2>4, <3>1, <4>1, <4>2 DEF Cleaned
    <3> QED
      BY <3>2, <3>3
  <2>8. WorkloadOK(wl)' /\ QueuesOK(q)'
    BY <2>2, <2>4 DEF WorkloadOK, Aggregate, QueuesOK
  <2>9. WorkersOK'
    BY <1>1, <1>4, ACWorkers
  <2> QED
    BY <1>1, <2>4, <2>5, <2>6, <2>7, <2>8, <2>9 DEF CardInv, Quiet
<1>6. CASE q' = ACAgain(c) /\ UNCHANGED <<cards, wl, pol>>
  BY <1>1, <1>3, <1>4, <1>6, ACOnly
<1> QED
  BY <1>5, <1>6 DEF PropagateLabel

\* The annotation of a deleted card is taken away, or left by a failed write.
LEMMA CleanupStep ==
  ASSUME CardInv, CleanupAnnotation
  PROVE  CardInv' /\ Quiet
<1> DEFINE c == ac.card
           has == HasTemplate /\ cards[c].target = "here" /\ wl.annos[c] # "none"
           w == IF has THEN Annotated(c, "none") ELSE wl
<1>1. /\ ac.pc = "cleanup" /\ ac' = [ac EXCEPT !.pc = "finalize"]
      /\ UNCHANGED <<mode, np, sy, adm>>
  BY DEF CleanupAnnotation
<1>2. c \in Cards /\ "card" \in cards[c].fins /\ IsRecord(ac, ACFields)
  BY <1>1, HeldExists
<1>3. QueuesOK(q) /\ WorkloadOK(wl) /\ CardsOK
  BY DEF CardInv
<1>4. IsRecord(ac', ACFields) /\ ac'.card = c /\ ac'.pc = "finalize"
  BY <1>1, <1>2 DEF IsRecord, ACFields
<1>5. WorkersOK'
  BY <1>1, <1>2, <1>4, ACWorkers
<1>6. /\ wl.annos[c] # "none" => HasTemplate
      /\ cards[c].target # "here" => Cleaned(c)
  BY <1>2 DEF CardInv, AnnotationsHeld
<1>7. /\ CardsOK' /\ QueuesOK(q') /\ Heard /\ Range(q.np) \subseteq Range(q'.np)
      /\ cards' = cards /\ WorkloadOK(wl') /\ (wl'.annos[c] = "none" \/ c \in leaked')
      /\ \A d \in Cards \ {c} : wl'.annos[d] = wl.annos[d] /\ (d \in leaked => d \in leaked')
      /\ \A d \in Cards : wl'.annos[d] # "none" => wl.annos[d] # "none"
  <2>1. CASE /\ WriteWorkload(w, TRUE, q)
             /\ leaked' = IF wl'.annos[c] = "none" THEN leaked \ {c} ELSE leaked
    <3>1. "none" \in Conditions
      BY DEF Conditions
    <3>2. /\ WorkloadOK(Annotated(c, "none")) /\ Annotated(c, "none").annos[c] = "none"
          /\ \A d \in Cards \ {c} : Annotated(c, "none").annos[d] = wl.annos[d]
      BY <1>2, <1>3, <3>1, AnnotatedFacts
    <3>3. WorkloadOK(w) /\ \A d \in Cards \ {c} : w.annos[d] = wl.annos[d]
      BY <1>3, <3>2
    <3>4. w.annos[c] = "none" \/ (~has /\ w = wl)
      BY <3>2
    <3> HIDE DEF w
    <3>5. /\ CardsOK' /\ QueuesOK(q') /\ Heard /\ Range(q.np) \subseteq Range(q'.np)
          /\ cards' = cards /\ wl' = w
      BY <1>3, <2>1, WriteWorkloadFacts
    <3>6. wl'.annos[c] = "none" \/ c \in leaked'
      BY <1>6, <2>1, <3>4, <3>5 DEF Cleaned
    <3>7. \A d \in Cards \ {c} : wl'.annos[d] = wl.annos[d] /\ (d \in leaked => d \in leaked')
      BY <2>1, <3>3, <3>5
    <3>8. ASSUME NEW d \in Cards, wl'.annos[d] # "none" PROVE wl.annos[d] # "none"
      BY <3>4, <3>5, <3>7, <3>8
    <3> QED
      BY <3>3, <3>5, <3>6, <3>7, <3>8
  <2>2. CASE leaked' = leaked \cup {c} /\ UNCHANGED <<cards, wl, pol, q>>
    <3>1. CardsOK' /\ Heard
      BY <1>3, <2>2 DEF CardsOK, CardOK, Heard
    <3> QED
      BY <1>3, <2>2, <3>1 DEF Cleaned
  <2> QED
    BY <2>1, <2>2 DEF CleanupAnnotation
<1>8. ACHolds(ac)'
  BY <1>2, <1>4, <1>7 DEF ACHolds, Cleaned
<1>9. NPHolds(np)'
  BY <1>1, <1>7 DEF CardInv, NPHolds
<1>10. AnnotationsHeld'
  <2> SUFFICES ASSUME NEW d \in Cards
               PROVE  /\ wl'.annos[d] # "none" => HasTemplate'
                      /\ "card" \notin cards'[d].fins \/ cards'[d].target # "here" => Cleaned(d)'
    BY DEF AnnotationsHeld
  <2>1. /\ wl.annos[d] # "none" => HasTemplate
        /\ "card" \notin cards[d].fins \/ cards[d].target # "here" => Cleaned(d)
    BY DEF CardInv, AnnotationsHeld
  <2>2. HasTemplate' <=> HasTemplate
    BY <1>1 DEF HasTemplate
  <2>3. wl'.annos[d] # "none" => HasTemplate'
    BY <1>7, <2>1, <2>2
  <2>4. CASE d = c
    BY <1>7, <2>3, <2>4 DEF Cleaned
  <2>5. CASE d # c
    BY <1>7, <2>1, <2>3, <2>5 DEF Cleaned
  <2> QED
    BY <2>4, <2>5
<1>11. WorkloadOK(wl)' /\ QueuesOK(q)'
  BY <1>7 DEF WorkloadOK, Aggregate, QueuesOK
<1> QED
  BY <1>1, <1>5, <1>7, <1>8, <1>9, <1>10, <1>11 DEF CardInv, Quiet

\* The finalizer of the AgentCard controller goes.
LEMMA FinalizeStep ==
  ASSUME CardInv, RemoveCardFinalizer
  PROVE  CardInv' /\ Quiet
<1> DEFINE c == ac.card
           k == cards[c]
           n == Released(k, "card")
<1>1. ac.pc = "finalize" /\ ac' = IdleAC /\ UNCHANGED <<mode, np, sy, adm, leaked>>
  BY DEF RemoveCardFinalizer
<1>2. c \in Cards /\ CardOK(k) /\ Cleaned(c)
  BY <1>1, HeldExists DEF CardInv, ACHolds
<1>3. QueuesOK(q) /\ QueuesOK(ACAgain(c)) /\ ACAgain(c).np = q.np
  BY <1>2, Requeued DEF CardInv
<1>4. IsRecord(ac', ACFields) /\ ac'.card \in Cards /\ ACHolds(ac')
  BY <1>1, <1>2, ACStarts
<1>5. CASE WriteCard(c, n, q)
  <2>1. CardOK(n) /\ Keep("np", k, n)
    BY <1>2, ReleasedFacts
  <2>2. CardsOK /\ NPHolds(np) /\ np.card \in Cards
    BY DEF CardInv, WorkersOK
  <2>3. /\ CardsOK' /\ QueuesOK(q') /\ Heard /\ Range(q.np) \subseteq Range(q'.np)
        /\ wl' = wl /\ cards'[c] = n /\ \A d \in Cards \ {c} : cards'[d] = cards[d]
    BY <1>2, <1>3, <1>5, <2>1, <2>2, WriteCardFacts
  <2>4. ACHolds(ac)'
    BY <1>1 DEF ACHolds, IdleAC
  <2>5. NPHolds(np)'
    BY <1>1, <2>1, <2>2, <2>3 DEF NPHolds, Keep
  <2>6. AnnotationsHeld'
    <3> SUFFICES ASSUME NEW d \in Cards
                 PROVE  /\ wl'.annos[d] # "none" => HasTemplate'
                        /\ "card" \notin cards'[d].fins \/ cards'[d].target # "here" => Cleaned(d)'
      BY DEF AnnotationsHeld
    <3>1. /\ wl.annos[d] # "none" => HasTemplate
          /\ "card" \notin cards[d].fins \/ cards[d].target # "here" => Cleaned(d)
      BY DEF CardInv, AnnotationsHeld
    <3>2. (HasTemplate' <=> HasTemplate) /\ (Cleaned(d)' <=> Cleaned(d))
      BY <1>1, <2>3 DEF HasTemplate, Cleaned
    <3>3. CASE d = c
      BY <1>2, <2>3, <3>1, <3>2, <3>3
    <3>4. CASE d # c
      BY <2>3, <3>1, <3>2, <3>4
    <3> QED
      BY <3>3, <3>4
  <2>7. WorkloadOK(wl)' /\ QueuesOK(q)'
    BY <2>3 DEF CardInv, WorkloadOK, Aggregate, QueuesOK
  <2>8. WorkersOK'
    BY <1>1, <1>4, ACWorkers
  <2> QED
    BY <1>1, <2>3, <2>4, <2>5, <2>6, <2>7, <2>8 DEF CardInv, Quiet
<1>6. CASE q' = ACAgain(c) /\ UNCHANGED <<cards, wl, pol>>
  BY <1>1, <1>3, <1>4, <1>6, ACOnly
<1> QED
  BY <1>5, <1>6 DEF RemoveCardFinalizer

\* The steps of the AgentCard controller.
LEMMA CardSteps ==
  ASSUME CardInv, CardStep
  PROVE  CardInv' /\ Quiet
BY ReconcileCardStep, FetchStep, TrustStep, StatusStep, LabelStep, CleanupStep, FinalizeStep
   DEF CardStep

-----------------------------------------------------------------------------
(* The NetworkPolicy controller.                                           *)

\* A step that hears of changes, and forgets a card only when it is handled or no longer
\* due.
Attentive ==
  /\ mode' = mode /\ Heard
  /\ \A c \in Range(q.np) : c \in Cards /\ Due(c)' => Handled(c)'
  /\ \A c \in Cards : Planned(c) => np' = np \/ Handled(c)'

\* Everyone else's steps are such steps, ...
LEMMA QuietAttentive ==
  ASSUME Quiet
  PROVE  Attentive
BY DEF Quiet, Attentive, Handled

\* ... which leave no card of an agent without its policy unheeded.
LEMMA PolicyKept ==
  ASSUME PolicyInv, Attentive
  PROVE  PolicyInv'
<1> SUFFICES ASSUME NEW c \in Cards, Due(c)', c \notin Range(q'.np) PROVE Handled(c)'
  BY DEF PolicyInv, Handled
<1>1. mode' = mode /\ Heard /\ mode.enforce /\ wl'.st = "agent" /\ cards'[c].target = "here"
  BY DEF Attentive, Due
<1>2. cards'[c] = cards[c] /\ wl'.st = wl.st /\ wl'.label = wl.label
  BY <1>1 DEF Heard
<1>3. pol' = pol \/ pol.owner # c
  BY <1>1 DEF Heard
<1>4. Due(c)
  BY <1>1, <1>2 DEF Due
<1>5. PolicyFor(c)' = PolicyFor(c)
  BY <1>1, <1>2 DEF PolicyFor, HasTemplate
<1>6. PolicyFor(c).owner = c
  BY DEF PolicyFor, PolicyOf, PermissivePolicy, RestrictivePolicy
<1>7. CASE c \in Range(q.np)
  BY <1>7 DEF Attentive
<1>8. CASE Planned(c)
  <2>1. CASE np' = np
    BY <1>5, <1>8, <2>1 DEF Planned, Handled
  <2> QED
    BY <1>8, <2>1 DEF Attentive
<1>9. CASE pol = PolicyFor(c)
  BY <1>3, <1>5, <1>6, <1>9 DEF Handled
<1> QED
  BY <1>4, <1>7, <1>8, <1>9 DEF PolicyInv, Handled

\* What the NetworkPolicy controller must keep: the other finalizer of the cards, and a
\* hold on the card it goes on with.
LEMMA NPWorks ==
  ASSUME CardInv, UNCHANGED <<mode, ac, sy, adm, leaked>>, wl' = wl, CardsOK', QueuesOK(q'),
         \A c \in Cards : Keep("card", cards[c], cards'[c]),
         \A c \in Cards : Keep("np", cards[c], cards'[c]) \/ np'.pc = "idle",
         IsRecord(np', NPFields), np'.card \in Cards, NPHolds(np')
  PROVE  CardInv'
<1>1. WorkersOK'
  BY DEF CardInv, WorkersOK
<1>2. ACHolds(ac') /\ ac'.card \in Cards
  BY DEF CardInv, ACHolds, WorkersOK
<1>3. ACHolds(ac)' /\ NPHolds(np)' /\ AnnotationsHeld'
  BY <1>2, HoldsKept
<1>4. WorkloadOK(wl)' /\ QueuesOK(q)'
  BY DEF CardInv, WorkloadOK, Aggregate, QueuesOK
<1> QED
  BY <1>1, <1>3, <1>4 DEF CardInv

\* The records of the worker.
LEMMA NPStarts ==
  ASSUME NEW c \in Cards, NEW p, NEW v, NEW s
  PROVE  /\ IsRecord(IdleNP, NPFields) /\ IdleNP.card \in Cards /\ IdleNP.pc = "idle"
         /\ NPHolds(IdleNP)
         /\ LET n == [IdleNP EXCEPT !.pc = p, !.card = c]
            IN  IsRecord(n, NPFields) /\ n.card = c /\ n.pc = p
         /\ LET n == [pc |-> p, card |-> c, verified |-> v, sel |-> s]
            IN  IsRecord(n, NPFields) /\ n.card = c /\ n.pc = p /\ n.verified = v /\ n.sel = s
<1>1. IdleNP.card \in Cards /\ IdleNP.pc = "idle"
  BY CardsAssumption DEF IdleNP
<1> QED
  BY <1>1 DEF IdleNP, IsRecord, NPFields, NPHolds

\* A step of the controller that writes nothing and forgets at most the card of the
\* worker, or the card at the head of the queue.
LEMMA NPOnly ==
  ASSUME CardInv, UNCHANGED <<mode, cards, wl, pol, ac, sy, adm, leaked>>, QueuesOK(q'),
         IsRecord(np', NPFields), np'.card \in Cards, NPHolds(np')
  PROVE  CardInv' /\ Heard
<1>1. \A d \in Cards : Keep("card", cards[d], cards'[d]) /\ Keep("np", cards[d], cards'[d])
  BY DEF Keep
<1>2. CardsOK'
  BY DEF CardInv, CardsOK, CardOK
<1>3. CardInv'
  BY <1>1, <1>2, NPWorks
<1> QED
  BY <1>3 DEF Heard

\* Reconcile up to the policy: a card is dropped only if it has no policy of its own to
\* write, and what is read of it and of the agent is what the policy must be made of.
LEMMA ReconcilePolicyStep ==
  ASSUME CardInv, ReconcilePolicy
  PROVE  CardInv' /\ Attentive
<1>1. /\ mode.enforce /\ np.pc = "idle" /\ q.np # <<>> /\ QueuesOK(q) /\ CardsOK
      /\ UNCHANGED <<mode, ac, sy, adm, leaked>>
  BY DEF ReconcilePolicy, CardInv
<1>2. PICK c \in Cards : c = Head(q.np)
  BY <1>1, TakenNP
<1>3. /\ QueuesOK(NPRest) /\ Range(NPRest.np) = Range(q.np) \ {c}
      /\ QueuesOK([q EXCEPT !.np = Append(Tail(@), c)])
      /\ Range([q EXCEPT !.np = Append(Tail(@), c)].np) = Range(q.np)
  BY <1>1, <1>2, TakenNP
<1>4. \A d \in Cards : ~Planned(d)
  BY <1>1 DEF Planned
<1>5. IsRecord(np, NPFields) /\ np.card \in Cards /\ NPHolds(np)
  BY DEF CardInv, WorkersOK
<1>6. CASE /\ \/ ~Exists(c)
              \/ cards[c].st = "deleting" /\ "np" \notin cards[c].fins
              \/ cards[c].st = "live" /\ "np" \in cards[c].fins /\ Unresolved(c)
           /\ q' = NPRest
           /\ UNCHANGED <<cards, wl, pol, np>>
  <2>1. CardInv' /\ Heard
    <3>1. IsRecord(np', NPFields) /\ np'.card \in Cards /\ NPHolds(np')
      BY <1>5, <1>6 DEF NPHolds
    <3>2. QueuesOK(q')
      BY <1>3, <1>6
    <3> QED
      BY <1>1, <1>6, <3>1, <3>2, NPOnly
  <2>2. ~Due(c)'
    BY <1>6 DEF Due, Exists, Unresolved
  <2>3. \A d \in Range(q.np) : d \in Cards /\ Due(d)' => Handled(d)'
    BY <1>3, <1>6, <2>2 DEF Handled
  <2> QED
    BY <1>1, <1>4, <2>1, <2>3 DEF Attentive
<1>7. CASE /\ cards[c].st = "live" /\ "np" \notin cards[c].fins
           /\ WriteCard(c, [cards[c] EXCEPT !.fins = @ \cup {"np"}], NPRest)
           /\ UNCHANGED np
  <2> DEFINE n == [cards[c] EXCEPT !.fins = @ \cup {"np"}]
  <2>1. CardOK(cards[c]) /\ cards[c].st # "absent"
    BY <1>1, <1>7 DEF CardsOK
  <2>2. CardOK(n) /\ Keep("card", cards[c], n) /\ Keep("np", cards[c], n)
    BY <2>1, FinalizerAdded
  <2>3. "np" \notin cards[c].fins => n # cards[c]
    <3>1. n.fins = cards[c].fins \cup {"np"}
      BY <2>1 DEF CardOK, CardRecord
    <3> QED
      BY <3>1
  <2> HIDE DEF n
  <2>4. WriteCard(c, n, NPRest)
    BY <1>7 DEF n
  <2>5. /\ CardsOK' /\ QueuesOK(q') /\ Heard /\ Range(NPRest.np) \subseteq Range(q'.np)
        /\ wl' = wl /\ pol' = pol /\ cards'[c] = n /\ \A d \in Cards \ {c} : cards'[d] = cards[d]
    BY <1>1, <1>3, <2>2, <2>4, WriteCardFacts
  <2>6. \A d \in Cards : Keep("card", cards[d], cards'[d]) /\ Keep("np", cards[d], cards'[d])
    <3> TAKE d \in Cards
    <3>1. CASE d = c
      BY <2>2, <2>5, <3>1
    <3>2. CASE d # c
      BY <2>5, <3>2 DEF Keep
    <3> QED
      BY <3>1, <3>2
  <2>7. IsRecord(np', NPFields) /\ np'.card \in Cards /\ NPHolds(np')
    BY <1>5, <1>7 DEF NPHolds
  <2>8. CardInv'
    BY <1>1, <2>5, <2>6, <2>7, NPWorks
  <2>9. c \in Range(q'.np)
    BY <1>1, <1>7, <2>3, <2>5 DEF Heard
  <2>10. \A d \in Range(q.np) : d \in Range(q'.np)
    BY <1>3, <2>5, <2>9
  <2> QED
    BY <1>1, <1>4, <2>5, <2>8, <2>10 DEF Attentive, Handled
<1>8. CASE q' = [q EXCEPT !.np = Append(Tail(@), c)] /\ UNCHANGED <<cards, wl, pol, np>>
  <2>1. IsRecord(np', NPFields) /\ np'.card \in Cards /\ NPHolds(np')
    BY <1>5, <1>8 DEF NPHolds
  <2>2. QueuesOK(q') /\ Range(q'.np) = Range(q.np)
    BY <1>3, <1>8
  <2>3. CardInv' /\ Heard
    BY <1>1, <1>8, <2>1, <2>2, NPOnly
  <2> QED
    BY <1>1, <1>4, <2>2, <2>3 DEF Attentive, Handled
<1>9. CASE /\ "np" \in cards[c].fins
           /\ np' = [pc |-> "write", card |-> c, verified |-> cards[c].verified = "true",
                     sel |-> HasTemplate /\ wl.label]
           /\ q' = NPRest
           /\ UNCHANGED <<cards, wl, pol>>
  <2>1. /\ IsRecord(np', NPFields) /\ np'.card = c /\ np'.pc = "write"
        /\ np'.verified = (cards[c].verified = "true") /\ np'.sel = (HasTemplate /\ wl.label)
    BY <1>9 DEF IsRecord, NPFields
  <2>2. NPHolds(np') /\ QueuesOK(q')
    BY <1>3, <1>9, <2>1 DEF NPHolds
  <2>3. CardInv' /\ Heard
    BY <1>1, <1>9, <2>1, <2>2, NPOnly
  <2>4. Planned(c)'
    BY <1>1, <1>9, <2>1 DEF Planned, PolicyFor, HasTemplate
  <2>5. \A d \in Range(q.np) : Handled(d)'
    BY <1>3, <1>9, <2>4 DEF Handled
  <2> QED
    BY <1>1, <1>4, <2>3, <2>5 DEF Attentive
<1>10. CASE /\ cards[c].st = "deleting" /\ "np" \in cards[c].fins
            /\ np' = [IdleNP EXCEPT !.pc = "remove", !.card = c]
            /\ q' = NPRest
            /\ UNCHANGED <<cards, wl, pol>>
  <2>1. IsRecord(np', NPFields) /\ np'.card = c
    BY <1>10, NPStarts
  <2>2. NPHolds(np') /\ QueuesOK(q')
    BY <1>3, <1>10, <2>1 DEF NPHolds
  <2>3. CardInv' /\ Heard
    BY <1>1, <1>10, <2>1, <2>2, NPOnly
  <2>4. ~Due(c)'
    BY <1>10 DEF Due
  <2>5. \A d \in Range(q.np) : d \in Cards /\ Due(d)' => Handled(d)'
    BY <1>3, <1>10, <2>4 DEF Handled
  <2> QED
    BY <1>1, <1>4, <2>3, <2>5 DEF Attentive
<1> QED
  BY <1>2, <1>6, <1>7, <1>8, <1>9, <1>10 DEF ReconcilePolicy

\* The card that the controller works on.
LEMMA NPHeld ==
  ASSUME CardInv
  PROVE  np.card \in Cards /\ CardOK(cards[np.card]) /\ CardsOK /\ QueuesOK(q)
         /\ (np.pc # "idle" => "np" \in cards[np.card].fins) /\ IsRecord(np, NPFields)
BY DEF CardInv, CardsOK, WorkersOK, NPHolds

\* A failure puts the card back on the queue.
LEMMA FailPolicyStep ==
  ASSUME CardInv, FailPolicy
  PROVE  CardInv' /\ Attentive
<1>1. /\ np' = IdleNP /\ q' = NPAgain(np.card)
      /\ UNCHANGED <<mode, cards, wl, pol, ac, sy, adm, leaked>>
  BY DEF FailPolicy
<1>2. QueuesOK(q') /\ Range(q'.np) = Range(q.np) \cup {np.card}
  BY <1>1, NPHeld, Requeued
<1>3. IsRecord(np', NPFields) /\ np'.card \in Cards /\ NPHolds(np')
  BY <1>1, NPHeld, NPStarts
<1>4. CardInv' /\ Heard
  BY <1>1, <1>2, <1>3, NPOnly
<1>5. \A c \in Cards : Planned(c) => Handled(c)'
  BY <1>2 DEF Planned, Handled
<1> QED
  BY <1>1, <1>2, <1>4, <1>5 DEF Attentive, Handled

\* A policy is written: the worker goes on with its card or is done.
LEMMA PolicyWritten ==
  ASSUME CardInv, NEW p, WritePolicy(p, q), UNCHANGED <<mode, ac, sy, adm, leaked>>,
         IsRecord(np', NPFields), np'.card \in Cards, NPHolds(np')
  PROVE  /\ CardInv' /\ Heard /\ Range(q.np) \subseteq Range(q'.np)
         /\ cards' = cards /\ wl' = wl /\ pol' = p
<1>1. /\ CardsOK' /\ QueuesOK(q') /\ Heard /\ Range(q.np) \subseteq Range(q'.np)
      /\ cards' = cards /\ wl' = wl /\ pol' = p
  BY NPHeld, WritePolicyFacts
<1>2. \A d \in Cards : Keep("card", cards[d], cards'[d]) /\ Keep("np", cards[d], cards'[d])
  BY <1>1 DEF Keep
<1>3. CardInv'
  BY <1>1, <1>2, NPWorks
<1> QED
  BY <1>1, <1>3

\* The policy that was planned is written.
LEMMA ManagePolicyStep ==
  ASSUME CardInv, ManageNetworkPolicy
  PROVE  CardInv' /\ Attentive
<1>1. /\ np.pc = "write" /\ np' = IdleNP /\ UNCHANGED <<mode, ac, sy, adm, leaked>>
      /\ WritePolicy(PolicyOf(np.card, np.verified, np.sel), q)
  BY DEF ManageNetworkPolicy, PolicyOf
<1>2. IsRecord(np', NPFields) /\ np'.card \in Cards /\ NPHolds(np')
  BY <1>1, NPHeld, NPStarts
<1>3. /\ CardInv' /\ Heard /\ Range(q.np) \subseteq Range(q'.np)
      /\ cards' = cards /\ wl' = wl /\ pol' = PolicyOf(np.card, np.verified, np.sel)
  BY <1>1, <1>2, PolicyWritten
<1>4. \A c \in Cards : PolicyFor(c)' = PolicyFor(c)
  BY <1>1, <1>3 DEF PolicyFor, HasTemplate
<1>5. \A c \in Cards : Planned(c) => Handled(c)'
  BY <1>3, <1>4 DEF Planned, Handled
<1> QED
  BY <1>1, <1>3, <1>5 DEF Attentive, Handled

\* The policy of a deleted card goes.
LEMMA DeletePolicyStep ==
  ASSUME CardInv, DeleteNetworkPolicy
  PROVE  CardInv' /\ Attentive
<1> DEFINE p == IF cards[np.card].target = "here" THEN NoPolicy ELSE pol
<1>1. /\ np.pc = "remove" /\ np' = [np EXCEPT !.pc = "release"] /\ WritePolicy(p, q)
      /\ UNCHANGED <<mode, ac, sy, adm, leaked>>
  BY DEF DeleteNetworkPolicy
<1> HIDE DEF p
<1>2. IsRecord(np', NPFields) /\ np'.card = np.card
  BY <1>1, NPHeld DEF IsRecord, NPFields
<1>3. NPHolds(np') /\ np'.card \in Cards
  BY <1>1, <1>2, NPHeld DEF NPHolds
<1>4. CardInv' /\ Heard /\ Range(q.np) \subseteq Range(q'.np)
  BY <1>1, <1>2, <1>3, PolicyWritten
<1>5. \A c \in Cards : ~Planned(c)
  BY <1>1 DEF Planned
<1> QED
  BY <1>1, <1>4, <1>5 DEF Attentive, Handled

\* The finalizer of the NetworkPolicy controller goes.
LEMMA ReleasePolicyStep ==
  ASSUME CardInv, RemovePolicyFinalizer
  PROVE  CardInv' /\ Attentive
<1>0. PICK c \in Cards : c = np.card
  BY NPHeld
<1> DEFINE n == Released(cards[c], "np")
<1>1. np.pc = "release" /\ np' = IdleNP /\ UNCHANGED <<mode, ac, sy, adm, leaked>>
  BY DEF RemovePolicyFinalizer
<1>2. IsRecord(np', NPFields) /\ np'.card \in Cards /\ NPHolds(np') /\ np'.pc = "idle"
  BY <1>1, NPHeld, NPStarts
<1>3. \A d \in Cards : ~Planned(d)
  BY <1>1 DEF Planned
<1>4. CASE WriteCard(c, n, q)
  <2>1. CardOK(cards[c]) /\ CardsOK /\ QueuesOK(q)
    BY <1>0, NPHeld
  <2>2. CardOK(n) /\ Keep("card", cards[c], n)
    BY <2>1, ReleasedFacts
  <2> HIDE DEF n
  <2>3. /\ CardsOK' /\ QueuesOK(q') /\ Heard /\ Range(q.np) \subseteq Range(q'.np)
        /\ wl' = wl /\ cards'[c] = n /\ \A d \in Cards \ {c} : cards'[d] = cards[d]
    BY <1>4, <2>1, <2>2, WriteCardFacts
  <2>4. \A d \in Cards : Keep("card", cards[d], cards'[d])
    <3> TAKE d \in Cards
    <3>1. CASE d = c
      BY <2>2, <2>3, <3>1
    <3>2. CASE d # c
      BY <2>3, <3>2 DEF Keep
    <3> QED
      BY <3>1, <3>2
  <2>5. CardInv'
    BY <1>1, <1>2, <2>3, <2>4, NPWorks
  <2> QED
    BY <1>1, <1>3, <2>3, <2>5 DEF Attentive, Handled
<1>5. CASE q' = NPAgain(c) /\ UNCHANGED <<cards, wl, pol>>
  <2>1. QueuesOK(q') /\ Range(q'.np) = Range(q.np) \cup {c}
    BY <1>5, NPHeld, Requeued
  <2>2. CardInv' /\ Heard
    BY <1>1, <1>2, <1>5, <2>1, NPOnly
  <2> QED
    BY <1>1, <1>3, <2>1, <2>2 DEF Attentive, Handled
<1> QED
  BY <1>0, <1>4, <1>5 DEF RemovePolicyFinalizer

\* The steps of the NetworkPolicy controller.
LEMMA PolicySteps ==
  ASSUME CardInv, PolicyStep
  PROVE  CardInv' /\ Attentive
BY ReconcilePolicyStep, FailPolicyStep, ManagePolicyStep, DeletePolicyStep, ReleasePolicyStep
   DEF PolicyStep

-----------------------------------------------------------------------------
(* Crashes.                                                                *)

\* An empty queue.
LEMMA EmptyQueue == QueueOK(<<>>) /\ Range(<<>>) = {}
<1>1. <<>> \in Seq(Cards) /\ Len(<<>>) = 0
  BY SMT
<1>2. PICK e \in Seq(Cards) : e = <<>> /\ Len(e) = 0
  BY <1>1
<1>3. \A i \in 1..0 : FALSE
  BY SMT
<1>4. DOMAIN e = 1..Len(e) /\ Range(e) = {e[i] : i \in 1..Len(e)}
  BY RangeSeq
<1>5. DOMAIN e = 1..0 /\ Range(e) = {e[i] : i \in 1..0}
  BY <1>2, <1>4
<1>6. Range(e) = {} /\ IsInjective(e)
  BY <1>3, <1>5 DEF IsInjective
<1> QED
  BY <1>2, <1>6 DEF QueueOK

\* A crash forgets what the workers held, and the queues that the next process starts
\* with make up for it.
LEMMA CrashStep ==
  ASSUME CardInv, Crash
  PROVE  CardInv' /\ PolicyInv'
<1> DEFINE S == {c \in Cards : Exists(c)}
           all == AddAll(<<>>, S)
<1>1. /\ q' = [ac |-> all, np |-> IF mode.enforce THEN all ELSE <<>>, sync |-> wl.st = "agent"]
      /\ ac' = IdleAC /\ np' = IdleNP /\ sy' = IdleSync
      /\ UNCHANGED <<mode, cards, wl, pol, adm, leaked>>
  BY DEF Crash
<1>2. QueueOK(all) /\ Range(all) = S
  <2>1. S \in SUBSET Cards
    OBVIOUS
  <2>2. Range(all) = Range(<<>>) \cup S /\ QueueOK(all)
    BY <2>1, EmptyQueue, AddAllFacts
  <2> QED
    BY <2>2, EmptyQueue
<1> HIDE DEF all
<1>3. q'.ac = all /\ q'.np = (IF mode.enforce THEN all ELSE <<>>) /\ IsRecord(q', QueueFields)
  BY <1>1 DEF IsRecord, QueueFields
<1>4. QueuesOK(q')
  BY <1>2, <1>3, EmptyQueue DEF QueuesOK
<1>5. /\ IsRecord(ac', ACFields) /\ ac'.card \in Cards /\ ACHolds(ac')
      /\ IsRecord(np', NPFields) /\ np'.card \in Cards /\ NPHolds(np')
  BY <1>1, NPHeld, NPStarts, ACStarts
<1>6. IsRecord(sy', {"pc", "owner"}) /\ sy'.owner \in {"none", "current", "old"}
  BY <1>1 DEF IdleSync, IsRecord
<1>7. WorkersOK'
  BY <1>1, <1>5, <1>6 DEF CardInv, WorkersOK
<1>8. \A d \in Cards : Keep("card", cards[d], cards'[d]) /\ Keep("np", cards[d], cards'[d])
  BY <1>1 DEF Keep
<1>9. ACHolds(ac)' /\ NPHolds(np)' /\ AnnotationsHeld'
  BY <1>1, <1>5, <1>8, HoldsKept
<1>10. CardsOK' /\ WorkloadOK(wl)' /\ QueuesOK(q)'
  BY <1>1, <1>4 DEF CardInv, CardsOK, CardOK, WorkloadOK, Aggregate, QueuesOK
<1>11. PolicyInv'
  <2> SUFFICES ASSUME NEW c \in Cards, Due(c)' PROVE c \in Range(q'.np)
    BY DEF PolicyInv, Handled
  <2>1. mode.enforce /\ c \in S
    BY <1>1 DEF Due, Exists
  <2> QED
    BY <1>2, <1>3, <2>1
<1> QED
  BY <1>7, <1>9, <1>10, <1>11 DEF CardInv

-----------------------------------------------------------------------------
(* The theorems.                                                           *)

\* The first state.
LEMMA CardInit ==
  ASSUME ACInit
  PROVE  CardInv /\ PolicyInv
<1>1. /\ mode \in Modes /\ cards = [c \in Cards |-> NoCard] /\ wl = NewWorkload
      /\ q = [ac |-> <<>>, np |-> <<>>, sync |-> TRUE]
      /\ ac = IdleAC /\ np = IdleNP /\ sy = IdleSync /\ adm = <<>>
  BY DEF ACInit
<1>2. \A c \in Cards : cards[c] = NoCard
  BY <1>1
<1>3. CardOK(NoCard) /\ NoCard.fins = {} /\ NoCard.st = "absent"
  BY NewCards DEF Targets, Binds
<1>4. CardsOK
  BY <1>1, <1>2, <1>3 DEF CardsOK
<1>5. WorkloadOK(wl) /\ \A c \in Cards : wl.annos[c] = "none"
  BY <1>1, NewWorkloads
<1>6. q.ac = <<>> /\ q.np = <<>> /\ IsRecord(q, QueueFields)
  BY <1>1 DEF IsRecord, QueueFields
<1>7. QueuesOK(q)
  BY <1>6, EmptyQueue DEF QueuesOK
<1>8. /\ IsRecord(ac, ACFields) /\ ac.card \in Cards /\ ACHolds(ac)
      /\ IsRecord(np, NPFields) /\ np.card \in Cards /\ NPHolds(np)
  BY <1>1, CardsAssumption, ACStarts, NPStarts
<1>9. IsRecord(sy, {"pc", "owner"}) /\ sy.owner \in {"none", "current", "old"}
  BY <1>1 DEF IdleSync, IsRecord
<1>10. WorkersOK
  BY <1>1, <1>8, <1>9 DEF WorkersOK
<1>11. AnnotationsHeld
  BY <1>5 DEF AnnotationsHeld, Cleaned
<1>12. PolicyInv
  BY <1>2, <1>3 DEF PolicyInv, Due
<1> QED
  BY <1>4, <1>5, <1>7, <1>8, <1>10, <1>11, <1>12 DEF CardInv

\* Every step keeps the invariants.
LEMMA CardNext ==
  ASSUME CardInv, PolicyInv, [ACNext]_acVars
  PROVE  CardInv' /\ PolicyInv'
<1>1. CASE UserStep \/ IdentityStep \/ GCStep \/ SyncStep \/ CardStep
  <2>1. CardInv' /\ Quiet
    BY <1>1, UserSteps, IdentitySteps, SyncSteps, CardSteps
  <2> QED
    BY <2>1, QuietAttentive, PolicyKept
<1>2. CASE PolicyStep
  BY <1>2, PolicySteps, PolicyKept
<1>3. CASE Crash
  BY <1>3, CrashStep
<1>4. CASE UNCHANGED acVars
  <2>1. UNCHANGED <<mode, cards, wl, pol, q, ac, np, sy, adm, leaked>>
    BY <1>4 DEF acVars
  <2>2. CardInv' /\ Quiet
    BY <2>1, Unwatched
  <2> QED
    BY <2>2, QuietAttentive, PolicyKept
<1> QED
  BY <1>1, <1>2, <1>3, <1>4 DEF ACNext

\* The invariants hold throughout.
LEMMA CardInvariant == ACSpec => [](CardInv /\ PolicyInv)
<1>1. ACInit => CardInv /\ PolicyInv
  BY CardInit
<1>2. (CardInv /\ PolicyInv) /\ [ACNext]_acVars => (CardInv /\ PolicyInv)'
  BY CardNext
<1> QED
  BY <1>1, <1>2, PTL DEF ACSpec

\* The verified label of the pods is what the annotations of any number of cards add up
\* to, through every update, cleanup and failure.
THEOREM LabelSound == ACSpec => []LabelIsAggregate
<1>1. CardInv => LabelIsAggregate
  <2> SUFFICES ASSUME CardInv PROVE LabelIsAggregate
    OBVIOUS
  <2>1. wl.label = Aggregate(wl.annos) /\ \A c \in Cards : wl.annos[c] \in {"none", "true", "false"}
    BY DEF CardInv, WorkloadOK, Conditions
  <2>2. Aggregate(wl.annos) <=> /\ \E c \in Cards : wl.annos[c] = "true"
                                /\ \A c \in Cards : wl.annos[c] # "false"
    BY <2>1 DEF Aggregate
  <2> QED
    BY <2>1, <2>2 DEF LabelIsAggregate
<1> QED
  BY <1>1, CardInvariant, PTL

\* The state is well typed, and no card leaves an annotation behind but by the failed
\* write that should have removed it.
THEOREM AnnotationsSound == ACSpec => []AnnotationHasCard
<1>1. CardInv => CardTypeOK
  <2> SUFFICES ASSUME CardInv PROVE CardTypeOK
    OBVIOUS
  <2>1. ASSUME NEW c \in Cards
        PROVE  /\ cards[c].st \in {"absent", "live", "deleting"}
               /\ cards[c].fins \subseteq {"card", "np"}
               /\ {cards[c].synced, cards[c].verified, cards[c].ready, cards[c].bound}
                    \subseteq Conditions
               /\ cards[c].st = "absent" => cards[c] = NoCard
               /\ cards[c].st = "deleting" => cards[c].fins # {}
               /\ wl.annos[c] \in Conditions
    <3>1. CardOK(cards[c]) /\ wl.annos[c] \in Conditions
      BY DEF CardInv, CardsOK, WorkloadOK
    <3>2. cards[c] \in CardRecord
      BY <3>1 DEF CardOK
    <3>3. /\ cards[c].st \in {"absent", "live", "deleting"}
          /\ cards[c].fins \in SUBSET {"card", "np"}
          /\ cards[c].synced \in Conditions /\ cards[c].verified \in Conditions
          /\ cards[c].ready \in Conditions /\ cards[c].bound \in Conditions
      BY <3>2, SMT DEF CardRecord
    <3> QED
      BY <3>1, <3>3 DEF CardOK
  <2>2. /\ wl.st \in {"absent", "agent", "plain"} /\ IsInjective(q.ac) /\ IsInjective(q.np)
        /\ ac.pc # "idle" => "card" \in cards[ac.card].fins
        /\ np.pc # "idle" => "np" \in cards[np.card].fins
    BY DEF CardInv, WorkloadOK, QueuesOK, QueueOK, ACHolds, NPHolds
  <2> QED
    BY <2>1, <2>2 DEF CardTypeOK
<1>2. CardInv => AnnotationHasCard
  <2> SUFFICES ASSUME CardInv, NEW c \in Cards, wl.annos[c] # "none", ~Exists(c)
               PROVE  c \in leaked
    BY <1>1 DEF AnnotationHasCard
  <2>1. cards[c].fins = {}
    <3>1. cards[c] = NoCard
      BY DEF CardInv, CardsOK, CardOK, Exists
    <3> QED
      BY <3>1, NewCards DEF Targets, Binds
  <2> QED
    BY <2>1 DEF CardInv, AnnotationsHeld, Cleaned
<1> QED
  BY <1>2, CardInvariant, PTL

\* A NetworkPolicy controller with nothing left to do has given the agent of every card
\* the policy of that card, whatever came in between.
THEOREM PolicySound == ACSpec => []PolicyCaughtUp
<1>1. CardInv /\ PolicyInv => PolicyCaughtUp
  <2> SUFFICES ASSUME CardInv, PolicyInv, NEW c \in Cards, mode.enforce, np.pc = "idle",
                      q.np = <<>>, cards[c].st = "live", Here(c), wl.st = "agent"
               PROVE  pol = PolicyFor(c)
    BY DEF PolicyCaughtUp, PolicyFor, PolicyOf
  <2>1. Handled(c)
    BY DEF PolicyInv, Due, Here
  <2>2. c \notin Range(q.np)
    BY EmptyQueue
  <2> QED
    BY <2>1, <2>2 DEF Handled, Planned
<1> QED
  BY <1>1, CardInvariant, PTL

-----------------------------------------------------------------------------
(* Signatures.                                                             *)

\* The least of some natural numbers is one of them.
LEMMA MinIn ==
  ASSUME NEW S \in SUBSET Nat, S # {}
  PROVE  Min(S) \in S
<1>1. PICK x \in S : \A y \in S : ~(<<y, x>> \in OpToRel(<, Nat))
  BY NatLessThanWellFounded, WFMin
<1>2. \A y \in S : ~(y < x)
  BY <1>1 DEF OpToRel
<1>3. \A y \in S : x <= y
  BY <1>2, SMT
<1> QED
  BY <1>3 DEF Min

\* A chain that leads to a root has a path to it of at most three certificates.
LEMMA ChainPath ==
  ASSUME NEW chain, chain \in Seq(Range(chain)), chain # <<>>, NEW roots,
         ValidateChain(chain, roots)
  PROVE  HasPath(chain, roots)
<1> DEFINE leaf == chain[1]
           others == {chain[i] : i \in 2 .. Len(chain)}
           first == {c \in others : c.issuer \in roots}
           second == first \cup {c \in others : \E f \in first : c.issuer = f.subject}
           R == Range(chain)
<1>1. Len(chain) \in Nat /\ R = {chain[i] : i \in 1..Len(chain)}
  BY RangeSeq
<1>2. 1 \in 1..Len(chain) /\ \A i \in 2..Len(chain) : i \in 1..Len(chain)
  BY <1>1, SMT
<1>3. leaf \in R /\ others \subseteq R
  BY <1>1, <1>2
<1>4. leaf.issuer \in roots \/ \E c \in second : leaf.issuer = c.subject
  BY DEF ValidateChain, LeadsToRoot
<1> HIDE DEF leaf, others, R
<1>5. CASE leaf.issuer \in roots
  <2> DEFINE p == [i \in 1..1 |-> leaf]
  <2>1. 1 \in 1..3 /\ 1 \in 1..1 /\ \A i \in 1..(1 - 1) : FALSE
    BY SMT
  <2>2. p \in [1..1 -> R] /\ p[1] = leaf
    BY <1>3, <2>1
  <2> HIDE DEF p
  <2> QED
    BY <1>5, <2>1, <2>2 DEF leaf, R, HasPath
<1>6. ASSUME NEW c \in first, leaf.issuer = c.subject
      PROVE  HasPath(chain, roots)
  <2> DEFINE p == [i \in 1..2 |-> IF i = 1 THEN leaf ELSE c]
  <2>1. 2 \in 1..3 /\ 1 \in 1..2 /\ 2 \in 1..2 /\ 2 # 1 /\ 1 + 1 = 2
        /\ \A i \in 1..(2 - 1) : i = 1
    BY SMT
  <2>2. c \in R /\ c.issuer \in roots
    BY <1>3
  <2>3. p \in [1..2 -> R] /\ p[1] = leaf /\ p[2] = c
    BY <1>3, <2>1, <2>2
  <2> HIDE DEF p
  <2>4. \A i \in 1..(2 - 1) : p[i].issuer = p[i + 1].subject
    BY <1>6, <2>1, <2>3
  <2> QED
    BY <2>1, <2>2, <2>3, <2>4 DEF leaf, R, HasPath
<1>7. ASSUME NEW c \in others, NEW f \in first, c.issuer = f.subject, leaf.issuer = c.subject
      PROVE  HasPath(chain, roots)
  <2> DEFINE p == [i \in 1..3 |-> IF i = 1 THEN leaf ELSE IF i = 2 THEN c ELSE f]
  <2>1. /\ 1 \in 1..3 /\ 2 \in 1..3 /\ 3 \in 1..3 /\ 2 # 1 /\ 3 # 1 /\ 3 # 2
        /\ 1 + 1 = 2 /\ 2 + 1 = 3 /\ \A i \in 1..(3 - 1) : i = 1 \/ i = 2
    BY SMT
  <2>2. c \in R /\ f \in R /\ f.issuer \in roots
    BY <1>3
  <2>3. p \in [1..3 -> R] /\ p[1] = leaf /\ p[2] = c /\ p[3] = f
    BY <1>3, <2>1, <2>2
  <2> HIDE DEF p
  <2>4. \A i \in 1..(3 - 1) : p[i].issuer = p[i + 1].subject
    BY <1>7, <2>1, <2>3
  <2> QED
    BY <2>1, <2>2, <2>3, <2>4 DEF leaf, R, HasPath
<1> QED
  BY <1>4, <1>5, <1>6, <1>7

\* VerifySignature finds the identity that a signature proves.
LEMMA VerifiedProves ==
  ASSUME NEW doc, IsDoc(doc), NEW roots, VerifySignature(doc, roots).verified
  PROVE  LET id == VerifySignature(doc, roots).id
         IN  id \in Identities(doc) /\ Proves(doc, roots, id)
<1> DEFINE decisive == {i \in 1 .. Len(doc.sigs) : Judge(doc, doc.sigs[i], roots) # "next"}
           s == doc.sigs[Min(decisive)]
           leaf == s.x5c[1]
           ids == {u \in leaf.uris : u.scheme = "spiffe"}
<1>1. /\ decisive # {} /\ Judge(doc, s, roots) = "ok"
      /\ VerifySignature(doc, roots).id = ExtractSpiffeIDFromCert(leaf)
  BY DEF VerifySignature
<1>2. Len(doc.sigs) \in Nat /\ Range(doc.sigs) = {doc.sigs[i] : i \in 1..Len(doc.sigs)}
  BY RangeSeq DEF IsDoc
<1>3. decisive \in SUBSET Nat
  BY <1>2, SMT
<1>4. Min(decisive) \in decisive
  BY <1>1, <1>3, MinIn
<1>5. s \in Range(doc.sigs) /\ s.x5c \in Seq(Range(s.x5c))
  BY <1>2, <1>4 DEF IsDoc
<1> HIDE DEF s, decisive
<1>6. /\ s.x5c # <<>> /\ ValidateChain(s.x5c, roots)
      /\ ExtractSpiffeIDFromCert(leaf) # NoID /\ VerifyJWS(doc, s, leaf.key)
  BY <1>1 DEF Judge
<1>7. leaf \in Range(s.x5c)
  <2>1. Len(s.x5c) \in Nat /\ Range(s.x5c) = {s.x5c[i] : i \in 1..Len(s.x5c)}
    BY <1>5, RangeSeq
  <2>2. 1 \in 1..Len(s.x5c)
    BY <1>5, <1>6, <2>1, SMT
  <2> QED
    BY <2>1, <2>2
<1>8. PICK id \in ids : ids = {id} /\ ExtractSpiffeIDFromCert(leaf) = id
  <2>1. PICK u \in ids : ids = {u}
    BY <1>6 DEF ExtractSpiffeIDFromCert
  <2>2. (CHOOSE x \in ids : TRUE) = u
    BY <2>1
  <2> QED
    BY <1>6, <2>1, <2>2 DEF ExtractSpiffeIDFromCert
<1>9. id \in Identities(doc)
  <2>1. id \in leaf.uris
    BY <1>8
  <2>2. id \in UNION {c.uris : c \in Range(s.x5c)}
    BY <1>7, <2>1
  <2> QED
    BY <1>5, <2>2 DEF Identities
<1>10. HasPath(s.x5c, roots)
  BY <1>5, <1>6, ChainPath
<1>11. Proves(doc, roots, id)
  BY <1>5, <1>6, <1>8, <1>10 DEF Proves, ValidateChain, VerifyJWS, SigningInput
<1> QED
  BY <1>1, <1>8, <1>9, <1>11

\* What proves an identity goes on doing so when more roots are published.
LEMMA ProvesMore ==
  ASSUME NEW doc, NEW id, NEW roots, NEW more, roots \subseteq more, Proves(doc, roots, id)
  PROVE  Proves(doc, more, id)
<1>1. \A chain : HasPath(chain, roots) => HasPath(chain, more)
  BY DEF HasPath
<1> QED
  BY <1>1 DEF Proves

-----------------------------------------------------------------------------
(* Trust.                                                                  *)

BundleOK(b) ==
  /\ IsRecord(b, {"stage", "loaded", "age"})
  /\ b.stage \in Nat \ {0}

\* The worker's signature result stands for a proof from published roots, and so does
\* the identity it goes with, unless that is the one of an mTLS peer.
Earned(a) ==
  \E id \in Identities(a.doc) : Proves(a.doc, Published, id) /\ (a.peer = NoID => a.id = id)

TrustInv ==
  /\ BundleOK(tb) /\ tb.loaded \subseteq Published
  /\ IsSource(src)
  /\ IsDoc(ac.doc)
  /\ ac.peer # NoID => mode.mtls /\ ac.peer.domain = TrustDomain
  /\ ac.pc = "status" /\ ac.sig => Earned(ac)

\* Nothing is held against the roots that are published later.
LEMMA EarnedMore ==
  ASSUME NEW a, Earned(a), Published \subseteq Published'
  PROVE  \E id \in Identities(a.doc) : Proves(a.doc, Published', id) /\ (a.peer = NoID => a.id = id)
<1>1. PICK id \in Identities(a.doc) : Proves(a.doc, Published, id) /\ (a.peer = NoID => a.id = id)
  BY DEF Earned
<1>2. Proves(a.doc, Published', id)
  BY <1>1, ProvesMore
<1> QED
  BY <1>1, <1>2

\* A document without signatures, and one with one signature by one certificate.
LEMMA SimpleDocs ==
  ASSUME NEW s
  PROVE  IsDoc(NoDoc) /\ IsDoc(SignedBy(s).doc)
<1>1. ASSUME NEW x PROVE <<x>> \in Seq(Range(<<x>>)) /\ Range(<<x>>) = {x}
  <2>1. <<x>> \in Seq({x}) /\ Len(<<x>>) = 1 /\ <<x>>[1] = x
    BY SMT
  <2>2. PICK e \in Seq({x}) : e = <<x>> /\ Len(e) = 1 /\ e[1] = x
    BY <2>1
  <2>3. Range(e) = {e[i] : i \in 1..Len(e)}
    BY RangeSeq
  <2>4. 1 \in 1..1 /\ \A i \in 1..1 : i = 1
    BY SMT
  <2>5. Range(e) = {x}
    BY <2>2, <2>3, <2>4
  <2> QED
    BY <2>2, <2>5
<1>2. IsDoc(NoDoc)
  <2>1. NoDoc.sigs = <<>>
    BY DEF NoDoc
  <2>2. <<>> \in Seq({})
    BY SMT
  <2> QED
    BY <2>1, <2>2, EmptyQueue DEF IsDoc
<1>3. IsDoc(SignedBy(s).doc)
  <2> DEFINE alg == AlgorithmForKey(Key)
             chain == <<Leaf(s.root, s.exp)>>
             sig == [alg |-> alg, x5c |-> chain,
                     value |-> SignInput(Key, alg, SigningInput(alg, chain, UnsignedCard))]
  <2>1. SignedBy(s).doc = [UnsignedCard EXCEPT !.sigs = <<sig>>]
    BY DEF SignedBy, SignCard
  <2> HIDE DEF sig
  <2>2. SignedBy(s).doc.sigs = <<sig>>
    BY <2>1 DEF UnsignedCard, NoDoc
  <2>3. sig.x5c = chain
    BY DEF sig
  <2>4. chain \in Seq(Range(chain))
    BY <1>1
  <2>5. <<sig>> \in Seq(Range(<<sig>>)) /\ Range(<<sig>>) = {sig}
    BY <1>1
  <2> QED
    BY <2>2, <2>3, <2>4, <2>5 DEF IsDoc
<1> QED
  BY <1>2, <1>3

\* A step that forgets no root, leaves a source, and gives the worker no new result.
LEMMA TrustLeft ==
  ASSUME TrustInv, mode' = mode, IsSource(src'),
         BundleOK(tb'), tb'.loaded \subseteq Published', Published \subseteq Published',
         \/ ac' = ac
         \/ ac'.doc = ac.doc /\ ac'.peer = ac.peer /\ ac'.pc # "status"
         \/ ac'.doc = NoDoc /\ ac'.peer = NoID /\ ac'.pc # "status"
  PROVE  TrustInv'
<1>1. BundleOK(tb)' /\ IsSource(src)'
  BY DEF BundleOK, IsSource
<1>2. IsDoc(ac'.doc)
  BY SimpleDocs DEF TrustInv
<1>3. ac'.peer # NoID => mode'.mtls /\ ac'.peer.domain = TrustDomain
  BY DEF TrustInv
<1>4. ac'.pc = "status" /\ ac'.sig => Earned(ac)'
  <2> SUFFICES ASSUME ac'.pc = "status", ac'.sig PROVE Earned(ac)'
    OBVIOUS
  <2>1. ac' = ac /\ Earned(ac)
    BY DEF TrustInv
  <2>2. \E id \in Identities(ac.doc) : Proves(ac.doc, Published', id) /\ (ac.peer = NoID => ac.id = id)
    BY <2>1, EarnedMore
  <2> QED
    BY <2>1, <2>2 DEF Earned
<1> QED
  BY <1>1, <1>2, <1>3, <1>4 DEF TrustInv

\* The same without news of the bundle and of the source.
LEMMA TrustUntouched ==
  ASSUME TrustInv, mode' = mode, tb' = tb, src' = src,
         \/ ac' = ac
         \/ ac'.doc = ac.doc /\ ac'.peer = ac.peer /\ ac'.pc # "status"
         \/ ac'.doc = NoDoc /\ ac'.peer = NoID /\ ac'.pc # "status"
  PROVE  TrustInv'
<1>1. Published' = Published
  BY DEF Published
<1>2. BundleOK(tb') /\ tb'.loaded \subseteq Published' /\ IsSource(src')
  BY <1>1 DEF TrustInv
<1> QED
  BY <1>1, <1>2, TrustLeft

\* The records of the worker.
LEMMA IdleTrust ==
  ASSUME NEW p, NEW c
  PROVE  /\ IdleAC.doc = NoDoc /\ IdleAC.peer = NoID /\ IdleAC.pc = "idle"
         /\ LET a == [IdleAC EXCEPT !.pc = p, !.card = c]
            IN  a.doc = NoDoc /\ a.peer = NoID /\ a.pc = p
BY DEF IdleAC

\* Bundles are published in turn, and never taken back here.
LEMMA PublishedGrows ==
  ASSUME TrustInv, tb'.stage = tb.stage \/ tb'.stage = tb.stage + 1
  PROVE  Published \subseteq Published'
<1>1. \A i \in 1..tb.stage : i \in 1..tb'.stage
  BY SMT DEF TrustInv, BundleOK
<1>2. \A i : RootsAt(i)' = RootsAt(i)
  BY DEF RootsAt
<1> QED
  BY <1>1, <1>2 DEF Published

\* Users change the source at most.
LEMMA UserTrust ==
  ASSUME TrustInv, UserStep
  PROVE  TrustInv'
<1>1. mode' = mode /\ tb' = tb /\ ac' = ac
  BY DEF UserStep, ValidateCreate, CreateCard, DeleteCard, EditWorkload, DeleteWorkload,
         CreateWorkload, EditSource
<1>2. src' = src \/ src' \in Sources
  BY DEF UserStep, ValidateCreate, CreateCard, DeleteCard, EditWorkload, DeleteWorkload,
         CreateWorkload, EditSource
<1>3. IsSource(src')
  BY <1>2, SourcesAssumption DEF TrustInv
<1>4. Published' = Published
  BY <1>1 DEF Published
<1>5. BundleOK(tb') /\ tb'.loaded \subseteq Published'
  BY <1>1, <1>4 DEF TrustInv
<1> QED
  BY <1>1, <1>3, <1>4, <1>5, TrustLeft

\* Sync, the collector and the NetworkPolicy controller change none of it.
LEMMA OtherTrust ==
  ASSUME TrustInv, GCStep \/ SyncStep \/ PolicyStep \/ UNCHANGED acVars
  PROVE  TrustInv'
<1>1. mode' = mode /\ tb' = tb /\ ac' = ac /\ src' = src
  BY DEF GCStep, CollectCard, SyncStep, EnsureAgentCard, SyncAdmit, CreateAgentCardForWorkload,
         PolicyStep, ReconcilePolicy, FailPolicy, ManageNetworkPolicy, DeleteNetworkPolicy,
         RemovePolicyFinalizer, acVars
<1> QED
  BY <1>1, TrustUntouched

\* SPIRE publishes bundles, and a rollout signs the card again.
LEMMA IdentityTrust ==
  ASSUME TrustInv, IdentityStep
  PROVE  TrustInv'
<1>1. mode' = mode /\ ac' = ac
  BY DEF IdentityStep, PublishBundle, LeafNearsExpiry, Rollout, GracePeriodEnds, BundleAges
<1>2. IsSource(src) /\ BundleOK(tb) /\ tb.loaded \subseteq Published
  BY DEF TrustInv
<1>3. CASE PublishBundle
  <2>1. tb' = [tb EXCEPT !.stage = @ + 1] /\ src' = src
    BY <1>3 DEF PublishBundle
  <2>2. IsRecord(tb', {"stage", "loaded", "age"}) /\ tb'.stage = tb.stage + 1
        /\ tb'.loaded = tb.loaded
    BY <1>2, <2>1 DEF BundleOK, IsRecord
  <2>3. tb.stage + 1 \in Nat \ {0}
    BY <1>2, SMT DEF BundleOK
  <2>4. BundleOK(tb')
    BY <2>2, <2>3 DEF BundleOK
  <2>5. Published \subseteq Published'
    BY <2>2, PublishedGrows
  <2>6. tb'.loaded \subseteq Published' /\ IsSource(src')
    BY <1>2, <2>1, <2>2, <2>5
  <2> QED
    BY <1>1, <2>4, <2>5, <2>6, TrustLeft
<1>4. CASE BundleAges
  <2>1. tb' = [tb EXCEPT !.age = "old"] /\ src' = src
    BY <1>4 DEF BundleAges
  <2>2. IsRecord(tb', {"stage", "loaded", "age"}) /\ tb'.stage = tb.stage
        /\ tb'.loaded = tb.loaded
    BY <1>2, <2>1 DEF BundleOK, IsRecord
  <2>3. BundleOK(tb')
    BY <1>2, <2>2 DEF BundleOK
  <2>4. Published \subseteq Published'
    BY <2>2, PublishedGrows
  <2>5. tb'.loaded \subseteq Published' /\ IsSource(src')
    BY <1>2, <2>1, <2>2, <2>4
  <2> QED
    BY <1>1, <2>3, <2>4, <2>5, TrustLeft
<1>5. CASE Rollout
  <2> DEFINE doc == SignedBy(svid')
  <2>1. /\ tb' = tb
        /\ src' = [src EXCEPT !.current = doc, !.cm = doc] \/ src' = [src EXCEPT !.current = doc]
    BY <1>5 DEF Rollout
  <2>2. IsDoc(doc.doc)
    BY SimpleDocs
  <2> HIDE DEF doc
  <2>3. src = [f \in SourceFields |-> src[f]]
        /\ \A f \in {"cm", "current", "legacy"} : src[f].kind = "doc" => IsDoc(src[f].doc)
    BY <1>2 DEF IsSource
  <2>4. src' = [f \in SourceFields |-> src'[f]]
    BY <2>1, <2>3 DEF SourceFields
  <2>5. /\ src'.current = doc /\ src'.legacy = src.legacy
        /\ src'.cm = doc \/ src'.cm = src.cm
    BY <2>1, <2>3 DEF SourceFields
  <2>6. \A f \in {"cm", "current", "legacy"} : src'[f].kind = "doc" => IsDoc(src'[f].doc)
    BY <2>2, <2>3, <2>5
  <2>7. IsSource(src')
    BY <2>4, <2>6 DEF IsSource
  <2>8. Published' = Published
    BY <2>1 DEF Published
  <2>9. BundleOK(tb') /\ tb'.loaded \subseteq Published'
    BY <1>2, <2>1, <2>8
  <2> QED
    BY <1>1, <2>7, <2>8, <2>9, TrustLeft
<1>6. CASE LeafNearsExpiry \/ GracePeriodEnds
  <2>1. tb' = tb /\ src' = src
    BY <1>6 DEF LeafNearsExpiry, GracePeriodEnds
  <2> QED
    BY <1>1, <2>1, TrustUntouched
<1> QED
  BY <1>3, <1>4, <1>5, <1>6 DEF IdentityStep

\* A fetch: an authenticated one has a peer of the trust domain.
LEMMA FetchTrust ==
  ASSUME CardInv, TrustInv, FetchCardData
  PROVE  TrustInv'
<1>1. mode' = mode /\ tb' = tb /\ src' = src
  BY DEF FetchCardData
<1>2. CASE ac' = IdleAC
  BY <1>1, <1>2, IdleTrust, TrustUntouched
<1>3. CASE /\ Fetched.kind = "doc"
           /\ ac' = [ac EXCEPT !.pc = "trust", !.doc = Fetched.doc,
                               !.peer = IF AuthenticatedFetch THEN src.peer ELSE NoID]
  <2>1. IsRecord(ac, ACFields)
    BY DEF CardInv, WorkersOK
  <2>2. /\ ac'.pc = "trust" /\ ac'.doc = Fetched.doc
        /\ ac'.peer = IF AuthenticatedFetch THEN src.peer ELSE NoID
    BY <1>3, <2>1 DEF IsRecord, ACFields
  <2>3. AuthenticatedFetch => mode.mtls /\ src.peer.domain = TrustDomain
    BY <1>3 DEF Fetched, AuthenticatedFetch
  <2>4. \E f \in {"cm", "current", "legacy"} : Fetched = src[f]
    BY <1>3 DEF Fetched, FetchCard, FetchA2ACard
  <2>5. IsDoc(ac'.doc)
    BY <1>3, <2>2, <2>4 DEF TrustInv, IsSource
  <2>6. Published' = Published
    BY <1>1 DEF Published
  <2>7. BundleOK(tb)' /\ (tb.loaded \subseteq Published)' /\ IsSource(src)'
    BY <1>1, <2>6 DEF TrustInv, BundleOK, IsSource
  <2> QED
    BY <1>1, <2>2, <2>3, <2>5, <2>7 DEF TrustInv
<1> QED
  BY <1>2, <1>3 DEF FetchCardData

\* The evaluation: the bundle that the signature was verified with was published.
LEMMA EvaluateTrustEarned ==
  ASSUME CardInv, TrustInv, EvaluateTrust
  PROVE  TrustInv'
<1> DEFINE bundle == IF mode.sig THEN RefreshedBundle ELSE tb.loaded
           vr == SignatureResult(bundle)
           age == IF mode.sig THEN "fresh" ELSE tb.age
           id == IF ac.peer # NoID THEN ac.peer ELSE vr.id
<1>1. /\ tb' = [tb EXCEPT !.loaded = bundle, !.age = age]
      /\ ac' = [ac EXCEPT !.pc = "status", !.sig = vr.verified, !.id = id]
      /\ mode' = mode /\ src' = src
  BY DEF EvaluateTrust
<1>2. BundleOK(tb) /\ tb.loaded \subseteq Published /\ IsSource(src) /\ IsDoc(ac.doc)
  BY DEF TrustInv
<1>3. bundle \subseteq Published
  <2>1. tb.stage \in 1..tb.stage
    BY <1>2, SMT DEF BundleOK
  <2>2. RootsAt(tb.stage) \subseteq Published
    BY <2>1 DEF Published
  <2> QED
    BY <1>2, <2>2 DEF RefreshedBundle
<1>4. vr.verified => vr.id \in Identities(ac.doc) /\ Proves(ac.doc, Published, vr.id)
  <2>1. PICK roots : roots = IF mode.sig THEN bundle ELSE {}
    OBVIOUS
  <2>2. vr = VerifySignature(ac.doc, roots) /\ roots \subseteq Published
    BY <1>3, <2>1 DEF SignatureResult
  <2> HIDE DEF vr
  <2> SUFFICES ASSUME vr.verified
               PROVE  vr.id \in Identities(ac.doc) /\ Proves(ac.doc, Published, vr.id)
    OBVIOUS
  <2>3. vr.id \in Identities(ac.doc) /\ Proves(ac.doc, roots, vr.id)
    BY <1>2, <2>2, VerifiedProves
  <2>4. Proves(ac.doc, Published, vr.id)
    BY <2>2, <2>3, ProvesMore
  <2> QED
    BY <2>3, <2>4
<1> HIDE DEF bundle, vr, age
<1>5. IsRecord(ac, ACFields)
  BY DEF CardInv, WorkersOK
<1>6. /\ ac'.pc = "status" /\ ac'.sig = vr.verified /\ ac'.doc = ac.doc /\ ac'.peer = ac.peer
      /\ ac'.id = id
  BY <1>1, <1>5 DEF IsRecord, ACFields
<1>7. /\ IsRecord(tb', {"stage", "loaded", "age"}) /\ tb'.stage = tb.stage
      /\ tb'.loaded = bundle
  BY <1>1, <1>2 DEF BundleOK, IsRecord
<1>8. Published' = Published
  BY <1>7 DEF Published, RootsAt
<1>9. BundleOK(tb)' /\ (tb.loaded \subseteq Published)' /\ IsSource(src)'
  BY <1>1, <1>2, <1>3, <1>7, <1>8 DEF BundleOK, IsSource
<1>10. ac'.sig => Earned(ac)'
  <2> SUFFICES ASSUME ac'.sig PROVE Earned(ac)'
    OBVIOUS
  <2>1. vr.verified
    BY <1>6
  <2>2. \E i \in Identities(ac.doc) : Proves(ac.doc, Published, i) /\ (ac.peer = NoID => id = i)
    BY <1>4, <2>1
  <2> QED
    BY <1>6, <1>8, <2>2 DEF Earned
<1>11. IsDoc(ac'.doc) /\ (ac'.peer # NoID => mode'.mtls /\ ac'.peer.domain = TrustDomain)
  BY <1>1, <1>2, <1>6 DEF TrustInv
<1> QED
  BY <1>9, <1>10, <1>11 DEF TrustInv

\* The other steps of the AgentCard controller.
LEMMA CardTrust ==
  ASSUME CardInv, TrustInv, CardStep
  PROVE  TrustInv'
<1>1. IsRecord(ac, ACFields)
  BY DEF CardInv, WorkersOK
<1>2. ASSUME NEW p, ac' = [ac EXCEPT !.pc = p]
      PROVE  ac'.doc = ac.doc /\ ac'.peer = ac.peer /\ ac'.pc = p
  BY <1>1, <1>2 DEF IsRecord, ACFields
<1>3. CASE ReconcileCard
  <2>1. mode' = mode /\ tb' = tb /\ src' = src
    BY <1>3 DEF ReconcileCard
  <2>2. \/ ac' = ac
        \/ ac' = [IdleAC EXCEPT !.pc = "cleanup", !.card = ACHead]
        \/ ac' = [IdleAC EXCEPT !.pc = "fetch", !.card = ACHead]
    BY <1>3 DEF ReconcileCard
  <2>3. ac' = ac \/ (ac'.doc = NoDoc /\ ac'.peer = NoID /\ ac'.pc # "status")
    BY <2>2 DEF IdleAC
  <2> QED
    BY <2>1, <2>3, TrustUntouched
<1>4. CASE UpdateAgentCardStatus
  <2>1. /\ mode' = mode /\ tb' = tb /\ src' = src
        /\ ac' = IdleAC \/ ac' = [ac EXCEPT !.pc = "label"]
    BY <1>4 DEF UpdateAgentCardStatus
  <2>2. \/ ac'.doc = ac.doc /\ ac'.peer = ac.peer /\ ac'.pc # "status"
        \/ ac'.doc = NoDoc /\ ac'.peer = NoID /\ ac'.pc # "status"
    BY <1>2, <2>1, IdleTrust
  <2> QED
    BY <2>1, <2>2, TrustUntouched
<1>5. CASE CleanupAnnotation
  <2>1. mode' = mode /\ tb' = tb /\ src' = src /\ ac' = [ac EXCEPT !.pc = "finalize"]
    BY <1>5 DEF CleanupAnnotation
  <2>2. ac'.doc = ac.doc /\ ac'.peer = ac.peer /\ ac'.pc # "status"
    BY <1>1, <2>1 DEF IsRecord, ACFields
  <2> QED
    BY <2>1, <2>2, TrustUntouched
<1>6. CASE PropagateLabel \/ RemoveCardFinalizer
  <2>1. mode' = mode /\ tb' = tb /\ src' = src /\ ac' = IdleAC
    BY <1>6 DEF PropagateLabel, RemoveCardFinalizer
  <2> QED
    BY <2>1, IdleTrust, TrustUntouched
<1> QED
  BY <1>3, <1>4, <1>5, <1>6, FetchTrust, EvaluateTrustEarned DEF CardStep

\* A crash forgets the loaded bundle.
LEMMA CrashTrust ==
  ASSUME TrustInv, Crash
  PROVE  TrustInv'
<1>1. /\ mode' = mode /\ src' = src /\ ac' = IdleAC
      /\ tb' = [tb EXCEPT !.loaded = {}, !.age = "old"]
  BY DEF Crash
<1>2. IsSource(src) /\ BundleOK(tb)
  BY DEF TrustInv
<1>3. IsRecord(tb', {"stage", "loaded", "age"}) /\ tb'.stage = tb.stage /\ tb'.loaded = {}
  BY <1>1, <1>2 DEF BundleOK, IsRecord
<1>4. BundleOK(tb') /\ IsSource(src') /\ tb'.loaded \subseteq Published'
  BY <1>1, <1>2, <1>3 DEF BundleOK
<1>5. Published \subseteq Published'
  BY <1>3, PublishedGrows
<1>6. ac'.doc = NoDoc /\ ac'.peer = NoID /\ ac'.pc # "status"
  BY <1>1, IdleTrust
<1> QED
  BY <1>1, <1>4, <1>5, <1>6, TrustLeft

\* A card is found verified only on evidence, for every set of sources and whatever
\* certificates, chains and bundles come together: a peer of the trust domain over mTLS,
\* or a signature over this very content that leads to a published root.
THEOREM TrustSound == ACSpec => []TrustEarned
<1>1. ACInit => TrustInv
  <2> SUFFICES ASSUME ACInit PROVE TrustInv
    OBVIOUS
  <2>1. src \in Sources /\ tb = [stage |-> 1, loaded |-> {}, age |-> "old"] /\ ac = IdleAC
    BY DEF ACInit
  <2>2. IsRecord(tb, {"stage", "loaded", "age"}) /\ tb.stage = 1 /\ tb.loaded = {}
    BY <2>1 DEF IsRecord
  <2>3. 1 \in Nat \ {0}
    BY SMT
  <2>4. ac.doc = NoDoc /\ ac.peer = NoID /\ ac.pc # "status"
    BY <2>1, IdleTrust
  <2> QED
    BY <2>1, <2>2, <2>3, <2>4, SourcesAssumption, SimpleDocs DEF TrustInv, BundleOK
<1>2. CardInv /\ TrustInv /\ [ACNext]_acVars => TrustInv'
  BY UserTrust, IdentityTrust, OtherTrust, CardTrust, CrashTrust DEF ACNext
<1>3. TrustInv => TrustEarned
  <2> SUFFICES ASSUME TrustInv, ac.pc = "status", IsVerified, ac.peer = NoID
               PROVE  /\ mode.sig
                      /\ \E id \in Identities(ac.doc) :
                           /\ Proves(ac.doc, Published, id)
                           /\ cards[ac.card].bind = "strict" => id.domain = TrustDomain /\ id.path # ""
    BY DEF TrustInv, TrustEarned
  <2>1. mode.sig /\ ac.sig /\ (cards[ac.card].bind = "strict" => BindingPassed)
    BY DEF IsVerified, MTLSVerified
  <2>2. PICK id \in Identities(ac.doc) : Proves(ac.doc, Published, id) /\ ac.id = id
    BY <2>1 DEF TrustInv, Earned
  <2>3. cards[ac.card].bind = "strict" => id.domain = TrustDomain /\ id.path # ""
    BY <2>1, <2>2 DEF BindingPassed, ComputeBinding
  <2> QED
    BY <2>1, <2>2, <2>3
<1> QED
  BY <1>1, <1>2, <1>3, CardInvariant, PTL DEF ACSpec

=============================================================================
