------------------------- MODULE TokenBrokerProofs --------------------------
(***************************************************************************)
(* Proofs about the token broker.  First the session lifecycle, for any    *)
(* users, keys, claims, limit and number of concurrent requests; then      *)
(* token acquisition, for any number of requests, callbacks, resources and *)
(* transactions, and any behaviour of the sessions.                        *)
(***************************************************************************)
EXTENDS TokenBroker, FiniteSetTheorems, TLAPS

\* A leaf that names no prover is one for Zenon.
USE Zenon

-----------------------------------------------------------------------------
\* A user's list is a finite set with a cardinality in Nat.
LEMMA ListFinite ==
  ASSUME SMTypeOK, NEW u \in Users
  PROVE  /\ IsFiniteSet(userSessions[u])
         /\ Cardinality(userSessions[u]) \in Nat
<1>1. created \in Nat
  BY BoundsAssumption, SMT DEF SMTypeOK
<1>2. IsFiniteSet(1..created)
  BY <1>1, FS_Interval, SMT
<1>3. userSessions[u] \subseteq 1..created
  BY DEF SMTypeOK
<1> QED
  BY <1>2, <1>3, FS_Subset, FS_CardinalityType

\* Removing entries does not lengthen a list.
LEMMA ShorterList ==
  ASSUME SMTypeOK, NEW u \in Users, NEW S \in SUBSET userSessions[u],
         Cardinality(userSessions[u]) <= MaxSessionsPerUser
  PROVE  Cardinality(S) <= MaxSessionsPerUser
<1>1. /\ IsFiniteSet(userSessions[u])
      /\ Cardinality(userSessions[u]) \in Nat
  BY ListFinite
<1>2. IsFiniteSet(S) /\ Cardinality(S) <= Cardinality(userSessions[u])
  BY <1>1, FS_Subset
<1>3. Cardinality(S) \in Nat
  BY <1>2, FS_CardinalityType
<1> QED
  BY <1>1, <1>2, <1>3, MaxSessionsAssumption, SMT

\* Initially nothing is created, bound, listed or running.
LEMMA InitInv == SMInit => SMInv
<1> SUFFICES ASSUME SMInit PROVE SMInv
  OBVIOUS
<1>1. SMTypeOK
  BY BoundsAssumption, SMT DEF SMInit, SMTypeOK, Ids, Events, NoSession
<1>2. BoundSessionsOpen
  BY DEF SMInit, BoundSessionsOpen, NoSession
<1>3. Cardinality({}) = 0
  BY FS_EmptySet
<1>4. ListInv
  BY <1>3, MaxSessionsAssumption, SMT DEF SMInit, ListInv, ListedKeysBound, NoSession
<1> QED
  BY <1>1, <1>2, <1>4 DEF SMInv

-----------------------------------------------------------------------------
(* Steps that leave the sessions map, the lists and Done alone.            *)

\* The variables the safety invariants are about.
mapVars == <<created, session, done, sessions, userSessions>>

\* A step that leaves the map, the lists and Done alone keeps the invariant.
LEMMA MapUnchanged ==
  ASSUME SMInv, SMTypeOK', UNCHANGED mapVars
  PROVE  SMInv'
BY DEF SMInv, BoundSessionsOpen, ListInv, ListedKeysBound, mapVars

\* handleEventLongPoll: none of its critical sections touches the map.
LEMMA PollStepInv ==
  ASSUME SMInv, NEW p \in Polls, PollStep(p)
  PROVE  SMInv'
<1> USE DEF SMInv, SMTypeOK
<1>1. CASE PollReset(p)
  <2>1. SMTypeOK'
    BY <1>1, SMT DEF PollReset, ResetSessionTimer, IdlePoll
  <2> QED
    BY <1>1, <2>1, MapUnchanged DEF PollReset, mapVars
<1>2. CASE PollGetSession(p)
  <2>1. SMTypeOK'
    <3>1. poll[p] \in [pc : {"reset", "get"}, key : Keys, obj : {NoSession}]
      BY <1>2, SMT DEF PollGetSession, IdlePoll
    <3>2. sessions[poll[p].key] = NoSession \/ sessions[poll[p].key] \in 1..created
      BY <3>1, BoundsAssumption, SMT DEF NoSession
    <3>3. \/ poll' = [poll EXCEPT ![p] = IdlePoll]
          \/ /\ sessions[poll[p].key] \in 1..created
             /\ poll' = [poll EXCEPT ![p] = [pc |-> "wait", key |-> poll[p].key,
                                             obj |-> sessions[poll[p].key]]]
      BY <1>2, <3>2 DEF PollGetSession
    <3>4. poll' \in [Polls -> {IdlePoll}
                        \cup [pc : {"reset", "get"}, key : Keys, obj : {NoSession}]
                        \cup [pc : {"wait", "return"}, key : Keys, obj : 1..created]]
      BY <3>1, <3>3, SMT
    <3> QED
      BY <1>2, <3>4 DEF PollGetSession
  <2> QED
    BY <1>2, <2>1, MapUnchanged DEF PollGetSession, mapVars
<1>3. CASE PollEvent(p)
  <2>1. SMTypeOK'
    <3>1. poll[p] \in [pc : {"wait", "return"}, key : Keys, obj : 1..created]
      BY <1>3, SMT DEF PollEvent, IdlePoll
    <3>2. events[poll[p].obj] \in Events \ {NoEvent}
      BY <1>3, <3>1, BoundsAssumption, SMT DEF PollEvent, Ids
    <3>3. delivered' \subseteq Txs
      <4>1. CASE events[poll[p].obj] = ErrorEvent
        BY <1>3, <4>1 DEF PollEvent
      <4>2. CASE events[poll[p].obj] # ErrorEvent
        <5>1. PICK t \in Txs : events[poll[p].obj] = UrlReadyEvent(t)
          BY <3>2, <4>2 DEF Events
        <5>2. events[poll[p].obj].tx = t
          BY <5>1, SMT DEF UrlReadyEvent
        <5> QED
          BY <1>3, <4>2, <5>2 DEF PollEvent
      <4> QED
        BY <4>1, <4>2
    <3>4. events' \in [Ids -> Events]
      BY <1>3 DEF PollEvent, Events
    <3>5. poll' \in [Polls -> {IdlePoll}
                        \cup [pc : {"reset", "get"}, key : Keys, obj : {NoSession}]
                        \cup [pc : {"wait", "return"}, key : Keys, obj : 1..created]]
      BY <1>3, <3>1 DEF PollEvent
    <3> QED
      BY <1>3, <3>3, <3>4, <3>5 DEF PollEvent
  <2> QED
    BY <1>3, <2>1, MapUnchanged DEF PollEvent, mapVars
<1>4. CASE PollDone(p)
  <2>1. SMTypeOK'
    BY <1>4, SMT DEF PollDone, IdlePoll
  <2> QED
    BY <1>4, <2>1, MapUnchanged DEF PollDone, mapVars
<1>5. CASE PollCancel(p)
  <2>1. SMTypeOK'
    BY <1>5, SMT DEF PollCancel, IdlePoll
  <2> QED
    BY <1>5, <2>1, MapUnchanged DEF PollCancel, mapVars
<1>6. CASE PollReturn(p)
  <2>1. SMTypeOK'
    BY <1>6, SMT DEF PollReturn, StartSessionTimer, IdlePoll
  <2> QED
    BY <1>6, <2>1, MapUnchanged DEF PollReturn, mapVars
<1> QED
  BY <1>1, <1>2, <1>3, <1>4, <1>5, <1>6 DEF PollStep

\* HandleEvents and HandleEndSession only validate and start a handler.
LEMMA HandlerInv ==
  ASSUME SMInv, NEW u \in Users, NEW k \in Keys,
         \/ \E p \in Polls : HandleEvents(p, u, k)
         \/ \E e \in Enders : HandleEndSession(e, u, k)
  PROVE  SMInv'
<1>1. ASSUME NEW p \in Polls, HandleEvents(p, u, k) PROVE SMInv'
  <2>1. SMTypeOK'
    BY <1>1, SMT DEF HandleEvents, SMInv, SMTypeOK
  <2> QED
    BY <1>1, <2>1, MapUnchanged DEF HandleEvents, mapVars
<1>2. ASSUME NEW e \in Enders, HandleEndSession(e, u, k) PROVE SMInv'
  <2>1. SMTypeOK'
    BY <1>2, SMT DEF HandleEndSession, SMInv, SMTypeOK
  <2> QED
    BY <1>2, <2>1, MapUnchanged DEF HandleEndSession, mapVars
<1> QED
  BY <1>1, <1>2

-----------------------------------------------------------------------------
(* Binding a key: the new object is fresh and joins its user's list.       *)

\* CreateSession: the object is fresh, bound to its key and listed once; the
\* object that the key was bound to before stays in its user's list.
LEMMA CreateInv ==
  ASSUME SMInv, NEW u \in Users, NEW k \in Keys, CreateSession(u, k)
  PROVE  SMInv'
<1> DEFINE new == created + 1
<1>1. /\ created \in Nat
      /\ new \in Ids
      /\ created' = new
      /\ 1..created' = (1..created) \cup {new}
      /\ new \notin 1..created
  <2>1. created \in 0..MaxCreates /\ created < MaxCreates /\ created' = created + 1
    BY DEF CreateSession, SMInv, SMTypeOK
  <2> QED
    BY <2>1, BoundsAssumption, SMT DEF Ids
<1>2. /\ session' = [session EXCEPT ![new] = [key |-> k, user |-> u]]
      /\ sessions' = [sessions EXCEPT ![k] = new]
      /\ userSessions' = [userSessions EXCEPT ![u] = @ \cup {new}]
      /\ UNCHANGED <<done, events, armed, expiring, poll, ender, delivered, server>>
  BY <1>1 DEF CreateSession
<1> HIDE DEF new
<1>3. /\ session'[new] = [key |-> k, user |-> u]
      /\ \A o \in 1..created : session'[o] = session[o]
  BY <1>1, <1>2, SMT DEF SMInv, SMTypeOK, Ids
<1>4. SMTypeOK'
  <2>1. session' \in [Ids -> {NoStruct} \cup [key : Keys, user : Users]]
    BY <1>2 DEF SMInv, SMTypeOK
  <2>2. \A o \in 1..created' : session'[o] \in [key : Keys, user : Users]
    BY <1>1, <1>3, SMT DEF SMInv, SMTypeOK
  <2>3. sessions' \in [Keys -> 0..created']
    BY <1>1, <1>2, SMT DEF SMInv, SMTypeOK
  <2>4. userSessions' \in [Users -> SUBSET (1..created')]
    BY <1>1, <1>2 DEF SMInv, SMTypeOK
  <2>5. poll' \in [Polls -> {IdlePoll}
                        \cup [pc : {"reset", "get"}, key : Keys, obj : {NoSession}]
                        \cup [pc : {"wait", "return"}, key : Keys, obj : 1..created']]
    BY <1>1, <1>2 DEF SMInv, SMTypeOK
  <2>6. created' \in 0..MaxCreates
    BY <1>1, BoundsAssumption, SMT DEF Ids
  <2> QED
    BY <1>1, <1>2, <2>1, <2>2, <2>3, <2>4, <2>5, <2>6 DEF SMInv, SMTypeOK
<1>5. BoundSessionsOpen'
  <2> SUFFICES ASSUME NEW j \in Keys, sessions'[j] # NoSession
               PROVE  session'[sessions'[j]].key = j /\ sessions'[j] \notin done'
    BY DEF BoundSessionsOpen
  <2>1. CASE j = k
    BY <1>1, <1>2, <1>3, <2>1 DEF SMInv, SMTypeOK
  <2>2. CASE j # k
    <3>1. sessions'[j] = sessions[j] /\ sessions[j] \in 1..created
      BY <1>1, <1>2, <2>2, SMT DEF SMInv, SMTypeOK, NoSession
    <3> QED
      BY <1>2, <1>3, <3>1, SMT DEF SMInv, BoundSessionsOpen
  <2> QED
    BY <2>1, <2>2
<1>6. ListInv'
  <2>1. ASSUME NEW v \in Users
        PROVE  Cardinality(userSessions'[v]) <= MaxSessionsPerUser
    <3>1. CASE v = u
      <4>1. /\ IsFiniteSet(userSessions[u])
            /\ Cardinality(userSessions[u]) \in Nat
        BY ListFinite DEF SMInv
      <4>2. new \notin userSessions[u]
        BY <1>1 DEF SMInv, SMTypeOK
      <4>3. Cardinality(userSessions[u] \cup {new}) = Cardinality(userSessions[u]) + 1
        BY <4>1, <4>2, FS_AddElement
      <4>4. userSessions'[u] = userSessions[u] \cup {new}
        BY <1>2 DEF SMInv, SMTypeOK
      <4>5. Cardinality(userSessions[u]) < MaxSessionsPerUser
        BY DEF CreateSession
      <4> QED
        BY <3>1, <4>1, <4>3, <4>4, <4>5, MaxSessionsAssumption, SMT
    <3>2. CASE v # u
      BY <1>2, <3>2 DEF SMInv, SMTypeOK, ListInv
    <3> QED
      BY <3>1, <3>2
  <2>2. ASSUME NEW v \in Users, NEW o \in userSessions'[v]
        PROVE  /\ session'[o].user = v
               /\ KeysUnshared => sessions'[session'[o].key] # NoSession
    <3>1. CASE o = new
      <4>1. v = u
        BY <1>1, <1>2, <3>1 DEF SMInv, SMTypeOK
      <4>2. session'[o].user = u /\ session'[o].key = k
        BY <1>3, <3>1, SMT
      <4>3. sessions'[k] # NoSession
        BY <1>1, <1>2, SMT DEF SMInv, SMTypeOK, NoSession
      <4> QED
        BY <4>1, <4>2, <4>3
    <3>2. CASE o # new
      <4>1. o \in userSessions[v] /\ o \in 1..created
        BY <1>2, <3>2 DEF SMInv, SMTypeOK
      <4>2. session'[o] = session[o] /\ session[o].key \in Keys
        BY <1>3, <4>1 DEF SMInv, SMTypeOK
      <4>3. sessions[session[o].key] # NoSession => sessions'[session[o].key] # NoSession
        BY <1>1, <1>2, <4>2, SMT DEF SMInv, SMTypeOK, NoSession
      <4>4. session[o].user = v
        BY <4>1 DEF SMInv, ListInv
      <4>5. KeysUnshared => sessions[session[o].key] # NoSession
        BY <4>1 DEF SMInv, ListInv, ListedKeysBound
      <4> QED
        BY <4>2, <4>3, <4>4, <4>5
    <3> QED
      BY <3>1, <3>2
  <2>3. ASSUME NEW j \in Keys, sessions'[j] # NoSession
        PROVE  sessions'[j] \in userSessions'[session'[sessions'[j]].user]
    <3>1. CASE j = k
      BY <1>2, <1>3, <3>1, SMT DEF SMInv, SMTypeOK
    <3>2. CASE j # k
      <4>1. sessions'[j] = sessions[j] /\ sessions[j] \in 1..created
        BY <1>1, <1>2, <2>3, <3>2, SMT DEF SMInv, SMTypeOK, NoSession
      <4>2. session[sessions[j]].user \in Users
        BY <4>1 DEF SMInv, SMTypeOK
      <4> QED
        BY <1>2, <1>3, <2>3, <4>1, <4>2, SMT DEF SMInv, SMTypeOK, ListInv
    <3> QED
      BY <3>1, <3>2
  <2>4. \A o \in 1..created' : <<session'[o].user, session'[o].key>> \in Claims
    BY <1>1, <1>3, SMT DEF SMInv, ListInv, CreateSession
  <2> QED
    BY <2>1, <2>2, <2>3, <2>4 DEF ListInv, ListedKeysBound, KeysUnshared
<1> QED
  BY <1>4, <1>5, <1>6 DEF SMInv

-----------------------------------------------------------------------------
(* Unbinding keys: cleanupSessionLocked and Shutdown.                      *)

\* When keys are not shared, a listed object has the user of the object its key
\* is bound to, so the cleanup of the key looks for it in the right list.
LEMMA ListedOwner ==
  ASSUME SMInv, KeysUnshared, NEW u \in Users, NEW x \in userSessions[u],
         NEW o \in 1..created, session[o].key = session[x].key
  PROVE  session[o].user = u
<1>1. x \in 1..created /\ session[x].user = u
  BY DEF SMInv, SMTypeOK, ListInv
<1>2. /\ <<session[o].user, session[o].key>> \in Claims
      /\ <<session[x].user, session[x].key>> \in Claims
  BY <1>1 DEF SMInv, ListInv
<1> QED
  BY <1>1, <1>2 DEF KeysUnshared

\* cleanupSessionLocked closes an open object and removes every copy of its key
\* from the list of the object's user.
LEMMA CleanupInv ==
  ASSUME SMInv, NEW k \in Keys, sessions[k] # NoSession, CleanupSession(k),
         UNCHANGED <<created, session, poll, delivered, server>>,
         expiring' \in [Keys -> Nat],
         ender' \in [Enders -> {IdleEnder} \cup [pc : {"end"}, key : Keys]]
  PROVE  SMInv'
<1> DEFINE o == sessions[k]
<1> DEFINE u == session[o].user
<1>1. /\ o \in 1..created
      /\ u \in Users
      /\ session[o].key = k
      /\ o \notin done
  BY BoundsAssumption, SMT DEF SMInv, SMTypeOK, BoundSessionsOpen, NoSession
<1>2. /\ armed' = armed \ {k}
      /\ done' = done \cup {o}
      /\ events' = [events EXCEPT ![o] = IF @ = NoEvent THEN ErrorEvent ELSE @]
      /\ userSessions' = [userSessions EXCEPT ![u] = {x \in @ : session[x].key # k}]
      /\ sessions' = [sessions EXCEPT ![k] = NoSession]
  BY DEF CleanupSession
<1> HIDE DEF o, u
<1>3. SMTypeOK'
  <2>1. events' \in [Ids -> Events]
    BY <1>2 DEF SMInv, SMTypeOK, Events
  <2>2. sessions' \in [Keys -> 0..created]
    BY <1>2, BoundsAssumption, SMT DEF SMInv, SMTypeOK, NoSession
  <2>3. userSessions' \in [Users -> SUBSET (1..created)]
    BY <1>2 DEF SMInv, SMTypeOK
  <2> QED
    BY <1>1, <1>2, <2>1, <2>2, <2>3 DEF SMInv, SMTypeOK
<1>4. ASSUME NEW j \in Keys, sessions'[j] # NoSession
      PROVE  /\ j # k
             /\ sessions'[j] = sessions[j]
             /\ sessions[j] \in 1..created
             /\ session[sessions[j]].key = j
             /\ sessions[j] # o
  <2>1. j # k /\ sessions'[j] = sessions[j]
    BY <1>2, <1>4 DEF SMInv, SMTypeOK
  <2>2. sessions[j] \in 1..created /\ session[sessions[j]].key = j
    BY <1>4, <2>1, BoundsAssumption, SMT DEF SMInv, SMTypeOK, BoundSessionsOpen, NoSession
  <2> QED
    BY <1>1, <2>1, <2>2
<1>5. BoundSessionsOpen'
  BY <1>2, <1>4, SMT DEF SMInv, BoundSessionsOpen
<1>6. ASSUME NEW v \in Users
      PROVE  /\ userSessions'[v] \subseteq userSessions[v]
             /\ \A x \in userSessions[v] : session[x].key # k => x \in userSessions'[v]
             /\ v = u => \A x \in userSessions'[v] : session[x].key # k
  BY <1>1, <1>2 DEF SMInv, SMTypeOK
<1>7. ListInv'
  <2>1. ASSUME NEW v \in Users
        PROVE  Cardinality(userSessions'[v]) <= MaxSessionsPerUser
    BY <1>6, ShorterList DEF SMInv, ListInv
  <2>2. ASSUME NEW v \in Users, NEW x \in userSessions'[v]
        PROVE  /\ session[x].user = v
               /\ KeysUnshared => sessions'[session[x].key] # NoSession
    <3>1. x \in userSessions[v] /\ x \in 1..created
      BY <1>6 DEF SMInv, SMTypeOK
    <3>2. session[x].user = v
      BY <3>1 DEF SMInv, ListInv
    <3>3. ASSUME KeysUnshared PROVE sessions'[session[x].key] # NoSession
      <4>1. session[x].key # k
        <5> SUFFICES ASSUME session[x].key = k PROVE FALSE
          OBVIOUS
        <5>1. session[o].user = v
          BY <1>1, <3>1, <3>3, ListedOwner, SMT
        <5> QED
          BY <1>6, <5>1 DEF u
      <4>2. session[x].key \in Keys /\ sessions[session[x].key] # NoSession
        BY <3>1, <3>3 DEF SMInv, SMTypeOK, ListInv, ListedKeysBound
      <4> QED
        BY <1>2, <4>1, <4>2 DEF SMInv, SMTypeOK
    <3> QED
      BY <3>2, <3>3
  <2>3. ASSUME NEW j \in Keys, sessions'[j] # NoSession
        PROVE  sessions'[j] \in userSessions'[session[sessions'[j]].user]
    <3>1. session[sessions[j]].user \in Users
      BY <1>4, <2>3 DEF SMInv, SMTypeOK
    <3>2. sessions[j] \in userSessions[session[sessions[j]].user]
      BY <1>4, <2>3 DEF SMInv, ListInv
    <3> QED
      BY <1>4, <1>6, <2>3, <3>1, <3>2, SMT
  <2> QED
    BY <2>1, <2>2, <2>3 DEF SMInv, ListInv, ListedKeysBound, KeysUnshared
<1> QED
  BY <1>3, <1>5, <1>7 DEF SMInv

\* EndSession and ExpireSession do nothing when the key is not bound.
LEMMA EndOrExpireInv ==
  ASSUME SMInv, NEW k \in Keys, EndOrExpire(k),
         UNCHANGED <<created, session, poll, delivered, server>>,
         expiring' \in [Keys -> Nat],
         ender' \in [Enders -> {IdleEnder} \cup [pc : {"end"}, key : Keys]]
  PROVE  SMInv'
<1>1. CASE sessions[k] = NoSession
  <2>1. UNCHANGED <<armed, done, events, userSessions, sessions>>
    BY <1>1 DEF EndOrExpire
  <2>2. SMTypeOK'
    BY <2>1 DEF SMInv, SMTypeOK
  <2> QED
    BY <2>1, <2>2, MapUnchanged DEF mapVars
<1>2. CASE sessions[k] # NoSession
  BY <1>2, CleanupInv DEF EndOrExpire
<1> QED
  BY <1>1, <1>2

\* Shutdown cleans up every bound key.
LEMMA ShutdownInv ==
  ASSUME SMInv, Shutdown
  PROVE  SMInv'
<1>1. /\ armed' = {}
      /\ server' = "stopped"
      /\ done' = done \cup Bound
      /\ sessions' = [k \in Keys |-> NoSession]
      /\ UNCHANGED <<created, session, expiring, poll, ender, delivered>>
  BY DEF Shutdown
<1>2. Bound \subseteq 1..created
  BY BoundsAssumption, SMT DEF SMInv, SMTypeOK, Bound, NoSession
<1>3. ASSUME NEW u \in Users
      PROVE  /\ userSessions'[u] \subseteq userSessions[u]
             /\ \A x \in userSessions'[u] :
                  ~ \E o \in Bound : /\ session[o].user = u
                                     /\ session[o].key = session[x].key
  BY DEF Shutdown
<1>4. SMTypeOK'
  <2>1. events' \in [Ids -> Events]
    BY DEF Shutdown, SMInv, SMTypeOK, Events
  <2>2. userSessions' \in [Users -> SUBSET (1..created)]
    BY DEF Shutdown, SMInv, SMTypeOK
  <2>3. sessions' \in [Keys -> 0..created]
    BY <1>1, BoundsAssumption, SMT DEF SMInv, SMTypeOK, NoSession
  <2> QED
    BY <1>1, <1>2, <2>1, <2>2, <2>3 DEF SMInv, SMTypeOK
<1>5. BoundSessionsOpen'
  BY <1>1 DEF BoundSessionsOpen
<1>6. ListInv'
  <2>1. ASSUME NEW u \in Users
        PROVE  Cardinality(userSessions'[u]) <= MaxSessionsPerUser
    BY <1>3, ShorterList DEF SMInv, ListInv
  <2>2. ASSUME NEW u \in Users, NEW x \in userSessions'[u]
        PROVE  session[x].user = u /\ ~KeysUnshared
    <3>1. x \in userSessions[u] /\ x \in 1..created
      BY <1>3 DEF SMInv, SMTypeOK
    <3>2. session[x].user = u
      BY <3>1 DEF SMInv, ListInv
    <3>3. ASSUME KeysUnshared PROVE FALSE
      <4> DEFINE o == sessions[session[x].key]
      <4>1. session[x].key \in Keys /\ o # NoSession
        BY <3>1, <3>3 DEF SMInv, SMTypeOK, ListInv, ListedKeysBound
      <4>2. o \in Bound /\ session[o].key = session[x].key
        BY <4>1 DEF SMInv, BoundSessionsOpen, Bound
      <4>3. o \in 1..created
        BY <1>2, <4>2
      <4>4. session[o].user = u
        BY <3>1, <3>3, <4>2, <4>3, ListedOwner
      <4> QED
        BY <1>3, <4>2, <4>4
    <3> QED
      BY <3>2, <3>3
  <2> QED
    BY <1>1, <2>1, <2>2 DEF SMInv, ListInv, ListedKeysBound, KeysUnshared
<1> QED
  BY <1>4, <1>5, <1>6 DEF SMInv

-----------------------------------------------------------------------------
(* The theorems                                                            *)

\* Every step of the session manager keeps the invariant.
LEMMA NextInv == SMInv /\ [SMNext]_smVars => SMInv'
<1> SUFFICES ASSUME SMInv, [SMNext]_smVars PROVE SMInv'
  OBVIOUS
<1>1. ASSUME NEW u \in Users, NEW k \in Keys, CreateSession(u, k) PROVE SMInv'
  BY <1>1, CreateInv
<1>2. ASSUME NEW u \in Users, NEW k \in Keys,
             \/ \E p \in Polls : HandleEvents(p, u, k)
             \/ \E e \in Enders : HandleEndSession(e, u, k)
      PROVE  SMInv'
  BY <1>2, HandlerInv
<1>3. ASSUME NEW p \in Polls, PollStep(p) PROVE SMInv'
  BY <1>3, PollStepInv
<1>4. ASSUME NEW e \in Enders, EndSession(e) PROVE SMInv'
  <2>1. ender[e].key \in Keys
    BY <1>4, SMT DEF EndSession, SMInv, SMTypeOK, IdleEnder
  <2>2. ender' \in [Enders -> {IdleEnder} \cup [pc : {"end"}, key : Keys]]
    BY <1>4 DEF EndSession, SMInv, SMTypeOK
  <2>3. expiring' \in [Keys -> Nat]
    BY <1>4 DEF EndSession, SMInv, SMTypeOK
  <2> QED
    BY <1>4, <2>1, <2>2, <2>3, EndOrExpireInv DEF EndSession
<1>5. ASSUME NEW k \in Keys, TimerFires(k) PROVE SMInv'
  <2>1. SMTypeOK'
    BY <1>5, SMT DEF TimerFires, SMInv, SMTypeOK
  <2> QED
    BY <1>5, <2>1, MapUnchanged DEF TimerFires, mapVars
<1>6. ASSUME NEW k \in Keys, ExpireSession(k) PROVE SMInv'
  <2>1. expiring' \in [Keys -> Nat]
    BY <1>6, SMT DEF ExpireSession, SMInv, SMTypeOK
  <2>2. ender' \in [Enders -> {IdleEnder} \cup [pc : {"end"}, key : Keys]]
    BY <1>6 DEF ExpireSession, SMInv, SMTypeOK
  <2> QED
    BY <1>6, <2>1, <2>2, EndOrExpireInv DEF ExpireSession
<1>7. CASE StopAccepting
  <2>1. SMTypeOK'
    BY <1>7 DEF StopAccepting, SMInv, SMTypeOK
  <2> QED
    BY <1>7, <2>1, MapUnchanged DEF StopAccepting, mapVars
<1>8. CASE Shutdown
  BY <1>8, ShutdownInv
<1>9. ASSUME NEW o \in Ids, NEW t \in Txs, PublishEvent(o, t) PROVE SMInv'
  <2>1. events' \in [Ids -> Events]
    BY <1>9 DEF PublishEvent, SMInv, SMTypeOK, Events
  <2>2. SMTypeOK'
    BY <1>9, <2>1 DEF PublishEvent, SMInv, SMTypeOK
  <2> QED
    BY <1>9, <2>2, MapUnchanged DEF PublishEvent, mapVars
<1>10. CASE UNCHANGED smVars
  <2>1. SMTypeOK'
    BY <1>10 DEF smVars, SMInv, SMTypeOK
  <2> QED
    BY <1>10, <2>1, MapUnchanged DEF smVars, mapVars
<1> QED
  BY <1>1, <1>2, <1>3, <1>4, <1>5, <1>6, <1>7, <1>8, <1>9, <1>10
  DEF SMNext, Requests, Internal

\* Every reachable state of the session lifecycle is well typed.
THEOREM SessionTypes == SMSpec => []SMTypeOK
<1>1. SMInv => SMTypeOK
  BY DEF SMInv
<1> QED
  BY InitInv, NextInv, <1>1, PTL DEF SMSpec

\* cleanupSessionLocked never closes a Done channel twice: the object bound to a
\* key is bound to that key only and is open, however keys are re-created.
THEOREM DoneClosedOnce == SMSpec => []BoundSessionsOpen
<1>1. SMInv => BoundSessionsOpen
  BY DEF SMInv
<1> QED
  BY InitInv, NextInv, <1>1, PTL DEF SMSpec

\* The limit counts every session of a user and is kept, even when sessions
\* are bound over one another and several users claim one key.
THEOREM SessionsLimited == SMSpec => []SessionCap
<1>1. SMInv => SessionCap
  <2> SUFFICES ASSUME SMInv, NEW u \in Users
               PROVE  /\ LiveSessions(u) \subseteq userSessions[u]
                      /\ Cardinality(userSessions[u]) <= MaxSessionsPerUser
    BY DEF SessionCap
  <2>1. LiveSessions(u) \subseteq userSessions[u]
    BY SMT DEF SMInv, ListInv, LiveSessions, Bound
  <2> QED
    BY <2>1 DEF SMInv, ListInv
<1> QED
  BY InitInv, NextInv, <1>1, PTL DEF SMSpec

\* The per-user lists hold no key that is gone, if users do not share keys.
THEOREM NoPlaceLeaks == SMSpec => []ListedKeysBound
<1>1. SMInv => ListedKeysBound
  BY DEF SMInv, ListInv
<1> QED
  BY InitInv, NextInv, <1>1, PTL DEF SMSpec

-----------------------------------------------------------------------------
(* Expiry is never lost.                                                   *)

\* A long-poll that is not idle stays so, on its key, while the key is bound,
\* until it starts the key's timer.
LEMMA PollStepCovers ==
  ASSUME SMInv, NEW p \in Polls, PollStep(p), NEW k \in Keys,
         sessions[k] # NoSession
  PROVE  KeepsCovered(k)
<1> SUFFICES ASSUME Covered(k) PROVE Covered(k)'
  BY DEF KeepsCovered
<1> USE DEF Covered
<1>1. CASE poll[p].key = k /\ poll[p].pc # "idle"
  <2>1. CASE PollReturn(p)
    BY <1>1, <2>1 DEF PollReturn, StartSessionTimer
  <2>2. CASE PollReset(p)
    BY <1>1, <2>2, SMT DEF PollReset, SMInv, SMTypeOK
  <2>3. CASE PollGetSession(p)
    BY <1>1, <2>3 DEF PollGetSession, SMInv, SMTypeOK
  <2>4. CASE PollEvent(p)
    BY <1>1, <2>4, SMT DEF PollEvent, SMInv, SMTypeOK
  <2>5. CASE PollDone(p)
    BY <1>1, <2>5, SMT DEF PollDone, SMInv, SMTypeOK
  <2>6. CASE PollCancel(p)
    BY <1>1, <2>6, SMT DEF PollCancel, SMInv, SMTypeOK
  <2> QED
    BY <2>1, <2>2, <2>3, <2>4, <2>5, <2>6 DEF PollStep
<1>2. CASE ~(poll[p].key = k /\ poll[p].pc # "idle")
  <2>1. poll[p].pc # "idle"
    BY DEF PollStep, PollReset, PollGetSession, PollEvent, PollDone, PollCancel, PollReturn
  <2>2. /\ \A q \in Polls : q # p => poll'[q] = poll[q]
        /\ expiring' = expiring
    BY DEF PollStep, PollReset, PollGetSession, PollEvent, PollDone, PollCancel,
           PollReturn, SMInv, SMTypeOK
  <2>3. k \in armed => k \in armed'
    BY <1>2, <2>1 DEF PollStep, PollReset, ResetSessionTimer, PollGetSession, PollEvent,
           PollDone, PollCancel, PollReturn, StartSessionTimer
  <2> QED
    BY <1>2, <2>2, <2>3
<1> QED
  BY <1>1, <1>2

\* Once a session is covered by a timer, a fired timer or a long-poll, it stays
\* covered until its key is unbound or bound to another object.
THEOREM ExpiryNeverLost == SMSpec => StaysCovered
<1>1. ASSUME SMInv, [SMNext]_smVars, NEW k \in Keys PROVE KeepsCovered(k)
  <2> SUFFICES ASSUME Covered(k), sessions'[k] = sessions[k], sessions[k] # NoSession
               PROVE  Covered(k)'
    BY DEF KeepsCovered
  <2>1. ASSUME NEW p \in Polls, PollStep(p) PROVE Covered(k)'
    BY <1>1, <2>1, PollStepCovers DEF KeepsCovered
  <2>2. ASSUME NEW u \in Users, NEW j \in Keys,
               \/ CreateSession(u, j)
               \/ \E p \in Polls : HandleEvents(p, u, j)
               \/ \E e \in Enders : HandleEndSession(e, u, j)
        PROVE  Covered(k)'
    BY <1>1, <2>2, SMT DEF CreateSession, HandleEvents, HandleEndSession, Covered, SMInv, SMTypeOK
  <2>3. ASSUME NEW j \in Keys, EndOrExpire(j)
        PROVE  /\ k \in armed => k \in armed'
               /\ sessions[j] # NoSession => j # k
    BY <1>1, <2>3 DEF EndOrExpire, CleanupSession, SMInv, SMTypeOK
  <2>4. ASSUME NEW e \in Enders, EndSession(e) PROVE Covered(k)'
    <3>1. ender[e].key \in Keys
      BY <1>1, <2>4, SMT DEF EndSession, SMInv, SMTypeOK, IdleEnder
    <3> QED
      BY <2>3, <2>4, <3>1 DEF EndSession, Covered
  <2>5. ASSUME NEW j \in Keys, TimerFires(j) PROVE Covered(k)'
    BY <1>1, <2>5, SMT DEF TimerFires, Covered, SMInv, SMTypeOK
  <2>6. ASSUME NEW j \in Keys, ExpireSession(j) PROVE Covered(k)'
    <3>1. j # k
      BY <1>1, <2>6 DEF ExpireSession, EndOrExpire, CleanupSession, SMInv, SMTypeOK
    <3> QED
      BY <1>1, <2>3, <2>6, <3>1 DEF ExpireSession, Covered, SMInv, SMTypeOK
  <2>7. CASE StopAccepting
    BY <2>7 DEF StopAccepting, Covered
  <2>8. CASE Shutdown
    BY <2>8 DEF Shutdown
  <2>9. ASSUME NEW o \in Ids, NEW t \in Txs, PublishEvent(o, t) PROVE Covered(k)'
    BY <2>9 DEF PublishEvent, Covered
  <2>10. CASE UNCHANGED smVars
    BY <2>10 DEF smVars, Covered
  <2> QED
    BY <1>1, <2>1, <2>2, <2>4, <2>5, <2>6, <2>7, <2>8, <2>9, <2>10
    DEF SMNext, Requests, Internal
<1>2. SMInv /\ [SMNext]_smVars => [\A k \in Keys : KeepsCovered(k)]_smVars
  BY <1>1
<1> QED
  BY InitInv, NextInv, <1>2, PTL DEF SMSpec, StaysCovered

-----------------------------------------------------------------------------
(* The inductive invariant.  A token is known by its transaction, so what  *)
(* a request is answered rests on what is known of the transaction in the  *)
(* cache, which rests on the flow that stored it owning the transaction.   *)

\* Transaction t completed, for resource x, in a session with key k.
TokenOK(t, k, x) ==
  /\ t \in 1..txs
  /\ tx[t].status = "completed"
  /\ tx[t].res = x
  /\ session[tx[t].obj].key = k

\* The flow of a request works on the transaction it started.
FlowOK(q) ==
  /\ q.tx \in 1..txs
  /\ activeTx[q.obj] = q.tx
  /\ tx[q.tx].obj = q.obj
  /\ tx[q.tx].res = q.res
  /\ tx[q.tx].status = IF q.pc \in {"store", "clear"} THEN "completed"
                                                      ELSE "waiting_code"

Deciding == {"discover", "build", "publish", "wait", "exchange", "store"}

ReqOK(r) ==
  LET q == req[r]
  IN /\ q.pc # "idle" \/ q.ans = "200" =>
          <<q.user, q.key>> \in Claims /\ q.res \in Resources
     /\ q.pc \in Holding \cup {"acquire"} =>
          q.obj \in 1..created /\ session[q.obj].key = q.key
     /\ q.pc \in Holding => sem[q.obj] = r
     /\ q.pc \in InFlow => FlowOK(q)
     /\ q.pc \in Deciding =>
          (cache[q.key][q.res] # NoTx => tx[cache[q.key][q.res]].obj # q.obj)
     /\ q.pc = "idle" /\ q.ans = "200" => TokenOK(q.token, q.key, q.res)

CacheOK ==
  \A k \in Keys, x \in Resources : cache[k][x] # NoTx => TokenOK(cache[k][x], k, x)

BInv == SMInv /\ BrokerTypeOK /\ CacheOK /\ \A r \in Reqs : ReqOK(r)

-----------------------------------------------------------------------------
(* What a step of request r on object o leaves alone.                      *)

StepAt(r, o) ==
  /\ created <= created'
  /\ \A p \in 1..created : session'[p] = session[p]
  /\ \A q \in Reqs \ {r} : req'[q] = req[q] /\ (req[q].pc \in Holding => req[q].obj # o)
  /\ \A p \in Ids \ {o} : sem'[p] = sem[p] /\ activeTx'[p] = activeTx[p]
  /\ txs <= txs'
  /\ \A t \in 1..txs : /\ tx'[t].obj = tx[t].obj
                       /\ tx'[t].res = tx[t].res
                       /\ tx[t].status = "completed" \/ tx[t].obj # o =>
                            tx'[t].status = tx[t].status
  /\ \A k \in Keys, x \in Resources :
        \/ cache'[k][x] \in {cache[k][x], NoTx}
        \/ tx'[cache'[k][x]].obj = o

\* A completed token stays what it is.
LEMMA TokenKept ==
  ASSUME BInv, NEW r, NEW o, StepAt(r, o), SMTypeOK', BrokerTypeOK',
         NEW t, NEW k, NEW x, TokenOK(t, k, x)
  PROVE  TokenOK(t, k, x)'
<1>1. /\ t \in 1..txs
      /\ created \in Nat /\ created' \in Nat /\ txs \in Nat /\ txs' \in Nat
  <2>1. /\ created \in 0..MaxCreates /\ created' \in 0..MaxCreates
        /\ txs \in 0..MaxTxs /\ txs' \in 0..MaxTxs
    BY Zenon DEF BInv, SMInv, SMTypeOK, BrokerTypeOK
  <2>2. t \in 1..txs
    BY Zenon DEF TokenOK
  <2> QED
    BY <2>1, <2>2, BoundsAssumption, SMT
<1>2. tx[t].obj \in 1..created
  BY <1>1 DEF BInv, BrokerTypeOK, TxRecord
<1> QED
  BY <1>1, <1>2, SMT DEF TokenOK, StepAt

\* The other requests are not disturbed: a step on o does not touch what the
\* holder of another object's semaphore relies on.
LEMMA OthersKept ==
  ASSUME BInv, NEW r, NEW o, StepAt(r, o), SMTypeOK', BrokerTypeOK',
         NEW q \in Reqs \ {r}
  PROVE  ReqOK(q)'
<1>1. /\ created \in Nat /\ created' \in Nat /\ txs \in Nat /\ txs' \in Nat
      /\ created <= MaxCreates /\ MaxCreates \in Nat
  <2>1. /\ created \in 0..MaxCreates /\ created' \in 0..MaxCreates
        /\ txs \in 0..MaxTxs /\ txs' \in 0..MaxTxs
    BY Zenon DEF BInv, SMInv, SMTypeOK, BrokerTypeOK
  <2> QED
    BY <2>1, BoundsAssumption, SMT
<1>2. ReqOK(q) /\ req[q] \in ReqRecord /\ req'[q] = req[q]
  BY DEF BInv, BrokerTypeOK, StepAt
<1>3. created <= created' /\ \A p \in 1..created : session'[p] = session[p]
  BY DEF StepAt
<1>4. ASSUME req[q].pc \in Holding
      PROVE  /\ req[q].obj \in 1..created
             /\ req[q].obj # o
             /\ sem'[req[q].obj] = sem[req[q].obj]
             /\ activeTx'[req[q].obj] = activeTx[req[q].obj]
  <2>1. req[q].obj \in 1..created /\ req[q].obj # o
    BY <1>2, <1>4 DEF ReqOK, StepAt
  <2> QED
    BY <1>1, <2>1, SMT DEF StepAt, Ids
<1>5. ASSUME req[q].pc \in InFlow PROVE FlowOK(req[q])'
  <2>1. FlowOK(req[q]) /\ req[q].pc \in Holding
    BY <1>2, <1>5 DEF ReqOK, InFlow, Holding
  <2>2. req[q].tx \in 1..txs /\ req[q].tx \in 1..txs'
    BY <1>1, <2>1, SMT DEF FlowOK, StepAt
  <2> QED
    <3>1. /\ tx'[req[q].tx].obj = tx[req[q].tx].obj
          /\ tx'[req[q].tx].res = tx[req[q].tx].res
          /\ tx[req[q].tx].obj # o => tx'[req[q].tx].status = tx[req[q].tx].status
      BY <2>2, Zenon DEF StepAt
    <3>2. tx[req[q].tx].obj # o
      BY <1>4, <2>1, Zenon DEF FlowOK
    <3> QED
      BY <1>2, <1>4, <2>1, <2>2, <3>1, <3>2, SMT DEF FlowOK
<1>6. ASSUME req[q].pc \in Deciding, cache'[req[q].key][req[q].res] # NoTx
      PROVE  tx'[cache'[req[q].key][req[q].res]].obj # req[q].obj
  <2> DEFINE new == cache'[req[q].key][req[q].res]
             old == cache[req[q].key][req[q].res]
  <2>1. req[q].pc \in Holding
    BY <1>6 DEF Deciding, Holding
  <2>2. req[q].key \in Keys /\ req[q].res \in Resources
    BY <1>2, <1>6, ClaimsAssumption DEF ReqOK, Deciding
  <2>3. new = old \/ tx'[new].obj = o
    BY <1>6, <2>2, Zenon DEF StepAt
  <2>4. CASE new = old
    <3>1. old \in 1..txs
      <4>1. old \in 0..txs
        BY <2>2, Zenon DEF BInv, BrokerTypeOK
      <4>2. old # 0
        BY <1>6, <2>4, Zenon DEF NoTx
      <4> HIDE DEF old
      <4> QED
        BY <1>1, <4>1, <4>2, SMT
    <3>2. tx[old].obj # req[q].obj
      BY <1>2, <1>6, <2>4 DEF ReqOK
    <3> QED
      BY <2>4, <3>1, <3>2 DEF StepAt
  <2> QED
    BY <1>4, <2>1, <2>3, <2>4
<1>7. ASSUME req[q].pc = "idle", req[q].ans = "200"
      PROVE  TokenOK(req[q].token, req[q].key, req[q].res)'
  <2>1. TokenOK(req[q].token, req[q].key, req[q].res)
    BY <1>2, <1>7 DEF ReqOK
  <2>2. \A t, k, x : TokenOK(t, k, x) => /\ t \in 1..txs'
                                        /\ tx'[t].status = "completed"
                                        /\ tx'[t].res = x
                                        /\ session'[tx'[t].obj].key = k
    BY TokenKept, SMT DEF TokenOK
  <2> QED
    <3>1. /\ req[q].token \in 1..txs'
          /\ tx'[req[q].token].status = "completed"
          /\ tx'[req[q].token].res = req[q].res
          /\ session'[tx'[req[q].token].obj].key = req[q].key
      BY <2>1, <2>2, SMT
    <3>2. req'[q] = req[q]
      BY <1>2, Zenon
    <3> QED
      BY <3>1, <3>2, SMT DEF TokenOK
<1>8. req[q].pc \in Holding \cup {"acquire"} =>
        req[q].obj \in 1..created' /\ session'[req[q].obj].key = req[q].key
  <2>1. req[q].pc \in Holding \cup {"acquire"} =>
          req[q].obj \in 1..created /\ session[req[q].obj].key = req[q].key
    BY <1>2 DEF ReqOK
  <2>2. 1..created \subseteq 1..created'
    BY <1>1, <1>3, SMT
  <2> QED
    BY <1>3, <2>1, <2>2
<1>9. req[q].pc \in Holding => sem'[req[q].obj] = q
  BY <1>2, <1>4 DEF ReqOK
<1> QED
  BY <1>2, <1>5, <1>6, <1>7, <1>8, <1>9 DEF ReqOK, FlowOK

\* The cache stays right when entries are only removed.
LEMMA CacheKept ==
  ASSUME BInv, NEW r, NEW o, StepAt(r, o), SMTypeOK', BrokerTypeOK',
         \A k \in Keys, x \in Resources : cache'[k][x] \in {cache[k][x], NoTx}
  PROVE  CacheOK'
<1> SUFFICES ASSUME NEW k \in Keys, NEW x \in Resources, cache'[k][x] # NoTx
             PROVE  /\ cache'[k][x] \in 1..txs'
                    /\ tx'[cache'[k][x]].status = "completed"
                    /\ tx'[cache'[k][x]].res = x
                    /\ session'[tx'[cache'[k][x]].obj].key = k
  BY DEF CacheOK, TokenOK
<1>1. TokenOK(cache[k][x], k, x) /\ cache'[k][x] = cache[k][x]
  BY DEF BInv, CacheOK
<1>2. \A w : TokenOK(w, k, x) => /\ w \in 1..txs'
                                /\ tx'[w].status = "completed"
                                /\ tx'[w].res = x
                                /\ session'[tx'[w].obj].key = k
  BY TokenKept, SMT DEF TokenOK
<1> QED
  BY <1>1, <1>2

\* A step keeps the invariant if it keeps the types, leaves the other requests
\* alone, and is right about its own request and the cache.
LEMMA StepInv ==
  ASSUME BInv, SMInv', BrokerTypeOK', CacheOK', NEW r, NEW o, StepAt(r, o),
         r \in Reqs => ReqOK(r)'
  PROVE  BInv'
<1>1. \A q \in Reqs \ {r} : ReqOK(q)'
  BY OthersKept DEF SMInv
<1> QED
  BY <1>1 DEF BInv

-----------------------------------------------------------------------------
(* How the updates of a request and of a transaction read afterwards.      *)

\* A request that goes on has only moved its program counter.
LEMMA GoToReq ==
  ASSUME BrokerTypeOK, NEW r \in Reqs, NEW pc \in ReqPCs, GoTo(r, pc)
  PROVE  /\ req' \in [Reqs -> ReqRecord]
         /\ \A q \in Reqs \ {r} : req'[q] = req[q]
         /\ req'[r].pc = pc
         /\ req'[r].key = req[r].key /\ req'[r].user = req[r].user
         /\ req'[r].res = req[r].res /\ req'[r].obj = req[r].obj
         /\ req'[r].tx = req[r].tx
<1> DEFINE new == [req[r] EXCEPT !.pc = pc]
<1>1. req[r] \in ReqRecord
  BY DEF BrokerTypeOK
<1>2. req' = [req EXCEPT ![r] = new]
  BY DEF GoTo
<1>3. /\ new \in ReqRecord
      /\ new.pc = pc
      /\ new.key = req[r].key /\ new.user = req[r].user /\ new.res = req[r].res
      /\ new.obj = req[r].obj /\ new.tx = req[r].tx
  BY <1>1 DEF ReqRecord
<1> HIDE DEF new
<1> QED
  BY <1>2, <1>3 DEF BrokerTypeOK

\* A request that has been answered keeps what it asked for.
LEMMA AnswerReq ==
  ASSUME BrokerTypeOK, SMTypeOK, NEW r \in Reqs, NEW ans \in Answers,
         NEW token \in 0..txs, Answer(r, ans, token)
  PROVE  /\ req' \in [Reqs -> ReqRecord]
         /\ \A q \in Reqs \ {r} : req'[q] = req[q]
         /\ req'[r].pc = "idle" /\ req'[r].ans = ans /\ req'[r].token = token
         /\ req'[r].key = req[r].key /\ req'[r].user = req[r].user
         /\ req'[r].res = req[r].res
<1> DEFINE new == [pc |-> "idle", key |-> req[r].key, user |-> req[r].user,
                   res |-> req[r].res, obj |-> NoSession, tx |-> NoTx,
                   code |-> NoTx, ans |-> ans, token |-> token]
<1>1. req[r] \in ReqRecord
  BY DEF BrokerTypeOK
<1>2. req' = [req EXCEPT ![r] = new]
  BY DEF Answer
<1>3. new \in ReqRecord
  BY <1>1, BoundsAssumption, SMT DEF ReqRecord, NoSession, NoTx, SMTypeOK, BrokerTypeOK
<1> QED
  BY <1>2, <1>3 DEF BrokerTypeOK

\* A cache entry is a transaction or none.
LEMMA CacheTyped ==
  ASSUME BrokerTypeOK, NEW k \in Keys, NEW x \in Resources
  PROVE  cache[k][x] \in 0..txs
<1>1. cache \in [Keys -> [Resources -> 0..txs]]
  BY DEF BrokerTypeOK
<1> QED
  BY <1>1, SMT

\* What a step on object o may do to the transactions.
TxStep(o) ==
  /\ txs' = txs
  /\ tx' \in [Txs -> {UnusedTx} \cup TxRecord]
  /\ \A t \in 1..txs : /\ tx'[t] \in TxRecord
                       /\ tx'[t].obj = tx[t].obj /\ tx'[t].res = tx[t].res
                       /\ tx[t].status = "completed" \/ tx[t].obj # o =>
                            tx'[t].status = tx[t].status

\* Setting the status of a transaction that has not completed.
LEMMA StatusTx ==
  ASSUME BrokerTypeOK, txs' = txs, NEW t \in 1..txs, tx[t].status = "waiting_code",
         NEW status \in {"waiting_code", "completed", "failed"}, SetStatus(t, status)
  PROVE  TxStep(tx[t].obj) /\ tx'[t].status = status
<1>1. t \in Txs /\ tx[t] \in TxRecord
  BY BoundsAssumption, SMT DEF BrokerTypeOK, Txs
<1> QED
  BY <1>1, SMT DEF SetStatus, BrokerTypeOK, TxRecord, TxStep

\* Setting the state of a transaction.
LEMMA StateTx ==
  ASSUME BrokerTypeOK, txs' = txs, NEW t \in 1..txs, tx' = [tx EXCEPT ![t].state = "set"]
  PROVE  TxStep(NoSession) /\ TxStep(tx[t].obj) /\ tx'[t].status = tx[t].status
<1>1. t \in Txs /\ tx[t] \in TxRecord
  BY BoundsAssumption, SMT DEF BrokerTypeOK, Txs
<1> QED
  BY <1>1, SMT DEF BrokerTypeOK, TxRecord, TxStep

\* Filling or emptying the completion channel of a transaction.
LEMMA ChanTx ==
  ASSUME BrokerTypeOK, txs' = txs, NEW t \in 1..txs, NEW code \in 0..txs,
         tx' = [tx EXCEPT ![t].chan = code]
  PROVE  TxStep(NoSession) /\ TxStep(tx[t].obj) /\ tx'[t].status = tx[t].status
<1>1. t \in Txs /\ tx[t] \in TxRecord
  BY BoundsAssumption, SMT DEF BrokerTypeOK, Txs
<1> QED
  BY <1>1, SMT DEF BrokerTypeOK, TxRecord, TxStep

-----------------------------------------------------------------------------
(* The session manager inside the broker.                                  *)

\* A step of the broker is a step of the session manager, or none: only the flow
\* reaches into a session, when it publishes its URL.
LEMMA NextSM == BInv /\ [Next]_vars => [SMNext]_smVars
<1> SUFFICES ASSUME BInv, [Next]_vars PROVE [SMNext]_smVars
  OBVIOUS
<1>1. ASSUME NEW r \in Reqs, PublishUrlReady(r) PROVE SMNext
  <2>1. req[r].obj \in 1..created /\ req[r].tx \in 1..txs
    BY <1>1 DEF PublishUrlReady, BInv, ReqOK, FlowOK, Holding, InFlow
  <2>2. req[r].obj \in Ids /\ req[r].tx \in Txs
    <3>1. created \in 0..MaxCreates /\ txs \in 0..MaxTxs
      BY DEF BInv, SMInv, SMTypeOK, BrokerTypeOK
    <3> QED
      BY <2>1, <3>1, BoundsAssumption, SMT DEF Ids, Txs
  <2> QED
    BY <1>1, <2>2 DEF PublishUrlReady, SMNext
<1>2. ASSUME NEW r \in Reqs, AcquireStep(r) PROVE UNCHANGED smVars
  BY <1>2 DEF AcquireStep, AcquireValidate, CacheLookup, AcquireGetSession,
       AcquireSemaphore, AcquireCancelled, CacheRecheck
<1>3. ASSUME NEW r \in Reqs, FlowStep(r), ~PublishUrlReady(r) PROVE UNCHANGED smVars
  BY <1>3 DEF FlowStep, StartTransaction, StartFails, BuildAuthorizationURL, BuildFails,
       PublishNoWaiter, PublishCancelled, ReceiveCode, WaitTimeout, WaitSessionDone,
       WaitCancelled, WaitFails, ExchangeToken, ExchangeFails, SetToken, ClearTransaction
<1>4. ASSUME NEW c \in Callbacks, CallbackStep(c) PROVE UNCHANGED smVars
  BY <1>4 DEF CallbackStep, CallbackValidate, CallbackGetSession, CallbackCheckTx, CallbackSend
<1>5. ASSUME NEW r \in Reqs, NEW u \in Users, NEW k \in Keys, NEW x \in Resources,
             HandleGetToken(r, u, k, x)
      PROVE  UNCHANGED smVars
  BY <1>5 DEF HandleGetToken
<1>6. ASSUME NEW c \in Callbacks, NEW t \in Txs, HandleOAuthCallback(c, t)
      PROVE  UNCHANGED smVars
  BY <1>6 DEF HandleOAuthCallback
<1>7. ASSUME NEW k \in Keys, NEW x \in Resources, TokenExpires(k, x)
      PROVE  UNCHANGED smVars
  BY <1>7 DEF TokenExpires
<1>8. CASE SessionStep
  BY <1>8 DEF SessionStep, SMNext
<1>9. CASE UNCHANGED vars
  BY <1>9 DEF vars
<1>10. CASE BrokerStep
  BY <1>1, <1>2, <1>3, <1>4, <1>5, <1>6, <1>7, <1>10, SMT DEF BrokerStep
<1> QED
  BY <1>8, <1>9, <1>10 DEF Next

-----------------------------------------------------------------------------
(* Steps before and after the flow.                                        *)

\* The numbers of objects and transactions.
LEMMA Numbers ==
  ASSUME BInv
  PROVE  /\ created \in Nat /\ txs \in Nat /\ MaxCreates \in Nat /\ MaxTxs \in Nat
         /\ created <= MaxCreates /\ txs <= MaxTxs
         /\ 1..created \subseteq Ids /\ 1..txs \subseteq Txs
         /\ created <= created /\ txs <= txs
         /\ 0..created = (1..created) \cup {NoSession} /\ NoSession \notin 1..created
         /\ 0..txs = (1..txs) \cup {NoTx} /\ NoTx \notin 1..txs
<1>1. created \in 0..MaxCreates /\ txs \in 0..MaxTxs
  BY DEF BInv, SMInv, SMTypeOK, BrokerTypeOK
<1> QED
  BY <1>1, BoundsAssumption, SMT DEF Ids, Txs, NoSession, NoTx

\* A request that holds no semaphore does not get in the way of one that does.
LEMMA QuietStep ==
  ASSUME BInv, NEW r, UNCHANGED <<created, session, sem, activeTx, txs, tx>>,
         \A q \in Reqs \ {r} : req'[q] = req[q],
         \A k \in Keys, x \in Resources : cache'[k][x] \in {cache[k][x], NoTx}
  PROVE  StepAt(r, NoSession)
<1>1. \A q \in Reqs : req[q].pc \in Holding => req[q].obj # NoSession
  <2> TAKE q \in Reqs
  <2>1. ReqOK(q)
    BY DEF BInv
  <2> QED
    BY <2>1, Numbers DEF ReqOK
<1> QED
  BY <1>1, Numbers DEF StepAt

\* A request past the semaphore is the one in it.
LEMMA HolderInSem ==
  ASSUME BInv
  PROVE  \A q \in Reqs : req[q].pc \in Holding => sem[req[q].obj] = q
BY DEF BInv, ReqOK

\* Two requests do not hold the semaphore of one object.
LEMMA HolderAlone ==
  ASSUME BInv, NEW r \in Reqs, req[r].pc \in Holding
  PROVE  \A q \in Reqs \ {r} : req[q].pc \in Holding => req[q].obj # req[r].obj
BY HolderInSem

\* A request that holds the semaphore is answered and releases it, whatever it did
\* to the transactions of its object.
LEMMA ReleaseInv ==
  ASSUME BInv, SMInv', NEW r \in Reqs, req[r].pc \in Holding,
         NEW ans \in Answers, NEW token \in 0..txs, Answer(r, ans, token), Release(r),
         UNCHANGED <<created, session, cache, callback>>,
         activeTx' \in [Ids -> 0..txs],
         \A p \in Ids \ {req[r].obj} : activeTx'[p] = activeTx[p],
         TxStep(req[r].obj),
         ans = "200" => TokenOK(token, req[r].key, req[r].res)
  PROVE  BInv'
<1> DEFINE o == req[r].obj
<1>1. ReqOK(r) /\ BrokerTypeOK /\ SMTypeOK /\ SMTypeOK'
  BY DEF BInv, SMInv
<1>2. /\ o \in Ids
      /\ <<req[r].user, req[r].key>> \in Claims /\ req[r].res \in Resources
  BY <1>1, Numbers DEF ReqOK, Holding
<1>3. /\ req' \in [Reqs -> ReqRecord]
      /\ \A q \in Reqs \ {r} : req'[q] = req[q]
      /\ req'[r].pc = "idle" /\ req'[r].ans = ans /\ req'[r].token = token
      /\ req'[r].key = req[r].key /\ req'[r].user = req[r].user
      /\ req'[r].res = req[r].res
  BY <1>1, AnswerReq
<1>4. /\ sem' \in [Ids -> Reqs \cup {NoReq}]
      /\ \A p \in Ids \ {o} : sem'[p] = sem[p]
  BY <1>1, <1>2 DEF Release, BrokerTypeOK
<1>5. BrokerTypeOK'
  BY <1>1, <1>3, <1>4 DEF BrokerTypeOK, ReqRecord, TxRecord, TxStep
<1>6. StepAt(r, o)
  <2>1. created <= created' /\ txs <= txs'
    BY Numbers DEF TxStep
  <2>2. \A q \in Reqs \ {r} : req[q].pc \in Holding => req[q].obj # o
    BY HolderAlone
  <2> QED
    BY <1>3, <1>4, <2>1, <2>2 DEF StepAt, TxStep
<1>7. CacheOK'
  BY <1>1, <1>5, <1>6, CacheKept
<1>8. ReqOK(r)'
  <2>1. ASSUME NEW k, NEW x, TokenOK(token, k, x) PROVE TokenOK(token, k, x)'
    BY <1>1, <1>5, <1>6, <2>1, TokenKept
  <2>2. ans = "200" => /\ token \in 1..txs'
                       /\ tx'[token].status = "completed"
                       /\ tx'[token].res = req[r].res
                       /\ session'[tx'[token].obj].key = req[r].key
    BY <2>1 DEF TokenOK
  <2>3. req'[r].pc \notin Holding \cup InFlow \cup Deciding \cup {"acquire"}
    BY <1>3 DEF Holding, InFlow, Deciding
  <2>4. req'[r].ans = "200" => TokenOK(req[r].token, req[r].key, req[r].res)'
    BY <1>3, <2>2 DEF TokenOK
  <2> QED
    BY <1>2, <1>3, <2>3, <2>4 DEF ReqOK
<1> QED
  BY <1>5, <1>6, <1>7, <1>8, StepInv

\* The steps of AcquireToken around the flow.
LEMMA AcquireInv ==
  ASSUME BInv, SMInv', NEW r \in Reqs, AcquireStep(r)
  PROVE  BInv'
<1> USE Numbers
<1>1. UNCHANGED <<created, session>> /\ UNCHANGED <<activeTx, txs, tx, cache, callback>>
  BY DEF AcquireStep, AcquireValidate, CacheLookup, AcquireGetSession,
       AcquireSemaphore, AcquireCancelled, CacheRecheck, smVars
<1>2. ReqOK(r) /\ req[r] \in ReqRecord /\ BrokerTypeOK /\ SMTypeOK /\ SMTypeOK'
  BY DEF BInv, BrokerTypeOK, SMInv
<1>3. req[r].pc # "idle"
  BY DEF AcquireStep, AcquireValidate, CacheLookup, AcquireGetSession,
       AcquireSemaphore, AcquireCancelled, CacheRecheck
<1>4. <<req[r].user, req[r].key>> \in Claims /\ req[r].key \in Keys /\ req[r].res \in Resources
  BY <1>2, <1>3, ClaimsAssumption DEF ReqOK
<1>5. ASSUME sem' = sem, req' \in [Reqs -> ReqRecord],
             \A q \in Reqs \ {r} : req'[q] = req[q], ReqOK(r)'
      PROVE  BInv'
  <2>1. BrokerTypeOK'
    BY <1>1, <1>2, <1>5 DEF BrokerTypeOK, ReqRecord, TxRecord
  <2>2. StepAt(r, NoSession)
    BY <1>1, <1>5, QuietStep
  <2>3. CacheOK'
    BY <1>1, <1>2, <2>1, <2>2, CacheKept
  <2> QED
    BY <1>5, <2>1, <2>2, <2>3, StepInv
<1>6. ASSUME NEW ans \in Answers \ {"200"}, Answer(r, ans, NoTx), sem' = sem
      PROVE  BInv'
  <2>2. /\ req' \in [Reqs -> ReqRecord]
        /\ \A q \in Reqs \ {r} : req'[q] = req[q]
        /\ req'[r].pc = "idle" /\ req'[r].ans = ans
    BY <1>2, <1>6, AnswerReq
  <2>3. ReqOK(r)'
    BY <2>2 DEF ReqOK, Holding, InFlow, Deciding
  <2> QED
    BY <1>5, <1>6, <2>2, <2>3
<1>7. ASSUME NEW pc \in {"lookup", "get"}, GoTo(r, pc), sem' = sem
      PROVE  BInv'
  <2>1. /\ req' \in [Reqs -> ReqRecord]
        /\ \A q \in Reqs \ {r} : req'[q] = req[q]
        /\ req'[r].pc = pc
        /\ req'[r].key = req[r].key /\ req'[r].user = req[r].user
        /\ req'[r].res = req[r].res
    BY <1>2, <1>7, GoToReq DEF ReqPCs
  <2>2. ReqOK(r)'
    BY <1>4, <2>1 DEF ReqOK, Holding, InFlow, Deciding
  <2> QED
    BY <1>5, <1>7, <2>1, <2>2
<1>8. CASE AcquireValidate(r)
  BY <1>6, <1>7, <1>8 DEF AcquireValidate, Answers
<1> DEFINE token == cache[req[r].key][req[r].res]
<1>9. token \in 0..txs /\ (token # NoTx => TokenOK(token, req[r].key, req[r].res))
  BY <1>2, <1>4, CacheTyped DEF BInv, CacheOK
<1>10. CASE CacheLookup(r)
  <2>1. CASE token = NoTx
    BY <1>7, <1>10, <2>1 DEF CacheLookup
  <2>2. CASE token # NoTx
    <3>1. Answer(r, "200", token) /\ sem' = sem /\ "200" \in Answers
      BY <1>10, <2>2 DEF CacheLookup, Answers
    <3> HIDE DEF token
    <3>2. /\ req' \in [Reqs -> ReqRecord]
          /\ \A q \in Reqs \ {r} : req'[q] = req[q]
          /\ req'[r].pc = "idle" /\ req'[r].token = token
          /\ req'[r].key = req[r].key /\ req'[r].user = req[r].user
          /\ req'[r].res = req[r].res
      BY <1>2, <1>9, <3>1, AnswerReq, ZenonT(30)
    <3>3. ReqOK(r)'
      BY <1>1, <1>4, <1>9, <2>2, <3>2 DEF ReqOK, TokenOK, Holding, InFlow, Deciding
    <3> QED
      BY <1>5, <3>1, <3>2, <3>3
  <2> QED
    BY <2>1, <2>2
<1>11. CASE AcquireGetSession(r)
  <2> DEFINE o == sessions[req[r].key]
  <2>1. CASE o = NoSession
    BY <1>6, <1>11, <2>1 DEF AcquireGetSession, Answers
  <2>2. CASE o # NoSession
    <3>1. o \in 1..created /\ session[o].key = req[r].key
      <4>1. sessions[req[r].key] \in 0..created /\ BoundSessionsOpen
        BY <1>2, <1>4 DEF BInv, SMInv, SMTypeOK
      <4>2. session[o].key = req[r].key
        BY <1>4, <2>2, <4>1 DEF BoundSessionsOpen
      <4> QED
        BY <2>2, <4>1, <4>2
    <3> DEFINE new == [req[r] EXCEPT !.pc = "acquire", !.obj = o]
    <3>2. req' = [req EXCEPT ![r] = new] /\ sem' = sem
      BY <1>11, <2>2 DEF AcquireGetSession
    <3>3. /\ new \in ReqRecord /\ new.pc = "acquire" /\ new.obj = o
          /\ new.key = req[r].key /\ new.user = req[r].user /\ new.res = req[r].res
      <4>1. o \in 0..created /\ req[r] \in ReqRecord
        BY <1>2, <3>1, SMT
      <4> HIDE DEF o
      <4> QED
        BY <4>1 DEF ReqRecord, ReqPCs
    <3> HIDE DEF new
    <3>4. /\ req' \in [Reqs -> ReqRecord]
          /\ \A q \in Reqs \ {r} : req'[q] = req[q]
          /\ req'[r] = new
      BY <1>2, <3>2, <3>3 DEF BrokerTypeOK
    <3>5. ReqOK(r)'
      BY <1>1, <1>4, <3>1, <3>3, <3>4 DEF ReqOK, Holding, InFlow, Deciding
    <3> QED
      BY <1>5, <3>2, <3>4, <3>5
  <2> QED
    BY <2>1, <2>2
<1>12. CASE AcquireSemaphore(r)
  <2> DEFINE o == req[r].obj
  <2>1. req[r].pc = "acquire" /\ sem[o] = NoReq /\ sem' = [sem EXCEPT ![o] = r]
    BY <1>12 DEF AcquireSemaphore
  <2>2. /\ req' \in [Reqs -> ReqRecord]
        /\ \A q \in Reqs \ {r} : req'[q] = req[q]
        /\ req'[r].pc = "recheck" /\ req'[r].obj = o
        /\ req'[r].key = req[r].key /\ req'[r].user = req[r].user
        /\ req'[r].res = req[r].res
    BY <1>2, <1>12, GoToReq DEF AcquireSemaphore, ReqPCs
  <2>3. o \in 1..created /\ o \in Ids /\ session[o].key = req[r].key
    BY <1>2, <2>1 DEF ReqOK
  <2>4. sem' \in [Ids -> Reqs \cup {NoReq}] /\ sem'[o] = r
        /\ \A p \in Ids \ {o} : sem'[p] = sem[p]
    BY <1>2, <2>1, <2>3 DEF BrokerTypeOK
  <2>5. BrokerTypeOK'
    BY <1>1, <1>2, <2>2, <2>4 DEF BrokerTypeOK, ReqRecord, TxRecord
  <2>6. StepAt(r, o)
    <3>1. \A q \in Reqs : req[q].pc \in Holding => req[q].obj # o
      BY <2>1, NoReqAssumption, HolderInSem
    <3> QED
      BY <1>1, <2>2, <2>4, <3>1 DEF StepAt
  <2>7. CacheOK'
    BY <1>1, <1>2, <2>5, <2>6, CacheKept
  <2>8. ReqOK(r)'
    BY <1>1, <1>4, <2>2, <2>3, <2>4 DEF ReqOK, Holding, InFlow, Deciding
  <2> QED
    BY <2>5, <2>6, <2>7, <2>8, StepInv
<1>13. CASE AcquireCancelled(r)
  BY <1>6, <1>13 DEF AcquireCancelled, Answers
<1>14. CASE CacheRecheck(r)
  <2>1. CASE token = NoTx
    <3>1. GoTo(r, "discover") /\ sem' = sem /\ req[r].pc = "recheck"
      BY <1>14, <2>1 DEF CacheRecheck
    <3>2. /\ req' \in [Reqs -> ReqRecord]
          /\ \A q \in Reqs \ {r} : req'[q] = req[q]
          /\ req'[r].pc = "discover" /\ req'[r].obj = req[r].obj
          /\ req'[r].key = req[r].key /\ req'[r].user = req[r].user
          /\ req'[r].res = req[r].res
      BY <1>2, <3>1, GoToReq DEF ReqPCs
    <3>3. ReqOK(r)'
      BY <1>1, <1>2, <1>4, <2>1, <3>1, <3>2 DEF ReqOK, Holding, InFlow
    <3> QED
      BY <1>5, <3>1, <3>2, <3>3
  <2>2. CASE token # NoTx
    <3>1. Answer(r, "200", token) /\ Release(r) /\ req[r].pc \in Holding
      BY <1>14, <2>2 DEF CacheRecheck, Holding
    <3>2. TxStep(req[r].obj)
      BY <1>1, <1>2 DEF TxStep, BrokerTypeOK
    <3> QED
      BY <1>1, <1>2, <1>9, <2>2, <3>1, <3>2, ReleaseInv DEF BrokerTypeOK, Answers
  <2> QED
    BY <2>1, <2>2
<1> QED
  BY <1>8, <1>10, <1>11, <1>12, <1>13, <1>14 DEF AcquireStep

-----------------------------------------------------------------------------
(* Steps of performOAuthFlow.                                              *)

\* What is known of a request in its flow.
LEMMA InFlowFacts ==
  ASSUME BInv, NEW r \in Reqs, req[r].pc \in InFlow
  PROVE  /\ req[r].pc \in Holding
         /\ req[r].obj \in 1..created /\ req[r].obj \in Ids
         /\ session[req[r].obj].key = req[r].key
         /\ req[r].key \in Keys /\ req[r].res \in Resources
         /\ <<req[r].user, req[r].key>> \in Claims
         /\ sem[req[r].obj] = r
         /\ FlowOK(req[r])
         /\ tx[req[r].tx] \in TxRecord
<1>1. ReqOK(r) /\ req[r].pc \in Holding
  BY DEF BInv, InFlow, Holding
<1>2. FlowOK(req[r])
  BY <1>1 DEF ReqOK
<1>3. tx[req[r].tx] \in TxRecord
  BY <1>2 DEF FlowOK, BInv, BrokerTypeOK
<1> QED
  BY <1>1, <1>2, <1>3, Numbers, ClaimsAssumption DEF ReqOK, Holding

\* The flow moves on and has changed its own transaction at most.
LEMMA MoveInv ==
  ASSUME BInv, SMInv', NEW r \in Reqs, req[r].pc \in InFlow,
         UNCHANGED <<created, session, sem, activeTx, cache, callback>>,
         TxStep(req[r].obj),
         req' \in [Reqs -> ReqRecord],
         \A q \in Reqs \ {r} : req'[q] = req[q],
         req'[r].key = req[r].key, req'[r].user = req[r].user, req'[r].res = req[r].res,
         req'[r].obj = req[r].obj, req'[r].tx = req[r].tx,
         req'[r].pc \in InFlow,
         req'[r].pc \in Deciding => req[r].pc \in Deciding,
         tx'[req[r].tx].status = IF req'[r].pc \in {"store", "clear"} THEN "completed"
                                                                    ELSE "waiting_code"
  PROVE  BInv'
<1> DEFINE o == req[r].obj
<1>1. BrokerTypeOK /\ SMTypeOK' /\ ReqOK(r)
  BY DEF BInv, SMInv
<1>2. BrokerTypeOK'
  BY <1>1 DEF BrokerTypeOK, ReqRecord, TxRecord, TxStep
<1>3. StepAt(r, o)
  <2>1. created <= created' /\ txs <= txs'
    BY Numbers DEF TxStep
  <2>2. \A q \in Reqs \ {r} : req[q].pc \in Holding => req[q].obj # o
    BY HolderAlone, InFlowFacts
  <2> QED
    BY <2>1, <2>2 DEF StepAt, TxStep
<1>4. CacheOK'
  BY <1>1, <1>2, <1>3, CacheKept
<1>5. ReqOK(r)'
  <2> DEFINE token == cache[req[r].key][req[r].res]
  <2>0. /\ FlowOK(req[r]) /\ req[r].key \in Keys /\ req[r].res \in Resources
    BY InFlowFacts
  <2>1. FlowOK(req[r])'
    <3>1. /\ req[r].tx \in 1..txs /\ activeTx[req[r].obj] = req[r].tx
          /\ tx[req[r].tx].obj = req[r].obj /\ tx[req[r].tx].res = req[r].res
      BY <2>0 DEF FlowOK
    <3>2. /\ tx'[req[r].tx].obj = req[r].obj /\ tx'[req[r].tx].res = req[r].res
          /\ txs' = txs
      BY <3>1 DEF TxStep
    <3> QED
      BY <3>1, <3>2 DEF FlowOK
  <2>2. ASSUME req'[r].pc \in Deciding, token # NoTx PROVE tx'[token].obj # o
    <3>1. token \in 1..txs
      <4>1. token \in 0..txs
        BY <1>1, <2>0, CacheTyped
      <4> QED
        BY <2>2, <4>1, Numbers
    <3> QED
      BY <1>1, <2>2, <3>1 DEF ReqOK, TxStep
  <2>3. /\ req'[r].pc # "idle"
        /\ req'[r].obj \in 1..created' /\ session'[req'[r].obj].key = req'[r].key
        /\ sem'[req'[r].obj] = r
        /\ <<req'[r].user, req'[r].key>> \in Claims /\ req'[r].res \in Resources
    BY InFlowFacts DEF InFlow
  <2>4. req'[r].pc \in Deciding =>
          (cache'[req'[r].key][req'[r].res] # NoTx =>
             tx'[cache'[req'[r].key][req'[r].res]].obj # req'[r].obj)
    BY <2>2
  <2> QED
    BY <2>1, <2>3, <2>4 DEF ReqOK
<1> QED
  BY <1>2, <1>3, <1>4, <1>5, StepInv

\* The flow fails: it marks its transaction, answers and releases.
LEMMA FailInv ==
  ASSUME BInv, SMInv', NEW r \in Reqs, req[r].pc \in {"build", "publish", "wait", "exchange"},
         NEW ans \in Answers \ {"200"}, Answer(r, ans, NoTx), Release(r),
         UNCHANGED <<created, session, activeTx, txs, cache, callback>>,
         tx' = tx \/ SetStatus(activeTx[req[r].obj], "failed")
  PROVE  BInv'
<1>1. BrokerTypeOK /\ NoTx \in 0..txs /\ req[r].pc \in InFlow
  BY Numbers DEF BInv, InFlow
<1>2. /\ req[r].tx \in 1..txs /\ activeTx[req[r].obj] = req[r].tx
      /\ tx[req[r].tx].obj = req[r].obj /\ tx[req[r].tx].status = "waiting_code"
  BY <1>1, InFlowFacts DEF FlowOK
<1>3. TxStep(req[r].obj)
  <2>1. CASE tx' = tx
    BY <1>1, <2>1 DEF TxStep, BrokerTypeOK
  <2>2. CASE SetStatus(activeTx[req[r].obj], "failed")
    <3>1. SetStatus(req[r].tx, "failed")
      BY <1>2, <2>2
    <3> QED
      BY <1>1, <1>2, <3>1, StatusTx
  <2> QED
    BY <2>1, <2>2
<1>4. activeTx' \in [Ids -> 0..txs]
  BY <1>1 DEF BrokerTypeOK
<1> QED
  BY <1>1, <1>3, <1>4, InFlowFacts, ReleaseInv

\* A new transaction becomes the active one of the object.
LEMMA StartInv ==
  ASSUME BInv, SMInv', NEW r \in Reqs, StartTransaction(r)
  PROVE  BInv'
<1> DEFINE o == req[r].obj
<1> DEFINE new == txs + 1
<1> DEFINE q == [req[r] EXCEPT !.pc = "build", !.tx = new]
<1> DEFINE v == [obj |-> o, res |-> req[r].res, state |-> "none",
                 status |-> "waiting_code", chan |-> NoTx]
<1>1. /\ BrokerTypeOK /\ SMTypeOK' /\ ReqOK(r) /\ req[r] \in ReqRecord
      /\ req[r].pc = "discover" /\ req[r].pc \in Holding
  BY DEF BInv, SMInv, BrokerTypeOK, StartTransaction, Holding
<1>2. /\ o \in 1..created /\ o \in Ids /\ session[o].key = req[r].key
      /\ <<req[r].user, req[r].key>> \in Claims
      /\ req[r].key \in Keys /\ req[r].res \in Resources /\ sem[o] = r
  BY <1>1, Numbers, ClaimsAssumption DEF ReqOK
<1>3. /\ txs' = new /\ new \in Txs /\ new \notin 1..txs
      /\ 1..new = (1..txs) \cup {new} /\ 0..new = (0..txs) \cup {new}
      /\ new # NoTx /\ new \in 0..MaxTxs
  BY Numbers, SMT DEF StartTransaction, Txs, NoTx
<1>4. /\ tx' = [tx EXCEPT ![new] = v]
      /\ activeTx' = [activeTx EXCEPT ![o] = new]
      /\ req' = [req EXCEPT ![r] = q]
      /\ UNCHANGED <<created, session>> /\ UNCHANGED <<sem, cache, callback>>
  BY <1>3 DEF StartTransaction, smVars
<1>5. v \in TxRecord' /\ v.obj = o /\ v.res = req[r].res /\ v.status = "waiting_code"
  BY <1>2, <1>3, <1>4, Numbers, SMT DEF TxRecord, NoTx
<1>6. /\ TxRecord \subseteq TxRecord' /\ ReqRecord \subseteq ReqRecord'
  BY <1>3, <1>4 DEF TxRecord, ReqRecord
<1>7. /\ q \in ReqRecord' /\ q.pc = "build" /\ q.tx = new /\ q.obj = o
      /\ q.key = req[r].key /\ q.user = req[r].user /\ q.res = req[r].res
  BY <1>1, <1>3, <1>4 DEF ReqRecord, ReqPCs
<1> HIDE DEF new, q, v
<1>8. /\ tx'[new] = v /\ \A t \in 1..txs : tx'[t] = tx[t]
  BY <1>1, <1>3, <1>4, Numbers DEF BrokerTypeOK
<1>9. /\ req'[r] = q /\ \A p \in Reqs \ {r} : req'[p] = req[p]
  BY <1>1, <1>4 DEF BrokerTypeOK
<1>10. /\ activeTx'[o] = new /\ \A p \in Ids \ {o} : activeTx'[p] = activeTx[p]
  BY <1>1, <1>2, <1>4 DEF BrokerTypeOK
<1>11. BrokerTypeOK'
  <2>1. tx' \in [Txs -> {UnusedTx} \cup TxRecord'] /\ \A t \in 1..txs' : tx'[t] \in TxRecord'
    <3>1. tx \in [Txs -> {UnusedTx} \cup TxRecord'] /\ \A t \in 1..txs : tx[t] \in TxRecord'
      BY <1>1, <1>6 DEF BrokerTypeOK
    <3> QED
      BY <1>3, <1>4, <1>5, <1>8, <3>1
  <2>2. req' \in [Reqs -> ReqRecord']
    <3>1. req \in [Reqs -> ReqRecord']
      BY <1>1, <1>6 DEF BrokerTypeOK
    <3> QED
      BY <1>4, <1>7, <3>1
  <2>3. activeTx' \in [Ids -> 0..txs']
    <3>1. activeTx \in [Ids -> 0..txs'] /\ new \in 0..txs'
      BY <1>1, <1>3 DEF BrokerTypeOK
    <3> QED
      BY <1>4, <3>1
  <2>4. cache' \in [Keys -> [Resources -> 0..txs']]
    <3>1. 0..txs \subseteq 0..txs'
      BY <1>3
    <3>2. \A k \in Keys : cache[k] \in [Resources -> 0..txs']
      <4>1. \A k \in Keys : cache[k] \in [Resources -> 0..txs]
        BY <1>1 DEF BrokerTypeOK
      <4> QED
        BY <3>1, <4>1
    <3> QED
      BY <1>1, <1>4, <3>2 DEF BrokerTypeOK
  <2>5. callback' \in [Callbacks -> {IdleCallback}
                      \cup [pc : {"validate", "get", "check", "send"},
                            obj : 1..created', code : 1..txs']]
    BY <1>1, <1>3, <1>4 DEF BrokerTypeOK
  <2> QED
    BY <1>1, <1>3, <1>4, <2>1, <2>2, <2>3, <2>4, <2>5 DEF BrokerTypeOK
<1>12. StepAt(r, o)
  <2>1. created <= created' /\ txs <= txs'
    BY <1>3, <1>4, Numbers, SMT DEF new
  <2>2. \A p \in Reqs \ {r} : req[p].pc \in Holding => req[p].obj # o
    BY <1>1, HolderAlone
  <2> QED
    BY <1>4, <1>8, <1>9, <1>10, <2>1, <2>2 DEF StepAt
<1>13. CacheOK'
  BY <1>1, <1>4, <1>11, <1>12, CacheKept
<1>14. ReqOK(r)'
  <2> DEFINE token == cache[req[r].key][req[r].res]
  <2>1. token # NoTx => tx'[token].obj # o
    <3>1. token \in 0..txs
      BY <1>1, <1>2, CacheTyped
    <3>2. token # NoTx => token \in 1..txs
      BY <3>1, Numbers
    <3>3. token # NoTx => tx[token].obj # o
      BY <1>1 DEF ReqOK, Deciding
    <3> QED
      BY <1>8, <3>2, <3>3
  <2>2. FlowOK(req[r])'
    BY <1>3, <1>5, <1>7, <1>8, <1>9, <1>10 DEF FlowOK
  <2> QED
    BY <1>2, <1>4, <1>7, <1>9, <2>1, <2>2 DEF ReqOK, Holding, InFlow, Deciding
<1> QED
  BY <1>11, <1>12, <1>13, <1>14, StepInv

\* The token of a completed transaction is stored under the session's key.
LEMMA SetTokenInv ==
  ASSUME BInv, SMInv', NEW r \in Reqs, SetToken(r)
  PROVE  BInv'
<1> DEFINE o == req[r].obj
<1> DEFINE t == req[r].tx
<1>1. /\ BrokerTypeOK /\ SMTypeOK' /\ ReqOK(r) /\ req[r].pc = "store"
      /\ req[r].pc \in InFlow
      /\ UNCHANGED <<created, session>> /\ UNCHANGED <<sem, activeTx, txs, tx, callback>>
  BY DEF BInv, SMInv, SetToken, InFlow, smVars
<1>2. /\ session[o].key = req[r].key /\ req[r].key \in Keys /\ req[r].res \in Resources
      /\ o \in 1..created /\ o \in Ids /\ sem[o] = r
      /\ <<req[r].user, req[r].key>> \in Claims
      /\ t \in 1..txs /\ activeTx[o] = t
      /\ tx[t].obj = o /\ tx[t].res = req[r].res /\ tx[t].status = "completed"
  BY <1>1, InFlowFacts DEF FlowOK
<1>3. /\ req' \in [Reqs -> ReqRecord]
      /\ \A q \in Reqs \ {r} : req'[q] = req[q]
      /\ req'[r].pc = "clear"
      /\ req'[r].key = req[r].key /\ req'[r].user = req[r].user
      /\ req'[r].res = req[r].res /\ req'[r].obj = o /\ req'[r].tx = t
  BY <1>1, GoToReq DEF SetToken, ReqPCs
<1>4. cache' = [cache EXCEPT ![req[r].key][req[r].res] = t]
  BY <1>2 DEF SetToken
<1>5. ASSUME NEW k \in Keys, NEW x \in Resources
      PROVE  cache'[k][x] = IF k = req[r].key /\ x = req[r].res THEN t ELSE cache[k][x]
  BY <1>1, <1>2, <1>4 DEF BrokerTypeOK
<1>6. cache' \in [Keys -> [Resources -> 0..txs]]
  BY <1>1, <1>2, <1>4, Numbers DEF BrokerTypeOK
<1>7. BrokerTypeOK'
  BY <1>1, <1>3, <1>6, SMT DEF BrokerTypeOK, ReqRecord, TxRecord
<1>8. StepAt(r, o)
  <2>1. created <= created' /\ txs <= txs'
    BY <1>1, Numbers
  <2>2. \A p \in Reqs \ {r} : req[p].pc \in Holding => req[p].obj # o
    BY <1>1, HolderAlone, InFlowFacts
  <2>3. \A k \in Keys, x \in Resources :
          cache'[k][x] \in {cache[k][x], NoTx} \/ tx'[cache'[k][x]].obj = o
    BY <1>1, <1>2, <1>5
  <2> QED
    BY <1>1, <1>3, <2>1, <2>2, <2>3 DEF StepAt
<1>9. CacheOK'
  <2> SUFFICES ASSUME NEW k \in Keys, NEW x \in Resources, cache'[k][x] # NoTx
               PROVE  /\ cache'[k][x] \in 1..txs'
                      /\ tx'[cache'[k][x]].status = "completed"
                      /\ tx'[cache'[k][x]].res = x
                      /\ session'[tx'[cache'[k][x]].obj].key = k
    BY DEF CacheOK, TokenOK
  <2>1. CASE k = req[r].key /\ x = req[r].res
    <3>1. cache'[k][x] = t
      BY <1>5, <2>1
    <3>2. /\ t \in 1..txs /\ tx[t].status = "completed" /\ tx[t].res = x
          /\ session[tx[t].obj].key = k
      BY <1>2, <2>1
    <3>3. tx' = tx /\ txs' = txs /\ session' = session
      BY <1>1
    <3> HIDE DEF t
    <3> QED
      BY <3>1, <3>2, <3>3, SMT
  <2>2. CASE ~(k = req[r].key /\ x = req[r].res)
    <3>1. cache'[k][x] = cache[k][x]
      BY <1>5, <2>2
    <3>2. /\ cache[k][x] \in 1..txs /\ tx[cache[k][x]].status = "completed"
          /\ tx[cache[k][x]].res = x /\ session[tx[cache[k][x]].obj].key = k
      BY <3>1, ZenonT(30) DEF BInv, CacheOK, TokenOK
    <3>3. tx' = tx /\ txs' = txs /\ session' = session
      BY <1>1
    <3>4. PICK c : c = cache[k][x]
      OBVIOUS
    <3>5. /\ c \in 1..txs /\ tx[c].status = "completed"
          /\ tx[c].res = x /\ session[tx[c].obj].key = k
      BY <3>2, <3>4
    <3> QED
      BY <3>1, <3>3, <3>4, <3>5
  <2> QED
    BY <2>1, <2>2
<1>10. ReqOK(r)'
  BY <1>1, <1>2, <1>3 DEF ReqOK, FlowOK, Holding, Deciding
<1> QED
  BY <1>7, <1>8, <1>9, <1>10, StepInv

\* Every step of performOAuthFlow.
LEMMA FlowInv ==
  ASSUME BInv, SMInv', NEW r \in Reqs, FlowStep(r)
  PROVE  BInv'
<1> DEFINE o == req[r].obj
<1>1. BrokerTypeOK /\ ReqOK(r) /\ NoTx \in 0..txs
  BY Numbers DEF BInv
<1>2. ASSUME req[r].pc \in InFlow
      PROVE  /\ req[r].tx \in 1..txs /\ activeTx[o] = req[r].tx /\ tx[req[r].tx].obj = o
             /\ req[r].pc \notin {"store", "clear"} =>
                  tx[req[r].tx].status = "waiting_code"
  BY <1>2, InFlowFacts DEF FlowOK
<1>3. CASE StartTransaction(r)
  BY <1>3, StartInv
<1>4. CASE StartFails(r)
  <2>1. PICK ans \in {"502", "500"} : Answer(r, ans, NoTx)
    BY <1>4 DEF StartFails
  <2>2. /\ req[r].pc \in Holding /\ Release(r)
        /\ UNCHANGED <<created, session>> /\ UNCHANGED <<activeTx, txs, tx, cache, callback>>
    BY <1>4 DEF StartFails, Holding, smVars
  <2>3. TxStep(o) /\ activeTx' \in [Ids -> 0..txs]
    BY <1>1, <2>2 DEF TxStep, BrokerTypeOK
  <2> QED
    BY <1>1, <2>1, <2>2, <2>3, ReleaseInv DEF Answers
<1>5. CASE BuildAuthorizationURL(r)
  <2>1. /\ req[r].pc = "build" /\ req[r].pc \in InFlow
        /\ UNCHANGED <<created, session, sem, activeTx, txs, cache, callback>>
    BY <1>5 DEF BuildAuthorizationURL, InFlow, smVars
  <2>2. tx' = [tx EXCEPT ![req[r].tx].state = "set"]
    BY <1>2, <1>5, <2>1 DEF BuildAuthorizationURL
  <2>3. TxStep(o) /\ tx'[req[r].tx].status = "waiting_code"
    BY <1>1, <1>2, <2>1, <2>2, StateTx
  <2>4. /\ req' \in [Reqs -> ReqRecord]
        /\ \A q \in Reqs \ {r} : req'[q] = req[q]
        /\ req'[r].pc = "publish"
        /\ req'[r].key = req[r].key /\ req'[r].user = req[r].user
        /\ req'[r].res = req[r].res /\ req'[r].obj = o /\ req'[r].tx = req[r].tx
    BY <1>1, <1>5, GoToReq DEF BuildAuthorizationURL, ReqPCs
  <2> QED
    BY <2>1, <2>3, <2>4, MoveInv DEF InFlow, Deciding
<1>6. CASE BuildFails(r)
  BY <1>6, FailInv DEF BuildFails, Answers, smVars
<1>7. CASE PublishUrlReady(r)
  <2>1. /\ req[r].pc = "publish" /\ req[r].pc \in InFlow
        /\ UNCHANGED <<created, session, sem, activeTx, txs, tx, cache, callback>>
    BY <1>7 DEF PublishUrlReady, PublishEvent, InFlow
  <2>2. TxStep(o) /\ tx'[req[r].tx].status = "waiting_code"
    BY <1>1, <1>2, <2>1 DEF TxStep, BrokerTypeOK
  <2>3. /\ req' \in [Reqs -> ReqRecord]
        /\ \A q \in Reqs \ {r} : req'[q] = req[q]
        /\ req'[r].pc = "wait"
        /\ req'[r].key = req[r].key /\ req'[r].user = req[r].user
        /\ req'[r].res = req[r].res /\ req'[r].obj = o /\ req'[r].tx = req[r].tx
    BY <1>1, <1>7, GoToReq DEF PublishUrlReady, ReqPCs
  <2> QED
    BY <2>1, <2>2, <2>3, MoveInv DEF InFlow, Deciding
<1>8. CASE PublishNoWaiter(r)
  BY <1>8, FailInv DEF PublishNoWaiter, Answers, smVars
<1>9. CASE PublishCancelled(r)
  BY <1>9, FailInv DEF PublishCancelled, Answers, smVars
<1>10. CASE ReceiveCode(r)
  <2> DEFINE code == tx[req[r].tx].chan
  <2> DEFINE q == [req[r] EXCEPT !.pc = "exchange", !.code = code]
  <2>1. /\ req[r].pc = "wait" /\ req[r].pc \in InFlow
        /\ UNCHANGED <<created, session, sem, activeTx, txs, cache, callback>>
    BY <1>10 DEF ReceiveCode, InFlow, smVars
  <2>2. /\ tx' = [tx EXCEPT ![req[r].tx].chan = NoTx]
        /\ req' = [req EXCEPT ![r] = q]
    BY <1>2, <1>10, <2>1 DEF ReceiveCode
  <2>3. TxStep(o) /\ tx'[req[r].tx].status = "waiting_code"
    BY <1>1, <1>2, <2>1, <2>2, ChanTx
  <2>4. code \in 0..txs /\ req[r] \in ReqRecord
    BY <1>1, <1>2, <2>1 DEF BrokerTypeOK, TxRecord
  <2> HIDE DEF code
  <2>5. /\ q \in ReqRecord /\ q.pc = "exchange" /\ q.key = req[r].key
        /\ q.user = req[r].user /\ q.res = req[r].res /\ q.obj = o /\ q.tx = req[r].tx
    BY <2>4 DEF ReqRecord, ReqPCs
  <2> HIDE DEF q
  <2>6. /\ req' \in [Reqs -> ReqRecord]
        /\ \A p \in Reqs \ {r} : req'[p] = req[p]
        /\ req'[r] = q
    BY <1>1, <2>2, <2>5 DEF BrokerTypeOK
  <2> QED
    BY <2>1, <2>3, <2>5, <2>6, MoveInv DEF InFlow, Deciding
<1>11. CASE WaitTimeout(r) \/ WaitSessionDone(r) \/ WaitCancelled(r)
  BY <1>11, FailInv DEF WaitTimeout, WaitSessionDone, WaitCancelled, WaitFails, Answers, smVars
<1>12. CASE ExchangeToken(r)
  <2>1. /\ req[r].pc = "exchange" /\ req[r].pc \in InFlow
        /\ UNCHANGED <<created, session, sem, activeTx, txs, cache, callback>>
    BY <1>12 DEF ExchangeToken, InFlow, smVars
  <2>2. SetStatus(req[r].tx, "completed")
    BY <1>2, <1>12, <2>1 DEF ExchangeToken
  <2>3. TxStep(o) /\ tx'[req[r].tx].status = "completed"
    BY <1>1, <1>2, <2>1, <2>2, StatusTx
  <2>4. /\ req' \in [Reqs -> ReqRecord]
        /\ \A q \in Reqs \ {r} : req'[q] = req[q]
        /\ req'[r].pc = "store"
        /\ req'[r].key = req[r].key /\ req'[r].user = req[r].user
        /\ req'[r].res = req[r].res /\ req'[r].obj = o /\ req'[r].tx = req[r].tx
    BY <1>1, <1>12, GoToReq DEF ExchangeToken, ReqPCs
  <2> QED
    BY <2>1, <2>3, <2>4, MoveInv DEF InFlow, Deciding
<1>13. CASE ExchangeFails(r)
  BY <1>13, FailInv DEF ExchangeFails, Answers, smVars
<1>14. CASE SetToken(r)
  BY <1>14, SetTokenInv
<1>15. CASE ClearTransaction(r)
  <2>1. /\ req[r].pc = "clear" /\ req[r].pc \in InFlow /\ Release(r)
        /\ Answer(r, "200", req[r].tx)
        /\ activeTx' = [activeTx EXCEPT ![o] = NoTx]
        /\ UNCHANGED <<created, session>> /\ UNCHANGED <<txs, tx, cache, callback>>
    BY <1>15 DEF ClearTransaction, InFlow, smVars
  <2>2. TokenOK(req[r].tx, req[r].key, req[r].res) /\ req[r].tx \in 0..txs
    <3>1. FlowOK(req[r]) /\ session[o].key = req[r].key
      BY <2>1, InFlowFacts
    <3> QED
      BY <2>1, <3>1, Numbers DEF FlowOK, TokenOK
  <2>3. /\ TxStep(o) /\ activeTx' \in [Ids -> 0..txs]
        /\ \A p \in Ids \ {o} : activeTx'[p] = activeTx[p]
    BY <1>1, <2>1 DEF TxStep, BrokerTypeOK
  <2> QED
    BY <2>1, <2>2, <2>3, InFlowFacts, ReleaseInv DEF Answers
<1> QED
  BY <1>3, <1>4, <1>5, <1>6, <1>7, <1>8, <1>9, <1>10, <1>11, <1>12, <1>13, <1>14, <1>15
  DEF FlowStep

-----------------------------------------------------------------------------
(* The remaining steps: requests arrive, callbacks run, tokens expire and  *)
(* sessions come and go.                                                   *)

\* A request arrives for a session that is valid.
LEMMA GetTokenInv ==
  ASSUME BInv, SMInv', NEW r \in Reqs, NEW u \in Users, NEW k \in Keys,
         NEW x \in Resources, HandleGetToken(r, u, k, x)
  PROVE  BInv'
<1> DEFINE q == [IdleReq EXCEPT !.pc = "validate", !.key = k, !.user = u, !.res = x]
<1>1. /\ BrokerTypeOK /\ SMTypeOK' /\ <<u, k>> \in Claims
      /\ req' = [req EXCEPT ![r] = q]
      /\ UNCHANGED <<created, session, sem, activeTx, txs, tx>> /\ UNCHANGED <<cache, callback>>
  BY DEF BInv, SMInv, HandleGetToken, smVars
<1>2. /\ q \in ReqRecord /\ q.pc = "validate" /\ q.key = k /\ q.user = u /\ q.res = x
  <2>1. IdleReq \in ReqRecord
    BY Numbers, SMT DEF IdleReq, ReqRecord, Answers, NoSession, NoTx
  <2> QED
    BY <2>1 DEF ReqRecord, ReqPCs
<1> HIDE DEF q
<1>3. /\ req' \in [Reqs -> ReqRecord] /\ req'[r] = q
      /\ \A p \in Reqs \ {r} : req'[p] = req[p]
  BY <1>1, <1>2 DEF BrokerTypeOK
<1>4. BrokerTypeOK'
  BY <1>1, <1>3 DEF BrokerTypeOK, ReqRecord, TxRecord
<1>5. StepAt(r, NoSession)
  BY <1>1, <1>3, QuietStep
<1>6. CacheOK'
  BY <1>1, <1>4, <1>5, CacheKept
<1>7. ReqOK(r)'
  BY <1>1, <1>2, <1>3 DEF ReqOK, Holding, InFlow, Deciding
<1> QED
  BY <1>4, <1>5, <1>6, <1>7, StepInv, SMT

CallbackRecord ==
  [pc : {"validate", "get", "check", "send"}, obj : 1..created, code : 1..txs]

\* A callback changes the completion channel of a transaction at most.
LEMMA CallbackInv ==
  ASSUME BInv, SMInv', NEW c \in Callbacks,
         CallbackStep(c) \/ \E t \in Txs : HandleOAuthCallback(c, t)
  PROVE  BInv'
<1>1. /\ BrokerTypeOK /\ SMTypeOK /\ SMTypeOK'
      /\ callback \in [Callbacks -> {IdleCallback} \cup CallbackRecord]
  BY DEF BInv, SMInv, BrokerTypeOK, CallbackRecord
<1>2. UNCHANGED <<created, session>> /\ UNCHANGED <<sem, activeTx, txs, cache, req>>
  BY DEF CallbackStep, CallbackValidate, CallbackGetSession, CallbackCheckTx, CallbackSend,
       HandleOAuthCallback, smVars
<1>3. ASSUME TxStep(NoSession),
             callback' \in [Callbacks -> {IdleCallback} \cup CallbackRecord]
      PROVE  BInv'
  <2>1. BrokerTypeOK'
    BY <1>1, <1>2, <1>3, SMT DEF BrokerTypeOK, ReqRecord, TxRecord, TxStep, CallbackRecord
  <2>2. StepAt(NoReq, NoSession)
    <3>1. \A q \in Reqs : req[q].pc \in Holding => req[q].obj # NoSession
      <4> TAKE q \in Reqs
      <4>1. ReqOK(q)
        BY DEF BInv
      <4>2. req[q].pc \in Holding => req[q].obj \in 1..created
        BY <4>1 DEF ReqOK
      <4> QED
        BY <4>2, Numbers
    <3>2. created <= created /\ txs <= txs
      BY Numbers
    <3> QED
      BY <1>2, <1>3, <3>1, <3>2, SMT DEF StepAt, TxStep
  <2>3. CacheOK'
    BY <1>1, <1>2, <2>1, <2>2, CacheKept, SMT
  <2> QED
    BY <2>1, <2>2, <2>3, StepInv, NoReqAssumption, SMT
<1>4. tx' = tx => TxStep(NoSession)
  BY <1>1, <1>2 DEF TxStep, BrokerTypeOK
<1>5. ASSUME NEW t \in Txs, HandleOAuthCallback(c, t) PROVE BInv'
  <2> DEFINE o == GetSessionByState(t)
  <2>1. o # NoSession /\ activeTx[o] = t /\ t \in 1..MaxTxs /\ tx[t].state = "set"
    BY <1>5 DEF HandleOAuthCallback, Txs
  <2>2. tx[t] \in TxRecord
    BY <1>1, <2>1, SMT DEF BrokerTypeOK, UnusedTx, Txs
  <2>3. session[tx[t].obj].key \in Keys
    BY <1>1, <2>2 DEF SMTypeOK, TxRecord
  <2>4. o \in 1..created /\ o \in Ids
    <3>1. sessions[session[tx[t].obj].key] \in 0..created
      BY <1>1, <2>3 DEF SMTypeOK
    <3> QED
      BY <2>1, <3>1, Numbers DEF GetSessionByState
  <2> HIDE DEF o
  <2>5. t \in 1..txs
    BY <1>1, <2>1, <2>4, Numbers, SMT DEF BrokerTypeOK
  <2>6. [pc |-> "validate", obj |-> o, code |-> t] \in CallbackRecord
    BY <2>4, <2>5 DEF CallbackRecord
  <2>7. callback' \in [Callbacks -> {IdleCallback} \cup CallbackRecord]
    BY <1>1, <1>5, <2>6 DEF HandleOAuthCallback, o
  <2> QED
    BY <1>3, <1>4, <1>5, <2>7 DEF HandleOAuthCallback
<1>6. ASSUME CallbackStep(c) PROVE callback[c] \in CallbackRecord
  <2>1. callback[c].pc \in {"validate", "get", "check", "send"}
    BY <1>6 DEF CallbackStep, CallbackValidate, CallbackGetSession, CallbackCheckTx, CallbackSend
  <2>2. callback[c] # IdleCallback
    BY <2>1, SMT DEF IdleCallback
  <2> QED
    BY <1>1, <2>2
<1>7. CASE CallbackValidate(c)
  <2>1. callback' \in [Callbacks -> {IdleCallback} \cup CallbackRecord]
    BY <1>1, <1>6, <1>7, SMT DEF CallbackStep, CallbackValidate, CallbackEnds, CallbackRecord
  <2> QED
    BY <1>3, <1>4, <1>7, <2>1 DEF CallbackValidate
<1>8. CASE CallbackGetSession(c)
  <2> DEFINE o == sessions[session[callback[c].obj].key]
  <2>1. callback[c] \in CallbackRecord
    BY <1>6, <1>8 DEF CallbackStep
  <2>2. session[callback[c].obj].key \in Keys
    BY <1>1, <2>1 DEF SMTypeOK, CallbackRecord
  <2>3. o = NoSession \/ o \in 1..created
    BY <1>1, <2>2, Numbers, SMT DEF SMTypeOK, NoSession
  <2>4. CASE o = NoSession
    <3>1. callback' \in [Callbacks -> {IdleCallback} \cup CallbackRecord]
      BY <1>1, <1>8, <2>4 DEF CallbackGetSession, CallbackEnds
    <3> QED
      BY <1>3, <1>4, <1>8, <3>1 DEF CallbackGetSession
  <2>5. CASE o # NoSession
    <3> DEFINE new == [callback[c] EXCEPT !.pc = "check", !.obj = o]
    <3>1. callback' = [callback EXCEPT ![c] = new]
      BY <1>8, <2>5 DEF CallbackGetSession
    <3>2. o \in 1..created
      BY <2>3, <2>5
    <3> HIDE DEF o
    <3>3. new \in CallbackRecord
      BY <2>1, <3>2 DEF CallbackRecord
    <3>4. callback' \in [Callbacks -> {IdleCallback} \cup CallbackRecord]
      BY <1>1, <3>1, <3>3
    <3> QED
      BY <1>3, <1>4, <1>8, <3>4 DEF CallbackGetSession
  <2> QED
    BY <2>4, <2>5
<1>9. CASE CallbackCheckTx(c)
  <2>1. callback' \in [Callbacks -> {IdleCallback} \cup CallbackRecord]
    BY <1>1, <1>6, <1>9, SMT DEF CallbackStep, CallbackCheckTx, CallbackEnds, CallbackRecord
  <2> QED
    BY <1>3, <1>4, <1>9, <2>1 DEF CallbackCheckTx
<1>10. CASE CallbackSend(c)
  <2> DEFINE t == activeTx[callback[c].obj]
  <2>1. callback' \in [Callbacks -> {IdleCallback} \cup CallbackRecord]
    BY <1>1, <1>10 DEF CallbackSend, CallbackEnds
  <2>2. callback[c] \in CallbackRecord
    BY <1>6, <1>10 DEF CallbackStep
  <2>3. t \in 0..txs /\ callback[c].code \in 0..txs
    BY <1>1, <2>2, Numbers, SMT DEF BrokerTypeOK, CallbackRecord
  <2>4. CASE t # NoTx /\ tx[t].chan = NoTx
    <3>1. tx' = [tx EXCEPT ![t].chan = callback[c].code] /\ t \in 1..txs
      BY <1>10, <2>3, <2>4, Numbers, SMT DEF CallbackSend, NoTx
    <3>2. TxStep(NoSession)
      BY <1>1, <1>2, <2>3, <3>1, ChanTx
    <3> QED
      BY <1>3, <2>1, <3>2
  <2>5. CASE ~(t # NoTx /\ tx[t].chan = NoTx)
    BY <1>3, <1>4, <1>10, <2>1, <2>5, SMT DEF CallbackSend
  <2> QED
    BY <2>4, <2>5
<1> QED
  BY <1>5, <1>7, <1>8, <1>9, <1>10, SMT DEF CallbackStep

\* Sessions are created, ended and expired without the broker's knowledge; an
\* object keeps its key and user.
LEMMA SessionStepInv ==
  ASSUME BInv, SMInv', SMNext \/ UNCHANGED smVars, UNCHANGED brokerVars
  PROVE  BInv'
<1>1. /\ BrokerTypeOK /\ SMTypeOK /\ SMTypeOK'
      /\ UNCHANGED <<sem, activeTx, txs, tx, cache, req, callback>>
  BY DEF BInv, SMInv, brokerVars
<1>2. \/ UNCHANGED <<created, session>>
      \/ \E u \in Users, k \in Keys : CreateSession(u, k)
  <2> DEFINE Kept == \/ UNCHANGED <<created, session>>
                 \/ \E u \in Users, k \in Keys : CreateSession(u, k)
  <2>1. ASSUME Requests PROVE Kept
    BY <2>1 DEF Requests, HandleEvents, HandleEndSession
  <2>2. ASSUME NEW p \in Polls, PollStep(p) PROVE Kept
    BY <2>2 DEF PollStep, PollReset, PollGetSession, PollEvent, PollDone, PollCancel, PollReturn
  <2>3. ASSUME Internal PROVE Kept
    BY <2>2, <2>3 DEF Internal, EndSession, TimerFires, ExpireSession, EndOrExpire, StopAccepting,
         Shutdown
  <2>4. ASSUME NEW q \in Ids, NEW t \in Txs, PublishEvent(q, t) PROVE Kept
    BY <2>4 DEF PublishEvent
  <2> QED
    BY <2>1, <2>3, <2>4 DEF SMNext, smVars
<1>3. created <= created' /\ \A p \in 1..created : session'[p] = session[p]
  <2>1. CASE UNCHANGED <<created, session>>
    BY <2>1, Numbers, SMT
  <2>2. ASSUME NEW u \in Users, NEW k \in Keys, CreateSession(u, k)
        PROVE  created <= created' /\ \A p \in 1..created : session'[p] = session[p]
    <3>1. created' = created + 1 /\ created + 1 \notin 1..created
      BY <2>2, Numbers, SMT DEF CreateSession
    <3> QED
      BY <1>1, <2>2, <3>1, Numbers, SMT DEF CreateSession, SMTypeOK
  <2> QED
    BY <1>2, <2>1, <2>2
<1>4. 1..created \subseteq 1..created' /\ 0..created \subseteq 0..created'
  BY <1>1, <1>3, Numbers, BoundsAssumption, SMT DEF SMTypeOK
<1>5. BrokerTypeOK'
  <2>1. TxRecord \subseteq TxRecord' /\ ReqRecord \subseteq ReqRecord'
    BY <1>1, <1>4 DEF TxRecord, ReqRecord
  <2>2. tx' \in [Txs -> {UnusedTx} \cup TxRecord'] /\ \A t \in 1..txs' : tx'[t] \in TxRecord'
    BY <1>1, <2>1 DEF BrokerTypeOK
  <2>3. req' \in [Reqs -> ReqRecord']
    BY <1>1, <2>1 DEF BrokerTypeOK
  <2>4. callback' \in [Callbacks -> {IdleCallback}
                      \cup [pc : {"validate", "get", "check", "send"},
                            obj : 1..created', code : 1..txs']]
    BY <1>1, <1>4 DEF BrokerTypeOK
  <2> QED
    BY <1>1, <2>2, <2>3, <2>4 DEF BrokerTypeOK
<1>6. StepAt(NoReq, NoSession)
  <2>1. \A q \in Reqs : req[q].pc \in Holding => req[q].obj # NoSession
    <3> TAKE q \in Reqs
    <3>1. ReqOK(q)
      BY DEF BInv
    <3>2. req[q].pc \in Holding => req[q].obj \in 1..created
      BY <3>1 DEF ReqOK
    <3> QED
      BY <3>2, Numbers
  <2>2. txs <= txs
    BY Numbers
  <2> QED
    BY <1>1, <1>3, <2>1, <2>2 DEF StepAt
<1>7. CacheOK'
  BY <1>1, <1>5, <1>6, CacheKept
<1> QED
  BY <1>5, <1>6, <1>7, StepInv, NoReqAssumption

-----------------------------------------------------------------------------
(* The theorems                                                            *)

\* Nothing is requested, in flow or cached initially.
LEMMA BInvInit == Init => BInv
<1> SUFFICES ASSUME Init PROVE BInv
  OBVIOUS
<1>1. SMInv
  BY InitInv DEF Init
<1>2. BrokerTypeOK
  BY BoundsAssumption, SMT DEF Init, SMInit, BrokerTypeOK, ReqRecord, IdleReq, Answers, NoSession, NoTx
<1>3. CacheOK /\ \A r \in Reqs : ReqOK(r)
  BY DEF Init, CacheOK, ReqOK, IdleReq, Holding, InFlow, Deciding
<1> QED
  BY <1>1, <1>2, <1>3 DEF BInv

\* Every step of the composition keeps the invariant.
LEMMA BInvNext == BInv /\ [Next]_vars => BInv'
<1> SUFFICES ASSUME BInv, [Next]_vars PROVE BInv'
  OBVIOUS
<1>1. SMInv'
  BY NextSM, NextInv DEF BInv
<1>2. ASSUME NEW r \in Reqs, AcquireStep(r) \/ FlowStep(r) PROVE BInv'
  BY <1>1, <1>2, AcquireInv, FlowInv
<1>3. ASSUME NEW r \in Reqs, NEW u \in Users, NEW k \in Keys, NEW x \in Resources,
             HandleGetToken(r, u, k, x)
      PROVE  BInv'
  BY <1>1, <1>3, GetTokenInv
<1>4. ASSUME NEW c \in Callbacks,
             CallbackStep(c) \/ \E t \in Txs : HandleOAuthCallback(c, t)
      PROVE  BInv'
  BY <1>1, <1>4, CallbackInv
<1>5. ASSUME NEW k \in Keys, NEW x \in Resources, TokenExpires(k, x) PROVE BInv'
  <2>1. /\ BrokerTypeOK /\ SMTypeOK'
        /\ cache' = [cache EXCEPT ![k][x] = NoTx]
        /\ UNCHANGED <<created, session, sem, activeTx, txs, tx>> /\ UNCHANGED <<req, callback>>
    BY <1>1, <1>5 DEF BInv, SMInv, TokenExpires, smVars
  <2>2. /\ cache' \in [Keys -> [Resources -> 0..txs]]
        /\ \A j \in Keys, y \in Resources : cache'[j][y] \in {cache[j][y], NoTx}
    BY <2>1, Numbers, SMT DEF BrokerTypeOK, NoTx
  <2>3. BrokerTypeOK'
    BY <2>1, <2>2 DEF BrokerTypeOK, ReqRecord, TxRecord
  <2>4. StepAt(NoReq, NoSession)
    BY <2>1, <2>2, QuietStep
  <2>5. CacheOK'
    BY <2>1, <2>2, <2>3, <2>4, CacheKept
  <2> QED
    BY <1>1, <2>3, <2>4, <2>5, StepInv, NoReqAssumption, SMT
<1>6. CASE SessionStep
  BY <1>1, <1>6, SessionStepInv DEF SessionStep, SMNext
<1>7. CASE UNCHANGED vars
  BY <1>1, <1>7, SessionStepInv DEF vars
<1>8. CASE BrokerStep
  BY <1>2, <1>3, <1>4, <1>5, <1>8 DEF BrokerStep
<1> QED
  BY <1>6, <1>7, <1>8 DEF Next

\* Every reachable state of the broker is well typed.
THEOREM BrokerTypes == Spec => []BrokerTypeOK
<1>1. BInv => BrokerTypeOK
  BY DEF BInv
<1> QED
  BY BInvInit, BInvNext, <1>1, PTL DEF Spec

\* At most one OAuth flow runs on a session object, on every path of the flow.
THEOREM OneFlowPerSession == Spec => []SingleFlow
<1>1. BInv => SingleFlow
  BY HolderAlone DEF SingleFlow
<1> QED
  BY BInvInit, BInvNext, <1>1, PTL DEF Spec

\* ActiveOAuthTx is the flow's own transaction whenever the flow dereferences it.
THEOREM FlowKeepsTransaction == Spec => []FlowOwnsActiveTx
<1>1. BInv => FlowOwnsActiveTx
  BY InFlowFacts DEF FlowOwnsActiveTx, FlowOK
<1> QED
  BY BInvInit, BInvNext, <1>1, PTL DEF Spec

\* Double-checked locking: no flow runs past a token its session already has.
THEOREM FlowNeeded == Spec => []NoRedundantFlow
<1>1. BInv => NoRedundantFlow
  BY DEF BInv, ReqOK, NoRedundantFlow, Deciding
<1> QED
  BY BInvInit, BInvNext, <1>1, PTL DEF Spec

\* A request is only ever answered a token of its own key, user and resource.
THEOREM TokensFit == Spec => []TokenFitsRequest
<1>1. BInv => TokenFitsRequest
  <2> SUFFICES ASSUME BInv, NEW r \in Reqs, req[r].pc = "idle", req[r].ans = "200"
               PROVE  LET t == tx[req[r].token]
                      IN /\ t.status = "completed"
                         /\ t.res = req[r].res
                         /\ session[t.obj].key = req[r].key
                         /\ KeysUnshared => session[t.obj].user = req[r].user
    BY DEF TokenFitsRequest
  <2>1. /\ TokenOK(req[r].token, req[r].key, req[r].res)
        /\ <<req[r].user, req[r].key>> \in Claims
    BY DEF BInv, ReqOK
  <2>2. tx[req[r].token].obj \in 1..created
    BY <2>1 DEF TokenOK, BInv, BrokerTypeOK, TxRecord
  <2>3. LET s == session[tx[req[r].token].obj] IN <<s.user, s.key>> \in Claims
    BY <2>2 DEF BInv, SMInv, ListInv
  <2> QED
    BY <2>1, <2>3 DEF TokenOK, KeysUnshared
<1> QED
  BY BInvInit, BInvNext, <1>1, PTL DEF Spec

\* The composition implements SessionManager, so what is proved of the session
\* lifecycle holds of the sessions of the broker.
THEOREM BrokerImplementsSessions == Spec => ImplementsSessionManager
<1>1. Init => SMInit
  BY DEF Init
<1> QED
  BY BInvInit, BInvNext, NextSM, <1>1, PTL DEF Spec, SMSpec, ImplementsSessionManager

=============================================================================

