--------------------------- MODULE SessionManager ---------------------------
(***************************************************************************)
(* The session lifecycle of the token broker: the SessionManager           *)
(* (token-broker/internal/session/manager.go) together with the HTTP       *)
(* handlers that drive it (POST /sessions, /sessions/broker-events and     *)
(* /sessions/end in token-broker/internal/api/handlers.go).                *)
(*                                                                         *)
(* Every method of the SessionManager runs under the mutex mu, so each is  *)
(* one atomic step.  A handler calls several methods and releases mu in    *)
(* between, so each handler is a process with a program counter and one    *)
(* action per critical section.                                            *)
(*                                                                         *)
(* A *core.Session is an object with an identity of its own, numbered in   *)
(* creation order: goroutines keep pointers to it after its key has been   *)
(* removed from the sessions map or bound to a newer object.               *)
(***************************************************************************)
EXTENDS Naturals, FiniteSets

CONSTANTS
  Users,               \* user IDs (the sub claim)
  Keys,                \* session keys (the session_uid or jti claim)
  Claims,              \* <<user, key>> pairs carried by the JWTs in circulation
  MaxSessionsPerUser,
  Polls,               \* concurrent long-poll requests
  Enders,              \* concurrent end-session requests
  Terminates,          \* whether the process is ever sent SIGTERM
  MaxTxs,              \* bound: OAuth transactions ever started
  MaxCreates,          \* bound: session objects ever created
  MaxExpiring          \* bound: expiry callbacks of one key waiting for mu

ASSUME ClaimsAssumption == Claims \subseteq Users \X Keys
\* Config.Validate rejects a configuration without this.
ASSUME MaxSessionsAssumption == MaxSessionsPerUser \in Nat \ {0}
ASSUME TerminatesAssumption == Terminates \in BOOLEAN
ASSUME BoundsAssumption ==
  MaxCreates \in Nat /\ MaxExpiring \in Nat /\ MaxTxs \in Nat

VARIABLES
  created,       \* number of session objects created so far
  session,       \* the fields SessionKey and UserID of each object
  done,          \* objects whose Done channel is closed
  events,        \* the event buffered in each object's EventWaiters (capacity 1)
  sessions,      \* SessionManager.sessions: the object bound to each key
  userSessions,  \* SessionManager.userSessions, see below
  armed,         \* keys whose entry in SessionManager.timers is still running
  expiring,      \* per key, fired timers whose ExpireSession waits for mu
  poll,          \* the long-poll handlers
  ender,         \* the end-session handlers
  delivered,     \* transactions whose auth URL a long-poll returned to the Backend
  server         \* the HTTP server: "up", "draining" (srv.Shutdown) or "stopped"

smVars == <<created, session, done, events, sessions, userSessions, armed,
            expiring, poll, ender, delivered, server>>

-----------------------------------------------------------------------------
Ids == 1..MaxCreates
Txs == 1..MaxTxs
NoSession == 0
NoStruct == [key |-> "none", user |-> "none"]

NoEvent == [type |-> "none", tx |-> 0]
ErrorEvent == [type |-> "error", tx |-> 0]
UrlReadyEvent(t) == [type |-> "oauth_url_ready", tx |-> t]
Events == {NoEvent, ErrorEvent} \cup {UrlReadyEvent(t) : t \in Txs}

IdlePoll == [pc |-> "idle", key |-> "none", obj |-> NoSession]
IdleEnder == [pc |-> "idle", key |-> "none"]

(***************************************************************************)
(* userSessions maps a user to the list of keys appended by CreateSession. *)
(* Only its length and the removal of all copies of a key are used, and    *)
(* each append belongs to one created object, so the list is represented   *)
(* by the set of the objects whose append is still in it.                  *)
(***************************************************************************)
SMInit ==
  /\ created = 0
  /\ session = [o \in Ids |-> NoStruct]
  /\ done = {}
  /\ events = [o \in Ids |-> NoEvent]
  /\ sessions = [k \in Keys |-> NoSession]
  /\ userSessions = [u \in Users |-> {}]
  /\ armed = {}
  /\ expiring = [k \in Keys |-> 0]
  /\ poll = [p \in Polls |-> IdlePoll]
  /\ ender = [e \in Enders |-> IdleEnder]
  /\ delivered = {}
  /\ server = "up"

-----------------------------------------------------------------------------
(* SessionManager methods, as the parts of the handlers' steps.            *)

ValidateSession(k, u) ==
  /\ sessions[k] # NoSession
  /\ session[sessions[k]].user = u

\* Mutant: the key stays in the sessions map.
MutCleanupKeepsKey(k) ==
  LET o == sessions[k]
      u == session[o].user
  IN /\ armed' = armed \ {k}
     /\ done' = done \cup {o}
     /\ events' = [events EXCEPT ![o] = IF @ = NoEvent THEN ErrorEvent ELSE @]
     /\ userSessions' = [userSessions EXCEPT ![u] =
                           {x \in @ : session[x].key # k}]
     /\ UNCHANGED sessions

\* Mutant: one copy of the key is removed from the user's list.
MutCleanupOneCopy(k) ==
  LET o == sessions[k]
  IN /\ armed' = armed \ {k}
     /\ done' = done \cup {o}
     /\ events' = [events EXCEPT ![o] = IF @ = NoEvent THEN ErrorEvent ELSE @]
     /\ userSessions' = [userSessions EXCEPT ![session[o].user] = @ \ {o}]
     /\ sessions' = [sessions EXCEPT ![k] = NoSession]

\* cleanupSessionLocked: the struct bound to k is closed and forgotten.
CleanupSession(k) ==
  LET o == sessions[k]
      u == session[o].user
  IN /\ armed' = armed \ {k}
     /\ done' = done \cup {o}
     /\ events' = [events EXCEPT ![o] = IF @ = NoEvent THEN ErrorEvent ELSE @]
     /\ userSessions' = [userSessions EXCEPT ![u] =
                           {x \in @ : session[x].key # k}]
     /\ sessions' = [sessions EXCEPT ![k] = NoSession]

EndOrExpire(k) ==
  IF sessions[k] = NoSession
  THEN UNCHANGED <<armed, done, events, userSessions, sessions>>
  ELSE CleanupSession(k)

ResetSessionTimer(k) ==
  armed' = IF sessions[k] = NoSession THEN armed ELSE armed \ {k}

StartSessionTimer(k) ==
  armed' = IF sessions[k] = NoSession THEN armed ELSE armed \cup {k}

-----------------------------------------------------------------------------
(* POST /sessions                                                          *)

\* Mutant: the limit is off by one.
MutCreateAtLimit(u, k) ==
  /\ server # "stopped"
  /\ <<u, k>> \in Claims
  /\ Cardinality(userSessions[u]) <= MaxSessionsPerUser
  /\ created < MaxCreates
  /\ created' = created + 1
  /\ session' = [session EXCEPT ![created'] = [key |-> k, user |-> u]]
  /\ sessions' = [sessions EXCEPT ![k] = created']
  /\ userSessions' = [userSessions EXCEPT ![u] = @ \cup {created'}]
  /\ UNCHANGED <<done, events, armed, expiring, poll, ender, delivered, server>>

\* A refused request (429) changes nothing, so the refusal is the guard.  A key
\* that is already bound is bound again: the older object is left as it is.
CreateSession(u, k) ==
  /\ server # "stopped"
  /\ <<u, k>> \in Claims
  /\ Cardinality(userSessions[u]) < MaxSessionsPerUser
  /\ created < MaxCreates
  /\ created' = created + 1
  /\ session' = [session EXCEPT ![created'] = [key |-> k, user |-> u]]
  /\ sessions' = [sessions EXCEPT ![k] = created']
  /\ userSessions' = [userSessions EXCEPT ![u] = @ \cup {created'}]
  /\ UNCHANGED <<done, events, armed, expiring, poll, ender, delivered, server>>

-----------------------------------------------------------------------------
(* POST /sessions/broker-events: the long-poll.  An invalid session is     *)
(* answered 401 with no effect.                                            *)

HandleEvents(p, u, k) ==
  /\ server = "up"
  /\ poll[p].pc = "idle"
  /\ <<u, k>> \in Claims
  /\ ValidateSession(k, u)
  /\ poll' = [poll EXCEPT ![p] = [pc |-> "reset", key |-> k, obj |-> NoSession]]
  /\ UNCHANGED <<created, session, done, events, sessions, userSessions, armed,
                 expiring, ender, delivered, server>>

PollReset(p) ==
  /\ poll[p].pc = "reset"
  /\ ResetSessionTimer(poll[p].key)
  /\ poll' = [poll EXCEPT ![p].pc = "get"]
  /\ UNCHANGED <<created, session, done, events, sessions, userSessions,
                 expiring, ender, delivered, server>>

PollGetSession(p) ==
  LET o == sessions[poll[p].key]
  IN /\ poll[p].pc = "get"
     /\ poll' = [poll EXCEPT ![p] = IF o = NoSession THEN IdlePoll
                                    ELSE [pc |-> "wait", key |-> @.key, obj |-> o]]
     /\ UNCHANGED <<created, session, done, events, sessions, userSessions,
                    armed, expiring, ender, delivered, server>>

PollEvent(p) ==
  LET e == events[poll[p].obj]
  IN /\ poll[p].pc = "wait"
     /\ e # NoEvent
     /\ events' = [events EXCEPT ![poll[p].obj] = NoEvent]
     /\ delivered' = IF e = ErrorEvent THEN delivered ELSE delivered \cup {e.tx}
     /\ poll' = [poll EXCEPT ![p].pc = "return"]
     /\ UNCHANGED <<created, session, done, sessions, userSessions, armed,
                    expiring, ender, server>>

\* Mutant: no case for Done in the select; the error event has to wake the poll.
MutPollIgnoresDone(p) ==
  /\ poll[p].pc = "wait"
  /\ poll[p].obj \in done /\ events[poll[p].obj] = ErrorEvent
  /\ poll' = [poll EXCEPT ![p].pc = "return"]
  /\ UNCHANGED <<created, session, done, events, sessions, userSessions, armed,
                 expiring, ender, delivered, server>>

PollDone(p) ==
  /\ poll[p].pc = "wait"
  /\ poll[p].obj \in done
  /\ poll' = [poll EXCEPT ![p].pc = "return"]
  /\ UNCHANGED <<created, session, done, events, sessions, userSessions, armed,
                 expiring, ender, delivered, server>>

\* Mutant: the timer is not started when the Backend disconnects.
MutCancelNoTimer(p) ==
  /\ poll[p].pc = "wait"
  /\ poll' = [poll EXCEPT ![p] = IdlePoll]
  /\ UNCHANGED <<created, session, done, events, sessions, userSessions, armed,
                 expiring, ender, delivered, server>>

\* The Backend disconnects, or the request deadline of the router passes.
PollCancel(p) ==
  /\ poll[p].pc = "wait"
  /\ poll' = [poll EXCEPT ![p].pc = "return"]
  /\ UNCHANGED <<created, session, done, events, sessions, userSessions, armed,
                 expiring, ender, delivered, server>>

\* The deferred StartSessionTimer of handleEventLongPoll.
PollReturn(p) ==
  /\ poll[p].pc = "return"
  /\ StartSessionTimer(poll[p].key)
  /\ poll' = [poll EXCEPT ![p] = IdlePoll]
  /\ UNCHANGED <<created, session, done, events, sessions, userSessions,
                 expiring, ender, delivered, server>>

-----------------------------------------------------------------------------
(* POST /sessions/end: the session is validated and ended in two critical  *)
(* sections.                                                               *)

HandleEndSession(e, u, k) ==
  /\ server = "up"
  /\ ender[e].pc = "idle"
  /\ <<u, k>> \in Claims
  /\ ValidateSession(k, u)
  /\ ender' = [ender EXCEPT ![e] = [pc |-> "end", key |-> k]]
  /\ UNCHANGED <<created, session, done, events, sessions, userSessions, armed,
                 expiring, poll, delivered, server>>

EndSession(e) ==
  /\ ender[e].pc = "end"
  /\ EndOrExpire(ender[e].key)
  /\ ender' = [ender EXCEPT ![e] = IdleEnder]
  /\ UNCHANGED <<created, session, expiring, poll, delivered, server>>

-----------------------------------------------------------------------------
(* Idle timers.  A fired timer runs ExpireSession on a goroutine of its    *)
(* own, which Stop no longer prevents and which names the key only.        *)

TimerFires(k) ==
  /\ k \in armed
  /\ expiring[k] < MaxExpiring
  /\ armed' = armed \ {k}
  /\ expiring' = [expiring EXCEPT ![k] = @ + 1]
  /\ UNCHANGED <<created, session, done, events, sessions, userSessions, poll,
                 ender, delivered, server>>

\* Mutant: a fired timer is started again instead of ending the session.
MutExpireRearms(k) ==
  /\ expiring[k] > 0
  /\ expiring' = [expiring EXCEPT ![k] = @ - 1]
  /\ StartSessionTimer(k)
  /\ UNCHANGED <<created, session, done, events, sessions, userSessions, poll,
                 ender, delivered, server>>

ExpireSession(k) ==
  /\ expiring[k] > 0
  /\ expiring' = [expiring EXCEPT ![k] = @ - 1]
  /\ EndOrExpire(k)
  /\ UNCHANGED <<created, session, poll, ender, delivered, server>>

-----------------------------------------------------------------------------
(* The flow of a token request sends the auth URL of transaction t to an   *)
(* object it has a pointer to, if the buffer is free.  Seen from here it   *)
(* may do so at any time; module TokenBroker says when it does.            *)

PublishEvent(o, t) ==
  /\ o \in 1..created
  /\ events[o] = NoEvent
  /\ events' = [events EXCEPT ![o] = UrlReadyEvent(t)]
  /\ UNCHANGED <<created, session, done, sessions, userSessions, armed,
                 expiring, poll, ender, delivered, server>>

-----------------------------------------------------------------------------
(* main: SIGTERM stops the listener; after at most 30 seconds of draining  *)
(* the session manager is shut down and the process exits.                 *)

StopAccepting ==
  /\ Terminates
  /\ server = "up"
  /\ server' = "draining"
  /\ UNCHANGED <<created, session, done, events, sessions, userSessions, armed,
                 expiring, poll, ender, delivered>>

Bound == {sessions[k] : k \in Keys} \ {NoSession}

Shutdown ==
  /\ server = "draining"
  /\ server' = "stopped"
  /\ armed' = {}
  /\ done' = done \cup Bound
  /\ events' = [o \in Ids |-> IF o \in Bound /\ events[o] = NoEvent
                              THEN ErrorEvent ELSE events[o]]
  /\ userSessions' = [u \in Users |-> {x \in userSessions[u] :
                        ~ \E o \in Bound : /\ session[o].user = u
                                           /\ session[o].key = session[x].key}]
  /\ sessions' = [k \in Keys |-> NoSession]
  /\ UNCHANGED <<created, session, expiring, poll, ender, delivered>>

-----------------------------------------------------------------------------
PollStep(p) ==
  \/ PollReset(p) \/ PollGetSession(p)
  \/ PollEvent(p) \/ PollDone(p) \/ PollCancel(p) \/ PollReturn(p)

Requests ==
  \E u \in Users, k \in Keys :
     \/ CreateSession(u, k)
     \/ \E p \in Polls : HandleEvents(p, u, k)
     \/ \E e \in Enders : HandleEndSession(e, u, k)

Internal ==
  \/ \E p \in Polls : PollStep(p)
  \/ \E e \in Enders : EndSession(e)
  \/ \E k \in Keys : TimerFires(k) \/ ExpireSession(k)
  \/ StopAccepting
  \/ Shutdown

SMNext ==
  \/ Requests
  \/ Internal
  \/ \E o \in Ids, t \in Txs : PublishEvent(o, t)

SMSpec == SMInit /\ [][SMNext]_smVars

-----------------------------------------------------------------------------
(* Fairness: the goroutines of a running process are scheduled and the Go  *)
(* runtime fires armed timers.  Nothing is asked of the Backend: a poll in *)
(* its select may stay there until an event comes or its session closes.   *)

Running(A) == server # "stopped" /\ A

OwnPollStep(p) ==
  \/ PollReset(p) \/ PollGetSession(p)
  \/ PollEvent(p) \/ PollDone(p) \/ PollReturn(p)

SMFairness ==
  /\ \A p \in Polls : WF_smVars(Running(OwnPollStep(p)))
  /\ \A e \in Enders : WF_smVars(Running(EndSession(e)))
  /\ \A k \in Keys : /\ WF_smVars(Running(TimerFires(k)))
                     /\ WF_smVars(Running(ExpireSession(k)))

SMFairSpec == SMSpec /\ SMFairness

-----------------------------------------------------------------------------
(* Properties                                                              *)

\* The type invariant: what the maps, channels and handlers can hold.
SMTypeOK ==
  /\ created \in 0..MaxCreates
  /\ session \in [Ids -> {NoStruct} \cup [key : Keys, user : Users]]
  /\ \A o \in 1..created : session[o] \in [key : Keys, user : Users]
  /\ done \subseteq 1..created
  /\ events \in [Ids -> Events]
  /\ sessions \in [Keys -> 0..created]
  /\ userSessions \in [Users -> SUBSET (1..created)]
  /\ armed \subseteq Keys
  /\ expiring \in [Keys -> Nat]
  /\ poll \in [Polls -> {IdlePoll}
                        \cup [pc : {"reset", "get"}, key : Keys, obj : {NoSession}]
                        \cup [pc : {"wait", "return"}, key : Keys, obj : 1..created]]
  /\ ender \in [Enders -> {IdleEnder} \cup [pc : {"end"}, key : Keys]]
  /\ delivered \subseteq Txs
  /\ server \in {"up", "draining", "stopped"}

\* cleanupSessionLocked closes Done unconditionally, and closing a channel twice
\* panics: the object a key is bound to is its own and has never been closed
\* (manager.go: "runs at most once per key, so this close is safe").
BoundSessionsOpen ==
  \A k \in Keys : sessions[k] # NoSession =>
     /\ session[sessions[k]].key = k
     /\ sessions[k] \notin done

\* The objects of user u that a key is bound to.
LiveSessions(u) == {o \in Bound : session[o].user = u}

\* CreateSession's limit: whatever is re-created, ended or expired, in whatever
\* order, the list it counts misses none of the user's sessions in the sessions
\* map and holds at most MaxSessionsPerUser, so no user has more sessions.
SessionCap ==
  \A u \in Users :
    /\ LiveSessions(u) \subseteq userSessions[u]
    /\ Cardinality(userSessions[u]) <= MaxSessionsPerUser

\* No two users hold JWTs for one session key.
KeysUnshared ==
  \A c, d \in Claims : c[2] = d[2] => c[1] = d[1]

\* The per-user list that CreateSession counts holds no key that is gone: an
\* entry left behind by the cleanup would take a place of its user forever.
ListedKeysBound ==
  KeysUnshared =>
    \A u \in Users : \A o \in userSessions[u] : sessions[session[o].key] # NoSession

\* Something will end the session of k: its timer runs or has fired, or a
\* long-poll on k will start the timer when it returns.
Covered(k) ==
  \/ k \in armed
  \/ expiring[k] > 0
  \/ \E p \in Polls : poll[p].pc # "idle" /\ poll[p].key = k

KeepsCovered(k) ==
  Covered(k) /\ sessions'[k] = sessions[k] /\ sessions[k] # NoSession => Covered(k)'

\* No interleaving of long-polls, their resets and starts of the timer, fired
\* timers and re-creations leaves a session, once the Backend has polled it,
\* with nothing to expire it.
StaysCovered == [][\A k \in Keys : KeepsCovered(k)]_smVars

\* A session that has been polled and that the Backend abandons is expired.
AbandonedSessionExpires ==
  \A k \in Keys :
    <>[](server = "up" /\ \A p \in Polls : poll[p].pc # "idle" => poll[p].key # k)
      => [](Covered(k) => <>(sessions[k] = NoSession))

\* Closing Done is what tells a connected Backend that its session is over: a
\* long-poll on a closed object returns.
ClosedSessionReleasesPoll ==
  \A p \in Polls :
    (poll[p].pc = "wait" /\ poll[p].obj \in done)
      ~> (poll[p].pc # "wait" \/ server = "stopped")

-----------------------------------------------------------------------------
(* The inductive invariant.  The limit on the sessions of a user is kept   *)
(* through the user's list, so the invariant ties the list to the map.     *)

ListInv ==
  /\ \A u \in Users : /\ Cardinality(userSessions[u]) <= MaxSessionsPerUser
                      /\ \A o \in userSessions[u] : session[o].user = u
  /\ \A k \in Keys : sessions[k] # NoSession =>
       sessions[k] \in userSessions[session[sessions[k]].user]
  /\ \A o \in 1..created : <<session[o].user, session[o].key>> \in Claims
  /\ ListedKeysBound

SMInv == SMTypeOK /\ BoundSessionsOpen /\ ListInv

=============================================================================
