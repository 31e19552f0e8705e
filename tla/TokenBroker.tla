---------------------------- MODULE TokenBroker ----------------------------
(***************************************************************************)
(* Token acquisition in the token broker: AcquireToken, performOAuthFlow   *)
(* and CompleteOAuth (token-broker/internal/core/broker.go) with their     *)
(* HTTP handlers, running beside the session lifecycle of SessionManager.  *)
(*                                                                         *)
(* A token request and an OAuth callback are processes.  The flow works on *)
(* the session object it was given, without holding the session manager's  *)
(* mutex; the only thing that orders two flows is the object's semaphore.  *)
(*                                                                         *)
(* Data: a PKCE verifier, a state nonce, an authorization code and the     *)
(* token obtained with it are all identified with the transaction they     *)
(* belong to.  TokenWaiters is left out: no code appends to it.            *)
(***************************************************************************)
EXTENDS SessionManager

CONSTANTS
  Reqs,        \* concurrent POST /sessions/token requests
  Callbacks,   \* concurrent GET /oauth/callback requests
  Resources,   \* resource server URLs (X-Server-Url)
  NoReq        \* "semaphore free"

ASSUME NoReqAssumption == NoReq \notin Reqs

VARIABLES
  sem,        \* per object, the request holding AcquisitionSemaphore
  activeTx,   \* per object, ActiveOAuthTx (0 is nil)
  txs,        \* number of transactions started
  tx,         \* the OAuthTransaction structs
  cache,      \* TokenCache: key -> resource -> token that GetToken returns (0: none)
  req,        \* the token requests
  callback    \* the OAuth callbacks

brokerVars == <<sem, activeTx, txs, tx, cache, req, callback>>
vars == <<smVars, brokerVars>>

NoTx == 0

\* An OAuthTransaction: the object and resource it is for, whether its State
\* is set, and the code buffered in CompletionChan (capacity 1).
UnusedTx == [obj |-> NoSession, res |-> "none", state |-> "none",
             status |-> "unused", chan |-> NoTx]

\* The answer of a finished request is an HTTP status, or "cancelled" when the
\* request's context ended first and nobody reads the response.
IdleReq == [pc |-> "idle", key |-> "none", user |-> "none", res |-> "none",
            obj |-> NoSession, tx |-> NoTx, code |-> NoTx,
            ans |-> "none", token |-> NoTx]

IdleCallback == [pc |-> "idle", obj |-> NoSession, code |-> NoTx]

Init ==
  /\ SMInit
  /\ sem = [o \in Ids |-> NoReq]
  /\ activeTx = [o \in Ids |-> NoTx]
  /\ txs = 0
  /\ tx = [t \in Txs |-> UnusedTx]
  /\ cache = [k \in Keys |-> [x \in Resources |-> NoTx]]
  /\ req = [r \in Reqs |-> IdleReq]
  /\ callback = [c \in Callbacks |-> IdleCallback]

-----------------------------------------------------------------------------
(* Control of a token request.                                             *)

GoTo(r, pc) == req' = [req EXCEPT ![r].pc = pc]

\* The handler answers and forgets its local variables.
Answer(r, ans, token) ==
  req' = [req EXCEPT ![r] = [pc |-> "idle", key |-> req[r].key, user |-> req[r].user,
                             res |-> req[r].res, obj |-> NoSession, tx |-> NoTx,
                             code |-> NoTx, ans |-> ans, token |-> token]]

\* The deferred Release of AcquireToken.
Release(r) == sem' = [sem EXCEPT ![req[r].obj] = NoReq]

SetStatus(t, status) == tx' = [tx EXCEPT ![t].status = status]

\* HandleGetToken up to the call of AcquireToken; an invalid session is answered
\* 401 with no effect.
HandleGetToken(r, u, k, x) ==
  /\ server = "up"
  /\ req[r].pc = "idle"
  /\ <<u, k>> \in Claims
  /\ ValidateSession(k, u)
  /\ req' = [req EXCEPT ![r] = [IdleReq EXCEPT !.pc = "validate", !.key = k,
                                               !.user = u, !.res = x]]
  /\ UNCHANGED <<smVars, sem, activeTx, txs, tx, cache, callback>>

AcquireValidate(r) ==
  /\ req[r].pc = "validate"
  /\ IF ValidateSession(req[r].key, req[r].user)
     THEN GoTo(r, "lookup")
     ELSE Answer(r, "500", NoTx)
  /\ UNCHANGED <<smVars, sem, activeTx, txs, tx, cache, callback>>

CacheLookup(r) ==
  LET token == cache[req[r].key][req[r].res]
  IN /\ req[r].pc = "lookup"
     /\ IF token = NoTx THEN GoTo(r, "get") ELSE Answer(r, "200", token)
     /\ UNCHANGED <<smVars, sem, activeTx, txs, tx, cache, callback>>

AcquireGetSession(r) ==
  LET o == sessions[req[r].key]
  IN /\ req[r].pc = "get"
     /\ IF o = NoSession
        THEN Answer(r, "500", NoTx)
        ELSE req' = [req EXCEPT ![r].pc = "acquire", ![r].obj = o]
     /\ UNCHANGED <<smVars, sem, activeTx, txs, tx, cache, callback>>

\* Mutant: the slot is taken whether or not it is free.
MutAcquireAnyway(r) ==
  /\ req[r].pc = "acquire"
  /\ sem' = [sem EXCEPT ![req[r].obj] = r]
  /\ GoTo(r, "recheck")
  /\ UNCHANGED <<smVars, activeTx, txs, tx, cache, callback>>

AcquireSemaphore(r) ==
  /\ req[r].pc = "acquire"
  /\ sem[req[r].obj] = NoReq
  /\ sem' = [sem EXCEPT ![req[r].obj] = r]
  /\ GoTo(r, "recheck")
  /\ UNCHANGED <<smVars, activeTx, txs, tx, cache, callback>>

\* Mutant: Acquire blocks on the slot and looks at the context afterwards.
MutAcquireBlocks(r) ==
  /\ req[r].pc = "acquire"
  /\ sem[req[r].obj] = NoReq
  /\ Answer(r, "cancelled", NoTx)
  /\ UNCHANGED <<smVars, sem, activeTx, txs, tx, cache, callback>>

\* The request's context ends while it waits for the semaphore.
AcquireCancelled(r) ==
  /\ req[r].pc = "acquire"
  /\ Answer(r, "cancelled", NoTx)
  /\ UNCHANGED <<smVars, sem, activeTx, txs, tx, cache, callback>>

\* Mutant: the cache is not looked up again under the semaphore.
MutNoRecheck(r) ==
  /\ req[r].pc = "recheck"
  /\ GoTo(r, "discover")
  /\ UNCHANGED <<smVars, sem, activeTx, txs, tx, cache, callback>>

CacheRecheck(r) ==
  LET token == cache[req[r].key][req[r].res]
  IN /\ req[r].pc = "recheck"
     /\ IF token = NoTx
        THEN GoTo(r, "discover") /\ UNCHANGED sem
        ELSE Answer(r, "200", token) /\ Release(r)
     /\ UNCHANGED <<smVars, activeTx, txs, tx, cache, callback>>

-----------------------------------------------------------------------------
(* performOAuthFlow                                                        *)

\* Endpoints discovered, PKCE generated: the transaction is stored.
StartTransaction(r) ==
  /\ req[r].pc = "discover"
  /\ txs < MaxTxs
  /\ txs' = txs + 1
  /\ tx' = [tx EXCEPT ![txs'] = [obj |-> req[r].obj, res |-> req[r].res,
                                 state |-> "none", status |-> "waiting_code",
                                 chan |-> NoTx]]
  /\ activeTx' = [activeTx EXCEPT ![req[r].obj] = txs']
  /\ req' = [req EXCEPT ![r].pc = "build", ![r].tx = txs']
  /\ UNCHANGED <<smVars, sem, cache, callback>>

\* Discovery fails (502), or no randomness for PKCE (500).
StartFails(r) ==
  /\ req[r].pc = "discover"
  /\ \E ans \in {"502", "500"} : Answer(r, ans, NoTx)
  /\ Release(r)
  /\ UNCHANGED <<smVars, activeTx, txs, tx, cache, callback>>

BuildAuthorizationURL(r) ==
  /\ req[r].pc = "build"
  /\ tx' = [tx EXCEPT ![activeTx[req[r].obj]].state = "set"]
  /\ GoTo(r, "publish")
  /\ UNCHANGED <<smVars, sem, activeTx, txs, cache, callback>>

BuildFails(r) ==
  /\ req[r].pc = "build"
  /\ SetStatus(activeTx[req[r].obj], "failed")
  /\ Answer(r, "500", NoTx)
  /\ Release(r)
  /\ UNCHANGED <<smVars, activeTx, txs, cache, callback>>

\* Mutant: the URL replaces an event that nobody has taken.
MutPublishOverwrites(r) ==
  /\ req[r].pc = "publish"
  /\ events' = [events EXCEPT ![req[r].obj] = UrlReadyEvent(req[r].tx)]
  /\ GoTo(r, "wait")
  /\ UNCHANGED <<created, session, done, sessions, userSessions, armed, expiring,
                 poll, ender, delivered, server>>
  /\ UNCHANGED <<sem, activeTx, txs, tx, cache, callback>>

PublishUrlReady(r) ==
  /\ req[r].pc = "publish"
  /\ PublishEvent(req[r].obj, req[r].tx)
  /\ GoTo(r, "wait")
  /\ UNCHANGED <<sem, activeTx, txs, tx, cache, callback>>

\* The buffer holds an event nobody has taken: "no event waiter available".
PublishNoWaiter(r) ==
  /\ req[r].pc = "publish"
  /\ events[req[r].obj] # NoEvent
  /\ Answer(r, "500", NoTx)
  /\ Release(r)
  /\ UNCHANGED <<smVars, activeTx, txs, tx, cache, callback>>

PublishCancelled(r) ==
  /\ req[r].pc = "publish"
  /\ Answer(r, "cancelled", NoTx)
  /\ Release(r)
  /\ UNCHANGED <<smVars, activeTx, txs, tx, cache, callback>>

\* The select on the completion channel of the object's active transaction.
ReceiveCode(r) ==
  LET t == activeTx[req[r].obj]
  IN /\ req[r].pc = "wait"
     /\ tx[t].chan # NoTx
     /\ req' = [req EXCEPT ![r].pc = "exchange", ![r].code = tx[t].chan]
     /\ tx' = [tx EXCEPT ![t].chan = NoTx]
     /\ UNCHANGED <<smVars, sem, activeTx, txs, cache, callback>>

WaitFails(r, ans) ==
  /\ req[r].pc = "wait"
  /\ SetStatus(activeTx[req[r].obj], "failed")
  /\ Answer(r, ans, NoTx)
  /\ Release(r)
  /\ UNCHANGED <<smVars, activeTx, txs, cache, callback>>

WaitTimeout(r) == WaitFails(r, "408")
WaitSessionDone(r) == req[r].obj \in done /\ WaitFails(r, "401")
WaitCancelled(r) == WaitFails(r, "cancelled")

\* The provider accepts a code only with the verifier of its own transaction.
ExchangeToken(r) ==
  /\ req[r].pc = "exchange"
  /\ req[r].code = req[r].tx
  /\ SetStatus(activeTx[req[r].obj], "completed")
  /\ GoTo(r, "store")
  /\ UNCHANGED <<smVars, sem, activeTx, txs, cache, callback>>

ExchangeFails(r) ==
  /\ req[r].pc = "exchange"
  /\ SetStatus(activeTx[req[r].obj], "failed")
  /\ Answer(r, "502", NoTx)
  /\ Release(r)
  /\ UNCHANGED <<smVars, activeTx, txs, cache, callback>>

\* Mutant: the cache is keyed by session only.
MutTokenForAll(r) ==
  /\ req[r].pc = "store"
  /\ cache' = [cache EXCEPT ![session[req[r].obj].key] =
                              [x \in Resources |-> req[r].tx]]
  /\ GoTo(r, "clear")
  /\ UNCHANGED <<smVars, sem, activeTx, txs, tx, callback>>

SetToken(r) ==
  /\ req[r].pc = "store"
  /\ cache' = [cache EXCEPT ![session[req[r].obj].key][req[r].res] = req[r].tx]
  /\ GoTo(r, "clear")
  /\ UNCHANGED <<smVars, sem, activeTx, txs, tx, callback>>

ClearTransaction(r) ==
  /\ req[r].pc = "clear"
  /\ activeTx' = [activeTx EXCEPT ![req[r].obj] = NoTx]
  /\ Answer(r, "200", req[r].tx)
  /\ Release(r)
  /\ UNCHANGED <<smVars, txs, tx, cache, callback>>

\* A cached token comes within five minutes of its expiry: GetToken no longer
\* returns it, whether or not CleanupExpiredTokens has removed it (TokenCache).
TokenExpires(k, x) ==
  /\ cache[k][x] # NoTx
  /\ cache' = [cache EXCEPT ![k][x] = NoTx]
  /\ UNCHANGED <<smVars, sem, activeTx, txs, tx, req, callback>>

-----------------------------------------------------------------------------
(* GET /oauth/callback.  The provider calls back, once or again, with a    *)
(* code for a transaction whose URL the Backend was given.  A callback     *)
(* whose state is not found is answered 400; a callback with an error      *)
(* parameter only redirects the browser.  Neither has an effect.           *)

GetSessionByState(t) == sessions[session[tx[t].obj].key]

HandleOAuthCallback(c, t) ==
  LET o == GetSessionByState(t)
  IN /\ server = "up"
     /\ callback[c].pc = "idle"
     /\ t \in delivered
     /\ o # NoSession
     /\ activeTx[o] = t /\ tx[t].state = "set"
     /\ callback' = [callback EXCEPT ![c] =
                       [pc |-> "validate", obj |-> o, code |-> t]]
     /\ UNCHANGED <<smVars, sem, activeTx, txs, tx, cache, req>>

CallbackEnds(c) == callback' = [callback EXCEPT ![c] = IdleCallback]

CallbackValidate(c) ==
  LET s == session[callback[c].obj]
  IN /\ callback[c].pc = "validate"
     /\ IF ValidateSession(s.key, s.user)
        THEN callback' = [callback EXCEPT ![c].pc = "get"]
        ELSE CallbackEnds(c)
     /\ UNCHANGED <<smVars, sem, activeTx, txs, tx, cache, req>>

CallbackGetSession(c) ==
  LET o == sessions[session[callback[c].obj].key]
  IN /\ callback[c].pc = "get"
     /\ IF o = NoSession
        THEN CallbackEnds(c)
        ELSE callback' = [callback EXCEPT ![c].pc = "check", ![c].obj = o]
     /\ UNCHANGED <<smVars, sem, activeTx, txs, tx, cache, req>>

CallbackCheckTx(c) ==
  /\ callback[c].pc = "check"
  /\ IF activeTx[callback[c].obj] = NoTx
     THEN CallbackEnds(c)
     ELSE callback' = [callback EXCEPT ![c].pc = "send"]
  /\ UNCHANGED <<smVars, sem, activeTx, txs, tx, cache, req>>

\* Mutant: CompleteOAuth clears the transaction it has delivered the code to.
MutSendClears(c) ==
  LET t == activeTx[callback[c].obj]
  IN /\ callback[c].pc = "send"
     /\ tx' = IF t # NoTx /\ tx[t].chan = NoTx
              THEN [tx EXCEPT ![t].chan = callback[c].code]
              ELSE tx
     /\ activeTx' = [activeTx EXCEPT ![callback[c].obj] = NoTx]
     /\ CallbackEnds(c)
     /\ UNCHANGED <<smVars, sem, txs, cache, req>>

\* ActiveOAuthTx is read again: it may have become nil (the handler panics and
\* the router recovers) or be another transaction by now.
CallbackSend(c) ==
  LET t == activeTx[callback[c].obj]
  IN /\ callback[c].pc = "send"
     /\ tx' = IF t # NoTx /\ tx[t].chan = NoTx
              THEN [tx EXCEPT ![t].chan = callback[c].code]
              ELSE tx
     /\ CallbackEnds(c)
     /\ UNCHANGED <<smVars, sem, activeTx, txs, cache, req>>

-----------------------------------------------------------------------------
AcquireStep(r) ==
  \/ AcquireValidate(r) \/ CacheLookup(r) \/ AcquireGetSession(r)
  \/ AcquireSemaphore(r) \/ AcquireCancelled(r) \/ CacheRecheck(r)

FlowStep(r) ==
  \/ StartTransaction(r) \/ StartFails(r)
  \/ BuildAuthorizationURL(r) \/ BuildFails(r)
  \/ PublishUrlReady(r) \/ PublishNoWaiter(r) \/ PublishCancelled(r)
  \/ ReceiveCode(r) \/ WaitTimeout(r) \/ WaitSessionDone(r) \/ WaitCancelled(r)
  \/ ExchangeToken(r) \/ ExchangeFails(r)
  \/ SetToken(r) \/ ClearTransaction(r)

CallbackStep(c) ==
  \/ CallbackValidate(c) \/ CallbackGetSession(c)
  \/ CallbackCheckTx(c) \/ CallbackSend(c)

BrokerStep ==
  \/ \E r \in Reqs, u \in Users, k \in Keys, x \in Resources :
        HandleGetToken(r, u, k, x)
  \/ \E r \in Reqs : AcquireStep(r) \/ FlowStep(r)
  \/ \E c \in Callbacks, t \in Txs : HandleOAuthCallback(c, t)
  \/ \E c \in Callbacks : CallbackStep(c)
  \/ \E k \in Keys, x \in Resources : TokenExpires(k, x)

SessionStep == (Requests \/ Internal) /\ UNCHANGED brokerVars

Next == BrokerStep \/ SessionStep

Spec == Init /\ [][Next]_vars

-----------------------------------------------------------------------------
(* Fairness: the goroutines of a running process are scheduled, and every  *)
(* blocking select of a request has a deadline (the wait timeout, and the  *)
(* router's request timeout), so a request always has a next step.         *)

Fairness ==
  /\ \A r \in Reqs : WF_vars(Running(AcquireStep(r) \/ FlowStep(r)))
  /\ \A c \in Callbacks : WF_vars(Running(CallbackStep(c)))

FairSpec == Spec /\ Fairness

-----------------------------------------------------------------------------
(* Properties                                                              *)

ReqPCs == {"validate", "lookup", "get", "acquire", "recheck", "discover",
           "build", "publish", "wait", "exchange", "store", "clear"}

\* Between Acquire and the deferred Release.
Holding == {"recheck", "discover", "build", "publish", "wait", "exchange",
            "store", "clear"}

\* Between storing the transaction in the session and clearing it.
InFlow == {"build", "publish", "wait", "exchange", "store", "clear"}

Answers == {"none", "200", "401", "408", "500", "502", "cancelled"}

ReqRecord ==
  [pc : ReqPCs \cup {"idle"}, key : Keys \cup {"none"}, user : Users \cup {"none"},
   res : Resources \cup {"none"}, obj : 0..created, tx : 0..txs, code : 0..txs,
   ans : Answers, token : 0..txs]

TxRecord ==
  [obj : 1..created, res : Resources, state : {"none", "set"}, chan : 0..txs,
   status : {"waiting_code", "completed", "failed"}]

\* The type invariant of the broker's own state.
BrokerTypeOK ==
  /\ sem \in [Ids -> Reqs \cup {NoReq}]
  /\ activeTx \in [Ids -> 0..txs]
  /\ txs \in 0..MaxTxs
  /\ tx \in [Txs -> {UnusedTx} \cup TxRecord]
  /\ \A t \in 1..txs : tx[t] \in TxRecord
  /\ cache \in [Keys -> [Resources -> 0..txs]]
  /\ req \in [Reqs -> ReqRecord]
  /\ callback \in [Callbacks -> {IdleCallback}
                      \cup [pc : {"validate", "get", "check", "send"},
                            obj : 1..created, code : 1..txs]]

\* The semaphore (capacity 1) of a session object: "at most one OAuth flow runs
\* per session at a time", through every failure path of the flow.
SingleFlow ==
  \A q, r \in Reqs :
    req[q].pc \in Holding /\ req[r].pc \in Holding /\ req[q].obj = req[r].obj
      => q = r

\* performOAuthFlow keeps its transaction in session.ActiveOAuthTx and
\* dereferences that field again after every wait: it is never nil there, and
\* never the transaction of another flow.
FlowOwnsActiveTx ==
  \A r \in Reqs : req[r].pc \in InFlow => activeTx[req[r].obj] = req[r].tx

\* Double-checked locking: a request that decided to ask the user does not run
\* its flow past a token that another request of the same session obtained for
\* the same resource.
NoRedundantFlow ==
  \A r \in Reqs :
    req[r].pc \in {"discover", "build", "publish", "wait", "exchange", "store"} =>
      LET token == cache[req[r].key][req[r].res]
      IN token # NoTx => tx[token].obj # req[r].obj

\* A token answered to a request was obtained for the resource, in a session of
\* the key and, when users do not share keys, by the user of the request.
TokenFitsRequest ==
  \A r \in Reqs :
    req[r].pc = "idle" /\ req[r].ans = "200" =>
      LET t == tx[req[r].token]
      IN /\ t.status = "completed"
         /\ t.res = req[r].res
         /\ session[t.obj].key = req[r].key
         /\ KeysUnshared => session[t.obj].user = req[r].user

\* The session manager in the composition behaves as SessionManager alone says.
ImplementsSessionManager == SMSpec

\* No request waits forever, whatever happens to its session, to the requests
\* before it in the semaphore and to the user's authorization.
RequestAnswered ==
  \A r \in Reqs : req[r].pc # "idle" ~> (req[r].pc = "idle" \/ server = "stopped")

=============================================================================
