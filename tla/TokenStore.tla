----------------------------- MODULE TokenStore -----------------------------
(***************************************************************************)
(* What the token broker relies on when it uses its token cache: a lookup  *)
(* returns what was stored last for that session key and resource, until   *)
(* time takes it or the entry is dropped, and a token that is gone does    *)
(* not come back.  It is the cache as module TokenBroker sees it (its      *)
(* actions SetToken and TokenExpires); module TokenCache implements it.    *)
(***************************************************************************)
EXTENDS Naturals

CONSTANTS Keys, Resources, Tokens, NoToken

VARIABLES
  visible,  \* key -> resource -> the token a lookup returns
  now       \* the wall clock

storeVars == <<visible, now>>

StoreInit ==
  /\ visible = [k \in Keys |-> [x \in Resources |-> NoToken]]
  /\ now = 0

Put(k, x, t) == visible' = [visible EXCEPT ![k][x] = t] /\ UNCHANGED now

\* The entry is deleted, or replaced by a token that is already too old.
Drop(k, x) == visible' = [visible EXCEPT ![k][x] = NoToken] /\ UNCHANGED now

\* Time passes, and any number of tokens become invisible.
Expire ==
  /\ now' > now
  /\ visible' \in [Keys -> [Resources -> Tokens \cup {NoToken}]]
  /\ \A k \in Keys, x \in Resources : visible'[k][x] \in {visible[k][x], NoToken}

StoreNext ==
  \/ \E k \in Keys, x \in Resources : Drop(k, x) \/ \E t \in Tokens : Put(k, x, t)
  \/ Expire

StoreSpec == StoreInit /\ [][StoreNext]_storeVars
=============================================================================
