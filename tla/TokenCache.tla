----------------------------- MODULE TokenCache -----------------------------
(***************************************************************************)
(* The token cache (token-broker/internal/cache): tokens by session key    *)
(* and resource URL, each with the expiry ParseJWTExpiry derives from it.  *)
(* Every method runs under the cache's mutex and is one step; time passes  *)
(* between the steps.                                                      *)
(*                                                                         *)
(* Data: a token is "opaque" (not a JWT, or a payload that is not JSON) or *)
(* a "jwt" with an exp claim (0: none) whose base64url payload, unpadded   *)
(* as JWTs are, has a length that is rem modulo 4.                         *)
(***************************************************************************)
EXTENDS Naturals

CONSTANTS
  Keys, Resources,
  Exps,         \* exp claims of the tokens in circulation
  Window,       \* tokens with less time left than this count as expired (5 min)
  LongLived,    \* the lifetime given to a token without a readable exp (1 year)
  MaxTime       \* bound: the last instant considered

ASSUME ExpsAssumption == Exps \subseteq Nat
ASSUME TimesAssumption == Window \in Nat /\ LongLived \in Nat /\ MaxTime \in Nat

VARIABLES
  now,     \* the wall clock
  tokens   \* TokenCache.tokens: key -> resource -> TokenEntry

cacheVars == <<now, tokens>>

Tokens ==
  [kind : {"opaque"}, rem : {0}, exp : {0}]
    \cup [kind : {"jwt"}, rem : {0, 2, 3}, exp : Exps]

NoToken == [kind |-> "none", rem |-> 0, exp |-> 0]
NoEntry == [token |-> NoToken, expiresAt |-> 0]

-----------------------------------------------------------------------------
\* The '=' characters ParseJWTExpiry appends to the payload.
Padding(rem) == CASE rem = 2 -> 2 [] rem = 3 -> 1 [] OTHER -> 0

\* base64.RawURLEncoding: input with padding characters is corrupt.
RawURLDecodes(padding) == padding = 0

ExpReadable(t) == t.kind = "jwt" /\ RawURLDecodes(Padding(t.rem)) /\ t.exp # 0

ParseJWTExpiry(t) == IF ExpReadable(t) THEN t.exp ELSE now + LongLived

\* Mutant: an expired token is one whose exp has passed.
MutNoWindow(expiresAt) == now > expiresAt

IsTokenExpired(expiresAt) == now > expiresAt \/ expiresAt < now + Window

GetToken(k, x) ==
  LET entry == tokens[k][x]
  IN IF entry # NoEntry /\ ~ IsTokenExpired(entry.expiresAt)
     THEN entry.token
     ELSE NoToken

-----------------------------------------------------------------------------
TokenCacheInit ==
  /\ now = 0
  /\ tokens = [k \in Keys |-> [x \in Resources |-> NoEntry]]

Tick ==
  /\ now < MaxTime
  /\ now' = now + 1
  /\ UNCHANGED tokens

SetToken(k, x, t) ==
  /\ tokens' = [tokens EXCEPT ![k][x] =
                  [token |-> t, expiresAt |-> ParseJWTExpiry(t)]]
  /\ UNCHANGED now

\* Part of the cache's interface; nothing in the broker calls it yet.
DeleteToken(k, x) ==
  /\ tokens' = [tokens EXCEPT ![k][x] = NoEntry]
  /\ UNCHANGED now

\* Mutant: the cleanup takes tokens that lookups still serve, for another Window.
MutCleanupEarly ==
  /\ tokens' = [k \in Keys |-> [x \in Resources |->
       IF tokens[k][x].expiresAt < now + 2 * Window THEN NoEntry ELSE tokens[k][x]]]
  /\ UNCHANGED now

\* Run by the cleanup ticker of main.
CleanupExpiredTokens ==
  /\ tokens' = [k \in Keys |-> [x \in Resources |->
       IF IsTokenExpired(tokens[k][x].expiresAt) THEN NoEntry ELSE tokens[k][x]]]
  /\ UNCHANGED now

TokenCacheNext ==
  \/ Tick
  \/ \E k \in Keys, x \in Resources :
        DeleteToken(k, x) \/ \E t \in Tokens : SetToken(k, x, t)
  \/ CleanupExpiredTokens

TokenCacheSpec == TokenCacheInit /\ [][TokenCacheNext]_cacheVars

-----------------------------------------------------------------------------
(* Properties                                                              *)

\* The type invariant of the cache.
CacheTypeOK ==
  /\ now \in 0..MaxTime
  /\ tokens \in [Keys -> [Resources ->
                   {NoEntry} \cup [token : Tokens, expiresAt : Nat]]]

\* GetToken never serves a token whose exp claim the cache could read when less
\* than Window is left of it, however long the token has been cached and whether
\* or not the cleanup has run.
ReadableTokensFresh ==
  \A k \in Keys, x \in Resources :
    LET t == GetToken(k, x)
    IN ExpReadable(t) => t.exp >= now + Window

\* CleanupExpiredTokens only frees memory: no lookup can tell whether it has run.
CleanupUnobservable ==
  [][CleanupExpiredTokens =>
       \A k \in Keys, x \in Resources : GetToken(k, x)' = GetToken(k, x)]_cacheVars

\* The lookups of the cache behave as the broker assumes (TokenStore): only a
\* SetToken makes a token visible, for its own key and resource, a token that a
\* lookup has missed is not served again, and tokens that are served go only with
\* time, or one at a time on request: the cleanup cannot sweep them away.
Visible == [k \in Keys |-> [x \in Resources |-> GetToken(k, x)]]
Store == INSTANCE TokenStore WITH visible <- Visible
ImplementsTokenStore == Store!StoreSpec

=============================================================================
