-------------------------- MODULE TokenCacheProofs --------------------------
(***************************************************************************)
(* The token cache for all sessions, resources, expiry times and clocks:   *)
(* its type invariant, the freshness of readable tokens, and that its      *)
(* lookups implement the store of module TokenStore.  The invariant that   *)
(* carries both is EntriesOK: the expiry stored with a token whose exp     *)
(* claim can be read is that claim.                                        *)
(***************************************************************************)
EXTENDS TokenCache, TLAPS

\* A leaf that names no prover is one for Zenon.
USE Zenon

EntryOK(e) == ExpReadable(e.token) => e.expiresAt = e.token.exp
EntriesOK == \A k \in Keys, x \in Resources : EntryOK(tokens[k][x])
CacheInv == CacheTypeOK /\ EntriesOK

\* The expiry ParseJWTExpiry computes is a time, and the exp claim where it can be read.
LEMMA ParsedExpiry ==
  ASSUME now \in Nat, NEW t \in Tokens
  PROVE  /\ ParseJWTExpiry(t) \in Nat
         /\ ExpReadable(t) => ParseJWTExpiry(t) = t.exp
<1>1. t.exp \in Nat
  <2>1. CASE t \in [kind : {"opaque"}, rem : {0}, exp : {0}]
    BY <2>1, SMT
  <2>2. CASE t \in [kind : {"jwt"}, rem : {0, 2, 3}, exp : Exps]
    BY <2>2, ExpsAssumption
  <2>3. QED
    BY <2>1, <2>2 DEF Tokens
<1>2. now + LongLived \in Nat
  BY TimesAssumption, SMT
<1>3. QED
  BY <1>1, <1>2 DEF ParseJWTExpiry

\* The cache starts empty.
LEMMA CacheInvInit == TokenCacheInit => CacheInv
  BY TimesAssumption, SMT DEF TokenCacheInit, CacheInv, CacheTypeOK, EntriesOK, EntryOK,
     NoEntry, NoToken, ExpReadable

\* A step keeps the types, and every entry the expiry of its token.
LEMMA CacheInvStep == CacheInv /\ [TokenCacheNext]_cacheVars => CacheInv'
<1> SUFFICES ASSUME CacheInv, [TokenCacheNext]_cacheVars PROVE CacheInv'
  OBVIOUS
<1> USE DEF CacheInv, CacheTypeOK, EntriesOK
<1>0. now \in Nat
  BY TimesAssumption, SMT
<1>e. EntryOK(NoEntry)
  BY DEF EntryOK, NoEntry, NoToken, ExpReadable
<1>1. CASE Tick
  BY <1>0, <1>1, TimesAssumption, SMT DEF Tick, EntryOK, ExpReadable
<1>2. ASSUME NEW k \in Keys, NEW x \in Resources, NEW t \in Tokens, SetToken(k, x, t)
      PROVE  CacheInv'
  <2> DEFINE e == [token |-> t, expiresAt |-> ParseJWTExpiry(t)]
  <2>1. e \in [token : Tokens, expiresAt : Nat] /\ EntryOK(e)
    BY <1>0, ParsedExpiry DEF EntryOK
  <2>2. tokens' = [tokens EXCEPT ![k][x] = e] /\ now' = now
    BY <1>2 DEF SetToken
  <2> HIDE DEF e
  <2>3. QED
    BY <2>1, <2>2 DEF EntryOK, ExpReadable
<1>3. ASSUME NEW k \in Keys, NEW x \in Resources, DeleteToken(k, x)
      PROVE  CacheInv'
  BY <1>3, <1>e DEF DeleteToken, EntryOK, ExpReadable
<1>4. CASE CleanupExpiredTokens
  BY <1>4, <1>e DEF CleanupExpiredTokens, EntryOK, ExpReadable
<1>5. CASE UNCHANGED cacheVars
  BY <1>5 DEF cacheVars, EntryOK, ExpReadable
<1>6. QED
  BY <1>1, <1>2, <1>3, <1>4, <1>5 DEF TokenCacheNext

\* The type invariant of the cache, and the expiry of each entry, for any constants.
THEOREM CacheTypes == TokenCacheSpec => []CacheInv
  BY CacheInvInit, CacheInvStep, PTL DEF TokenCacheSpec

\* GetToken serves no token whose exp claim can be read once less than Window is left
\* of it, for any lifetimes and window.
THEOREM TokensFresh == TokenCacheSpec => []ReadableTokensFresh
<1>1. CacheInv => ReadableTokensFresh
  <2> SUFFICES ASSUME CacheInv, NEW k \in Keys, NEW x \in Resources,
                      ExpReadable(GetToken(k, x))
               PROVE  GetToken(k, x).exp >= now + Window
    BY DEF ReadableTokensFresh
  <2> DEFINE e == tokens[k][x]
  <2>1. e # NoEntry /\ ~ IsTokenExpired(e.expiresAt) /\ GetToken(k, x) = e.token
    BY DEF GetToken, ExpReadable, NoToken
  <2>2. e \in [token : Tokens, expiresAt : Nat] /\ e.expiresAt = e.token.exp
    BY <2>1 DEF CacheInv, CacheTypeOK, EntriesOK, EntryOK
  <2>3. now \in Nat
    BY TimesAssumption, SMT DEF CacheInv, CacheTypeOK
  <2>4. QED
    BY <2>1, <2>2, <2>3, TimesAssumption, SMT DEF IsTokenExpired
<1>2. QED
  BY CacheTypes, <1>1, PTL

\* The periodic cleanup hides nothing that a lookup would serve.
LEMMA CleanupKeepsLookups ==
  CleanupExpiredTokens => \A k \in Keys, x \in Resources : GetToken(k, x)' = GetToken(k, x)
  BY SMT DEF CleanupExpiredTokens, GetToken, IsTokenExpired

\* No lookup can tell whether the cleanup has run, whatever is cached and whenever.
THEOREM CleanupOnlyFrees == TokenCacheSpec => CleanupUnobservable
  BY CleanupKeepsLookups, PTL DEF CleanupUnobservable

-----------------------------------------------------------------------------
(* The refinement.                                                         *)

\* What the lookups show is a store of tokens.
LEMMA VisibleType == CacheTypeOK => Visible \in [Keys -> [Resources -> Tokens \cup {NoToken}]]
<1> SUFFICES ASSUME CacheTypeOK, NEW k \in Keys, NEW x \in Resources
             PROVE  GetToken(k, x) \in Tokens \cup {NoToken}
  BY DEF Visible
<1>1. QED
  BY DEF CacheTypeOK, GetToken

\* The empty cache shows an empty store.
LEMMA StoreInitHolds == TokenCacheInit => Store!StoreInit
  BY SMT DEF TokenCacheInit, Store!StoreInit, Visible, GetToken

\* Every step of the cache is a step of the store or leaves what the lookups show.
LEMMA StoreStep == CacheTypeOK /\ CacheTypeOK' /\ [TokenCacheNext]_cacheVars
                     => [Store!StoreNext]_(Store!storeVars)
<1> SUFFICES ASSUME CacheTypeOK, CacheTypeOK', [TokenCacheNext]_cacheVars
             PROVE  [Store!StoreNext]_(Store!storeVars)
  OBVIOUS
<1> USE DEF Store!storeVars
<1>0. now \in Nat /\ now' \in Nat
  BY TimesAssumption, SMT DEF CacheTypeOK
<1>1. CASE Tick
  <2>1. now' > now /\ tokens' = tokens
    BY <1>0, <1>1, SMT DEF Tick
  <2>2. ASSUME NEW k \in Keys, NEW x \in Resources
        PROVE  GetToken(k, x)' \in {GetToken(k, x), NoToken}
    <3>1. CASE tokens[k][x] = NoEntry
      BY <2>1, <3>1 DEF GetToken
    <3>2. CASE tokens[k][x] # NoEntry
      <4>1. tokens[k][x].expiresAt \in Nat
        BY <3>2 DEF CacheTypeOK
      <4>2. IsTokenExpired(tokens[k][x].expiresAt) => IsTokenExpired(tokens[k][x].expiresAt)'
        BY <1>0, <2>1, <4>1, TimesAssumption, SMT DEF IsTokenExpired
      <4>3. QED
        BY <2>1, <4>2 DEF GetToken
    <3>3. QED
      BY <3>1, <3>2
  <2>3. Visible' \in [Keys -> [Resources -> Tokens \cup {NoToken}]]
    BY VisibleType, SMT DEF Visible, CacheTypeOK, GetToken
  <2>4. QED
    BY <2>1, <2>2, <2>3 DEF Store!StoreNext, Store!Expire, Visible
<1>2. ASSUME NEW k \in Keys, NEW x \in Resources, NEW t \in Tokens, SetToken(k, x, t)
      PROVE  [Store!StoreNext]_(Store!storeVars)
  <2> DEFINE e == [token |-> t, expiresAt |-> ParseJWTExpiry(t)]
  <2>1. tokens' = [tokens EXCEPT ![k][x] = e] /\ now' = now
    BY <1>2 DEF SetToken
  <2>2. GetToken(k, x)' \in {t, NoToken}
    BY <2>1 DEF GetToken, CacheTypeOK
  <2> HIDE DEF e
  <2>3. \A l \in Keys, y \in Resources :
          ~ (l = k /\ y = x) => GetToken(l, y)' = GetToken(l, y)
    BY <2>1 DEF GetToken, IsTokenExpired, CacheTypeOK
  <2>4. Visible' = [Visible EXCEPT ![k][x] = GetToken(k, x)']
    BY <2>3 DEF Visible
  <2>5. Store!Put(k, x, t) \/ Store!Drop(k, x)
    BY <2>1, <2>2, <2>4 DEF Store!Put, Store!Drop
  <2>6. QED
    BY <2>5 DEF Store!StoreNext
<1>3. ASSUME NEW k \in Keys, NEW x \in Resources, DeleteToken(k, x)
      PROVE  [Store!StoreNext]_(Store!storeVars)
  <2>1. tokens' = [tokens EXCEPT ![k][x] = NoEntry] /\ now' = now
    BY <1>3 DEF DeleteToken
  <2>2. GetToken(k, x)' = NoToken
    BY <2>1 DEF GetToken, CacheTypeOK
  <2>3. \A l \in Keys, y \in Resources :
          ~ (l = k /\ y = x) => GetToken(l, y)' = GetToken(l, y)
    BY <2>1 DEF GetToken, IsTokenExpired, CacheTypeOK
  <2>4. Visible' = [Visible EXCEPT ![k][x] = NoToken]
    BY <2>2, <2>3 DEF Visible
  <2>5. QED
    BY <2>1, <2>4 DEF Store!StoreNext, Store!Drop
<1>4. CASE CleanupExpiredTokens
  <2>1. now' = now
    BY <1>4 DEF CleanupExpiredTokens
  <2>2. \A k \in Keys, x \in Resources : GetToken(k, x)' = GetToken(k, x)
    BY <1>4, CleanupKeepsLookups
  <2>3. QED
    BY <2>1, <2>2 DEF Visible
<1>5. CASE UNCHANGED cacheVars
  BY <1>5 DEF cacheVars, Visible, GetToken, IsTokenExpired
<1>6. QED
  BY <1>1, <1>2, <1>3, <1>4, <1>5 DEF TokenCacheNext

\* The cache implements the store the broker relies on, for any constants.
THEOREM CacheImplementsStore == TokenCacheSpec => ImplementsTokenStore
<1>1. CacheInv => CacheTypeOK
  BY DEF CacheInv
<1>2. QED
  BY CacheTypes, <1>1, StoreInitHolds, StoreStep, PTL
     DEF TokenCacheSpec, ImplementsTokenStore, Store!StoreSpec
=============================================================================
