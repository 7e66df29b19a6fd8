------------------------- MODULE AccessTokensProofs -------------------------
(***************************************************************************)
(* What holders of access tokens, relying services and operators may count *)
(* on, for any number of replicas, users and keys, any lifetime of the     *)
(* tokens and any clocks that agree up to Skew.                            *)
(***************************************************************************)
EXTENDS AccessTokens, TLAPS

(* A token expires within a TTL; its claims lost less than a second.       *)
MintedOK ==
    \A tok \in minted :
        /\ tok.iat <= clock /\ tok.expiresAt <= clock + AccessTokenTTL
        /\ tok.exp <= tok.expiresAt /\ tok.expiresAt < tok.exp + Second

(* When a user's account ended is known, and whatever was let through      *)
(* before is dated before.                                                 *)
EndedOK ==
    /\ \A u \in Users : status[u] # "active" => endedAt[u] # Null
    /\ \A p \in Processes :
          request[p] # Null /\ request[p].ok
              /\ status[request[p].sub] # "active" =>
                  request[p].now <= endedAt[request[p].sub]
    /\ \A tok \in minted :
          status[tok.sub] # "active" =>
              tok.expiresAt <= endedAt[tok.sub] + AccessTokenTTL

(* A cached JWKS has the key of some process that runs, or that stopped    *)
(* after the JWKS was fetched.                                             *)
CacheOK ==
    cache # Null =>
        \E k \in Keys :
            /\ cache.jwks = {PublicJWK(k)} /\ cache.at <= clock
            /\ \/ \E p \in Processes : key[p] = k
               \/ stoppedAt[k] # Null /\ cache.at <= stoppedAt[k]

AccessInv == AccessTypeOK /\ MintedOK /\ EndedOK /\ CacheOK

-----------------------------------------------------------------------------
(* The claims of a token.                                                  *)

(* NewNumericDate rounds down to a whole second.                           *)
LEMMA NumericDateTruncates ==
    ASSUME NEW t \in Int
    PROVE  /\ NumericDate(t) \in Int /\ NumericDate(t) % Second = 0
           /\ NumericDate(t) <= t /\ t < NumericDate(t) + Second
<1>1. Second \in Nat \ {0} /\ t \div Second \in Int
  BY AccessAssumption
<1>2. t - Second < (t \div Second) * Second /\ (t \div Second) * Second <= t
  BY <1>1
<1>3. \A k \in Int : (k * Second) % Second = 0 /\ k * Second \in Int
  BY <1>1
<1>4. PICK k \in Int : k = t \div Second
  BY <1>1
<1>5. NumericDate(t) = k * Second
  BY <1>4 DEF NumericDate
<1>6. t - Second < k * Second /\ k * Second <= t
  BY <1>2, <1>4
<1>7. (k * Second) % Second = 0 /\ k * Second \in Int
  BY <1>3
<1>8. \A d \in Int : t - Second < d => t < d + Second
  BY <1>1
<1> QED BY <1>5, <1>6, <1>7, <1>8

LEMMA SignedToken ==
    ASSUME NEW k \in Keys, NEW u \in Users, NEW now \in Nat
    PROVE  LET tok == Sign(k, u, now, AccessTokenTTL)
           IN  /\ tok \in Token /\ tok.sub = u
               /\ tok.iat % Second = 0 /\ tok.exp % Second = 0
               /\ tok.iat <= now /\ tok.expiresAt = now + AccessTokenTTL
               /\ tok.exp <= tok.expiresAt /\ tok.expiresAt < tok.exp + Second
<1>1. now + AccessTokenTTL \in Int /\ now \in Int
  BY AccessAssumption
<1>2. /\ NumericDate(now) \in Int /\ NumericDate(now) % Second = 0
      /\ NumericDate(now) <= now
  BY <1>1, NumericDateTruncates
<1>3. /\ NumericDate(now + AccessTokenTTL) \in Int
      /\ NumericDate(now + AccessTokenTTL) % Second = 0
      /\ NumericDate(now + AccessTokenTTL) <= now + AccessTokenTTL
      /\ now + AccessTokenTTL < NumericDate(now + AccessTokenTTL) + Second
  BY <1>1, NumericDateTruncates
<1> QED BY <1>1, <1>2, <1>3 DEF Sign, Token

(* A process verifies with exactly the key it signs with.                  *)
LEMMA OwnKeySet ==
    ASSUME NEW p \in Processes, key[p] \in Keys
    PROVE  NewStaticKeySet(JWKS(p)) = {key[p]}
<1>1. JWKS(p) = {PublicJWK(key[p])}
  BY AbsentAssumption DEF JWKS
<1>2. IsEd25519(PublicJWK(key[p])) /\ PublicJWK(key[p]).kid = key[p]
  BY DEF IsEd25519, PublicJWK
<1> QED BY <1>1, <1>2 DEF NewStaticKeySet

-----------------------------------------------------------------------------
(* The steps.                                                              *)

LEMMA StartPreserves ==
    ASSUME AccessInv, NEW p \in Processes, StartProcess(p)
    PROVE  AccessInv'
<1> USE DEF AccessInv
<1>1. /\ key[p] = Null /\ key' = [key EXCEPT ![p] = keyFile]
      /\ UNCHANGED <<clock, keyFile, request, status, endedAt, minted, cache,
                     stoppedAt>>
  BY DEF StartProcess, loadSigningKey
<1>2. AccessTypeOK'
  BY <1>1, AbsentAssumption DEF AccessTypeOK
<1>3. MintedOK' /\ EndedOK'
  BY <1>1 DEF MintedOK, EndedOK
<1>4. CacheOK'
  <2>1. \A q \in Processes, k \in Keys : key[q] = k => key'[q] = k
    BY <1>1, AbsentAssumption DEF AccessTypeOK
  <2> QED BY <1>1, <2>1 DEF CacheOK
<1> QED BY <1>2, <1>3, <1>4

(* A JWKS fetched from the process is younger than its end.                *)
LEMMA StopPreserves ==
    ASSUME AccessInv, NEW p \in Processes, StopProcess(p)
    PROVE  AccessInv'
<1> USE DEF AccessInv
<1>1. /\ key[p] \in Keys /\ clock \in Nat
      /\ key' = [key EXCEPT ![p] = Null]
      /\ request' = [request EXCEPT ![p] = Null]
      /\ stoppedAt' = [stoppedAt EXCEPT ![key[p]] = clock]
      /\ UNCHANGED <<clock, keyFile, status, endedAt, minted, cache>>
  BY DEF StopProcess, AccessTypeOK
<1>2. \A q \in Processes : request'[q] # Null =>
          q # p /\ request'[q] = request[q] /\ key'[q] = key[q]
  BY <1>1 DEF AccessTypeOK
<1>3. AccessTypeOK'
  <2>1. key' \in [Processes -> Keys \cup {Null}]
        /\ request' \in [Processes -> Request \cup {Null}]
        /\ stoppedAt' \in [Keys -> (0 .. clock) \cup {Null}]
    BY <1>1 DEF AccessTypeOK
  <2>2. \A q \in Processes :
            request'[q] # Null => key'[q] # Null /\ request'[q].now <= clock
    BY <1>2 DEF AccessTypeOK
  <2> QED BY <1>1, <2>1, <2>2 DEF AccessTypeOK
<1>4. MintedOK' /\ EndedOK'
  BY <1>1, <1>2 DEF MintedOK, EndedOK
<1>5. CacheOK'
  <2> SUFFICES ASSUME cache # Null PROVE CacheOK'
    BY <1>1 DEF CacheOK
  <2>1. PICK k \in Keys :
            /\ cache.jwks = {PublicJWK(k)} /\ cache.at <= clock
            /\ \/ \E q \in Processes : key[q] = k
               \/ stoppedAt[k] # Null /\ cache.at <= stoppedAt[k]
    BY DEF CacheOK
  <2>2. CASE key[p] = k
    BY <1>1, <2>1, <2>2, AbsentAssumption DEF CacheOK, AccessTypeOK
  <2>3. CASE key[p] # k
    <3>1. stoppedAt'[k] = stoppedAt[k]
      BY <1>1, <2>3 DEF AccessTypeOK
    <3>2. \A q \in Processes : key[q] = k => key'[q] = k
      BY <1>1, <2>3 DEF AccessTypeOK
    <3> QED BY <1>1, <2>1, <3>1, <3>2 DEF CacheOK
  <2> QED BY <2>2, <2>3
<1> QED BY <1>3, <1>4, <1>5

LEMMA ArrivePreserves ==
    ASSUME AccessInv, NEW p \in Processes, NEW u \in Users, Arrive(p, u)
    PROVE  AccessInv'
<1> USE DEF AccessInv
<1> DEFINE new == [sub |-> u, now |-> clock, ok |-> FALSE]
<1>1. clock \in Nat /\ new \in Request /\ new.now = clock /\ new.ok = FALSE
  BY DEF AccessTypeOK, Request
<1>2. /\ key[p] # Null /\ request' = [request EXCEPT ![p] = new]
      /\ UNCHANGED <<clock, keyFile, key, status, endedAt, minted, cache,
                     stoppedAt>>
  BY DEF Arrive
<1> HIDE DEF new
<1>3. \A q \in Processes : request'[q] = IF q = p THEN new ELSE request[q]
  BY <1>2 DEF AccessTypeOK
<1>4. AccessTypeOK'
  <2>1. request' \in [Processes -> Request \cup {Null}]
    BY <1>1, <1>2 DEF AccessTypeOK
  <2>2. \A q \in Processes :
            request'[q] # Null => key'[q] # Null /\ request'[q].now <= clock
    BY <1>1, <1>2, <1>3 DEF AccessTypeOK
  <2> QED BY <1>2, <2>1, <2>2 DEF AccessTypeOK
<1>5. MintedOK' /\ CacheOK'
  BY <1>2 DEF MintedOK, CacheOK
<1>6. EndedOK'
  BY <1>1, <1>2, <1>3 DEF EndedOK
<1> QED BY <1>4, <1>5, <1>6

(* A request passes the check while its user is active.                    *)
LEMMA CheckUserPreserves ==
    ASSUME AccessInv, NEW p \in Processes, CheckUser(p)
    PROVE  AccessInv'
<1> USE DEF AccessInv
<1>1. request[p] # Null /\ request[p] \in Request /\ key[p] # Null
      /\ request[p].now <= clock
  BY DEF CheckUser, AccessTypeOK
<1>2. PICK new \in Request \cup {Null} :
         /\ request' = [request EXCEPT ![p] = new]
         /\ new # Null => /\ new.sub = request[p].sub
                          /\ new.now = request[p].now
                          /\ status[new.sub] = "active"
  <2>1. CASE status[request[p].sub] = "active"
    <3>1. request' = [request EXCEPT ![p] = [request[p] EXCEPT !.ok = TRUE]]
      BY <2>1 DEF CheckUser
    <3>2. [request[p] EXCEPT !.ok = TRUE] \in Request
          /\ [request[p] EXCEPT !.ok = TRUE].sub = request[p].sub
          /\ [request[p] EXCEPT !.ok = TRUE].now = request[p].now
      BY <1>1 DEF Request
    <3> QED BY <2>1, <3>1, <3>2
  <2>2. CASE status[request[p].sub] # "active"
    BY <2>2 DEF CheckUser
  <2> QED BY <2>1, <2>2
<1>3. UNCHANGED <<clock, keyFile, key, status, endedAt, minted, cache,
                  stoppedAt>>
  BY DEF CheckUser
<1>4. \A q \in Processes : request'[q] = IF q = p THEN new ELSE request[q]
  BY <1>2 DEF AccessTypeOK
<1>5. AccessTypeOK'
  <2>1. request' \in [Processes -> Request \cup {Null}]
    BY <1>2 DEF AccessTypeOK
  <2>2. \A q \in Processes :
            request'[q] # Null => key'[q] # Null /\ request'[q].now <= clock
    BY <1>1, <1>2, <1>3, <1>4 DEF AccessTypeOK
  <2> QED BY <1>3, <2>1, <2>2 DEF AccessTypeOK
<1>6. MintedOK' /\ CacheOK'
  BY <1>3 DEF MintedOK, CacheOK
<1>7. EndedOK'
  BY <1>2, <1>3, <1>4 DEF EndedOK
<1> QED BY <1>5, <1>6, <1>7

(* The token is dated by the time the request was checked with.            *)
LEMMA IssuePreserves ==
    ASSUME AccessInv, NEW p \in Processes, Issue(p)
    PROVE  AccessInv'
<1> USE DEF AccessInv
<1>1. PICK k \in Keys, u \in Users, now \in Nat :
         k = key[p] /\ u = request[p].sub /\ now = request[p].now
  BY DEF Issue, AccessTypeOK, Request
<1> DEFINE tok == Sign(k, u, now, AccessTokenTTL)
<1>2. /\ minted' = minted \cup {tok}
      /\ request' = [request EXCEPT ![p] = Null]
      /\ UNCHANGED <<clock, keyFile, key, status, endedAt, cache, stoppedAt>>
  BY <1>1 DEF Issue
<1>3. /\ tok \in Token /\ tok.sub = u
      /\ tok.iat % Second = 0 /\ tok.exp % Second = 0
      /\ tok.iat <= now /\ tok.expiresAt = now + AccessTokenTTL
      /\ tok.exp <= tok.expiresAt /\ tok.expiresAt < tok.exp + Second
  BY SignedToken
<1>4. now <= clock /\ (status[u] # "active" => now <= endedAt[u])
  BY <1>1 DEF Issue, AccessTypeOK, EndedOK
<1> HIDE DEF tok
<1>5. \A q \in Processes : request'[q] # Null => request'[q] = request[q]
  BY <1>2 DEF AccessTypeOK
<1>6. AccessTypeOK'
  <2>1. request' \in [Processes -> Request \cup {Null}]
    BY <1>2 DEF AccessTypeOK
  <2> QED BY <1>2, <1>3, <1>5, <2>1 DEF AccessTypeOK
<1>7. MintedOK'
  <2>1. tok.iat <= clock /\ tok.expiresAt <= clock + AccessTokenTTL
    BY <1>3, <1>4, AccessAssumption DEF AccessTypeOK, Token
  <2> QED BY <1>2, <1>3, <2>1 DEF MintedOK
<1>8. EndedOK'
  <2>1. status[tok.sub] # "active" =>
            tok.expiresAt <= endedAt[tok.sub] + AccessTokenTTL
    <3>1. status[u] # "active" => endedAt[u] \in Nat
      BY DEF EndedOK, AccessTypeOK
    <3> QED BY <1>3, <1>4, <3>1, AccessAssumption
  <2> QED BY <1>2, <1>5, <2>1 DEF EndedOK
<1>9. CacheOK'
  BY <1>2 DEF CacheOK
<1> QED BY <1>6, <1>7, <1>8, <1>9

LEMMA FetchPreserves ==
    ASSUME AccessInv, NEW p \in Processes, FetchJWKS(p)
    PROVE  AccessInv'
<1> USE DEF AccessInv
<1> DEFINE new == [jwks |-> JWKS(p), at |-> clock]
<1>1. /\ key[p] \in Keys /\ cache' = new
      /\ UNCHANGED <<clock, keyFile, key, request, status, endedAt, minted,
                     stoppedAt>>
  BY DEF FetchJWKS, AccessTypeOK
<1>2. JWKS(p) = {PublicJWK(key[p])} /\ clock \in Nat
  BY <1>1, AbsentAssumption DEF JWKS, AccessTypeOK
<1>3. new \in Document /\ new.jwks = JWKS(p) /\ new.at = clock
  BY <1>1, <1>2 DEF Document
<1> HIDE DEF new
<1>4. AccessTypeOK'
  BY <1>1, <1>3 DEF AccessTypeOK
<1>5. MintedOK' /\ EndedOK'
  BY <1>1 DEF MintedOK, EndedOK
<1>6. CacheOK'
  BY <1>1, <1>2, <1>3 DEF CacheOK
<1> QED BY <1>4, <1>5, <1>6

(* Everything in flight or signed is dated before the account's end.       *)
LEMMA EndUserPreserves ==
    ASSUME AccessInv, NEW u \in Users, NEW how \in {"suspended", "deleted"},
           EndUser(u, how)
    PROVE  AccessInv'
<1> USE DEF AccessInv
<1>1. /\ status' = [status EXCEPT ![u] = how]
      /\ endedAt' = [endedAt EXCEPT ![u] = clock]
      /\ UNCHANGED <<clock, keyFile, key, request, minted, cache, stoppedAt>>
      /\ clock \in Nat
  BY DEF EndUser, AccessTypeOK
<1>2. \A v \in Users :
          /\ status'[v] = IF v = u THEN how ELSE status[v]
          /\ endedAt'[v] = IF v = u THEN clock ELSE endedAt[v]
  BY <1>1 DEF AccessTypeOK
<1>3. AccessTypeOK'
  <2>1. /\ status' \in [Users -> {"active", "suspended", "deleted"}]
        /\ endedAt' \in [Users -> (0 .. clock) \cup {Null}]
    BY <1>1 DEF AccessTypeOK
  <2> QED BY <1>1, <2>1 DEF AccessTypeOK
<1>4. MintedOK' /\ CacheOK'
  BY <1>1 DEF MintedOK, CacheOK
<1>5. EndedOK'
  <2>1. \A v \in Users : status'[v] # "active" => endedAt'[v] # Null
    BY <1>1, <1>2, AbsentAssumption DEF EndedOK
  <2>2. \A q \in Processes : request[q] # Null =>
            request[q].sub \in Users /\ request[q].now <= clock
    BY DEF AccessTypeOK, Request
  <2>3. \A tok \in minted :
            tok.sub \in Users /\ tok.expiresAt <= clock + AccessTokenTTL
    BY DEF AccessTypeOK, Token, MintedOK
  <2> QED BY <1>1, <1>2, <2>1, <2>2, <2>3 DEF EndedOK
<1> QED BY <1>3, <1>4, <1>5

(* A JWKS is forgotten no later than the end of the process it came from.  *)
LEMMA TickPreserves ==
    ASSUME AccessInv, Tick
    PROVE  AccessInv'
<1> USE DEF AccessInv
<1>1. /\ clock \in Nat /\ clock' = clock + 1 /\ clock' \in 0 .. MaxTime
      /\ UNCHANGED <<keyFile, key, request, status, endedAt, minted>>
  BY AccessAssumption DEF Tick, AccessTypeOK
<1>2. cache' # Null =>
          cache' = cache /\ clock' < cache.at + jwksMaxAge
  BY DEF Tick
<1>3. \A k \in Keys :
         stoppedAt'[k] =
             IF stoppedAt[k] # Null /\ clock' < stoppedAt[k] + jwksMaxAge
             THEN stoppedAt[k] ELSE Null
  BY DEF Tick
<1>4. AccessTypeOK'
  <2>1. /\ endedAt' \in [Users -> (0 .. clock') \cup {Null}]
        /\ stoppedAt' \in [Keys -> (0 .. clock') \cup {Null}]
    BY <1>1 DEF Tick, AccessTypeOK
  <2>2. cache' \in Document \cup {Null}
    BY <1>2 DEF AccessTypeOK
  <2>3. \A p \in Processes : request[p] # Null => request[p].now <= clock'
    BY <1>1 DEF AccessTypeOK, Request
  <2> QED BY <1>1, <2>1, <2>2, <2>3 DEF AccessTypeOK
<1>5. MintedOK'
  <2>1. \A tok \in minted : tok.iat \in Int /\ tok.expiresAt \in Int
    BY DEF AccessTypeOK, Token
  <2> QED BY <1>1, <2>1, AccessAssumption DEF MintedOK
<1>6. EndedOK'
  BY <1>1 DEF EndedOK
<1>7. CacheOK'
  <2> SUFFICES ASSUME cache' # Null PROVE CacheOK'
    BY DEF CacheOK
  <2>1. cache' = cache /\ clock' < cache.at + jwksMaxAge
        /\ cache.at \in Nat /\ cache # Null
    BY <1>2 DEF AccessTypeOK, Document
  <2>2. PICK k \in Keys :
            /\ cache.jwks = {PublicJWK(k)} /\ cache.at <= clock
            /\ \/ \E q \in Processes : key[q] = k
               \/ stoppedAt[k] # Null /\ cache.at <= stoppedAt[k]
    BY <2>1 DEF CacheOK
  <2>3. CASE stoppedAt[k] # Null /\ cache.at <= stoppedAt[k]
    <3>1. stoppedAt[k] \in Nat
      BY <2>3 DEF AccessTypeOK
    <3>2. clock' < stoppedAt[k] + jwksMaxAge
      BY <1>1, <2>1, <2>3, <3>1, AccessAssumption
    <3>3. stoppedAt'[k] = stoppedAt[k]
      BY <1>3, <2>3, <3>2
    <3> QED BY <1>1, <2>1, <2>2, <2>3, <3>3 DEF CacheOK
  <2>4. CASE \E q \in Processes : key[q] = k
    BY <1>1, <2>1, <2>2, <2>4 DEF CacheOK
  <2> QED BY <2>2, <2>3, <2>4
<1> QED BY <1>4, <1>5, <1>6, <1>7

LEMMA AccessStep == AccessInv /\ [AccessNext]_accessVars => AccessInv'
<1> SUFFICES ASSUME AccessInv, [AccessNext]_accessVars PROVE AccessInv'
  OBVIOUS
<1>1. ASSUME NEW p \in Processes,
             \/ StartProcess(p) \/ StopProcess(p)
             \/ \E u \in Users : Arrive(p, u)
             \/ CheckUser(p) \/ Issue(p)
             \/ FetchJWKS(p)
      PROVE  AccessInv'
  BY <1>1, StartPreserves, StopPreserves, ArrivePreserves,
     CheckUserPreserves, IssuePreserves, FetchPreserves
<1>2. CASE \E u \in Users, how \in {"suspended", "deleted"} : EndUser(u, how)
  BY <1>2, EndUserPreserves
<1>3. CASE \E k \in Keys : ReplaceKeyFile(k)
  BY <1>3 DEF ReplaceKeyFile, AccessInv, AccessTypeOK, MintedOK, EndedOK,
     CacheOK
<1>4. CASE Tick
  BY <1>4, TickPreserves
<1>5. CASE UNCHANGED accessVars
  BY <1>5 DEF accessVars, AccessInv, AccessTypeOK, MintedOK, EndedOK, CacheOK
<1> QED BY <1>1, <1>2, <1>3, <1>4, <1>5 DEF AccessNext

-----------------------------------------------------------------------------
(* The theorems.                                                           *)

(* The invariant of the processes, their tokens and the cached JWKS, for   *)
(* any number of replicas, users and keys and any settings.                *)
THEOREM AccessInvariance == AccessSpec => []AccessInv
<1>1. AccessInit => AccessInv
  BY AccessAssumption DEF AccessInit, AccessInv, AccessTypeOK, MintedOK,
     EndedOK, CacheOK
<1> QED BY <1>1, AccessStep, PTL DEF AccessSpec

(* Type correctness; jwtx.Sign puts whole seconds in the claims.           *)
THEOREM AccessTypeCorrectness == AccessSpec => []AccessTypeOK
<1>1. AccessInv => AccessTypeOK
  BY DEF AccessInv
<1> QED BY <1>1, AccessInvariance, PTL

(* A client may use its token until the access_expires_at it was told: no  *)
(* process that holds the key refuses it, although exp was truncated and   *)
(* clocks differ, because the leeway of Verify covers both.  Nor does one  *)
(* accept it for more than leeway and skew after that.                     *)
THEOREM TokensHonoured == AccessSpec => []HonouredUntilExpiry
<1>1. AccessInv => HonouredUntilExpiry
  <2> SUFFICES ASSUME AccessInv, NEW tok \in minted, NEW p \in Processes,
                      NEW now \in Clocks
               PROVE  LET verified ==
                              Verify(tok, NewStaticKeySet(JWKS(p)), now) = "nil"
                      IN  /\ clock < tok.expiresAt /\ key[p] = tok.kid => verified
                          /\ verified => clock < tok.expiresAt + Leeway + Skew
    BY DEF HonouredUntilExpiry
  <2> USE DEF AccessInv
  <2>1. tok \in Token /\ clock \in Int
    BY DEF AccessTypeOK
  <2>2. key[p] = tok.kid => tok.kid \in NewStaticKeySet(JWKS(p))
    BY <2>1, OwnKeySet DEF Token
  <2>3. tok.iat \in Int /\ tok.exp \in Int /\ tok.expiresAt \in Int
    BY <2>1 DEF Token
  <2>4. now \in Int /\ clock - Skew <= now /\ now <= clock + Skew
    BY <2>1, AccessAssumption DEF Clocks
  <2>5. /\ tok.iat <= clock
        /\ tok.exp <= tok.expiresAt /\ tok.expiresAt < tok.exp + Second
    BY DEF MintedOK
  <2>6. clock < tok.expiresAt => now < tok.exp + Leeway
    BY <2>1, <2>3, <2>4, <2>5, AccessAssumption
  <2>7. ~ (now < tok.iat - Leeway)
    BY <2>1, <2>3, <2>4, <2>5, AccessAssumption
  <2>8. now < tok.exp + Leeway => clock < tok.expiresAt + Leeway + Skew
    BY <2>1, <2>3, <2>4, <2>5, AccessAssumption
  <2> QED BY <2>2, <2>6, <2>7, <2>8 DEF Verify
<1> QED BY <1>1, AccessInvariance, PTL

(* Suspension takes effect within a TTL (and leeway and skew), deletion at *)
(* once, though a check may precede the change and the signature follow.   *)
THEOREM EndedUsersServedBriefly == AccessSpec => []ServedBriefly
<1>1. AccessInv => ServedBriefly
  <2> SUFFICES ASSUME AccessInv, NEW tok \in minted, NEW p \in Processes,
                      NEW now \in Clocks,
                      Me(tok, p, now) = 200, status[tok.sub] # "active"
               PROVE  /\ status[tok.sub] = "suspended"
                      /\ clock < endedAt[tok.sub] + AccessTokenTTL
                                 + Leeway + Skew
    BY DEF ServedBriefly
  <2> USE DEF AccessInv
  <2>1. tok.sub \in Users /\ tok.exp \in Int /\ tok.expiresAt \in Int
        /\ clock \in Int
    BY DEF AccessTypeOK, Token
  <2>2. status[tok.sub] = "suspended"
    BY <2>1 DEF Me, AccessTypeOK
  <2>3. now < tok.exp + Leeway
    BY DEF Me, RequireAuth, Verify
  <2>4. endedAt[tok.sub] \in Nat
        /\ tok.expiresAt <= endedAt[tok.sub] + AccessTokenTTL
    BY <2>1 DEF EndedOK, AccessTypeOK
  <2>5. now \in Int /\ clock - Skew <= now /\ tok.exp <= tok.expiresAt
    BY <2>1, AccessAssumption DEF Clocks, MintedOK
  <2> QED BY <2>1, <2>2, <2>3, <2>4, <2>5, AccessAssumption
<1> QED BY <1>1, AccessInvariance, PTL

(* A relying service that keeps a JWKS for jwksMaxAge misses the key of a  *)
(* token only while processes with another key run or just stopped.        *)
THEOREM RotationGapCloses == AccessSpec => []RotationSettles
<1>1. AccessInv => RotationSettles
  <2> SUFFICES ASSUME AccessInv, NEW tok \in minted, cache # Null,
                      tok.kid \notin NewStaticKeySet(cache.jwks)
               PROVE  \E k \in Keys \ {tok.kid} :
                          \/ stoppedAt[k] # Null
                          \/ \E p \in Processes : key[p] = k
    BY DEF RotationSettles
  <2>1. PICK k \in Keys :
            /\ cache.jwks = {PublicJWK(k)}
            /\ \/ \E q \in Processes : key[q] = k
               \/ stoppedAt[k] # Null
    BY DEF AccessInv, CacheOK
  <2>2. NewStaticKeySet(cache.jwks) = {k}
    <3>1. IsEd25519(PublicJWK(k)) /\ PublicJWK(k).kid = k
      BY DEF IsEd25519, PublicJWK
    <3> QED BY <2>1, <3>1 DEF NewStaticKeySet
  <2> QED BY <2>1, <2>2
<1> QED BY <1>1, AccessInvariance, PTL

=============================================================================
