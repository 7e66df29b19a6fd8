---------------------------- MODULE AccessTokens ----------------------------
(***************************************************************************)
(* Access tokens: the processes of the identity service sign them with the *)
(* key each loaded at start, publish that key as their JWKS and verify the *)
(* tokens presented to GET /v1/users/me; relying services verify them too, *)
(* with a JWKS they may cache for jwksMaxAge.  Time is counted in ticks,   *)
(* because the claims of a JWT hold whole seconds and the clock does not.  *)
(***************************************************************************)
EXTENDS Integers, FiniteSets

CONSTANTS
    Processes,       \* replicas of cmd/identity
    Users,
    Keys,            \* Ed25519 key pairs; a key stands for its thumbprint
    Null,
    Second,          \* ticks in a second
    AccessTokenTTL,  \* token.Config.AccessTokenTTL
    Leeway,          \* jwtx.DefaultLeeway
    jwksMaxAge,      \* how long clients may cache the JWKS
    Skew,            \* the largest difference between two machines' clocks
    MaxTime,         \* bound on the clock
    MaxTokens        \* bound on the access tokens ever signed

(* The leeway must cover the skew and the second lost to truncation.       *)
ASSUME AccessAssumption ==
    /\ Second \in Nat \ {0} /\ AccessTokenTTL \in Nat \ {0}
    /\ Leeway \in Nat /\ jwksMaxAge \in Nat
    /\ Skew \in Nat /\ Skew + Second <= Leeway + 1
    /\ MaxTime \in Nat /\ MaxTokens \in Nat

VARIABLES
    clock,
    keyFile,   \* the PEM file that cfg.JWTPrivateKeyFile names
    key,       \* the signing key of each process, Null while it is down
    request,   \* the request each process is authenticating, or Null
    status,    \* users.status, or "deleted"
    endedAt,   \* history: when a user was suspended or deleted
    minted,    \* the access tokens signed so far
    cache,     \* the JWKS a relying service holds, and since when
    stoppedAt  \* history: when a process with a key stopped, if lately

accessVars == <<clock, keyFile, key, request, status, endedAt, minted, cache,
                stoppedAt>>

(* pkg/jwtx: keys.  The kid of a key is its thumbprint.                    *)
PublicJWK(k) ==
    [kty |-> "OKP", crv |-> "Ed25519", kid |-> k, use |-> "sig",
     alg |-> "EdDSA", x |-> k]

(* JWK.PublicKey fails for another type of key, and for other bytes.       *)
IsEd25519(jwk) == jwk.kty = "OKP" /\ jwk.crv = "Ed25519" /\ jwk.x \in Keys

(* A key set by kid; malformed entries are skipped.                        *)
NewStaticKeySet(jwks) == {jwk.kid : jwk \in {j \in jwks : IsEd25519(j)}}

Token == [sub : Users, kid : Keys, iat : Int, exp : Int, expiresAt : Int]

(* Login or Refresh under way: now is the time it read on arrival.         *)
Request == [sub : Users, now : Nat, ok : BOOLEAN]

(* A JWKS document, and the time it was fetched at.                        *)
Document == [jwks : SUBSET {PublicJWK(k) : k \in Keys}, at : Nat]

ASSUME AbsentAssumption ==
    /\ Null \notin Keys /\ Null \notin Nat
    /\ Null \notin Request /\ Null \notin Document

(* The state is well-formed; claims hold whole seconds.                    *)
AccessTypeOK ==
    /\ clock \in 0 .. MaxTime
    /\ keyFile \in Keys
    /\ key \in [Processes -> Keys \cup {Null}]
    /\ request \in [Processes -> Request \cup {Null}]
    /\ \A p \in Processes :
          request[p] # Null => key[p] # Null /\ request[p].now <= clock
    /\ status \in [Users -> {"active", "suspended", "deleted"}]
    /\ endedAt \in [Users -> (0 .. clock) \cup {Null}]
    /\ minted \subseteq Token
    /\ \A tok \in minted : tok.iat % Second = 0 /\ tok.exp % Second = 0
    /\ cache \in Document \cup {Null}
    /\ stoppedAt \in [Keys -> (0 .. clock) \cup {Null}]

AccessInit ==
    /\ clock = 0
    /\ keyFile \in Keys
    /\ key = [p \in Processes |-> Null]
    /\ request = [p \in Processes |-> Null]
    /\ status = [u \in Users |-> "active"]
    /\ endedAt = [u \in Users |-> Null]
    /\ minted = {}
    /\ cache = Null
    /\ stoppedAt = [k \in Keys |-> Null]

-----------------------------------------------------------------------------
(* pkg/jwtx: tokens.                                                       *)

(* jwt.NewNumericDate truncates to the second.                             *)
NumericDate(t) == (t \div Second) * Second

(* Mutant: the claims keep fractions of a second.                          *)
SignUntruncated(kid, subject, now, ttl) ==
    [sub |-> subject, kid |-> kid, iat |-> now,
     exp |-> now + ttl, expiresAt |-> now + ttl]

(* Sign returns the token and, in expiresAt, the untruncated expiry.       *)
Sign(kid, subject, now, ttl) ==
    [sub |-> subject, kid |-> kid, iat |-> NumericDate(now),
     exp |-> NumericDate(now + ttl), expiresAt |-> now + ttl]

(* Mutant: the leeway is not applied.                                      *)
VerifyExactly(tok, kids, now) ==
    IF tok.kid \notin kids THEN "ErrUnknownKey"
    ELSE IF ~ (now < tok.exp) THEN "ErrExpired"
    ELSE IF now < tok.iat THEN "ErrInvalidToken"
    ELSE "nil"

(* The key is looked up first; then exp and iat are checked with leeway.   *)
Verify(tok, kids, now) ==
    IF tok.kid \notin kids THEN "ErrUnknownKey"
    ELSE IF ~ (now < tok.exp + Leeway) THEN "ErrExpired"
    ELSE IF now < tok.iat - Leeway THEN "ErrInvalidToken"
    ELSE "nil"

-----------------------------------------------------------------------------
(* The service.                                                            *)

JWKS(p) == {PublicJWK(k) : k \in {key[p]} \ {Null}}

(* The middleware: a bearer token is let through when it verifies.  A      *)
(* request without a well-formed header presents no token.                 *)
RequireAuth(tok, p, now) == Verify(tok, NewStaticKeySet(JWKS(p)), now) = "nil"

(* The status of GET /v1/users/me at process p, whose clock shows now.  A  *)
(* suspended user is served like any other.  The subject is the id that    *)
(* Issue wrote; a statement that fails makes a 500 of what is said here.   *)
Me(tok, p, now) ==
    IF ~ RequireAuth(tok, p, now) THEN 401
    ELSE IF status[tok.sub] = "deleted" THEN 401
    ELSE 200

(* The key is the one the PEM file holds when the process starts; in       *)
(* development mode, as if the file were replaced before every start.      *)
loadSigningKey == keyFile

(* run, up to serving: the issuer signs with the key loaded, and the       *)
(* verifier's key set is the issuer's own JWKS.  A start that fails        *)
(* (configuration, database, key file) leaves the process down.            *)
StartProcess(p) ==
    /\ key[p] = Null
    /\ key' = [key EXCEPT ![p] = loadSigningKey]
    /\ UNCHANGED <<clock, keyFile, request, status, endedAt, minted, cache,
                   stoppedAt>>

StopProcess(p) ==
    /\ key[p] # Null
    /\ key' = [key EXCEPT ![p] = Null]
    /\ request' = [request EXCEPT ![p] = Null]
    /\ stoppedAt' = [stoppedAt EXCEPT ![key[p]] = clock]
    /\ UNCHANGED <<clock, keyFile, status, endedAt, minted, cache>>

(* Login or Refresh arrives: now := s.clock.Now().                         *)
Arrive(p, u) ==
    /\ key[p] # Null /\ request[p] = Null
    /\ Cardinality(minted) < MaxTokens
    /\ request' = [request EXCEPT ![p] =
                      [sub |-> u, now |-> clock, ok |-> FALSE]]
    /\ UNCHANGED <<clock, keyFile, key, status, endedAt, minted, cache,
                   stoppedAt>>

(* The user is read and its status checked.                                *)
CheckUser(p) ==
    /\ request[p] # Null /\ ~ request[p].ok
    /\ request' = [request EXCEPT ![p] =
                      IF status[@.sub] = "active" THEN [@ EXCEPT !.ok = TRUE]
                      ELSE Null]
    /\ UNCHANGED <<clock, keyFile, key, status, endedAt, minted, cache,
                   stoppedAt>>

(* Mutant: Issue reads the clock again.                                    *)
IssueReadingClock(p) ==
    /\ request[p] # Null /\ request[p].ok
    /\ minted' = minted \cup
          {Sign(key[p], request[p].sub, clock, AccessTokenTTL)}
    /\ request' = [request EXCEPT ![p] = Null]
    /\ UNCHANGED <<clock, keyFile, key, status, endedAt, cache,
                   stoppedAt>>

(* startSession ends with issuer.Issue(user, now).                         *)
Issue(p) ==
    /\ request[p] # Null /\ request[p].ok
    /\ minted' = minted \cup
          {Sign(key[p], request[p].sub, request[p].now, AccessTokenTTL)}
    /\ request' = [request EXCEPT ![p] = Null]
    /\ UNCHANGED <<clock, keyFile, key, status, endedAt, cache,
                   stoppedAt>>

-----------------------------------------------------------------------------
(* The world around it.                                                    *)

(* Mutant: the document is made from the key file of the moment.           *)
FetchFromKeyFile(p) ==
    /\ key[p] # Null
    /\ cache' = [jwks |-> {PublicJWK(keyFile)}, at |-> clock]
    /\ UNCHANGED <<clock, keyFile, key, request, status, endedAt, minted,
                   stoppedAt>>

(* A relying service gets /.well-known/jwks.json from some process.        *)
FetchJWKS(p) ==
    /\ key[p] # Null
    /\ cache' = [jwks |-> JWKS(p), at |-> clock]
    /\ UNCHANGED <<clock, keyFile, key, request, status, endedAt, minted,
                   stoppedAt>>

EndUser(u, how) ==
    /\ status[u] = "active"
    /\ status' = [status EXCEPT ![u] = how]
    /\ endedAt' = [endedAt EXCEPT ![u] = clock]
    /\ UNCHANGED <<clock, keyFile, key, request, minted, cache,
                   stoppedAt>>

ReplaceKeyFile(k) ==
    /\ keyFile' = k
    /\ UNCHANGED <<clock, key, request, status, endedAt, minted, cache,
                   stoppedAt>>

(* A JWKS is discarded when it has been kept for jwksMaxAge; history of    *)
(* that age is forgotten as well.                                          *)
Tick ==
    /\ clock < MaxTime
    /\ clock' = clock + 1
    /\ LET Recent(t) == clock' < t + jwksMaxAge
       IN  /\ cache' = IF cache # Null /\ Recent(cache.at) THEN cache ELSE Null
           /\ stoppedAt' = [k \in Keys |->
                 IF stoppedAt[k] # Null /\ Recent(stoppedAt[k])
                 THEN stoppedAt[k] ELSE Null]
    /\ UNCHANGED <<keyFile, key, request, status, endedAt, minted>>

AccessNext ==
    \/ \E p \in Processes :
          \/ StartProcess(p) \/ StopProcess(p)
          \/ \E u \in Users : Arrive(p, u)
          \/ CheckUser(p) \/ Issue(p)
          \/ FetchJWKS(p)
    \/ \E u \in Users, how \in {"suspended", "deleted"} : EndUser(u, how)
    \/ \E k \in Keys : ReplaceKeyFile(k)
    \/ Tick

AccessSpec == AccessInit /\ [][AccessNext]_accessVars

-----------------------------------------------------------------------------

Clocks == (clock - Skew) .. (clock + Skew)

(* Before the access_expires_at the client was told, its token is accepted *)
(* by every process that runs with the key, though the exp claim is up to  *)
(* a second earlier and the processes' clocks differ; and by none for more *)
(* than leeway and skew after it.                                          *)
HonouredUntilExpiry ==
    \A tok \in minted, p \in Processes, now \in Clocks :
        LET verified == Verify(tok, NewStaticKeySet(JWKS(p)), now) = "nil"
        IN  /\ clock < tok.expiresAt /\ key[p] = tok.kid => verified
            /\ verified => clock < tok.expiresAt + Leeway + Skew

(* A suspended user is served for at most one TTL (plus leeway and skew)   *)
(* after the suspension, although a request that had passed the check may  *)
(* sign a token after it; a deleted one is not served at all.              *)
ServedBriefly ==
    \A tok \in minted, p \in Processes, now \in Clocks :
        Me(tok, p, now) = 200 /\ status[tok.sub] # "active" =>
            /\ status[tok.sub] = "suspended"
            /\ clock < endedAt[tok.sub] + AccessTokenTTL + Leeway + Skew

(* Key rotation has a gap: a process signs at once with a key that no JWKS *)
(* fetched before contains, although "Key rotation must publish the new    *)
(* key at least this long before signing with it".  It closes: a JWKS in   *)
(* use lacks the key of a token only while a process runs with another     *)
(* key, or for jwksMaxAge after the last such process stopped.             *)
RotationSettles ==
    \A tok \in minted :
        cache # Null /\ tok.kid \notin NewStaticKeySet(cache.jwks) =>
            \E k \in Keys \ {tok.kid} :
                stoppedAt[k] # Null \/ \E p \in Processes : key[p] = k

=============================================================================
