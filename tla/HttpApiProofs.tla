---------------------------- MODULE HttpApiProofs ----------------------------
(***************************************************************************)
(* Theorems about the HTTP API for every value of the constants: what      *)
(* DecodeJSON lets through, and what a status code tells a client about    *)
(* the store.  The invariants of AuthServiceProofs and CallerProofs hold   *)
(* behind the routes, too, because a request that is refused before it     *)
(* reaches its use case changes nothing (RejectPreserves).                 *)
(***************************************************************************)
EXTENDS HttpApi, CallerProofs, FiniteSetTheorems

USE NullAssumption

-----------------------------------------------------------------------------
(* The codec.                                                              *)

(* A set of natural numbers that is not empty has a least member: the form *)
(* in which induction is used below.                                       *)
LEMMA LeastMember ==
    ASSUME NEW S, S \subseteq Nat, S # {}
    PROVE  \E x \in S : \A y \in S : x <= y
<1>1. PICK R : /\ IsWellFoundedOn(R, Nat)
               /\ \A x, y \in Nat : y < x => <<y, x>> \in R
  <2>1. \A x, y \in Nat : y < x => <<y, x>> \in OpToRel(<, Nat)
    BY DEF OpToRel
  <2> QED BY <2>1, NatLessThanWellFounded
<1>2. \E x \in S : \A y \in S : ~ (<<y, x>> \in R)
  BY <1>1, WFMin
<1>3. PICK x \in S : \A y \in S : ~ (<<y, x>> \in R)
  BY <1>2
<1>4. ASSUME NEW y \in S PROVE x <= y
  <2>1. x \in Nat /\ y \in Nat /\ ~ (<<y, x>> \in R)
    BY <1>3
  <2>2. ~ (y < x)
    BY <1>1, <2>1
  <2> QED BY <2>1, <2>2
<1> QED BY <1>4

(* A body is a sequence of chunks.                                         *)
LEMMA BodyType ==
    ASSUME NEW body \in Bodies
    PROVE  body \in Seq(Chunk) /\ Len(body) \in Nat
BY CodecAssumption DEF Bodies

(* What a chunk of a body is.                                              *)
LEMMA ChunkType ==
    ASSUME NEW body \in Seq(Chunk), NEW j \in 1 .. Len(body)
    PROVE  body[j].bytes \in Nat /\ body[j].kind \notin {"nil", "EOF"}
<1>1. body[j] \in Chunk
  <2> HIDE DEF Chunk
  <2> QED OBVIOUS
<1> QED BY <1>1, CodecAssumption DEF Chunk

(* BytesTo satisfies the recursion that defines it.                        *)
LEMMA BytesToDef ==
    ASSUME NEW body \in Seq(Chunk)
    PROVE  BytesTo(body) =
               [i \in 0 .. Len(body) |->
                   IF i = 0 THEN 0 ELSE BytesTo(body)[i - 1] + body[i].bytes]
<1> DEFINE L == Len(body)
           Counts(f, n) ==
               f = [i \in 0 .. n |->
                       IF i = 0 THEN 0 ELSE f[i - 1] + body[i].bytes]
           Bad == {n \in 0 .. L : ~ \E f : Counts(f, n)}
<1>0. L \in Nat
  OBVIOUS
<1>1. ASSUME Bad # {} PROVE FALSE
  <2>1. \E n \in Bad : \A k \in Bad : n <= k
    <3>1. Bad \subseteq Nat
      BY <1>0
    <3> HIDE DEF Bad
    <3> QED BY <1>1, <3>1, LeastMember
  <2>2. PICK n \in Bad : \A k \in Bad : n <= k
    BY <2>1
  <2>3. n \in 0 .. L /\ ~ \E f : Counts(f, n)
    OBVIOUS
  <2>4. n # 0
    <3>1. Counts([i \in 0 .. 0 |-> 0], 0)
      OBVIOUS
    <3> QED BY <2>3, <3>1
  <2>5. n - 1 \in 0 .. L /\ n - 1 \notin Bad
    <3> HIDE DEF Bad, Counts
    <3> QED BY <1>0, <2>2, <2>3, <2>4
  <2>6. \E f : Counts(f, n - 1)
    <3>1. \A k \in 0 .. L : k \notin Bad => \E f : Counts(f, k)
      <4> HIDE DEF Counts
      <4> QED BY Zenon
    <3> HIDE DEF Counts, Bad
    <3> QED BY <2>5, <3>1
  <2>7. PICK f : Counts(f, n - 1)
    BY <2>6
  <2> DEFINE g == [i \in 0 .. n |->
                      IF i = n THEN f[n - 1] + body[n].bytes ELSE f[i]]
  <2>8. Counts(g, n)
    BY <1>0, <2>3, <2>4, <2>7
  <2> QED BY <2>3, <2>8
<1>2. \E f : Counts(f, L)
  <2>1. L \in 0 .. L
    BY <1>0
  <2> HIDE DEF Counts
  <2> QED BY <1>1, <2>1
<1> QED BY <1>2 DEF BytesTo

(* The count of bytes grows along the body.                                *)
LEMMA BytesToGrows ==
    ASSUME NEW body \in Seq(Chunk)
    PROVE  \A j \in 0 .. Len(body) :
               /\ BytesTo(body)[j] \in Nat
               /\ \A i \in 0 .. j : BytesTo(body)[i] <= BytesTo(body)[j]
<1> DEFINE L == Len(body)
           B == BytesTo(body)
           Good(j) == B[j] \in Nat /\ \A i \in 0 .. j : B[i] <= B[j]
           Bad == {j \in 0 .. L : ~ Good(j)}
<1>0. L \in Nat
  OBVIOUS
<1>1. B[0] = 0 /\ \A j \in 1 .. L : B[j] = B[j - 1] + body[j].bytes
  BY <1>0, BytesToDef
<1>2. \A j \in 1 .. L : body[j].bytes \in Nat
  BY ChunkType
<1> HIDE DEF B
<1>3. ASSUME Bad # {} PROVE FALSE
  <2>1. \E n \in Bad : \A k \in Bad : n <= k
    <3>1. Bad \subseteq Nat
      BY <1>0
    <3> HIDE DEF Bad
    <3> QED BY <1>3, <3>1, LeastMember
  <2>2. PICK n \in Bad : \A k \in Bad : n <= k
    BY <2>1
  <2>3. n \in 0 .. L /\ ~ Good(n)
    OBVIOUS
  <2>4. n # 0
    BY <1>1, <2>3
  <2>5. n - 1 \in 0 .. L /\ n - 1 \notin Bad
    BY <1>0, <2>2, <2>3, <2>4
  <2>6. Good(n - 1)
    <3> HIDE DEF Good
    <3> QED BY <2>5
  <2>7. B[n] = B[n - 1] + body[n].bytes /\ body[n].bytes \in Nat
    BY <1>0, <1>1, <1>2, <2>3, <2>4
  <2>8. \A i \in 0 .. n : i = n \/ i \in 0 .. (n - 1)
    BY <2>3
  <2>9. \A i \in 0 .. (n - 1) : B[i] \in Nat
    <3>1. ASSUME NEW i \in 0 .. (n - 1) PROVE B[i] \in Nat
      <4>1. i \in 0 .. L /\ i \notin Bad
        BY <1>0, <2>2, <2>3, <3>1
      <4>2. Good(i)
        BY <4>1
      <4> QED BY <4>2
    <3> QED BY <3>1
  <2> QED BY <2>3, <2>6, <2>7, <2>8, <2>9
<1> QED BY <1>3 DEF B

(* First picks the least index.                                            *)
LEMMA FirstIsLeast ==
    ASSUME NEW S, S \subseteq Nat, S # {}
    PROVE  First(S) \in S /\ \A j \in S : First(S) <= j
BY LeastMember DEF First

(* DecodeJSON accepts a body exactly when it is one object, or null, and   *)
(* within the limit, for every sequence of chunks and every limit.         *)
LEMMA DecodeJSONAcceptsOneValue ==
    ASSUME NEW body \in Bodies
    PROVE  DecodeJSON(body) = "nil" <=> OneValue(body, {"object", "null"})
<1> DEFINE L == Len(body)
           B == BytesTo(body)
           V == Values(body, 1)
           n == First(V)
<1>0. body \in Seq(Chunk) /\ L \in Nat /\ maxBodyBytes \in Nat
  BY BodyType, CodecAssumption
<1>1. \A j \in 0 .. L : B[j] \in Nat /\ B[j] <= B[L]
  BY <1>0, BytesToGrows
<1>2. V \subseteq 1 .. L /\ V \subseteq Nat /\ IsFiniteSet(V)
  <2>1. V \subseteq 1 .. L
    BY <1>0 DEF Values
  <2>2. IsFiniteSet(1 .. L) /\ 1 .. L \subseteq Nat
    BY <1>0, FS_Interval
  <2> HIDE DEF V
  <2> QED BY <2>1, <2>2, FS_Subset
<1>3. Cardinality(V) = 1 <=> \E x : V = {x}
  BY <1>2, FS_Singleton
<1>4. \A j \in 1 .. L : body[j].kind \notin {"nil", "EOF"}
  BY <1>0, ChunkType
<1>5. CASE V = {}
  <2>1. Decode(body, 1) # "nil"
    BY <1>5 DEF Decode
  <2> QED BY <1>3, <1>5, <2>1 DEF DecodeJSON, OneValue
<1>6. CASE V # {}
  <2>1. n \in V /\ n \in 1 .. L /\ \A j \in V : n <= j
    BY <1>2, <1>6, FirstIsLeast
  <2>2. Values(body, n + 1) = V \ {n}
    BY <1>0, <2>1 DEF Values
  <2>3. Decode(body, 1) = "nil" <=>
            B[n] <= maxBodyBytes /\ body[n].kind \in {"object", "null"}
    BY <1>0, <1>1, <1>4, <1>6, <2>1 DEF Decode
  <2>4. CASE V = {n}
    <3>1. Values(body, n + 1) = {}
      BY <2>2, <2>4
    <3>2. Decode(body, n + 1) = "EOF" <=> B[L] <= maxBodyBytes
      BY <1>0, <1>1, <3>1 DEF Decode
    <3>3. B[n] <= B[L] /\ B[n] \in Nat /\ B[L] \in Nat
      BY <1>0, <1>1, <2>1
    <3>4. DecodeJSON(body) = "nil" <=>
              Decode(body, 1) = "nil" /\ Decode(body, n + 1) = "EOF"
      BY DEF DecodeJSON
    <3>5. OneValue(body, {"object", "null"}) <=>
              B[L] <= maxBodyBytes /\ body[n].kind \in {"object", "null"}
      BY <1>3, <2>4 DEF OneValue
    <3> HIDE DEF n, V, B, L
    <3> QED BY <1>0, <2>3, <3>2, <3>3, <3>4, <3>5
  <2>5. CASE V # {n}
    <3>1. Values(body, n + 1) # {}
      BY <2>1, <2>2, <2>5
    <3>2. First(Values(body, n + 1)) \in 1 .. L
      BY <1>2, <2>2, <3>1, FirstIsLeast
    <3>3. Decode(body, n + 1) # "EOF"
      BY <1>4, <3>1, <3>2 DEF Decode
    <3>4. ~ OneValue(body, {"object", "null"})
      BY <1>3, <2>1, <2>5 DEF OneValue
    <3>5. DecodeJSON(body) # "nil"
      BY <3>3 DEF DecodeJSON
    <3> QED BY <3>4, <3>5
  <2> QED BY <2>4, <2>5
<1> QED BY <1>5, <1>6

(* The fields of a request are filled exactly when its body is one object. *)
LEMMA ReceivedIsDecoded ==
    ASSUME NEW b \in Received
    PROVE  /\ b[1] \in {"none", "zero", "filled"}
           /\ b[2] <=> b[1] = "filled"
<1>1. PICK body \in Bodies : b = <<Request(body), OneObject(body)>>
  BY DEF Received
<1> DEFINE V == Values(body, 1)
<1>2. b[1] = Request(body) /\ b[2] = OneObject(body)
  BY <1>1
<1>3. DecodeJSON(body) = "nil" <=> OneValue(body, {"object", "null"})
  BY DecodeJSONAcceptsOneValue
<1>4. OneObject(body) => OneValue(body, {"object", "null"})
  BY DEF OneObject, OneValue
<1>5. ASSUME OneValue(body, {"object", "null"})
      PROVE  OneObject(body) <=> body[First(V)].kind # "null"
  <2>1. V \subseteq Nat /\ IsFiniteSet(V)
    <3>1. V \subseteq 1 .. Len(body) /\ Len(body) \in Nat
      BY BodyType DEF Values
    <3>2. IsFiniteSet(1 .. Len(body)) /\ 1 .. Len(body) \subseteq Nat
      BY <3>1, FS_Interval
    <3> HIDE DEF V
    <3> QED BY <3>1, <3>2, FS_Subset
  <2>2. PICK x : V = {x}
    BY <1>5, <2>1, FS_Singleton DEF OneValue
  <2>3. First(V) = x
    <3> HIDE DEF V
    <3> QED BY <2>1, <2>2, FirstIsLeast
  <2>4. body[x].kind \in {"object", "null"}
    BY <1>5, <2>2 DEF OneValue
  <2>5. OneObject(body) <=> body[x].kind = "object"
    BY <1>5, <2>2 DEF OneObject, OneValue
  <2> QED BY <2>3, <2>4, <2>5
<1> QED BY <1>2, <1>3, <1>4, <1>5 DEF Request

-----------------------------------------------------------------------------
(* AuthService behind the routes.                                          *)

(* Request r is refused before it reaches its use case.                    *)
Rejected(r) ==
    \E o \in {"none", "Register", "Login", "Refresh"},
       err \in {"ErrBadRequest", "ErrInvalidEmail", "ErrInvalidCredentials"} :
          Start(r, o, Null, Null, Null, Null, err, "idle")

(* A request that starts leaves the others alone.                          *)
LEMMA StartSpares ==
    ASSUME NEW r, NEW o, NEW t, NEW u, NEW m, NEW p, NEW err, NEW call,
           TypeOK, Start(r, o, t, u, m, p, err, call),
           NEW q \in Requests, q # r
    PROVE  SameLocals(q)
BY DEF TypeOK, Start, SameLocals

(* A refused request disturbs neither layer of the invariant.              *)
LEMMA RejectPreserves ==
    ASSUME IInv, CallerInv, NEW r \in Requests, Rejected(r)
    PROVE  /\ IInv' /\ CallerInv' /\ Evolves /\ Persists
           /\ UNCHANGED database /\ clock <= clock'
<1> USE DEF IInv, CallerInv
<1>1. PICK o \in {"none", "Register", "Login", "Refresh"},
           err \in {"ErrBadRequest", "ErrInvalidEmail", "ErrInvalidCredentials"} :
               Start(r, o, Null, Null, Null, Null, err, "tokens.FindByHash")
  BY DEF Rejected, Start
<1>2. /\ UNCHANGED <<database, clock, handedOut, parent>>
      /\ UNCHANGED <<users, userEmail, userHash, userStatus, tokens,
                     tokenUser, tokenExpiry, tokenRevoked>>
  BY <1>1 DEF Start, database
<1>3. TypeOK'
  <2>1. o \in Ops /\ err \in Errors \cup {"nil"} /\ "tokens.FindByHash" \in Calls
    BY DEF Ops, Errors, Calls
  <2> QED BY <1>1, <2>1, StartKeepsTypes
<1>4. RowsOK' /\ HandedOutOK' /\ ParentsOK' /\ CascadeOK' /\ OneAccountPerMailbox'
  BY <1>2 DEF RowsOK, HandedOutOK, ParentsOK, CascadeOK, OneAccountPerMailbox,
              Stored, Registered, Live
<1>5. Evolves /\ Persists /\ clock <= clock'
  BY <1>2 DEF Evolves, Persists, Live, TypeOK
<1>6. RequestOK(r)' /\ CallerOK(r)'
  <2>1. o \in Ops
    BY DEF Ops
  <2> QED BY <1>1, <2>1, StartStep, CallerStart
<1>7. ASSUME NEW q \in Requests, q # r PROVE RequestOK(q)' /\ CallerOK(q)'
  <2>1. SameLocals(q)
    BY <1>1, <1>7, StartSpares
  <2> QED BY <1>3, <1>5, <2>1, BystanderStep, CallerBystander DEF TypeOK
<1> QED BY <1>2, <1>3, <1>4, <1>5, <1>6, <1>7

(* A request is refused, or starts its use case.                           *)
LEMMA ReceiveStep ==
    ASSUME NEW r \in Requests, NEW b \in Received, Receive(r, b[1], b[2])
    PROVE  Rejected(r) \/ Arrive(r)
<1>1. PostRegister(r, b[1]) => Rejected(r) \/ Arrive(r)
  BY DEF PostRegister, BadRequest, Rejected, Arrive
<1>2. PostLogin(r, b[1]) => Rejected(r) \/ Arrive(r)
  BY DEF PostLogin, BadRequest, Rejected, Arrive
<1>3. PostRefresh(r, b[1]) => Rejected(r) \/ Arrive(r)
  BY DEF PostRefresh, BadRequest, Rejected, Arrive
<1>4. PostLogout(r, b[1]) => Rejected(r) \/ Arrive(r)
  BY DEF PostLogout, BadRequest, Rejected, Arrive
<1> QED BY <1>1, <1>2, <1>3, <1>4 DEF Receive

(* Every step behind the routes is a step of AuthService or a refusal.     *)
LEMMA HttpStep ==
    ASSUME [HttpNext]_httpVars
    PROVE  [Next]_vars \/ \E r \in Requests : Rejected(r)
<1>1. ASSUME NEW r \in Requests, NEW b \in Received, Receive(r, b[1], b[2])
      PROVE  Next \/ Rejected(r)
  BY <1>1, ReceiveStep DEF Next
<1>2. ASSUME NEW r \in Requests, Serve(r) PROVE Next
  BY <1>2 DEF Serve, Next
<1>3. ASSUME NEW r \in Requests, Deliver(r) \/ Drop(r) PROVE Next
  BY <1>3 DEF Next
<1>4. ASSUME NEW r \in Requests, NEW u \in UserIds \ FreshUsers, Suspend(r, u)
      PROVE  Next
  BY <1>4 DEF Arrive, Next
<1>5. Crash \/ Tick \/ (\E u \in UserIds : DeleteUser(u)) => Next
  BY DEF Next
<1>6. UNCHANGED httpVars => UNCHANGED vars
  BY DEF httpVars
<1> QED BY <1>1, <1>2, <1>3, <1>4, <1>5, <1>6 DEF HttpNext

(* Both layers of the invariant hold behind the routes.                    *)
LEMMA HttpPreserves ==
    ASSUME IInv, CallerInv, [HttpNext]_httpVars
    PROVE  IInv' /\ CallerInv' /\ Evolves /\ Persists /\ clock <= clock'
<1>1. CASE [Next]_vars
  BY <1>1, NextPreserves, CallerPreserves
<1>2. ASSUME NEW r \in Requests, Rejected(r)
      PROVE  IInv' /\ CallerInv' /\ Evolves /\ Persists /\ clock <= clock'
  BY <1>2, RejectPreserves
<1> QED BY <1>1, <1>2, HttpStep

-----------------------------------------------------------------------------
(* What the history of a request says of it.                               *)

(* Every hash is salted by its own user's salt.                            *)
SaltOK == \A u \in UserIds : Registered(u) => userHash[u].salt = u

(* A request that has written goes on to startSession or is answered with  *)
(* one of three outcomes.                                                  *)
TraceOK(r) ==
    /\ pc[r] = "idle" => ~ wrote[r]
    /\ wrote[r] =>
          \/ pc[r] = "startSession"
          \/ /\ pc[r] = "done"
             /\ result[r] \in {"nil", "ErrInternal", "ErrRefreshTokenRevoked"}

(* Who is entitled owns what the request presents.                         *)
EntitledOK(r) ==
    /\ entitled[r] # {} => op[r] = "Login" /\ pc[r] # "idle"
    /\ \A u \in entitled[r] : Owns(u, r)
    /\ pc[r] = "done" /\ op[r] = "Login" =>
          \/ result[r] \in {"nil", "ErrInternal", "ErrUserSuspended"}
          \/ entitled[r] \cap users = {}

(* A request without an object for a body is answered at once, unless it   *)
(* is a Logout, which then looks for a token that nobody stored.           *)
WholeOK(r) ==
    pc[r] # "idle" /\ op[r] # "Suspend" =>
        IF whole[r] THEN op[r] # "none"
        ELSE /\ ~ wrote[r] /\ issued[r] = Null
             /\ \/ pc[r] = "done"
                \/ /\ op[r] = "Logout" /\ token[r] = Null
                   /\ pc[r] = "tokens.FindByHash"

HistoryTypeOK ==
    /\ wrote \in [Requests -> BOOLEAN]
    /\ entitled \in [Requests -> SUBSET UserIds]
    /\ whole \in [Requests -> BOOLEAN]

HttpInv ==
    /\ SaltOK /\ HistoryTypeOK
    /\ \A r \in Requests : TraceOK(r) /\ EntitledOK(r) /\ WholeOK(r)

SameHistory(r) ==
    /\ wrote'[r] = wrote[r] /\ entitled'[r] = entitled[r]
    /\ whole'[r] = whole[r]

(* users.Create salts the hash it stores.                                  *)
LEMMA SaltStep ==
    ASSUME IInv, CallerInv, SaltOK, [HttpNext]_httpVars
    PROVE  SaltOK'
<1> USE DEF SaltOK, Registered
<1>1. CASE users' \subseteq users /\ UNCHANGED <<userEmail, userHash>>
  BY <1>1
<1>2. ASSUME NEW r \in Requests, NEW u \in FreshUsers,
             userEmail' = [userEmail EXCEPT ![u] = mail[r]],
             userHash' = [userHash EXCEPT ![u] = Hash(pass[r], u)]
      PROVE  SaltOK'
  <2>1. Hash(pass[r], u).salt = u
    BY DEF Hash
  <2>2. /\ userEmail \in [UserIds -> Email \cup {Null}]
        /\ userHash \in [UserIds -> PasswordHash \cup {Null}]
    BY DEF IInv, TypeOK, StoreTypeOK
  <2>3. ASSUME NEW v \in UserIds, userEmail'[v] # Null
        PROVE  userHash'[v].salt = v
    <3>1. CASE v = u
      BY <1>2, <2>1, <2>2, <3>1
    <3>2. CASE v # u
      <4>1. userEmail'[v] = userEmail[v] /\ userHash'[v] = userHash[v]
        BY <1>2, <2>2, <3>2
      <4> QED BY <2>3, <4>1
    <3> QED BY <3>1, <3>2
  <2> QED BY <2>3
<1>3. CASE [Next]_vars
  BY <1>1, <1>2, <1>3, UsersStep
<1>4. ASSUME NEW r \in Requests, Rejected(r) PROVE SaltOK'
  BY <1>4, RejectPreserves DEF database
<1> QED BY <1>3, <1>4, HttpStep

(* The roles a request may play in a step.                                 *)
LEMMA HttpRole ==
    ASSUME TypeOK, HistoryTypeOK, [HttpNext]_httpVars, NEW q \in Requests
    PROVE  \/ SameLocals(q) /\ SameHistory(q)
           \/ \E b \in Received : Receive(q, b[1], b[2])
           \/ Serve(q)
           \/ \E u \in UserIds : Suspend(q, u) /\ SameHistory(q)
           \/ \E rs \in SUBSET Requests : q \in rs /\ Forget(rs) /\ Finish(rs)
<1> DEFINE Goal ==
           \/ SameLocals(q) /\ SameHistory(q)
           \/ \E b \in Received : Receive(q, b[1], b[2])
           \/ Serve(q)
           \/ \E u \in UserIds : Suspend(q, u) /\ SameHistory(q)
           \/ \E rs \in SUBSET Requests : q \in rs /\ Forget(rs) /\ Finish(rs)
<1>1. CASE UNCHANGED httpVars
  BY <1>1 DEF httpVars, httpHistory, vars, locals, history, SameLocals, SameHistory
<1>2. ASSUME NEW r \in Requests, NEW b \in Received, Receive(r, b[1], b[2])
      PROVE  Goal
  <2>1. CASE r = q
    BY <1>2, <2>1
  <2>2. CASE r # q
    <3>1. Rejected(r) => SameLocals(q)
      BY <2>2, StartSpares DEF Rejected
    <3>2. Arrive(r) => SameLocals(q)
      BY <2>2, OthersSpare
    <3>3. SameHistory(q)
      BY <1>2, <2>2
         DEF HistoryTypeOK, SameHistory, Receive, PostRegister, PostLogin,
             PostRefresh, PostLogout
    <3> QED BY <1>2, <3>1, <3>2, <3>3, ReceiveStep
  <2> QED BY <2>1, <2>2
<1>3. ASSUME NEW r \in Requests, Serve(r) PROVE Goal
  <2>1. CASE r = q
    BY <1>3, <2>1
  <2>2. CASE r # q
    <3>1. SameHistory(q)
      BY <1>3, <2>2 DEF HistoryTypeOK, SameHistory, Serve
    <3>2. SameLocals(q)
      BY <1>3, <2>2, OthersSpare DEF Serve
    <3> QED BY <3>1, <3>2
  <2> QED BY <2>1, <2>2
<1>4. ASSUME NEW rs \in SUBSET Requests, Forget(rs), Finish(rs) PROVE Goal
  <2>1. CASE q \in rs
    BY <1>4, <2>1
  <2>2. CASE q \notin rs
    <3>1. SameLocals(q)
      BY <1>4, <2>2, ForgetSpares
    <3>2. ASSUME NEW g, NEW v PROVE Blank(g, rs, v)[q] = g[q]
      BY <2>2 DEF Blank
    <3>3. SameHistory(q)
      BY <1>4, <3>2 DEF Finish, SameHistory
    <3> QED BY <3>1, <3>3
  <2> QED BY <2>1, <2>2
<1>5. ASSUME NEW r \in Requests, Deliver(r) \/ Drop(r), Finish({r}) PROVE Goal
  BY <1>4, <1>5 DEF Deliver, Drop
<1>6. ASSUME Crash, Finish(Requests) PROVE Goal
  BY <1>4, <1>6 DEF Crash
<1>7. ASSUME NEW r \in Requests, NEW u \in UserIds \ FreshUsers, Suspend(r, u),
             UNCHANGED httpHistory
      PROVE  Goal
  BY <1>7, StartSpares DEF Suspend, httpHistory, SameHistory
<1>8. ASSUME Tick, UNCHANGED httpHistory PROVE Goal
  BY <1>8 DEF Tick, locals, history, httpHistory, SameLocals, SameHistory
<1>9. ASSUME NEW u \in UserIds, DeleteUser(u), UNCHANGED httpHistory PROVE Goal
  BY <1>9 DEF DeleteUser, locals, history, httpHistory, SameLocals, SameHistory
<1> QED BY <1>1, <1>2, <1>3, <1>5, <1>6, <1>7, <1>8, <1>9 DEF HttpNext

(* The history keeps its types.                                            *)
LEMMA HistoryTypes ==
    ASSUME TypeOK, HistoryTypeOK, [HttpNext]_httpVars
    PROVE  HistoryTypeOK'
<1> USE DEF HistoryTypeOK
<1>1. CASE UNCHANGED httpHistory
  BY <1>1 DEF httpHistory
<1>2. ASSUME NEW r \in Requests, NEW b \in Received, Receive(r, b[1], b[2])
      PROVE  HistoryTypeOK'
  <2>1. b[2] \in BOOLEAN
    <3>1. PICK body \in Bodies : b = <<Request(body), OneObject(body)>>
      BY DEF Received
    <3>2. OneObject(body) \in BOOLEAN
      BY DEF OneObject, OneValue
    <3>3. b[2] = OneObject(body)
      BY <3>1
    <3> QED BY <3>2, <3>3
  <2>2. \A raw, p : Entitled(raw, p) \in SUBSET UserIds
    BY DEF Entitled, UsersWithEmail, TypeOK, StoreTypeOK
  <2>3. entitled' \in [Requests -> SUBSET UserIds]
    BY <1>2, <2>2 DEF Receive, PostRegister, PostLogin, PostRefresh, PostLogout
  <2> QED BY <1>2, <2>1, <2>3 DEF Receive
<1>3. ASSUME NEW r \in Requests, Serve(r) PROVE HistoryTypeOK'
  BY <1>3 DEF Serve
<1>4. ASSUME NEW rs \in SUBSET Requests, Finish(rs) PROVE HistoryTypeOK'
  BY <1>4 DEF Finish, Blank
<1>5. ASSUME NEW r \in Requests, Finish({r}) PROVE HistoryTypeOK'
  BY <1>4, <1>5
<1>6. Finish(Requests) => HistoryTypeOK'
  BY <1>4
<1> QED BY <1>1, <1>2, <1>3, <1>5, <1>6 DEF HttpNext, httpVars

(* What a call of a use case does to its request and to the tables.        *)
LEMMA ServeWrites ==
    ASSUME TypeOK, NEW r \in Requests, RequestOK(r), Handle(r) \/ CallFails(r)
    PROVE  /\ UNCHANGED <<op, mail, pass>>
           /\ pc[r] \in Calls /\ pc'[r] # "idle"
           /\ pc[r] = "startSession" \/ database' # database =>
                 \/ pc'[r] = "startSession"
                 \/ /\ pc'[r] = "done"
                    /\ result'[r] \in {"nil", "ErrInternal",
                                       "ErrRefreshTokenRevoked"}
           /\ pc[r] = "startSession" => pc'[r] # "startSession"
<1> DEFINE Answered == /\ pc'[r] = "done"
                       /\ result'[r] \in {"nil", "ErrInternal",
                                          "ErrRefreshTokenRevoked"}
<1> USE DEF TypeOK, Goto, Return, Lost
<1>1. UNCHANGED <<op, mail, pass>> /\ pc[r] \in Calls
  BY DEF Handle, UsersCreate, FindByEmail, StartSession, RefreshFindByHash,
         RevokeAll, RefreshFindByID, TokensUpdate, LogoutFindByHash,
         SuspendFindByID, UsersUpdate, CallFails, arguments, Calls
<1>2. CASE UsersCreate(r)
  BY <1>1, <1>2 DEF UsersCreate
<1>3. CASE StartSession(r)
  <2>1. result[r] = "nil"
    BY <1>3 DEF StartSession, RequestOK, KnownOK
  <2> QED BY <1>1, <1>3, <2>1 DEF StartSession
<1>4. CASE FindByEmail(r) \/ RefreshFindByHash(r)
  BY <1>1, <1>4 DEF FindByEmail, RefreshFindByHash
<1>5. CASE RefreshFindByID(r) \/ LogoutFindByHash(r) \/ SuspendFindByID(r)
  BY <1>1, <1>5 DEF RefreshFindByID, LogoutFindByHash, SuspendFindByID
<1>6. CASE RevokeAll(r) \/ TokensUpdate(r) \/ UsersUpdate(r) \/ CallFails(r)
  BY <1>1, <1>6 DEF RevokeAll, TokensUpdate, UsersUpdate, CallFails
<1> QED BY <1>2, <1>3, <1>4, <1>5, <1>6 DEF Handle

(* A Login that is answered 401 found no account it is entitled to.        *)
LEMMA ServeLogin ==
    ASSUME IInv, CallerInv, NEW r \in Requests, EntitledOK(r), op[r] = "Login",
           Evolves, Persists, Handle(r) \/ CallFails(r), pc'[r] = "done"
    PROVE  \/ result'[r] \in {"nil", "ErrInternal", "ErrUserSuspended"}
           \/ entitled[r] \cap users' = {}
<1> USE DEF IInv, CallerInv, TypeOK, Return, Goto, Lost
<1>1. CASE CallFails(r)
  BY <1>1 DEF CallFails
<1>2. CASE StartSession(r)
  <2>1. result[r] = "nil"
    BY <1>2 DEF StartSession, RequestOK, KnownOK
  <2> QED BY <1>2, <2>1 DEF StartSession
<1>3. CASE FindByEmail(r)
  <2>1. mail[r] \in Email /\ UNCHANGED users
    BY <1>3 DEF FindByEmail, CallerOK, CredentialsOK, database
  <2>2. \A u \in users : userEmail[u] \in Email
    BY DEF RowsOK, StoreTypeOK, Registered
  <2>3. ASSUME UsersWithEmail(mail[r]) = {} PROVE entitled[r] \cap users = {}
    BY <2>3 DEF EntitledOK, Owns, UsersWithEmail
  <2>4. ASSUME NEW v \in UsersWithEmail(mail[r]),
               ~ Verify(pass[r], userHash[v])
        PROVE  entitled[r] \cap users = {}
    <3>1. v \in users /\ userEmail[v] = mail[r]
      BY <2>1, <2>2, CiTextOfEmail DEF UsersWithEmail
    <3>2. ASSUME NEW u \in entitled[r] \cap users PROVE FALSE
      <4>1. Owns(u, r)
        BY <3>2 DEF EntitledOK
      <4>2. userEmail[u] = userEmail[v] /\ u # v
        BY <2>4, <3>1, <4>1 DEF Owns
      <4> QED BY <3>1, <3>2, <4>2 DEF OneAccountPerMailbox
    <3> QED BY <3>2
  <2>5. ASSUME NEW v, Authenticate(pass[r], userHash[v], userStatus[v]) #
                          "ErrUserSuspended",
               Authenticate(pass[r], userHash[v], userStatus[v]) # "nil"
        PROVE  ~ Verify(pass[r], userHash[v])
    BY <2>5 DEF Authenticate
  <2> QED BY <1>3, <2>1, <2>3, <2>4, <2>5 DEF FindByEmail
<1>4. CASE \/ UsersCreate(r) \/ RefreshFindByHash(r) \/ RevokeAll(r)
           \/ RefreshFindByID(r) \/ TokensUpdate(r) \/ LogoutFindByHash(r)
           \/ SuspendFindByID(r) \/ UsersUpdate(r)
  BY <1>4 DEF UsersCreate, RefreshFindByHash, RevokeAll, RefreshFindByID,
              TokensUpdate, LogoutFindByHash, SuspendFindByID, UsersUpdate,
              RequestOK, PhaseOK
<1> QED BY <1>1, <1>2, <1>3, <1>4 DEF Handle

(* A request that is received has a history that fits it.                  *)
LEMMA ReceiveHistory ==
    ASSUME IInv, CallerInv, HttpInv, NEW r \in Requests, NEW b \in Received,
           Receive(r, b[1], b[2])
    PROVE  TraceOK(r)' /\ EntitledOK(r)' /\ WholeOK(r)'
<1> USE DEF IInv, TypeOK, HttpInv, HistoryTypeOK
<1>1. /\ pc[r] = "idle" /\ pc'[r] # "idle"
      /\ wrote'[r] = FALSE /\ entitled[r] = {} /\ whole'[r] = b[2]
      /\ UNCHANGED database
  <2>1. pc[r] = "idle" /\ UNCHANGED database
    BY ReceiveStep DEF Rejected, Arrive, Register, Login, Refresh, Logout, Suspend, Start
  <2>2. pc'[r] # "idle"
    BY ReceiveStep DEF Rejected, Arrive, Register, Login, Refresh, Logout, Suspend, Start
  <2>3. ~ wrote[r] /\ entitled[r] = {}
    BY <2>1 DEF TraceOK, EntitledOK
  <2> QED BY <2>1, <2>2, <2>3 DEF Receive
<1>2. TraceOK(r)'
  BY <1>1 DEF TraceOK
<1>3. WholeOK(r)'
  <2> USE DEF PostRegister, PostLogin, PostRefresh, PostLogout, BadRequest,
              Register, Login, Refresh, Logout, Start
  <2>1. op'[r] = "none" <=> b[1] = "none"
    BY DEF Receive
  <2>2. issued'[r] = Null
    <3>1. issued[r] = Null
      BY <1>1 DEF RequestOK, ArgumentsOK
    <3> QED BY <3>1 DEF Receive
  <2>3. ASSUME b[1] \in {"none", "zero"}
        PROVE  \/ pc'[r] = "done"
               \/ /\ op'[r] = "Logout" /\ token'[r] = Null
                  /\ pc'[r] = "tokens.FindByHash"
    BY <2>3 DEF Receive
  <2> QED BY <1>1, <2>1, <2>2, <2>3, ReceivedIsDecoded DEF WholeOK
<1>4. ASSUME entitled'[r] = {} PROVE EntitledOK(r)'
  <2>1. entitled'[r] \cap users' = {} /\ \A u \in entitled'[r] : FALSE
    BY <1>4
  <2> QED BY <1>4, <2>1 DEF EntitledOK
<1>5. ASSUME NEW raw \in RawEmails, NEW p \in Passwords, Login(r, raw, p),
             entitled' = [entitled EXCEPT ![r] = Entitled(raw, p)]
      PROVE  EntitledOK(r)'
  <2>1. raw \in RawEmail /\ entitled'[r] = Entitled(raw, p)
    BY <1>5, ServiceAssumption
  <2>2. \A u \in users : userEmail[u] \in Email /\ u \in UserIds
    BY DEF RowsOK, StoreTypeOK, Registered
  <2>3. CASE ~ IsValidEmail(raw)
    <3>1. \A e \in Email : CiText(e).form = {}
      BY DEF Email, CiText
    <3>2. CiText(NormalizeEmail(raw)).form # {}
      BY <2>1, <2>3 DEF RawEmail, CiText, NormalizeEmail, IsValidEmail, TrimLower
    <3>3. UsersWithEmail(NormalizeEmail(raw)) = {}
      BY <2>2, <3>1, <3>2 DEF UsersWithEmail
    <3> QED BY <1>4, <2>1, <3>3 DEF Entitled
  <2>4. CASE IsValidEmail(raw)
    <3>1. /\ op'[r] = "Login" /\ pc'[r] = "users.FindByEmail"
          /\ mail'[r] = NormalizeEmail(raw) /\ pass'[r] = p
      BY <1>5, <2>4 DEF Login, Start
    <3>2. NormalizeEmail(raw) \in Email
      BY <2>1, <2>4, NormalizedType
    <3>3. ASSUME NEW u \in Entitled(raw, p)
          PROVE  /\ u \in UserIds /\ userEmail[u] # Null
                 /\ userEmail[u] = NormalizeEmail(raw)
                 /\ Verify(p, userHash[u])
      <4>1. u \in users /\ userEmail[u] = NormalizeEmail(raw)
        BY <2>2, <3>2, CiTextOfEmail DEF Entitled, UsersWithEmail
      <4>2. userHash[u].salt = u
        BY <2>2, <4>1 DEF SaltOK, Registered
      <4> QED BY <2>2, <4>1, <4>2 DEF Entitled, Verify
    <3> QED BY <1>1, <2>1, <3>1, <3>3 DEF EntitledOK, Owns, Registered, database
  <2> QED BY <2>3, <2>4
<1>6. EntitledOK(r)'
  BY <1>1, <1>4, <1>5
     DEF Receive, PostRegister, PostLogin, PostRefresh, PostLogout
<1> QED BY <1>2, <1>3, <1>6

(* HttpInv is inductive on top of the two layers.                          *)
LEMMA HistoryStep ==
    ASSUME IInv, CallerInv, HttpInv, [HttpNext]_httpVars
    PROVE  HttpInv'
<1>1. IInv' /\ CallerInv' /\ Evolves /\ Persists
  BY HttpPreserves
<1>2. SaltOK'
  BY SaltStep DEF HttpInv
<1>3. HistoryTypeOK'
  BY HistoryTypes DEF IInv, HttpInv
<1>4. ASSUME NEW r \in Requests
      PROVE  TraceOK(r)' /\ EntitledOK(r)' /\ WholeOK(r)'
  <2> USE DEF HttpInv
  (* An entitled account that is gone does not come back.                  *)
  <2>1. ASSUME mail'[r] = mail[r], pass'[r] = pass[r], entitled'[r] = entitled[r]
        PROVE  \A u \in entitled'[r] : Owns(u, r)' /\ (u \in users' => u \in users)
    <3>1. ASSUME NEW u \in entitled[r]
          PROVE  Owns(u, r)' /\ (u \in users' => u \in users)
      <4>1. Owns(u, r)
        BY DEF EntitledOK
      <4>2. Owns(u, r)'
        BY <1>1, <2>1, <4>1, OwnsStays DEF Owns, Registered
      <4> QED BY <1>1, <4>1, <4>2 DEF Owns, Persists
    <3> QED BY <2>1, <3>1
  <2>2. CASE SameLocals(r) /\ SameHistory(r)
    <3>1. TraceOK(r)' /\ WholeOK(r)'
      BY <2>2 DEF SameLocals, SameHistory, TraceOK, WholeOK
    <3>2. EntitledOK(r)'
      BY <2>1, <2>2 DEF SameLocals, SameHistory, EntitledOK
    <3> QED BY <3>1, <3>2
  <2>3. ASSUME NEW b \in Received, Receive(r, b[1], b[2])
        PROVE  TraceOK(r)' /\ EntitledOK(r)' /\ WholeOK(r)'
    BY <2>3, ReceiveHistory
  <2>4. CASE Serve(r)
    <3>1. RequestOK(r) /\ TypeOK /\ (Handle(r) \/ CallFails(r))
      BY <2>4 DEF IInv, Serve
    <3>2. /\ wrote'[r] <=> wrote[r] \/ database' # database
          /\ entitled'[r] = entitled[r] /\ whole'[r] = whole[r]
      BY <2>4 DEF Serve, HistoryTypeOK
    <3>3. TraceOK(r)'
      BY <3>1, <3>2, ServeWrites DEF TraceOK, Calls
    <3>4. WholeOK(r)'
      <4>1. CASE whole[r]
        BY <3>1, <3>2, <4>1, ServeWrites DEF WholeOK, Calls
      <4>2. CASE ~ whole[r] /\ op[r] # "Suspend"
        <5>1. /\ op[r] = "Logout" /\ token[r] = Null /\ ~ wrote[r]
              /\ pc[r] = "tokens.FindByHash" /\ issued[r] = Null
          BY <3>1, <4>2, ServeWrites DEF WholeOK, Calls
        <5>2. ~ Live(token[r])
          BY <3>1, <5>1 DEF Live, TypeOK, StoreTypeOK
        <5>3. pc'[r] = "done" /\ UNCHANGED <<database, issued>>
          BY <3>1, <5>1, <5>2
             DEF Handle, UsersCreate, FindByEmail, StartSession,
                 RefreshFindByHash, RevokeAll, RefreshFindByID, TokensUpdate,
                 LogoutFindByHash, SuspendFindByID, UsersUpdate, CallFails,
                 Return, TypeOK
        <5> QED BY <3>1, <3>2, <5>1, <5>3, ServeWrites DEF WholeOK
      <4> QED BY <3>1, <4>1, <4>2, ServeWrites DEF WholeOK
    <3>5. EntitledOK(r)'
      <4>1. mail'[r] = mail[r] /\ pass'[r] = pass[r] /\ op'[r] = op[r]
            /\ pc'[r] # "idle"
        BY <3>1, ServeWrites
      <4>2. pc'[r] = "done" /\ op[r] = "Login" =>
                \/ result'[r] \in {"nil", "ErrInternal", "ErrUserSuspended"}
                \/ entitled[r] \cap users' = {}
        BY <1>1, <3>1, ServeLogin
      <4> QED BY <2>1, <3>2, <4>1, <4>2 DEF EntitledOK
    <3> QED BY <3>3, <3>4, <3>5
  <2>5. ASSUME NEW u \in UserIds, Suspend(r, u), SameHistory(r)
        PROVE  TraceOK(r)' /\ EntitledOK(r)' /\ WholeOK(r)'
    <3>1. pc[r] = "idle" /\ op'[r] = "Suspend" /\ pc'[r] = "users.FindByID"
      BY <2>5 DEF Suspend, Start, IInv, TypeOK
    <3> QED BY <2>5, <3>1 DEF SameHistory, TraceOK, EntitledOK, WholeOK
  <2>6. ASSUME NEW rs \in SUBSET Requests, r \in rs, Forget(rs), Finish(rs)
        PROVE  TraceOK(r)' /\ EntitledOK(r)' /\ WholeOK(r)'
    <3>1. ASSUME NEW g, NEW v PROVE Blank(g, rs, v)[r] = v
      BY <2>6 DEF Blank
    <3>2. pc'[r] = "idle" /\ wrote'[r] = FALSE /\ entitled'[r] = {}
      BY <2>6, <3>1 DEF Forget, Finish
    <3> QED BY <3>2 DEF TraceOK, EntitledOK, WholeOK
  <2> QED BY <2>2, <2>3, <2>4, <2>5, <2>6, HttpRole DEF IInv
<1> QED BY <1>2, <1>3, <1>4 DEF HttpInv

-----------------------------------------------------------------------------
(* Theorems.                                                               *)

(* Everything proved of AuthService holds behind its routes, where every   *)
(* request is decoded first and may be refused.                            *)
THEOREM HttpInvariance == HttpSpec => [](IInv /\ CallerInv /\ HttpInv)
<1>1. HttpInit => IInv /\ CallerInv /\ HttpInv
  <2> SUFFICES ASSUME HttpInit PROVE IInv /\ CallerInv /\ HttpInv
    OBVIOUS
  <2>1. IInv /\ CallerInv
    BY InitEstablishes, CallerInit DEF HttpInit
  <2>2. SaltOK
    BY DEF HttpInit, Init, StoreInit, SaltOK, Registered
  <2>3. HistoryTypeOK
    BY DEF HttpInit, HistoryTypeOK
  <2>4. \A r \in Requests : TraceOK(r) /\ EntitledOK(r) /\ WholeOK(r)
    BY DEF HttpInit, Init, TraceOK, EntitledOK, WholeOK
  <2> QED BY <2>1, <2>2, <2>3, <2>4 DEF HttpInv
<1>2. (IInv /\ CallerInv /\ HttpInv) /\ [HttpNext]_httpVars =>
          (IInv /\ CallerInv /\ HttpInv)'
  BY HttpPreserves, HistoryStep
<1> QED BY <1>1, <1>2, PTL DEF HttpSpec

(* For every limit and every split of a body into chunks: a body that is   *)
(* one object within the limit reaches its use case, and a request with    *)
(* any other body, null included, leaves the tables as they are.           *)
THEOREM OtherBodiesHaveNoEffect == HttpSpec => []OnlyObjectsTakeEffect
<1>1. HttpInv => OnlyObjectsTakeEffect
  BY DEF HttpInv, WholeOK, OnlyObjectsTakeEffect
<1> QED BY <1>1, HttpInvariance, PTL

(* A 4xx answer leaves no trace in the tables, but for the revocations     *)
(* that a replayed refresh token brings about.                             *)
THEOREM RefusalsLeaveNoTrace == HttpSpec => []RefusedWithoutTrace
<1>1. HttpInv => RefusedWithoutTrace
  BY DEF HttpInv, TraceOK, RefusedWithoutTrace, Answer, Status, success, mappings
<1> QED BY <1>1, HttpInvariance, PTL

(* A Login with the credentials of an account that exists is never         *)
(* answered 401.                                                           *)
THEOREM AccountsStayReachable == HttpSpec => []AccountReachable
<1>1. HttpInv => AccountReachable
  BY DEF HttpInv, EntitledOK, AccountReachable, Answer, Status, success, mappings
<1> QED BY <1>1, HttpInvariance, PTL

(* The guarantees of AuthService hold behind its routes too, where a       *)
(* request may be refused before it reaches its use case.                  *)
THEOREM GuaranteesBehindRoutes ==
    HttpSpec => [](/\ TypeOK /\ OneAccountPerMailbox
                   /\ DeadTokenNeverRefreshes /\ RefusalJustified
                   /\ ReuseRevokesAll /\ RotationConsumesParent
                   /\ LogoutKillsSession /\ LogoutFailsOnlyForDeleted
                   /\ SuspendedNeverServed /\ SessionMatchesCredentials)
BY IInvGuarantees, CallerInvGuarantees, HttpInvariance, PTL

(* Behind the routes, a dead token stays dead.                             *)
THEOREM RevocationIsPermanentBehindRoutes == HttpSpec => RevocationPermanent
<1>1. IInv /\ CallerInv /\ [HttpNext]_httpVars =>
        [\A t \in TokenIds : tokenUser[t] # Null /\ ~ Live(t) => ~ Live(t)']_vars
  BY HttpPreserves DEF Evolves, Stored
<1> QED BY <1>1, HttpInvariance, PTL DEF HttpSpec, RevocationPermanent

(* The service and its routes implement the life cycle of sessions.        *)
THEOREM RoutesImplementLifecycle == HttpSpec => ImplementsLifecycle
<1>1. HttpInit => Sessions!LifecycleInit
  BY DEF HttpInit, Init, StoreInit, Sessions!LifecycleInit, SessionState
<1>2. IInv /\ CallerInv /\ [HttpNext]_httpVars =>
          [Sessions!LifecycleNext]_(Sessions!lifecycle)
  <2> SUFFICES ASSUME IInv, CallerInv, [HttpNext]_httpVars
               PROVE  [Sessions!LifecycleNext]_(Sessions!lifecycle)
    OBVIOUS
  <2>1. CASE [Next]_vars
    BY <2>1, NextIsStatement, StatementRefines DEF IInv, TypeOK
  <2>2. ASSUME NEW r \in Requests, Rejected(r)
        PROVE  [Sessions!LifecycleNext]_(Sessions!lifecycle)
    <3>1. UNCHANGED database
      BY <2>2, RejectPreserves
    <3> QED BY <3>1, StatementRefines DEF Statement, IInv, TypeOK
  <2> QED BY <2>1, <2>2, HttpStep
<1> QED BY <1>1, <1>2, HttpInvariance, PTL
        DEF HttpSpec, ImplementsLifecycle, Sessions!LifecycleSpec

=============================================================================
