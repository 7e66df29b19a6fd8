-------------------------- MODULE MemoryStoreProofs --------------------------
(***************************************************************************)
(* What the fakes of apptest promise, for any number of users and tokens:  *)
(* a test that runs on them reads what the service would read from         *)
(* Postgres and is given the same errors, unless it goes on using a user   *)
(* who was deleted.                                                        *)
(***************************************************************************)
EXTENDS MemoryStore, TLAPS

Registered(u) == userEmail[u] # Null

MapsTypeOK ==
    /\ StoreTypeOK
    /\ clock \in Nat
    /\ byID \in [UserIds -> User \cup {Null}]
    /\ byEmail \in [Email -> User \cup {Null}]
    /\ byHash \in [TokenIds -> RefreshToken \cup {Null}]
    /\ heldUser \in User \cup {Null}
    /\ heldToken \in RefreshToken \cup {Null}

(* UserRepo holds the rows of the table, and both maps hold the same.      *)
UsersAgree ==
    /\ \A u \in users : Registered(u) /\ byID[u] # Null
    /\ \A u \in UserIds : byID[u] = UserRow(u)
    /\ \A u \in users : byEmail[userEmail[u]] = byID[u]
    /\ \A m \in Email : byEmail[m] # Null =>
          byEmail[m].email = m /\ byID[byEmail[m].id] = byEmail[m]

(* TokenRepo holds the rows of the table and the tokens of deleted users.  *)
TokensAgree ==
    /\ \A t \in tokens :
          tokenUser[t] \in users /\ byHash[t] = TokenRow(t) /\ byHash[t] # Null
    /\ \A t \in TokenIds : byHash[t] # Null =>
          /\ byHash[t].id = t
          /\ Registered(byHash[t].user)
          /\ byHash[t].user \in users => t \in tokens

(* A copy may be stale only in what its owner may change: the status of a  *)
(* user, the revocation of a token.                                        *)
HeldOK ==
    /\ heldUser # Null =>
          /\ userEmail[heldUser.id] = heldUser.email
          /\ userHash[heldUser.id] = heldUser.hash
    /\ heldToken # Null =>
          /\ byHash[heldToken.id] # Null
          /\ byHash[heldToken.id].user = heldToken.user
          /\ byHash[heldToken.id].expiry = heldToken.expiry

MemoryInv == MapsTypeOK /\ UsersAgree /\ TokensAgree /\ HeldOK /\ WritesAgree

-----------------------------------------------------------------------------
(* Rows and structs.                                                       *)

(* A row is a struct as soon as the fake holds it: its map has structs.    *)
LEMMA RowsHeld ==
    ASSUME MapsTypeOK, UsersAgree, TokensAgree
    PROVE  /\ \A u \in UserIds : byID[u] # Null <=> u \in users
           /\ \A u \in users : /\ byID[u] \in User
                               /\ byID[u].id = u
                               /\ byID[u].email = userEmail[u]
                               /\ byID[u].hash = userHash[u]
                               /\ byID[u].status = userStatus[u]
                               /\ userEmail[u] \in Email
           /\ \A t \in tokens : /\ byHash[t] \in RefreshToken
                                /\ byHash[t].user = tokenUser[t]
                                /\ byHash[t].expiry = tokenExpiry[t]
                                /\ byHash[t].revoked = tokenRevoked[t]
<1>1. ASSUME NEW u \in users
      PROVE  /\ u \in UserIds /\ byID[u] \in User /\ byID[u] # Null
             /\ byID[u].id = u
             /\ byID[u].email = userEmail[u]
             /\ byID[u].hash = userHash[u]
             /\ byID[u].status = userStatus[u]
             /\ userEmail[u] \in Email
  <2>1. byID[u] = [id |-> u, email |-> userEmail[u],
                   hash |-> userHash[u], status |-> userStatus[u]]
    BY DEF UsersAgree, UserRow, MapsTypeOK, StoreTypeOK
  <2>2. u \in UserIds /\ byID[u] \in User /\ byID[u] # Null
        /\ userEmail[u] \in Email
    BY DEF UsersAgree, MapsTypeOK, StoreTypeOK, Registered
  <2> QED BY <2>1, <2>2
<1>2. ASSUME NEW t \in tokens
      PROVE  /\ byHash[t] \in RefreshToken
             /\ byHash[t].user = tokenUser[t]
             /\ byHash[t].expiry = tokenExpiry[t]
             /\ byHash[t].revoked = tokenRevoked[t]
  <2>1. byHash[t] = [id |-> t, user |-> tokenUser[t],
                     expiry |-> tokenExpiry[t], revoked |-> tokenRevoked[t]]
    BY DEF TokensAgree, TokenRow, MapsTypeOK, StoreTypeOK
  <2>2. byHash[t] \in RefreshToken
    BY DEF TokensAgree, MapsTypeOK, StoreTypeOK
  <2> QED BY <2>1, <2>2
<1>3. \A u \in UserIds \ users : byID[u] = Null
  BY DEF UsersAgree, UserRow
<1> QED BY <1>1, <1>2, <1>3

LEMMA CiTextOfEmail ==
    ASSUME NEW e \in Email
    PROVE  CiText(e) = e
BY DEF Email, CiText

(* The unique index and the map by e-mail hold the same addresses.         *)
LEMMA EmailIndexed ==
    ASSUME MapsTypeOK, UsersAgree, TokensAgree, NEW m \in Email
    PROVE  IF byEmail[m] = Null THEN UsersWithEmail(m) = {}
           ELSE UsersWithEmail(m) = {byEmail[m].id}
<1>1. \A u \in users : byID[u].id = u /\ byID[u] # Null /\ userEmail[u] \in Email
                       /\ byID[u].email = userEmail[u] /\ u \in UserIds
  BY RowsHeld DEF MapsTypeOK, StoreTypeOK
<1>2. UsersWithEmail(m) = {u \in users : userEmail[u] = m}
  BY <1>1, CiTextOfEmail DEF UsersWithEmail
<1>3. \A u \in users : userEmail[u] = m => byEmail[m] = byID[u]
  BY DEF UsersAgree
<1>4. CASE byEmail[m] = Null
  BY <1>1, <1>2, <1>3, <1>4
<1>5. CASE byEmail[m] # Null
  <2>1. byEmail[m] \in User /\ byEmail[m].id \in UserIds
    BY <1>5 DEF MapsTypeOK, User
  <2>2. byID[byEmail[m].id] = byEmail[m] /\ byEmail[m].email = m
    BY <1>5 DEF UsersAgree
  <2>3. byEmail[m].id \in users
    BY <1>5, <2>1, <2>2, RowsHeld
  <2>4. userEmail[byEmail[m].id] = m
    BY <1>1, <2>2, <2>3
  <2>5. \A u \in users : userEmail[u] = m => u = byEmail[m].id
    BY <1>1, <1>3
  <2> QED BY <1>2, <1>5, <2>3, <2>4, <2>5
<1> QED BY <1>4, <1>5

-----------------------------------------------------------------------------
(* The steps.                                                              *)

LEMMA CreateUserPreserves ==
    ASSUME MemoryInv, NEW u \in FreshUsers, NEW m \in Email,
           NEW p \in Passwords, CreateUser(u, m, p)
    PROVE  MemoryInv'
<1> USE DEF MemoryInv
<1> DEFINE new == [id |-> u, email |-> m, hash |-> Hash(p, u),
                   status |-> "active"]
<1>1. u \in UserIds /\ userEmail[u] = Null /\ u \notin users
  BY DEF FreshUsers, UsersAgree, Registered
<1>2. new \in User /\ new # Null /\ Hash(p, u) \in PasswordHash
  <2>1. Hash(p, u) \in PasswordHash
    BY <1>1 DEF Hash, IDKey, PasswordHash
  <2> QED BY <1>1, <2>1, MemoryAssumption DEF User, UserStatus
<1>3. new.id = u /\ new.email = m /\ new.hash = Hash(p, u)
      /\ new.status = "active"
  OBVIOUS
<1>4. PICK pg \in Results, mem \in Results :
          PgUserCreate(new, pg) /\ UserRepoCreate(new, mem)
          /\ Answer(u, pg, mem)
  BY DEF CreateUser
<1>5. UNCHANGED <<clock, heldUser, heldToken>>
  BY DEF CreateUser, held
<1> HIDE DEF new
<1>6. CASE byEmail[m] # Null
  <2>1. UNCHANGED <<database, memory>> /\ pg = mem
    BY <1>3, <1>4, <1>6, EmailIndexed DEF PgUserCreate, UserRepoCreate
  <2>2. WritesAgree'
    BY <1>4, <2>1 DEF WritesAgree, Answer
  <2> QED BY <1>5, <2>1, <2>2 DEF MapsTypeOK, StoreTypeOK, UsersAgree,
       TokensAgree, HeldOK, database, memory, UserRow, TokenRow, Registered
<1>7. CASE byEmail[m] = Null
  <2>1. /\ InsertUser(u, m, Hash(p, u))
        /\ StoreUser(new) /\ pg = mem
    BY <1>3, <1>4, <1>7, EmailIndexed DEF PgUserCreate, UserRepoCreate
  <2>2. /\ users' = users \cup {u}
        /\ userEmail' = [userEmail EXCEPT ![u] = m]
        /\ userHash' = [userHash EXCEPT ![u] = Hash(p, u)]
        /\ userStatus' = [userStatus EXCEPT ![u] = "active"]
        /\ UNCHANGED <<tokens, tokenUser, tokenExpiry, tokenRevoked>>
    BY <2>1 DEF InsertUser, tokenTable
  <2>3. /\ byID' = [byID EXCEPT ![u] = new]
        /\ byEmail' = [byEmail EXCEPT ![m] = new]
        /\ UNCHANGED byHash
    BY <1>3, <2>1 DEF StoreUser
  <2>4. MapsTypeOK'
    BY <1>1, <1>2, <1>5, <2>2, <2>3 DEF MapsTypeOK, StoreTypeOK, UserStatus
  <2>5. \A v \in UserIds : v # u =>
            /\ byID'[v] = byID[v] /\ userEmail'[v] = userEmail[v]
            /\ userHash'[v] = userHash[v] /\ userStatus'[v] = userStatus[v]
            /\ v \in users' <=> v \in users
    BY <2>2, <2>3 DEF MapsTypeOK, StoreTypeOK
  <2>6. /\ byID'[u] = new /\ byEmail'[m] = new /\ userEmail'[u] = m
        /\ userHash'[u] = Hash(p, u) /\ userStatus'[u] = "active"
        /\ u \in users'
    BY <1>1, <2>2, <2>3 DEF MapsTypeOK, StoreTypeOK
  <2>7. \A n \in Email : n # m => byEmail'[n] = byEmail[n]
    BY <2>3 DEF MapsTypeOK
  <2>8. \A v \in users : userEmail[v] # m /\ v # u /\ v \in UserIds
    BY <1>1, <1>7 DEF UsersAgree, MapsTypeOK, StoreTypeOK
  <2>9. UsersAgree'
    <3>1. \A v \in users' : (Registered(v) /\ byID[v] # Null)'
      BY <1>2, <2>2, <2>5, <2>6, <2>8, NullAssumption DEF Registered, UsersAgree
    <3>2. \A v \in UserIds : (byID[v] = UserRow(v))'
      <4>1. (byID[u] = UserRow(u))'
        BY <2>6 DEF UserRow, new
      <4>2. ASSUME NEW v \in UserIds, v # u PROVE (byID[v] = UserRow(v))'
        BY <2>5, <4>2 DEF UserRow, UsersAgree
      <4> QED BY <4>1, <4>2
    <3>3. \A v \in users' : (byEmail[userEmail[v]] = byID[v])'
      <4>1. \A v \in users : userEmail[v] \in Email
        BY RowsHeld
      <4> QED BY <2>2, <2>5, <2>6, <2>7, <2>8, <4>1 DEF UsersAgree
    <3>4. ASSUME NEW n \in Email, byEmail'[n] # Null
          PROVE (byEmail[n].email = n /\ byID[byEmail[n].id] = byEmail[n])'
      <4>1. CASE n = m
        BY <1>3, <2>6, <4>1
      <4>2. CASE n # m
        <5>1. byEmail'[n] = byEmail[n]
          BY <2>7, <4>2
        <5>2. byEmail[n].id \in UserIds /\ byEmail[n].email = n
              /\ byID[byEmail[n].id] = byEmail[n]
          BY <3>4, <5>1 DEF MapsTypeOK, User, UsersAgree
        <5>3. byEmail[n].id # u
          BY <1>1, <3>4, <5>1, <5>2, RowsHeld
        <5> QED BY <2>5, <5>1, <5>2, <5>3
      <4> QED BY <4>1, <4>2
    <3> QED BY <3>1, <3>2, <3>3, <3>4 DEF UsersAgree
  <2>10. TokensAgree'
    <3>1. \A t \in tokens' :
             (tokenUser[t] \in users /\ byHash[t] = TokenRow(t)
              /\ byHash[t] # Null)'
      BY <2>2, <2>3 DEF TokensAgree, TokenRow
    <3>2. ASSUME NEW t \in TokenIds, byHash[t] # Null
          PROVE  byHash[t].user \in UserIds /\ byHash[t].user # u
      BY <1>1, <3>2 DEF MapsTypeOK, RefreshToken, TokensAgree, Registered
    <3> QED BY <2>2, <2>3, <2>5, <3>1, <3>2 DEF TokensAgree, Registered
  <2>11. HeldOK'
    <3>1. heldUser # Null => heldUser.id \in UserIds /\ heldUser.email \in Email
      BY DEF MapsTypeOK, User
    <3>2. heldUser # Null => heldUser.id # u
      BY <1>1, <3>1, NullAssumption DEF HeldOK
    <3> QED BY <1>5, <2>3, <2>5, <3>1, <3>2 DEF HeldOK
  <2>12. WritesAgree'
    BY <1>4, <2>1 DEF WritesAgree, Answer
  <2> QED BY <2>4, <2>9, <2>10, <2>11, <2>12
<1> QED BY <1>6, <1>7

(* The struct keeps the keys of the row, so both maps get it in place.     *)
LEMMA SuspendHeldPreserves ==
    ASSUME MemoryInv, SuspendHeld
    PROVE  MemoryInv'
<1> USE DEF MemoryInv
<1> DEFINE row == [heldUser EXCEPT !.status = "suspended"]
<1>1. heldUser \in User /\ heldUser # Null
  BY DEF SuspendHeld, MapsTypeOK
<1>2. row \in User /\ row # Null
  BY <1>1, MemoryAssumption DEF User, UserStatus
<1>3. row.id = heldUser.id /\ row.email = heldUser.email
      /\ row.hash = heldUser.hash /\ row.status = "suspended"
  BY <1>1 DEF User
<1>4. row = [id |-> heldUser.id, email |-> heldUser.email,
             hash |-> heldUser.hash, status |-> "suspended"]
  BY <1>1 DEF User
<1>5. PICK pg \in Results, mem \in Results :
          PgUserUpdate(row, pg) /\ UserRepoUpdate(row, mem)
          /\ Answer(row.id, pg, mem)
  BY DEF SuspendHeld
<1>6. UNCHANGED <<clock, heldToken>> /\ heldUser' = Null
  BY DEF SuspendHeld
<1>7. PICK u \in UserIds, m \in Email : u = heldUser.id /\ m = heldUser.email
  BY <1>1 DEF User
<1>8. u \in UserIds /\ m \in Email /\ userEmail[u] = m
      /\ userHash[u] = heldUser.hash
  BY <1>1, <1>7 DEF HeldOK
<1> HIDE DEF row
<1>9. CASE u \notin users
  <2>1. UNCHANGED <<database, memory>> /\ pg = mem
    BY <1>7, <1>3, <1>5, <1>8, <1>9, RowsHeld DEF PgUserUpdate, UserRepoUpdate
  <2>2. WritesAgree'
    BY <1>5, <2>1 DEF WritesAgree, Answer
  <2> QED BY <1>6, <2>1, <2>2 DEF MapsTypeOK, StoreTypeOK, UsersAgree,
       TokensAgree, HeldOK, database, memory, UserRow, TokenRow, Registered
<1>10. CASE u \in users
  <2>1. UpdateUser(u, "suspended") /\ StoreUser(row) /\ pg = mem
    BY <1>7, <1>3, <1>5, <1>8, <1>10, RowsHeld DEF PgUserUpdate, UserRepoUpdate
  <2>2. /\ userStatus' = [userStatus EXCEPT ![u] = "suspended"]
        /\ UNCHANGED <<users, userEmail, userHash,
                       tokens, tokenUser, tokenExpiry, tokenRevoked>>
    BY <2>1 DEF UpdateUser, tokenTable
  <2>3. /\ byID' = [byID EXCEPT ![u] = row]
        /\ byEmail' = [byEmail EXCEPT ![m] = row]
        /\ UNCHANGED byHash
    BY <1>7, <1>3, <2>1 DEF StoreUser
  <2>4. MapsTypeOK'
    BY <1>2, <1>6, <1>8, <2>2, <2>3 DEF MapsTypeOK, StoreTypeOK, UserStatus
  <2>5. \A v \in UserIds : v # u =>
            byID'[v] = byID[v] /\ userStatus'[v] = userStatus[v]
    BY <2>2, <2>3 DEF MapsTypeOK, StoreTypeOK
  <2>6. byID'[u] = row /\ byEmail'[m] = row /\ userStatus'[u] = "suspended"
    BY <1>8, <2>2, <2>3 DEF MapsTypeOK, StoreTypeOK
  <2>7. \A n \in Email : n # m => byEmail'[n] = byEmail[n]
    BY <2>3 DEF MapsTypeOK
  <2>8. \A v \in users : /\ userEmail[v] = m => v = u
                         /\ v \in UserIds /\ userEmail[v] \in Email
    <3>1. \A v \in users : byEmail[userEmail[v]] = byID[v] /\ byID[v].id = v
      BY RowsHeld DEF UsersAgree
    <3> QED BY <1>8, <1>10, <3>1, RowsHeld DEF MapsTypeOK, StoreTypeOK
  <2>9. UsersAgree'
    <3>1. \A v \in users' : (Registered(v) /\ byID[v] # Null)'
      BY <1>2, <2>2, <2>5, <2>6, <2>8 DEF Registered, UsersAgree
    <3>2. \A v \in UserIds : (byID[v] = UserRow(v))'
      <4>1. (byID[u] = UserRow(u))'
        BY <1>7, <1>4, <1>8, <1>10, <2>2, <2>6 DEF UserRow
      <4>2. ASSUME NEW v \in UserIds, v # u PROVE (byID[v] = UserRow(v))'
        BY <2>2, <2>5, <4>2 DEF UserRow, UsersAgree
      <4> QED BY <4>1, <4>2
    <3>3. \A v \in users' : (byEmail[userEmail[v]] = byID[v])'
      BY <1>8, <2>2, <2>5, <2>6, <2>7, <2>8 DEF UsersAgree
    <3>4. ASSUME NEW n \in Email, byEmail'[n] # Null
          PROVE (byEmail[n].email = n /\ byID[byEmail[n].id] = byEmail[n])'
      <4>1. CASE n = m
        BY <1>7, <1>3, <2>6, <4>1
      <4>2. CASE n # m
        <5>1. byEmail'[n] = byEmail[n]
          BY <2>7, <4>2
        <5>2. byEmail[n].id \in UserIds /\ byEmail[n].email = n
              /\ byID[byEmail[n].id] = byEmail[n]
          BY <3>4, <5>1 DEF MapsTypeOK, User, UsersAgree
        <5>3. byEmail[n].id # u
          BY <1>8, <1>10, <4>2, <5>2, RowsHeld
        <5> QED BY <2>5, <5>1, <5>2, <5>3
      <4> QED BY <4>1, <4>2
    <3> QED BY <3>1, <3>2, <3>3, <3>4 DEF UsersAgree
  <2>10. TokensAgree'
    BY <2>2, <2>3 DEF TokensAgree, TokenRow, Registered
  <2>11. HeldOK' /\ WritesAgree'
    BY <1>5, <1>6, <2>1, <2>2, <2>3 DEF HeldOK, WritesAgree, Answer
  <2> QED BY <2>4, <2>9, <2>10, <2>11
<1> QED BY <1>9, <1>10

(* Delete leaves the tokens of the user in the fake, and only those.       *)
LEMMA DeleteUserPreserves ==
    ASSUME MemoryInv, NEW u \in UserIds, DeleteUser(u)
    PROVE  MemoryInv'
<1> USE DEF MemoryInv
<1> DEFINE m == userEmail[u]
<1>1. u \in users /\ byID[u].email = m /\ m \in Email
  BY RowsHeld DEF DeleteUser
<1>2. /\ users' = users \ {u}
      /\ tokens' = {t \in tokens : tokenUser[t] # u}
      /\ UNCHANGED <<userEmail, userHash, userStatus,
                     tokenUser, tokenExpiry, tokenRevoked>>
  BY DEF DeleteUser, DeleteUserRow
<1>3. /\ byID' = [byID EXCEPT ![u] = Null]
      /\ byEmail' = [byEmail EXCEPT ![m] = Null]
      /\ UNCHANGED byHash
  BY <1>1 DEF DeleteUser, UserRepoDelete
<1>4. UNCHANGED <<clock, heldUser, heldToken>>
      /\ answers' = [pg |-> "nil", mem |-> "nil", user |-> u]
  BY DEF DeleteUser, held, Answer
<1>5. MapsTypeOK'
  BY <1>2, <1>3, <1>4 DEF MapsTypeOK, StoreTypeOK
<1>6. (\A v \in UserIds : v # u => byID'[v] = byID[v]) /\ byID'[u] = Null
  BY <1>3 DEF MapsTypeOK
<1>7. (\A n \in Email : n # m => byEmail'[n] = byEmail[n]) /\ byEmail'[m] = Null
  BY <1>1, <1>3 DEF MapsTypeOK
<1>8. \A v \in users : /\ userEmail[v] = m => v = u
                       /\ v \in UserIds /\ userEmail[v] \in Email
  <2>1. \A v \in users : byEmail[userEmail[v]] = byID[v] /\ byID[v].id = v
    BY RowsHeld DEF UsersAgree
  <2> QED BY <1>1, <2>1, RowsHeld DEF MapsTypeOK, StoreTypeOK
<1>9. UsersAgree'
  <2>1. \A v \in users' : (Registered(v) /\ byID[v] # Null)'
    BY <1>2, <1>6, <1>8 DEF Registered, UsersAgree
  <2>2. \A v \in UserIds : (byID[v] = UserRow(v))'
    BY <1>2, <1>6 DEF UserRow, UsersAgree
  <2>3. \A v \in users' : (byEmail[userEmail[v]] = byID[v])'
    BY <1>2, <1>6, <1>7, <1>8 DEF UsersAgree
  <2>4. ASSUME NEW n \in Email, byEmail'[n] # Null
        PROVE (byEmail[n].email = n /\ byID[byEmail[n].id] = byEmail[n])'
    <3>1. byEmail'[n] = byEmail[n] /\ n # m
      BY <1>7, <2>4
    <3>2. byEmail[n].id \in UserIds /\ byEmail[n].email = n
          /\ byID[byEmail[n].id] = byEmail[n]
      BY <2>4, <3>1 DEF MapsTypeOK, User, UsersAgree
    <3>3. byEmail[n].id # u
      BY <1>1, <3>1, <3>2
    <3> QED BY <1>6, <3>1, <3>2, <3>3
  <2> QED BY <2>1, <2>2, <2>3, <2>4 DEF UsersAgree
<1>10. TokensAgree'
  <2>1. \A t \in tokens' :
           (tokenUser[t] \in users /\ byHash[t] = TokenRow(t)
            /\ byHash[t] # Null)'
    BY <1>2, <1>3 DEF TokensAgree, TokenRow
  <2>2. \A t \in tokens : byHash[t].user = tokenUser[t]
    BY RowsHeld
  <2> QED BY <1>2, <1>3, <2>1, <2>2 DEF TokensAgree, Registered
<1>11. HeldOK' /\ WritesAgree'
  BY <1>2, <1>3, <1>4 DEF HeldOK, WritesAgree
<1> QED BY <1>5, <1>9, <1>10, <1>11

LEMMA CreateTokenPreserves ==
    ASSUME MemoryInv, NEW u \in UserIds \ FreshUsers, NEW t \in TokenIds,
           byHash[t] = Null, CreateToken(t, u)
    PROVE  MemoryInv'
<1> USE DEF MemoryInv
<1> DEFINE new == [id |-> t, user |-> u, expiry |-> clock + TTL,
                   revoked |-> Null]
<1>1. new \in RefreshToken /\ new # Null /\ clock + TTL \in Nat
  BY MemoryAssumption DEF RefreshToken, MapsTypeOK
<1>2. new.id = t /\ new.user = u /\ new.expiry = clock + TTL
      /\ new.revoked = Null
  OBVIOUS
<1>3. PICK pg \in Results, mem \in Results :
          PgTokenCreate(new, pg) /\ TokenRepoCreate(new, mem)
          /\ Answer(u, pg, mem)
  BY DEF CreateToken
<1>4. UNCHANGED <<clock, heldUser, heldToken>>
  BY DEF CreateToken, held
<1>5. t \notin tokens /\ Registered(u)
  BY DEF TokensAgree, FreshUsers, Registered
<1> HIDE DEF new
<1>6. /\ byHash' = [byHash EXCEPT ![t] = new]
      /\ UNCHANGED <<byID, byEmail>> /\ mem = "nil"
  BY <1>2, <1>3 DEF TokenRepoCreate
<1>7. (\A s \in TokenIds : s # t => byHash'[s] = byHash[s]) /\ byHash'[t] = new
  BY <1>6 DEF MapsTypeOK
<1>8. HeldOK'
  <2>1. UNCHANGED <<userEmail, userHash>>
    BY <1>3 DEF PgTokenCreate, InsertToken, userTable, database
  <2>2. heldToken # Null => heldToken.id \in TokenIds /\ heldToken.id # t
    BY DEF HeldOK, MapsTypeOK, RefreshToken
  <2> QED BY <1>4, <1>7, <2>1, <2>2 DEF HeldOK
<1>9. CASE u \notin users
  <2>1. UNCHANGED database
    BY <1>2, <1>3, <1>9 DEF PgTokenCreate
  <2>2. WritesAgree'
    BY <1>3, <1>5, <1>9, <2>1
       DEF WritesAgree, Answer, Deleted, Registered, database
  <2>3. MapsTypeOK'
    BY <1>1, <1>4, <1>6, <2>1 DEF MapsTypeOK, StoreTypeOK, database
  <2>4. UsersAgree'
    BY <1>6, <2>1 DEF UsersAgree, UserRow, Registered, database
  <2>5. TokensAgree'
    <3>1. \A s \in tokens' :
             (tokenUser[s] \in users /\ byHash[s] = TokenRow(s)
              /\ byHash[s] # Null)'
      BY <1>5, <1>7, <2>1 DEF TokensAgree, TokenRow, database, MapsTypeOK,
                              StoreTypeOK
    <3> QED BY <1>2, <1>5, <1>7, <1>9, <2>1, <3>1
            DEF TokensAgree, Registered, database
  <2> QED BY <1>8, <2>2, <2>3, <2>4, <2>5
<1>10. CASE u \in users
  <2>1. InsertToken(t, u, clock + TTL) /\ pg = "nil"
    BY <1>2, <1>3, <1>10 DEF PgTokenCreate
  <2>2. /\ tokens' = tokens \cup {t}
        /\ tokenUser' = [tokenUser EXCEPT ![t] = u]
        /\ tokenExpiry' = [tokenExpiry EXCEPT ![t] = clock + TTL]
        /\ tokenRevoked' = [tokenRevoked EXCEPT ![t] = Null]
        /\ UNCHANGED <<users, userEmail, userHash, userStatus>>
    BY <2>1 DEF InsertToken, userTable
  <2>3. MapsTypeOK'
    BY <1>1, <1>4, <1>6, <2>2 DEF MapsTypeOK, StoreTypeOK
  <2>4. UsersAgree'
    BY <1>6, <2>2 DEF UsersAgree, UserRow, Registered
  <2>5. TokensAgree'
    <3>1. ASSUME NEW s \in tokens'
          PROVE (tokenUser[s] \in users /\ byHash[s] = TokenRow(s)
                 /\ byHash[s] # Null)'
      <4>1. CASE s = t
        <5>1. tokenUser'[t] = u /\ tokenExpiry'[t] = clock + TTL
              /\ tokenRevoked'[t] = Null /\ t \in tokens'
          BY <2>2 DEF MapsTypeOK, StoreTypeOK
        <5>2. TokenRow(t)' = new
          BY <5>1 DEF TokenRow, new
        <5> QED BY <1>1, <1>7, <1>10, <2>2, <4>1, <5>1, <5>2
      <4>2. CASE s # t
        BY <1>7, <2>2, <4>2 DEF TokensAgree, TokenRow, MapsTypeOK, StoreTypeOK
      <4> QED BY <4>1, <4>2
    <3> QED BY <1>2, <1>5, <1>7, <2>2, <3>1 DEF TokensAgree, Registered
  <2>6. WritesAgree'
    BY <1>3, <1>6, <2>1 DEF WritesAgree, Answer
  <2> QED BY <1>8, <2>3, <2>4, <2>5, <2>6
<1> QED BY <1>9, <1>10

(* The fake finds every token that was ever read; Postgres misses one only *)
(* when its user is gone.                                                  *)
LEMMA RevokeHeldPreserves ==
    ASSUME MemoryInv, RevokeHeld
    PROVE  MemoryInv'
<1> USE DEF MemoryInv
<1> DEFINE row == [heldToken EXCEPT !.revoked = Revoke(@, clock)]
<1>1. heldToken \in RefreshToken /\ heldToken # Null
  BY DEF RevokeHeld, MapsTypeOK
<1>2. PICK t \in TokenIds, u \in UserIds, e \in Nat :
          t = heldToken.id /\ u = heldToken.user /\ e = heldToken.expiry
  BY <1>1 DEF RefreshToken
<1>3. PICK at \in Nat \cup {Null} : at = Revoke(heldToken.revoked, clock)
  BY <1>1 DEF RefreshToken, Revoke, MapsTypeOK
<1>4. row = [id |-> t, user |-> u, expiry |-> e, revoked |-> at]
  BY <1>1, <1>2, <1>3 DEF RefreshToken
<1>5. PICK pg \in Results, mem \in Results :
          PgTokenUpdate(row, pg) /\ TokenRepoUpdate(row, mem)
          /\ Answer(row.user, pg, mem)
  BY DEF RevokeHeld
<1>6. UNCHANGED <<clock, heldUser>> /\ heldToken' = Null
  BY DEF RevokeHeld
<1> HIDE DEF row
<1>7. /\ row \in RefreshToken /\ row # Null /\ row.id = t
      /\ row.user = u /\ row.revoked = at
  BY <1>4, MemoryAssumption DEF RefreshToken
<1>8. byHash[t] # Null /\ byHash[t].user = u /\ byHash[t].expiry = e
  BY <1>1, <1>2 DEF HeldOK
<1>9. /\ byHash' = [byHash EXCEPT ![t] = row]
      /\ UNCHANGED <<byID, byEmail>> /\ mem = "nil"
  BY <1>5, <1>7, <1>8 DEF TokenRepoUpdate
<1>10. (\A s \in TokenIds : s # t => byHash'[s] = byHash[s]) /\ byHash'[t] = row
  BY <1>9 DEF MapsTypeOK
<1>11. /\ UNCHANGED <<users, userEmail, userHash, userStatus,
                      tokens, tokenUser, tokenExpiry>>
       /\ tokenRevoked' = IF t \in tokens THEN [tokenRevoked EXCEPT ![t] = at]
                          ELSE tokenRevoked
       /\ pg = "nil" \/ t \notin tokens
  BY <1>5, <1>7 DEF PgTokenUpdate, UpdateToken, database, userTable
<1>12. MapsTypeOK'
  BY <1>6, <1>7, <1>9, <1>11 DEF MapsTypeOK, StoreTypeOK
<1>13. UsersAgree'
  BY <1>9, <1>11 DEF UsersAgree, UserRow, Registered
<1>14. TokensAgree'
  <2>1. ASSUME NEW s \in tokens'
        PROVE (tokenUser[s] \in users /\ byHash[s] = TokenRow(s)
               /\ byHash[s] # Null)'
    <3>1. CASE s = t
      <4>1. t \in tokens /\ tokenUser[t] = u /\ tokenExpiry[t] = e
        BY <1>8, <1>11, <2>1, <3>1, RowsHeld
      <4>2. tokenRevoked'[t] = at
        BY <1>11, <4>1 DEF MapsTypeOK, StoreTypeOK
      <4>3. TokenRow(t)' = row
        BY <1>4, <1>11, <4>1, <4>2 DEF TokenRow
      <4> QED BY <1>7, <1>10, <1>11, <3>1, <4>1, <4>3 DEF TokensAgree
    <3>2. CASE s # t
      <4>1. tokenRevoked'[s] = tokenRevoked[s] /\ s \in tokens /\ s \in TokenIds
        BY <1>11, <2>1, <3>2 DEF MapsTypeOK, StoreTypeOK
      <4> QED BY <1>10, <1>11, <3>2, <4>1 DEF TokensAgree, TokenRow
    <3> QED BY <3>1, <3>2
  <2> QED BY <1>7, <1>8, <1>10, <1>11, <2>1 DEF TokensAgree, Registered
<1>15. HeldOK'
  BY <1>6, <1>11 DEF HeldOK
<1>16. WritesAgree'
  <2>1. t \notin tokens => u \in Deleted'
    BY <1>8, <1>11 DEF TokensAgree, Registered, Deleted
  <2> QED BY <1>5, <1>7, <1>9, <1>11, <2>1 DEF WritesAgree, Answer
<1> QED BY <1>12, <1>13, <1>14, <1>15, <1>16

LEMMA RevokeAllPreserves ==
    ASSUME MemoryInv, NEW u \in UserIds, RevokeAll(u)
    PROVE  MemoryInv'
<1> USE DEF MemoryInv
<1>1. /\ tokenRevoked' = [t \in TokenIds |->
            IF t \in tokens /\ tokenUser[t] = u /\ tokenRevoked[t] = Null
            THEN clock ELSE tokenRevoked[t]]
      /\ UNCHANGED <<users, userEmail, userHash, userStatus,
                     tokens, tokenUser, tokenExpiry>>
  BY DEF RevokeAll, RevokeAllForUser, userTable
<1>2. /\ byHash' = [t \in TokenIds |->
            IF byHash[t] # Null /\ byHash[t].user = u
            THEN [byHash[t] EXCEPT !.revoked = Revoke(@, clock)]
            ELSE byHash[t]]
      /\ UNCHANGED <<byID, byEmail>>
  BY DEF RevokeAll, TokenRepoRevokeAllForUser
<1>3. UNCHANGED <<clock, heldUser, heldToken>>
      /\ answers' = [pg |-> "nil", mem |-> "nil", user |-> u]
  BY DEF RevokeAll, held, Answer
<1>4. ASSUME NEW t \in TokenIds, byHash[t] # Null
      PROVE  /\ byHash'[t] \in RefreshToken
             /\ byHash'[t] # Null
             /\ byHash'[t].id = byHash[t].id
             /\ byHash'[t].user = byHash[t].user
             /\ byHash'[t].expiry = byHash[t].expiry
             /\ byHash'[t].revoked =
                    IF byHash[t].user = u THEN Revoke(byHash[t].revoked, clock)
                    ELSE byHash[t].revoked
  <2>1. byHash[t] \in RefreshToken
    BY <1>4 DEF MapsTypeOK
  <2>2. Revoke(byHash[t].revoked, clock) \in Nat \cup {Null}
    BY <2>1 DEF RefreshToken, Revoke, MapsTypeOK
  <2>3. CASE byHash[t].user = u
    <3>1. byHash'[t] =
              [byHash[t] EXCEPT !.revoked = Revoke(byHash[t].revoked, clock)]
      BY <1>2, <1>4, <2>3
    <3>2. byHash'[t] \in RefreshToken
      BY <2>1, <2>2, <3>1 DEF RefreshToken
    <3> QED BY <2>1, <2>3, <3>1, <3>2, MemoryAssumption DEF RefreshToken
  <2>4. CASE byHash[t].user # u
    BY <1>2, <1>4, <2>1, <2>4
  <2> QED BY <2>3, <2>4
<1>5. \A t \in TokenIds : byHash[t] = Null => byHash'[t] = Null
  BY <1>2
<1>6. MapsTypeOK'
  <2>1. byHash' \in [TokenIds -> RefreshToken \cup {Null}]
    BY <1>2, <1>4, <1>5
  <2>2. tokenRevoked' \in [TokenIds -> Nat \cup {Null}]
    BY <1>1 DEF MapsTypeOK, StoreTypeOK
  <2> QED BY <1>1, <1>2, <1>3, <2>1, <2>2 DEF MapsTypeOK, StoreTypeOK
<1>7. UsersAgree'
  BY <1>1, <1>2 DEF UsersAgree, UserRow, Registered
<1>8. TokensAgree'
  <2>1. ASSUME NEW t \in tokens'
        PROVE (tokenUser[t] \in users /\ byHash[t] = TokenRow(t)
               /\ byHash[t] # Null)'
    <3>1. t \in tokens /\ t \in TokenIds /\ tokenUser[t] \in users
          /\ byHash[t] # Null /\ byHash[t].id = t
      BY <1>1, <2>1 DEF TokensAgree, MapsTypeOK, StoreTypeOK
    <3>2. /\ byHash[t].user = tokenUser[t] /\ byHash[t].expiry = tokenExpiry[t]
          /\ byHash[t].revoked = tokenRevoked[t]
      BY <3>1, RowsHeld
    <3>3. byHash'[t].revoked = tokenRevoked'[t]
      BY <1>1, <1>4, <3>1, <3>2 DEF Revoke
    <3>4. byHash'[t] = [id |-> t, user |-> tokenUser[t],
                        expiry |-> tokenExpiry[t], revoked |-> tokenRevoked'[t]]
      <4>1. /\ byHash'[t] \in RefreshToken /\ byHash'[t].id = t
            /\ byHash'[t].user = tokenUser[t]
            /\ byHash'[t].expiry = tokenExpiry[t]
        BY <1>4, <3>1, <3>2
      <4> QED BY <3>3, <4>1 DEF RefreshToken
    <3>5. byHash'[t] # Null
      BY <1>4, <3>1
    <3> QED BY <1>1, <3>1, <3>4, <3>5 DEF TokenRow
  <2>2. ASSUME NEW t \in TokenIds, byHash'[t] # Null
        PROVE (/\ byHash[t].id = t
               /\ Registered(byHash[t].user)
               /\ byHash[t].user \in users => t \in tokens)'
    <3>1. byHash[t] # Null
      BY <1>5, <2>2
    <3> QED BY <1>1, <1>4, <3>1 DEF TokensAgree, Registered
  <2> QED BY <2>1, <2>2 DEF TokensAgree
<1>9. HeldOK'
  <2>1. heldToken # Null => heldToken.id \in TokenIds
    BY DEF MapsTypeOK, RefreshToken
  <2> QED BY <1>1, <1>3, <1>4, <2>1 DEF HeldOK
<1>10. WritesAgree'
  BY <1>3 DEF WritesAgree
<1> QED BY <1>6, <1>7, <1>8, <1>9, <1>10

(* A read copies what the map holds.                                       *)
LEMMA ReadPreserves ==
    ASSUME MemoryInv,
           \/ \E u \in UserIds : ReadUser(u)
           \/ \E t \in TokenIds : ReadToken(t)
    PROVE  MemoryInv'
<1> USE DEF MemoryInv
<1>1. UNCHANGED <<database, clock, memory, answers>>
  BY DEF ReadUser, ReadToken
<1>2. heldUser' \in User \cup {Null} /\ heldToken' \in RefreshToken \cup {Null}
  BY DEF ReadUser, ReadToken, MapsTypeOK
<1>3. MapsTypeOK' /\ UsersAgree' /\ TokensAgree' /\ WritesAgree'
  BY <1>1, <1>2 DEF MapsTypeOK, StoreTypeOK, UsersAgree, TokensAgree,
     WritesAgree, UserRow, TokenRow, Registered, Deleted, database, memory
<1>4. ASSUME NEW u \in UserIds, ReadUser(u) PROVE HeldOK'
  <2>1. u \in users /\ heldUser' = byID[u] /\ UNCHANGED heldToken
    BY <1>4, RowsHeld DEF ReadUser
  <2> QED BY <1>1, <2>1, RowsHeld DEF HeldOK, database, memory
<1>5. ASSUME NEW t \in TokenIds, ReadToken(t) PROVE HeldOK'
  <2>1. byHash[t] # Null /\ byHash[t].id = t /\ heldToken' = byHash[t]
        /\ UNCHANGED heldUser
    BY <1>5 DEF ReadToken, TokensAgree
  <2> QED BY <1>1, <2>1 DEF HeldOK, database, memory
<1> QED BY <1>3, <1>4, <1>5

LEMMA MemoryStep == MemoryInv /\ [MemoryNext]_memoryVars => MemoryInv'
<1> SUFFICES ASSUME MemoryInv, [MemoryNext]_memoryVars PROVE MemoryInv'
  OBVIOUS
<1>1. ASSUME NEW u \in FreshUsers, NEW m \in Email, NEW p \in Passwords,
             CreateUser(u, m, p)
      PROVE  MemoryInv'
  BY <1>1, CreateUserPreserves
<1>2. ASSUME NEW u \in UserIds \ FreshUsers,
             \/ ReadUser(u) \/ DeleteUser(u) \/ RevokeAll(u)
             \/ \E t \in TokenIds : byHash[t] = Null /\ CreateToken(t, u)
      PROVE  MemoryInv'
  <2>1. CASE ReadUser(u)
    BY <2>1, ReadPreserves
  <2>2. CASE DeleteUser(u)
    BY <2>2, DeleteUserPreserves
  <2>3. CASE RevokeAll(u)
    BY <2>3, RevokeAllPreserves
  <2>4. CASE \E t \in TokenIds : byHash[t] = Null /\ CreateToken(t, u)
    BY <2>4, CreateTokenPreserves
  <2> QED BY <1>2, <2>1, <2>2, <2>3, <2>4
<1>3. CASE \E t \in TokenIds : ReadToken(t)
  BY <1>3, ReadPreserves
<1>4. CASE SuspendHeld
  BY <1>4, SuspendHeldPreserves
<1>5. CASE RevokeHeld
  BY <1>5, RevokeHeldPreserves
<1>6. CASE FailingCall
  BY <1>6 DEF FailingCall, Answer, MemoryInv, MapsTypeOK, StoreTypeOK,
     UsersAgree, TokensAgree, HeldOK, WritesAgree, UserRow, TokenRow,
     Registered, Deleted, database, memory, held
<1>7. CASE Advance
  BY <1>7 DEF Advance, MemoryInv, MapsTypeOK, StoreTypeOK,
     UsersAgree, TokensAgree, HeldOK, WritesAgree, UserRow, TokenRow,
     Registered, Deleted, database, memory, held
<1>8. CASE UNCHANGED memoryVars
  BY <1>8 DEF memoryVars, MemoryInv, MapsTypeOK, StoreTypeOK,
     UsersAgree, TokensAgree, HeldOK, WritesAgree, UserRow, TokenRow,
     Registered, Deleted, database, memory, held
<1> QED BY <1>1, <1>2, <1>3, <1>4, <1>5, <1>6, <1>7, <1>8 DEF MemoryNext

-----------------------------------------------------------------------------
(* The theorems.                                                           *)

(* The invariant of the two stores side by side, for any number of users,  *)
(* tokens and calls.                                                       *)
THEOREM MemoryInvariance == MemorySpec => []MemoryInv
<1>1. MemoryInit => MemoryInv
  BY DEF MemoryInit, StoreInit, MemoryInv, MapsTypeOK, StoreTypeOK,
     UsersAgree, TokensAgree, HeldOK, WritesAgree, UserRow
<1> QED BY <1>1, MemoryStep, PTL DEF MemorySpec

(* UserRepo's maps stay well typed and index the same users, whichever     *)
(* structs are written back to it, and Delete removes both entries.        *)
THEOREM FakesTypeCorrectness == MemorySpec => []MemoryTypeOK
<1>1. MemoryInv => MemoryTypeOK
  <2> SUFFICES ASSUME MemoryInv PROVE MemoryTypeOK
    OBVIOUS
  <2> USE DEF MemoryInv
  <2>1. \A u \in UserIds : byID[u] # Null =>
            byID[u].id = u /\ byEmail[byID[u].email] = byID[u]
    BY RowsHeld DEF UsersAgree
  <2> QED BY <2>1 DEF MemoryTypeOK, MapsTypeOK, UsersAgree, TokensAgree
<1> QED BY <1>1, MemoryInvariance, PTL

(* FindByID, FindByEmail, FindByHash and ActiveCount of the fakes return   *)
(* what the Postgres queries return, but for tokens of deleted users.      *)
THEOREM FakesReadAlike == MemorySpec => []ReadsAgree
<1>1. MemoryInv => ReadsAgree
  <2> SUFFICES ASSUME MemoryInv PROVE ReadsAgree
    OBVIOUS
  <2> USE DEF MemoryInv
  <2>1. \A u \in UserIds : byID[u] = UserRow(u)
    BY DEF UsersAgree
  <2>2. \A m \in Email : IF byEmail[m] = Null THEN UsersWithEmail(m) = {}
                         ELSE UsersWithEmail(m) = {byEmail[m].id}
    BY EmailIndexed
  <2>3. \A t \in TokenIds : byHash[t] = Null \/ byHash[t].user \notin Deleted =>
            byHash[t] = TokenRow(t)
    <3> TAKE t \in TokenIds
    <3>1. CASE byHash[t] = Null
      BY <3>1 DEF TokensAgree, TokenRow
    <3>2. CASE byHash[t] # Null /\ byHash[t].user \notin Deleted
      <4>1. byHash[t].user \in UserIds
        BY <3>2 DEF MapsTypeOK, RefreshToken
      <4> QED BY <3>2, <4>1 DEF TokensAgree, Deleted, Registered
    <3> QED BY <3>1, <3>2
  <2>4. ASSUME NEW u \in users
        PROVE  {t \in TokenIds :
                   /\ byHash[t] # Null /\ byHash[t].user = u
                   /\ Validate(byHash[t].revoked, byHash[t].expiry, clock)
                          = "nil"}
               = {t \in tokens :
                   tokenUser[t] = u /\ Live(t) /\ clock < tokenExpiry[t]}
    <3>1. \A t \in TokenIds :
              byHash[t] # Null /\ byHash[t].user = u <=>
              t \in tokens /\ tokenUser[t] = u
      BY RowsHeld DEF TokensAgree
    <3>2. \A t \in tokens :
              (Validate(byHash[t].revoked, byHash[t].expiry, clock) = "nil")
              <=> (Live(t) /\ clock < tokenExpiry[t])
      BY RowsHeld DEF Validate, Live
    <3>3. tokens \subseteq TokenIds
      BY DEF MapsTypeOK, StoreTypeOK
    <3> QED BY <3>1, <3>2, <3>3
  <2> QED BY <2>1, <2>2, <2>3, <2>4 DEF ReadsAgree, ActiveCount
<1> QED BY <1>1, MemoryInvariance, PTL

(* Create and Update of the fakes return the errors that the Postgres      *)
(* statements return, unless the call is about a deleted user.             *)
THEOREM FakesAnswerAlike == MemorySpec => []WritesAgree
<1>1. MemoryInv => WritesAgree
  BY DEF MemoryInv
<1> QED BY <1>1, MemoryInvariance, PTL

=============================================================================
