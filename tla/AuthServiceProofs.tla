------------------------- MODULE AuthServiceProofs -------------------------
(***************************************************************************)
(* Theorems about AuthService for every set of users, tokens and requests, *)
(* every TTL and every combination of faults.                              *)
(*                                                                         *)
(* A step changes the tables by at most one statement (NextIsStatement).   *)
(* Statements keep the constraints of the tables (StatementKeepsRows) and  *)
(* only let them evolve one way (StatementEvolves): ids are never reused,  *)
(* dead tokens stay dead, suspended users stay suspended.  What a request  *)
(* has read therefore stays true while others run (BystanderStep), and it  *)
(* remains to look at the request's own calls, one by one.                 *)
(***************************************************************************)
EXTENDS AuthServiceInvariant, TLAPS

USE NullAssumption

-----------------------------------------------------------------------------
(* The statements.                                                         *)

Statement ==
    \/ UNCHANGED database
    \/ \E u \in FreshUsers, m \in Email, h \in PasswordHash : InsertUser(u, m, h)
    \/ \E t \in FreshTokens, u \in users, e \in Nat : InsertToken(t, u, e)
    \/ \E t \in tokens, at \in Nat : UpdateToken(t, at)
    \/ \E u \in UserIds, at \in Nat : RevokeAllForUser(u, at)
    \/ \E u \in users : UpdateUser(u, "suspended")
    \/ \E u \in users : DeleteUserRow(u)

(* How the tables may change: nothing is rewritten, nothing revives.       *)
Evolves ==
    /\ \A t \in TokenIds : Stored(t) =>
          /\ tokenUser'[t] = tokenUser[t]
          /\ tokenExpiry'[t] = tokenExpiry[t]
          /\ ~ Live(t) => ~ Live(t)'
    /\ \A u \in UserIds : Registered(u) =>
          /\ userEmail'[u] = userEmail[u]
          /\ userStatus[u] = "suspended" => userStatus'[u] = "suspended"

(* Hash yields a well-formed hash.                                         *)
LEMMA HashType ==
    ASSUME NEW p \in Passwords, NEW u \in UserIds
    PROVE  Hash(p, u) \in PasswordHash
BY DEF Hash, IDKey, PasswordHash

(* Every step of the service changes the tables by at most one statement.  *)
LEMMA NextIsStatement ==
    ASSUME TypeOK, \A r \in Requests : RequestOK(r), RowsOK,
           [Next]_vars
    PROVE  Statement
<1> USE DEF TypeOK, StoreTypeOK
<1>1. CASE UNCHANGED vars
  BY <1>1 DEF vars, Statement, database
<1>2. CASE Crash
  BY <1>2 DEF Crash, Forget, Statement
<1>3. CASE Tick
  BY <1>3 DEF Tick, Statement
<1>4. ASSUME NEW u \in UserIds, DeleteUser(u) PROVE Statement
  BY <1>4 DEF DeleteUser, Statement
<1>5. ASSUME NEW r \in Requests, Arrive(r) PROVE Statement
  BY <1>5 DEF Arrive, Register, Login, Refresh, Logout, Suspend, Start, Statement
<1>6. ASSUME NEW r \in Requests, CallFails(r) \/ Deliver(r) \/ Drop(r)
      PROVE  Statement
  BY <1>6 DEF CallFails, Deliver, Drop, Forget, Statement
<1>7. ASSUME NEW r \in Requests, Handle(r) PROVE Statement
  <2>1. CASE UsersCreate(r)
    <3>1. CASE UNCHANGED database
      BY <3>1 DEF Statement
    <3>2. CASE \E u \in FreshUsers : InsertUser(u, mail[r], Hash(pass[r], u))
      <4>1. PICK u \in FreshUsers : InsertUser(u, mail[r], Hash(pass[r], u))
        BY <3>2
      <4>2. mail[r] \in Email /\ pass[r] \in Passwords /\ u \in UserIds
        BY <2>1 DEF UsersCreate, RequestOK, ArgumentsOK, FreshUsers
      <4>3. Hash(pass[r], u) \in PasswordHash
        BY <4>2, HashType
      <4> QED BY <4>1, <4>2, <4>3 DEF Statement
    <3> QED BY <2>1, <3>1, <3>2 DEF UsersCreate
  <2>2. CASE StartSession(r)
    <3>1. now[r] + RefreshTokenTTL \in Nat
      BY ServiceAssumption
    <3> QED BY <2>2, <3>1 DEF StartSession, Statement
  <2>3. CASE FindByEmail(r) \/ RefreshFindByHash(r) \/ RefreshFindByID(r)
               \/ LogoutFindByHash(r) \/ SuspendFindByID(r)
    BY <2>3 DEF FindByEmail, RefreshFindByHash, RefreshFindByID,
                LogoutFindByHash, SuspendFindByID, Statement
  <2>4. CASE RevokeAll(r)
    <3>1. user[r] \in UserIds
      BY <2>4 DEF RevokeAll, RequestOK, PhaseOK, ArgumentsOK, OwnerOK, Stored
    <3> QED BY <2>4, <3>1 DEF RevokeAll, Statement
  <2>5. CASE TokensUpdate(r)
    BY <2>5 DEF TokensUpdate, Revoke, Statement
  <2>6. CASE UsersUpdate(r)
    BY <2>6 DEF UsersUpdate, Statement
  <2> QED BY <1>7, <2>1, <2>2, <2>3, <2>4, <2>5, <2>6 DEF Handle
<1> QED BY <1>1, <1>2, <1>3, <1>4, <1>5, <1>6, <1>7 DEF Next

(* A statement keeps the types and the constraints of the tables.          *)
LEMMA StatementKeepsRows ==
    ASSUME StoreTypeOK, RowsOK, Statement
    PROVE  StoreTypeOK' /\ RowsOK'
<1> USE DEF StoreTypeOK, RowsOK, Stored, Registered, UserStatus
<1>1. CASE UNCHANGED database
  BY <1>1 DEF database
<1>2. ASSUME NEW u \in FreshUsers, NEW m \in Email, NEW h \in PasswordHash,
             InsertUser(u, m, h)
      PROVE  StoreTypeOK' /\ RowsOK'
  BY <1>2 DEF InsertUser, FreshUsers, tokenTable
<1>3. ASSUME NEW t \in FreshTokens, NEW u \in users, NEW e \in Nat,
             InsertToken(t, u, e)
      PROVE  StoreTypeOK' /\ RowsOK'
  BY <1>3 DEF InsertToken, FreshTokens, userTable
<1>4. ASSUME NEW t \in tokens, NEW at \in Nat, UpdateToken(t, at)
      PROVE  StoreTypeOK' /\ RowsOK'
  BY <1>4 DEF UpdateToken, userTable
<1>5. ASSUME NEW u \in UserIds, NEW at \in Nat, RevokeAllForUser(u, at)
      PROVE  StoreTypeOK' /\ RowsOK'
  BY <1>5 DEF RevokeAllForUser, userTable
<1>6. ASSUME NEW u \in users, UpdateUser(u, "suspended")
      PROVE  StoreTypeOK' /\ RowsOK'
  BY <1>6 DEF UpdateUser, tokenTable
<1>7. ASSUME NEW u \in users, DeleteUserRow(u)
      PROVE  StoreTypeOK' /\ RowsOK'
  BY <1>7 DEF DeleteUserRow
<1> QED BY <1>1, <1>2, <1>3, <1>4, <1>5, <1>6, <1>7 DEF Statement

(* A statement revives no token, reassigns none, and pardons no user.      *)
LEMMA StatementEvolves ==
    ASSUME StoreTypeOK, RowsOK, Statement
    PROVE  Evolves
<1> USE DEF StoreTypeOK, RowsOK, Stored, Registered, Live, Evolves
<1>1. CASE UNCHANGED database
  BY <1>1 DEF database
<1>2. ASSUME NEW u \in FreshUsers, NEW m \in Email, NEW h \in PasswordHash,
             InsertUser(u, m, h)
      PROVE  Evolves
  BY <1>2 DEF InsertUser, FreshUsers, tokenTable
<1>3. ASSUME NEW t \in FreshTokens, NEW u \in users, NEW e \in Nat,
             InsertToken(t, u, e)
      PROVE  Evolves
  BY <1>3 DEF InsertToken, FreshTokens, userTable
<1>4. ASSUME NEW t \in tokens, NEW at \in Nat, UpdateToken(t, at)
      PROVE  Evolves
  BY <1>4 DEF UpdateToken, userTable
<1>5. ASSUME NEW u \in UserIds, NEW at \in Nat, RevokeAllForUser(u, at)
      PROVE  Evolves
  BY <1>5 DEF RevokeAllForUser, userTable
<1>6. ASSUME NEW u \in users, UpdateUser(u, "suspended")
      PROVE  Evolves
  BY <1>6 DEF UpdateUser, tokenTable
<1>7. ASSUME NEW u \in users, DeleteUserRow(u)
      PROVE  Evolves
  BY <1>7 DEF DeleteUserRow
<1> QED BY <1>1, <1>2, <1>3, <1>4, <1>5, <1>6, <1>7 DEF Statement

-----------------------------------------------------------------------------
(* Types of the locals.                                                    *)

(* A request that arrives keeps the types.                                 *)
LEMMA StartKeepsTypes ==
    ASSUME TypeOK, NEW r \in Requests, NEW o \in Ops,
           NEW t \in TokenIds \cup {Null}, NEW u \in UserIds \cup {Null},
           NEW m \in Email \cup {Null}, NEW p \in Passwords \cup {Null},
           NEW err \in Errors \cup {"nil"}, NEW call \in Calls,
           Start(r, o, t, u, m, p, err, call)
    PROVE  TypeOK'
<1>1. StoreTypeOK'
  BY DEF TypeOK, StoreTypeOK, Start, database
<1>2. dead' \in [Requests -> BOOLEAN]
  BY DEF TypeOK, Start
<1>3. shut' \in [Requests -> SUBSET UserIds]
  BY DEF TypeOK, StoreTypeOK, Start, Suspended
<1>4. known' \in [Requests -> SUBSET TokenIds]
  BY DEF TypeOK, StoreTypeOK, Start, TokensOf
<1> QED BY <1>1, <1>2, <1>3, <1>4 DEF TypeOK, Start

(* The domain's checks return the errors the handlers may return.          *)
LEMMA ErrorTypes ==
    /\ \A raw \in RawEmail, p \in Passwords :
          NewUserError(raw, p) \in Errors \cup {"nil"}
    /\ \A p, h, s : Authenticate(p, h, s) \in Errors \cup {"nil"}
BY PasswordLengthAssumption
   DEF NewUserError, validatePassword, Authenticate, Errors

(* A valid e-mail is normalised to a bare address.                         *)
LEMMA NormalizedType ==
    ASSUME NEW raw \in RawEmail, IsValidEmail(raw)
    PROVE  NormalizeEmail(raw) \in Email
BY DEF RawEmail, Email, NormalizeEmail, IsValidEmail, TrimLower

(* Blanking request slots keeps the types.                                 *)
LEMMA ForgetKeepsTypes ==
    ASSUME TypeOK, NEW rs \in SUBSET Requests, Forget(rs),
           handedOut' \in SUBSET TokenIds
    PROVE  TypeOK'
<1>1. StoreTypeOK'
  BY DEF TypeOK, StoreTypeOK, Forget, database
<1>2. dead' \in [Requests -> BOOLEAN]
  BY DEF TypeOK, Forget, Blank
<1> QED BY <1>1, <1>2 DEF TypeOK, Forget, Blank, Ops

(* Every step keeps the types.                                             *)
LEMMA TypeStep ==
    ASSUME TypeOK, RowsOK, [Next]_vars,
           \A r \in Requests : RequestOK(r)
    PROVE  TypeOK'
<1>0. StoreTypeOK'
  BY NextIsStatement, StatementKeepsRows DEF TypeOK
<1>1. CASE UNCHANGED vars
  BY <1>0, <1>1 DEF TypeOK, vars, locals, history
<1>2. CASE Crash
  BY <1>2, ForgetKeepsTypes DEF Crash, TypeOK
<1>3. CASE Tick
  BY <1>0, <1>3 DEF Tick, TypeOK, locals, history
<1>4. ASSUME NEW u \in UserIds, DeleteUser(u) PROVE TypeOK'
  BY <1>0, <1>4 DEF DeleteUser, TypeOK, locals, history
<1>5. ASSUME NEW r \in Requests, Arrive(r) PROVE TypeOK'
  <2>1. ASSUME NEW raw \in RawEmails, NEW p \in Passwords, Register(r, raw, p)
        PROVE  TypeOK'
    <3> DEFINE err == NewUserError(raw, p)
               m == IF err = "nil" THEN NormalizeEmail(raw) ELSE Null
    <3>1. raw \in RawEmail
      BY ServiceAssumption
    <3>2. err \in Errors \cup {"nil"}
      BY <3>1, ErrorTypes
    <3>3. err = "nil" => IsValidEmail(raw)
      BY DEF NewUserError
    <3>4. m \in Email \cup {Null}
      BY <3>1, <3>3, NormalizedType
    <3>5. Start(r, "Register", Null, Null, m, p, err, "users.Create")
      BY <2>1 DEF Register
    <3> HIDE DEF err, m
    <3> QED BY <3>2, <3>4, <3>5, StartKeepsTypes DEF Ops, Calls
  <2>2. ASSUME NEW raw \in RawEmails, NEW p \in Passwords, Login(r, raw, p)
        PROVE  TypeOK'
    <3> DEFINE err == IF IsValidEmail(raw) THEN "nil"
                      ELSE "ErrInvalidCredentials"
               m == IF IsValidEmail(raw) THEN NormalizeEmail(raw) ELSE Null
    <3>1. raw \in RawEmail
      BY ServiceAssumption
    <3>2. err \in Errors \cup {"nil"}
      BY DEF Errors
    <3>3. m \in Email \cup {Null}
      BY <3>1, NormalizedType
    <3>4. Start(r, "Login", Null, Null, m, p, err, "users.FindByEmail")
      BY <2>2 DEF Login
    <3> HIDE DEF err, m
    <3> QED BY <3>2, <3>3, <3>4, StartKeepsTypes DEF Ops, Calls
  <2>3. ASSUME NEW t \in handedOut \cup {Null}, Refresh(r, t) \/ Logout(r, t)
        PROVE  TypeOK'
    BY <2>3, StartKeepsTypes DEF Refresh, Logout, TypeOK, Ops, Calls
  <2>4. ASSUME NEW u \in UserIds \ FreshUsers, Suspend(r, u) PROVE TypeOK'
    BY <2>4, StartKeepsTypes DEF Suspend, Ops, Calls
  <2> QED BY <1>5, <2>1, <2>2, <2>3, <2>4 DEF Arrive
<1>6. ASSUME NEW r \in Requests, Deliver(r) \/ Drop(r) PROVE TypeOK'
  BY <1>6, ForgetKeepsTypes DEF Deliver, Drop, TypeOK
<1>7. ASSUME NEW r \in Requests, CallFails(r) \/ Handle(r) PROVE TypeOK'
  <2> DEFINE Typed == /\ pc' \in [Requests -> Calls \cup {"idle", "done"}]
                      /\ result' \in [Requests -> Errors \cup {"nil"}]
                      /\ user' \in [Requests -> UserIds \cup {Null}]
                      /\ issued' \in [Requests -> TokenIds \cup {Null}]
                      /\ parent' \in [TokenIds -> TokenIds \cup {Null}]
                      /\ UNCHANGED <<arguments, dead, shut, known>>
  <2>0. ASSUME Typed PROVE TypeOK'
    BY <1>0, <2>0 DEF TypeOK, arguments
  <2> USE DEF TypeOK, StoreTypeOK, history, Return, Goto, Lost, Calls, Errors
  <2>1. CASE CallFails(r)
    <3>1. Typed BY <2>1 DEF CallFails
    <3> QED BY <3>1, <2>0
  <2>2. CASE UsersCreate(r)
    <3>1. user' \in [Requests -> UserIds \cup {Null}]
      BY <2>2 DEF UsersCreate, FreshUsers
    <3>2. Typed BY <2>2, <3>1 DEF UsersCreate
    <3> QED BY <3>2, <2>0
  <2>3. CASE StartSession(r)
    <3>1. parent' \in [TokenIds -> TokenIds \cup {Null}]
      BY <2>3 DEF StartSession, FreshTokens
    <3>2. issued' \in [Requests -> TokenIds \cup {Null}]
      BY <2>3 DEF StartSession, FreshTokens
    <3>3. Typed BY <2>3, <3>1, <3>2 DEF StartSession
    <3> QED BY <3>3, <2>0
  <2>4. CASE FindByEmail(r)
    <3>1. user' \in [Requests -> UserIds \cup {Null}]
      BY <2>4 DEF FindByEmail, UsersWithEmail
    <3>2. Typed BY <2>4, <3>1, ErrorTypes DEF FindByEmail
    <3> QED BY <3>2, <2>0
  <2>5. CASE RefreshFindByHash(r)
    <3>1. user' \in [Requests -> UserIds \cup {Null}]
      BY <2>5 DEF RefreshFindByHash
    <3>2. Typed BY <2>5, <3>1 DEF RefreshFindByHash
    <3> QED BY <3>2, <2>0
  <2>6. CASE RevokeAll(r)
    <3>1. Typed BY <2>6 DEF RevokeAll
    <3> QED BY <3>1, <2>0
  <2>7. CASE RefreshFindByID(r)
    <3>1. Typed BY <2>7 DEF RefreshFindByID
    <3> QED BY <3>1, <2>0
  <2>8. CASE TokensUpdate(r)
    <3>1. Typed BY <2>8 DEF TokensUpdate
    <3> QED BY <3>1, <2>0
  <2>9. CASE LogoutFindByHash(r)
    <3>1. Typed BY <2>9 DEF LogoutFindByHash
    <3> QED BY <3>1, <2>0
  <2>10. CASE SuspendFindByID(r)
    <3>1. Typed BY <2>10 DEF SuspendFindByID
    <3> QED BY <3>1, <2>0
  <2>11. CASE UsersUpdate(r)
    <3>1. Typed BY <2>11 DEF UsersUpdate
    <3> QED BY <3>1, <2>0
  <2> QED BY <1>7, <2>1, <2>2, <2>3, <2>4, <2>5, <2>6, <2>7, <2>8, <2>9,
             <2>10, <2>11 DEF Handle
<1> QED BY <1>1, <1>2, <1>3, <1>4, <1>5, <1>6, <1>7 DEF Next

-----------------------------------------------------------------------------
(* Requests.                                                               *)

SameLocals(r) ==
    /\ op'[r] = op[r] /\ pc'[r] = pc[r] /\ now'[r] = now[r]
    /\ token'[r] = token[r] /\ mail'[r] = mail[r] /\ pass'[r] = pass[r]
    /\ user'[r] = user[r] /\ result'[r] = result[r] /\ issued'[r] = issued[r]
    /\ dead'[r] = dead[r] /\ shut'[r] = shut[r] /\ known'[r] = known[r]

(* What a request relies on survives every step of the others.             *)
LEMMA BystanderStep ==
    ASSUME TypeOK, RowsOK, NEW r \in Requests, RequestOK(r),
           StoreTypeOK', Evolves, SameLocals(r)
    PROVE  RequestOK(r)'
<1> USE DEF RequestOK, SameLocals
<1>1. token[r] # Null => /\ token[r] \in TokenIds /\ Stored(token[r])
                         /\ tokenUser'[token[r]] = tokenUser[token[r]]
                         /\ tokenExpiry'[token[r]] = tokenExpiry[token[r]]
                         /\ ~ Live(token[r]) => ~ Live(token[r])'
  BY DEF TypeOK, ArgumentsOK, Evolves
<1>2. ArgumentsOK(r)'
  BY <1>1 DEF TypeOK, ArgumentsOK, Evolves, Stored
<1>3. PhaseOK(r)' /\ OwnerOK(r)'
  BY <1>1 DEF PhaseOK, OwnerOK
<1>4. RotationOK(r)'
  BY <1>1 DEF RotationOK, OwnerOK, Live
<1>5. DeadOK(r)'
  <2>1. SUFFICES ASSUME op[r] = "Refresh", dead[r] PROVE DeadOK(r)'
    BY DEF DeadOK
  <2>2. token[r] # Null => /\ tokenUser[token[r]] \in UserIds
                           /\ Registered(tokenUser[token[r]])
    BY <1>1 DEF TypeOK, StoreTypeOK, RowsOK, Stored
  <2>3. token[r] # Null /\ userStatus[tokenUser[token[r]]] = "suspended" =>
            userStatus'[tokenUser[token[r]]] = "suspended"
    BY <2>2 DEF Evolves
  <2>4. pc[r] = "users.FindByID" => user[r] = tokenUser[token[r]]
                                      /\ token[r] # Null
    BY <2>1 DEF OwnerOK
  <2> QED BY <1>1, <2>1, <2>3, <2>4 DEF DeadOK, Live
<1>6. ShutOK(r)'
  BY DEF ShutOK, TypeOK, Evolves, Registered
<1>7. KnownOK(r)'
  <2>1. \A t \in known[r] :
            /\ t \in TokenIds /\ Stored(t)
            /\ tokenUser'[t] = tokenUser[t]
            /\ ~ Live(t) => ~ Live(t)'
    BY <1>1 DEF TypeOK, KnownOK, Evolves, Stored
  <2> QED BY <1>1, <2>1 DEF KnownOK, Live
<1>8. LogoutOK(r)'
  <2>1. token[r] = Null => ~ Live(token[r])'
    BY DEF StoreTypeOK, Live
  <2> QED BY <1>1, <2>1 DEF LogoutOK, Live
<1> QED BY <1>2, <1>3, <1>4, <1>5, <1>6, <1>7, <1>8

(* A request is in order when it starts.                                   *)
LEMMA StartStep ==
    ASSUME TypeOK, RowsOK, NEW r \in Requests, RequestOK(r), NEW o \in Ops,
           NEW t \in TokenIds \cup {Null},
           t # Null => Stored(t) /\ o \in {"Refresh", "Logout"},
           NEW u, NEW m, NEW p,
           NEW err, err # "ErrRefreshTokenRevoked", o = "Logout" => err = "nil",
           NEW call \in {"users.Create", "users.FindByEmail",
                         "users.FindByID", "tokens.FindByHash"},
           call = "users.Create" /\ err = "nil" => m \in Email /\ p \in Passwords,
           call = "users.Create" => o = "Register",
           call = "users.FindByEmail" => o = "Login",
           call = "users.FindByID" => o = "Suspend",
           Start(r, o, t, u, m, p, err, call)
    PROVE  RequestOK(r)'
<1> USE DEF TypeOK
<1>1. /\ op'[r] = o /\ pc'[r] \in {call, "done"} /\ now'[r] = clock
      /\ token'[r] = t /\ mail'[r] = m /\ pass'[r] = p /\ user'[r] = u
      /\ result'[r] = err /\ issued'[r] = Null
      /\ pc'[r] = "done" <=> err # "nil"
      /\ dead'[r] = (o = "Refresh" /\ ~ Usable(t))
      /\ shut'[r] = IF o \in {"Login", "Refresh"} THEN Suspended ELSE {}
      /\ known'[r] = IF o = "Refresh" /\ t # Null
                     THEN TokensOf(tokenUser[t]) ELSE {}
  BY DEF Start, RequestOK, ArgumentsOK
<1>2. UNCHANGED database
  BY DEF Start
<1>3. ArgumentsOK(r)'
  BY <1>1, <1>2 DEF ArgumentsOK, Stored, database
<1>4. PhaseOK(r)' /\ OwnerOK(r)' /\ RotationOK(r)' /\ LogoutOK(r)'
  BY <1>1 DEF PhaseOK, OwnerOK, RotationOK, LogoutOK
<1>5. DeadOK(r)'
  <2>1. t # Null /\ ~ Usable(t) => \/ ~ Live(t)
                                   \/ ~ (clock < tokenExpiry[t])
                                   \/ userStatus[tokenUser[t]] = "suspended"
    BY DEF Usable, Live, RowsOK, UserStatus
  <2> QED BY <1>1, <1>2, <2>1 DEF DeadOK, Live, database
<1>6. ShutOK(r)'
  BY <1>1, <1>2 DEF ShutOK, Suspended, RowsOK, Registered, database
<1>7. KnownOK(r)'
  BY <1>1, <1>2 DEF KnownOK, TokensOf, database
<1> QED BY <1>3, <1>4, <1>5, <1>6, <1>7 DEF RequestOK

(* A request that arrives is in order after its first step.                *)
LEMMA ArriveStep ==
    ASSUME TypeOK, RowsOK, HandedOutOK, NEW r \in Requests, RequestOK(r), Arrive(r)
    PROVE  RequestOK(r)'
<1>1. ASSUME NEW raw \in RawEmails, NEW p \in Passwords, Register(r, raw, p)
      PROVE  RequestOK(r)'
  <2> DEFINE err == NewUserError(raw, p)
             m == IF err = "nil" THEN NormalizeEmail(raw) ELSE Null
  <2>1. raw \in RawEmail
    BY ServiceAssumption
  <2>2. err # "ErrRefreshTokenRevoked"
    BY DEF NewUserError, validatePassword
  <2>3. err = "nil" => m \in Email
    BY <2>1, NormalizedType DEF NewUserError
  <2>4. Start(r, "Register", Null, Null, m, p, err, "users.Create")
    BY <1>1 DEF Register
  <2> HIDE DEF err, m
  <2> QED BY <2>2, <2>3, <2>4, StartStep DEF Ops
<1>2. ASSUME NEW raw \in RawEmails, NEW p \in Passwords, Login(r, raw, p)
      PROVE  RequestOK(r)'
  BY <1>2, StartStep DEF Login, Ops
<1>3. ASSUME NEW t \in handedOut \cup {Null}, Refresh(r, t) \/ Logout(r, t)
      PROVE  RequestOK(r)'
  BY <1>3, StartStep DEF Refresh, Logout, HandedOutOK, TypeOK, Ops
<1>4. ASSUME NEW u \in UserIds \ FreshUsers, Suspend(r, u)
      PROVE  RequestOK(r)'
  BY <1>4, StartStep DEF Suspend, Ops
<1> QED BY <1>1, <1>2, <1>3, <1>4 DEF Arrive

(* A slot that is blank again is in order.                                 *)
LEMMA ForgetStep ==
    ASSUME TypeOK, NEW rs \in SUBSET Requests, NEW r \in rs, Forget(rs)
    PROVE  RequestOK(r)'
BY DEF Forget, Blank, TypeOK, RequestOK, PhaseOK, ArgumentsOK, OwnerOK, RotationOK,
       DeadOK, ShutOK, KnownOK, LogoutOK

(* The end of some requests does not touch the others.                     *)
LEMMA ForgetSpares ==
    ASSUME NEW rs \in SUBSET Requests, NEW r \in Requests \ rs, Forget(rs)
    PROVE  SameLocals(r)
<1>1. ASSUME NEW f, NEW v PROVE Blank(f, rs, v)[r] = f[r]
  BY DEF Blank
<1> QED BY <1>1 DEF Forget, SameLocals

(* A request stays in order through each of its own calls.                 *)
LEMMA HandleStep ==
    ASSUME TypeOK, RowsOK, NEW r \in Requests, RequestOK(r),
           TypeOK', RowsOK', Evolves, Handle(r) \/ CallFails(r)
    PROVE  RequestOK(r)'
<1> USE DEF TypeOK
<1>1. UNCHANGED <<op, now, token, mail, pass, dead, shut, known>>
  BY DEF Handle, UsersCreate, FindByEmail, StartSession, RefreshFindByHash,
         RevokeAll, RefreshFindByID, TokensUpdate, LogoutFindByHash,
         SuspendFindByID, UsersUpdate, CallFails, arguments, history
<1>2. pc[r] # "done" /\ issued[r] = Null /\ result[r] = "nil"
  BY DEF Handle, UsersCreate, FindByEmail, StartSession, RefreshFindByHash,
         RevokeAll, RefreshFindByID, TokensUpdate, LogoutFindByHash,
         SuspendFindByID, UsersUpdate, CallFails, Calls,
         RequestOK, PhaseOK, ArgumentsOK, KnownOK
<1>3. token[r] # Null => /\ token[r] \in TokenIds /\ Stored(token[r])
                         /\ tokenUser'[token[r]] = tokenUser[token[r]]
                         /\ tokenExpiry'[token[r]] = tokenExpiry[token[r]]
                         /\ ~ Live(token[r]) => ~ Live(token[r])'
  BY <1>1 DEF RequestOK, PhaseOK, ArgumentsOK, Evolves, Live
<1>4. token[r] = Null => ~ Live(token[r]) /\ ~ Live(token[r])'
  BY <1>1 DEF StoreTypeOK, Live
<1>5. /\ \A u \in shut[r] : Registered(u)' /\ userStatus'[u] = "suspended"
      /\ \A u \in shut[r] : userStatus[u] = "suspended"
      /\ shut[r] # {} => op[r] \in {"Login", "Refresh"}
  BY DEF RequestOK, ShutOK, Evolves, Registered
<1>6. \A t \in known[r] : /\ token[r] # Null /\ t \in TokenIds
                          /\ tokenUser'[t] = tokenUser'[token[r]]
                          /\ tokenUser[t] = tokenUser[token[r]]
  BY <1>3 DEF RequestOK, KnownOK, Evolves, Stored
<1>7. (token[r] # Null => Stored(token[r])')
        /\ (token[r] # Null => op[r] \in {"Refresh", "Logout"})
  BY <1>1, <1>3 DEF RequestOK, PhaseOK, ArgumentsOK, Stored
(* The handler returns err without a token pair.                           *)
<1>8. ASSUME NEW err, Return(r, err), UNCHANGED user,
             err # "ErrRefreshTokenRevoked",
             op[r] = "Logout" /\ err = "nil" => ~ Live(token[r])'
      PROVE  RequestOK(r)'
  <2>1. pc'[r] = "done" /\ result'[r] = err /\ issued'[r] = Null
    BY <1>2, <1>8 DEF Return
  <2> QED BY <1>1, <1>3, <1>5, <1>6, <1>7, <1>8, <2>1
          DEF RequestOK, PhaseOK, ArgumentsOK, OwnerOK, RotationOK, DeadOK, ShutOK,
              KnownOK, LogoutOK, Live
<1>9. CASE CallFails(r)
  BY <1>8, <1>9 DEF CallFails
<1>10. CASE UsersCreate(r)
  <2>0. op[r] = "Register" /\ token[r] = Null
    BY <1>10 DEF UsersCreate, RequestOK, PhaseOK, ArgumentsOK
  <2>1. CASE Goto(r, "startSession")
    <3>1. /\ pc'[r] = "startSession"
          /\ issued'[r] = Null /\ result'[r] = "nil"
      BY <1>2, <2>1 DEF Goto
    <3> QED BY <1>1, <1>5, <1>6, <2>0, <3>1
            DEF RequestOK, PhaseOK, ArgumentsOK, OwnerOK, RotationOK, DeadOK,
                ShutOK, KnownOK, LogoutOK
  <2>2. ASSUME NEW err \in {"ErrEmailTaken", "ErrInternal"}, Return(r, err)
        PROVE  RequestOK(r)'
    <3>1. pc'[r] = "done" /\ result'[r] = err /\ issued'[r] = Null
      BY <1>2, <2>2 DEF Return
    <3> QED BY <1>1, <1>5, <1>6, <2>0, <3>1
            DEF RequestOK, PhaseOK, ArgumentsOK, OwnerOK, RotationOK, DeadOK,
                ShutOK, KnownOK, LogoutOK
  <2> QED BY <1>10, <2>1, <2>2 DEF UsersCreate, Lost
<1>11. CASE StartSession(r)
  <2>1. CASE Return(r, "ErrInternal")
    <3>1. UNCHANGED user BY <1>11 DEF StartSession
    <3> QED BY <1>8, <2>1, <3>1
  <2>2. ASSUME NEW t \in FreshTokens, InsertToken(t, user[r], now[r] + RefreshTokenTTL),
               user[r] \in users,
               pc' = [pc EXCEPT ![r] = "done"],
               issued' = [issued EXCEPT ![r] = t], UNCHANGED <<result, user>>
        PROVE  RequestOK(r)'
    <3>1. pc[r] = "startSession" /\ pc'[r] = "done" /\ issued'[r] = t
             /\ result'[r] = "nil" /\ user'[r] = user[r]
      BY <1>2, <1>11, <2>2 DEF StartSession
    <3>2. ArgumentsOK(r)'
      BY <1>1, <1>7, <2>2, <3>1 DEF ArgumentsOK, InsertToken, FreshTokens,
         Stored, StoreTypeOK
    <3>3. PhaseOK(r)' /\ OwnerOK(r)' /\ RotationOK(r)' /\ LogoutOK(r)'
      BY <1>1, <3>1 DEF RequestOK, PhaseOK, OwnerOK, RotationOK, LogoutOK
    <3>4. DeadOK(r)' /\ ShutOK(r)'
      BY <1>1, <1>5, <3>1 DEF RequestOK, DeadOK, ShutOK
    <3>5. KnownOK(r)'
      BY <1>1, <1>6, <3>1 DEF KnownOK
    <3> QED BY <3>2, <3>3, <3>4, <3>5 DEF RequestOK
  <2> QED BY <1>11, <2>1, <2>2 DEF StartSession, Lost
<1>12. CASE FindByEmail(r)
  <2>0. op[r] = "Login" /\ token[r] = Null
    BY <1>12 DEF FindByEmail, RequestOK, PhaseOK, ArgumentsOK
  <2>1. ASSUME NEW err, err # "ErrRefreshTokenRevoked", Return(r, err)
        PROVE  RequestOK(r)'
    <3>1. pc'[r] = "done" /\ result'[r] = err /\ issued'[r] = Null
      BY <1>2, <2>1 DEF Return
    <3> QED BY <1>1, <1>5, <1>6, <2>0, <2>1, <3>1
            DEF RequestOK, PhaseOK, ArgumentsOK, OwnerOK, RotationOK, DeadOK,
                ShutOK, KnownOK, LogoutOK
  <2>2. ASSUME NEW u \in UsersWithEmail(mail[r]),
               Authenticate(pass[r], userHash[u], userStatus[u]) = "nil",
               user' = [user EXCEPT ![r] = u], Goto(r, "startSession")
        PROVE  RequestOK(r)'
    <3>1. /\ pc'[r] = "startSession" /\ user'[r] = u
          /\ issued'[r] = Null /\ result'[r] = "nil"
      BY <1>2, <2>2 DEF Goto
    <3>2. userStatus[u] # "suspended"
      BY <2>2 DEF Authenticate
    <3> QED BY <1>1, <1>5, <1>6, <2>0, <3>1, <3>2
            DEF RequestOK, PhaseOK, ArgumentsOK, OwnerOK, RotationOK, DeadOK,
                ShutOK, KnownOK, LogoutOK
  <2>3. \A p, h, s : Authenticate(p, h, s) # "ErrRefreshTokenRevoked"
    BY DEF Authenticate
  <2> QED BY <1>12, <2>1, <2>2, <2>3 DEF FindByEmail
<1>13. CASE RefreshFindByHash(r)
  <2>0. op[r] = "Refresh" /\ UNCHANGED database /\ pc[r] = "tokens.FindByHash"
    BY <1>13 DEF RefreshFindByHash
  <2>1. CASE token[r] \notin tokens
    BY <1>8, <1>13, <2>1 DEF RefreshFindByHash
  <2>2. CASE token[r] \in tokens
    <3>0. token[r] # Null /\ user'[r] = tokenUser[token[r]]
      BY <1>13, <2>2 DEF RefreshFindByHash, StoreTypeOK
    <3> DEFINE err == Validate(tokenRevoked[token[r]],
                               tokenExpiry[token[r]], now[r])
    <3>1. CASE err = "nil" /\ Goto(r, "users.FindByID")
      <4>1. /\ pc'[r] = "users.FindByID"
            /\ issued'[r] = Null /\ result'[r] = "nil"
        BY <1>2, <3>1 DEF Goto
      <4>2. Live(token[r]) /\ now[r] < tokenExpiry[token[r]]
        BY <2>2, <3>1 DEF Validate, Live
      <4>3. dead[r] => userStatus[tokenUser[token[r]]] = "suspended"
        BY <2>0, <3>0, <4>2 DEF RequestOK, DeadOK
      <4>4. userStatus'[tokenUser[token[r]]] = userStatus[tokenUser[token[r]]]
        BY <2>0 DEF database
      <4> QED BY <1>1, <1>3, <1>5, <1>6, <1>7, <2>0, <3>0, <4>1, <4>3, <4>4
              DEF RequestOK, PhaseOK, ArgumentsOK, OwnerOK, RotationOK, DeadOK,
                  ShutOK, KnownOK, LogoutOK
    <3>2. CASE Goto(r, "tokens.RevokeAllForUser")
      <4>1. /\ pc'[r] = "tokens.RevokeAllForUser"
            /\ issued'[r] = Null /\ result'[r] = "nil"
        BY <1>2, <3>2 DEF Goto
      <4> QED BY <1>1, <1>3, <1>5, <1>6, <1>7, <2>0, <3>0, <4>1
              DEF RequestOK, PhaseOK, ArgumentsOK, OwnerOK, RotationOK, DeadOK,
                  ShutOK, KnownOK, LogoutOK
    <3>3. CASE Return(r, "ErrRefreshTokenExpired")
      <4>1. /\ pc'[r] = "done" /\ issued'[r] = Null
            /\ result'[r] = "ErrRefreshTokenExpired"
        BY <1>2, <3>3 DEF Return
      <4> QED BY <1>1, <1>3, <1>5, <1>6, <1>7, <2>0, <3>0, <4>1
              DEF RequestOK, PhaseOK, ArgumentsOK, OwnerOK, RotationOK, DeadOK,
                  ShutOK, KnownOK, LogoutOK
    <3> QED BY <1>13, <2>2, <3>1, <3>2, <3>3 DEF RefreshFindByHash
  <2> QED BY <2>1, <2>2
<1>14. CASE RevokeAll(r)
  <2>0. /\ pc[r] = "tokens.RevokeAllForUser" /\ op[r] = "Refresh"
        /\ token[r] # Null /\ user[r] = tokenUser[token[r]]
        /\ RevokeAllForUser(user[r], now[r]) /\ now[r] \in Nat
        /\ UNCHANGED user
    BY <1>14 DEF RevokeAll, RequestOK, PhaseOK, OwnerOK
  <2>1. \A t \in known[r] : ~ Live(t)'
    BY <1>6, <2>0 DEF RevokeAllForUser, Live, StoreTypeOK
  <2>2. CASE Return(r, "ErrRefreshTokenRevoked")
    <3>1. /\ pc'[r] = "done" /\ issued'[r] = Null
          /\ result'[r] = "ErrRefreshTokenRevoked"
      BY <1>2, <2>2 DEF Return
    <3>2. KnownOK(r)'
      BY <1>1, <1>6, <2>1, <3>1 DEF KnownOK, Live
    <3> QED BY <1>1, <1>3, <1>5, <1>7, <2>0, <3>1, <3>2
            DEF RequestOK, PhaseOK, ArgumentsOK, OwnerOK, RotationOK, DeadOK,
                ShutOK, LogoutOK
  <2> QED BY <1>8, <1>14, <2>0, <2>2 DEF RevokeAll, Lost
<1>15. CASE RefreshFindByID(r)
  <2>1. CASE Goto(r, "tokens.Update")
    <3>1. /\ pc[r] = "users.FindByID" /\ pc'[r] = "tokens.Update"
          /\ op[r] = "Refresh" /\ userStatus[user[r]] # "suspended"
          /\ issued'[r] = Null /\ result'[r] = "nil" /\ user'[r] = user[r]
      BY <1>2, <1>15, <2>1 DEF RefreshFindByID, Goto, Return
    <3> QED BY <1>1, <1>3, <1>5, <1>6, <1>7, <3>1
            DEF RequestOK, PhaseOK, ArgumentsOK, OwnerOK, RotationOK, DeadOK, ShutOK,
                KnownOK, LogoutOK, Live
  <2>2. UNCHANGED user
    BY <1>15 DEF RefreshFindByID
  <2> QED BY <1>8, <1>15, <2>1, <2>2 DEF RefreshFindByID
<1>16. CASE TokensUpdate(r)
  <2>1. CASE token[r] \notin tokens
    <3>1. Return(r, "ErrRefreshTokenNotFound") /\ UNCHANGED user
      BY <1>16, <2>1 DEF TokensUpdate
    <3> QED BY <1>8, <3>1
  <2>2. CASE token[r] \in tokens
    <3>0. now[r] \in Nat /\ UpdateToken(token[r], now[r]) /\ UNCHANGED user
      BY <1>16, <2>2 DEF TokensUpdate, Revoke
    <3>1. ~ Live(token[r])' 
      BY <1>1, <2>2, <3>0 DEF UpdateToken, Live, StoreTypeOK
    <3>2. CASE op[r] = "Refresh" /\ Goto(r, "startSession")
      <4>1. /\ pc[r] = "tokens.Update" /\ pc'[r] = "startSession"
            /\ issued'[r] = Null /\ result'[r] = "nil" /\ user'[r] = user[r]
        BY <1>2, <1>16, <3>0, <3>2 DEF TokensUpdate, Goto
      <4> QED BY <1>1, <1>3, <1>5, <1>6, <1>7, <3>1, <3>2, <4>1
              DEF RequestOK, PhaseOK, ArgumentsOK, OwnerOK, RotationOK, DeadOK, ShutOK,
                  KnownOK, LogoutOK
    <3> QED BY <1>8, <1>16, <2>2, <3>0, <3>1, <3>2 DEF TokensUpdate, Lost
  <2> QED BY <2>1, <2>2
<1>17. CASE LogoutFindByHash(r)
  <2>1. UNCHANGED <<database, user>> /\ op[r] = "Logout"
    BY <1>17 DEF LogoutFindByHash
  <2>2. CASE ~ Live(token[r]) /\ Return(r, "nil")
    <3>1. ~ Live(token[r])'
      BY <1>1, <2>1, <2>2 DEF Live, database
    <3> QED BY <1>8, <2>1, <2>2, <3>1
  <2>3. CASE Live(token[r]) /\ Goto(r, "tokens.Update")
    <3>1. /\ pc'[r] = "tokens.Update"
          /\ issued'[r] = Null /\ result'[r] = "nil"
      BY <1>2, <2>3 DEF Goto
    <3> QED BY <1>1, <1>5, <1>6, <1>7, <2>1, <3>1
            DEF RequestOK, PhaseOK, ArgumentsOK, OwnerOK, RotationOK, DeadOK, ShutOK,
                KnownOK, LogoutOK
  <2> QED BY <1>17, <2>2, <2>3 DEF LogoutFindByHash
<1>18. CASE SuspendFindByID(r)
  <2>1. UNCHANGED user /\ op[r] = "Suspend"
    BY <1>18 DEF SuspendFindByID
  <2>2. CASE Goto(r, "users.Update")
    <3>1. /\ pc'[r] = "users.Update"
          /\ issued'[r] = Null /\ result'[r] = "nil"
      BY <1>2, <2>2 DEF Goto
    <3> QED BY <1>1, <1>5, <1>6, <1>7, <2>1, <3>1
            DEF RequestOK, PhaseOK, ArgumentsOK, OwnerOK, RotationOK, DeadOK, ShutOK,
                KnownOK, LogoutOK
  <2> QED BY <1>8, <1>18, <2>1, <2>2 DEF SuspendFindByID
<1>19. CASE UsersUpdate(r)
  <2>1. UNCHANGED user /\ op[r] = "Suspend"
    BY <1>19 DEF UsersUpdate, RequestOK, PhaseOK
  <2> QED BY <1>8, <1>19, <2>1 DEF UsersUpdate, Lost
<1> QED BY <1>9, <1>10, <1>11, <1>12, <1>13, <1>14, <1>15, <1>16, <1>17, <1>18,
           <1>19 DEF Handle

-----------------------------------------------------------------------------
(* The invariant.                                                          *)

(* The freshly migrated service satisfies the invariant.                   *)
LEMMA InitEstablishes == Init => IInv
<1> SUFFICES ASSUME Init PROVE IInv
  OBVIOUS
<1> USE DEF Init, StoreInit
<1>1. TypeOK
  <2>1. StoreTypeOK
    BY DEF StoreTypeOK
  <2>2. dead \in [Requests -> BOOLEAN]
    OBVIOUS
  <2> QED BY <2>1, <2>2 DEF TypeOK, Ops
<1>2. RowsOK /\ HandedOutOK /\ ParentsOK
  BY DEF RowsOK, HandedOutOK, ParentsOK, Stored
<1>3. ASSUME NEW r \in Requests PROVE RequestOK(r)
  BY <1>3 DEF RequestOK, PhaseOK, ArgumentsOK, OwnerOK, RotationOK, DeadOK,
              ShutOK, KnownOK, LogoutOK
<1> QED BY <1>1, <1>2, <1>3 DEF IInv

(* A request that arrives or makes a call leaves the others alone.         *)
LEMMA OthersSpare ==
    ASSUME TypeOK, NEW r \in Requests, NEW q \in Requests, q # r,
           Arrive(q) \/ CallFails(q) \/ Handle(q)
    PROVE  SameLocals(r)
<1> USE DEF TypeOK, SameLocals, arguments, history, Return, Goto, Lost
<1>1. CASE Arrive(q)
  BY <1>1 DEF Arrive, Register, Login, Refresh, Logout, Suspend, Start
<1>2. CASE CallFails(q) \/ RevokeAll(q) \/ RefreshFindByID(q)
             \/ TokensUpdate(q) \/ LogoutFindByHash(q)
             \/ SuspendFindByID(q) \/ UsersUpdate(q)
  BY <1>2 DEF CallFails, RevokeAll, RefreshFindByID, TokensUpdate,
              LogoutFindByHash, SuspendFindByID, UsersUpdate
<1>3. CASE UsersCreate(q) \/ FindByEmail(q) \/ RefreshFindByHash(q)
             \/ StartSession(q)
  BY <1>3 DEF UsersCreate, FindByEmail, RefreshFindByHash, StartSession
<1> QED BY <1>1, <1>2, <1>3 DEF Handle

(* In a step, request r arrives, makes its next call, ends or stands by.   *)
LEMMA RoleInStep ==
    ASSUME TypeOK, [Next]_vars, NEW r \in Requests
    PROVE  \/ SameLocals(r) \/ Arrive(r) \/ Handle(r) \/ CallFails(r)
           \/ \E rs \in SUBSET Requests : r \in rs /\ Forget(rs)
<1> DEFINE Goal == \/ SameLocals(r) \/ Arrive(r) \/ Handle(r) \/ CallFails(r)
                   \/ \E rs \in SUBSET Requests : r \in rs /\ Forget(rs)
<1>1. CASE Tick \/ (\E u \in UserIds : DeleteUser(u)) \/ UNCHANGED vars
  BY <1>1 DEF Tick, DeleteUser, vars, locals, history, SameLocals
<1>2. CASE Crash
  BY <1>2 DEF Crash
<1>3. ASSUME NEW q \in Requests, Deliver(q) \/ Drop(q) PROVE Goal
  <2>1. CASE q = r
    <3>1. Forget({r}) /\ {r} \in SUBSET Requests
      BY <1>3, <2>1 DEF Deliver, Drop
    <3> QED BY <3>1
  <2>2. CASE q # r
    BY <1>3, <2>2, ForgetSpares DEF Deliver, Drop
  <2> QED BY <2>1, <2>2
<1> QED BY <1>1, <1>2, <1>3, OthersSpare DEF Next

(* Every request is in order after every step.                             *)
LEMMA RequestsStep ==
    ASSUME IInv, [Next]_vars, TypeOK', RowsOK', Evolves,
           NEW r \in Requests
    PROVE  RequestOK(r)'
<1> USE DEF IInv
<1>1. CASE SameLocals(r)
  BY <1>1, BystanderStep DEF TypeOK
<1>2. CASE Arrive(r)
  BY <1>2, ArriveStep
<1>3. CASE Handle(r) \/ CallFails(r)
  BY <1>3, HandleStep
<1>4. CASE \E rs \in SUBSET Requests : r \in rs /\ Forget(rs)
  BY <1>4, ForgetStep
<1> QED BY <1>1, <1>2, <1>3, <1>4, RoleInStep

(* Clients hold stored tokens only.                                        *)
LEMMA HandedOutStep ==
    ASSUME IInv, [Next]_vars, Evolves
    PROVE  HandedOutOK'
<1> USE DEF IInv
<1>1. \A t \in handedOut : Stored(t)'
  BY DEF HandedOutOK, Evolves, Stored, TypeOK
<1>2. ASSUME NEW r \in Requests, Deliver(r) PROVE HandedOutOK'
  <2>2. \A t \in handedOut' : t \in handedOut \/ (t # Null /\ t = issued[r])
    BY <1>2 DEF Deliver
  <2>3. ASSUME NEW t \in handedOut' PROVE Stored(t)'
    <3>1. CASE t \in handedOut
      BY <1>1, <3>1
    <3>2. CASE t # Null /\ t = issued[r]
      BY <1>2, <3>2 DEF Deliver, Forget, database, RequestOK, ArgumentsOK, Stored
    <3> QED BY <2>2, <3>1, <3>2
  <2> QED BY <2>3 DEF HandedOutOK
<1>3. CASE UNCHANGED handedOut
  BY <1>1, <1>3 DEF HandedOutOK
<1>4. UNCHANGED handedOut \/ \E r \in Requests : Deliver(r)
  <2>1. ASSUME NEW r \in Requests, Arrive(r) PROVE UNCHANGED handedOut
    BY <2>1 DEF Arrive, Register, Login, Refresh, Logout, Suspend, Start
  <2>2. ASSUME NEW r \in Requests, Handle(r) \/ CallFails(r) \/ Drop(r)
        PROVE  UNCHANGED handedOut
    BY <2>2 DEF Drop, CallFails, Handle, UsersCreate, FindByEmail, StartSession,
                RefreshFindByHash, RevokeAll, RefreshFindByID, TokensUpdate,
                LogoutFindByHash, SuspendFindByID, UsersUpdate, arguments
  <2>3. Crash \/ Tick \/ (\E u \in UserIds : DeleteUser(u)) \/ UNCHANGED vars
            => UNCHANGED handedOut
    BY DEF Crash, Tick, DeleteUser, vars
  <2> QED BY <2>1, <2>2, <2>3 DEF Next
<1> QED BY <1>2, <1>3, <1>4

(* Rotation links a token to a dead token of the same user.                *)
LEMMA ParentsStep ==
    ASSUME IInv, [Next]_vars, Evolves
    PROVE  ParentsOK'
<1> USE DEF IInv
<1>1. ASSUME NEW t \in TokenIds, parent[t] # Null
      PROVE  /\ Stored(t)' /\ tokenUser'[parent[t]] # Null
             /\ tokenUser'[t] = tokenUser'[parent[t]]
             /\ ~ (parent[t] \in tokens' /\ tokenRevoked'[parent[t]] = Null)
  BY <1>1 DEF ParentsOK, Evolves, Stored, Live, TypeOK
<1>2. CASE UNCHANGED parent
  BY <1>1, <1>2 DEF ParentsOK, Stored, Live
<1>3. ASSUME NEW r \in Requests, StartSession(r), NEW s \in FreshTokens,
             InsertToken(s, user[r], now[r] + RefreshTokenTTL),
             user[r] \in users,
             parent' = [parent EXCEPT ![s] = token[r]]
      PROVE  ParentsOK'
  <2>1. token[r] # Null => /\ token[r] \in TokenIds /\ Stored(token[r])
                           /\ user[r] = tokenUser[token[r]]
                           /\ ~ Live(token[r])
    BY <1>3 DEF StartSession, RequestOK, PhaseOK, ArgumentsOK, OwnerOK,
                RotationOK, TypeOK
  <2>2. token[r] # Null =>
            /\ tokenUser'[token[r]] = user[r] /\ tokenUser'[s] = user[r]
            /\ user[r] # Null
            /\ ~ (token[r] \in tokens' /\ tokenRevoked'[token[r]] = Null)
    BY <1>3, <2>1 DEF InsertToken, FreshTokens, Stored, Live, TypeOK, StoreTypeOK
  <2>3. \A t \in TokenIds : parent'[t] = IF t = s THEN token[r] ELSE parent[t]
    BY <1>3 DEF TypeOK, FreshTokens
  <2> QED BY <1>1, <2>2, <2>3 DEF ParentsOK, Stored, Live
<1>4. UNCHANGED parent \/ \E r \in Requests : StartSession(r)
  <2>1. ASSUME NEW r \in Requests, Arrive(r) PROVE UNCHANGED parent
    BY <2>1 DEF Arrive, Register, Login, Refresh, Logout, Suspend, Start
  <2>2. ASSUME NEW r \in Requests,
               (Handle(r) /\ ~ StartSession(r)) \/ CallFails(r)
        PROVE  UNCHANGED parent
    BY <2>2 DEF CallFails, Handle, UsersCreate, FindByEmail, RefreshFindByHash,
                RevokeAll, RefreshFindByID, TokensUpdate, LogoutFindByHash,
                SuspendFindByID, UsersUpdate, history
  <2>3. ASSUME NEW r \in Requests, Deliver(r) \/ Drop(r)
        PROVE  UNCHANGED parent
    BY <2>3 DEF Deliver, Drop, Forget
  <2>4. Crash \/ Tick \/ (\E u \in UserIds : DeleteUser(u)) \/ UNCHANGED vars
            => UNCHANGED parent
    BY DEF Crash, Forget, Tick, DeleteUser, vars, history
  <2> QED BY <2>1, <2>2, <2>3, <2>4 DEF Next
<1>5. ASSUME NEW r \in Requests, StartSession(r)
      PROVE  ParentsOK'
  BY <1>2, <1>3, <1>5 DEF StartSession
<1> QED BY <1>2, <1>4, <1>5

(* The invariant is inductive.                                             *)
LEMMA NextPreserves == IInv /\ [Next]_vars => IInv' /\ Evolves
<1> SUFFICES ASSUME IInv, [Next]_vars PROVE IInv' /\ Evolves
  OBVIOUS
<1>1. Statement
  BY NextIsStatement DEF IInv
<1>2. RowsOK' /\ Evolves
  BY <1>1, StatementKeepsRows, StatementEvolves DEF IInv, TypeOK
<1>3. TypeOK'
  BY TypeStep DEF IInv
<1>4. \A r \in Requests : RequestOK(r)'
  BY <1>2, <1>3, RequestsStep
<1> QED BY <1>2, <1>3, <1>4, HandedOutStep, ParentsStep DEF IInv

-----------------------------------------------------------------------------
(* Theorems.                                                               *)

(* IInv holds in every reachable state of the service.                     *)
THEOREM Invariance == Spec => []IInv
<1>1. IInv /\ [Next]_vars => IInv'
  BY NextPreserves
<1> QED BY <1>1, InitEstablishes, PTL DEF Spec

(* What IInv says of the requests that are over.                           *)
LEMMA IInvGuarantees ==
    IInv => /\ TypeOK /\ DeadTokenNeverRefreshes /\ SuspendedNeverServed
            /\ ReuseRevokesAll /\ RotationConsumesParent /\ LogoutKillsSession
<1>1. IInv => TypeOK
  BY DEF IInv
<1>2. IInv => DeadTokenNeverRefreshes
  BY DEF IInv, RequestOK, DeadOK, DeadTokenNeverRefreshes, Minting
<1>3. IInv => SuspendedNeverServed
  BY DEF IInv, RequestOK, ShutOK, SuspendedNeverServed, Minting
<1>4. IInv => ReuseRevokesAll
  BY DEF IInv, RequestOK, KnownOK, ReuseRevokesAll
<1>5. IInv => RotationConsumesParent
  BY DEF IInv, ParentsOK, RotationConsumesParent
<1>6. IInv => LogoutKillsSession
  BY DEF IInv, RequestOK, LogoutOK, LogoutKillsSession
<1> QED BY <1>1, <1>2, <1>3, <1>4, <1>5, <1>6

(* The type invariant, for every value of the constants.                   *)
THEOREM TypeCorrectness == Spec => []TypeOK
BY IInvGuarantees, Invariance, PTL

(* Refresh never trades in a token that was unusable when it arrived,      *)
(* however many requests run and whatever fails.                           *)
THEOREM DeadTokensStayDead == Spec => []DeadTokenNeverRefreshes
BY IInvGuarantees, Invariance, PTL

(* No request that arrives after a suspension opens a session.             *)
THEOREM SuspensionBlocks == Spec => []SuspendedNeverServed
BY IInvGuarantees, Invariance, PTL

(* An answered replay leaves none of the sessions the user had before it.  *)
THEOREM ReplayRevokes == Spec => []ReuseRevokesAll
BY IInvGuarantees, Invariance, PTL

(* Rotation revokes the old token of the same user before it mints.        *)
THEOREM RotationRevokesFirst == Spec => []RotationConsumesParent
BY IInvGuarantees, Invariance, PTL

(* A Logout that reports success leaves the session dead.                  *)
THEOREM LogoutWorks == Spec => []LogoutKillsSession
BY IInvGuarantees, Invariance, PTL

(* A dead token is dead for ever.                                          *)
THEOREM RevocationIsPermanent == Spec => RevocationPermanent
<1>1. IInv /\ [Next]_vars =>
        [\A t \in TokenIds : tokenUser[t] # Null /\ ~ Live(t) => ~ Live(t)']_vars
  BY NextPreserves DEF Evolves, Stored
<1> QED BY <1>1, Invariance, PTL DEF Spec, RevocationPermanent

-----------------------------------------------------------------------------
(* Refinement.                                                             *)

(* Each statement on the tables is a step of the life cycle of sessions or *)
(* leaves every session as it is.                                          *)
LEMMA StatementRefines ==
    ASSUME StoreTypeOK, RowsOK, Statement
    PROVE  [Sessions!LifecycleNext]_(Sessions!lifecycle)
<1> DEFINE st == [t \in TokenIds |-> SessionState(t)]
           gone == {u \in UserIds \ users : userEmail[u] # Null}
           Still == st' = st /\ tokenUser' = tokenUser /\ gone' = gone
<1>0. ASSUME Still PROVE [Sessions!LifecycleNext]_(Sessions!lifecycle)
  BY <1>0 DEF Sessions!lifecycle
<1> USE DEF StoreTypeOK, RowsOK, Stored, Registered
<1>1. CASE UNCHANGED database
  <2>1. Still
    BY <1>1 DEF database, SessionState
  <2> QED BY <1>0, <2>1
<1>2. ASSUME NEW u \in FreshUsers, NEW m \in Email, NEW h \in PasswordHash,
             InsertUser(u, m, h)
      PROVE  [Sessions!LifecycleNext]_(Sessions!lifecycle)
  <2>1. st' = st /\ tokenUser' = tokenUser
    BY <1>2 DEF InsertUser, tokenTable, SessionState
  <2>2. gone' = gone
    BY <1>2 DEF InsertUser, FreshUsers
  <2> QED BY <1>0, <2>1, <2>2
<1>3. ASSUME NEW t \in FreshTokens, NEW u \in users, NEW e \in Nat,
             InsertToken(t, u, e)
      PROVE  [Sessions!LifecycleNext]_(Sessions!lifecycle)
  <2>1. t \in TokenIds /\ tokenUser[t] = Null /\ u # Null /\ u \in UserIds
    BY <1>3 DEF FreshTokens
  <2>2. st[t] = "unborn" /\ u \notin gone
    BY <2>1 DEF SessionState
  <2>3. st' = [st EXCEPT ![t] = "live"]
    BY <1>3, <2>1 DEF InsertToken, SessionState
  <2>4. tokenUser' = [tokenUser EXCEPT ![t] = u] /\ gone' = gone
    BY <1>3 DEF InsertToken, userTable
  <2>5. Sessions!Open(t, u)
    BY <2>2, <2>3, <2>4 DEF Sessions!Open
  <2> QED BY <2>1, <2>5 DEF Sessions!LifecycleNext
<1>4. ASSUME NEW t \in tokens, NEW at \in Nat, UpdateToken(t, at)
      PROVE  [Sessions!LifecycleNext]_(Sessions!lifecycle)
  <2>1. /\ tokenUser' = tokenUser /\ gone' = gone /\ tokens' = tokens
        /\ t \in TokenIds /\ tokenUser[t] # Null
        /\ tokenRevoked' = [tokenRevoked EXCEPT ![t] = at] /\ at # Null
    BY <1>4 DEF UpdateToken, userTable
  <2>2. CASE tokenRevoked[t] = Null
    <3>0. st[t] = "live"
      BY <2>1, <2>2 DEF SessionState
    <3>1. st' = [st EXCEPT ![t] = "revoked"]
      BY <2>1 DEF SessionState
    <3>2. Sessions!Close(t)
      BY <2>1, <3>0, <3>1 DEF Sessions!Close
    <3> QED BY <2>1, <3>2 DEF Sessions!LifecycleNext
  <2>3. CASE tokenRevoked[t] # Null
    <3>1. st' = st
      BY <1>4, <2>1, <2>3 DEF SessionState
    <3> QED BY <1>0, <2>1, <3>1
  <2> QED BY <2>2, <2>3
<1>5. ASSUME NEW u \in UserIds, NEW at \in Nat, RevokeAllForUser(u, at)
      PROVE  [Sessions!LifecycleNext]_(Sessions!lifecycle)
  <2>1. tokenUser' = tokenUser /\ gone' = gone /\ tokens' = tokens /\ at # Null
    BY <1>5 DEF RevokeAllForUser, userTable
  <2>2. st' = [t \in TokenIds |->
                 IF tokenUser[t] = u /\ st[t] = "live" THEN "revoked" ELSE st[t]]
    BY <1>5, <2>1 DEF RevokeAllForUser, SessionState
  <2>3. Sessions!CloseAll(u)
    BY <2>1, <2>2 DEF Sessions!CloseAll
  <2> QED BY <2>3 DEF Sessions!LifecycleNext
<1>6. ASSUME NEW u \in users, UpdateUser(u, "suspended")
      PROVE  [Sessions!LifecycleNext]_(Sessions!lifecycle)
  <2>1. Still
    BY <1>6 DEF UpdateUser, tokenTable, SessionState
  <2> QED BY <1>0, <2>1
<1>7. ASSUME NEW u \in users, DeleteUserRow(u)
      PROVE  [Sessions!LifecycleNext]_(Sessions!lifecycle)
  <2>1. tokenUser' = tokenUser /\ gone' = gone \cup {u}
    BY <1>7 DEF DeleteUserRow
  <2>2. st' = [t \in TokenIds |-> IF tokenUser[t] = u THEN "gone" ELSE st[t]]
    BY <1>7 DEF DeleteUserRow, SessionState
  <2>3. Sessions!Remove(u)
    BY <2>1, <2>2 DEF Sessions!Remove
  <2> QED BY <2>3 DEF Sessions!LifecycleNext
<1> QED BY <1>1, <1>2, <1>3, <1>4, <1>5, <1>6, <1>7 DEF Statement

(* The concurrent, failing handlers implement the life cycle of sessions.  *)
THEOREM Refinement == Spec => ImplementsLifecycle
<1>1. Init => Sessions!LifecycleInit
  BY DEF Init, StoreInit, Sessions!LifecycleInit, SessionState
<1>2. IInv /\ [Next]_vars => [Sessions!LifecycleNext]_(Sessions!lifecycle)
  BY NextIsStatement, StatementRefines DEF IInv, TypeOK
<1> QED BY <1>1, <1>2, Invariance, PTL
        DEF Spec, ImplementsLifecycle, Sessions!LifecycleSpec

=============================================================================
