---------------------------- MODULE CallerProofs ----------------------------
(***************************************************************************)
(* What AuthService promises its callers, for every value of the           *)
(* constants: one account per mailbox, sessions only for the credentials   *)
(* presented, refusals that are justified, logouts that are idempotent,    *)
(* and revocations that only the owner's requests bring about.             *)
(*                                                                         *)
(* The argument is the one of AuthServiceProofs, one layer up: besides     *)
(* Evolves, the tables and the clock only move one way (Persists), so what *)
(* a request has found out stays true until it answers.                    *)
(***************************************************************************)
EXTENDS AuthServiceProofs

USE NullAssumption

-----------------------------------------------------------------------------
(* E-mail addresses.                                                       *)

(* A normalised address is in lower case: citext compares it as it is.     *)
LEMMA CiTextOfEmail ==
    ASSUME NEW e \in Email
    PROVE  CiText(e) = e
BY DEF Email, CiText

(* A normalised address is determined by its mailbox.                      *)
LEMMA EmailOfMailbox ==
    ASSUME NEW d \in Email, NEW e \in Email, d.addr = e.addr
    PROVE  d = e
BY DEF Email

-----------------------------------------------------------------------------
(* What the statements leave behind.                                       *)

(* No hash is rewritten, no user returns, no revocation is taken back.     *)
Persists ==
    /\ \A u \in UserIds : Registered(u) =>
          /\ userHash'[u] = userHash[u]
          /\ u \notin users => u \notin users'
    /\ \A t \in TokenIds :
          Stored(t) /\ tokenRevoked[t] # Null => tokenRevoked'[t] # Null

(* A statement rewrites no hash, brings no user back, and undoes no        *)
(* revocation.                                                             *)
LEMMA StatementPersists ==
    ASSUME StoreTypeOK, RowsOK, Statement
    PROVE  Persists
<1> USE DEF StoreTypeOK, RowsOK, Stored, Registered, Persists
<1>1. CASE UNCHANGED database
  BY <1>1 DEF database
<1>2. ASSUME NEW u \in FreshUsers, NEW m \in Email, NEW h \in PasswordHash,
             InsertUser(u, m, h)
      PROVE  Persists
  BY <1>2 DEF InsertUser, FreshUsers, tokenTable
<1>3. ASSUME NEW t \in FreshTokens, NEW u \in users, NEW e \in Nat,
             InsertToken(t, u, e)
      PROVE  Persists
  BY <1>3 DEF InsertToken, FreshTokens, userTable
<1>4. ASSUME NEW t \in tokens, NEW at \in Nat, UpdateToken(t, at)
      PROVE  Persists
  BY <1>4 DEF UpdateToken, userTable
<1>5. ASSUME NEW u \in UserIds, NEW at \in Nat, RevokeAllForUser(u, at)
      PROVE  Persists
  BY <1>5 DEF RevokeAllForUser, userTable
<1>6. ASSUME NEW u \in users, UpdateUser(u, "suspended")
      PROVE  Persists
  BY <1>6 DEF UpdateUser, tokenTable
<1>7. ASSUME NEW u \in users, DeleteUserRow(u)
      PROVE  Persists
  BY <1>7 DEF DeleteUserRow
<1> QED BY <1>1, <1>2, <1>3, <1>4, <1>5, <1>6, <1>7 DEF Statement

(* The foreign key cascades: tokens go with their user, and only with him. *)
LEMMA StatementCascades ==
    ASSUME StoreTypeOK, RowsOK, CascadeOK, Statement
    PROVE  CascadeOK'
<1> USE DEF StoreTypeOK, RowsOK, Stored, Registered, CascadeOK
<1>1. CASE UNCHANGED database
  BY <1>1 DEF database
<1>2. ASSUME NEW u \in FreshUsers, NEW m \in Email, NEW h \in PasswordHash,
             InsertUser(u, m, h)
      PROVE  CascadeOK'
  BY <1>2 DEF InsertUser, FreshUsers, tokenTable
<1>3. ASSUME NEW t \in FreshTokens, NEW u \in users, NEW e \in Nat,
             InsertToken(t, u, e)
      PROVE  CascadeOK'
  BY <1>3 DEF InsertToken, FreshTokens, userTable
<1>4. ASSUME NEW t \in tokens, NEW at \in Nat, UpdateToken(t, at)
      PROVE  CascadeOK'
  BY <1>4 DEF UpdateToken, userTable
<1>5. ASSUME NEW u \in UserIds, NEW at \in Nat, RevokeAllForUser(u, at)
      PROVE  CascadeOK'
  BY <1>5 DEF RevokeAllForUser, userTable
<1>6. ASSUME NEW u \in users, UpdateUser(u, "suspended")
      PROVE  CascadeOK'
  BY <1>6 DEF UpdateUser, tokenTable
<1>7. ASSUME NEW u \in users, DeleteUserRow(u)
      PROVE  CascadeOK'
  BY <1>7 DEF DeleteUserRow
<1> QED BY <1>1, <1>2, <1>3, <1>4, <1>5, <1>6, <1>7 DEF Statement

(* The clock never runs backwards.                                         *)
LEMMA ClockStep ==
    ASSUME TypeOK, [Next]_vars
    PROVE  clock <= clock'
<1> USE DEF TypeOK
<1>1. ASSUME NEW r \in Requests, Arrive(r) PROVE UNCHANGED clock
  BY <1>1 DEF Arrive, Register, Login, Refresh, Logout, Suspend, Start
<1>2. ASSUME NEW r \in Requests, Handle(r) \/ CallFails(r)
      PROVE  UNCHANGED clock
  BY <1>2 DEF CallFails, Handle, UsersCreate, FindByEmail, StartSession,
              RefreshFindByHash, RevokeAll, RefreshFindByID, TokensUpdate,
              LogoutFindByHash, SuspendFindByID, UsersUpdate, arguments
<1>3. ASSUME NEW r \in Requests, Deliver(r) \/ Drop(r) PROVE UNCHANGED clock
  BY <1>3 DEF Deliver, Drop, Forget
<1>4. Crash \/ (\E u \in UserIds : DeleteUser(u)) \/ UNCHANGED vars
          => UNCHANGED clock
  BY DEF Crash, Forget, DeleteUser, vars
<1>5. CASE Tick
  BY <1>5 DEF Tick
<1> QED BY <1>1, <1>2, <1>3, <1>4, <1>5 DEF Next

-----------------------------------------------------------------------------
(* Accounts.                                                               *)

(* An account is added only by users.Create, past its unique index.        *)
LEMMA UsersStep ==
    ASSUME IInv, [Next]_vars
    PROVE  \/ users' \subseteq users /\ UNCHANGED <<userEmail, userHash>>
           \/ \E r \in Requests, u \in FreshUsers :
                 /\ mail[r] \in Email /\ UsersWithEmail(mail[r]) = {}
                 /\ users' = users \cup {u}
                 /\ userEmail' = [userEmail EXCEPT ![u] = mail[r]]
                 /\ userHash' = [userHash EXCEPT ![u] = Hash(pass[r], u)]
<1> DEFINE Fewer == users' \subseteq users /\ UNCHANGED <<userEmail, userHash>>
<1> USE DEF IInv
<1>1. ASSUME NEW r \in Requests, UsersCreate(r), ~ Fewer
      PROVE  \E u \in FreshUsers :
                 /\ mail[r] \in Email /\ UsersWithEmail(mail[r]) = {}
                 /\ users' = users \cup {u}
                 /\ userEmail' = [userEmail EXCEPT ![u] = mail[r]]
                 /\ userHash' = [userHash EXCEPT ![u] = Hash(pass[r], u)]
  <2>1. mail[r] \in Email
    BY <1>1 DEF UsersCreate, RequestOK, ArgumentsOK
  <2> QED BY <1>1, <2>1 DEF UsersCreate, InsertUser, database
<1>2. ASSUME NEW r \in Requests, Arrive(r) PROVE Fewer
  BY <1>2 DEF Arrive, Register, Login, Refresh, Logout, Suspend, Start, database
<1>3. ASSUME NEW r \in Requests, Handle(r) /\ ~ UsersCreate(r) PROVE Fewer
  BY <1>3 DEF Handle, FindByEmail, StartSession, RefreshFindByHash, RevokeAll,
              RefreshFindByID, TokensUpdate, LogoutFindByHash, SuspendFindByID,
              UsersUpdate, InsertToken, UpdateToken, RevokeAllForUser,
              UpdateUser, userTable, database
<1>4. ASSUME NEW r \in Requests, CallFails(r) \/ Deliver(r) \/ Drop(r)
      PROVE  Fewer
  BY <1>4 DEF CallFails, Deliver, Drop, Forget, database
<1>5. Crash \/ Tick \/ (\E u \in UserIds : DeleteUser(u)) \/ UNCHANGED vars
          => Fewer
  BY DEF Crash, Forget, Tick, DeleteUser, DeleteUserRow, vars, database
<1> QED BY <1>1, <1>2, <1>3, <1>4, <1>5 DEF Next

(* The unique index keeps one account per mailbox.                         *)
LEMMA MailboxStep ==
    ASSUME IInv, OneAccountPerMailbox, [Next]_vars
    PROVE  OneAccountPerMailbox'
<1>1. CASE users' \subseteq users /\ userEmail' = userEmail
  BY <1>1 DEF OneAccountPerMailbox
<1>2. ASSUME NEW r \in Requests, NEW u \in FreshUsers, mail[r] \in Email,
             UsersWithEmail(mail[r]) = {}, users' = users \cup {u},
             userEmail' = [userEmail EXCEPT ![u] = mail[r]]
      PROVE  OneAccountPerMailbox'
  <2>1. \A v \in users : userEmail[v] \in Email /\ v \in UserIds
    BY DEF IInv, TypeOK, StoreTypeOK, RowsOK, Registered
  <2>2. ASSUME NEW v \in users PROVE userEmail[v].addr # mail[r].addr
    <3>1. CiText(userEmail[v]) # CiText(mail[r])
      BY <1>2 DEF UsersWithEmail
    <3> QED BY <1>2, <2>1, <3>1, CiTextOfEmail, EmailOfMailbox
  <2>3. u \notin users /\ u \in UserIds
    BY DEF FreshUsers, IInv, RowsOK, Registered
  <2>4. userEmail \in [UserIds -> Email \cup {Null}]
    BY DEF IInv, TypeOK, StoreTypeOK
  <2>5. \A v \in users' :
            userEmail'[v] = IF v = u THEN mail[r] ELSE userEmail[v]
    BY <1>2, <2>1, <2>3, <2>4
  <2> QED BY <1>2, <2>2, <2>5 DEF OneAccountPerMailbox
<1> QED BY <1>1, <1>2, UsersStep

-----------------------------------------------------------------------------
(* Requests.                                                               *)

(* What made a token unusable (revocation, expiry, suspension, deletion)   *)
(* is never undone.                                                        *)
LEMMA UnusableStays ==
    ASSUME TypeOK, RowsOK, TypeOK', Evolves, clock <= clock',
           NEW t \in TokenIds \cup {Null}, t # Null => Stored(t), ~ Usable(t)
    PROVE  ~ (/\ t \in tokens' /\ tokenRevoked'[t] = Null
              /\ clock' < tokenExpiry'[t]
              /\ userStatus'[tokenUser'[t]] = "active")
<1>1. CASE t = Null
  BY <1>1 DEF TypeOK, StoreTypeOK
<1>2. CASE t # Null
  <2> SUFFICES ASSUME t \in tokens', tokenRevoked'[t] = Null,
                      clock' < tokenExpiry'[t],
                      userStatus'[tokenUser'[t]] = "active"
               PROVE  FALSE
    OBVIOUS
  <2>1. /\ t \in TokenIds /\ Live(t) /\ tokenUser'[t] = tokenUser[t]
        /\ tokenExpiry'[t] = tokenExpiry[t]
    BY <1>2 DEF Evolves, Live
  <2>2. /\ tokenUser[t] \in users /\ tokenUser[t] \in UserIds
        /\ tokenExpiry[t] \in Nat /\ Registered(tokenUser[t])
        /\ userStatus[tokenUser[t]] \in UserStatus
    BY <2>1 DEF Live, RowsOK, TypeOK, StoreTypeOK
  <2>3. clock < tokenExpiry[t]
    BY <2>1, <2>2 DEF TypeOK
  <2>4. userStatus[tokenUser[t]] # "suspended"
    BY <2>1, <2>2 DEF Evolves
  <2> QED BY <2>1, <2>2, <2>3, <2>4 DEF Usable, UserStatus
<1> QED BY <1>1, <1>2

(* The account a request works for remains the one of its credentials.     *)
LEMMA OwnsStays ==
    ASSUME Evolves, Persists, NEW r \in Requests, NEW u, Owns(u, r),
           mail'[r] = mail[r], pass'[r] = pass[r]
    PROVE  /\ u \in UserIds /\ userEmail'[u] # Null
           /\ userEmail'[u] = mail'[r] /\ Verify(pass'[r], userHash'[u])
BY DEF Evolves, Persists, Owns, Registered

(* What a request owes its caller survives every step of the others.       *)
LEMMA CallerBystander ==
    ASSUME TypeOK, RowsOK, NEW r \in Requests, RequestOK(r), CallerOK(r),
           TypeOK', Evolves, Persists, clock <= clock', SameLocals(r)
    PROVE  CallerOK(r)'
<1> USE DEF CallerOK, SameLocals
<1>1. token[r] \in TokenIds \cup {Null} /\ (token[r] # Null => Stored(token[r]))
  BY DEF TypeOK, RequestOK, ArgumentsOK
<1>2. CredentialsOK(r)'
  <2>1. ASSUME op[r] \in {"Register", "Login"}, pc[r] = "startSession"
        PROVE  Owns(user[r], r)'
    BY <2>1, OwnsStays DEF CredentialsOK, Owns, Registered
  <2>2. ASSUME op[r] \in {"Register", "Login"}, issued[r] # Null
        PROVE  Owns(tokenUser[issued[r]], r)'
    <3>1. tokenUser'[issued[r]] = tokenUser[issued[r]]
      BY <2>2 DEF TypeOK, RequestOK, ArgumentsOK, Evolves
    <3>2. Owns(tokenUser[issued[r]], r)
      BY <2>2 DEF CredentialsOK
    <3> QED BY <3>1, <3>2, OwnsStays DEF Owns, Registered
  <2> QED BY <2>1, <2>2 DEF CredentialsOK
<1>3. RefusalOK(r)'
  <2>1. now'[r] <= clock'
    BY DEF RefusalOK, TypeOK
  <2>2. pc[r] = "tokens.RevokeAllForUser" => tokenRevoked'[token[r]] # Null
    BY <1>1 DEF RefusalOK, RequestOK, PhaseOK, OwnerOK, Persists
  <2>3. ~ Usable(token[r]) => ~ Usable(token[r])'
    BY <1>1, UnusableStays DEF Usable, Live
  <2> QED BY <2>1, <2>2, <2>3 DEF RefusalOK
<1>4. LogoutErrorOK(r)'
  <2>1. token[r] # Null /\ tokenUser[token[r]] \notin users =>
            tokenUser'[token[r]] \notin users'
    BY <1>1 DEF Evolves, Persists, RowsOK, TypeOK, StoreTypeOK, Stored
  <2> QED BY <2>1 DEF LogoutErrorOK
<1> QED BY <1>2, <1>3, <1>4

(* A request owes nothing when it starts: one that is refused at once      *)
(* presented no token.                                                     *)
LEMMA CallerStart ==
    ASSUME TypeOK, NEW r \in Requests, RequestOK(r), NEW o,
           NEW t, NEW u, NEW m, NEW p, NEW err,
           NEW call \in {"users.Create", "users.FindByEmail",
                         "users.FindByID", "tokens.FindByHash"},
           call = "users.FindByEmail" /\ err = "nil" => m \in Email,
           o = "Refresh" /\ err # "nil" => t = Null,
           o = "Logout" => err = "nil",
           Start(r, o, t, u, m, p, err, call)
    PROVE  CallerOK(r)'
<1> USE DEF TypeOK
<1>1. /\ op'[r] = o /\ now'[r] = clock /\ clock' = clock
      /\ token'[r] = t /\ mail'[r] = m /\ result'[r] = err /\ issued'[r] = Null
      /\ pc'[r] = IF err = "nil" THEN call ELSE "done"
      /\ tokens' = tokens
  BY DEF Start, RequestOK, ArgumentsOK, database
<1>2. Null \notin tokens
  BY DEF StoreTypeOK
<1> QED BY <1>1, <1>2
        DEF CallerOK, CredentialsOK, RefusalOK, LogoutErrorOK, Usable, Live

(* A request that arrives owes nothing yet.                                *)
LEMMA CallerArrive ==
    ASSUME TypeOK, NEW r \in Requests, RequestOK(r), Arrive(r)
    PROVE  CallerOK(r)'
<1>1. ASSUME NEW raw \in RawEmails, NEW p \in Passwords, Register(r, raw, p)
      PROVE  CallerOK(r)'
  BY <1>1, CallerStart DEF Register
<1>2. ASSUME NEW raw \in RawEmails, NEW p \in Passwords, Login(r, raw, p)
      PROVE  CallerOK(r)'
  <2>1. IsValidEmail(raw) => NormalizeEmail(raw) \in Email
    BY ServiceAssumption, NormalizedType
  <2> QED BY <1>2, <2>1, CallerStart DEF Login
<1>3. ASSUME NEW t \in handedOut \cup {Null}, Refresh(r, t) \/ Logout(r, t)
      PROVE  CallerOK(r)'
  BY <1>3, CallerStart DEF Refresh, Logout
<1>4. ASSUME NEW u \in UserIds \ FreshUsers, Suspend(r, u)
      PROVE  CallerOK(r)'
  BY <1>4, CallerStart DEF Suspend
<1> QED BY <1>1, <1>2, <1>3, <1>4 DEF Arrive

(* A blank slot owes nothing.                                              *)
LEMMA CallerForget ==
    ASSUME TypeOK, NEW rs \in SUBSET Requests, NEW r \in rs, Forget(rs)
    PROVE  CallerOK(r)'
BY DEF Forget, Blank, TypeOK, CallerOK, CredentialsOK, RefusalOK, LogoutErrorOK

(* A request keeps its promises through each of its own calls.             *)
LEMMA CallerHandle ==
    ASSUME TypeOK, RowsOK, CascadeOK, NEW r \in Requests, RequestOK(r),
           CallerOK(r), TypeOK', Evolves, Persists,
           Handle(r) \/ CallFails(r)
    PROVE  CallerOK(r)'
<1> USE DEF TypeOK
<1>1. UNCHANGED <<clock, op, now, token, mail, pass>>
  BY DEF Handle, UsersCreate, FindByEmail, StartSession, RefreshFindByHash,
         RevokeAll, RefreshFindByID, TokensUpdate, LogoutFindByHash,
         SuspendFindByID, UsersUpdate, CallFails, arguments
<1>2. pc[r] # "done" /\ issued[r] = Null
  BY DEF Handle, UsersCreate, FindByEmail, StartSession, RefreshFindByHash,
         RevokeAll, RefreshFindByID, TokensUpdate, LogoutFindByHash,
         SuspendFindByID, UsersUpdate, CallFails, Calls, RequestOK, ArgumentsOK
<1>3. token[r] # Null => token[r] \in TokenIds /\ Stored(token[r])
  BY DEF RequestOK, ArgumentsOK
<1>4. ~ Usable(token[r]) => ~ Usable(token[r])'
  BY <1>1, <1>3, UnusableStays DEF Usable, Live
<1>5. now'[r] <= clock'
  BY <1>1 DEF CallerOK, RefusalOK
(* The handler goes on to its next call.                                   *)
<1>6. ASSUME NEW label, Goto(r, label), label \notin {"users.FindByEmail", "done"},
             label = "startSession" /\ op[r] \in {"Register", "Login"} =>
                 Owns(user[r], r)',
             label = "tokens.RevokeAllForUser" => tokenRevoked'[token[r]] # Null,
             label = "tokens.Update" => token[r] # Null
      PROVE  CallerOK(r)'
  <2>1. pc'[r] = label /\ issued'[r] = Null
    BY <1>2, <1>6 DEF Goto
  <2> QED BY <1>1, <1>5, <1>6, <2>1
          DEF CallerOK, CredentialsOK, RefusalOK, LogoutErrorOK
(* The handler returns err.                                                *)
<1>7. ASSUME NEW err, Return(r, err),
             op[r] = "Refresh" /\ err \notin {"nil", "ErrInternal"} =>
                 ~ Usable(token[r])',
             op[r] = "Logout" =>
                 \/ err \in {"nil", "ErrInternal"}
                 \/ /\ err = "ErrRefreshTokenNotFound" /\ token[r] # Null
                    /\ tokenUser'[token[r]] \notin users'
      PROVE  CallerOK(r)'
  <2>1. pc'[r] = "done" /\ issued'[r] = Null /\ result'[r] = err
    BY <1>2, <1>7 DEF Return
  <2> QED BY <1>1, <1>5, <1>7, <2>1
          DEF CallerOK, CredentialsOK, RefusalOK, LogoutErrorOK
<1>8. CASE CallFails(r)
  BY <1>7, <1>8 DEF CallFails
<1>9. CASE UsersCreate(r)
  <2>1. op[r] = "Register" /\ mail[r] \in Email /\ pass[r] \in Passwords
    BY <1>9 DEF UsersCreate, RequestOK, PhaseOK, ArgumentsOK
  <2>2. ASSUME NEW u \in FreshUsers, InsertUser(u, mail[r], Hash(pass[r], u)),
               user' = [user EXCEPT ![r] = u]
        PROVE  Owns(user[r], r)'
    <3>1. u \in UserIds /\ user'[r] = u
      BY <2>2 DEF FreshUsers
    <3>2. userEmail'[u] = mail[r] /\ userHash'[u] = Hash(pass[r], u)
      BY <2>2, <3>1 DEF InsertUser, StoreTypeOK
    <3>3. Verify(pass[r], Hash(pass[r], u))
      BY DEF Verify, Hash
    <3> QED BY <1>1, <2>1, <3>1, <3>2, <3>3 DEF Owns, Registered
  <2> QED BY <1>6, <1>7, <1>9, <2>1, <2>2 DEF UsersCreate, Lost
<1>10. CASE FindByEmail(r)
  <2>1. op[r] = "Login" /\ mail[r] \in Email
    BY <1>10 DEF FindByEmail, RequestOK, PhaseOK, CallerOK, CredentialsOK
  <2>2. ASSUME NEW u \in UsersWithEmail(mail[r]),
               Authenticate(pass[r], userHash[u], userStatus[u]) = "nil",
               user' = [user EXCEPT ![r] = u]
        PROVE  Owns(user[r], r)'
    <3>1. u \in users /\ u \in UserIds /\ userEmail[u] \in Email
      BY <2>2 DEF UsersWithEmail, RowsOK, Registered, StoreTypeOK
    <3>2. userEmail[u] = mail[r]
      BY <2>1, <2>2, <3>1, CiTextOfEmail DEF UsersWithEmail
    <3>3. Owns(u, r)
      BY <2>2, <3>1, <3>2 DEF Authenticate, Owns, Registered
    <3> QED BY <1>1, <2>2, <3>3, OwnsStays DEF Owns, Registered
  <2>3. ASSUME NEW u \in UsersWithEmail(mail[r]),
               user' = [user EXCEPT ![r] = u],
               Authenticate(pass[r], userHash[u], userStatus[u]) = "nil",
               Goto(r, "startSession")
        PROVE  CallerOK(r)'
    BY <1>6, <2>2, <2>3
  <2> QED BY <1>7, <1>10, <2>1, <2>3 DEF FindByEmail
<1>11. CASE StartSession(r)
  <2>1. CASE Return(r, "ErrInternal")
    BY <1>7, <2>1
  <2>2. ASSUME NEW t \in FreshTokens,
               InsertToken(t, user[r], now[r] + RefreshTokenTTL),
               pc' = [pc EXCEPT ![r] = "done"],
               issued' = [issued EXCEPT ![r] = t], UNCHANGED result
        PROVE  CallerOK(r)'
    <3>1. /\ pc'[r] = "done" /\ issued'[r] = t /\ result'[r] = "nil"
          /\ pc[r] = "startSession"
      BY <1>2, <1>11, <2>2 DEF StartSession, RequestOK, KnownOK
    <3>2. tokenUser'[t] = user[r]
      BY <2>2 DEF InsertToken, FreshTokens, StoreTypeOK
    <3>3. op[r] \in {"Register", "Login"} => Owns(tokenUser[issued[r]], r)'
      BY <1>1, <3>1, <3>2, OwnsStays
         DEF CallerOK, CredentialsOK, Owns, Registered
    <3> QED BY <1>1, <1>5, <3>1, <3>3
            DEF CallerOK, CredentialsOK, RefusalOK, LogoutErrorOK
  <2> QED BY <1>11, <2>1, <2>2 DEF StartSession, Lost
<1>12. CASE RefreshFindByHash(r)
  <2>1. CASE token[r] \notin tokens
    <3>1. ~ Usable(token[r])
      BY <2>1 DEF Usable, Live
    <3> QED BY <1>4, <1>7, <1>12, <2>1, <3>1 DEF RefreshFindByHash
  <2>2. CASE token[r] \in tokens
    <3> DEFINE err == Validate(tokenRevoked[token[r]],
                               tokenExpiry[token[r]], now[r])
    <3>0. /\ op[r] = "Refresh" /\ tokenExpiry[token[r]] \in Nat
          /\ UNCHANGED tokenRevoked
      BY <1>12, <2>2 DEF RefreshFindByHash, RowsOK, database
    <3>1. CASE err = "nil" /\ Goto(r, "users.FindByID")
      BY <1>6, <3>1
    <3>2. CASE err = "ErrRefreshTokenRevoked" /\ Goto(r, "tokens.RevokeAllForUser")
      <4>1. tokenRevoked'[token[r]] # Null
        BY <3>0, <3>2 DEF Validate
      <4> QED BY <1>6, <3>2, <4>1
    <3>3. CASE err = "ErrRefreshTokenExpired" /\ Return(r, err)
      <4>1. ~ (now[r] < tokenExpiry[token[r]])
        BY <3>3 DEF Validate
      <4>2. ~ Usable(token[r])
        BY <3>0, <4>1 DEF Usable, CallerOK, RefusalOK
      <4> HIDE DEF err
      <4> QED BY <1>4, <1>7, <3>0, <3>3, <4>2
    <3> QED BY <1>12, <2>2, <3>1, <3>2, <3>3 DEF RefreshFindByHash
  <2> QED BY <2>1, <2>2
<1>13. CASE RevokeAll(r)
  <2>1. ~ Usable(token[r]) /\ op[r] = "Refresh"
    BY <1>13 DEF RevokeAll, CallerOK, RefusalOK, Usable, Live, RequestOK, PhaseOK
  <2> QED BY <1>4, <1>7, <1>13, <2>1 DEF RevokeAll, Lost
<1>14. CASE RefreshFindByID(r)
  <2>1. op[r] = "Refresh" /\ token[r] # Null /\ user[r] = tokenUser[token[r]]
    BY <1>14 DEF RefreshFindByID, RequestOK, OwnerOK
  <2>2. user[r] \notin users \/ userStatus[user[r]] = "suspended" =>
            ~ Usable(token[r])
    BY <2>1 DEF Usable, Live, RowsOK
  <2> QED BY <1>4, <1>6, <1>7, <1>14, <2>1, <2>2 DEF RefreshFindByID
<1>15. CASE TokensUpdate(r)
  <2>1. op[r] \in {"Refresh", "Logout"}
    BY <1>15 DEF TokensUpdate, RequestOK, PhaseOK
  <2>2. CASE token[r] \notin tokens
    <3>1. Return(r, "ErrRefreshTokenNotFound") /\ UNCHANGED database
      BY <1>15, <2>2 DEF TokensUpdate
    <3>2. ~ Usable(token[r])
      BY <2>2 DEF Usable, Live
    <3>3. token[r] # Null
      BY <1>15 DEF TokensUpdate, CallerOK, LogoutErrorOK
    <3>4. tokenUser'[token[r]] \notin users'
      BY <1>3, <2>2, <3>1, <3>3 DEF CascadeOK, database
    <3> QED BY <1>4, <1>7, <3>1, <3>2, <3>3, <3>4
  <2>3. CASE token[r] \in tokens
    BY <1>6, <1>7, <1>15, <2>1, <2>3 DEF TokensUpdate, Lost
  <2> QED BY <2>2, <2>3
<1>16. CASE LogoutFindByHash(r)
  <2>1. Live(token[r]) => token[r] # Null
    BY DEF Live, StoreTypeOK
  <2> QED BY <1>6, <1>7, <1>16, <2>1 DEF LogoutFindByHash
<1>17. CASE SuspendFindByID(r) \/ UsersUpdate(r)
  <2>1. op[r] = "Suspend"
    BY <1>17 DEF SuspendFindByID, UsersUpdate, RequestOK, PhaseOK
  <2> QED BY <1>6, <1>7, <1>17, <2>1 DEF SuspendFindByID, UsersUpdate, Lost
<1> QED BY <1>8, <1>9, <1>10, <1>11, <1>12, <1>13, <1>14, <1>15, <1>16, <1>17
        DEF Handle

-----------------------------------------------------------------------------
(* The invariant.                                                          *)

(* The freshly migrated service satisfies the second layer.                *)
LEMMA CallerInit == Init => CallerInv
BY DEF Init, StoreInit, CallerInv, OneAccountPerMailbox, CascadeOK, Stored,
       CallerOK, CredentialsOK, RefusalOK, LogoutErrorOK

(* The second layer is inductive on top of the first.                      *)
LEMMA CallerPreserves ==
    ASSUME IInv, CallerInv, [Next]_vars
    PROVE  CallerInv' /\ Persists /\ clock <= clock'
<1>1. IInv' /\ Evolves
  BY NextPreserves
<1>2. Statement
  BY NextIsStatement DEF IInv
<1>3. CascadeOK' /\ Persists
  BY <1>2, StatementCascades, StatementPersists DEF IInv, TypeOK, CallerInv
<1>4. OneAccountPerMailbox'
  BY MailboxStep DEF CallerInv
<1>5. clock <= clock'
  BY ClockStep DEF IInv
<1>6. ASSUME NEW r \in Requests PROVE CallerOK(r)'
  <2> USE DEF IInv, CallerInv
  <2>1. CASE SameLocals(r)
    BY <1>1, <1>3, <1>5, <2>1, CallerBystander
  <2>2. CASE Arrive(r)
    BY <2>2, CallerArrive
  <2>3. CASE Handle(r) \/ CallFails(r)
    BY <1>1, <1>3, <2>3, CallerHandle
  <2>4. CASE \E rs \in SUBSET Requests : r \in rs /\ Forget(rs)
    BY <2>4, CallerForget
  <2> QED BY <2>1, <2>2, <2>3, <2>4, RoleInStep
<1> QED BY <1>3, <1>4, <1>5, <1>6 DEF CallerInv

-----------------------------------------------------------------------------
(* Theorems.                                                               *)

(* CallerInv holds in every reachable state of the service.                *)
THEOREM CallerInvariance == Spec => []CallerInv
<1>1. IInv /\ CallerInv /\ [Next]_vars => CallerInv'
  BY CallerPreserves
<1> QED BY <1>1, CallerInit, Invariance, PTL DEF Spec

(* What CallerInv says of accounts, sessions and answers; that a missing   *)
(* user has no tokens is a matter of IInv.                                 *)
LEMMA CallerInvGuarantees ==
    IInv /\ CallerInv =>
                 /\ OneAccountPerMailbox /\ SessionMatchesCredentials
                 /\ RefusalJustified /\ LogoutFailsOnlyForDeleted
<1>1. CallerInv => OneAccountPerMailbox
  BY DEF CallerInv
<1>2. CallerInv => SessionMatchesCredentials
  BY DEF CallerInv, CallerOK, CredentialsOK, Owns, SessionMatchesCredentials
<1>3. CallerInv => RefusalJustified
  BY DEF CallerInv, CallerOK, RefusalOK, RefusalJustified
<1>4. IInv /\ CallerInv => LogoutFailsOnlyForDeleted
  BY DEF IInv, RowsOK, CallerInv, CallerOK, LogoutErrorOK,
         LogoutFailsOnlyForDeleted
<1> QED BY <1>1, <1>2, <1>3, <1>4

(* However many Registers race and however an address is spelled, there is *)
(* at most one account per mailbox.                                        *)
THEOREM MailboxesAreUnique == Spec => []OneAccountPerMailbox
BY CallerInvGuarantees, Invariance, CallerInvariance, PTL

(* A session opened by Register or Login is one of the account whose       *)
(* mailbox and password the request presented.                             *)
THEOREM SessionsMatchCredentials == Spec => []SessionMatchesCredentials
BY CallerInvGuarantees, Invariance, CallerInvariance, PTL

(* Refresh refuses only a token that is of no use any more.                *)
THEOREM RefusalsAreJustified == Spec => []RefusalJustified
BY CallerInvGuarantees, Invariance, CallerInvariance, PTL

(* Logout fails only on an infrastructure error, or because the account is *)
(* deleted and the session with it.                                        *)
THEOREM LogoutFailuresExplained == Spec => []LogoutFailsOnlyForDeleted
BY CallerInvGuarantees, Invariance, CallerInvariance, PTL

(* The body of RevokedOnlyByOwner.                                         *)
OwnerRevokes ==
    \A t \in TokenIds :
        tokenRevoked[t] = Null /\ tokenRevoked'[t] # Null =>
            \E r \in Requests :
                /\ op[r] \in {"Refresh", "Logout"} /\ token[r] # Null
                /\ tokenUser[token[r]] = tokenUser[t]
                /\ token[r] = t \/ tokenRevoked[token[r]] # Null

(* Only tokens.Update and tokens.RevokeAllForUser revoke, and both work on *)
(* the token presented or on the sessions of its user.                     *)
LEMMA OwnerRevokesStep ==
    ASSUME IInv, CallerInv, [Next]_vars
    PROVE  OwnerRevokes
<1> USE DEF IInv, TypeOK, StoreTypeOK
<1>1. CASE \A t \in TokenIds : tokenRevoked[t] = Null => tokenRevoked'[t] = Null
  BY <1>1 DEF OwnerRevokes
<1>2. ASSUME NEW r \in Requests, TokensUpdate(r) PROVE OwnerRevokes
  <2>1. op[r] \in {"Refresh", "Logout"} /\ token[r] # Null
    BY <1>2 DEF TokensUpdate, RequestOK, PhaseOK, CallerInv, CallerOK, LogoutErrorOK
  <2>2. \A t \in TokenIds : t # token[r] => tokenRevoked'[t] = tokenRevoked[t]
    BY <1>2 DEF TokensUpdate, UpdateToken, database
  <2> QED BY <2>1, <2>2 DEF OwnerRevokes
<1>3. ASSUME NEW r \in Requests, RevokeAll(r) PROVE OwnerRevokes
  <2>1. /\ op[r] = "Refresh" /\ token[r] # Null
        /\ user[r] = tokenUser[token[r]] /\ tokenRevoked[token[r]] # Null
    BY <1>3 DEF RevokeAll, RequestOK, PhaseOK, OwnerOK, CallerInv, CallerOK,
                RefusalOK
  <2>2. \A t \in TokenIds : tokenUser[t] = user[r]
                               \/ tokenRevoked'[t] = tokenRevoked[t]
    BY <1>3 DEF RevokeAll, RevokeAllForUser
  <2> QED BY <2>1, <2>2 DEF OwnerRevokes
<1>4. ASSUME NEW r \in Requests, StartSession(r)
      PROVE  \A t \in TokenIds : tokenRevoked[t] = Null => tokenRevoked'[t] = Null
  BY <1>4 DEF StartSession, InsertToken, FreshTokens, database
<1>5. ASSUME NEW r \in Requests, Arrive(r) PROVE UNCHANGED tokenRevoked
  BY <1>5 DEF Arrive, Register, Login, Refresh, Logout, Suspend, Start, database
<1>6. ASSUME NEW r \in Requests, Handle(r),
             ~ TokensUpdate(r), ~ RevokeAll(r), ~ StartSession(r)
      PROVE  UNCHANGED tokenRevoked
  BY <1>6 DEF Handle, UsersCreate, FindByEmail, RefreshFindByHash,
              RefreshFindByID, LogoutFindByHash, SuspendFindByID, UsersUpdate,
              InsertUser, UpdateUser, tokenTable, database
<1>7. ASSUME NEW r \in Requests, CallFails(r) \/ Deliver(r) \/ Drop(r)
      PROVE  UNCHANGED tokenRevoked
  BY <1>7 DEF CallFails, Deliver, Drop, Forget, database
<1>8. Crash \/ Tick \/ (\E u \in UserIds : DeleteUser(u)) \/ UNCHANGED vars
          => UNCHANGED tokenRevoked
  BY DEF Crash, Forget, Tick, DeleteUser, DeleteUserRow, vars, database
<1> QED BY <1>1, <1>2, <1>3, <1>4, <1>5, <1>6, <1>7, <1>8 DEF Next

(* A session is revoked only by a request that presents a token of its     *)
(* user: itself, or one that was revoked before.                           *)
THEOREM OnlyOwnersRevoke == Spec => RevokedOnlyByOwner
<1>1. IInv /\ CallerInv /\ [Next]_vars => [OwnerRevokes]_vars
  BY OwnerRevokesStep
<1> QED BY <1>1, Invariance, CallerInvariance, PTL
        DEF Spec, RevokedOnlyByOwner, OwnerRevokes

=============================================================================
