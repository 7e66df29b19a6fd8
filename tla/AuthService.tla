----------------------------- MODULE AuthService -----------------------------
(***************************************************************************)
(* app.AuthService over the Postgres store: Register, Login, Refresh and   *)
(* Logout, and the suspension of an account through UserRepo.  Requests    *)
(* run concurrently (one goroutine per HTTP request, any number of         *)
(* replicas over one database) and a handler is a sequence of repository   *)
(* calls, each a statement of its own: pc[r] names the call request r is   *)
(* about to make, and one action is one call together with everything the  *)
(* handler computes up to the next one.                                    *)
(***************************************************************************)
EXTENDS IdentityStore, FiniteSets

CONSTANTS
    Requests,         \* slots for concurrent requests
    RawEmails,        \* the e-mail strings clients send
    RefreshTokenTTL,  \* AuthConfig.RefreshTokenTTL
    MaxTime,          \* bound on the clock
    Faults            \* the faults of this instance, see FaultKinds

FaultKinds ==
    {"error",   \* a repository call fails without effect
     "lost",    \* a statement commits but the handler sees an error
     "drop",    \* the response never reaches the client
     "crash",   \* the process dies with every request in flight
     "delete"}  \* an operator deletes an account

ASSUME ServiceAssumption ==
    /\ RawEmails \subseteq RawEmail
    /\ RefreshTokenTTL \in Nat \ {0}
    /\ MaxTime \in Nat
    /\ Faults \subseteq FaultKinds

VARIABLES
    clock,      \* Clock.Now()
    op,         \* the use case request r runs
    pc,         \* the call request r is about to make
    now,        \* now := s.clock.Now(), read once when the handler starts
    token,      \* the refresh token presented, Null for an unknown secret
    mail,       \* the normalised e-mail
    pass,       \* the password
    user,       \* the id of the user the handler works for
    result,     \* the error the handler returned, "nil" for none
    issued,     \* the refresh token in the TokenPair returned
    handedOut   \* the refresh tokens some client has received

(* History variables: they record, and no guard reads them.                *)
VARIABLES
    parent,     \* the token whose rotation minted a token, else Null
    dead,       \* the presented token was unusable when r arrived
    shut,       \* the users suspended when r arrived
    known       \* the stored tokens of the presented token's user at arrival

locals  == <<op, pc, now, token, mail, pass, user, result, issued>>
history == <<parent, dead, shut, known>>
vars    == <<database, clock, locals, handedOut, history>>

Ops == {"none", "Register", "Login", "Refresh", "Logout", "Suspend"}

Calls == {"users.Create", "users.FindByEmail", "users.FindByID",
          "users.Update", "tokens.FindByHash", "tokens.Update",
          "tokens.RevokeAllForUser", "startSession"}

(* ErrBadRequest is of pkg/httpx: only the requests of HttpApi meet it.    *)
Errors == {"ErrInvalidEmail", "ErrWeakPassword", "ErrPasswordTooLong",
           "ErrEmailTaken", "ErrUserNotFound", "ErrInvalidCredentials",
           "ErrUserSuspended", "ErrRefreshTokenNotFound",
           "ErrRefreshTokenExpired", "ErrRefreshTokenRevoked",
           "ErrInternal", "ErrBadRequest"}

(* The type invariant: every column, local and history variable keeps its  *)
(* type through all interleavings, crashes included.                       *)
TypeOK ==
    /\ StoreTypeOK
    /\ clock \in Nat
    /\ op \in [Requests -> Ops]
    /\ pc \in [Requests -> Calls \cup {"idle", "done"}]
    /\ now \in [Requests -> Nat]
    /\ token \in [Requests -> TokenIds \cup {Null}]
    /\ mail \in [Requests -> Email \cup {Null}]
    /\ pass \in [Requests -> Passwords \cup {Null}]
    /\ user \in [Requests -> UserIds \cup {Null}]
    /\ result \in [Requests -> Errors \cup {"nil"}]
    /\ issued \in [Requests -> TokenIds \cup {Null}]
    /\ handedOut \in SUBSET TokenIds
    /\ parent \in [TokenIds -> TokenIds \cup {Null}]
    /\ dead \in [Requests -> BOOLEAN]
    /\ shut \in [Requests -> SUBSET UserIds]
    /\ known \in [Requests -> SUBSET TokenIds]

(* Nothing is in flight.  NewAuthService puts its default in the place of  *)
(* a TTL that is not positive, which is what ServiceAssumption rests on.   *)
Init ==
    /\ StoreInit
    /\ clock = 0
    /\ op = [r \in Requests |-> "none"]
    /\ pc = [r \in Requests |-> "idle"]
    /\ now = [r \in Requests |-> 0]
    /\ token = [r \in Requests |-> Null]
    /\ mail = [r \in Requests |-> Null]
    /\ pass = [r \in Requests |-> Null]
    /\ user = [r \in Requests |-> Null]
    /\ result = [r \in Requests |-> "nil"]
    /\ issued = [r \in Requests |-> Null]
    /\ handedOut = {}
    /\ parent = [t \in TokenIds |-> Null]
    /\ dead = [r \in Requests |-> FALSE]
    /\ shut = [r \in Requests |-> {}]
    /\ known = [r \in Requests |-> {}]

-----------------------------------------------------------------------------
(* How a handler moves.                                                    *)

(* The handler goes on to make the call named label.                       *)
Goto(r, label) ==
    /\ pc' = [pc EXCEPT ![r] = label]
    /\ UNCHANGED <<result, issued>>

(* The handler returns an error, or nil without a token pair.              *)
Return(r, err) ==
    /\ pc' = [pc EXCEPT ![r] = "done"]
    /\ result' = [result EXCEPT ![r] = err]
    /\ UNCHANGED issued

(* A statement that took effect was acknowledged, or its acknowledgement   *)
(* was lost (connection error, context cancelled by the client) and the    *)
(* handler returns the wrapped error.                                      *)
Lost(r) == "lost" \in Faults /\ Return(r, "ErrInternal")

(* What an action that neither starts nor ends a request leaves alone.     *)
arguments == <<clock, op, now, token, mail, pass, handedOut>>

(* Request r arrives for use case o and the handler reads the clock.  It   *)
(* fails at once with err, or makes its first call.                        *)
Usable(t) ==
    /\ Live(t)
    /\ clock < tokenExpiry[t]
    /\ userStatus[tokenUser[t]] = "active"

Suspended == {u \in users : userStatus[u] = "suspended"}

TokensOf(u) == {t \in tokens : tokenUser[t] = u}

Start(r, o, t, u, m, p, err, call) ==
    /\ pc[r] = "idle"
    /\ op' = [op EXCEPT ![r] = o]
    /\ pc' = [pc EXCEPT ![r] = IF err = "nil" THEN call ELSE "done"]
    /\ now' = [now EXCEPT ![r] = clock]
    /\ token' = [token EXCEPT ![r] = t]
    /\ mail' = [mail EXCEPT ![r] = m]
    /\ pass' = [pass EXCEPT ![r] = p]
    /\ user' = [user EXCEPT ![r] = u]
    /\ result' = [result EXCEPT ![r] = err]
    /\ dead' = [dead EXCEPT ![r] = o = "Refresh" /\ ~ Usable(t)]
    /\ shut' = [shut EXCEPT ![r] =
                   IF o \in {"Login", "Refresh"} THEN Suspended ELSE {}]
    /\ known' = [known EXCEPT ![r] =
                    IF o = "Refresh" /\ t # Null
                    THEN TokensOf(tokenUser[t]) ELSE {}]
    /\ UNCHANGED <<database, clock, issued, handedOut, parent>>

(* Bound: a request that may mint (the Refresh of a dead token does not)   *)
(* starts only while a token id is left for it, and a Register only while  *)
(* a user id is left for it.                                               *)
InFlight(ops) == {r \in Requests : op[r] \in ops /\ pc[r] # "done"}
TokenLeft == Cardinality(InFlight({"Register", "Login", "Refresh"}))
                < Cardinality(FreshTokens)
UserLeft  == Cardinality(InFlight({"Register"})) < Cardinality(FreshUsers)

-----------------------------------------------------------------------------
(* Register.                                                               *)

Register(r, raw, p) ==
    /\ TokenLeft /\ UserLeft
    /\ LET err == NewUserError(raw, p)
       IN  Start(r, "Register", Null, Null,
                 IF err = "nil" THEN NormalizeEmail(raw) ELSE Null, p,
                 err, "users.Create")

(* Mutant: the users table has no unique index on email.                   *)
UsersCreateUnchecked(r) ==
    /\ pc[r] = "users.Create"
    /\ \E u \in FreshUsers :
          /\ InsertUser(u, mail[r], Hash(pass[r], u))
          /\ user' = [user EXCEPT ![r] = u]
    /\ Goto(r, "startSession")
    /\ UNCHANGED <<arguments, history>>

(* users.Create: the unique index on email decides.                        *)
UsersCreate(r) ==
    /\ pc[r] = "users.Create"
    /\ \/ /\ UsersWithEmail(mail[r]) # {}
          /\ Return(r, "ErrEmailTaken")
          /\ UNCHANGED <<database, user>>
       \/ /\ UsersWithEmail(mail[r]) = {}
          /\ \E u \in FreshUsers :
                /\ InsertUser(u, mail[r], Hash(pass[r], u))
                /\ user' = [user EXCEPT ![r] = u]
          /\ Goto(r, "startSession") \/ Lost(r)
    /\ UNCHANGED <<arguments, history>>

(* Mutant: no foreign key, a deleted user can be given a session.          *)
StartSessionUnchecked(r) ==
    /\ pc[r] = "startSession"
    /\ \E t \in FreshTokens :
          /\ InsertToken(t, user[r], now[r] + RefreshTokenTTL)
          /\ parent' = [parent EXCEPT ![t] = token[r]]
          /\ issued' = [issued EXCEPT ![r] = t]
    /\ pc' = [pc EXCEPT ![r] = "done"]
    /\ UNCHANGED <<arguments, user, result, dead, shut, known>>

(* startSession: mint a refresh token, store it, issue an access token.    *)
(* The foreign key refuses a token whose user is gone.                     *)
StartSession(r) ==
    /\ pc[r] = "startSession"
    /\ \/ /\ user[r] \notin users
          /\ Return(r, "ErrInternal")
          /\ UNCHANGED <<database, parent>>
       \/ /\ user[r] \in users
          /\ \E t \in FreshTokens :
                /\ InsertToken(t, user[r], now[r] + RefreshTokenTTL)
                /\ parent' = [parent EXCEPT ![t] = token[r]]
                /\ \/ /\ pc' = [pc EXCEPT ![r] = "done"]
                      /\ issued' = [issued EXCEPT ![r] = t]
                      /\ UNCHANGED result
                   \/ Lost(r)
    /\ UNCHANGED <<arguments, user, dead, shut, known>>

-----------------------------------------------------------------------------
(* Login.  A malformed e-mail is an invalid credential.                    *)

Login(r, raw, p) ==
    /\ TokenLeft
    /\ Start(r, "Login", Null, Null,
             IF IsValidEmail(raw) THEN NormalizeEmail(raw) ELSE Null, p,
             IF IsValidEmail(raw) THEN "nil" ELSE "ErrInvalidCredentials",
             "users.FindByEmail")

FindByEmail(r) ==
    /\ pc[r] = "users.FindByEmail"
    /\ \/ /\ UsersWithEmail(mail[r]) = {}
          /\ Return(r, "ErrInvalidCredentials")
          /\ UNCHANGED user
       \/ \E u \in UsersWithEmail(mail[r]) :
             LET err == Authenticate(pass[r], userHash[u], userStatus[u])
             IN  /\ user' = [user EXCEPT ![r] = u]
                 /\ \/ err = "nil" /\ Goto(r, "startSession")
                    \/ err # "nil" /\ Return(r, err)
    /\ UNCHANGED <<database, arguments, history>>

-----------------------------------------------------------------------------
(* Refresh.                                                                *)

Refresh(r, t) ==
    /\ TokenLeft \/ ~ Usable(t)
    /\ Start(r, "Refresh", t, Null, Null, Null, "nil", "tokens.FindByHash")

(* Mutant: a replayed token is refused and nothing else happens.           *)
RefuseReplay(r) ==
    /\ pc[r] = "tokens.FindByHash" /\ op[r] = "Refresh"
    /\ \/ /\ token[r] \notin tokens
          /\ Return(r, "ErrRefreshTokenNotFound")
          /\ UNCHANGED user
       \/ /\ token[r] \in tokens
          /\ user' = [user EXCEPT ![r] = tokenUser[token[r]]]
          /\ LET err == Validate(tokenRevoked[token[r]],
                                 tokenExpiry[token[r]], now[r])
             IN \/ err = "nil" /\ Goto(r, "users.FindByID")
                \/ err # "nil" /\ Return(r, err)
    /\ UNCHANGED <<database, arguments, history>>

(* Mutant: every invalid token is taken for a replayed one.                *)
ExpiryIsReuse(r) ==
    /\ pc[r] = "tokens.FindByHash" /\ op[r] = "Refresh"
    /\ token[r] \in tokens
    /\ user' = [user EXCEPT ![r] = tokenUser[token[r]]]
    /\ \/ Usable(token[r]) /\ Goto(r, "users.FindByID")
       \/ ~ Usable(token[r]) /\ Goto(r, "tokens.RevokeAllForUser")
    /\ UNCHANGED <<database, arguments, history>>

RefreshFindByHash(r) ==
    /\ pc[r] = "tokens.FindByHash" /\ op[r] = "Refresh"
    /\ \/ /\ token[r] \notin tokens
          /\ Return(r, "ErrRefreshTokenNotFound")
          /\ UNCHANGED user
       \/ /\ token[r] \in tokens
          /\ user' = [user EXCEPT ![r] = tokenUser[token[r]]]
          /\ LET err == Validate(tokenRevoked[token[r]],
                                 tokenExpiry[token[r]], now[r])
             IN \/ err = "nil" /\ Goto(r, "users.FindByID")
                \/ /\ err = "ErrRefreshTokenRevoked"
                   /\ Goto(r, "tokens.RevokeAllForUser")
                \/ err = "ErrRefreshTokenExpired" /\ Return(r, err)
    /\ UNCHANGED <<database, arguments, history>>

(* Mutant: the error of RevokeAllForUser is dropped.                       *)
RevokeAllIgnoringError(r) ==
    /\ pc[r] = "tokens.RevokeAllForUser"
    /\ RevokeAllForUser(user[r], now[r])
          \/ ("error" \in Faults /\ UNCHANGED database)
    /\ Return(r, "ErrRefreshTokenRevoked")
    /\ UNCHANGED <<arguments, user, history>>

(* A revoked token was presented: every live session of its user dies.     *)
RevokeAll(r) ==
    /\ pc[r] = "tokens.RevokeAllForUser"
    /\ RevokeAllForUser(user[r], now[r])
    /\ Return(r, "ErrRefreshTokenRevoked") \/ Lost(r)
    /\ UNCHANGED <<arguments, user, history>>

(* Mutant: the new session is started without revoking the old token.      *)
MintWithoutRevoking(r) ==
    /\ pc[r] = "users.FindByID" /\ op[r] = "Refresh"
    /\ user[r] \in users /\ userStatus[user[r]] # "suspended"
    /\ Goto(r, "startSession")
    /\ UNCHANGED <<database, arguments, user, history>>

(* Mutant: the token is consumed before the status is looked at.           *)
RevokeBeforeStatus(r) ==
    /\ pc[r] = "users.FindByID" /\ op[r] = "Refresh"
    /\ user[r] \in users /\ token[r] \in tokens
    /\ UpdateToken(token[r], now[r])
    /\ IF userStatus[user[r]] = "suspended"
       THEN Return(r, "ErrUserSuspended") ELSE Goto(r, "startSession")
    /\ UNCHANGED <<arguments, user, history>>

RefreshFindByID(r) ==
    /\ pc[r] = "users.FindByID" /\ op[r] = "Refresh"
    /\ \/ user[r] \notin users /\ Return(r, "ErrUserNotFound")
       \/ /\ user[r] \in users /\ userStatus[user[r]] = "suspended"
          /\ Return(r, "ErrUserSuspended")
       \/ /\ user[r] \in users /\ userStatus[user[r]] # "suspended"
          /\ Goto(r, "tokens.Update")
    /\ UNCHANGED <<database, arguments, user, history>>

(* Mutant: Refresh calls tokens.Update before token.Revoke(now).           *)
UpdateBeforeRevoke(r) ==
    /\ pc[r] = "tokens.Update"
    /\ token[r] \in tokens
    /\ \/ /\ op[r] = "Refresh" /\ Goto(r, "startSession")
          /\ UpdateToken(token[r], Null)
       \/ /\ op[r] = "Logout" /\ Return(r, "nil")
          /\ UpdateToken(token[r], now[r])
    /\ UNCHANGED <<arguments, user, history>>

(* Mutant: the update has AND revoked_at IS NULL and is tried again until  *)
(* it touches a row.                                                       *)
UpdateUntilRowTouched(r) ==
    /\ pc[r] = "tokens.Update"
    /\ Live(token[r])
    /\ UpdateToken(token[r], now[r])
    /\ \/ op[r] = "Refresh" /\ Goto(r, "startSession")
       \/ op[r] = "Logout" /\ Return(r, "nil")
    /\ UNCHANGED <<arguments, user, history>>

(* token.Revoke(now) on the row read earlier, which was not revoked, and   *)
(* tokens.Update.  Refresh goes on to mint, Logout is done.                *)
TokensUpdate(r) ==
    /\ pc[r] = "tokens.Update"
    /\ \/ /\ token[r] \notin tokens
          /\ Return(r, "ErrRefreshTokenNotFound")
          /\ UNCHANGED database
       \/ /\ token[r] \in tokens
          /\ UpdateToken(token[r], Revoke(Null, now[r]))
          /\ \/ op[r] = "Refresh" /\ Goto(r, "startSession")
             \/ op[r] = "Logout" /\ Return(r, "nil")
             \/ Lost(r)
    /\ UNCHANGED <<arguments, user, history>>

-----------------------------------------------------------------------------
(* Logout.  Unknown and revoked tokens are not errors.                     *)

Logout(r, t) ==
    Start(r, "Logout", t, Null, Null, Null, "nil", "tokens.FindByHash")

(* Mutant: an expired session is not worth revoking.                       *)
LogoutOnlyUnexpired(r) ==
    /\ pc[r] = "tokens.FindByHash" /\ op[r] = "Logout"
    /\ IF Live(token[r]) /\ now[r] < tokenExpiry[token[r]]
       THEN Goto(r, "tokens.Update") ELSE Return(r, "nil")
    /\ UNCHANGED <<database, arguments, user, history>>

(* Mutant: the token is revoked in memory and not saved.                   *)
LogoutWithoutUpdate(r) ==
    /\ pc[r] = "tokens.FindByHash" /\ op[r] = "Logout"
    /\ Return(r, "nil")
    /\ UNCHANGED <<database, arguments, user, history>>

(* Mutant: an unknown token is an error.                                   *)
LogoutRejectsUnknown(r) ==
    /\ pc[r] = "tokens.FindByHash" /\ op[r] = "Logout"
    /\ \/ Live(token[r]) /\ Goto(r, "tokens.Update")
       \/ ~ Live(token[r]) /\ Return(r, "ErrRefreshTokenNotFound")
    /\ UNCHANGED <<database, arguments, user, history>>

LogoutFindByHash(r) ==
    /\ pc[r] = "tokens.FindByHash" /\ op[r] = "Logout"
    /\ \/ ~ Live(token[r]) /\ Return(r, "nil")
       \/ Live(token[r]) /\ Goto(r, "tokens.Update")
    /\ UNCHANGED <<database, arguments, user, history>>

-----------------------------------------------------------------------------
(* Suspension: UserRepo.FindByID, User.Suspend, UserRepo.Update.  The      *)
(* caller is an operator's tool; the service exposes no route for it.      *)

Suspend(r, u) ==
    Start(r, "Suspend", Null, u, Null, Null, "nil", "users.FindByID")

SuspendFindByID(r) ==
    /\ pc[r] = "users.FindByID" /\ op[r] = "Suspend"
    /\ \/ user[r] \notin users /\ Return(r, "ErrUserNotFound")
       \/ user[r] \in users /\ Goto(r, "users.Update")
    /\ UNCHANGED <<database, arguments, user, history>>

UsersUpdate(r) ==
    /\ pc[r] = "users.Update"
    /\ \/ /\ user[r] \notin users
          /\ Return(r, "ErrUserNotFound")
          /\ UNCHANGED database
       \/ /\ user[r] \in users
          /\ UpdateUser(user[r], "suspended")
          /\ Return(r, "nil") \/ Lost(r)
    /\ UNCHANGED <<arguments, user, history>>

-----------------------------------------------------------------------------
(* The world around the handlers.                                          *)

(* Mutant: whatever stops a Login is an invalid credential.                *)
CallFailsAsRefusal(r) ==
    /\ "error" \in Faults
    /\ pc[r] \in Calls
    /\ Return(r, IF op[r] = "Login" THEN "ErrInvalidCredentials"
                 ELSE "ErrInternal")
    /\ UNCHANGED <<database, arguments, user, history>>

(* The call request r is about to make fails and changes nothing.          *)
CallFails(r) ==
    /\ "error" \in Faults
    /\ pc[r] \in Calls
    /\ Return(r, "ErrInternal")
    /\ UNCHANGED <<database, arguments, user, history>>

(* The requests in rs are over: their slots are blank again.               *)
Blank(f, rs, value) == [r \in Requests |-> IF r \in rs THEN value ELSE f[r]]

Forget(rs) ==
    /\ op' = Blank(op, rs, "none")
    /\ pc' = Blank(pc, rs, "idle")
    /\ now' = Blank(now, rs, 0)
    /\ token' = Blank(token, rs, Null)
    /\ mail' = Blank(mail, rs, Null)
    /\ pass' = Blank(pass, rs, Null)
    /\ user' = Blank(user, rs, Null)
    /\ result' = Blank(result, rs, "nil")
    /\ issued' = Blank(issued, rs, Null)
    /\ dead' = Blank(dead, rs, FALSE)
    /\ shut' = Blank(shut, rs, {})
    /\ known' = Blank(known, rs, {})
    /\ UNCHANGED <<database, clock, parent>>

(* The response reaches the client.                                        *)
Deliver(r) ==
    /\ pc[r] = "done"
    /\ handedOut' = handedOut \cup ({issued[r]} \ {Null})
    /\ Forget({r})

(* The response is lost on the way.                                        *)
Drop(r) ==
    /\ "drop" \in Faults
    /\ pc[r] = "done"
    /\ Forget({r})
    /\ UNCHANGED handedOut

(* The process dies; the database survives.                                *)
Crash ==
    /\ "crash" \in Faults
    /\ \E r \in Requests : pc[r] # "idle"
    /\ Forget(Requests)
    /\ UNCHANGED handedOut

DeleteUser(u) ==
    /\ "delete" \in Faults
    /\ u \in users
    /\ DeleteUserRow(u)
    /\ UNCHANGED <<clock, locals, handedOut, history>>

Tick ==
    /\ clock < MaxTime
    /\ clock' = clock + 1
    /\ UNCHANGED <<database, locals, handedOut, history>>

-----------------------------------------------------------------------------
(* A client presents a token it was handed, or a string that is none.      *)
Arrive(r) ==
    \/ \E raw \in RawEmails, p \in Passwords :
          Register(r, raw, p) \/ Login(r, raw, p)
    \/ \E t \in handedOut \cup {Null} : Refresh(r, t) \/ Logout(r, t)
    \/ \E u \in UserIds \ FreshUsers : Suspend(r, u)

Handle(r) ==
    \/ UsersCreate(r) \/ FindByEmail(r) \/ StartSession(r)
    \/ RefreshFindByHash(r) \/ RevokeAll(r) \/ RefreshFindByID(r)
    \/ TokensUpdate(r) \/ LogoutFindByHash(r)
    \/ SuspendFindByID(r) \/ UsersUpdate(r)

Next ==
    \/ \E r \in Requests : Arrive(r) \/ Handle(r) \/ CallFails(r)
                              \/ Deliver(r) \/ Drop(r)
    \/ Crash
    \/ \E u \in UserIds : DeleteUser(u)
    \/ Tick

Spec == Init /\ [][Next]_vars

(* A goroutine that can run is not held up for ever, and net/http writes   *)
(* the response of a handler that has returned.                            *)
FairSpec == Spec /\ \A r \in Requests : WF_vars(Handle(r) \/ Deliver(r))

-----------------------------------------------------------------------------
(* Safety.                                                                 *)

Minting(r) == pc[r] = "startSession" \/ issued[r] # Null

(* One account per mailbox, however many Registers race with however the   *)
(* address is spelled: NewUser's normalisation and the unique index of     *)
(* users.Create together, with accounts being deleted and re-registered.   *)
OneAccountPerMailbox ==
    \A u, v \in users : userEmail[u].addr = userEmail[v].addr => u = v

(* A session that Register or Login opens belongs to the account with the  *)
(* mailbox and the password of that very request, even though the user row *)
(* is read (or written) one statement before the token is stored.          *)
SessionMatchesCredentials ==
    \A r \in Requests :
        issued[r] # Null /\ op[r] \in {"Register", "Login"} =>
            LET u == tokenUser[issued[r]]
            IN  userEmail[u] = mail[r] /\ Verify(pass[r], userHash[u])

(* Refresh never trades in a token that was revoked, expired, deleted or   *)
(* whose user was suspended when the request arrived: not by a stale read, *)
(* not by a stale clock, not after a concurrent statement.                 *)
DeadTokenNeverRefreshes ==
    \A r \in Requests :
        op[r] = "Refresh" /\ dead[r] => pc[r] # "tokens.Update" /\ ~ Minting(r)

(* And the converse: Refresh refuses only a token that is of no use any    *)
(* more, so a client that forgets a refused token loses nothing.           *)
RefusalJustified ==
    \A r \in Requests :
        op[r] = "Refresh" /\ pc[r] = "done"
           /\ result[r] \notin {"nil", "ErrInternal"} => ~ Usable(token[r])

(* "Suspend blocks the account from authenticating": no request that       *)
(* arrives after the suspension is stored opens a session for the account. *)
SuspendedNeverServed ==
    \A r \in Requests : Minting(r) => user[r] \notin shut[r]

(* When Refresh answers ErrRefreshTokenRevoked, every session the user had *)
(* when the replayed token arrived is revoked or deleted.                  *)
ReuseRevokesAll ==
    \A r \in Requests :
        pc[r] = "done" /\ result[r] = "ErrRefreshTokenRevoked" =>
            \A t \in known[r] : ~ Live(t)

(* Rotation revokes before it mints: a token minted by Refresh belongs to  *)
(* the user of the token traded in, which is revoked already, whatever     *)
(* failed or crashed in between.                                           *)
RotationConsumesParent ==
    \A t \in TokenIds :
        parent[t] # Null => /\ tokenUser[t] = tokenUser[parent[t]]
                            /\ ~ Live(parent[t])

(* A Logout that reported success left the session dead.                   *)
LogoutKillsSession ==
    \A r \in Requests :
        pc[r] = "done" /\ op[r] = "Logout" /\ result[r] = "nil" =>
            ~ Live(token[r])

(* Short of an infrastructure error, a Logout fails only when the account  *)
(* was deleted between its read and its update, and then the session is    *)
(* gone as well: no Logout that is told of a missing token leaves a        *)
(* session behind.  The comment of Logout promises more, "a client         *)
(* retrying a logout can't fail": in this one case the code returns the    *)
(* ErrRefreshTokenNotFound of tokens.Update, a 401.                        *)
LogoutFailsOnlyForDeleted ==
    \A r \in Requests :
        pc[r] = "done" /\ op[r] = "Logout" =>
            \/ result[r] \in {"nil", "ErrInternal"}
            \/ /\ result[r] = "ErrRefreshTokenNotFound" /\ token[r] # Null
               /\ token[r] \notin tokens /\ tokenUser[token[r]] \notin users

-----------------------------------------------------------------------------
(* Action properties.                                                      *)

(* A revoked or deleted token never comes back to life, although Update    *)
(* writes a revocation time computed from a row read statements earlier.   *)
RevocationPermanent ==
    [][\A t \in TokenIds :
          tokenUser[t] # Null /\ ~ Live(t) => ~ Live(t)']_vars

(* A session is revoked only by a request presenting a token of the same   *)
(* user; and it is revoked by another token than itself only when that     *)
(* other token had been revoked before (expiry is not reuse).              *)
RevokedOnlyByOwner ==
    [][\A t \in TokenIds :
          tokenRevoked[t] = Null /\ tokenRevoked'[t] # Null =>
              \E r \in Requests :
                  /\ op[r] \in {"Refresh", "Logout"} /\ token[r] # Null
                  /\ tokenUser[token[r]] = tokenUser[t]
                  /\ token[r] = t \/ tokenRevoked[token[r]] # Null]_vars

-----------------------------------------------------------------------------
(* What the comments of the code promise of Refresh and Logout.  The       *)
(* promises are kept while nothing happens between the read and the write  *)
(* of a request, and broken when something does.                           *)

(* A refresh token is traded in at most once ("Refresh tokens rotate on    *)
(* every use"; the new token is "the only live session").                  *)
SingleUse ==
    \A s, t \in TokenIds : parent[s] # Null /\ parent[s] = parent[t] => s = t

(* "every session for that user is revoked": once the replay is answered,  *)
(* no session descends from one the user had when the replay arrived.      *)
ReuseKillsFamily ==
    \A r \in Requests :
        pc[r] = "done" /\ result[r] = "ErrRefreshTokenRevoked" =>
            \A t \in TokenIds : parent[t] \in known[r] => ~ Live(t)

-----------------------------------------------------------------------------
(* Liveness, under FairSpec.                                               *)

(* Every request is answered (or dies with the process): no handler waits  *)
(* for another one.                                                        *)
RequestAnswered ==
    \A r \in Requests : pc[r] # "idle" ~> pc[r] = "idle"

(* While no call fails, logging out ends the session.                      *)
LogoutTakesEffect ==
    \A r \in Requests, t \in TokenIds :
        op[r] = "Logout" /\ token[r] = t ~> ~ Live(t)

(* While no call fails, presenting a revoked token ends every session its  *)
(* user had when it arrived.                                               *)
ReplayEndsSessions ==
    \A r \in Requests, t \in TokenIds :
        (/\ op[r] = "Refresh" /\ pc[r] = "tokens.FindByHash"
         /\ token[r] \in tokens /\ tokenRevoked[token[r]] # Null
         /\ t \in known[r])
            ~> ~ Live(t)

-----------------------------------------------------------------------------
(* The abstract specification.                                             *)

SessionState(t) ==
    IF tokenUser[t] = Null THEN "unborn"
    ELSE IF t \notin tokens THEN "gone"
    ELSE IF tokenRevoked[t] = Null THEN "live" ELSE "revoked"

Sessions == INSTANCE SessionLifecycle WITH
    Users    <- UserIds,
    Sessions <- TokenIds,
    Nobody   <- Null,
    state    <- [t \in TokenIds |-> SessionState(t)],
    owner    <- tokenUser,
    removed  <- {u \in UserIds \ users : userEmail[u] # Null}

(* The handlers, interleaved and failing as they may, implement the        *)
(* life cycle of sessions: one opens, one closes, all of one user's close, *)
(* or nothing happens to any of them.                                      *)
ImplementsLifecycle == Sessions!LifecycleSpec

=============================================================================
