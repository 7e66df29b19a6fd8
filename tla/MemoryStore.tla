----------------------------- MODULE MemoryStore -----------------------------
(***************************************************************************)
(* The in-memory repositories of apptest, on which the tests of the use    *)
(* cases and of the HTTP handlers run, next to the Postgres store: every   *)
(* call is made of both.  What the tests show carries over to production   *)
(* as far as the two answer alike.  A method holds its mutex to the end,   *)
(* so a call is one step; a struct that was read is a copy, which may be   *)
(* stale when it is written back.                                          *)
(***************************************************************************)
EXTENDS IdentityStore, FiniteSets

CONSTANTS TTL, MaxTime   \* of a token; bound on the clock

(* The structs of the domain; a nil pointer is none of them.               *)
User == [id : UserIds, email : Email, hash : PasswordHash, status : UserStatus]

RefreshToken ==
    [id : TokenIds, user : UserIds, expiry : Nat, revoked : Nat \cup {Null}]

ASSUME MemoryAssumption ==
    /\ TTL \in Nat \ {0} /\ MaxTime \in Nat
    /\ Null \notin User /\ Null \notin RefreshToken

VARIABLES
    clock,             \* apptest.Clock
    byID, byEmail,     \* UserRepo
    byHash,            \* TokenRepo
    heldUser,          \* a struct somebody has read from UserRepo
    heldToken,         \* a struct somebody has read from TokenRepo
    answers            \* what the last call returned, and whom it was about

memory     == <<byID, byEmail, byHash>>
held       == <<heldUser, heldToken>>
memoryVars == <<database, clock, memory, held, answers>>

MemoryInit ==
    /\ StoreInit
    /\ clock = 0
    /\ byID = [u \in UserIds |-> Null]
    /\ byEmail = [m \in Email |-> Null]
    /\ byHash = [t \in TokenIds |-> Null]
    /\ heldUser = Null /\ heldToken = Null
    /\ answers = [pg |-> "nil", mem |-> "nil", user |-> Null]

-----------------------------------------------------------------------------
(* The rows of Postgres as the structs that scanUser and scanToken make.   *)

UserRow(u) ==
    IF u \in users
    THEN [id |-> u, email |-> userEmail[u], hash |-> userHash[u],
          status |-> userStatus[u]]
    ELSE Null

TokenRow(t) ==
    IF t \in tokens
    THEN [id |-> t, user |-> tokenUser[t], expiry |-> tokenExpiry[t],
          revoked |-> tokenRevoked[t]]
    ELSE Null

Deleted == {u \in UserIds \ users : userEmail[u] # Null}

Results == {"nil", "ErrEmailTaken", "ErrUserNotFound",
            "ErrRefreshTokenNotFound", "ErrInternal"}

-----------------------------------------------------------------------------
(* The Postgres adapter: what each method does and the error it returns.   *)

PgUserCreate(new, err) ==
    \/ /\ err = "ErrEmailTaken" /\ UsersWithEmail(new.email) # {}
       /\ UNCHANGED database
    \/ /\ err = "nil" /\ UsersWithEmail(new.email) = {}
       /\ InsertUser(new.id, new.email, new.hash)

PgUserUpdate(row, err) ==
    \/ err = "ErrUserNotFound" /\ row.id \notin users /\ UNCHANGED database
    \/ err = "nil" /\ row.id \in users /\ UpdateUser(row.id, row.status)

(* The foreign key refuses a token of a user who is gone.                  *)
PgTokenCreate(new, err) ==
    \/ err = "ErrInternal" /\ new.user \notin users /\ UNCHANGED database
    \/ /\ err = "nil" /\ new.user \in users
       /\ InsertToken(new.id, new.user, new.expiry)

PgTokenUpdate(row, err) ==
    \/ /\ err = "ErrRefreshTokenNotFound" /\ row.id \notin tokens
       /\ UNCHANGED database
    \/ err = "nil" /\ row.id \in tokens /\ UpdateToken(row.id, row.revoked)

-----------------------------------------------------------------------------
(* apptest.  The whole struct is stored, under each of its keys.           *)

StoreUser(row) ==
    /\ byID' = [byID EXCEPT ![row.id] = row]
    /\ byEmail' = [byEmail EXCEPT ![row.email] = row]
    /\ UNCHANGED byHash

UserRepoCreate(new, err) ==
    \/ /\ err = "ErrEmailTaken" /\ byEmail[new.email] # Null
       /\ UNCHANGED memory
    \/ err = "nil" /\ byEmail[new.email] = Null /\ StoreUser(new)

UserRepoUpdate(row, err) ==
    \/ err = "ErrUserNotFound" /\ byID[row.id] = Null /\ UNCHANGED memory
    \/ err = "nil" /\ byID[row.id] # Null /\ StoreUser(row)

(* Mutant: Delete forgets the index by e-mail.                             *)
UserRepoDeleteByID(u) ==
    /\ byID' = [byID EXCEPT ![u] = Null]
    /\ UNCHANGED <<byEmail, byHash>>

(* Delete removes both entries, and leaves the tokens of the user.         *)
UserRepoDelete(u) ==
    /\ byID' = [byID EXCEPT ![u] = Null]
    /\ byEmail' = [byEmail EXCEPT ![byID[u].email] = Null]
    /\ UNCHANGED byHash

(* A hash is fresh whenever a token is, so no duplicate is ever stored.    *)
TokenRepoCreate(new, err) ==
    /\ err = "nil"
    /\ byHash' = [byHash EXCEPT ![new.id] = new]
    /\ UNCHANGED <<byID, byEmail>>

(* Mutant: Update finds only tokens that are not revoked yet.              *)
TokenRepoUpdateLive(row, err) ==
    LET found == byHash[row.id] # Null /\ byHash[row.id].revoked = Null
    IN  \/ err = "ErrRefreshTokenNotFound" /\ ~ found /\ UNCHANGED memory
        \/ /\ err = "nil" /\ found
           /\ byHash' = [byHash EXCEPT ![row.id] = row]
           /\ UNCHANGED <<byID, byEmail>>

TokenRepoUpdate(row, err) ==
    \/ /\ err = "ErrRefreshTokenNotFound" /\ byHash[row.id] = Null
       /\ UNCHANGED memory
    \/ /\ err = "nil" /\ byHash[row.id] # Null
       /\ byHash' = [byHash EXCEPT ![row.id] = row]
       /\ UNCHANGED <<byID, byEmail>>

(* Mutant: the revocation time is set on tokens revoked before, too.       *)
TokenRepoStampAll(u, now) ==
    /\ byHash' = [t \in TokenIds |->
          IF byHash[t] # Null /\ byHash[t].user = u
          THEN [byHash[t] EXCEPT !.revoked = now] ELSE byHash[t]]
    /\ UNCHANGED <<byID, byEmail>>

TokenRepoRevokeAllForUser(u, now) ==
    /\ byHash' = [t \in TokenIds |->
          IF byHash[t] # Null /\ byHash[t].user = u
          THEN [byHash[t] EXCEPT !.revoked = Revoke(@, now)] ELSE byHash[t]]
    /\ UNCHANGED <<byID, byEmail>>

ActiveCount(u, now) ==
    Cardinality({t \in TokenIds :
        /\ byHash[t] # Null /\ byHash[t].user = u
        /\ Validate(byHash[t].revoked, byHash[t].expiry, now) = "nil"})

-----------------------------------------------------------------------------
(* The calls, made of both stores.                                         *)

Answer(u, pg, mem) == answers' = [pg |-> pg, mem |-> mem, user |-> u]

(* users.Create, of a user whom NewUser has just made.                     *)
CreateUser(u, m, p) ==
    LET new == [id |-> u, email |-> m, hash |-> Hash(p, u), status |-> "active"]
    IN  /\ \E pg, mem \in Results : /\ PgUserCreate(new, pg)
                                   /\ UserRepoCreate(new, mem)
                                   /\ Answer(u, pg, mem)
        /\ UNCHANGED <<clock, held>>

ReadUser(u) ==
    /\ byID[u] # Null
    /\ heldUser' = byID[u]
    /\ UNCHANGED <<database, clock, memory, heldToken, answers>>

(* Suspend, on a struct read some time ago, and users.Update.              *)
SuspendHeld ==
    /\ heldUser # Null
    /\ LET row == [heldUser EXCEPT !.status = "suspended"]
       IN  \E pg, mem \in Results : /\ PgUserUpdate(row, pg)
                                   /\ UserRepoUpdate(row, mem)
                                   /\ Answer(row.id, pg, mem)
    /\ heldUser' = Null
    /\ UNCHANGED <<clock, heldToken>>

DeleteUser(u) ==
    /\ u \in users /\ byID[u] # Null
    /\ DeleteUserRow(u) /\ UserRepoDelete(u)
    /\ Answer(u, "nil", "nil")
    /\ UNCHANGED <<clock, held>>

(* tokens.Create, for a user whom the caller has read some time ago.       *)
CreateToken(t, u) ==
    LET new == [id |-> t, user |-> u, expiry |-> clock + TTL, revoked |-> Null]
    IN  /\ \E pg, mem \in Results : /\ PgTokenCreate(new, pg)
                                   /\ TokenRepoCreate(new, mem)
                                   /\ Answer(u, pg, mem)
        /\ UNCHANGED <<clock, held>>

ReadToken(t) ==
    /\ byHash[t] # Null
    /\ heldToken' = byHash[t]
    /\ UNCHANGED <<database, clock, memory, heldUser, answers>>

(* Revoke, on a struct read some time ago, and tokens.Update.              *)
RevokeHeld ==
    /\ heldToken # Null
    /\ LET row == [heldToken EXCEPT !.revoked = Revoke(@, clock)]
       IN  \E pg, mem \in Results : /\ PgTokenUpdate(row, pg)
                                   /\ TokenRepoUpdate(row, mem)
                                   /\ Answer(row.user, pg, mem)
    /\ heldToken' = Null
    /\ UNCHANGED <<clock, heldUser>>

RevokeAll(u) ==
    /\ RevokeAllForUser(u, clock) /\ TokenRepoRevokeAllForUser(u, clock)
    /\ Answer(u, "nil", "nil")
    /\ UNCHANGED <<clock, held>>

(* A call made while Failing is set: no repository does anything.          *)
FailingCall ==
    /\ Answer(Null, "ErrInternal", "ErrInternal")
    /\ UNCHANGED <<database, clock, memory, held>>

Advance ==
    /\ clock < MaxTime
    /\ clock' = clock + 1
    /\ UNCHANGED <<database, memory, held, answers>>

MemoryNext ==
    \/ \E u \in FreshUsers, m \in Email, p \in Passwords : CreateUser(u, m, p)
    \/ \E u \in UserIds \ FreshUsers :
          \/ ReadUser(u) \/ DeleteUser(u) \/ RevokeAll(u)
          \/ \E t \in TokenIds : byHash[t] = Null /\ CreateToken(t, u)
    \/ \E t \in TokenIds : ReadToken(t)
    \/ SuspendHeld \/ RevokeHeld \/ FailingCall \/ Advance

MemorySpec == MemoryInit /\ [][MemoryNext]_memoryVars

-----------------------------------------------------------------------------

(* The type invariant; the two maps of UserRepo index the same users.      *)
MemoryTypeOK ==
    /\ StoreTypeOK
    /\ clock \in Nat
    /\ byID \in [UserIds -> User \cup {Null}]
    /\ byEmail \in [Email -> User \cup {Null}]
    /\ byHash \in [TokenIds -> RefreshToken \cup {Null}]
    /\ heldUser \in User \cup {Null}
    /\ heldToken \in RefreshToken \cup {Null}
    /\ \A u \in UserIds : byID[u] # Null =>
          byID[u].id = u /\ byEmail[byID[u].email] = byID[u]
    /\ \A m \in Email : byEmail[m] # Null =>
          byEmail[m].email = m /\ byID[byEmail[m].id] = byEmail[m]
    /\ \A t \in TokenIds : byHash[t] # Null => byHash[t].id = t

(* Whatever was written back from stale copies, a test reads from the      *)
(* fakes what the service would read from Postgres, users by id and by     *)
(* e-mail, tokens and counts of live ones; only the tokens of a user who   *)
(* was deleted are gone from Postgres and still in the fake.               *)
ReadsAgree ==
    /\ \A u \in UserIds : byID[u] = UserRow(u)
    /\ \A m \in Email :
          IF byEmail[m] = Null THEN UsersWithEmail(m) = {}
          ELSE UsersWithEmail(m) = {byEmail[m].id}
    /\ \A t \in TokenIds :
          byHash[t] = Null \/ byHash[t].user \notin Deleted =>
              byHash[t] = TokenRow(t)
    /\ \A u \in users :
          ActiveCount(u, clock) =
              Cardinality({t \in tokens :
                  tokenUser[t] = u /\ Live(t) /\ clock < tokenExpiry[t]})

(* And a test gets the errors from the fakes that the service would get    *)
(* from Postgres, unless the call is about a user who was deleted.         *)
WritesAgree ==
    answers.pg = answers.mem \/ answers.user \in Deleted

=============================================================================
