---------------------------- MODULE IdentityStore ----------------------------
(***************************************************************************)
(* The Postgres adapter of the identity service: the two tables of         *)
(* 00001_init.sql and the statements of UserRepo and RefreshTokenRepo.     *)
(* Every repository method issues one statement outside any transaction,   *)
(* so each operator below is one atomic change of the tables.              *)
(*                                                                         *)
(* A table is the set of the keys of its rows and one function per column. *)
(* The columns of a deleted row keep their last values, so that an id is   *)
(* fresh exactly when its row never existed.  A member of TokenIds stands  *)
(* for a token's id together with its 256-bit secret and the SHA-256 hash  *)
(* of the secret, which determine one another.                             *)
(***************************************************************************)
EXTENDS IdentityDomain

CONSTANT TokenIds

ASSUME NullAssumption ==
    /\ Null \notin Nat
    /\ Null \notin UserIds
    /\ Null \notin TokenIds
    /\ Null \notin Email
    /\ Null \notin PasswordHash

VARIABLES
    users, userEmail, userHash, userStatus,        \* TABLE users
    tokens, tokenUser, tokenExpiry, tokenRevoked   \* TABLE refresh_tokens

userTable  == <<users, userEmail, userHash, userStatus>>
tokenTable == <<tokens, tokenUser, tokenExpiry, tokenRevoked>>
database   == <<users, userEmail, userHash, userStatus,
                tokens, tokenUser, tokenExpiry, tokenRevoked>>

StoreTypeOK ==
    /\ users \in SUBSET UserIds
    /\ userEmail \in [UserIds -> Email \cup {Null}]
    /\ userHash \in [UserIds -> PasswordHash \cup {Null}]
    /\ userStatus \in [UserIds -> UserStatus \cup {Null}]
    /\ tokens \in SUBSET TokenIds
    /\ tokenUser \in [TokenIds -> UserIds \cup {Null}]
    /\ tokenExpiry \in [TokenIds -> Nat \cup {Null}]
    /\ tokenRevoked \in [TokenIds -> Nat \cup {Null}]

(* The freshly migrated schema: both tables are empty.                     *)
StoreInit ==
    /\ users = {}
    /\ userEmail = [u \in UserIds |-> Null]
    /\ userHash = [u \in UserIds |-> Null]
    /\ userStatus = [u \in UserIds |-> Null]
    /\ tokens = {}
    /\ tokenUser = [t \in TokenIds |-> Null]
    /\ tokenExpiry = [t \in TokenIds |-> Null]
    /\ tokenRevoked = [t \in TokenIds |-> Null]

FreshUsers  == {u \in UserIds : userEmail[u] = Null}
FreshTokens == {t \in TokenIds : tokenUser[t] = Null}

-----------------------------------------------------------------------------
(* TABLE users.  The e-mail column is citext: comparisons ignore case.     *)

CiText(email) == [email EXCEPT !.form = @ \ {"cased"}]

UsersWithEmail(email) ==
    {u \in users : CiText(userEmail[u]) = CiText(email)}

(* INSERT INTO users; the caller has checked the unique index on email.    *)
InsertUser(u, email, hash) ==
    /\ users' = users \cup {u}
    /\ userEmail' = [userEmail EXCEPT ![u] = email]
    /\ userHash' = [userHash EXCEPT ![u] = hash]
    /\ userStatus' = [userStatus EXCEPT ![u] = "active"]
    /\ UNCHANGED tokenTable

(* Mutant: the status is written in a form ParseUserStatus cannot read.    *)
UpdateUserRawStatus(u, status) ==
    /\ userStatus' = [userStatus EXCEPT ![u] = "UserStatus(2)"]
    /\ UNCHANGED <<users, userEmail, userHash, tokenTable>>

(* UPDATE users ... WHERE id = u.  E-mail and hash are written back as     *)
(* they were read; no code changes them, so that the columns stay as they  *)
(* are and the unique index cannot object (ErrEmailTaken).                 *)
UpdateUser(u, status) ==
    /\ userStatus' = [userStatus EXCEPT ![u] = status]
    /\ UNCHANGED <<users, userEmail, userHash, tokenTable>>

(* DELETE FROM users WHERE id = u, with ON DELETE CASCADE to the tokens.   *)
DeleteUserRow(u) ==
    /\ users' = users \ {u}
    /\ tokens' = {t \in tokens : tokenUser[t] # u}
    /\ UNCHANGED <<userEmail, userHash, userStatus,
                   tokenUser, tokenExpiry, tokenRevoked>>

-----------------------------------------------------------------------------
(* TABLE refresh_tokens.                                                   *)

(* A stored token with revoked_at IS NULL.                                 *)
Live(t) == t \in tokens /\ tokenRevoked[t] = Null

(* Mutant: the arguments of the INSERT are in the wrong order.             *)
InsertTokenSwapped(t, u, expiry) ==
    /\ tokens' = tokens \cup {t}
    /\ tokenUser' = [tokenUser EXCEPT ![t] = t]
    /\ tokenExpiry' = [tokenExpiry EXCEPT ![t] = expiry]
    /\ tokenRevoked' = [tokenRevoked EXCEPT ![t] = Null]
    /\ UNCHANGED userTable

InsertToken(t, u, expiry) ==
    /\ tokens' = tokens \cup {t}
    /\ tokenUser' = [tokenUser EXCEPT ![t] = u]
    /\ tokenExpiry' = [tokenExpiry EXCEPT ![t] = expiry]
    /\ tokenRevoked' = [tokenRevoked EXCEPT ![t] = Null]
    /\ UNCHANGED userTable

(* UPDATE refresh_tokens SET revoked_at = at WHERE id = t: whatever the    *)
(* row holds is overwritten.                                               *)
UpdateToken(t, at) ==
    /\ tokenRevoked' = [tokenRevoked EXCEPT ![t] = at]
    /\ UNCHANGED <<userTable, tokens, tokenUser, tokenExpiry>>

(* Mutant: the statement forgets WHERE user_id = u.                        *)
RevokeEveryone(u, at) ==
    /\ tokenRevoked' = [t \in TokenIds |->
          IF t \in tokens /\ tokenRevoked[t] = Null
          THEN at ELSE tokenRevoked[t]]
    /\ UNCHANGED <<userTable, tokens, tokenUser, tokenExpiry>>

(* UPDATE refresh_tokens SET revoked_at = at                               *)
(* WHERE user_id = u AND revoked_at IS NULL.                               *)
RevokeAllForUser(u, at) ==
    /\ tokenRevoked' = [t \in TokenIds |->
          IF t \in tokens /\ tokenUser[t] = u /\ tokenRevoked[t] = Null
          THEN at ELSE tokenRevoked[t]]
    /\ UNCHANGED <<userTable, tokens, tokenUser, tokenExpiry>>

=============================================================================
