--------------------------- MODULE IdentityDomain ---------------------------
(***************************************************************************)
(* The rules of services/identity/internal/domain: e-mail normalisation,   *)
(* the password policy, password hashing, user authentication and the      *)
(* validity and revocation of refresh tokens.  Everything here is pure:    *)
(* the domain package takes the time and the hasher as arguments and       *)
(* keeps no state.  An error result is the sentinel's name, or "nil".      *)
(***************************************************************************)
EXTENDS Integers

CONSTANTS
    Addresses,       \* the mailboxes that an e-mail string may denote
    Passwords,       \* the plaintext passwords clients type
    PasswordLength,  \* [Passwords -> Nat], len(password) in bytes
    UserIds,         \* ids.New() for users; each comes with one argon2 salt
    Null             \* a nil pointer, an absent row, SQL's NULL

ASSUME PasswordLengthAssumption == PasswordLength \in [Passwords -> Nat]

-----------------------------------------------------------------------------
(* E-mail addresses.  A raw e-mail is a mailbox written in some form; the  *)
(* form is the set of ways in which it departs from a bare lower-case      *)
(* addr-spec.                                                              *)

EmailForms == {"padded", "cased", "named", "long", "malformed"}
RawEmail   == [addr : Addresses, form : SUBSET EmailForms]
Email      == [addr : Addresses, form : {{}}]

(* strings.ToLower(strings.TrimSpace(raw)). *)
TrimLower(raw) == [raw EXCEPT !.form = @ \ {"padded", "cased"}]

(* ErrInvalidEmail is returned for an over-long or unparsable string and   *)
(* for one whose parsed address is not the whole string ("Name <addr>").   *)
IsValidEmail(raw)   == TrimLower(raw).form = {}
NormalizeEmail(raw) == TrimLower(raw)

-----------------------------------------------------------------------------
(* Passwords.                                                              *)

minPasswordLength == 8
maxPasswordLength == 128

validatePassword(p) ==
    IF PasswordLength[p] < minPasswordLength THEN "ErrWeakPassword"
    ELSE IF PasswordLength[p] > maxPasswordLength THEN "ErrPasswordTooLong"
    ELSE "nil"

(* argon2.IDKey: distinct (password, salt) pairs derive distinct keys.     *)
IDKey(p, salt) == <<"argon2id", p, salt>>

PasswordHash == [salt : UserIds, key : {"argon2id"} \X Passwords \X UserIds]

Hash(p, salt) == [salt |-> salt, key |-> IDKey(p, salt)]

(* The key is re-derived under the salt stored in the hash.  A stored hash *)
(* is one that Hash made and decodes to what went into it; should one not, *)
(* Login ends in the error that a failing users.FindByEmail ends in.       *)
Verify(p, hash) == IDKey(p, hash.salt) = hash.key

-----------------------------------------------------------------------------
(* Users.                                                                  *)

UserStatus == {"active", "suspended"}

(* NewUser validates the e-mail before the password.                       *)
NewUserError(raw, p) ==
    IF IsValidEmail(raw) THEN validatePassword(p) ELSE "ErrInvalidEmail"

(* Mutant: the status is never looked at.                                  *)
AuthenticateIgnoringStatus(p, hash, status) ==
    IF Verify(p, hash) THEN "nil" ELSE "ErrInvalidCredentials"

(* Mutant: the result of Verify is dropped.                                *)
AuthenticateIgnoringPassword(p, hash, status) ==
    IF status = "suspended" THEN "ErrUserSuspended" ELSE "nil"

(* Authenticate checks the password first, then the status.                *)
Authenticate(p, hash, status) ==
    IF ~ Verify(p, hash) THEN "ErrInvalidCredentials"
    ELSE IF status = "suspended" THEN "ErrUserSuspended"
    ELSE "nil"

-----------------------------------------------------------------------------
(* Refresh tokens.                                                         *)

(* Mutant: a token is still good at its expiry instant.                    *)
ValidateThroughExpiry(revokedAt, expiresAt, now) ==
    IF revokedAt # Null THEN "ErrRefreshTokenRevoked"
    ELSE IF now > expiresAt THEN "ErrRefreshTokenExpired"
    ELSE "nil"

(* Mutant: a token is refused one tick before it expires.                  *)
ValidateEarly(revokedAt, expiresAt, now) ==
    IF revokedAt # Null THEN "ErrRefreshTokenRevoked"
    ELSE IF ~ (now + 1 < expiresAt) THEN "ErrRefreshTokenExpired"
    ELSE "nil"

(* Validate reports revocation before expiry; a token is expired from the  *)
(* instant expiresAt on.                                                   *)
Validate(revokedAt, expiresAt, now) ==
    IF revokedAt # Null THEN "ErrRefreshTokenRevoked"
    ELSE IF ~ (now < expiresAt) THEN "ErrRefreshTokenExpired"
    ELSE "nil"

(* Revoke keeps the first revocation time of the struct it is called on.   *)
Revoke(revokedAt, now) == IF revokedAt # Null THEN revokedAt ELSE now

=============================================================================
