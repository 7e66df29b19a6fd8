------------------------ MODULE AuthServiceInvariant ------------------------
(***************************************************************************)
(* The inductive invariant behind the theorems of AuthServiceProofs: what  *)
(* the tables satisfy after every statement, and what is true of a request *)
(* at every call it may be about to make.                                  *)
(***************************************************************************)
EXTENDS AuthService

(* The row of id t exists or existed.                                      *)
Stored(t) == tokenUser[t] # Null
Registered(u) == userEmail[u] # Null

(* The tables: foreign key, NOT NULL and CHECK constraints.                *)
RowsOK ==
    /\ \A t \in tokens : tokenUser[t] \in users /\ tokenExpiry[t] \in Nat
    /\ \A t \in TokenIds : Stored(t) => Registered(tokenUser[t])
    /\ \A u \in users : Registered(u) /\ userStatus[u] \in UserStatus

(* What a client holds was stored.                                         *)
HandedOutOK == \A t \in handedOut : Stored(t)

ParentsOK ==
    \A t \in TokenIds :
        parent[t] # Null => /\ Stored(t) /\ Stored(parent[t])
                            /\ tokenUser[t] = tokenUser[parent[t]]
                            /\ ~ Live(parent[t])

(* Which use cases make which calls.                                       *)
PhaseOK(r) ==
    /\ pc[r] = "users.Create" => op[r] = "Register"
    /\ pc[r] = "users.FindByEmail" => op[r] = "Login"
    /\ pc[r] = "users.Update" => op[r] = "Suspend"
    /\ pc[r] = "tokens.RevokeAllForUser" => op[r] = "Refresh"
    /\ pc[r] = "tokens.Update" => op[r] \in {"Refresh", "Logout"}
    /\ pc[r] = "startSession" => op[r] \in {"Register", "Login", "Refresh"}

(* What a request carries from call to call.                               *)
ArgumentsOK(r) ==
    /\ token[r] # Null => Stored(token[r])
    /\ token[r] # Null => op[r] \in {"Refresh", "Logout"}
    /\ pc[r] = "users.Create" => mail[r] \in Email /\ pass[r] \in Passwords
    /\ issued[r] # Null => pc[r] = "done" /\ Stored(issued[r])

(* Past the lookup, the handler of Refresh works for the token's user.     *)
OwnerOK(r) ==
    op[r] = "Refresh" /\ pc[r] \in {"tokens.RevokeAllForUser",
            "users.FindByID", "tokens.Update", "startSession"} =>
        token[r] # Null /\ user[r] = tokenUser[token[r]]

(* startSession after a rotation finds the old token dead.                 *)
RotationOK(r) ==
    op[r] = "Refresh" /\ pc[r] = "startSession" => ~ Live(token[r])

(* A token that was dead on arrival stays dead, and the handler has not    *)
(* got past the check that refuses it.                                     *)
DeadOK(r) ==
    op[r] = "Refresh" /\ dead[r] =>
        /\ pc[r] \notin {"tokens.Update", "startSession"}
        /\ issued[r] = Null
        /\ token[r] # Null /\ pc[r] = "tokens.FindByHash" =>
              \/ ~ Live(token[r])
              \/ ~ (now[r] < tokenExpiry[token[r]])
              \/ userStatus[tokenUser[token[r]]] = "suspended"
        /\ pc[r] = "users.FindByID" => userStatus[user[r]] = "suspended"

ShutOK(r) ==
    /\ \A u \in shut[r] : Registered(u) /\ userStatus[u] = "suspended"
    /\ shut[r] # {} => op[r] \in {"Login", "Refresh"}
    /\ pc[r] = "startSession" \/ issued[r] # Null
          \/ (op[r] = "Refresh" /\ pc[r] = "tokens.Update") =>
              user[r] \notin shut[r]

KnownOK(r) ==
    /\ \A t \in known[r] : token[r] # Null /\ tokenUser[t] = tokenUser[token[r]]
    /\ pc[r] = "done" /\ result[r] = "ErrRefreshTokenRevoked" =>
          \A t \in known[r] : ~ Live(t)
    /\ pc[r] # "done" => result[r] = "nil"

LogoutOK(r) ==
    pc[r] = "done" /\ op[r] = "Logout" /\ result[r] = "nil" => ~ Live(token[r])

RequestOK(r) ==
    /\ PhaseOK(r) /\ ArgumentsOK(r) /\ OwnerOK(r) /\ RotationOK(r)
    /\ DeadOK(r) /\ ShutOK(r) /\ KnownOK(r) /\ LogoutOK(r)

IInv ==
    /\ TypeOK /\ RowsOK /\ HandedOutOK /\ ParentsOK
    /\ \A r \in Requests : RequestOK(r)

-----------------------------------------------------------------------------
(* A second layer, on top of IInv: accounts, refusals and errors.          *)

(* A token that is gone went with its user.                                *)
CascadeOK ==
    \A t \in TokenIds : Stored(t) /\ t \notin tokens => tokenUser[t] \notin users

(* u is or was the account with the mailbox and the password of request r. *)
Owns(u, r) ==
    /\ u \in UserIds /\ Registered(u)
    /\ userEmail[u] = mail[r] /\ Verify(pass[r], userHash[u])

(* From the user row to the stored token, the session is the caller's own. *)
CredentialsOK(r) ==
    /\ pc[r] = "users.FindByEmail" => mail[r] \in Email
    /\ op[r] \in {"Register", "Login"} =>
          /\ pc[r] = "startSession" => Owns(user[r], r)
          /\ issued[r] # Null => Owns(tokenUser[issued[r]], r)

(* The clock was read in the past, and what was found wrong with a token   *)
(* stays wrong with it.                                                    *)
RefusalOK(r) ==
    /\ now[r] <= clock
    /\ pc[r] = "tokens.RevokeAllForUser" => tokenRevoked[token[r]] # Null
    /\ op[r] = "Refresh" /\ pc[r] = "done"
          /\ result[r] \notin {"nil", "ErrInternal"} => ~ Usable(token[r])

(* Short of an infrastructure error, a Logout fails for want of a user.    *)
LogoutErrorOK(r) ==
    /\ pc[r] = "tokens.Update" => token[r] # Null
    /\ pc[r] = "done" /\ op[r] = "Logout" =>
          \/ result[r] \in {"nil", "ErrInternal"}
          \/ /\ result[r] = "ErrRefreshTokenNotFound" /\ token[r] # Null
             /\ tokenUser[token[r]] \notin users

CallerOK(r) == CredentialsOK(r) /\ RefusalOK(r) /\ LogoutErrorOK(r)

CallerInv ==
    /\ OneAccountPerMailbox /\ CascadeOK
    /\ \A r \in Requests : CallerOK(r)

=============================================================================
