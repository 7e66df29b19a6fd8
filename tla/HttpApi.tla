------------------------------- MODULE HttpApi -------------------------------
(***************************************************************************)
(* AuthService behind its HTTP handlers: a POST to a route of /v1/auth is  *)
(* decoded, refused with a 400 or passed to the use case of the route, and *)
(* the outcome is answered with a status code.  The history here is kept   *)
(* for the properties: what a status tells the client about the store.     *)
(***************************************************************************)
EXTENDS AuthService, HttpCodec

VARIABLES
    wrote,     \* request r has changed a row
    entitled,  \* the accounts whose credentials the Login r presents
    whole      \* the body of r was one object, within the limit

httpHistory == <<wrote, entitled, whole>>
httpVars    == <<vars, httpHistory>>

HttpInit ==
    /\ Init
    /\ wrote = [r \in Requests |-> FALSE]
    /\ entitled = [r \in Requests |-> {}]
    /\ whole = [r \in Requests |-> FALSE]

-----------------------------------------------------------------------------

(* What the bodies a client may send are decoded to, and what they are.    *)
Received == {<<Request(body), OneObject(body)>> : body \in Bodies}

(* The handler answers 400 and no use case runs.                           *)
BadRequest(r) ==
    Start(r, "none", Null, Null, Null, Null, "ErrBadRequest", "idle")

(* The accounts registered for a mailbox with password p.                  *)
Entitled(raw, p) ==
    {u \in UsersWithEmail(NormalizeEmail(raw)) : userHash[u].key = IDKey(p, u)}

PostRegister(r, req) ==
    /\ \/ req = "none" /\ BadRequest(r)
       \/ /\ req = "zero"
          /\ Start(r, "Register", Null, Null, Null, Null,
                   "ErrInvalidEmail", "idle")
       \/ /\ req = "filled"
          /\ \E raw \in RawEmails, p \in Passwords : Register(r, raw, p)
    /\ UNCHANGED entitled

PostLogin(r, req) ==
    /\ \/ /\ req = "none" /\ BadRequest(r)
          /\ UNCHANGED entitled
       \/ /\ req = "zero"
          /\ Start(r, "Login", Null, Null, Null, Null,
                   "ErrInvalidCredentials", "idle")
          /\ UNCHANGED entitled
       \/ /\ req = "filled"
          /\ \E raw \in RawEmails, p \in Passwords :
                /\ Login(r, raw, p)
                /\ entitled' = [entitled EXCEPT ![r] = Entitled(raw, p)]

(* An empty refresh_token, absent or sent, is a 400.                       *)
PostRefresh(r, req) ==
    /\ \/ req = "none" /\ BadRequest(r)
       \/ /\ req \in {"zero", "filled"}
          /\ Start(r, "Refresh", Null, Null, Null, Null,
                   "ErrBadRequest", "idle")
       \/ /\ req = "filled"
          /\ \E t \in handedOut \cup {Null} : Refresh(r, t)
    /\ UNCHANGED entitled

(* An empty refresh_token is a token like any other that nobody stored.    *)
PostLogout(r, req) ==
    /\ \/ req = "none" /\ BadRequest(r)
       \/ req = "zero" /\ Logout(r, Null)
       \/ req = "filled" /\ \E t \in handedOut \cup {Null} : Logout(r, t)
    /\ UNCHANGED entitled

(* A request is received and goes to the handler of its route.             *)
Receive(r, req, one) ==
    /\ \/ PostRegister(r, req) \/ PostLogin(r, req)
       \/ PostRefresh(r, req) \/ PostLogout(r, req)
    /\ whole' = [whole EXCEPT ![r] = one]
    /\ UNCHANGED wrote

(* The use case runs on.                                                   *)
Serve(r) ==
    /\ Handle(r) \/ CallFails(r)
    /\ wrote' = [wrote EXCEPT ![r] = @ \/ database' # database]
    /\ UNCHANGED <<entitled, whole>>

(* The request is over, or its process is.                                 *)
Finish(rs) ==
    /\ wrote' = Blank(wrote, rs, FALSE)
    /\ entitled' = Blank(entitled, rs, {})
    /\ whole' = Blank(whole, rs, FALSE)

HttpNext ==
    \/ \E r \in Requests, b \in Received : Receive(r, b[1], b[2])
    \/ \E r \in Requests : Serve(r)
    \/ \E r \in Requests : (Deliver(r) \/ Drop(r)) /\ Finish({r})
    \/ Crash /\ Finish(Requests)
    \/ \E r \in Requests, u \in UserIds \ FreshUsers :
          Suspend(r, u) /\ UNCHANGED httpHistory
    \/ \E u \in UserIds : DeleteUser(u) /\ UNCHANGED httpHistory
    \/ Tick /\ UNCHANGED httpHistory

HttpSpec == HttpInit /\ [][HttpNext]_httpVars

-----------------------------------------------------------------------------

Answer(r) == Status(op[r], result[r])

(* However values and blanks are laid out around the limit, a body that is *)
(* one object gets past the two Decodes, and a request with any other body *)
(* changes no row and opens no session on any route.  The comment of       *)
(* DecodeJSON promises more, "exactly one JSON object": a body of null     *)
(* passes as well, leaves the request at its zero values, and is answered  *)
(* by the use case, a Logout with a 204.                                   *)
OnlyObjectsTakeEffect ==
    \A r \in Requests :
        pc[r] # "idle" /\ op[r] # "Suspend" =>
            IF whole[r] THEN op[r] # "none"
            ELSE ~ wrote[r] /\ issued[r] = Null

(* A 4xx answer leaves no trace: whatever failed or raced in between, the  *)
(* request has changed no row, except that a replayed refresh token is     *)
(* answered with a 401 after it has revoked the sessions of its user.      *)
RefusedWithoutTrace ==
    \A r \in Requests :
        pc[r] = "done" /\ op[r] \in DOMAIN success /\ wrote[r] =>
            \/ Answer(r) \notin 400 .. 499
            \/ result[r] = "ErrRefreshTokenRevoked"

(* A Register that stored the user and then failed (a 500, and a 409 when  *)
(* it is sent again) locks nobody out: a Login with the credentials of an  *)
(* account that exists is never answered 401.                              *)
AccountReachable ==
    \A r \in Requests :
        pc[r] = "done" /\ op[r] = "Login" /\ Answer(r) = 401 =>
            entitled[r] \cap users = {}

=============================================================================
