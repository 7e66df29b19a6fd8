------------------------------- MODULE Devices -------------------------------
(***************************************************************************)
(* AuthService as the honest devices of its users drive it.  A device      *)
(* holds at most one refresh token, sends one request at a time, and       *)
(* replaces the token it holds by what the response says.  Devices are     *)
(* not code of the repository: they do what the JSON contract of the       *)
(* handlers lets a client do, and the question is what the service's       *)
(* rotation and reuse detection do to them when something fails.           *)
(***************************************************************************)
EXTENDS AuthService, HttpCodec

CONSTANTS
    Clients,   \* the devices
    Retry      \* does a device present a token again when the outcome of
               \* its last request is unknown (500, timeout, broken pipe)?

ASSUME RetryAssumption == Retry \in BOOLEAN

VARIABLES
    held,      \* the refresh token each device keeps, Null for signed out
    origin,    \* the device that sent request r
    awaited    \* the requests whose device still waits for the response

deviceVars == <<held, origin, awaited>>
allVars    == <<vars, deviceVars>>

(* The devices' state is well-formed, on top of the service's.             *)
DevicesTypeOK ==
    /\ TypeOK
    /\ held \in [Clients -> TokenIds \cup {Null}]
    /\ origin \in [Requests -> Clients \cup {Null}]
    /\ awaited \subseteq Requests

DevicesInit ==
    /\ Init
    /\ held = [d \in Clients |-> Null]
    /\ origin = [r \in Requests |-> Null]
    /\ awaited = {}

-----------------------------------------------------------------------------

Waiting(d) == \E r \in awaited : origin[r] = d

Send(d, r) ==
    /\ ~ Waiting(d)
    /\ origin' = [origin EXCEPT ![r] = d]
    /\ awaited' = awaited \cup {r}
    /\ UNCHANGED held

SignIn(d, r) ==
    /\ held[d] = Null
    /\ \E raw \in RawEmails, p \in Passwords :
          Register(r, raw, p) \/ Login(r, raw, p)
    /\ Send(d, r)

RefreshHeld(d, r) ==
    /\ held[d] # Null
    /\ Refresh(r, held[d])
    /\ Send(d, r)

SignOut(d, r) ==
    /\ held[d] # Null
    /\ Logout(r, held[d])
    /\ Send(d, r)

(* What a device keeps when it does not learn what became of its request.  *)
AfterUnknown(d) == IF Retry THEN held[d] ELSE Null

(* A token pair replaces the token; a success without one and a refusal    *)
(* (4xx) end the session on the device; a 500 leaves the outcome unknown.  *)
AfterResponse(d, r) ==
    IF issued[r] # Null THEN issued[r]
    ELSE IF Status(op[r], result[r]) >= 500 THEN AfterUnknown(d)
    ELSE Null

Receive(r) ==
    /\ r \in awaited
    /\ held' = [held EXCEPT ![origin[r]] = AfterResponse(origin[r], r)]
    /\ Deliver(r)
    /\ origin' = [origin EXCEPT ![r] = Null]
    /\ awaited' = awaited \ {r}

(* The device gives up waiting; the handler runs on.                       *)
Abandon(r) ==
    /\ "drop" \in Faults
    /\ r \in awaited
    /\ held' = [held EXCEPT ![origin[r]] = AfterUnknown(origin[r])]
    /\ awaited' = awaited \ {r}
    /\ UNCHANGED <<vars, origin>>

(* A response nobody waits for.                                            *)
ResponseLost(r) ==
    /\ r \notin awaited
    /\ Drop(r)
    /\ origin' = [origin EXCEPT ![r] = Null]
    /\ UNCHANGED <<held, awaited>>

(* The process dies: every waiting device sees its connection break.       *)
ServerCrash ==
    /\ Crash
    /\ held' = [d \in Clients |-> IF Waiting(d) THEN AfterUnknown(d) ELSE held[d]]
    /\ origin' = [r \in Requests |-> Null]
    /\ awaited' = {}

(* The service works on request r, or time passes.                         *)
ServiceStep ==
    /\ (\E r \in Requests : Handle(r) \/ CallFails(r)) \/ Tick
    /\ UNCHANGED deviceVars

DevicesNext ==
    \/ \E d \in Clients, r \in Requests :
          SignIn(d, r) \/ RefreshHeld(d, r) \/ SignOut(d, r)
    \/ \E r \in Requests : Receive(r) \/ Abandon(r) \/ ResponseLost(r)
    \/ ServerCrash
    \/ ServiceStep

DevicesSpec == DevicesInit /\ [][DevicesNext]_allVars

-----------------------------------------------------------------------------

(* "the only partial-failure outcome is a forced re-login": the session a  *)
(* device holds is revoked only by a request of that same device; what     *)
(* fails on one device never signs out another one.                        *)
SignedOutOnlyByOwnDevice ==
    [][\A d \in Clients :
          held[d] # Null /\ Live(held[d]) /\ ~ Live(held[d])' =>
              \E r \in Requests : origin[r] = d /\ token[r] = held[d]]_allVars

=============================================================================
