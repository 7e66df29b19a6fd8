---------------------------- MODULE DevicesProofs ----------------------------
(***************************************************************************)
(* Theorems about the devices, for every number of devices, accounts and   *)
(* requests.  Whatever devices do is something AuthService's callers may   *)
(* do, so its invariant carries over.  And devices that never present a    *)
(* token twice (~ Retry) never sign each other out: every token is in at   *)
(* most one hand and at most one request, so none is revoked when it is    *)
(* presented and the reuse detection never fires (CarefulInv).             *)
(***************************************************************************)
EXTENDS Devices, AuthServiceProofs

USE NullAssumption

DevicesOK ==
    /\ \A d \in Clients : held[d] \in handedOut \cup {Null}
    /\ \A r \in awaited : origin[r] \in Clients

DevicesInv == IInv /\ DevicesTypeOK /\ DevicesOK

(* No two devices hold the same token, none waits for two responses.       *)
OneHolder  == \A d, e \in Clients : held[d] # Null /\ held[d] = held[e] => d = e
OneRequest == \A r, q \in awaited : origin[r] = origin[q] => r = q

(* A device at rest holds a token that nobody has revoked.                 *)
HeldOK ==
    \A d \in Clients :
        held[d] # Null /\ ~ Waiting(d) => tokenRevoked[held[d]] = Null

(* A waiting device keeps the token it has presented; nobody keeps the     *)
(* token of a request that was given up.                                   *)
AwaitedOK(r) == r \in awaited => token[r] = held[origin[r]] /\ pc[r] # "idle"

AbandonedOK(r) ==
    r \notin awaited /\ token[r] # Null => \A d \in Clients : held[d] # token[r]

(* A token is presented once, and not revoked before this request does it. *)
PresentedOK(r) ==
    /\ token[r] \in handedOut \cup {Null}
    /\ \A q \in Requests : token[r] # Null /\ token[q] = token[r] => q = r
    /\ pc[r] \in {"tokens.FindByHash", "users.FindByID", "tokens.Update"}
          /\ token[r] # Null => tokenRevoked[token[r]] = Null
    /\ pc[r] # "tokens.RevokeAllForUser"

(* A token on its way to a device is known to nobody.                      *)
IssuedOK(r) ==
    issued[r] # Null =>
        /\ issued[r] \notin handedOut /\ tokenRevoked[issued[r]] = Null
        /\ \A q \in Requests : issued[q] = issued[r] => q = r

CarefulRequest(r) ==
    AwaitedOK(r) /\ AbandonedOK(r) /\ PresentedOK(r) /\ IssuedOK(r)

CarefulInv ==
    /\ OneHolder /\ OneRequest /\ HeldOK
    /\ \A r \in Requests : CarefulRequest(r)

-----------------------------------------------------------------------------
(* Devices are callers of AuthService.                                     *)

(* What the devices do is what AuthService expects of its callers.         *)
LEMMA DevicesStep ==
    ASSUME DevicesOK, [DevicesNext]_allVars
    PROVE  [Next]_vars
<1>1. ASSUME NEW d \in Clients, NEW r \in Requests,
             SignIn(d, r) \/ RefreshHeld(d, r) \/ SignOut(d, r)
      PROVE  Arrive(r)
  BY <1>1 DEF SignIn, RefreshHeld, SignOut, Arrive, DevicesOK
<1>2. ASSUME NEW r \in Requests, Receive(r) \/ Abandon(r) \/ ResponseLost(r)
      PROVE  [Next]_vars
  BY <1>2 DEF Receive, Abandon, ResponseLost, Next
<1>3. ServerCrash => Next
  BY DEF ServerCrash, Next
<1>4. ServiceStep => Next
  BY DEF ServiceStep, Next
<1>5. UNCHANGED allVars => UNCHANGED vars
  BY DEF allVars
<1> QED BY <1>1, <1>2, <1>3, <1>4, <1>5 DEF DevicesNext, Next

(* What a device gets to hold was handed to it.                            *)
LEMMA DevicesKeep ==
    ASSUME DevicesInv, [DevicesNext]_allVars
    PROVE  DevicesInv'
<1> USE DEF DevicesInv
<1>1. IInv' /\ TypeOK'
  BY DevicesStep, NextPreserves DEF IInv
<1>2. \A r \in Requests : issued[r] \in TokenIds \cup {Null}
  BY DEF DevicesTypeOK, TypeOK
<1> USE DEF DevicesTypeOK, DevicesOK
<1>3. ASSUME NEW d \in Clients, NEW r \in Requests,
             SignIn(d, r) \/ RefreshHeld(d, r) \/ SignOut(d, r)
      PROVE  DevicesInv'
  <2>1. Send(d, r) /\ UNCHANGED handedOut
    BY <1>3 DEF SignIn, RefreshHeld, SignOut, Register, Login, Refresh, Logout, Start
  <2> QED BY <1>1, <2>1 DEF Send
<1>4. ASSUME NEW r \in Requests, Receive(r) PROVE DevicesInv'
  <2>1. origin[r] \in Clients /\ handedOut' = handedOut \cup ({issued[r]} \ {Null})
    BY <1>4 DEF Receive, Deliver
  <2>2. AfterResponse(origin[r], r) \in handedOut' \cup {Null}
    BY <2>1 DEF AfterResponse, AfterUnknown
  <2> QED BY <1>1, <1>4, <2>1, <2>2 DEF Receive, TypeOK
<1>5. ASSUME NEW r \in Requests, Abandon(r) PROVE DevicesInv'
  <2>1. origin[r] \in Clients /\ UNCHANGED handedOut
    BY <1>5 DEF Abandon, vars
  <2>2. AfterUnknown(origin[r]) \in handedOut \cup {Null}
    BY <2>1 DEF AfterUnknown
  <2> QED BY <1>1, <1>5, <2>1, <2>2 DEF Abandon, TypeOK
<1>6. ASSUME NEW r \in Requests, ResponseLost(r) PROVE DevicesInv'
  BY <1>1, <1>6 DEF ResponseLost, Drop
<1>7. CASE ServerCrash
  <2>1. UNCHANGED handedOut
    BY <1>7 DEF ServerCrash, Crash
  <2>2. \A d \in Clients : AfterUnknown(d) \in handedOut \cup {Null}
    BY DEF AfterUnknown
  <2> QED BY <1>1, <1>7, <2>1, <2>2 DEF ServerCrash, TypeOK
<1>8. CASE ServiceStep
  <2>1. UNCHANGED handedOut
    BY <1>8 DEF ServiceStep, Tick, CallFails, Handle, UsersCreate, FindByEmail,
                StartSession, RefreshFindByHash, RevokeAll, RefreshFindByID,
                TokensUpdate, LogoutFindByHash, SuspendFindByID, UsersUpdate,
                arguments
  <2> QED BY <1>1, <1>8, <2>1 DEF ServiceStep, deviceVars
<1>9. CASE UNCHANGED allVars
  BY <1>1, <1>9 DEF allVars, vars, deviceVars
<1> QED BY <1>3, <1>4, <1>5, <1>6, <1>7, <1>8, <1>9 DEF DevicesNext

-----------------------------------------------------------------------------
(* Devices that never present a token twice.                               *)

(* A request that is sent presents what its device holds.                  *)
LEMMA SentStep ==
    ASSUME DevicesInv, CarefulInv, NEW d \in Clients, NEW r \in Requests,
           SignIn(d, r) \/ RefreshHeld(d, r) \/ SignOut(d, r)
    PROVE  CarefulInv'
<1> USE DEF DevicesInv, IInv, DevicesTypeOK, TypeOK
<1>1. /\ pc[r] = "idle" /\ pc'[r] \notin {"idle", "users.FindByID",
                          "tokens.Update", "tokens.RevokeAllForUser"}
      /\ token' = [token EXCEPT ![r] = held[d]]
      /\ \A q \in Requests : q # r => pc'[q] = pc[q]
      /\ UNCHANGED <<tokenRevoked, issued, handedOut>>
  BY DEF SignIn, RefreshHeld, SignOut, Register, Login, Refresh, Logout, Start,
         database
<1>2. /\ ~ Waiting(d) /\ origin' = [origin EXCEPT ![r] = d]
      /\ awaited' = awaited \cup {r} /\ UNCHANGED held
  BY DEF SignIn, RefreshHeld, SignOut, Send
<1>3. r \notin awaited
  BY <1>1 DEF CarefulInv, CarefulRequest, AwaitedOK
<1>4. OneHolder'
  BY <1>2 DEF CarefulInv, OneHolder
<1>5. OneRequest'
  BY <1>2, <1>3 DEF CarefulInv, OneRequest, Waiting
<1>6. HeldOK'
  BY <1>1, <1>2, <1>3 DEF CarefulInv, HeldOK, Waiting
<1>7. ASSUME NEW q \in Requests, q # r, held[d] # Null PROVE token[q] # held[d]
  BY <1>2, <1>7 DEF CarefulInv, CarefulRequest, AwaitedOK, AbandonedOK, OneHolder,
                    Waiting, DevicesOK
<1>8. ASSUME NEW q \in Requests PROVE CarefulRequest(q)'
  <2>1. CASE q = r
    <3>1. AwaitedOK(q)' /\ AbandonedOK(q)'
      BY <1>1, <1>2, <2>1 DEF AwaitedOK, AbandonedOK
    <3>2. held[d] # Null => tokenRevoked[held[d]] = Null
      BY <1>2 DEF CarefulInv, HeldOK
    <3>3. PresentedOK(q)'
      BY <1>1, <1>2, <1>7, <2>1, <3>2 DEF PresentedOK, DevicesOK
    <3>4. IssuedOK(q)'
      BY <1>1 DEF CarefulInv, CarefulRequest, IssuedOK
    <3> QED BY <3>1, <3>3, <3>4 DEF CarefulRequest
  <2>2. CASE q # r
    <3>1. token'[q] = token[q] /\ pc'[q] = pc[q] /\ origin'[q] = origin[q]
          /\ (q \in awaited' <=> q \in awaited)
      BY <1>1, <1>2, <2>2
    <3>2. AwaitedOK(q)' /\ AbandonedOK(q)'
      BY <1>2, <3>1 DEF CarefulInv, CarefulRequest, AwaitedOK, AbandonedOK
    <3>3. PresentedOK(q)'
      BY <1>1, <1>7, <2>2, <3>1 DEF CarefulInv, CarefulRequest, PresentedOK
    <3>4. IssuedOK(q)'
      BY <1>1 DEF CarefulInv, CarefulRequest, IssuedOK
    <3> QED BY <3>2, <3>3, <3>4 DEF CarefulRequest
  <2> QED BY <2>1, <2>2
<1> QED BY <1>4, <1>5, <1>6, <1>8 DEF CarefulInv

(* What a call of a use case does to tokens when no replay is handled.     *)
LEMMA WorkStep ==
    ASSUME IInv, NEW r \in Requests, pc[r] # "tokens.RevokeAllForUser",
           Handle(r) \/ CallFails(r)
    PROVE  /\ UNCHANGED <<token, handedOut>> /\ pc[r] # "idle" /\ pc'[r] # "idle"
           /\ pc'[r] # "tokens.FindByHash"
           /\ pc'[r] \in {"users.FindByID", "tokens.Update"} =>
                 /\ pc[r] \in {"tokens.FindByHash", "users.FindByID"}
                 /\ UNCHANGED tokenRevoked
           /\ pc'[r] = "tokens.RevokeAllForUser" =>
                 /\ pc[r] = "tokens.FindByHash" /\ token[r] # Null
                 /\ tokenRevoked[token[r]] # Null
           /\ \A t \in TokenIds : Stored(t) =>
                 \/ tokenRevoked'[t] = tokenRevoked[t]
                 \/ pc[r] = "tokens.Update" /\ t = token[r]
           /\ \A q \in Requests : q # r => pc'[q] = pc[q] /\ issued'[q] = issued[q]
           /\ \/ issued'[r] = issued[r]
              \/ /\ issued'[r] \in FreshTokens
                 /\ tokenRevoked'[issued'[r]] = Null
<1> USE DEF IInv, TypeOK, StoreTypeOK, Goto, Return, Lost, arguments
<1>1. CASE CallFails(r)
  BY <1>1 DEF CallFails, Calls, database
<1>2. CASE UsersCreate(r)
  BY <1>2 DEF UsersCreate, InsertUser, tokenTable, database
<1>3. CASE FindByEmail(r)
  BY <1>3 DEF FindByEmail, database
<1>4. CASE StartSession(r)
  BY <1>4 DEF StartSession, InsertToken, FreshTokens, Stored, database
<1>5. CASE RefreshFindByHash(r)
  BY <1>5 DEF RefreshFindByHash, Validate, database
<1>6. CASE RevokeAll(r)
  BY <1>6 DEF RevokeAll
<1>7. CASE RefreshFindByID(r) \/ LogoutFindByHash(r) \/ SuspendFindByID(r)
  BY <1>7 DEF RefreshFindByID, LogoutFindByHash, SuspendFindByID, database
<1>8. CASE TokensUpdate(r)
  BY <1>8 DEF TokensUpdate, UpdateToken, database
<1>9. CASE UsersUpdate(r)
  BY <1>9 DEF UsersUpdate, UpdateUser, tokenTable, database
<1> QED BY <1>1, <1>2, <1>3, <1>4, <1>5, <1>6, <1>7, <1>8, <1>9 DEF Handle

(* A request works on; the tokens of the others are not its business.      *)
LEMMA CarefulHandle ==
    ASSUME DevicesInv, CarefulInv, NEW r \in Requests, Handle(r) \/ CallFails(r),
           UNCHANGED deviceVars
    PROVE  CarefulInv'
<1> USE DEF DevicesInv, IInv, DevicesTypeOK, TypeOK, deviceVars
<1>1. PresentedOK(r) /\ AwaitedOK(r) /\ AbandonedOK(r) /\ IssuedOK(r)
  BY DEF CarefulInv, CarefulRequest
<1>2. pc[r] # "tokens.RevokeAllForUser"
  BY <1>1 DEF PresentedOK
<1>3. \A t \in handedOut : t \in TokenIds /\ Stored(t)
  BY DEF HandedOutOK
<1>4. \A q \in Requests : issued[q] # Null => issued[q] \in TokenIds /\ Stored(issued[q])
  BY DEF RequestOK, ArgumentsOK
<1>5. OneHolder' /\ OneRequest'
  BY DEF CarefulInv, OneHolder, OneRequest
<1>6. HeldOK'
  <2>1. ASSUME NEW d \in Clients, held[d] # Null, ~ Waiting(d)
        PROVE  tokenRevoked'[held[d]] = Null
    <3>1. held[d] # token[r]
      BY <1>1, <2>1 DEF AwaitedOK, AbandonedOK, Waiting, CarefulInv, OneHolder,
                        DevicesOK
    <3>2. held[d] \in TokenIds /\ Stored(held[d])
      BY <1>3, <2>1 DEF DevicesOK
    <3> QED BY <1>2, <2>1, <3>1, <3>2, WorkStep DEF CarefulInv, HeldOK
  <2> QED BY <2>1 DEF HeldOK, Waiting
<1>7. ASSUME NEW q \in Requests PROVE CarefulRequest(q)'
  <2>0. /\ UNCHANGED <<token, handedOut>>
        /\ q # r => pc'[q] = pc[q] /\ issued'[q] = issued[q]
        /\ pc[r] # "idle" /\ pc'[r] # "idle"
    BY <1>2, WorkStep
  <2>1. PresentedOK(q) /\ AwaitedOK(q) /\ AbandonedOK(q) /\ IssuedOK(q)
    BY DEF CarefulInv, CarefulRequest
  <2>2. AwaitedOK(q)' /\ AbandonedOK(q)'
    BY <2>0, <2>1 DEF AwaitedOK, AbandonedOK
  <2>3. token[q] # Null => token[q] \in TokenIds /\ Stored(token[q])
    BY <1>3, <2>1 DEF PresentedOK
  <2>4. PresentedOK(q)'
    <3>1. CASE q = r
      <4>1. pc'[r] # "tokens.RevokeAllForUser"
        BY <1>1, <1>2, WorkStep DEF PresentedOK
      <4>2. pc'[r] \in {"tokens.FindByHash", "users.FindByID", "tokens.Update"}
               /\ token[r] # Null => tokenRevoked'[token[r]] = Null
        BY <1>1, <1>2, WorkStep DEF PresentedOK
      <4> QED BY <2>0, <2>1, <3>1, <4>1, <4>2 DEF PresentedOK
    <3>2. CASE q # r
      <4>1. token[q] # Null => tokenRevoked'[token[q]] = tokenRevoked[token[q]]
        BY <1>1, <1>2, <2>1, <2>3, <3>2, WorkStep DEF PresentedOK
      <4> QED BY <2>0, <2>1, <3>2, <4>1 DEF PresentedOK
    <3> QED BY <3>1, <3>2
  <2>5. IssuedOK(q)'
    <3>1. \A t \in FreshTokens : t \in TokenIds /\ ~ Stored(t)
      BY DEF FreshTokens, Stored
    <3>2. \A p \in Requests : issued[p] # Null =>
              /\ issued[p] \notin handedOut /\ tokenRevoked'[issued[p]] = Null
      <4>1. ASSUME NEW p \in Requests, issued[p] # Null
            PROVE  /\ issued[p] \notin handedOut
                   /\ tokenRevoked'[issued[p]] = Null
        <5>1. issued[p] \notin handedOut /\ tokenRevoked[issued[p]] = Null
          BY <4>1 DEF CarefulInv, CarefulRequest, IssuedOK
        <5>2. issued[p] # token[r]
          BY <1>1, <4>1, <5>1 DEF PresentedOK
        <5> QED BY <1>2, <1>4, <4>1, <5>1, <5>2, WorkStep
      <4> QED BY <4>1
    <3>3. \/ issued'[r] = issued[r]
          \/ issued'[r] \in FreshTokens /\ tokenRevoked'[issued'[r]] = Null
      BY <1>2, WorkStep
    <3>4. \A p \in Requests : p # r => issued'[p] = issued[p]
      BY <1>2, WorkStep
    <3>5. \A p \in Requests : issued[p] # Null =>
              \A x \in Requests : issued[x] = issued[p] => x = p
      BY DEF CarefulInv, CarefulRequest, IssuedOK
    <3>6. CASE issued'[r] = issued[r]
      <4>1. \A p \in Requests : issued'[p] = issued[p]
        BY <3>4, <3>6
      <4> QED BY <2>0, <3>2, <3>5, <4>1 DEF IssuedOK
    <3>7. CASE issued'[r] \in FreshTokens /\ tokenRevoked'[issued'[r]] = Null
      <4>1. issued'[r] \notin handedOut
            /\ \A p \in Requests : issued[p] # issued'[r]
        BY <1>3, <1>4, <3>1, <3>7
      <4>2. CASE q = r
        BY <2>0, <3>4, <3>7, <4>1, <4>2 DEF IssuedOK
      <4>3. CASE q # r
        BY <2>0, <3>2, <3>4, <3>5, <4>1, <4>3 DEF IssuedOK
      <4> QED BY <4>2, <4>3
    <3> QED BY <3>3, <3>6, <3>7
  <2> QED BY <2>2, <2>4, <2>5 DEF CarefulRequest
<1> QED BY <1>5, <1>6, <1>7 DEF CarefulInv

(* A blank slot presents and issues nothing; the others are as before.     *)
LEMMA ForgetTokens ==
    ASSUME TypeOK, NEW rs \in SUBSET Requests, Forget(rs), NEW q \in Requests
    PROVE  /\ UNCHANGED tokenRevoked
           /\ q \in rs => token'[q] = Null /\ issued'[q] = Null /\ pc'[q] = "idle"
           /\ q \notin rs => /\ token'[q] = token[q] /\ issued'[q] = issued[q]
                             /\ pc'[q] = pc[q]
BY DEF TypeOK, Forget, Blank, database

(* A response reaches the device that waits for it.                        *)
LEMMA CarefulReceive ==
    ASSUME ~ Retry, DevicesInv, CarefulInv, NEW r \in Requests, Receive(r)
    PROVE  CarefulInv'
<1> USE DEF DevicesInv, IInv, DevicesTypeOK
<1> DEFINE d == origin[r]
<1>1. /\ r \in awaited /\ d \in Clients
      /\ held' = [held EXCEPT ![d] = issued[r]]
      /\ origin' = [origin EXCEPT ![r] = Null] /\ awaited' = awaited \ {r}
      /\ handedOut' = handedOut \cup ({issued[r]} \ {Null})
  <2>1. r \in awaited /\ d \in Clients
    BY DEF Receive, DevicesOK
  <2>2. AfterResponse(d, r) = issued[r]
    BY DEF AfterResponse, AfterUnknown
  <2> QED BY <2>1, <2>2 DEF Receive, Deliver
<1>2. \A q \in Requests :
          /\ UNCHANGED tokenRevoked
          /\ q = r => token'[q] = Null /\ issued'[q] = Null /\ pc'[q] = "idle"
          /\ q # r => /\ token'[q] = token[q] /\ issued'[q] = issued[q]
                      /\ pc'[q] = pc[q]
  BY ForgetTokens DEF Receive, Deliver
<1>3. ASSUME issued[r] # Null
      PROVE  /\ issued[r] \notin handedOut /\ tokenRevoked[issued[r]] = Null
             /\ \A q \in Requests : issued[q] = issued[r] => q = r
             /\ \A q \in Requests : token[q] # issued[r]
             /\ \A e \in Clients : held[e] # issued[r]
  <2>1. /\ issued[r] \notin handedOut /\ tokenRevoked[issued[r]] = Null
        /\ \A q \in Requests : issued[q] = issued[r] => q = r
    BY <1>3 DEF CarefulInv, CarefulRequest, IssuedOK
  <2>2. \A q \in Requests : token[q] # issued[r]
    BY <1>3, <2>1 DEF CarefulInv, CarefulRequest, PresentedOK
  <2>3. \A e \in Clients : held[e] # issued[r]
    BY <1>3, <2>1 DEF DevicesOK
  <2> QED BY <2>1, <2>2, <2>3
<1>4. OneHolder'
  BY <1>1, <1>3 DEF CarefulInv, OneHolder
<1>5. OneRequest'
  BY <1>1 DEF CarefulInv, OneRequest
<1>6. \A q \in awaited : q # r => origin[q] # d
  BY <1>1 DEF CarefulInv, OneRequest
<1>7. HeldOK'
  <2>1. ASSUME NEW e \in Clients, e # d PROVE Waiting(e) => Waiting(e)'
    <3>1. ASSUME NEW q \in awaited, origin[q] = e
          PROVE  q \in awaited' /\ origin'[q] = e
      BY <1>1, <2>1, <3>1
    <3> QED BY <3>1 DEF Waiting
  <2>2. ASSUME NEW e \in Clients, held'[e] # Null, ~ Waiting(e)'
        PROVE  tokenRevoked'[held'[e]] = Null
    <3>1. CASE e = d
      BY <1>1, <1>2, <1>3, <2>2, <3>1
    <3>2. CASE e # d
      <4>1. held'[e] = held[e] /\ ~ Waiting(e)
        BY <1>1, <2>1, <2>2, <3>2
      <4>2. tokenRevoked[held[e]] = Null
        BY <2>2, <4>1 DEF CarefulInv, HeldOK
      <4> QED BY <1>2, <4>1, <4>2
    <3> QED BY <3>1, <3>2
  <2> QED BY <2>2 DEF HeldOK
<1>8. ASSUME NEW q \in Requests PROVE CarefulRequest(q)'
  <2>1. CASE q = r
    BY <1>1, <1>2, <2>1 DEF CarefulRequest, AwaitedOK, AbandonedOK, PresentedOK,
                            IssuedOK
  <2>2. CASE q # r
    <3>1. PresentedOK(q) /\ AwaitedOK(q) /\ AbandonedOK(q) /\ IssuedOK(q)
      BY DEF CarefulInv, CarefulRequest
    <3>2. AwaitedOK(q)'
      <4>1. q \in awaited => origin'[q] = origin[q] /\ held'[origin[q]] = held[origin[q]]
        BY <1>1, <1>6, <2>2 DEF DevicesOK
      <4> QED BY <1>1, <1>2, <2>2, <3>1, <4>1 DEF AwaitedOK
    <3>3. AbandonedOK(q)'
      BY <1>1, <1>2, <1>3, <2>2, <3>1 DEF AbandonedOK
    <3>4. PresentedOK(q)'
      BY <1>1, <1>2, <2>2, <3>1 DEF PresentedOK
    <3>5. IssuedOK(q)'
      <4>1. issued[q] # Null => issued[q] # issued[r]
        BY <1>3, <2>2, <3>1 DEF IssuedOK
      <4> QED BY <1>1, <1>2, <2>2, <3>1, <4>1 DEF IssuedOK
    <3> QED BY <3>2, <3>3, <3>4, <3>5 DEF CarefulRequest
  <2> QED BY <2>1, <2>2
<1> QED BY <1>4, <1>5, <1>7, <1>8 DEF CarefulInv

(* A device that gives up waiting forgets the token it has presented.      *)
LEMMA CarefulAbandon ==
    ASSUME ~ Retry, DevicesInv, CarefulInv, NEW r \in Requests, Abandon(r)
    PROVE  CarefulInv'
<1> USE DEF DevicesInv, DevicesTypeOK
<1> DEFINE d == origin[r]
<1>1. /\ r \in awaited /\ d \in Clients /\ held' = [held EXCEPT ![d] = Null]
      /\ awaited' = awaited \ {r} /\ UNCHANGED origin
      /\ UNCHANGED <<tokenRevoked, token, pc, issued, handedOut>>
  BY DEF Abandon, AfterUnknown, DevicesOK, vars, database, locals
<1>2. \A q \in awaited : q # r => origin[q] # d
  BY <1>1 DEF CarefulInv, OneRequest
<1>3. OneHolder' /\ OneRequest'
  BY <1>1 DEF CarefulInv, OneHolder, OneRequest
<1>4. HeldOK'
  BY <1>1, <1>2 DEF CarefulInv, HeldOK, Waiting
<1>5. ASSUME NEW q \in Requests PROVE CarefulRequest(q)'
  <2>1. PresentedOK(q) /\ AwaitedOK(q) /\ AbandonedOK(q) /\ IssuedOK(q)
    BY DEF CarefulInv, CarefulRequest
  <2>2. PresentedOK(q)' /\ IssuedOK(q)'
    BY <1>1, <2>1 DEF PresentedOK, IssuedOK
  <2>3. AwaitedOK(q)'
    BY <1>1, <1>2, <2>1 DEF AwaitedOK, DevicesOK
  <2>4. AbandonedOK(q)'
    <3>1. CASE q = r
      BY <1>1, <2>1, <3>1 DEF AbandonedOK, AwaitedOK, CarefulInv, OneHolder
    <3>2. CASE q # r
      BY <1>1, <2>1, <3>2 DEF AbandonedOK
    <3> QED BY <3>1, <3>2
  <2> QED BY <2>2, <2>3, <2>4 DEF CarefulRequest
<1> QED BY <1>3, <1>4, <1>5 DEF CarefulInv

(* A response nobody waits for takes nothing from anybody.                 *)
LEMMA CarefulLoss ==
    ASSUME DevicesInv, CarefulInv, NEW r \in Requests, ResponseLost(r)
    PROVE  CarefulInv'
<1> USE DEF DevicesInv, IInv, DevicesTypeOK
<1>1. /\ r \notin awaited /\ origin' = [origin EXCEPT ![r] = Null]
      /\ UNCHANGED <<held, awaited, handedOut>>
  BY DEF ResponseLost, Drop
<1>2. \A q \in Requests :
          /\ UNCHANGED tokenRevoked
          /\ q = r => token'[q] = Null /\ issued'[q] = Null /\ pc'[q] = "idle"
          /\ q # r => /\ token'[q] = token[q] /\ issued'[q] = issued[q]
                      /\ pc'[q] = pc[q]
  BY ForgetTokens DEF ResponseLost, Drop
<1>3. OneHolder' /\ OneRequest'
  BY <1>1 DEF CarefulInv, OneHolder, OneRequest
<1>4. HeldOK'
  BY <1>1, <1>2 DEF CarefulInv, HeldOK, Waiting
<1>5. ASSUME NEW q \in Requests PROVE CarefulRequest(q)'
  <2>1. CASE q = r
    BY <1>1, <1>2, <2>1 DEF CarefulRequest, AwaitedOK, AbandonedOK, PresentedOK,
                            IssuedOK
  <2>2. CASE q # r
    BY <1>1, <1>2, <2>2 DEF CarefulInv, CarefulRequest, AwaitedOK, AbandonedOK,
                            PresentedOK, IssuedOK
  <2> QED BY <2>1, <2>2
<1> QED BY <1>3, <1>4, <1>5 DEF CarefulInv

(* When the process dies, whoever waits forgets the token it presented.    *)
LEMMA CarefulCrash ==
    ASSUME ~ Retry, DevicesInv, CarefulInv, ServerCrash
    PROVE  CarefulInv'
<1> USE DEF DevicesInv, IInv, DevicesTypeOK
<1>1. /\ \A d \in Clients : held'[d] = IF Waiting(d) THEN Null ELSE held[d]
      /\ awaited' = {} /\ UNCHANGED handedOut
  BY DEF ServerCrash, Crash, AfterUnknown
<1>2. \A q \in Requests : /\ UNCHANGED tokenRevoked
                          /\ token'[q] = Null /\ issued'[q] = Null
                          /\ pc'[q] = "idle"
  BY ForgetTokens DEF ServerCrash, Crash
<1>3. UNCHANGED tokenRevoked
  BY DEF ServerCrash, Crash, Forget, database
<1>4. OneHolder' /\ OneRequest'
  BY <1>1 DEF CarefulInv, OneHolder, OneRequest
<1>5. HeldOK'
  BY <1>1, <1>3 DEF CarefulInv, HeldOK, Waiting
<1>6. \A q \in Requests : CarefulRequest(q)'
  BY <1>1, <1>2 DEF CarefulRequest, AwaitedOK, AbandonedOK, PresentedOK, IssuedOK
<1> QED BY <1>4, <1>5, <1>6 DEF CarefulInv

(* CarefulInv is inductive for careful devices.                            *)
LEMMA CarefulStep ==
    ASSUME ~ Retry, DevicesInv, CarefulInv, [DevicesNext]_allVars
    PROVE  CarefulInv'
<1>1. CASE UNCHANGED <<tokenRevoked, token, pc, issued, handedOut, deviceVars>>
  BY <1>1 DEF deviceVars, CarefulInv, OneHolder, OneRequest, HeldOK, Waiting,
              CarefulRequest, AwaitedOK, AbandonedOK, PresentedOK, IssuedOK
<1>2. CASE Tick /\ UNCHANGED deviceVars
  BY <1>1, <1>2 DEF Tick, locals, database
<1>3. CASE UNCHANGED allVars
  BY <1>1, <1>3 DEF allVars, vars, locals, database
<1>4. CASE ServiceStep
  BY <1>2, <1>4, CarefulHandle DEF ServiceStep
<1> QED BY <1>3, <1>4, SentStep, CarefulReceive, CarefulAbandon, CarefulLoss,
           CarefulCrash DEF DevicesNext

-----------------------------------------------------------------------------
(* Theorems.                                                               *)

(* What AuthService guarantees its callers it guarantees the devices, and  *)
(* the devices only ever hold tokens they were handed.                     *)
THEOREM DevicesInvariance == DevicesSpec => []DevicesInv
<1>1. DevicesInit => DevicesInv
  <2> SUFFICES ASSUME DevicesInit PROVE DevicesInv
    OBVIOUS
  <2>1. IInv
    BY InitEstablishes DEF DevicesInit
  <2> QED BY <2>1 DEF DevicesInit, DevicesInv, DevicesTypeOK, DevicesOK, IInv
<1>2. DevicesInv /\ [DevicesNext]_allVars => DevicesInv'
  BY DevicesKeep
<1> QED BY <1>1, <1>2, PTL DEF DevicesSpec

(* The service among devices is the service among arbitrary callers: all   *)
(* that is proved of Spec holds of it.                                     *)
THEOREM DevicesImplementService == DevicesSpec => Spec
<1>1. DevicesInit => Init
  BY DEF DevicesInit
<1>2. DevicesInv /\ [DevicesNext]_allVars => [Next]_vars
  BY DevicesStep DEF DevicesInv
<1> QED BY <1>1, <1>2, DevicesInvariance, PTL DEF DevicesSpec, Spec

(* The devices' state is well-formed.                                      *)
THEOREM DevicesTypeCorrectness == DevicesSpec => []DevicesTypeOK
<1>1. DevicesInv => DevicesTypeOK
  BY DEF DevicesInv
<1> QED BY <1>1, DevicesInvariance, PTL

(* Careful devices keep to CarefulInv.                                     *)
THEOREM CarefulInvariance == ~ Retry => (DevicesSpec => []CarefulInv)
<1> SUFFICES ASSUME ~ Retry PROVE DevicesSpec => []CarefulInv
  OBVIOUS
<1>1. DevicesInit => CarefulInv
  BY DEF DevicesInit, Init, CarefulInv, OneHolder, OneRequest, HeldOK,
         CarefulRequest, AwaitedOK, AbandonedOK, PresentedOK, IssuedOK
<1>2. DevicesInv /\ CarefulInv /\ [DevicesNext]_allVars => CarefulInv'
  BY CarefulStep
<1> QED BY <1>1, <1>2, DevicesInvariance, PTL DEF DevicesSpec

(* The body of SignedOutOnlyByOwnDevice.                                   *)
OwnDeviceOnly ==
    \A d \in Clients :
        held[d] # Null /\ Live(held[d]) /\ ~ Live(held[d])' =>
            \E r \in Requests : origin[r] = d /\ token[r] = held[d]

(* A session ends on a device only while a request of that device, with    *)
(* that very token, is under way.                                          *)
LEMMA OwnDeviceStep ==
    ASSUME DevicesInv, CarefulInv, [DevicesNext]_allVars
    PROVE  OwnDeviceOnly
<1> USE DEF DevicesInv, IInv, DevicesTypeOK
<1>0. ASSUME NEW d \in Clients, Waiting(d)
      PROVE  \E r \in Requests : origin[r] = d /\ token[r] = held[d]
  BY <1>0 DEF CarefulInv, CarefulRequest, AwaitedOK, Waiting
(* A device whose token changes hands was waiting.                         *)
<1>1. ASSUME UNCHANGED database,
             \A d \in Clients : Waiting(d) \/ held'[d] = held[d]
      PROVE  OwnDeviceOnly
  <2>1. ASSUME NEW d \in Clients, held'[d] = held[d]
        PROVE  Live(held[d]) => Live(held[d])'
    BY <1>1, <2>1 DEF Live, database
  <2> QED BY <1>0, <1>1, <2>1 DEF OwnDeviceOnly
<1>2. ASSUME NEW d \in Clients, NEW r \in Requests,
             SignIn(d, r) \/ RefreshHeld(d, r) \/ SignOut(d, r)
      PROVE  OwnDeviceOnly
  <2>1. UNCHANGED <<database, held>>
    BY <1>2 DEF SignIn, RefreshHeld, SignOut, Register, Login, Refresh, Logout,
                Start, Send
  <2> QED BY <1>1, <2>1
<1>3. ASSUME NEW r \in Requests, Receive(r) \/ Abandon(r) PROVE OwnDeviceOnly
  <2>1. UNCHANGED database
    BY <1>3 DEF Receive, Deliver, Forget, Abandon, vars
  <2>2. ASSUME NEW d \in Clients PROVE Waiting(d) \/ held'[d] = held[d]
    BY <1>3 DEF Receive, Abandon, Waiting
  <2> QED BY <1>1, <2>1, <2>2
<1>4. ASSUME NEW r \in Requests, ResponseLost(r) PROVE OwnDeviceOnly
  <2>1. UNCHANGED <<database, held>>
    BY <1>4 DEF ResponseLost, Drop, Forget
  <2> QED BY <1>1, <2>1
<1>5. CASE ServerCrash
  <2>1. UNCHANGED database
    BY <1>5 DEF ServerCrash, Crash, Forget
  <2>2. \A d \in Clients : Waiting(d) \/ held'[d] = held[d]
    BY <1>5 DEF ServerCrash
  <2> QED BY <1>1, <2>1, <2>2
<1>6. ASSUME NEW r \in Requests, Handle(r) \/ CallFails(r), UNCHANGED deviceVars
      PROVE  OwnDeviceOnly
  <2>1. tokens \subseteq tokens'
    BY <1>6 DEF CallFails, Handle, UsersCreate, FindByEmail, StartSession,
                RefreshFindByHash, RevokeAll, RefreshFindByID, TokensUpdate,
                LogoutFindByHash, SuspendFindByID, UsersUpdate, InsertUser,
                InsertToken, UpdateToken, RevokeAllForUser, UpdateUser,
                tokenTable, database
  <2>2. ASSUME NEW d \in Clients, held[d] # Null, Live(held[d]), ~ Live(held[d])'
        PROVE  origin[r] = d /\ token[r] = held[d]
    <3>1. held[d] \in TokenIds /\ Stored(held[d])
      BY <2>2 DEF DevicesOK, HandedOutOK, TypeOK
    <3>2. tokenRevoked'[held[d]] # tokenRevoked[held[d]]
      BY <1>6, <2>1, <2>2 DEF Live, deviceVars
    <3>3. CarefulRequest(r)
      BY DEF CarefulInv
    <3>4. token[r] = held[d]
      BY <1>6, <3>1, <3>2, <3>3, WorkStep DEF CarefulRequest, PresentedOK
    <3>5. r \in awaited /\ held[origin[r]] = held[d] /\ origin[r] \in Clients
      BY <2>2, <3>3, <3>4 DEF CarefulRequest, AwaitedOK, AbandonedOK, DevicesOK
    <3> QED BY <2>2, <3>4, <3>5 DEF CarefulInv, OneHolder
  <2> QED BY <2>2 DEF OwnDeviceOnly
<1>7. CASE UNCHANGED allVars
  BY <1>1, <1>7 DEF allVars, vars, deviceVars
<1>8. CASE Tick /\ UNCHANGED deviceVars
  BY <1>1, <1>8 DEF Tick, deviceVars
<1>9. CASE ServiceStep
  BY <1>6, <1>8, <1>9 DEF ServiceStep
<1> QED BY <1>2, <1>3, <1>4, <1>5, <1>7, <1>9 DEF DevicesNext

(* However many devices share an account and whatever fails, devices that  *)
(* do not present a token again never end each other's sessions.           *)
THEOREM CarefulDevicesCoexist ==
    ~ Retry => (DevicesSpec => SignedOutOnlyByOwnDevice)
<1> SUFFICES ASSUME ~ Retry PROVE DevicesSpec => SignedOutOnlyByOwnDevice
  OBVIOUS
<1>1. DevicesInv /\ CarefulInv /\ [DevicesNext]_allVars => [OwnDeviceOnly]_allVars
  BY OwnDeviceStep
<1>2. DevicesSpec => []CarefulInv
  BY CarefulInvariance
<1> QED BY <1>1, <1>2, DevicesInvariance, PTL
        DEF DevicesSpec, SignedOutOnlyByOwnDevice, OwnDeviceOnly

(* Careful devices never set off the reuse detection.                      *)
THEOREM NoFalseAlarm ==
    ~ Retry => (DevicesSpec =>
        [](\A r \in Requests : pc[r] # "tokens.RevokeAllForUser"))
<1> SUFFICES ASSUME ~ Retry
             PROVE  DevicesSpec =>
                        [](\A r \in Requests : pc[r] # "tokens.RevokeAllForUser")
  OBVIOUS
<1>1. CarefulInv => \A r \in Requests : pc[r] # "tokens.RevokeAllForUser"
  BY DEF CarefulInv, CarefulRequest, PresentedOK
<1>2. DevicesSpec => []CarefulInv
  BY CarefulInvariance
<1> QED BY <1>1, <1>2, PTL

=============================================================================
