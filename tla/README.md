# Coinly: TLA+ models, checks and proofs

This directory holds a formal model of Coinly's identity service and of the
shared packages it stands on. TLC checks the modules on small instances;
TLAPS proves the main theorems for every value of the constants.
`PROJECT.json` is the index: components, runs, mutants, the map from
definitions to source lines, hazards, findings and theorems.

## 1. The system

Coinly is planned as a set of Go services around a double-entry ledger. What
exists today is the identity service and a few shared packages.

| Component | State it keeps | Operations | Module |
|---|---|---|---|
| `identity/internal/domain` | none: users and refresh tokens are values | `NormalizeEmail`, `NewUser`, `Authenticate`, `Suspend`, `Validate`, `Revoke`, password hashing | `IdentityDomain` |
| `adapters/out/postgres` | tables `users` and `refresh_tokens` | one statement per method, no transactions | `IdentityStore` |
| `app.AuthService` | none of its own; every request works on rows it has read | `Register`, `Login`, `Refresh`, `Logout`, `GetUser` | `AuthService` |
| `pkg/jwtx`, `adapters/out/token`, `pkg/httpx` auth | the signing key of a process | `Sign`, `Verify`, `JWKS`, `RequireAuth`, `GET /v1/users/me` | `AccessTokens` |
| `pkg/money` | none | `New`, `Add`, `Sub`, `Neg`, `Split` | `Money` |
| `adapters/in/httpapi`, `pkg/httpx` | none | decoding of bodies, the POST routes, status codes | `HttpCodec`, `HttpApi`; `AccessTokens!Me` for the GET routes |
| `config`, `pkg/jwtx` PEM | none | `Load`, `ParsePrivateKeyPEM` | `Configuration` |
| `cmd/identity`, `postgres.Connect`, `Migrate` | the process: pool, server, key, signal context | start, migrate, serve, drain, exit | `Process` |
| `app/apptest` | maps of users and tokens, a clock | the repositories the tests run on | `MemoryStore` |

**Interactions.** A request is one goroutine. It calls `AuthService`, which
calls the repositories one statement at a time; requests meet only in the
database, and replicas of the service share it. The access token a session
starts with is signed in memory and verified without the database, by the
service itself and by other services that cache its JWKS.

**What is hard here.** A handler reads a row, decides, and writes in a later
statement; nothing holds a lock in between. `Refresh` makes two writes with no
transaction around them. A client that does not see a response cannot tell
whether its token was consumed. The clock is read once per request and used
until its end. Tokens outlive the facts they were issued on, and keys can be
replaced while tokens and JWKS caches are still around. Processes start on a
database that another one may be migrating, and stop while handlers run. The `hazards` of
`PROJECT.json` list these at their lines.

**What makes it correct.** One account per mailbox; a session only for someone
with the right password on an active account; a refresh token that is dead
stays dead and is never traded in, and a good one is never refused; a replay
ends the user's sessions, and nobody else's; a logout that reports success has
worked; an access token is honoured as long as its client was told and not much
longer; a status code is true of the stored state; exit code 0 means nobody's
request was cut; no minor unit is lost.

## 2. Modules

```
IdentityDomain <- IdentityStore <- AuthService <- MCAuthService
                      |                |  |  +<-- HttpApi <- MCHttpApi
                      |                |  +<----- Devices <- MCDevices
                      |                +--------> SessionLifecycle (INSTANCE, abstract)
                      +<- MemoryStore <- MCMemoryStore

Configuration <- Process <- MCProcess     AccessTokens <- MCAccessTokens     Money

AuthService <- AuthServiceInvariant <- AuthServiceProofs <- CallerProofs <- HttpApiProofs -> HttpApi
                                                         <- DevicesProofs -> Devices
Process <- ProcessProofs      MemoryStore <- MemoryStoreProofs
Money   <- MoneyProofs        AccessTokens <- AccessTokensProofs
```

`HttpApi` and `Devices` also extend `HttpCodec`. A `*Proofs` module extends the
module it is about, and nothing that is model-checked extends a proof.

- **`IdentityDomain`** – pure operators. An e-mail string is a mailbox and a
  *form*, the set of ways it departs from a bare lower-case address;
  `NormalizeEmail` removes padding and case and refuses the rest. A password is
  a model value with a length in bytes. An argon2 hash is a salt and a key
  derived from password and salt; each user id comes with one salt. Errors are
  the names of the Go sentinels, `"nil"` for none.
- **`IdentityStore`** – a table is a set of row keys and one function per
  column. Every statement is an operator: the citext unique index is
  `UsersWithEmail`, the foreign key with its cascade is `DeleteUserRow` and the
  guard of `StartSession`, `updateToken` overwrites and `revokeAllForUser`
  does not. Deleted rows keep their columns, so an id is fresh exactly when it
  was never used. A token id stands for the id, the 256-bit secret and its
  SHA-256 hash, which determine each other.
- **`AuthService`** – the requests. `pc[r]` is the repository call request `r`
  makes next; one action is that call and all the handler computes up to the
  following one. `now`, `token`, `mail`, `pass`, `user`, `result` and `issued`
  are the handler's locals and its answer. `parent`, `dead`, `shut` and `known`
  are history: no guard reads them. `Suspend` is the sequence `FindByID`,
  `User.Suspend`, `Update` of an operator's tool; no route exposes it yet.
  `handedOut` are the secrets some client has received: `Refresh` and `Logout`
  may present any of them again, at any time, or a string that is no token.
- **`SessionLifecycle`** – what the service promises of sessions, without
  requests, time or statements.
- **`AuthServiceInvariant`** – the two layers of the inductive invariant;
  **`AuthServiceProofs`**, **`CallerProofs`** and the other `*Proofs` modules –
  the theorems (section 5).
- **`HttpCodec`** – a request body is a sequence of chunks (values, well formed
  or not, and blanks) with sizes; `DecodeJSON` is two calls of `Decode` under
  `http.MaxBytesReader`. `Status` is the table of `writeError`.
- **`HttpApi`** – composes `AuthService` with the handlers: a POST to a route is
  decoded, refused with a 400 or passed on. `null` is a legal body that leaves
  the request at its zero values, which each route treats in its own way. It
  adds three histories: whether a request has changed a row (`wrote`), which
  accounts a `Login` presents the credentials of (`entitled`), and whether the
  body was what `DecodeJSON` promises to accept, one JSON object within the
  limit (`whole`). `null` is not.
- **`Devices`** – honest clients around `AuthService`. A device holds one
  token, has one request outstanding, and acts on the response. `Retry` says
  whether it presents its token again after a 500, a timeout or a broken
  connection. Devices are not code of this repository; they do what the JSON
  contract allows.
- **`AccessTokens`** – processes with a signing key each, the tokens they have
  signed, the key file, the users' status and one relying service with a cached
  JWKS. Time is in ticks with `Second` ticks to the second, because
  `jwt.NewNumericDate` truncates `iat` and `exp` and `AccessExpiresAt` is not
  truncated. `Me` is `RequireAuth` followed by `handler.me`. Keys travel as
  JWKs, and `NewStaticKeySet` skips the ones it cannot use.
- **`Configuration`** – pure operators: the eleven variables with the values
  their parsers tell apart, `Load` with the set of problems it reports (each
  the set of variables it names), and the PEM blocks of a key file.
- **`Process`** – several processes over one database. `phase[p]` is the step of
  `run()`: load, connect, migrate (read, then apply), key, select, shutdown,
  await, close. The goroutine of the server, the buffered `errCh`, the signal
  context, the handlers with the pool connections they hold, SIGKILL and a
  database that stops answering run next to it. A handler is a sequence of
  statements; what they do is `AuthService`'s matter.
- **`MemoryStore`** – the fakes of `apptest` next to `IdentityStore`: each call
  is made of both stores, structs are read and written back later, and the
  properties compare what the two return and hold.
- **`Money`** – arithmetic that wraps around at `MaxInt` (`2^63 - 1` in the
  code), next to the exact result.

### Faults

The constant `Faults` of `AuthService` selects what may go wrong: `error` (a
call fails without effect), `lost` (a statement commits and the handler sees an
error: a broken connection, a context cancelled by the client, or `Issue`
failing after `tokens.Create`), `drop` (the response is lost), `crash` (the
process dies with all its requests) and `delete` (an account is deleted by
hand, the only use of the cascade).

## 3. Runs

Bounds are constants of the `.cfg` files. Token and user ids run out by the
guards `TokenLeft` and `UserLeft`, which stop a request from *starting*, never
in the middle. Token, user and request ids and mailboxes are symmetric where no
liveness is checked.

| Run | Instance | Checks | Shows |
|---|---|---|---|
| `concurrent` | `HttpApi`: 1 account, 2 tokens, 2 requests, clock 0..1, all faults; bodies of up to 3 chunks around a limit of 4 bytes | `TypeOK`, `DeadTokenNeverRefreshes`, `RefusalJustified`, `ReuseRevokesAll`, `RotationConsumesParent`, `LogoutKillsSession`, `RevocationPermanent`, `RefusedWithoutTrace`, `AccountReachable`, `OnlyObjectsTakeEffect`, `RevokedOnlyByOwner` | what a request has read stays good enough while another one writes, fails or crashes; a 4xx has changed nothing but, for a replay, revoked sessions; an account whose `Register` failed half-way is open to `Login`; a body that is no single object has no effect; an expired token is not taken for a replay |
| `accounts` | 2 mailboxes in 3 spellings each, 2 passwords, 2 users, 2 tokens, 2 requests; failing calls, crashes, deletions | `OneAccountPerMailbox`, `SessionMatchesCredentials`, `SuspendedNeverServed`, `LogoutFailsOnlyForDeleted`, `RevokedOnlyByOwner`, `ImplementsLifecycle` | registration races, credentials, suspension, deletion; reuse detection stays within one user (the clock stands still here, `concurrent` has the expiry); a `Logout` is told of a missing token only when the session is gone; refinement |
| `liveness` | 1 account, 2 tokens, 2 requests, clock 0..1, lost responses, `FairSpec` | `RequestAnswered`, `LogoutTakesEffect`, `ReplayEndsSessions` | nothing waits for ever |
| `devices_careful` | 2 devices of one account, 4 tokens, 2 requests, all faults but `delete`, `Retry = FALSE` | `DevicesTypeOK`, `SignedOutOnlyByOwnDevice` | devices that never present a token of unknown state do not sign each other out |
| `access_expiry` | 2 processes, 2 keys, 1 user, clock 0..7, key changes | `AccessTypeOK`, `HonouredUntilExpiry`, `ServedBriefly`, `RotationSettles` | truncation and skew are covered by the leeway, and no token is accepted for more than leeway and skew beyond the expiry its client was told; a suspended user is served for one TTL at most; a relying service trusts a replaced key for `jwksMaxAge` at most |
| `process` | 2 processes, 2 requests, 1 pool connection, 3 deployed environments out of 486 that `Load` is checked on, `ProcessSpec` with its fairness | `ProcessTypeOK`, `CleanExit`, `MigratedBeforeServing`, `AllProblemsReported`, `StartUpEnds`, `StopsWhenTold` | exit code 0 is earned; racing migrations are safe; start-up and shutdown end, unless a statement hangs for ever |
| `fakes` | 2 mailboxes, 2 users, 2 tokens, clock 0..1, every order of calls | `MemoryTypeOK`, `ReadsAgree`, `WritesAgree` | tests on the fakes see what Postgres would show, except about the tokens of deleted users |
| `money_exact` | 5-bit amounts, splits into up to 17 parts | `MoneyTypeOK`, `SplitExactAndFair`, `ExactWhenItFits` | `Split` conserves; a chain of operations may overflow on the way and still be right |

Why these bounds are enough to be interesting: two requests are the least that
race, and every race found needs exactly two; two tokens are a parent and its
child, or a replay and a bystander (a `Refresh` of a token that is revoked or
expired mints nothing, so it may start when no fresh token is left), and the
third one of `single_use` and `reuse_family` is the second child of a double
rotation; with a TTL of 1 and a clock of 0..1 a token expires while a request
that read the clock before is still running, next to a younger token that is
still good. The proofs remove the bounds for the safety properties they
cover.

Deadlock is checked except in the `Devices` runs, where devices that are signed
out may rest for ever.

### Violations

Each of these runs checks one statement of a comment or a document, and TLC
finds a behaviour of the code that contradicts it.

- `single_use` – two overlapping `Refresh`es of one token both mint
  (`SingleUse`).
- `reuse_family` – a `Refresh` caught between its two writes outlives the
  revocation of all sessions (`ReuseKillsFamily`).
- `devices_retry` – a `Refresh` that fails between its writes costs the user
  the sessions of *other* devices as soon as the client retries
  (`SignedOutOnlyByOwnDevice`). The same property passes in `devices_careful`:
  the remedy on the client's side is to sign in again.
- `money_drift` – `Add`, `Sub` and `Neg` wrap (`NeverDrifts`).

A conditional update (`... WHERE id = $1 AND revoked_at IS NULL`, with zero
rows treated as reuse) would restore `SingleUse`.

Four more disagreements between a comment and the code have no run of their
own; the passing properties state what holds instead.

- *Logout.* `auth.go:169-171` says that "unknown or already-revoked tokens are
  not errors, so a client retrying a logout can't fail". When the account is
  deleted between the `FindByHash` and the `Update` of a `Logout`, the cascade
  takes the row away, `Update` finds nothing, and the client gets a 401
  (`ErrRefreshTokenNotFound`). `LogoutFailsOnlyForDeleted` states that this is
  the only case and that the session is gone in it; the behaviour occurs in
  `accounts` and `concurrent`, which have deletions.
- *`null` bodies.* `httpx.go:47` says that `DecodeJSON` "reads exactly one JSON
  object", and `:61` answers "body must contain a single JSON object".
  `json.Decoder` also accepts `null` for a struct and leaves the struct as it
  is: a `Logout` with that body is answered with a 204, the other routes refuse
  the zero values. `OneObject` does not count `null`, and
  `OnlyObjectsTakeEffect` states that no body but a single object changes a row
  or opens a session.
- *Revocation times.* `UpdateToken` overwrites `revoked_at` whatever it holds,
  so that of two overlapping revocations the later one sets the time, where the
  comment of `RefreshToken.Revoke` promises the first.
- *Key rotation.* `StartProcess` signs with its key from the moment it
  publishes it, where the comment of `jwksMaxAge` asks for publication that
  long before; `RotationSettles` states what holds instead.

### Fairness

`FairSpec` assumes weak fairness of `Handle(r) \/ Deliver(r)` for every
request: the Go scheduler runs every runnable goroutine, Postgres answers or
the call fails, and `net/http` writes the response of a handler that returned.
Nothing is assumed of clients, of time, or of faults, and no strong fairness is
needed, because a handler's next call stays enabled until it is made.

`ProcessSpec` assumes weak fairness of the main goroutine and of the server's
goroutine of every process, which includes the timers of `connectCtx` and
`shutdownCtx`, and of `Release`: a database that stays up answers a statement.
No handler is assumed to end, since its client may be slow; no signal, start or
recovery of the database is assumed.

## 4. Mutants

Every property of every passing run has a mutant: a variant of one mapped
definition, named next to it in its module and marked `Mutant:` in its comment,
that changes it the way a plausible slip in the code would. TLC finds the
property violated under the mutant. They are never part of a specification.

## 5. Proofs

TLAPS proves every safety property that a passing run checks, and some that no
run does, for every value of the constants: any number of users, tokens,
mailboxes, requests, devices, processes and keys, any lifetimes, any width of
amounts, any combination of faults. `MaxTime`, `MaxTokens` and the other bounds
of the runs are arbitrary numbers to the proofs.

| Module | Theorem | Statement |
|---|---|---|
| `AuthServiceProofs` | `TypeCorrectness` | `Spec => []TypeOK` |
| | `DeadTokensStayDead` | `Spec => []DeadTokenNeverRefreshes` |
| | `SuspensionBlocks` | `Spec => []SuspendedNeverServed` |
| | `ReplayRevokes` | `Spec => []ReuseRevokesAll` |
| | `RotationRevokesFirst` | `Spec => []RotationConsumesParent` |
| | `LogoutWorks` | `Spec => []LogoutKillsSession` |
| | `RevocationIsPermanent` | `Spec => RevocationPermanent` |
| | `Refinement` | `Spec => ImplementsLifecycle` |
| `CallerProofs` | `MailboxesAreUnique` | `Spec => []OneAccountPerMailbox` |
| | `SessionsMatchCredentials` | `Spec => []SessionMatchesCredentials` |
| | `RefusalsAreJustified` | `Spec => []RefusalJustified` |
| | `LogoutFailuresExplained` | `Spec => []LogoutFailsOnlyForDeleted` |
| | `OnlyOwnersRevoke` | `Spec => RevokedOnlyByOwner` |
| `HttpApiProofs` | `GuaranteesBehindRoutes` | `HttpSpec =>` the ten invariants above |
| | `OtherBodiesHaveNoEffect` | `HttpSpec => []OnlyObjectsTakeEffect` |
| | `RefusalsLeaveNoTrace` | `HttpSpec => []RefusedWithoutTrace` |
| | `AccountsStayReachable` | `HttpSpec => []AccountReachable` |
| | `RevocationIsPermanentBehindRoutes` | `HttpSpec => RevocationPermanent` |
| | `RoutesImplementLifecycle` | `HttpSpec => ImplementsLifecycle` |
| `DevicesProofs` | `DevicesTypeCorrectness` | `DevicesSpec => []DevicesTypeOK` |
| | `DevicesImplementService` | `DevicesSpec => Spec` |
| | `CarefulDevicesCoexist` | `~ Retry => (DevicesSpec => SignedOutOnlyByOwnDevice)` |
| | `NoFalseAlarm` | `~ Retry =>` no request ever gets to `tokens.RevokeAllForUser` |
| `ProcessProofs` | `ProcessTypeCorrectness` | `ProcessSpec => []ProcessTypeOK` |
| | `ExitCodesAreHonest` | `ProcessSpec => []CleanExit` |
| | `MigrationPrecedesService` | `ProcessSpec => []MigratedBeforeServing` |
| | `LoadReportsEverything` | `ProcessSpec => []AllProblemsReported` |
| `MemoryStoreProofs` | `FakesTypeCorrectness` | `MemorySpec => []MemoryTypeOK` |
| | `FakesReadAlike` | `MemorySpec => []ReadsAgree` |
| | `FakesAnswerAlike` | `MemorySpec => []WritesAgree` |
| `AccessTokensProofs` | `AccessTypeCorrectness` | `AccessSpec => []AccessTypeOK` |
| | `TokensHonoured` | `AccessSpec => []HonouredUntilExpiry` |
| | `EndedUsersServedBriefly` | `AccessSpec => []ServedBriefly` |
| | `RotationGapCloses` | `AccessSpec => []RotationSettles` |
| `MoneyProofs` | `MoneyTypeCorrectness` | `MoneySpec => []MoneyTypeOK` |
| | `SplitConserves` | `MoneySpec => []SplitExactAndFair` |
| | `OverflowHeals` | `MoneySpec => []ExactWhenItFits` |

**Assumptions.** The proofs use the named assumptions of the modules and
nothing else; TLC evaluates each of them in some run. They are of three kinds:
numbers are numbers (a TTL is positive, a bound is natural); `Null`, which
stands for nil pointers and SQL's NULL, is none of the values it may stand next
to (`NullAssumption`, `NothingAssumption`, `AbsentAssumption`, the second half
of `MemoryAssumption`); and one condition that the deployment has to meet,
`Skew + Second <= Leeway + 1` in `AccessAssumption`: the leeway of `Verify`
must cover the skew between machines and the second that `NewNumericDate`
truncates. The 30 seconds of `jwtx.DefaultLeeway` leave 29 for the skew.

### The service

None of the properties of `AuthService` is inductive: they speak of what a
request does at its end and depend on what it has read before. `IInv` adds what
holds in between. `RowsOK` states the constraints of the schema; `HandedOutOK`
that clients hold stored tokens; `ParentsOK` the history of rotation; and for
every request `RequestOK(r)` states what is true at the call it is about to
make: which use case it runs (`PhaseOK`), whose token it carries (`ArgumentsOK`,
`OwnerOK`), that a rotation past its update has a dead parent (`RotationOK`),
that a token dead on arrival has not got past the check that will refuse it
(`DeadOK`), and so on.

That `RequestOK(r)` survives the steps of *other* requests is the heart of it,
and it does not depend on which steps these are. Every step changes the tables
by at most one statement (`NextIsStatement`), and a statement lets them evolve
in one direction only (`StatementEvolves`): owners and expiries are fixed, dead
tokens stay dead, suspended users stay suspended. All that `RequestOK(r)` says
of the tables is stable under that evolution (`BystanderStep`). What remains is
one case per call of the request itself (`HandleStep`).

`Refinement` follows the same line: each statement is a step of
`SessionLifecycle` or leaves every session as it is (`StatementRefines`).

`CallerInv` is a second layer, proved on top of the first: tokens go only with
their user (`CascadeOK`), the row a `Login` has read belongs to the owner of
the credentials (`CredentialsOK`), what a `Refresh` found wrong with its token
stays wrong with it (`RefusalOK`), and a `Logout` that fails otherwise than
with a 500 has found a token whose user is gone by then (`LogoutErrorOK`). Here the stable facts are that no hash is rewritten, no user
returns, and the clock does not go back (`Persists`, `UnusableStays`).

### Around the service

`HttpSpec` does not implement `Spec`: a request refused with a 400 is answered
without a use case. `HttpStep` shows that this is the only difference, and
`RejectPreserves` that both layers survive it, so that everything carries over.
`HttpInv` relates the histories to the request: one that has written is on its
way to `startSession` or ends in one of three results (`TraceOK`); an account
whose owner logs in is either let in or deleted before the answer
(`EntitledOK`); a request whose body was no object has been answered, or is a
`Logout` that has no token to find (`WholeOK`). `OnlyObjectsTakeEffect` also
rests on what the two `Decode`s make of a body, for every sequence of chunks
and every limit. That needs induction over a
sequence, which is done by hand: the position of the first value is the
least member of a set of numbers (`LeastMember`, from the well-foundedness of
`<`), and all chunks before it are blanks.

`DevicesSpec` implements `Spec`. `CarefulInv` says that the secrets of careful
devices travel like a coin: each token is in at most one hand (`OneHolder`) or
presented by at most one request (`PresentedOK`), nobody keeps the token of a
request that was given up (`AbandonedOK`), and a token on its way is known to
nobody (`IssuedOK`). So no token is ever presented after its revocation, and
the step that would end other devices' sessions is never reached.

### The other components

- `ProcessInv`: where `run` is tells whether the server, the signal and the
  exit code are set (`RunningOK`); a process past `migrate` has found or made
  the schema if it was told to (`MigrationOK`); who is on its way to exit code
  0 has no handler left and has failed nobody (`ExitOK`). `AllProblemsReported`
  is about `Load` alone and is proved of every environment (`NothingNew`): a
  parser that reads the same value complains the same way (`ReadAlike`).
- `MemoryInv`: the maps of the fakes hold the rows of the tables, plus the
  tokens of deleted users (`TokensAgree`), and a struct that was read may be
  stale only in its status or its revocation time (`HeldOK`). Both stores
  therefore find or miss the same row.
- `AccessInv`: a token's claims lost less than a second (`MintedOK`); a request
  that passed the status check and every token signed are dated before the end
  of the account (`EndedOK`); a cached JWKS has the key of a process that runs
  or stopped after the JWKS was fetched (`CacheOK`).
- `MoneyInv`: the amount carried is congruent to the exact one modulo the
  number of int64s, and two congruent numbers that fit are equal
  (`CongruentFits`). The sum of the parts of a `Split` has the closed form
  `i * base + sign * min(i, rem)` for the first `i` parts; that the recursive
  `Total` computes it is again shown with a least counterexample
  (`SplitTotal`).

**Left to TLC.** The five liveness properties, `RequestAnswered`,
`LogoutTakesEffect`, `ReplayEndsSessions`, `StartUpEnds` and `StopsWhenTold`:
the prover knows neither fairness nor `ENABLED`. And the counterexamples of the
violations, which are behaviours, not theorems.

## 6. Not modelled

- Clock skew between replicas in `AuthService`: all requests read one clock.
  (`AccessTokens` has skew between signer and verifiers.)
- The inside of a statement: `revokeAllForUser` and the cascade touch several
  rows and are one atomic step, as they are to every other statement at
  Postgres' row level; deadlock and serialization errors are `error` faults.
- Text formats: e-mail grammar beyond the forms named above, the PHC string of
  a hash, JSON, PEM, UUIDs, and header syntax; the cost of argon2 and the
  equal-time refusal of unknown e-mails. A stored hash that does not parse,
  which no code path writes, ends a `Login` with a 500 just as a failing
  `FindByEmail` does.
- Branches that today's callers cannot reach: `users.Update` writes back e-mail
  and hash, which `Suspend` leaves as they were, so that its `ErrEmailTaken`
  cannot happen; `NewAuthService`'s default for a TTL that is not positive,
  which gives a positive one as `RefreshTokenTTL` is here.
- The 500 of `handler.me` and a subject that is no UUID: the service signs
  UUIDs only, and a failing read there has no effect that a property could tell.
- Issuer, audience and algorithm checks of `Verify`: one configuration serves
  signer and verifier.
- `GET /healthz`, which reads nothing; the writing of PEM files and the
  generation of keys; the call counter of the fake `Hasher` and the unsigned
  tokens of the fake `Issuer`.
- Inside `goose`: its version table and the migration are one state, applied or
  not. Inside `net/http` and `pgxpool`: only what `run` and the handlers can
  tell apart. In particular, no request begins once `Shutdown` has: one that
  is sent on a connection opened before is not modelled.
- Generated gRPC code, which no service registers yet, and the services that
  exist only in `docs/PLAN.md`: there is no behaviour of this repository in
  them to model.

## 7. State

Every component with behaviour of its own has a module, every hazard has a
property, and every safety property of a passing run is proved. What could
still be added:

1. Issuer, audience and algorithm checks in `AccessTokens!Verify`, once two
   services with different settings exist.
2. Skewed clocks in `AuthService`: `RefusalJustified` and
   `DeadTokenNeverRefreshes` would then hold up to the skew.
3. The ledger and the wallet service, when there is code for them.
