------------------------------- MODULE Process -------------------------------
(***************************************************************************)
(* The processes of cmd/identity over one database: run() from config.Load *)
(* to exit, next to the goroutine of the HTTP server, the handlers of the  *)
(* requests accepted, signals, and a database that may stop answering.     *)
(* phase[p] names the step of run() that process p is at.                  *)
(***************************************************************************)
EXTENDS Configuration, Naturals, FiniteSets

CONSTANTS
    Processes,
    Deployed,   \* the environments processes are started with
    Requests,   \* slots for requests in flight
    MaxConns,   \* the size of a connection pool
    Null

ASSUME ProcessAssumption ==
    MaxConns \in Nat \ {0} /\ Deployed \subseteq Environments

(* The configurations that processes run with.                             *)
Configs == {Config(env) : env \in Deployed}

ASSUME NothingAssumption ==
    /\ Null \notin Processes /\ Null \notin Configs
    /\ Null \notin {0, 1, 137} /\ Null \notin {"ErrServerClosed", "error"}

VARIABLES
    phase,      \* "down", or where run() is
    cfg,        \* the configuration in force, Null before it is loaded
    signalled,  \* ctx is done: SIGINT or SIGTERM was received
    pending,    \* goose has found the migration unapplied
    server,     \* the goroutine of ListenAndServe
    errCh,      \* the buffered channel it reports to
    code,       \* the exit code, 137 after SIGKILL
    handler,    \* the state of the handler of request r
    at,         \* the process that accepted r
    database,   \* "up" or "stuck"
    schema,     \* the migration is applied
    harmed      \* history: p failed a request it had accepted

local    == <<cfg, pending, code>>
requests == <<handler, at>>
processVars == <<phase, cfg, signalled, pending, server, errCh, code,
                 handler, at, database, schema, harmed>>

(* The type invariant; a process that is down serves nobody.               *)
ProcessTypeOK ==
    /\ phase \in [Processes -> {"down", "load", "connect", "migrate", "apply",
                                "key", "select", "shutdown", "await", "close"}]
    /\ cfg \in [Processes -> Configs \cup {Null}]
    /\ signalled \in [Processes -> BOOLEAN]
    /\ pending \in [Processes -> BOOLEAN]
    /\ server \in [Processes -> {"off", "starting", "serving"}]
    /\ errCh \in [Processes -> {Null, "ErrServerClosed", "error"}]
    /\ code \in [Processes -> {Null, 0, 1, 137}]
    /\ handler \in [Requests -> {"none", "running", "holding"}]
    /\ at \in [Requests -> Processes \cup {Null}]
    /\ database \in {"up", "stuck"} /\ schema \in BOOLEAN
    /\ harmed \in [Processes -> BOOLEAN]
    /\ \A p \in Processes : phase[p] \in {"down", "load"} <=> cfg[p] = Null
    /\ \A r \in Requests :
          /\ handler[r] = "none" <=> at[r] = Null
          /\ at[r] # Null => phase[at[r]] \in
                 {"select", "shutdown", "close"}

ProcessInit ==
    /\ phase = [p \in Processes |-> "down"]
    /\ cfg = [p \in Processes |-> Null]
    /\ signalled = [p \in Processes |-> FALSE]
    /\ pending = [p \in Processes |-> FALSE]
    /\ server = [p \in Processes |-> "off"]
    /\ errCh = [p \in Processes |-> Null]
    /\ code = [p \in Processes |-> Null]
    /\ handler = [r \in Requests |-> "none"]
    /\ at = [r \in Requests |-> Null]
    /\ database = "up" /\ schema = FALSE
    /\ harmed = [p \in Processes |-> FALSE]

-----------------------------------------------------------------------------

Handlers(p) == {r \in Requests : at[r] = p}
Holders(p)  == {r \in Handlers(p) : handler[r] = "holding"}

(* The requests in rs are over.                                            *)
End(rs) ==
    /\ handler' = [r \in Requests |-> IF r \in rs THEN "none" ELSE handler[r]]
    /\ at' = [r \in Requests |-> IF r \in rs THEN Null ELSE at[r]]

Goto(p, step) ==
    /\ phase' = [phase EXCEPT ![p] = step]
    /\ UNCHANGED local

(* The process is gone, and its goroutines with it.                        *)
Down(p, c) ==
    /\ phase' = [phase EXCEPT ![p] = "down"]
    /\ cfg' = [cfg EXCEPT ![p] = Null]
    /\ signalled' = [signalled EXCEPT ![p] = FALSE]
    /\ pending' = [pending EXCEPT ![p] = FALSE]
    /\ code' = [code EXCEPT ![p] = c]
    /\ server' = [server EXCEPT ![p] = "off"]
    /\ errCh' = [errCh EXCEPT ![p] = Null]
    /\ harmed' = [harmed EXCEPT ![p] = @ \/ Handlers(p) # {}]
    /\ End(Handlers(p))

(* run() returns with c once there is a pool: pool.Close() is next.        *)
Return(p, c) ==
    /\ phase' = [phase EXCEPT ![p] = "close"]
    /\ code' = [code EXCEPT ![p] = c]
    /\ UNCHANGED <<cfg, pending>>

-----------------------------------------------------------------------------
(* The main goroutine, up to serving.                                      *)

LoadConfig(p) ==
    /\ phase[p] = "load"
    /\ \E env \in Deployed :
          \/ Load(env) # {} /\ Down(p, 1)
          \/ /\ Load(env) = {}
             /\ phase' = [phase EXCEPT ![p] = "connect"]
             /\ cfg' = [cfg EXCEPT ![p] = Config(env)]
             /\ UNCHANGED <<signalled, pending, code, server, errCh, requests,
                            harmed>>
    /\ UNCHANGED <<database, schema>>

(* Statements of the start-up run under connectCtx: a signal cancels it.   *)
Answers(p) == database = "up" /\ ~ signalled[p]

(* Mutant: the ping has no deadline.                                       *)
ConnectForever(p) ==
    /\ phase[p] = "connect"
    /\ \/ signalled[p] /\ Down(p, 1)
       \/ /\ Answers(p)
          /\ Goto(p, IF cfg[p].MigrateOnStart THEN "migrate" ELSE "key")
          /\ UNCHANGED <<signalled, server, errCh, requests, harmed>>
    /\ UNCHANGED <<database, schema>>

(* The ping answers; or it fails, or 15 seconds pass, or a signal comes.   *)
Connect(p) ==
    /\ phase[p] = "connect"
    /\ \/ Down(p, 1)
       \/ /\ Answers(p)
          /\ Goto(p, IF cfg[p].MigrateOnStart THEN "migrate" ELSE "key")
          /\ UNCHANGED <<signalled, server, errCh, requests, harmed>>
    /\ UNCHANGED <<database, schema>>

(* goose compares its version table with the embedded migrations.  The     *)
(* provider is made without a session lock.                                *)
MigrateRead(p) ==
    /\ phase[p] = "migrate"
    /\ \/ Return(p, 1)
       \/ /\ Answers(p)
          /\ phase' = [phase EXCEPT ![p] = "apply"]
          /\ pending' = [pending EXCEPT ![p] = ~ schema]
          /\ UNCHANGED <<cfg, code>>
    /\ UNCHANGED <<signalled, server, errCh, requests, database, schema, harmed>>

(* Mutant: the error of Migrate is logged and dropped.                     *)
MigrateApplyBestEffort(p) ==
    /\ phase[p] = "apply"
    /\ Goto(p, "key")
    /\ schema' = (schema \/ Answers(p))
    /\ UNCHANGED <<signalled, server, errCh, requests, database, harmed>>

(* The migration is one transaction.  It fails when another process has    *)
(* created the tables since; and it may commit unacknowledged.             *)
MigrateApply(p) ==
    /\ phase[p] = "apply"
    /\ \/ Return(p, 1) /\ UNCHANGED schema
       \/ /\ Answers(p) /\ ~ pending[p]
          /\ Goto(p, "key") /\ UNCHANGED schema
       \/ /\ Answers(p) /\ pending[p] /\ ~ schema
          /\ schema' = TRUE
          /\ Goto(p, "key") \/ Return(p, 1)
    /\ UNCHANGED <<signalled, server, errCh, requests, database, harmed>>

KeyErrors == {ParsePrivateKeyPEM(file) : file \in KeyFiles}
                 \cup {"read signing key"}

(* loadSigningKey: the key is generated or read; then the goroutine of the *)
(* server is started.                                                      *)
LoadKey(p) ==
    /\ phase[p] = "key"
    /\ \E err \in IF cfg[p].JWTDevEphemeralKey THEN {"nil", "generate key"}
                 ELSE KeyErrors :
          \/ /\ err = "nil" /\ Goto(p, "select")
             /\ server' = [server EXCEPT ![p] = "starting"]
          \/ err # "nil" /\ Return(p, 1) /\ UNCHANGED server
    /\ UNCHANGED <<signalled, errCh, requests, database, schema, harmed>>

-----------------------------------------------------------------------------
(* The goroutine of the server.                                            *)

(* srv.inShutdown, for as long as there is a server.                       *)
ShuttingDown(p) == phase[p] \in {"shutdown", "await", "close"}

Report(p, err) ==
    /\ errCh' = [errCh EXCEPT ![p] = err]
    /\ server' = [server EXCEPT ![p] = "off"]

(* ListenAndServe opens the port, unless it is taken or Shutdown was       *)
(* called before; it may find it taken after it has looked for Shutdown.   *)
(* Serve returns when Shutdown is called, or fails.                        *)
ListenAndServe(p) ==
    /\ \/ server[p] = "starting" /\ Report(p, "error")
       \/ /\ server[p] = "starting" /\ ~ ShuttingDown(p)
          /\ server' = [server EXCEPT ![p] = "serving"]
          /\ UNCHANGED errCh
       \/ server[p] # "off" /\ ShuttingDown(p) /\ Report(p, "ErrServerClosed")
    /\ UNCHANGED <<phase, local, signalled, requests, database, schema, harmed>>

ServeFails(p) ==
    /\ server[p] = "serving" /\ ~ ShuttingDown(p)
    /\ Report(p, "error")
    /\ UNCHANGED <<phase, local, signalled, requests, database, schema, harmed>>

-----------------------------------------------------------------------------
(* The main goroutine, from the select on.                                 *)

(* select: either case may be taken when both are ready.                   *)
Select(p) ==
    /\ phase[p] = "select"
    /\ \/ /\ errCh[p] # Null
          /\ errCh' = [errCh EXCEPT ![p] = Null]
          /\ Return(p, 1)
       \/ /\ signalled[p]
          /\ Goto(p, "shutdown") /\ UNCHANGED errCh
    /\ UNCHANGED <<signalled, server, requests, database, schema, harmed>>

(* Mutant: the error of Shutdown is logged and nil is returned.            *)
ShutdownReturnsNil(p) ==
    /\ phase[p] = "shutdown"
    /\ \/ Handlers(p) = {} /\ Goto(p, "await")
       \/ Return(p, 0)
    /\ UNCHANGED <<signalled, server, errCh, requests, database, schema, harmed>>

(* Mutant: the error of Shutdown is not looked at.                         *)
ShutdownUnchecked(p) ==
    /\ phase[p] = "shutdown"
    /\ Goto(p, "await")
    /\ UNCHANGED <<signalled, server, errCh, requests, database, schema, harmed>>

(* Mutant: Shutdown gets context.Background().                             *)
ShutdownForever(p) ==
    /\ phase[p] = "shutdown"
    /\ Handlers(p) = {} /\ Goto(p, "await")
    /\ UNCHANGED <<signalled, server, errCh, requests, database, schema, harmed>>

(* srv.Shutdown: every connection is idle, or ShutdownTimeout has passed.  *)
Shutdown(p) ==
    /\ phase[p] = "shutdown"
    /\ \/ Handlers(p) = {} /\ Goto(p, "await")
       \/ Return(p, 1)
    /\ UNCHANGED <<signalled, server, errCh, requests, database, schema, harmed>>

(* err := <-errCh.                                                         *)
Await(p) ==
    /\ phase[p] = "await" /\ errCh[p] # Null
    /\ Return(p, IF errCh[p] = "ErrServerClosed" THEN 0 ELSE 1)
    /\ errCh' = [errCh EXCEPT ![p] = Null]
    /\ UNCHANGED <<signalled, server, requests, database, schema, harmed>>

(* The deferred pool.Close() waits for the connections in use, and for     *)
(* nothing else; then the process exits.                                   *)
PoolClose(p) ==
    /\ phase[p] = "close" /\ Holders(p) = {}
    /\ Down(p, code[p])
    /\ UNCHANGED <<database, schema>>

Main(p) ==
    \/ LoadConfig(p) \/ Connect(p)
    \/ MigrateRead(p) \/ MigrateApply(p) \/ LoadKey(p)
    \/ Select(p) \/ Shutdown(p) \/ Await(p) \/ PoolClose(p)

-----------------------------------------------------------------------------
(* The handlers: whatever the route, statements and what is in between.    *)
(* GET /readyz is one statement, pool.Ping.                                *)

Accept(r, p) ==
    /\ handler[r] = "none" /\ server[p] = "serving" /\ ~ ShuttingDown(p)
    /\ handler' = [handler EXCEPT ![r] = "running"]
    /\ at' = [at EXCEPT ![r] = p]
    /\ UNCHANGED <<phase, local, signalled, server, errCh, database, schema,
                   harmed>>

(* A statement acquires a connection when one is free.  A pool that was    *)
(* closed has none to give: the handler fails with a 500 (/readyz, 503).   *)
Acquire(r) ==
    /\ handler[r] = "running"
    /\ Cardinality(Holders(at[r])) < MaxConns
    /\ \/ /\ phase[at[r]] # "close"
          /\ handler' = [handler EXCEPT ![r] = "holding"]
          /\ UNCHANGED <<at, harmed>>
       \/ /\ phase[at[r]] = "close"
          /\ harmed' = [harmed EXCEPT ![at[r]] = TRUE]
          /\ End({r})
    /\ UNCHANGED <<phase, local, signalled, server, errCh, database, schema>>

(* The statement is answered, or its connection breaks.                    *)
Release(r) ==
    /\ handler[r] = "holding" /\ database = "up"
    /\ handler' = [handler EXCEPT ![r] = "running"]
    /\ UNCHANGED <<phase, local, signalled, server, errCh, at, database, schema,
                   harmed>>

(* The handler returns; or the client leaves, which cancels r.Context() and*)
(* with it the statement.                                                  *)
Finish(r) ==
    /\ handler[r] # "none"
    /\ End({r})
    /\ UNCHANGED <<phase, local, signalled, server, errCh, database, schema,
                   harmed>>

-----------------------------------------------------------------------------
(* The world around.                                                       *)

Spawn(p) ==
    /\ phase[p] = "down"
    /\ phase' = [phase EXCEPT ![p] = "load"]
    /\ code' = [code EXCEPT ![p] = Null]
    /\ harmed' = [harmed EXCEPT ![p] = FALSE]
    /\ UNCHANGED <<cfg, signalled, pending, server, errCh, requests, database, schema>>

(* NotifyContext: a second signal changes nothing.                         *)
Signal(p) ==
    /\ phase[p] # "down"
    /\ signalled' = [signalled EXCEPT ![p] = TRUE]
    /\ UNCHANGED <<phase, local, server, errCh, requests, database, schema,
                   harmed>>

Kill(p) ==
    /\ phase[p] # "down"
    /\ Down(p, 137)
    /\ UNCHANGED <<database, schema>>

DatabaseTurns(state) ==
    /\ database' = state
    /\ UNCHANGED <<phase, local, signalled, server, errCh, requests, schema,
                   harmed>>

ProcessNext ==
    \/ \E p \in Processes :
          \/ Main(p) \/ ListenAndServe(p) \/ ServeFails(p)
          \/ Spawn(p) \/ Signal(p) \/ Kill(p)
          \/ \E r \in Requests : Accept(r, p)
    \/ \E r \in Requests : Acquire(r) \/ Release(r) \/ Finish(r)
    \/ \E state \in {"up", "stuck"} : DatabaseTurns(state)

(* Goroutines run, timers fire, and a database that is up answers.  No     *)
(* handler is assumed to end: its client may be slow for ever.             *)
ProcessSpec ==
    /\ ProcessInit /\ [][ProcessNext]_processVars
    /\ \A p \in Processes : WF_processVars(Main(p))
    /\ \A p \in Processes : WF_processVars(ListenAndServe(p))
    /\ \A r \in Requests : WF_processVars(Release(r))

-----------------------------------------------------------------------------

(* Exit code 0 is earned: a process whose run() returns nil was told to    *)
(* stop and has let every handler it started finish with a working pool.   *)
(* Requests are cut, or meet a closed pool, only in a process that was     *)
(* killed or that exits with 1.                                            *)
CleanExit ==
    \A p \in Processes :
        /\ code[p] = 0 => ~ harmed[p]
        /\ code[p] = 0 /\ phase[p] = "close" =>
               signalled[p] /\ Handlers(p) = {}
        /\ harmed[p] => code[p] \in {1, 137}

(* A process told to migrate never serves without the schema, whichever of *)
(* several starting processes applies it, and whatever fails on the way.   *)
MigratedBeforeServing ==
    \A p \in Processes :
        server[p] = "serving" /\ cfg[p].MigrateOnStart => schema

(* "All problems are reported together rather than one per restart":       *)
(* whatever environment a starting process finds, once the variables that  *)
(* Load names are given well-formed values, whichever these are, the next  *)
(* start has nothing new to report.  There is one exception: a mode that   *)
(* cannot be read counts as off, so that the choice of the key source may  *)
(* only be objected to once it can be; objections to it do not count when  *)
(* the mode is among the variables reported.                               *)
AllProblemsReported ==
    \A p \in Processes : phase[p] = "load" => FailsAgain = {}

(* A start-up ends, in serving or in exit, though the database be stuck.   *)
StartUpEnds ==
    \A p \in Processes :
        phase[p] = "load" ~>
            phase[p] = "down" \/ server[p] = "serving" \/ errCh[p] # Null

(* A signalled process ends, though handlers be stuck with their clients;  *)
(* only a statement of its own that is left unanswered holds it back.      *)
StopsWhenTold ==
    \A p \in Processes :
        signalled[p] ~>
            phase[p] = "down" \/ (Holders(p) # {} /\ database = "stuck")

=============================================================================
