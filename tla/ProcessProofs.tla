---------------------------- MODULE ProcessProofs ----------------------------
(***************************************************************************)
(* Theorems about the processes of cmd/identity, for any number of         *)
(* processes, requests and environments: what an exit code means, that no  *)
(* process serves without the schema it was told to install, and that      *)
(* config.Load reports all problems at once.                               *)
(***************************************************************************)
EXTENDS Process, TLAPS

USE ProcessAssumption, NothingAssumption

(* Where run() is tells what else is going on in the process.              *)
RunningOK(p) ==
    /\ server[p] # "off" => phase[p] \in {"select", "shutdown", "await", "close"}
    /\ errCh[p] = "ErrServerClosed" => ShuttingDown(p)
    /\ phase[p] \in {"shutdown", "await"} => signalled[p]
    /\ phase[p] \notin {"down", "close"} => ~ harmed[p] /\ code[p] = Null
    /\ phase[p] = "close" => code[p] \in {0, 1}

(* A process that needs no migration any more has found or made the schema.*)
MigrationOK(p) ==
    /\ phase[p] = "apply" /\ ~ pending[p] => schema
    /\ phase[p] = "key" \/ server[p] # "off" => (cfg[p].MigrateOnStart => schema)

(* The body of CleanExit.                                                  *)
ExitOK(p) ==
    /\ code[p] = 0 => ~ harmed[p]
    /\ code[p] = 0 /\ phase[p] = "close" => signalled[p] /\ Handlers(p) = {}
    /\ harmed[p] => code[p] \in {1, 137}

ProcessOK(p) == RunningOK(p) /\ MigrationOK(p) /\ ExitOK(p)

ProcessInv == ProcessTypeOK /\ \A p \in Processes : ProcessOK(p)

-----------------------------------------------------------------------------
(* Steps of one process.                                                   *)

(* Process q is not concerned by a step.                                   *)
SameProcess(q) ==
    /\ phase'[q] = phase[q] /\ cfg'[q] = cfg[q] /\ signalled'[q] = signalled[q]
    /\ pending'[q] = pending[q] /\ server'[q] = server[q] /\ errCh'[q] = errCh[q]
    /\ code'[q] = code[q] /\ harmed'[q] = harmed[q]

(* A schema that was installed stays.                                      *)
Grows == schema => schema'

LEMMA SameProcessStep ==
    ASSUME ProcessTypeOK, NEW q \in Processes, ProcessOK(q), SameProcess(q), Grows,
           \A r \in Requests : at'[r] = q => at[r] = q
    PROVE  ProcessOK(q)'
<1>1. RunningOK(q)'
  BY DEF ProcessOK, RunningOK, SameProcess, ShuttingDown
<1>2. MigrationOK(q)'
  BY DEF ProcessOK, MigrationOK, SameProcess, Grows
<1>3. Handlers(q) = {} => Handlers(q)' = {}
  BY DEF Handlers
<1>4. ExitOK(q)'
  BY <1>3 DEF ProcessOK, ExitOK, SameProcess
<1> QED BY <1>1, <1>2, <1>4 DEF ProcessOK

(* What Down leaves behind.                                                *)
LEMMA DownStep ==
    ASSUME ProcessTypeOK, NEW p \in Processes, NEW c \in {Null, 0, 1, 137},
           Down(p, c), ProcessOK(p), UNCHANGED <<database, schema>>,
           c = 0 => Handlers(p) = {} /\ ~ harmed[p],
           harmed[p] \/ Handlers(p) # {} => c \in {1, 137}
    PROVE  /\ ProcessTypeOK' /\ ProcessOK(p)'
           /\ \A q \in Processes : q # p => SameProcess(q)
           /\ \A r \in Requests, q \in Processes : at'[r] = q => at[r] = q
<1> USE DEF ProcessTypeOK, Down, End
<1>1. \A r \in Requests :
          /\ r \in Handlers(p) => handler'[r] = "none" /\ at'[r] = Null
          /\ r \notin Handlers(p) => handler'[r] = handler[r] /\ at'[r] = at[r]
                                     /\ at[r] # p
  BY DEF Handlers
<1>2. \A q \in Processes : q # p => SameProcess(q)
  BY DEF SameProcess
<1>3. /\ phase'[p] = "down" /\ cfg'[p] = Null /\ server'[p] = "off"
      /\ errCh'[p] = Null /\ code'[p] = c
  OBVIOUS
<1>4. /\ harmed'[p] = (harmed[p] \/ Handlers(p) # {})
      /\ harmed' \in [Processes -> BOOLEAN]
  OBVIOUS
<1>5. ProcessTypeOK'
  <2>1. \A q \in Processes : phase'[q] \in {"down", "load"} <=> cfg'[q] = Null
    BY <1>2, <1>3 DEF SameProcess
  <2>2. \A r \in Requests :
            /\ handler'[r] = "none" <=> at'[r] = Null
            /\ at'[r] # Null => phase'[at'[r]] \in {"select", "shutdown", "close"}
    BY <1>1, <1>2 DEF SameProcess
  <2>3. handler' \in [Requests -> {"none", "running", "holding"}]
        /\ at' \in [Requests -> Processes \cup {Null}]
    OBVIOUS
  <2> QED BY <1>4, <2>1, <2>2, <2>3
<1>6. ProcessOK(p)'
  BY <1>3, <1>4 DEF ProcessOK, RunningOK, MigrationOK, ExitOK, ShuttingDown
<1>7. \A r \in Requests, q \in Processes : at'[r] = q => at[r] = q
  BY <1>1
<1> QED BY <1>2, <1>5, <1>6, <1>7

(* What a step of process p that touches no request must establish.        *)
OwnStep(p) ==
    /\ ProcessTypeOK' /\ ProcessOK(p)' /\ Grows
    /\ \A q \in Processes : q # p => SameProcess(q)
    /\ UNCHANGED at

(* The main goroutine, from config.Load to the start of the server.        *)
LEMMA StartUpStep ==
    ASSUME ProcessTypeOK, NEW p \in Processes, ProcessOK(p),
           \/ LoadConfig(p) \/ Connect(p) \/ MigrateRead(p) \/ MigrateApply(p)
           \/ LoadKey(p) \/ Spawn(p),
           \A c : ~ Down(p, c)
    PROVE  OwnStep(p)
<1> USE DEF ProcessTypeOK, OwnStep, ProcessOK, RunningOK, MigrationOK, ExitOK,
            SameProcess, Grows, ShuttingDown, Handlers, requests, local, Goto, Return
<1>1. CASE LoadConfig(p)
  <2>1. PICK env \in Deployed :
            /\ phase[p] = "load" /\ phase' = [phase EXCEPT ![p] = "connect"]
            /\ cfg' = [cfg EXCEPT ![p] = Config(env)]
            /\ UNCHANGED <<signalled, pending, code, server, errCh, requests,
                           harmed, database, schema>>
    BY <1>1 DEF LoadConfig
  <2>2. Config(env) \in Configs
    BY DEF Configs
  <2> QED BY <2>1, <2>2
<1>2. CASE Connect(p)
  <2>1. /\ phase[p] = "connect"
        /\ Goto(p, IF cfg[p].MigrateOnStart THEN "migrate" ELSE "key")
        /\ UNCHANGED <<signalled, server, errCh, requests, harmed, database, schema>>
    BY <1>2 DEF Connect
  <2> QED BY <2>1
<1>3. CASE MigrateRead(p)
  <2>1. CASE Return(p, 1)
    BY <1>3, <2>1 DEF MigrateRead
  <2>2. CASE phase' = [phase EXCEPT ![p] = "apply"]
    <3>1. /\ phase[p] = "migrate" /\ pending' = [pending EXCEPT ![p] = ~ schema]
          /\ UNCHANGED <<cfg, code, signalled, server, errCh, requests, database,
                         schema, harmed>>
      BY <1>3, <2>2 DEF MigrateRead
    <3>2. pending'[p] = ~ schema /\ pending' \in [Processes -> BOOLEAN]
      BY <3>1
    <3>3. ProcessTypeOK'
      BY <2>2, <3>1, <3>2
    <3>4. \A q \in Processes : q # p => SameProcess(q)
      BY <2>2, <3>1
    <3>5. ~ pending'[p] => schema'
      BY <3>1, <3>2, Zenon
    <3>6. phase'[p] = "apply" /\ server'[p] = "off"
      BY <2>2, <3>1
    <3>7. MigrationOK(p)'
      BY <3>5, <3>6
    <3>8. RunningOK(p)' /\ ExitOK(p)'
      BY <3>1, <3>6
    <3> QED BY <3>1, <3>3, <3>4, <3>7, <3>8
  <2> QED BY <1>3, <2>1, <2>2 DEF MigrateRead
<1>4. CASE MigrateApply(p)
  <2>0. /\ phase[p] = "apply"
        /\ UNCHANGED <<signalled, server, errCh, requests, database, harmed>>
    BY <1>4 DEF MigrateApply
  <2>1. schema' \in BOOLEAN /\ (schema => schema')
    BY <1>4 DEF MigrateApply
  <2>2. CASE Return(p, 1)
    BY <2>0, <2>1, <2>2
  <2>3. CASE Goto(p, "key")
    <3>1. schema'
      BY <1>4, <2>0, <2>3 DEF MigrateApply
    <3> QED BY <2>0, <2>1, <2>3, <3>1
  <2> QED BY <1>4, <2>2, <2>3 DEF MigrateApply
<1>5. CASE LoadKey(p)
  <2>0. /\ phase[p] = "key"
        /\ UNCHANGED <<signalled, errCh, requests, database, schema, harmed>>
    BY <1>5 DEF LoadKey
  <2>1. CASE Goto(p, "select") /\ server' = [server EXCEPT ![p] = "starting"]
    BY <2>0, <2>1
  <2>2. CASE Return(p, 1) /\ UNCHANGED server
    BY <2>0, <2>2
  <2> QED BY <1>5, <2>1, <2>2 DEF LoadKey
<1>6. CASE Spawn(p)
  BY <1>6 DEF Spawn
<1> QED BY <1>1, <1>2, <1>3, <1>4, <1>5, <1>6

(* The server's goroutine, and the main one from the select on.            *)
LEMMA ServingStep ==
    ASSUME ProcessTypeOK, NEW p \in Processes, ProcessOK(p),
           \/ ListenAndServe(p) \/ ServeFails(p) \/ Select(p) \/ Shutdown(p)
           \/ Await(p) \/ Signal(p)
    PROVE  OwnStep(p)
<1> USE DEF ProcessTypeOK, OwnStep, ProcessOK, RunningOK, MigrationOK, ExitOK,
            SameProcess, Grows, ShuttingDown, Handlers, requests, local, Goto, Return
<1>1. CASE ListenAndServe(p)
  BY <1>1 DEF ListenAndServe, Report
<1>2. CASE ServeFails(p)
  BY <1>2 DEF ServeFails, Report
<1>3. CASE Select(p)
  BY <1>3 DEF Select
<1>4. CASE Shutdown(p)
  BY <1>4 DEF Shutdown
<1>5. CASE Await(p)
  BY <1>5 DEF Await
<1>6. CASE Signal(p)
  BY <1>6 DEF Signal
<1> QED BY <1>1, <1>2, <1>3, <1>4, <1>5, <1>6

-----------------------------------------------------------------------------
(* Steps of the handlers.                                                  *)

(* A request is accepted only by a process that is at its select.          *)
LEMMA AcceptStep ==
    ASSUME ProcessInv, NEW p \in Processes, NEW r \in Requests, Accept(r, p)
    PROVE  ProcessInv'
<1> USE DEF ProcessInv, ProcessTypeOK
<1>1. phase[p] = "select"
  BY DEF Accept, ShuttingDown, ProcessOK, RunningOK
<1>2. ProcessTypeOK'
  BY <1>1 DEF Accept, local
<1>3. \A q \in Processes : SameProcess(q)
  BY DEF Accept, local, SameProcess
<1>4. ASSUME NEW q \in Processes PROVE ProcessOK(q)'
  <2>1. CASE q = p
    <3>1. RunningOK(q)' /\ MigrationOK(q)'
      BY <1>3 DEF Accept, SameProcess, ProcessOK, RunningOK, MigrationOK, ShuttingDown
    <3>2. phase'[q] = "select"
      BY <1>1, <1>3, <2>1 DEF SameProcess
    <3>3. ExitOK(q)'
      BY <1>3, <3>2 DEF SameProcess, ProcessOK, ExitOK
    <3> QED BY <3>1, <3>3 DEF ProcessOK
  <2>2. CASE q # p
    BY <1>3, <2>2, SameProcessStep DEF Accept, Grows
  <2> QED BY <2>1, <2>2
<1> QED BY <1>2, <1>4

(* A handler that ends, or whose statement begins or ends.                 *)
LEMMA HandlerStep ==
    ASSUME ProcessInv, NEW r \in Requests, Acquire(r) \/ Release(r) \/ Finish(r)
    PROVE  ProcessInv'
<1> USE DEF ProcessInv, ProcessTypeOK
<1>1. /\ UNCHANGED <<phase, cfg, pending, code, signalled, server, errCh, database,
                     schema>>
      /\ handler[r] # "none"
  BY DEF Acquire, Release, Finish, local
<1>2. /\ at' \in [Requests -> Processes \cup {Null}]
      /\ handler' \in [Requests -> {"none", "running", "holding"}]
      /\ \A q \in Requests : handler'[q] = "none" <=> at'[q] = Null
      /\ \A q \in Requests : at'[q] # Null => at'[q] = at[q]
  BY DEF Acquire, Release, Finish, End
<1>3. at[r] \in Processes
  BY <1>1
<1>4. \/ UNCHANGED harmed
      \/ /\ harmed' = [harmed EXCEPT ![at[r]] = TRUE]
         /\ phase[at[r]] = "close"
  BY DEF Acquire, Release, Finish
<1>5. harmed' \in [Processes -> BOOLEAN]
  <2>1. harmed \in [Processes -> BOOLEAN]
    OBVIOUS
  <2> HIDE DEF ProcessInv
  <2>2. CASE UNCHANGED harmed
    BY <2>1, <2>2
  <2>3. CASE harmed' = [harmed EXCEPT ![at[r]] = TRUE]
    BY <2>1, <2>3
  <2> QED BY <1>4, <2>2, <2>3
<1>6. ProcessTypeOK'
  BY <1>1, <1>2, <1>5
<1>7. ASSUME NEW q \in Processes PROVE ProcessOK(q)'
  <2>1. CASE harmed'[q] = harmed[q]
    <3>1. SameProcess(q) /\ Grows
      BY <1>1, <2>1 DEF SameProcess, Grows
    <3> QED BY <1>2, <3>1, SameProcessStep
  <2>2. CASE harmed'[q] # harmed[q]
    <3>1. q = at[r] /\ phase[q] = "close"
      BY <1>3, <1>4, <2>2
    <3>2. code[q] = 1
      BY <3>1 DEF ProcessOK, RunningOK, ExitOK, Handlers
    <3>3. RunningOK(q)' /\ MigrationOK(q)'
      BY <1>1, <3>1 DEF ProcessOK, RunningOK, MigrationOK, ShuttingDown
    <3>4. ExitOK(q)'
      BY <1>1, <3>2 DEF ExitOK
    <3> QED BY <3>3, <3>4 DEF ProcessOK
  <2> QED BY <2>1, <2>2
<1> QED BY <1>6, <1>7

-----------------------------------------------------------------------------
(* The invariant.                                                          *)

(* A process goes down clean, or says so.                                  *)
LEMMA DownKeeps ==
    ASSUME ProcessInv, NEW p \in Processes, NEW c, Down(p, c),
           LoadConfig(p) \/ Connect(p) \/ PoolClose(p) \/ Kill(p)
    PROVE  ProcessInv'
<1> USE DEF ProcessInv
<1>0. ProcessOK(p) /\ ProcessTypeOK
  OBVIOUS
<1>1. UNCHANGED <<database, schema>>
  BY DEF LoadConfig, Connect, PoolClose, Kill
<1>2. PICK b \in {1, 137, code[p]} :
          Down(p, b) /\ (b = code[p] => phase[p] = "close" \/ b \in {1, 137})
  <2>1. CASE LoadConfig(p)
    <3>1. c = 1 \/ Down(p, 1)
      <4>1. ASSUME phase' = [phase EXCEPT ![p] = "connect"] PROVE FALSE
        BY <4>1 DEF Down, ProcessTypeOK
      <4> QED BY <2>1, <4>1 DEF LoadConfig
    <3> QED BY <3>1
  <2>2. CASE Connect(p)
    <3>1. ASSUME Goto(p, IF cfg[p].MigrateOnStart THEN "migrate" ELSE "key")
          PROVE  FALSE
      BY <3>1 DEF Down, Goto, ProcessTypeOK
    <3> QED BY <2>2, <3>1 DEF Connect
  <2>3. CASE PoolClose(p)
    BY <2>3 DEF PoolClose
  <2>4. CASE Kill(p)
    BY <2>4 DEF Kill
  <2> QED BY <2>1, <2>2, <2>3, <2>4
<1>3. b \in {Null, 0, 1, 137}
  BY DEF ProcessTypeOK
<1>4. /\ b = 0 => Handlers(p) = {} /\ ~ harmed[p]
      /\ harmed[p] \/ Handlers(p) # {} => b \in {1, 137}
  BY <1>0, <1>2 DEF ProcessOK, RunningOK, ExitOK
<1>5. /\ ProcessTypeOK' /\ ProcessOK(p)'
      /\ \A q \in Processes : q # p => SameProcess(q)
      /\ \A r \in Requests, q \in Processes : at'[r] = q => at[r] = q
  BY <1>0, <1>1, <1>2, <1>3, <1>4, DownStep
<1>6. Grows
  BY <1>1 DEF Grows
<1>7. ASSUME NEW q \in Processes, q # p PROVE ProcessOK(q)'
  BY <1>5, <1>6, <1>7, SameProcessStep
<1> QED BY <1>5, <1>7

(* The invariant is inductive.                                             *)
LEMMA ProcessStep ==
    ASSUME ProcessInv, [ProcessNext]_processVars
    PROVE  ProcessInv'
<1>1. ASSUME NEW p \in Processes, OwnStep(p) PROVE ProcessInv'
  <2>1. ASSUME NEW q \in Processes, q # p PROVE ProcessOK(q)'
    BY <1>1, <2>1, SameProcessStep DEF OwnStep, ProcessInv
  <2> QED BY <1>1, <2>1 DEF OwnStep, ProcessInv
<1>2. ASSUME NEW p \in Processes, Main(p) \/ Spawn(p) \/ Kill(p) PROVE ProcessInv'
  <2>1. CASE \E c : Down(p, c)
    <3>1. phase'[p] = "down"
      BY <2>1 DEF Down, ProcessInv, ProcessTypeOK
    <3>2. LoadConfig(p) \/ Connect(p) \/ PoolClose(p) \/ Kill(p)
      <4>0. phase \in [Processes -> {"down", "load", "connect", "migrate", "apply",
                                "key", "select", "shutdown", "await", "close"}]
        BY DEF ProcessInv, ProcessTypeOK
      <4> USE DEF Goto, Return
      <4>1. ~ MigrateRead(p) /\ ~ MigrateApply(p)
        BY <3>1, <4>0 DEF MigrateRead, MigrateApply
      <4>2. ~ LoadKey(p) /\ ~ Spawn(p)
        BY <3>1, <4>0 DEF LoadKey, Spawn
      <4>3. ~ Select(p) /\ ~ Shutdown(p) /\ ~ Await(p)
        BY <3>1, <4>0 DEF Select, Shutdown, Await
      <4> QED BY <1>2, <4>1, <4>2, <4>3 DEF Main
    <3> QED BY <2>1, <3>2, DownKeeps
  <2>2. CASE ~ \E c : Down(p, c)
    <3>1. ProcessTypeOK /\ ProcessOK(p)
      BY DEF ProcessInv
    <3>2. ~ PoolClose(p) /\ ~ Kill(p)
      BY <2>2 DEF PoolClose, Kill
    <3> QED BY <1>1, <1>2, <2>2, <3>1, <3>2, StartUpStep, ServingStep DEF Main
  <2> QED BY <2>1, <2>2
<1>3. ASSUME NEW p \in Processes, ListenAndServe(p) \/ ServeFails(p) \/ Signal(p)
      PROVE  ProcessInv'
  BY <1>1, <1>3, ServingStep DEF ProcessInv
<1>4. ASSUME UNCHANGED <<phase, cfg, signalled, pending, server, errCh, code,
                         handler, at, schema, harmed>>,
             database' \in {"up", "stuck"}
      PROVE  ProcessInv'
  <2>1. ProcessTypeOK'
    BY <1>4 DEF ProcessInv, ProcessTypeOK
  <2>2. \A q \in Processes : SameProcess(q) /\ Grows
    BY <1>4 DEF SameProcess, Grows
  <2> QED BY <1>4, <2>1, <2>2, SameProcessStep DEF ProcessInv
<1>5. ASSUME NEW state \in {"up", "stuck"}, DatabaseTurns(state) PROVE ProcessInv'
  BY <1>4, <1>5 DEF DatabaseTurns, local, requests
<1>6. CASE UNCHANGED processVars
  BY <1>4, <1>6 DEF processVars, ProcessInv, ProcessTypeOK
<1> QED BY <1>2, <1>3, <1>5, <1>6, AcceptStep, HandlerStep DEF ProcessNext

-----------------------------------------------------------------------------
(* config.Load.                                                            *)

(* What each kind of error says of the environment.                        *)
LEMMA LoadErrors ==
    ASSUME NEW env
    PROVE  /\ \A x \in BoolVars : {x} \in Load(env) <=> env[x] = "junk"
           /\ \A x \in DurationVars :
                 {x} \in Load(env) <=> env[x] \in {"junk", "nonpositive"}
           /\ {"DATABASE_URL"} \in Load(env) <=>
                 string(env["DATABASE_URL"], "empty") = "empty"
           /\ {"LOG_LEVEL"} \in Load(env) <=>
                 string(env["LOG_LEVEL"], "info") \notin Levels
           /\ KeySource \in Load(env) <=> ~ KeyChosen(Config(env))
           /\ \A e \in Load(env) :
                 \/ \E x \in BoolVars \cup DurationVars : e = {x}
                 \/ e \in {{"DATABASE_URL"}, {"LOG_LEVEL"}, KeySource}
<1>1. /\ Config(env).DatabaseURL = string(env["DATABASE_URL"], "empty")
      /\ Config(env).LogLevel = string(env["LOG_LEVEL"], "info")
  BY DEF Config
<1>2. \A e : e \in Load(env) <=>
          \/ \E x \in Unreadable(env) : e = {x}
          \/ e = {"DATABASE_URL"} /\ Config(env).DatabaseURL = "empty"
          \/ e = KeySource /\ ~ KeyChosen(Config(env))
          \/ e = {"LOG_LEVEL"} /\ Config(env).LogLevel \notin Levels
  BY DEF Load
<1>3. \A x, y : {x} = {y} => x = y
  OBVIOUS
<1>4. \A x : {x} # KeySource
  BY DEF KeySource
<1>5. \A x : x \in Unreadable(env) <=>
          \/ x \in BoolVars /\ env[x] = "junk"
          \/ x \in DurationVars /\ env[x] \in {"junk", "nonpositive"}
  BY DEF Unreadable
<1>6. /\ "DATABASE_URL" \notin BoolVars \cup DurationVars
      /\ "LOG_LEVEL" \notin BoolVars \cup DurationVars
      /\ \A x \in BoolVars : x \notin DurationVars
  BY DEF BoolVars, DurationVars
<1>7. \A x : {x} \in Load(env) <=>
          \/ x \in Unreadable(env)
          \/ x = "DATABASE_URL" /\ Config(env).DatabaseURL = "empty"
          \/ x = "LOG_LEVEL" /\ Config(env).LogLevel \notin Levels
  <2>1. ASSUME NEW x
        PROVE  {x} \in Load(env) <=>
                   \/ x \in Unreadable(env)
                   \/ x = "DATABASE_URL" /\ Config(env).DatabaseURL = "empty"
                   \/ x = "LOG_LEVEL" /\ Config(env).LogLevel \notin Levels
    <3>1. {x} \in Load(env) <=>
              \/ \E y \in Unreadable(env) : {x} = {y}
              \/ {x} = {"DATABASE_URL"} /\ Config(env).DatabaseURL = "empty"
              \/ {x} = KeySource /\ ~ KeyChosen(Config(env))
              \/ {x} = {"LOG_LEVEL"} /\ Config(env).LogLevel \notin Levels
      BY <1>2
    <3> QED BY <1>3, <1>4, <3>1, Zenon
  <2> QED BY <2>1
<1>8. \A x \in BoolVars : {x} \in Load(env) <=> env[x] = "junk"
  BY <1>5, <1>6, <1>7
<1>9. \A x \in DurationVars :
          {x} \in Load(env) <=> env[x] \in {"junk", "nonpositive"}
  BY <1>5, <1>6, <1>7
<1>10. /\ {"DATABASE_URL"} \in Load(env) <=>
             string(env["DATABASE_URL"], "empty") = "empty"
       /\ {"LOG_LEVEL"} \in Load(env) <=>
             string(env["LOG_LEVEL"], "info") \notin Levels
  BY <1>1, <1>5, <1>6, <1>7
<1>11. KeySource \in Load(env) <=> ~ KeyChosen(Config(env))
  BY <1>2, <1>4
<1>12. \A e \in Load(env) :
          \/ \E x \in BoolVars \cup DurationVars : e = {x}
          \/ e \in {{"DATABASE_URL"}, {"LOG_LEVEL"}, KeySource}
  BY <1>2, <1>5
<1> QED BY <1>8, <1>9, <1>10, <1>11, <1>12

(* Whether a variable is reported for itself depends on its value alone.   *)
LEMMA ReadAlike ==
    ASSUME NEW a, NEW b,
           NEW x \in BoolVars \cup DurationVars \cup {"DATABASE_URL", "LOG_LEVEL"},
           a[x] = b[x]
    PROVE  {x} \in Load(a) <=> {x} \in Load(b)
<1>1. CASE x \in BoolVars
  BY <1>1, LoadErrors
<1>2. CASE x \in DurationVars
  <2>1. /\ {x} \in Load(a) <=> a[x] \in {"junk", "nonpositive"}
        /\ {x} \in Load(b) <=> b[x] \in {"junk", "nonpositive"}
    BY <1>2, LoadErrors, Zenon
  <2> QED BY <2>1
<1>3. CASE x = "DATABASE_URL"
  BY <1>3, LoadErrors
<1>4. CASE x = "LOG_LEVEL"
  BY <1>4, LoadErrors
<1> QED BY <1>1, <1>2, <1>3, <1>4

(* Once the variables that Load names are given well-formed values, Load   *)
(* has nothing new to report.                                              *)
LEMMA NothingNew == FailsAgain = {}
<1> SUFFICES ASSUME NEW env \in Environments, NEW good \in WellFormed,
                    NEW S, S = Reported(env),
                    NEW fixed, fixed = Corrected(env, S, good)
             PROVE  \/ Load(fixed) = {}
                    \/ Load(fixed) = {KeySource} /\ "JWT_DEV_EPHEMERAL_KEY" \in S
  BY DEF FailsAgain
<1>1. \A x \in Variables : fixed[x] = IF x \in S THEN good[x] ELSE env[x]
  BY DEF Corrected
<1>2. \A x : x \in S <=> \E e \in Load(env) : x \in e
  BY DEF Reported
<1>3. \A x : {x} \notin Load(good)
  BY DEF WellFormed, KeySource
<1>4. ASSUME NEW x \in BoolVars \cup DurationVars \cup {"DATABASE_URL", "LOG_LEVEL"}
      PROVE  {x} \notin Load(fixed)
  <2>1. x \in Variables
    BY DEF Variables, StringVars
  <2>2. CASE x \in S
    <3>1. fixed[x] = good[x]
      BY <1>1, <2>1, <2>2
    <3> QED BY <1>3, <3>1, ReadAlike
  <2>3. CASE x \notin S
    <3>1. fixed[x] = env[x] /\ {x} \notin Load(env)
      BY <1>1, <1>2, <2>1, <2>3
    <3> QED BY <3>1, ReadAlike
  <2> QED BY <2>2, <2>3
<1>6. Load(fixed) \subseteq {KeySource}
  <2>1. ASSUME NEW e \in Load(fixed) PROVE e = KeySource
    <3>1. \/ \E x \in BoolVars \cup DurationVars : e = {x}
          \/ e \in {{"DATABASE_URL"}, {"LOG_LEVEL"}, KeySource}
      BY LoadErrors
    <3> QED BY <1>4, <3>1
  <2> QED BY <2>1
<1>7. ASSUME KeySource \in Load(fixed) PROVE "JWT_DEV_EPHEMERAL_KEY" \in S
  <2> SUFFICES ASSUME "JWT_DEV_EPHEMERAL_KEY" \notin S PROVE FALSE
    OBVIOUS
  <2>1. KeySource \notin Load(env)
    BY <1>2 DEF KeySource
  <2>2. "JWT_PRIVATE_KEY_FILE" \notin S
    BY <1>2, <2>1, LoadErrors DEF BoolVars, DurationVars
  <2>3. /\ fixed["JWT_PRIVATE_KEY_FILE"] = env["JWT_PRIVATE_KEY_FILE"]
        /\ fixed["JWT_DEV_EPHEMERAL_KEY"] = env["JWT_DEV_EPHEMERAL_KEY"]
    BY <1>1, <2>2 DEF Variables, StringVars, BoolVars
  <2>4. KeyChosen(Config(fixed)) <=> KeyChosen(Config(env))
    BY <2>3 DEF KeyChosen, Config
  <2> QED BY <1>7, <2>1, <2>4, LoadErrors
<1> QED BY <1>6, <1>7

-----------------------------------------------------------------------------
(* Theorems.                                                               *)

(* ProcessInv holds in every reachable state.                              *)
THEOREM ProcessInvariance == ProcessSpec => []ProcessInv
<1>1. ProcessInit => ProcessInv
  <2> SUFFICES ASSUME ProcessInit PROVE ProcessInv
    OBVIOUS
  <2>1. ProcessTypeOK
    BY DEF ProcessInit, ProcessTypeOK
  <2>2. \A p \in Processes : ProcessOK(p)
    BY DEF ProcessInit, ProcessOK, RunningOK, MigrationOK, ExitOK
  <2> QED BY <2>1, <2>2 DEF ProcessInv
<1>2. ProcessInv /\ [ProcessNext]_processVars => ProcessInv'
  BY ProcessStep
<1> QED BY <1>1, <1>2, PTL DEF ProcessSpec

(* Every variable keeps its type, and a process that is down serves nobody.*)
THEOREM ProcessTypeCorrectness == ProcessSpec => []ProcessTypeOK
<1>1. ProcessInv => ProcessTypeOK
  BY DEF ProcessInv
<1> QED BY <1>1, ProcessInvariance, PTL

(* Exit code 0 means: told to stop, and no accepted request was failed.    *)
THEOREM ExitCodesAreHonest == ProcessSpec => []CleanExit
<1>1. ProcessInv => CleanExit
  BY DEF ProcessInv, ProcessOK, ExitOK, CleanExit
<1> QED BY <1>1, ProcessInvariance, PTL

(* However many processes start together, one that is told to migrate      *)
(* serves only once the schema is there.                                   *)
THEOREM MigrationPrecedesService == ProcessSpec => []MigratedBeforeServing
<1>1. ProcessInv => MigratedBeforeServing
  BY DEF ProcessInv, ProcessOK, MigrationOK, MigratedBeforeServing
<1> QED BY <1>1, ProcessInvariance, PTL

(* Whatever the environments are, Load reports all problems together.      *)
THEOREM LoadReportsEverything == ProcessSpec => []AllProblemsReported
<1>1. AllProblemsReported
  BY NothingNew DEF AllProblemsReported
<1> QED BY <1>1, PTL

=============================================================================
