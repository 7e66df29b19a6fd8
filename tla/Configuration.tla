---------------------------- MODULE Configuration ----------------------------
(***************************************************************************)
(* What a process of cmd/identity is started with: its environment, read   *)
(* by config.Load, and the key file, read by pkg/jwtx.  Everything here is *)
(* pure.  The value of a variable is abstracted to what its parser tells   *)
(* apart; an error is the set of the variables it names.                   *)
(***************************************************************************)
EXTENDS Sequences

StringVars   == {"HTTP_ADDR", "DATABASE_URL", "JWT_PRIVATE_KEY_FILE",
                 "JWT_ISSUER", "JWT_AUDIENCE"}
BoolVars     == {"MIGRATE_ON_START", "JWT_DEV_EPHEMERAL_KEY"}
DurationVars == {"ACCESS_TOKEN_TTL", "REFRESH_TOKEN_TTL", "SHUTDOWN_TIMEOUT"}
Levels       == {"debug", "info", "warn", "error"}
Variables    == StringVars \cup BoolVars \cup DurationVars \cup {"LOG_LEVEL"}

(* The raw values of variable x; an empty bool or duration is junk.        *)
Values(x) ==
    {"unset"} \cup
    CASE x \in StringVars   -> {"empty", "text"}
      [] x \in BoolVars     -> {"true", "false", "junk"}
      [] x \in DurationVars -> {"positive", "nonpositive", "junk"}
      [] x = "LOG_LEVEL"    -> Levels \cup {"junk"}

CONSTANT Environments      \* the environments of this instance

ASSUME EnvironmentAssumption ==
    \A env \in Environments :
        DOMAIN env = Variables /\ \A x \in Variables : env[x] \in Values(x)

-----------------------------------------------------------------------------
(* config.Load.                                                            *)

string(v, def) == IF v = "unset" THEN def ELSE v

bool(v, def) == IF v \in {"true", "false"} THEN v = "true" ELSE def

(* A value that is reported is replaced by the default, too.               *)
duration(v, def) == IF v = "positive" THEN v ELSE def

Config(env) ==
    [HTTPAddr           |-> string(env["HTTP_ADDR"], "text"),
     DatabaseURL        |-> string(env["DATABASE_URL"], "empty"),
     MigrateOnStart     |-> bool(env["MIGRATE_ON_START"], TRUE),
     JWTPrivateKeyFile  |-> string(env["JWT_PRIVATE_KEY_FILE"], "empty"),
     JWTDevEphemeralKey |-> bool(env["JWT_DEV_EPHEMERAL_KEY"], FALSE),
     JWTIssuer          |-> string(env["JWT_ISSUER"], "text"),
     JWTAudience        |-> string(env["JWT_AUDIENCE"], "text"),
     AccessTokenTTL     |-> duration(env["ACCESS_TOKEN_TTL"], "positive"),
     RefreshTokenTTL    |-> duration(env["REFRESH_TOKEN_TTL"], "positive"),
     ShutdownTimeout    |-> duration(env["SHUTDOWN_TIMEOUT"], "positive"),
     LogLevel           |-> string(env["LOG_LEVEL"], "info")]

KeySource == {"JWT_PRIVATE_KEY_FILE", "JWT_DEV_EPHEMERAL_KEY"}

Unreadable(env) ==
    {x \in BoolVars : env[x] = "junk"}
        \cup {x \in DurationVars : env[x] \in {"junk", "nonpositive"}}

(* Exactly one source of the signing key must be set.                      *)
KeyChosen(conf) == (conf.JWTPrivateKeyFile # "empty") # conf.JWTDevEphemeralKey

(* Mutant: an unreadable variable is reported before anything is validated.*)
LoadParsingFirst(env) ==
    LET conf == Config(env)
    IN  IF Unreadable(env) # {} THEN {{x} : x \in Unreadable(env)}
        ELSE {x \in {{"DATABASE_URL"}} : conf.DatabaseURL = "empty"}
             \cup {x \in {KeySource} : ~ KeyChosen(conf)}
             \cup {x \in {{"LOG_LEVEL"}} : conf.LogLevel \notin Levels}

(* The errors Load joins; the configuration is returned when there is none.*)
Load(env) ==
    LET conf == Config(env)
    IN  {{x} : x \in Unreadable(env)}
        \cup {x \in {{"DATABASE_URL"}} : conf.DatabaseURL = "empty"}
        \cup {x \in {KeySource} : ~ KeyChosen(conf)}
        \cup {x \in {{"LOG_LEVEL"}} : conf.LogLevel \notin Levels}

-----------------------------------------------------------------------------
(* The key file: a sequence of PEM blocks, each a type and what its bytes  *)
(* hold.                                                                   *)

Block    == [type : {"PRIVATE KEY", "other"}, key : {"ed25519", "rsa", "junk"}]
KeyFiles == {<<>>} \cup {<<b>> : b \in Block} \cup {<<b, c>> : b, c \in Block}

(* Only the first block counts: PKCS#8, and an Ed25519 key in it.          *)
ParsePrivateKeyPEM(file) ==
    IF file = <<>> THEN "no PEM block found"
    ELSE IF Head(file).type # "PRIVATE KEY" THEN "unexpected PEM block"
    ELSE IF Head(file).key = "junk" THEN "parse pkcs8"
    ELSE IF Head(file).key # "ed25519" THEN "errNotEd25519"
    ELSE "nil"

-----------------------------------------------------------------------------

Reported(env) == UNION Load(env)

(* The environment after the variables in S were given the values of good. *)
Corrected(env, S, good) ==
    [x \in Variables |-> IF x \in S THEN good[x] ELSE env[x]]

WellFormed == {env \in Environments : Load(env) \subseteq {KeySource}}

(* The environments that Load refuses again, for another reason than the   *)
(* choice of the key source, after what it reported was corrected.         *)
FailsAgain ==
    {env \in Environments : \E S \in {Reported(env)}, good \in WellFormed :
        LET next == Load(Corrected(env, S, good))
        IN  /\ next # {}
            /\ next # {KeySource} \/ "JWT_DEV_EPHEMERAL_KEY" \notin S}

=============================================================================
