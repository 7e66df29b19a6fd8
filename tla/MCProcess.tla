------------------------------ MODULE MCProcess ------------------------------
(* Instances of Process for TLC.                                           *)
EXTENDS Process

(* Every combination of the values that matter; one duration stands for    *)
(* the three, which are read alike.                                        *)
MCEnvironments ==
    {[x \in Variables |->
        CASE x = "DATABASE_URL"          -> url
          [] x = "MIGRATE_ON_START"      -> migrate
          [] x = "JWT_PRIVATE_KEY_FILE"  -> file
          [] x = "JWT_DEV_EPHEMERAL_KEY" -> ephemeral
          [] x = "SHUTDOWN_TIMEOUT"      -> timeout
          [] x = "LOG_LEVEL"             -> level
          [] OTHER                       -> "unset"] :
        url, file \in {"unset", "empty", "text"},
        migrate \in {"unset", "false", "junk"},
        ephemeral \in {"unset", "true", "junk"},
        timeout \in {"positive", "nonpositive", "junk"},
        level \in {"warn", "junk"}}

(* A process that migrates and reads its key, a development one that does  *)
(* neither, and one that is misconfigured.                                 *)
MCDeployed ==
    {env \in MCEnvironments :
        /\ env["SHUTDOWN_TIMEOUT"] = "positive" /\ env["LOG_LEVEL"] = "warn"
        /\ env["DATABASE_URL"] = "text"
        /\ <<env["MIGRATE_ON_START"], env["JWT_PRIVATE_KEY_FILE"],
             env["JWT_DEV_EPHEMERAL_KEY"]>> \in
               {<<"unset", "text", "unset">>, <<"false", "unset", "true">>,
                <<"unset", "text", "true">>}}
=============================================================================
