-------------------------------- MODULE Config --------------------------------
(***************************************************************************)
(* The configuration of a process (internal/config/config.go): defaults,   *)
(* what the YAML file sets over them, and what the environment sets over   *)
(* both.  Only the settings that the environment can override, or that the *)
(* start-up of a process depends on, are listed.  Numerals in variables    *)
(* are kept as text; a timeout is a number of seconds.                     *)
(***************************************************************************)
CONSTANT Numerals  \* texts that strconv.Atoi accepts

Default ==
    [host |-> "0.0.0.0", port |-> "8080",
     uri |-> "mongodb://localhost:27017", database |-> "logstream",
     collection |-> "logs", time_series |-> TRUE,
     connect_timeout |-> 10, max_pool_size |-> 200, min_pool_size |-> 10,
     brokers |-> "localhost:9092", kafka |-> FALSE,
     redis_addr |-> "localhost:6379", redis |-> FALSE,
     slack_webhook |-> "", alerter |-> FALSE, level |-> "info"]

Settings == DOMAIN Default

(* The variables applyEnvOverrides looks up, the setting each one replaces *)
(* and the feature that it switches on.                                    *)
Replaces ==
    [MONGODB_URI |-> "uri", MONGODB_DATABASE |-> "database",
     REDIS_ADDR |-> "redis_addr", KAFKA_BROKERS |-> "brokers",
     SLACK_WEBHOOK |-> "slack_webhook", SERVER_PORT |-> "port",
     LOG_LEVEL |-> "level"]
SwitchesOn ==
    [REDIS_ADDR |-> "redis", KAFKA_BROKERS |-> "kafka", SLACK_WEBHOOK |-> "alerter"]

(* A variable that is set to the empty text counts as unset, and so does a *)
(* port that is no number.                                                 *)
Effective(env) ==
    {v \in DOMAIN env \cap DOMAIN Replaces :
        env[v] # "" /\ (v = "SERVER_PORT" => env[v] \in Numerals)}

(* Mutant of Overridden: the file has the last word. *)
OverriddenByFile(cfg, env) == cfg

Overridden(cfg, env) ==
    [s \in Settings |->
        CASE \E v \in Effective(env) : Replaces[v] = s ->
                env[CHOOSE v \in Effective(env) : Replaces[v] = s]
          [] \E v \in Effective(env) \cap DOMAIN SwitchesOn : SwitchesOn[v] = s -> TRUE
          [] OTHER -> cfg[s]]

(* A file is [found, sets], sets being what its YAML says, and found one   *)
(* of "ok", "missing", "unreadable" and "garbled".  A file that does not   *)
(* exist is no error: the defaults stand.                                  *)
Loads(file) == file.found \in {"ok", "missing"}

Merged(file) ==
    [s \in Settings |->
        IF file.found = "ok" /\ s \in DOMAIN file.sets THEN file.sets[s] ELSE Default[s]]

(* The result of Load, when it gives one. *)
Loaded(file, env) == Overridden(Merged(file), env)
=============================================================================
