---------------------------- MODULE ConfigLayers ----------------------------
(***************************************************************************)
(* How the configuration comes about (config.rs, config/*.rs and           *)
(* load_configs of main.rs): defaults, the TOML file, the environment if   *)
(* --allow-env is given, the command line and a fallback, laid over each   *)
(* other.  What matters of a value is who set it, so a configuration maps  *)
(* every field to the layer its value comes from.                          *)
(***************************************************************************)
EXTENDS Integers, Sequences, SequencesExt, FiniteSets

(* ServerConfig and HttpServerConfig, UpsdConfig *)
CliFields == {"config_file", "default_theme", "log_level", "server_key", "base_path", "listen",
              "port", "worker_count", "auth"}
EnvFields == CliFields
TomlFields == CliFields \ {"config_file", "server_key"}
UpsdFields == {"addr", "max_conn", "pass", "poll_freq", "poll_interval", "port", "tls_mode", "user"}

DefaultKey == "default"

DefaultUpsd == [f \in UpsdFields |-> "default"]

(* A configuration: its fields, and an UpsdConfig for each namespace. *)
DefaultConfig == [of |-> [f \in CliFields |-> "default"], upsd |-> <<>>]

(* override_opt_field! for every field that is Some. *)
Override(fields, given, who) == [f \in DOMAIN fields |-> IF f \in given THEN who ELSE fields[f]]

-----------------------------------------------------------------------------
(* The environment.  A variable is unset, or its value is empty, blank,    *)
(* some text, the path of a file, or cannot be parsed.                     *)
Raw == {"unset", "empty", "blank", "text", "file", "bad"}

PathFields == {"config_file", "auth"}
TextFields == {"default_theme", "server_key", "addr", "pass", "user", "name"}

(* Nothing but blanks parses: as the empty base path and as level ERROR.   *)
BlankFields == TextFields \cup {"base_path", "log_level"}

(* Whether load_var! finds a value: Some, None, or the error that ends     *)
(* the program.  A path is taken as it is; text may be blank; anything     *)
(* else must parse, also what a file says.                                 *)
EnvValue(f, raw) ==
    CASE raw \in {"unset", "empty"} -> "none"
      [] raw = "blank" -> IF f \in PathFields THEN "none" ELSE IF f \in BlankFields THEN "some" ELSE "error"
      [] raw \in {"text", "file"} -> "some"
      [] raw = "bad" -> IF f \in PathFields \cup TextFields THEN "some" ELSE "error"

(* ServerEnvArgs::load of variables e.of and e.upsd, for namespace e.name. *)
EnvGiven(raws) == {f \in DOMAIN raws : EnvValue(f, raws[f]) = "some"}

EnvFails(e) ==
    \/ \E f \in DOMAIN e.of : EnvValue(f, e.of[f]) = "error"
    \/ \E f \in DOMAIN e.upsd : EnvValue(f, e.upsd[f]) = "error"

(* Faulty variant: the entry of a name that is not there is made anyway,   *)
(* in the place of all the others.                                         *)
EnvUpsdAlone(upsd, e) ==
    LET given == EnvGiven(e.upsd)
        base == IF e.name \in DOMAIN upsd THEN upsd[e.name] ELSE DefaultUpsd
    IN [k \in {e.name} |-> Override(base, given, "env")]

(* Only an address makes a new namespace; other variables are for one that *)
(* is there.                                                               *)
EnvUpsd(upsd, e) ==
    LET given == EnvGiven(e.upsd)
        keys == DOMAIN upsd \cup (IF "addr" \in given THEN {e.name} ELSE {})
        base == [k \in keys |-> IF k \in DOMAIN upsd THEN upsd[k] ELSE DefaultUpsd]
    IN [k \in keys |-> IF k = e.name THEN Override(base[k], given, "env") ELSE base[k]]

EnvLayer(config, e) ==
    [of |-> Override(config.of, EnvGiven(e.of), "env"), upsd |-> EnvUpsd(config.upsd, e)]

NoEnv == [of |-> [f \in EnvFields |-> "unset"], upsd |-> [f \in UpsdFields |-> "unset"], name |-> DefaultKey]

-----------------------------------------------------------------------------
(* The other layers. *)

(* A section of the file is built from the defaults, not from what is there. *)
TomlLayer(config, toml) ==
    [of |-> Override(config.of, toml.of, "toml"),
     upsd |-> [k \in DOMAIN config.upsd \cup DOMAIN toml.upsd |->
                  IF k \in DOMAIN toml.upsd THEN Override(DefaultUpsd, toml.upsd[k], "toml")
                  ELSE config.upsd[k]]]

CliLayer(config, cli) == [config EXCEPT !.of = Override(config.of, cli, "cli")]

FallbackLayer(config) ==
    IF DOMAIN config.upsd = {} THEN [config EXCEPT !.upsd = [k \in {DefaultKey} |-> DefaultUpsd]]
    ELSE config

NoToml == [ok |-> TRUE, of |-> {}, upsd |-> <<>>]

(* The environment that is looked at, and the file that is read. *)
EnvOf(allowEnv, env) == IF allowEnv THEN env ELSE NoEnv
FileOf(cli, e, toml) == IF "config_file" \in cli \cup EnvGiven(e.of) THEN toml ELSE NoToml

(* Faulty variant: the command line is laid below the environment. *)
LoadConfigsCliFirst(cli, allowEnv, env, toml) ==
    LET e == EnvOf(allowEnv, env)
        file == FileOf(cli, e, toml)
    IN IF EnvFails(e) \/ ~file.ok THEN {}
       ELSE {FallbackLayer(EnvLayer(CliLayer(TomlLayer(DefaultConfig, file), cli), e))}

(* load_configs, for a command line that gives the fields cli and a file   *)
(* that says toml; {} when the program ends with an error.                 *)
LoadConfigs(cli, allowEnv, env, toml) ==
    LET e == EnvOf(allowEnv, env)
        file == FileOf(cli, e, toml)
    IN IF EnvFails(e) \/ ~file.ok THEN {}
       ELSE {FallbackLayer(CliLayer(EnvLayer(TomlLayer(DefaultConfig, file), e), cli))}
=============================================================================
