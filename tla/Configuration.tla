------------------------------- MODULE Configuration -------------------------------
(***************************************************************************)
(* How a process finds its settings (config.rs): a TOML file, the          *)
(* environment and the command line each give some of them, as functions   *)
(* of the names they give; `readable` says whether the file, when one is   *)
(* named, can be read and parsed.  Bad stands for any text the setting     *)
(* does not accept; clap has refused those of listen and cookie_secure on  *)
(* the command line before.  A data directory is absolute or relative.     *)
(***************************************************************************)
EXTENDS Integers, Sequences

CONSTANTS
    Bad,        \* a text the setting does not accept
    Relative,   \* a relative data directory
    Beside,     \* that directory beside the configuration file
    Default     \* the built-in value of every setting

\* Settings that are checked once they have been selected.
Simple == {"public_url", "cookie_secure", "session_ttl_seconds", "max_config_bytes"}

ASSUME ConfigurationAssumption ==
    /\ DOMAIN Default = Simple \cup {"listen", "data_dir"}
    /\ \A n \in DOMAIN Default : Default[n] # Bad

Gives(source, n) == n \in DOMAIN source

---------------------------------------------------------------------------------
(* A mistake a change to the code could make, to see that the property       *)
(* notices.                                                                  *)

\* The environment is asked before the command line.
SelectedEnvFirst(c, n) ==
    CASE Gives(c.env, n)  -> c.env[n]
      [] ~Gives(c.env, n) /\ Gives(c.cli, n) -> c.cli[n]
      [] ~Gives(c.env, n) /\ ~Gives(c.cli, n) /\ Gives(c.file, n) -> c.file[n]
      [] OTHER -> Default[n]

---------------------------------------------------------------------------------
Selected(c, n) ==
    CASE Gives(c.cli, n) -> c.cli[n]
      [] ~Gives(c.cli, n) /\ Gives(c.env, n) -> c.env[n]
      [] ~Gives(c.cli, n) /\ ~Gives(c.env, n) /\ Gives(c.file, n) -> c.file[n]
      [] OTHER -> Default[n]

\* The address of the file is parsed although the environment has another.
ListenFails(c) ==
    /\ ~Gives(c.cli, "listen")
    /\ \E source \in {c.file, c.env} : Gives(source, "listen") /\ source["listen"] = Bad

\* A bad directory of the file fails although it is not selected; a relative one is
\* taken from the file only.
LocationFails(c) ==
    \/ Gives(c.env, "data_dir") /\ Gives(c.env, "database_url")
    \/ Gives(c.file, "data_dir") /\ c.file["data_dir"] = Bad
    \/ Gives(c.env, "database_url") /\ c.env["database_url"] = Bad
    \/ /\ ~Gives(c.env, "database_url")
       /\ Gives(c.env, "data_dir") \/ Gives(c.cli, "data_dir")
       /\ Selected(c, "data_dir") \in {Bad, Relative}

\* ServiceConfig::from_sources fails.
Refused(c) ==
    \/ ~c.readable
    \/ ListenFails(c)
    \/ LocationFails(c)
    \/ \E n \in Simple : Selected(c, n) = Bad   \* ServiceConfig::new

\* The database of an accepted configuration: CONFDOCK_DATABASE_URL before any
\* directory.
Location(c) ==
    CASE Gives(c.env, "database_url") -> c.env["database_url"]
      [] ~Gives(c.env, "database_url") /\ Selected(c, "data_dir") = Relative -> Beside
      [] OTHER -> Selected(c, "data_dir")

\* The settings a start works with.
Settings(c) ==
    [database |-> Location(c), listen |-> Selected(c, "listen"),
     public_url |-> Selected(c, "public_url")]
=================================================================================
