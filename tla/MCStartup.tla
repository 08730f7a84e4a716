--------------------------------- MODULE MCStartup ---------------------------------
\* The service with its file and a bootstrap password; an operator who types commands
\* with the same file, on the same database or another, and gets some of it wrong.
EXTENDS Startup

MCDefault == [listen |-> "8787", data_dir |-> "d1", public_url |-> "local",
              cookie_secure |-> "false", session_ttl_seconds |-> "week", max_config_bytes |-> "8M"]

Nothing == [n \in {} |-> ""]

File == [listen |-> "80", data_dir |-> "d2", public_url |-> "a"]

MCSupervised == [command |-> "serve", tty |-> FALSE, bootstrap |-> "p1",
    config |-> [readable |-> TRUE, file |-> File, env |-> Nothing, cli |-> Nothing]]

Command(name, word, file, env, cli) ==
    [command |-> name, tty |-> TRUE, bootstrap |-> word,
     config |-> [readable |-> TRUE, file |-> file, env |-> env, cli |-> cli]]

InFile(n, v) == [File EXCEPT ![n] = v]

MCTyped == {
    Command("admin init", None, File, Nothing, Nothing),
    Command("admin set-password", None, File, Nothing, Nothing),
    Command("serve", None, File, Nothing, [public_url |-> "b"]),
    Command("serve", "p2", File, Nothing, [listen |-> "81"]),
    [Command("serve", Weak, File, [public_url |-> "b"], [listen |-> "81"]) EXCEPT !.tty = FALSE],
    [Command("serve", None, File, [listen |-> "81"], Nothing) EXCEPT !.tty = FALSE],
    [Command("admin init", None, File, Nothing, Nothing) EXCEPT !.tty = FALSE],
    Command("admin init", None, File, [database_url |-> "d1", public_url |-> "bad"], [public_url |-> "b"]),
    Command("admin init", None, InFile("data_dir", "relative"), Nothing, Nothing),
    Command("serve", None, InFile("listen", "bad"), [listen |-> "80"], Nothing),
    Command("serve", None, InFile("listen", "bad"), Nothing, [listen |-> "80", data_dir |-> "d1"]),
    Command("admin init", None, InFile("data_dir", "bad"), [data_dir |-> "d1"], Nothing),
    Command("admin init", None, File, [data_dir |-> "d1"], [data_dir |-> "relative"]),
    Command("admin init", None, File, [data_dir |-> "d1"], [data_dir |-> "d2"]),
    [Command("serve", None, Nothing, [session_ttl_seconds |-> "bad"], Nothing)
        EXCEPT !.config.readable = FALSE]}
=================================================================================
