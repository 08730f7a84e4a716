---------------------------------- MODULE Startup ----------------------------------
(***************************************************************************)
(* Processes that start on one database (main.rs, state.rs, auth.rs): the  *)
(* service under its supervisor, and commands an operator types beside it. *)
(* Each opens the file, lists the migrations that are applied, applies the *)
(* others one transaction at a time, stores the public address unless one  *)
(* is stored, and goes on to bootstrap the administrator, to serve, or to  *)
(* set a password.  Statements of several processes interleave, for        *)
(* STARTUP_LOCK belongs to one process and SQLite has no lock that sqlx    *)
(* could hold over a migration run.                                        *)
(***************************************************************************)
EXTENDS Configuration, FiniteSets

CONSTANTS
    Service,     \* the process the supervisor starts
    Operator,    \* processes of an operator
    Supervised,  \* what the supervisor starts: a command and a configuration
    Typed,       \* what an operator may start
    Database,    \* database files
    Migrations,  \* how many migrations there are
    Password,    \* passwords of a valid length
    Weak,        \* a password of another length
    None,        \* no row, no password
    MaxLaunches, \* bound: processes an operator starts
    MaxFaults    \* bound: processes that are killed or meet a failing statement

Proc == Operator \cup {Service}

ASSUME StartupAssumption ==
    /\ Service \notin Operator
    /\ Migrations \in Nat \ {0}
    /\ None \notin Password /\ Weak \notin Password /\ Weak # None
    /\ MaxLaunches \in Nat /\ MaxFaults \in Nat
    /\ Default["data_dir"] \in Database
    /\ \A l \in Typed \cup {Supervised} :
         /\ l.command \in {"serve", "admin init", "admin set-password"}
         /\ Gives(l.config.cli, "listen") => l.config.cli["listen"] # Bad   \* clap
         /\ ~Refused(l.config) => Location(l.config) \in Database

VARIABLES
    db,        \* db[d]: applied migrations, public address, password of the
               \* administrator and the command that set it
    proc,      \* proc[p]: how far process p has come
    launches,  \* processes started by an operator
    faults     \* processes that were killed or met a failing statement

vars == <<db, proc, launches, faults>>

Pc == {"down", "open", "list", "migrate", "address", "read", "cleanup",
       "exists", "prompt", "count", "insert", "change", "bind", "serving", "done"}

Off == [pc |-> "down", command |-> "serve", tty |-> FALSE, password |-> None,
        set |-> [database |-> None, listen |-> None, public_url |-> None],
        asked |-> FALSE, listed |-> 0, copy |-> None, created |-> FALSE]

At(p, pc) == proc[p].pc = pc

Up(p) == proc[p].pc \notin {"down", "done"}

Its(p) == db[proc[p].set.database]

Goto(p, pc) == proc' = [proc EXCEPT ![p].pc = pc]

\* The process exits, with success or with an error.
Exit(p) == Goto(p, "done")

\* The columns of the database that p writes.
Store(p, row) == db' = [db EXCEPT ![proc[p].set.database] = row]

\* Without effect on the database.
Quiet == UNCHANGED <<db, launches, faults>>

---------------------------------------------------------------------------------
(* Mistakes a change to the code could make, to see that the properties      *)
(* notice.                                                                   *)

\* The address of the configuration replaces the stored one.
EnsureAddressAlways(p) ==
    /\ At(p, "address")
    /\ Store(p, [Its(p) EXCEPT !.url = proc[p].set.public_url])
    /\ Goto(p, "read")
    /\ UNCHANGED <<launches, faults>>

\* The INSERT is taken for a success.
InsertedAlways(p) == TRUE

\* A start is not content with an administrator it did not create.
AfterOwnOnly(p, created) == IF created /\ proc[p].command = "serve" THEN "bind" ELSE "done"

---------------------------------------------------------------------------------
\* run: configuration, then the terminal a command may need.
Started(l) ==
    [Off EXCEPT !.pc = IF \/ Refused(l.config)
                          \/ l.command \in {"admin init", "admin set-password"} /\ ~l.tty
                       THEN "done" ELSE "open",
                !.command = l.command, !.tty = l.tty,
                !.password = IF l.command = "serve" THEN l.bootstrap ELSE None,
                !.set = IF Refused(l.config) THEN Off.set ELSE Settings(l.config)]

Init ==
    /\ db = [d \in Database |-> [applied |-> 0, url |-> None, admin |-> None, by |-> None]]
    /\ proc = [p \in Proc |-> Off]
    /\ launches = 0
    /\ faults = 0

\* systemd (Restart=on-failure) and Docker (unless-stopped) start the service again.
Supervise ==
    /\ ~Up(Service)
    /\ proc' = [proc EXCEPT ![Service] = Started(Supervised)]
    /\ Quiet

Launch(p, l) ==
    /\ ~Up(p) /\ launches < MaxLaunches
    /\ launches' = launches + 1
    /\ proc' = [proc EXCEPT ![p] = Started(l)]
    /\ UNCHANGED <<db, faults>>

\* A signal, a crash, or a statement that fails, busy_timeout included: what the
\* process has committed stays.
Fault(p) ==
    /\ Up(p) /\ faults < MaxFaults
    /\ faults' = faults + 1
    /\ Goto(p, "down")
    /\ UNCHANGED <<db, launches>>

\* prepare_database_parent and connect_with.
Open(p) == At(p, "open") /\ Goto(p, "list") /\ Quiet

\* Migrator::run lists what is applied once.
List(p) ==
    /\ At(p, "list")
    /\ proc' = [proc EXCEPT ![p].pc = "migrate", ![p].listed = Its(p).applied]
    /\ Quiet

\* One migration that the list lacked, in a transaction; its CREATE or ALTER fails when
\* another process has applied it since.
Migrate(p) ==
    /\ At(p, "migrate") /\ proc[p].listed < Migrations
    /\ IF Its(p).applied = proc[p].listed
         THEN /\ Store(p, [Its(p) EXCEPT !.applied = @ + 1])
              /\ proc' = [proc EXCEPT ![p].listed = @ + 1]
         ELSE Exit(p) /\ UNCHANGED db
    /\ UNCHANGED <<launches, faults>>

Migrated(p) ==
    /\ At(p, "migrate") /\ proc[p].listed = Migrations
    /\ Goto(p, "address") /\ Quiet

\* The INSERT of ensure_public_url, ON CONFLICT DO NOTHING.
EnsureAddress(p) ==
    /\ At(p, "address")
    /\ Store(p, [Its(p) EXCEPT !.url = IF @ = None THEN proc[p].set.public_url ELSE @])
    /\ Goto(p, "read")
    /\ UNCHANGED <<launches, faults>>

\* Its SELECT.
ReadAddress(p) ==
    /\ At(p, "read")
    /\ proc' = [proc EXCEPT ![p].pc = "cleanup", ![p].copy = Its(p).url]
    /\ Quiet

\* cleanup_expired_sessions, and the way of the command from there.
Cleanup(p) ==
    /\ At(p, "cleanup")
    /\ Goto(p, IF proc[p].password # None THEN "count" ELSE "exists")
    /\ Quiet

\* admin_exists.
Exists(p) ==
    LET admin == Its(p).admin # None IN
    /\ At(p, "exists")
    /\ CASE proc[p].command = "serve" ->
              Goto(p, IF admin THEN "bind" ELSE IF proc[p].tty THEN "prompt" ELSE "done")
         [] proc[p].command = "admin init" -> Goto(p, IF admin THEN "done" ELSE "prompt")
         [] proc[p].command = "admin set-password" -> Goto(p, IF admin THEN "prompt" ELSE "done")
    /\ Quiet

\* prompt_new_password, and valid_password for admin set-password.
Prompt(p, word) ==
    /\ At(p, "prompt")
    /\ IF proc[p].command # "admin set-password"
         THEN proc' = [proc EXCEPT ![p].pc = "count", ![p].password = word, ![p].asked = TRUE]
         ELSE IF word = Weak THEN Exit(p)
         ELSE proc' = [proc EXCEPT ![p].pc = "change", ![p].password = word]
    /\ Quiet

\* The two answers do not match.
Mismatch(p) == At(p, "prompt") /\ Exit(p) /\ Quiet

\* How a process goes on from bootstrap_admin: only AppState::initialize is content with
\* an administrator it did not create.
After(p, created) ==
    CASE created /\ proc[p].command = "serve" -> "bind"
      [] ~created /\ proc[p].command = "serve" /\ ~proc[p].asked -> "bind"
      [] OTHER -> "done"

\* bootstrap_admin up to the hash.
Count(p) ==
    /\ At(p, "count")
    /\ Goto(p, IF Its(p).admin # None THEN After(p, FALSE)
               ELSE IF proc[p].password = Weak THEN "done" ELSE "insert")
    /\ Quiet

\* rows_affected() == 1.
Inserted(p) == Its(p).admin = None

\* Its INSERT, ON CONFLICT DO NOTHING.
InsertAdmin(p) ==
    /\ At(p, "insert")
    /\ Store(p, IF Its(p).admin = None
                  THEN [Its(p) EXCEPT !.admin = proc[p].password, !.by = "bootstrap"]
                  ELSE Its(p))
    /\ proc' = [proc EXCEPT ![p].created = Inserted(p), ![p].pc = After(p, Inserted(p))]
    /\ UNCHANGED <<launches, faults>>

\* The transaction of set_password_cli.
ChangePassword(p) ==
    /\ At(p, "change")
    /\ Store(p, [Its(p) EXCEPT !.admin = proc[p].password, !.by = "set-password"])
    /\ Exit(p)
    /\ UNCHANGED <<launches, faults>>

Serving(p) == At(p, "serving")

\* TcpListener::bind, which fails when another process listens there.
Bind(p) ==
    /\ At(p, "bind")
    /\ Goto(p, IF \E q \in Proc \ {p} : Serving(q) /\ proc[q].set.listen = proc[p].set.listen
                 THEN "done" ELSE "serving")
    /\ Quiet

\* shutdown_signal, of a service an operator started.
Shutdown(p) == p # Service /\ Serving(p) /\ Exit(p) /\ Quiet

\* What the process does by itself.
Step(p) ==
    \/ Open(p) \/ List(p) \/ Migrate(p) \/ Migrated(p) \/ EnsureAddress(p)
    \/ ReadAddress(p) \/ Cleanup(p) \/ Exists(p) \/ Count(p) \/ InsertAdmin(p)
    \/ ChangePassword(p) \/ Bind(p)

Next ==
    \/ Supervise
    \/ \E p \in Operator, l \in Typed : Launch(p, l)
    \/ \E p \in Proc :
          \/ Step(p) \/ Fault(p) \/ Mismatch(p) \/ Shutdown(p)
          \/ \E word \in Password \cup {Weak} : Prompt(p, word)

\* Processes run, and the supervisor does its work.
Fairness == WF_vars(Supervise) /\ \A p \in Proc : WF_vars(Step(p))

Spec == Init /\ [][Next]_vars /\ Fairness

---------------------------------------------------------------------------------
\* Whoever reports that it created the administrator did: no other process of the
\* database reports it too, and the password it was given is the administrator's until
\* somebody sets another one (bootstrap_admin: "the loser observes an already-created
\* admin").
CreatorIsRight ==
    \A p \in Proc : proc[p].created =>
        /\ \A q \in Proc \ {p} : proc[q].created => proc[q].set.database # proc[p].set.database
        /\ Its(p).by = "bootstrap" => Its(p).admin = proc[p].password

\* What serves is whole: the schema is complete, there is an administrator, and every
\* process has the address SQLite has, whichever stored it first (AppState::initialize,
\* serve, ensure_public_url).
ServesWhole ==
    \A p \in Proc :
        /\ proc[p].copy # None => proc[p].copy = Its(p).url /\ Its(p).applied = Migrations
        /\ Serving(p) => Its(p).admin # None

\* Where the documentation looks for a setting: the last of these that gives it.
Documented(c, n) ==
    LET order == <<Default, c.file, c.env, c.cli>>
        given == {k \in 1..4 : Gives(order[k], n)}
    IN order[CHOOSE k \in given : \A j \in given : j <= k][n]

\* A process that passes its configuration uses the setting of the strongest source
\* (docs/reference/cli.md), and no text that is not one.  The database is the exception:
\* CONFDOCK_DATABASE_URL wins over the directory of the command line.
StrongestSource ==
    [][\A p \in Operator, l \in Typed : Launch(p, l) /\ proc'[p].set # Off.set =>
         LET set == proc'[p].set
             dir == Documented(l.config, "data_dir")
         IN /\ Bad \notin {Documented(l.config, n) : n \in Simple \cup {"listen"}}
            /\ set.listen = Documented(l.config, "listen")
            /\ set.public_url = Documented(l.config, "public_url")
            /\ ~Gives(l.config.env, "database_url") =>
                  set.database = IF dir = Relative THEN Beside ELSE dir]_vars

PortTaken == \E p \in Operator : Serving(p) /\ proc[p].set.listen = Supervised.config.file["listen"]

\* Whatever was killed in the middle of a start and whoever started beside it, the
\* service comes up again and stays up, unless somebody else has its port.
ServiceComesUp == []<>(Serving(Service) \/ PortTaken)
=================================================================================
