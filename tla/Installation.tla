---------------------------- MODULE Installation ----------------------------
(***************************************************************************)
(* Processes of one installation, started one after another or beside each *)
(* other, and the two things they leave behind: the .env file and the      *)
(* databases it can name.                                                  *)
(*                                                                         *)
(* A process runs one command of one implementation of one build:          *)
(* backend.c and context.c (C), packages/backend/src/main.ts (TS).  A      *)
(* command is the sequence of its steps; a step that fails ends the        *)
(* process, and a process may be killed between any two of them.  Steps    *)
(* are what others can see: one SQL statement, one change of the file.     *)
(* Opening with fopen("wb") and writing the text are two steps.            *)
(***************************************************************************)
EXTENDS Migrations, FiniteSets

CONSTANTS
    Procs,
    Databases,      \* what an answer of the dialogue can name
    Sqlite,         \* the one of them that is a file
    Builds,         \* what each build carries: a sequence of migrations
    Answers,        \* what the dialogue can be answered: a database and an url
    PublicUrls,
    Deployments,    \* an implementation with the MASTER_SEED its environment gives it
    Confirmations,  \* DB_MIGRATE_DOWN of a release
    Fresh,          \* master seeds and community keys that can be drawn
    Attempts,       \* SC_DB_CONNECT_ATTEMPTS_DEFAULT, CONNECT_ATTEMPTS
    MaxLaunches, MaxTroubles

Names == {"DB", "MASTER_SEED", "DHT_DELEGATION", "DHT_REACHABILITY"}
Nothing == [n \in Names |-> IF n = "DHT_DELEGATION" THEN <<>> ELSE NONE]
MALFORMED == 0

VARIABLES
    deployed,   \* which implementation this installation runs, and the seed it is given
    file,       \* .env
    db,         \* the committed state of each database: rows, objects, homes
    lock,       \* who has written to it and not ended the transaction
    proc,       \* the processes
    launches, troubles,
    torn        \* a process was killed between emptying .env and writing it

vars == <<deployed, file, db, lock, proc, launches, troubles, torn>>

Idle == [cmd |-> NONE, build |-> NONE, release |-> FALSE, confirm |-> NONE, todo |-> <<>>,
         env |-> Nothing, answer |-> NONE, entries |-> Nothing, old |-> Nothing, seed |-> NONE,
         tries |-> 0, tx |-> FALSE, work |-> NONE, home |-> NONE]

Empty == [rows |-> <<>>, objects |-> {}, homes |-> {}]

Init ==
    /\ deployed \in Deployments
    /\ file = Nothing
    /\ db = [d \in Databases |-> Empty]
    /\ lock = [d \in Databases |-> NONE]
    /\ proc = [p \in Procs |-> Idle]
    /\ launches = 0 /\ troubles = 0 /\ torn = FALSE

Running == {p \in Procs : proc[p].todo # <<>>}

-----------------------------------------------------------------------------
(* The commands.                                                             *)

\* migrate_and_find_home of bc_context_open, and open of main.ts: what comes before serving.
migrate_and_find_home == <<"open", "up", "home">>
open == <<"open", "up", "home">>

\* backend_run, runBackend: nothing is served before that.
backend_run == migrate_and_find_home \o <<"listen", "serve">>
runBackend == open \o <<"listen", "serve">>

\* write_peer_network: the delegation and, from the row's url, the reachability.
write_peer_network == <<"sign", "empty", "fill">>

\* backend_setup: the questions, the file, then the database the answers name.
backend_setup == <<"ask", "empty", "fill", "open", "up", "home", "create">>
                     \o write_peer_network

\* runSetup: the row is read once more before the second write.
runSetup == <<"ask", "empty", "fill", "open", "up", "home", "create", "sign", "home",
              "empty", "fill">>

\* backend_migrate_down opens the database and then asks for the confirmation.
backend_migrate_down == <<"open", "down">>

\* runMigrateDown with migrateDownCommand
runMigrateDown == <<"open", "down">>

Program(impl, cmd) ==
    CASE cmd = "serve" -> IF impl = "c" THEN backend_run ELSE runBackend
      [] cmd = "setup" -> IF impl = "c" THEN backend_setup ELSE runSetup
      [] OTHER -> IF impl = "c" THEN backend_migrate_down ELSE runMigrateDown

\* The environment wins over the file, and a process reads the file once, at its start.
Loaded == [file EXCEPT !["MASTER_SEED"] = IF deployed.seed = NONE THEN @ ELSE deployed.seed]

(* What an operator starts: one build at a time, one conversation at a time, and a step down     *)
(* only when nothing else runs.  The code checks none of this -- see the README.  Which of the   *)
(* idle processes it becomes makes no difference.                                                *)
Launch(p) ==
    /\ p \notin Running /\ \A q \in Procs : q < p => q \in Running
    /\ launches < MaxLaunches
    /\ \E cmd \in {"serve", "setup", "down"}, build \in DOMAIN Builds, release \in BOOLEAN,
          confirm \in Confirmations :
         /\ \A q \in Running : proc[q].build = build /\ proc[q].cmd # "down"
         /\ cmd = "setup" => \A q \in Running : proc[q].cmd = "serve"
         /\ IF cmd = "down" THEN Running = {} ELSE ~release
         /\ ~release => confirm = NONE
         /\ proc' = [proc EXCEPT ![p] = [Idle EXCEPT !.cmd = cmd, !.build = build,
                                            !.release = release, !.confirm = confirm,
                                            !.todo = Do(Program(deployed.impl, cmd)),
                                            !.env = Loaded]]
    /\ launches' = launches + 1
    /\ UNCHANGED <<deployed, file, db, lock, troubles, torn>>

-----------------------------------------------------------------------------
(* One step of a process.                                                    *)

At(p, what) == proc[p].todo # <<>> /\ Head(proc[p].todo)[1] = what
Arg(p) == Head(proc[p].todo)[2]

\* The process goes on as r; after its last step nothing of it is left.
Goes_on(p, r) ==
    proc' = [proc EXCEPT ![p] = IF Len(@.todo) = 1 THEN Idle ELSE [r EXCEPT !.todo = Tail(@)]]

\* It ends here: what its transaction did is undone with its connection.
Released(p) == [d \in Databases |-> IF lock[d] = p THEN NONE ELSE lock[d]]
Ends(p) == /\ proc' = [proc EXCEPT ![p] = Idle]
           /\ lock' = Released(p)

\* sc_db_config_load: no DB_TYPE is SQLite.
Of(p) == IF proc[p].env["DB"] = NONE THEN Sqlite ELSE proc[p].env["DB"]

fixed == <<deployed, launches, troubles, torn>>

\* Mutant: only the environment is asked, not what .env put into it.
KeptSeedOuter(p) == deployed.seed

\* backend_ask_for_master_seed, askForMasterSeed: the seed that is there, whichever source it
\* comes from.
KeptSeed(p) == proc[p].env["MASTER_SEED"]

\* A value nothing left behind by an earlier run holds.
Drawn(held) == CHOOSE n \in Fresh : n \notin held

\* backend_ask_for_setup, askForSetup, and then the seed: what is answered is any of the answers;
\* a malformed seed ends the command, and none has a new one made and written.
Ask(p) ==
    /\ At(p, "ask")
    /\ IF KeptSeed(p) = MALFORMED THEN Ends(p)
       ELSE LET new == KeptSeed(p) = NONE
                held == {file["MASTER_SEED"]} \union Range(file["DHT_DELEGATION"])
                seed == IF new THEN Drawn(held) ELSE KeptSeed(p)
            IN  /\ \E a \in Answers :
                     Goes_on(p, [proc[p] EXCEPT !.answer = a, !.seed = seed,
                                   !.entries = [Nothing EXCEPT !["DB"] = a.db,
                                                  !["MASTER_SEED"] = IF new THEN seed ELSE NONE]])
                /\ UNCHANGED lock
    /\ UNCHANGED <<file, db, fixed>>

\* sc_env_file_write, writeEnvFile: the text is read, the file is emptied, the text is written
\* back with the entries in it.
EmptyFile(p) ==
    /\ At(p, "empty")
    /\ file' = Nothing
    /\ Goes_on(p, [proc[p] EXCEPT !.old = file])
    /\ UNCHANGED <<db, lock, fixed>>

Overlaid(old, entries) == [n \in Names |-> IF entries[n] = Nothing[n] THEN old[n] ELSE entries[n]]

\* The entries also go into the environment of the process, where the loaders below read them.
FillFile(p) ==
    /\ At(p, "fill")
    /\ file' = Overlaid(proc[p].old, proc[p].entries)
    /\ Goes_on(p, [proc[p] EXCEPT !.env = Overlaid(@, proc[p].entries)])
    /\ UNCHANGED <<db, lock, fixed>>

\* sc_db_open_waiting, waitForDatabase: only a server that does not answer is waited for.
LastTry(p) == proc[p].tries + 1 = IF Of(p) = Sqlite THEN 1 ELSE Attempts

Open(p) ==
    /\ At(p, "open")
    /\ Goes_on(p, [proc[p] EXCEPT !.tries = 0])
    /\ UNCHANGED <<file, db, lock, fixed>>

\* Mutant: the attempts of a server that does not answer are counted from one again.
OpenAgainForEver(p) ==
    /\ At(p, "open") /\ Of(p) # Sqlite
    /\ proc' = [proc EXCEPT ![p].tries = (@ + 1) % Attempts]
    /\ UNCHANGED <<file, db, lock, fixed>>

OpenAgain(p) ==
    /\ At(p, "open") /\ ~LastTry(p)
    /\ proc' = [proc EXCEPT ![p].tries = @ + 1]
    /\ UNCHANGED <<file, db, lock, fixed>>

OpenGivenUp(p) ==
    /\ At(p, "open") /\ LastTry(p)
    /\ Ends(p)
    /\ UNCHANGED <<file, db, fixed>>

-----------------------------------------------------------------------------
(* Statements.  A database lets one process at a time write in a transaction *)
(* that has not ended; another waits for it, and SQLite may refuse instead   *)
(* (external).  The transaction sees the database from its first write on.   *)

Free(p) == lock[Of(p)] \in {NONE, p}
Seen(p) == IF proc[p].work = NONE THEN db[Of(p)] ELSE proc[p].work

\* What a statement of a migration does to a database: it fails where its object is there
\* already, or one it needs or drops is missing.  A table goes with its rows and its indexes.
Runs(text, on) == IF text.drop THEN text.objects \subseteq on.objects
                  ELSE text.objects \intersect on.objects = {} /\ text.needs \subseteq on.objects
Ran(text, on) ==
    IF ~text.drop THEN [on EXCEPT !.objects = @ \union text.objects]
    ELSE [on EXCEPT !.objects = @ \ text.objects,
                    !.homes = IF "communities" \in text.objects THEN {} ELSE @]

\* One write: into the open transaction, or on its own.
Writes(p, new) ==
    IF proc[p].tx THEN /\ Goes_on(p, [proc[p] EXCEPT !.work = new])
                       /\ lock' = [lock EXCEPT ![Of(p)] = p]
                       /\ UNCHANGED db
    ELSE /\ db' = [db EXCEPT ![Of(p)] = new]
         /\ Goes_on(p, proc[p])
         /\ UNCHANGED lock

\* What the two directions answer becomes the next steps of the process.
Follows(p, answer) ==
    IF answer.refused # NONE THEN Ends(p)
    ELSE /\ LET rest == answer.steps \o Tail(proc[p].todo)
            IN  proc' = [proc EXCEPT ![p] = [@ EXCEPT !.todo = rest]]
         /\ UNCHANGED lock

\* prepare: the bookkeeping table is made where there is none, and what it lists is read.  An
\* empty table and none are the same list.
Listed(p) == db[Of(p)].rows

Up(p) ==
    /\ At(p, "up")
    /\ LET carried == Builds[proc[p].build]
       IN  Follows(p, IF deployed.impl = "c" THEN bc_migrations_run(Listed(p), carried)
                      ELSE runMigrations(Listed(p), carried))
    /\ UNCHANGED <<file, db, fixed>>

\* On a release the confirmation must be there, and is handed in; development needs none.
Unconfirmed(p) == proc[p].release /\ proc[p].confirm = NONE
Target(p) == IF proc[p].release THEN proc[p].confirm ELSE NONE

Down(p) ==
    /\ At(p, "down")
    /\ LET carried == Builds[proc[p].build]
       IN  IF Unconfirmed(p) THEN Ends(p)
           ELSE Follows(p, IF deployed.impl = "c"
                           THEN bc_migrations_down(Listed(p), carried, Target(p))
                           ELSE migrateDown(Listed(p), carried, Target(p)))
    /\ UNCHANGED <<file, db, fixed>>

Begin(p) ==
    /\ At(p, "begin")
    /\ Goes_on(p, [proc[p] EXCEPT !.tx = TRUE])
    /\ UNCHANGED <<file, db, lock, fixed>>

Statement(p) ==
    /\ At(p, "statement") /\ Free(p)
    /\ IF Runs(Arg(p), Seen(p)) THEN Writes(p, Ran(Arg(p), Seen(p)))
       ELSE Ends(p) /\ UNCHANGED db
    /\ UNCHANGED <<file, fixed>>

\* record_applied: a version that has a row is refused by the primary key.
Record(p) ==
    /\ At(p, "record") /\ Free(p)
    /\ IF \E i \in 1..Len(Seen(p).rows) : Seen(p).rows[i].version = Arg(p).version
       THEN Ends(p) /\ UNCHANGED db
       ELSE Writes(p, [Seen(p) EXCEPT !.rows = Append(@, Arg(p))])
    /\ UNCHANGED <<file, fixed>>

\* forget_applied
Forget(p) ==
    /\ At(p, "forget") /\ Free(p)
    /\ Writes(p, [Seen(p) EXCEPT !.rows = SelectSeq(@, LAMBDA r : r.version # Arg(p).version)])
    /\ UNCHANGED <<file, fixed>>

Committed(p) == IF proc[p].work = NONE THEN db ELSE [db EXCEPT ![Of(p)] = proc[p].work]

Commit(p) ==
    /\ At(p, "commit")
    /\ db' = Committed(p)
    /\ lock' = Released(p)
    /\ Goes_on(p, [proc[p] EXCEPT !.tx = FALSE, !.work = NONE])
    /\ UNCHANGED <<file, fixed>>

-----------------------------------------------------------------------------
(* The community.                                                            *)

\* bc_community_find_home, findHomeCommunity: two rows are one too many.
OneTooMany(p) == Cardinality(db[Of(p)].homes) > 1

\* bc_context_open, requireHomeCommunity: without a community there is no serving.
Missing(p) == proc[p].cmd = "serve" /\ db[Of(p)].homes = {}

FindHome(p) ==
    /\ At(p, "home") /\ Free(p)
    /\ LET homes == db[Of(p)].homes
       IN  IF "communities" \notin db[Of(p)].objects \/ OneTooMany(p) \/ Missing(p) THEN Ends(p)
           ELSE /\ Goes_on(p, [proc[p] EXCEPT
                     !.home = IF homes = {} THEN NONE ELSE CHOOSE h \in homes : TRUE])
                /\ UNCHANGED lock
    /\ UNCHANGED <<file, db, fixed>>

\* bc_create_home_community with insert_home, createHomeCommunity: a new key under the answered
\* url, which communities_url_key keeps unique.
Row(p) == [url |-> proc[p].answer.url,
           key |-> Drawn({h.key : h \in UNION {db[d].homes : d \in Databases}}
                            \union Range(file["DHT_DELEGATION"]))]
Refuses(p) == \E h \in db[Of(p)].homes : h.url = Row(p).url

\* setupCommand: only where none was found.
CreateHome(p) ==
    /\ At(p, "create") /\ Free(p)
    /\ CASE proc[p].home # NONE -> Goes_on(p, proc[p]) /\ UNCHANGED <<db, lock>>
         [] proc[p].home = NONE /\ Refuses(p) -> Ends(p) /\ UNCHANGED db
         [] OTHER -> /\ db' = [db EXCEPT ![Of(p)].homes = @ \union {Row(p)}]
                     /\ Goes_on(p, [proc[p] EXCEPT !.home = Row(p)])
                     /\ UNCHANGED lock
    /\ UNCHANGED <<file, fixed>>

\* Mutant: the reachability is that of the url just answered, not of the row's.
ReachabilityAnswered(p) == IF proc[p].answer.url \in PublicUrls THEN "public" ELSE "private"

\* sc_url_is_public, isPublicUrl of the url in the row.
Reachability(p) == IF proc[p].home.url \in PublicUrls THEN "public" ELSE "private"

\* bc_community_find_home_signing_key: one row, or none to sign with.
Keys(p) == {h.key : h \in db[Of(p)].homes}

\* bc_sign_dht_delegation_for, signDhtDelegationFor: by the key in the row, for the seed's node.
Sign(p) ==
    /\ At(p, "sign") /\ Free(p)
    /\ IF ~\E k \in Keys(p) : Keys(p) = {k} THEN Ends(p)
       ELSE /\ \E k \in Keys(p) :
                 Goes_on(p, [proc[p] EXCEPT !.entries = [Nothing EXCEPT
                                !["DHT_DELEGATION"] = <<k, proc[p].seed>>,
                                !["DHT_REACHABILITY"] = Reachability(p)]])
            /\ UNCHANGED lock
    /\ UNCHANGED <<file, db, fixed>>

\* sc_db_exec_open with sc_db_http_attach, then sc_http_listen: what can go wrong is Stops.
Listen(p) ==
    /\ At(p, "listen")
    /\ Goes_on(p, proc[p])
    /\ UNCHANGED <<file, db, lock, fixed>>

\* A serving process is stopped by a signal.
Shutdown(p) ==
    /\ At(p, "serve")
    /\ Goes_on(p, proc[p])
    /\ UNCHANGED <<file, db, lock, fixed>>

-----------------------------------------------------------------------------
(* Trouble: a process is killed, a statement or a write fails, a commit is   *)
(* answered by a broken connection though it took place.                     *)

Stops(p) ==
    /\ proc[p].todo # <<>> /\ troubles < MaxTroubles
    /\ Ends(p)
    /\ db' \in IF At(p, "commit") THEN {db, Committed(p)} ELSE {db}
    /\ torn' = (torn \/ At(p, "fill"))
    /\ troubles' = troubles + 1
    /\ UNCHANGED <<deployed, file, launches>>

Works(p) ==
    \/ Ask(p) \/ EmptyFile(p) \/ FillFile(p)
    \/ Open(p) \/ OpenAgain(p) \/ OpenGivenUp(p)
    \/ Up(p) \/ Down(p) \/ Begin(p) \/ Statement(p) \/ Record(p) \/ Forget(p) \/ Commit(p)
    \/ FindHome(p) \/ CreateHome(p) \/ Sign(p) \/ Listen(p)

Next == \E p \in Procs : Launch(p) \/ Works(p) \/ Shutdown(p) \/ Stops(p)

Spec == Init /\ [][Next]_vars

\* A process that is not killed goes on.
FairSpec == Spec /\ \A p \in Procs : WF_vars(Works(p))

-----------------------------------------------------------------------------
(* Properties.                                                               *)

Carried == {m : m \in UNION {{Builds[b][i] : i \in 1..Len(Builds[b])} : b \in DOMAIN Builds}}
MadeBy(m) == UNION {m.up[i].objects : i \in 1..Len(m.up)}

\* The schema a database has is the one its migrations table lists, whatever was killed or ran
\* beside it: never a table without its row, a row without its tables, or half a migration --
\* "a schema that has changed without a row saying so is the one state nothing can recover from".
\* The list is that of one build, from its beginning.
SchemaIsWhatRowsSay ==
    \A d \in Databases :
        LET rows == db[d].rows
        IN  /\ db[d].objects = UNION {MadeBy(m) : m \in {c \in Carried : RowOf(c) \in Range(rows)}}
            /\ \E b \in DOMAIN Builds : findSchemaDivergence(rows, Builds[b]) = {}
            /\ db[d].homes # {} => "communities" \in db[d].objects

\* A process begins to serve on the schema of its own build, neither behind nor beyond it, and on
\* the one community of the database: bc_context_open and open come before listening.
StartsReady ==
    [][\A p \in Procs :
        At(p, "listen") /\ At(p, "serve")' =>
            LET on == db[Of(p)]
            IN  /\ on.rows = [i \in 1..Len(Builds[proc[p].build]) |-> RowOf(Builds[proc[p].build][i])]
                /\ LastVersion(on.rows) = schema_version(Builds[proc[p].build])
                /\ on.homes = {proc[p].home}]_vars

\* A setup that reports success has left a whole installation, whatever earlier runs left behind:
\* the file names the database that was answered, that database has one community, and the
\* delegation in the file is signed by that community for the seed in force, with the
\* reachability of the url in its row.
SetupEndsWhole ==
    [][\A p \in Procs :
        /\ At(p, "fill") /\ Len(proc[p].todo) = 1 /\ file' # file
        => /\ file'["DB"] = proc[p].answer.db
           /\ \E h \in db'[proc[p].answer.db].homes :
                /\ db'[proc[p].answer.db].homes = {h}
                /\ file'["DHT_DELEGATION"] =
                      <<h.key, IF deployed.seed = NONE THEN file'["MASTER_SEED"] ELSE deployed.seed>>
                /\ file'["DHT_REACHABILITY"] = IF h.url \in PublicUrls THEN "public"
                                               ELSE "private"]_vars

\* The delegation in the file is for the seed in the file, between any two steps and after any
\* number of setups that ended early: a seed that exists is never replaced.  A process killed
\* between emptying the file and writing it takes the seed with it, and only that does.
DelegationNamesTheSeed ==
    ~torn /\ deployed.seed = NONE /\ file["DHT_DELEGATION"] # <<>>
        => file["DHT_DELEGATION"][2] = file["MASTER_SEED"]

\* Going down takes one migration off, and on a release only to the migration the confirmation
\* names, so a confirmation left behind does not authorise the step after it.
DownIsConfirmed ==
    [][\A d \in Databases :
        LET now == db[d].rows
            then == db'[d].rows
        IN  Len(then) < Len(now) =>
              /\ then = Front(now)
              /\ \A p \in Running : proc[p].release =>
                    proc[p].confirm = IF then = <<>> THEN EMPTY_TARGET ELSE Last(then).name]_vars

\* Every command comes to its end, or to serving: nobody waits for a database or for another
\* process's transaction for ever.
EveryCommandEnds ==
    \A p \in Procs : []<>(proc[p].todo = <<>> \/ At(p, "serve"))
=============================================================================
