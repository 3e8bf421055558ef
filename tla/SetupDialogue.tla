--------------------------- MODULE SetupDialogue ---------------------------
(***************************************************************************)
(* The conversation of the setup command: what is asked, what is proposed, *)
(* and which variables end up in `.env`.  setup.c and                      *)
(* packages/backend/src/setup/askForSetup.ts, with the rules the next      *)
(* start reads those variables by: sc_db_config_load, sc_mail_env_load and *)
(* the schemas of packages/backend/src/config/schema.ts.                   *)
(*                                                                         *)
(* A world is what the conversation meets:                                 *)
(*   env    the environment, "" for a variable that is unset               *)
(*   own    the secrets a systemd credential or a file has                 *)
(*   found  the ports a PostgreSQL answers on                              *)
(*   say    what is answered to each question, "" for Enter; an answer its *)
(*          rule refuses is asked for again (Prompt)                       *)
(***************************************************************************)
EXTENDS Naturals, Sequences, SequencesExt, TLC

Which == {"DB_TYPE", "DB_FILE", "DB_HOST", "DB_PORT", "DB_DATABASE", "DB_USER"}
DbNames == Which \cup {"DB_PASSWORD"}
MailNames == {"EMAIL", "EMAIL_SMTP_HOST", "EMAIL_SMTP_PORT", "EMAIL_SMTP_TLS", "EMAIL_USERNAME",
              "EMAIL_PASSWORD", "EMAIL_SENDER", "EMAIL_SENDER_NAME"}
Variables == DbNames \cup MailNames \cup {"NODE_ENV"}

SOCKET == "/var/run/postgresql"
COMPOSE_PORT == "15432"
COMPOSE_PASSWORD == "gradido"
DEV_NAME == "Gradido Dev Community"
ENTRY_MAX == 17   \* BACKEND_SETUP_ENTRY_MAX

\* What db.c, email/config.c and the schemas of the reference path take for a variable not set.
Default == [n \in Variables |->
    CASE n = "DB_TYPE" -> "sqlite" [] n = "DB_FILE" -> "./gradido_community.sqlite"
      [] n = "DB_HOST" -> SOCKET [] n = "DB_PORT" -> "5432" [] n = "DB_DATABASE" -> "gradido_community"
      [] n = "DB_USER" -> "gradido" [] n = "EMAIL" -> "false" [] n = "EMAIL_SMTP_HOST" -> "localhost"
      [] n = "EMAIL_SMTP_PORT" -> "587" [] n = "EMAIL_SMTP_TLS" -> "starttls"
      [] n = "NODE_ENV" -> "development" [] OTHER -> ""]

\* The development block: this machine and the MailDev container, as both paths spell it out.
Development == [NODE_ENV |-> "development", EMAIL |-> "true", EMAIL_SMTP_HOST |-> "localhost",
                EMAIL_SMTP_PORT |-> "1026", EMAIL_SMTP_TLS |-> "none", EMAIL_USERNAME |-> "",
                EMAIL_PASSWORD |-> "", EMAIL_SENDER |-> "dev@gradido.localhost",
                EMAIL_SENDER_NAME |-> DEV_NAME]
DevCommunity == [name |-> DEV_NAME, description |-> "", url |-> "http://localhost"]

Said(w, question, proposal) == IF w.say[question] = "" THEN proposal ELSE w.say[question]

-----------------------------------------------------------------------------
(* setup.c: the answers are fields, and the entries to write point at them.  *)

current(w, n, fallback) == IF w.env[n] # "" THEN w.env[n] ELSE fallback
keeps_its_own_secret(w, n) == n \in w.own
decided(s, n) == Contains(s.entries, n)

\* Sets the field and adds the entry, unless there is no room for one more.
add(s, n, value) ==
    [s EXCEPT !.field[n] = value, !.entries = IF Len(@) >= ENTRY_MAX THEN @ ELSE Append(@, n)]
AddAll(s, pairs) == FoldLeft(LAMBDA r, p : add(r, p[1], p[2]), s, pairs)

is_database_configured(w) == \E n \in Which : w.env[n] # ""

ask_for_postgres(w, s) ==
    LET container == current(w, "DB_TYPE", "sqlite") # "postgresql" /\ COMPOSE_PORT \in w.found
        configured == current(w, "DB_PASSWORD", "")
        proposed == IF container /\ configured = "" THEN COMPOSE_PASSWORD ELSE configured
        asked == AddAll(s, <<
            <<"DB_HOST", Said(w, "DB_HOST", IF container THEN "localhost"
                                            ELSE current(w, "DB_HOST", Default["DB_HOST"]))>>,
            <<"DB_PORT", Said(w, "DB_PORT", IF container THEN COMPOSE_PORT
                                            ELSE current(w, "DB_PORT", Default["DB_PORT"]))>>,
            <<"DB_DATABASE", Said(w, "DB_DATABASE", current(w, "DB_DATABASE", Default["DB_DATABASE"]))>>,
            <<"DB_USER", Said(w, "DB_USER", current(w, "DB_USER", Default["DB_USER"]))>> >>)
    IN  IF keeps_its_own_secret(w, "DB_PASSWORD") THEN asked
        ELSE add(asked, "DB_PASSWORD", Said(w, "DB_PASSWORD", proposed))

\* "as configured" is on the list only when there is something to keep.
ask_for_database(w, s) ==
    LET proposed == IF is_database_configured(w) THEN "as configured"
                    ELSE IF w.found # {} THEN "postgresql" ELSE "sqlite"
        chosen == Said(w, "database", proposed)
        typed == add(s, "DB_TYPE", chosen)
    IN  CASE chosen = "as configured" -> [s EXCEPT !.kept = TRUE]
          [] chosen = "postgresql" -> ask_for_postgres(w, typed)
          [] chosen = "sqlite" -> add(typed, "DB_FILE",
                                      Said(w, "DB_FILE", current(w, "DB_FILE", Default["DB_FILE"])))

\* Mutant: asks a database that was answered and not one that was kept.
insist_on_production_passwordAnswered(w, s) ==
    IF s.kept \/ s.field["DB_TYPE"] # "postgresql" \/ s.field["DB_HOST"] = SOCKET
       \/ s.field["DB_PASSWORD"] # "" \/ keeps_its_own_secret(w, "DB_PASSWORD")
    THEN s ELSE [s EXCEPT !.field["DB_PASSWORD"] = w.say["insisted"]]

\* A password the start would refuse is asked for until it is none.
insist_on_production_password(w, s) ==
    LET type == IF s.kept THEN current(w, "DB_TYPE", "sqlite") ELSE s.field["DB_TYPE"]
        host == IF s.kept THEN current(w, "DB_HOST", Default["DB_HOST"]) ELSE s.field["DB_HOST"]
        password == IF decided(s, "DB_PASSWORD") THEN s.field["DB_PASSWORD"]
                    ELSE current(w, "DB_PASSWORD", "")
    IN  IF type # "postgresql" \/ host = SOCKET \/ password # "" \/ keeps_its_own_secret(w, "DB_PASSWORD")
        THEN s
        ELSE IF decided(s, "DB_PASSWORD") THEN [s EXCEPT !.field["DB_PASSWORD"] = w.say["insisted"]]
        ELSE add(s, "DB_PASSWORD", w.say["insisted"])

\* The relay's variables in the order they are written; a password of its own is not among them.
AddRelay(w, s, value) ==
    LET names == <<"EMAIL_SMTP_HOST", "EMAIL_SMTP_PORT", "EMAIL_SMTP_TLS", "EMAIL_USERNAME", "EMAIL_PASSWORD",
                   "EMAIL_SENDER", "EMAIL_SENDER_NAME">>
        written == SelectSeq(names, LAMBDA n : n # "EMAIL_PASSWORD" \/ ~keeps_its_own_secret(w, n))
    IN  AddAll(s, [i \in DOMAIN written |-> <<written[i], value[written[i]]>>])

development_setup(w, s) ==
    LET flagged == AddAll(s, <<<<"NODE_ENV", "development">>, <<"EMAIL", "true">>>>)
    IN  [AddRelay(w, flagged, Development) EXCEPT !.community = DevCommunity]

\* Everything but the database, whose entries are the first `count`.
forget_proposal(s, count) ==
    [s EXCEPT !.entries = SubSeq(@, 1, count), !.community = [name |-> "", description |-> "", url |-> ""],
              !.field = [n \in Variables |-> IF n \in DbNames THEN @[n] ELSE ""]]

\* A password is asked for only where there is a user to go with it.
ask_for_email(w, s) ==
    LET sends == Said(w, "EMAIL", IF current(w, "EMAIL", "false") = "true" THEN "true" ELSE "false")
        Asked(n, fallback) == Said(w, n, current(w, n, fallback))
        user == Asked("EMAIL_USERNAME", "")
        value == [EMAIL_SMTP_HOST |-> Asked("EMAIL_SMTP_HOST", "localhost"),
                  EMAIL_SMTP_PORT |-> Asked("EMAIL_SMTP_PORT", "587"),
                  EMAIL_SMTP_TLS |-> Asked("EMAIL_SMTP_TLS", "starttls"),
                  EMAIL_USERNAME |-> user,
                  EMAIL_PASSWORD |-> IF user = "" THEN "" ELSE Asked("EMAIL_PASSWORD", ""),
                  EMAIL_SENDER |-> Asked("EMAIL_SENDER", ""),
                  EMAIL_SENDER_NAME |-> Asked("EMAIL_SENDER_NAME", s.community.name)]
        flagged == add(s, "EMAIL", sends)
    IN  IF sends = "true" THEN AddRelay(w, flagged, value) ELSE flagged

ask_every_field(w, s, production) ==
    LET named == [s EXCEPT !.community = [name |-> Said(w, "name", DEV_NAME),
                                          description |-> w.say["description"], url |-> w.say["url"]]]
    IN  ask_for_email(w, add(named, "NODE_ENV", IF production THEN "production" ELSE "development"))

\* What is written, and the row; Enter at "What kind?" takes what NODE_ENV says.
hold_conversation(w) ==
    LET empty == [entries |-> <<>>, field |-> [n \in Variables |-> ""], kept |-> FALSE,
                  community |-> [name |-> "", description |-> "", url |-> ""]]
        database == ask_for_database(w, empty)
        production == Said(w, "kind", w.env["NODE_ENV"]) = "production"
        decidedDb == IF production THEN insist_on_production_password(w, database) ELSE database
        proposal == development_setup(w, decidedDb)
    IN  IF production THEN ask_every_field(w, decidedDb, TRUE)
        ELSE IF Said(w, "take", "yes") = "yes" THEN proposal
        ELSE ask_every_field(w, forget_proposal(proposal, Len(decidedDb.entries)), FALSE)

Written(s) == [n \in {s.entries[i] : i \in DOMAIN s.entries} |-> s.field[n]]

-----------------------------------------------------------------------------
(* askForSetup.ts: the answers are a record of variables.                    *)

\* CONFIG: the environment with its defaults, the secrets resolved into it.
CONFIG(w) == [n \in Variables |-> IF n \in w.own THEN "of its own"
                                  ELSE IF w.env[n] = "" THEN Default[n] ELSE w.env[n]]
keepsItsOwnSecret(w, n) == n \in w.own
databaseFrom(w, answered) == answered @@ CONFIG(w)

askForPostgres(w) ==
    LET config == CONFIG(w)
        container == config["DB_TYPE"] # "postgresql" /\ COMPOSE_PORT \in w.found
        password == IF container /\ config["DB_PASSWORD"] = "" THEN COMPOSE_PASSWORD ELSE config["DB_PASSWORD"]
        Kept(n) == Said(w, n, config[n])
    IN  [DB_TYPE |-> "postgresql",
         DB_HOST |-> IF container THEN Said(w, "DB_HOST", "localhost") ELSE Kept("DB_HOST"),
         DB_PORT |-> IF container THEN Said(w, "DB_PORT", COMPOSE_PORT) ELSE Kept("DB_PORT"),
         DB_DATABASE |-> Kept("DB_DATABASE"), DB_USER |-> Kept("DB_USER")]
        @@ IF keepsItsOwnSecret(w, "DB_PASSWORD") THEN <<>>
           ELSE [DB_PASSWORD |-> Said(w, "DB_PASSWORD", password)]

askForDatabase(w) ==
    LET configured == {n \in Which : w.env[n] # ""} # {}
        proposed == CASE configured -> "as configured"
                      [] ~configured /\ w.found # {} -> "postgresql" [] OTHER -> "sqlite"
    IN  CASE Said(w, "database", proposed) = "as configured" -> <<>>
          [] Said(w, "database", proposed) = "postgresql" -> askForPostgres(w)
          [] OTHER -> [DB_TYPE |-> "sqlite", DB_FILE |-> Said(w, "DB_FILE", CONFIG(w)["DB_FILE"])]

isDatabasePasswordAcceptable(config) ==
    config["DB_TYPE"] # "postgresql" \/ config["DB_HOST"] = SOCKET
    \/ config["NODE_ENV"] # "production" \/ config["DB_PASSWORD"] # ""

insistOnProductionPassword(w, database) ==
    LET config == [NODE_ENV |-> "production"] @@ databaseFrom(w, database)
    IN  IF isDatabasePasswordAcceptable(config) \/ keepsItsOwnSecret(w, "DB_PASSWORD") THEN database
        ELSE [DB_PASSWORD |-> w.say["insisted"]] @@ database

\* Without a user the password is written empty, wherever the configured one comes from.
askForEmail(w, env, community) ==
    LET config == CONFIG(w)
        asked == [n \in MailNames \ {"EMAIL", "EMAIL_PASSWORD", "EMAIL_SENDER_NAME"} |-> Said(w, n, config[n])]
        name == [EMAIL_SENDER_NAME |-> Said(w, "EMAIL_SENDER_NAME",
                     IF config["EMAIL_SENDER_NAME"] = "" THEN community.name ELSE config["EMAIL_SENDER_NAME"])]
        password == IF asked["EMAIL_USERNAME"] = "" THEN [EMAIL_PASSWORD |-> ""]
                    ELSE IF keepsItsOwnSecret(w, "EMAIL_PASSWORD") THEN <<>>
                    ELSE [EMAIL_PASSWORD |-> Said(w, "EMAIL_PASSWORD", config["EMAIL_PASSWORD"])]
        sends == Said(w, "EMAIL", config["EMAIL"])
    IN  env @@ [EMAIL |-> sends] @@ IF sends = "true" THEN asked @@ name @@ password ELSE <<>>

askEveryField(w, production, database) ==
    LET community == [name |-> Said(w, "name", DEV_NAME), description |-> w.say["description"], url |-> w.say["url"]]
        env == database @@ [NODE_ENV |-> IF production THEN "production" ELSE "development"]
    IN  [community |-> community, env |-> askForEmail(w, env, community)]

askForSetup(w) ==
    LET database == askForDatabase(w)
        production == Said(w, "kind", CONFIG(w)["NODE_ENV"]) = "production"
    IN  IF production THEN askEveryField(w, TRUE, insistOnProductionPassword(w, database))
        ELSE IF Said(w, "take", "yes") = "yes"
        THEN [community |-> DevCommunity, env |-> database @@ Development]
        ELSE askEveryField(w, FALSE, database)

-----------------------------------------------------------------------------
(* The next start, on what was written over what was there.                  *)

\* sc_db_config_load; a secret with a source of its own is not empty.
sc_db_config_load(env, own) ==
    /\ env["DB_TYPE"] \in {"", "sqlite", "postgresql"}
    /\ ~ /\ env["DB_TYPE"] = "postgresql" /\ env["DB_HOST"] \notin {"", SOCKET}
         /\ env["DB_PASSWORD"] = "" /\ "DB_PASSWORD" \notin own /\ env["NODE_ENV"] = "production"

\* sc_mail_env_load; a host that is not set is the default one.
sc_mail_env_load(env) ==
    /\ env["EMAIL"] \in {"", "true", "false"}
    /\ env["EMAIL_SMTP_TLS"] \in {"", "none", "starttls", "require", "implicit"}
    /\ env["EMAIL"] = "true" => env["EMAIL_SENDER"] # ""

\* configSchema: the database's rule and the relay's two.
configSchema(env, own) ==
    LET config == CONFIG([env |-> env, own |-> own])
    IN  /\ isDatabasePasswordAcceptable(config)
        /\ config["EMAIL"] = "true" => config["EMAIL_SENDER"] # "" /\ config["EMAIL_SMTP_HOST"] # ""

\* Where mail goes: the scheme carries TLS from the first byte, the number is an upgrade.
sc_mail_env_relay(env, own) ==
    LET tls == IF env["EMAIL_SMTP_TLS"] = "" THEN "starttls" ELSE env["EMAIL_SMTP_TLS"]
        Read(n) == IF n \in own THEN "of its own" ELSE IF env[n] = "" THEN Default[n] ELSE env[n]
    IN  [url |-> <<IF tls = "implicit" THEN "smtps" ELSE "smtp", Read("EMAIL_SMTP_HOST"), Read("EMAIL_SMTP_PORT")>>,
         user |-> env["EMAIL_USERNAME"], from |-> env["EMAIL_SENDER"],
         pass |-> IF env["EMAIL_USERNAME"] = "" THEN "" ELSE Read("EMAIL_PASSWORD"),
         starttls |-> CASE tls = "starttls" -> 1 [] tls = "require" -> 2 [] OTHER -> 0]

smtpRelay(env, own) ==
    LET config == CONFIG([env |-> env, own |-> own])
        tls == config["EMAIL_SMTP_TLS"]
    IN  [url |-> <<IF tls = "implicit" THEN "smtps" ELSE "smtp", config["EMAIL_SMTP_HOST"],
                   config["EMAIL_SMTP_PORT"]>>,
         user |-> config["EMAIL_USERNAME"], from |-> config["EMAIL_SENDER"], pass |-> config["EMAIL_PASSWORD"],
         starttls |-> [none |-> 0, starttls |-> 1, require |-> 2, implicit |-> 0][tls]]

Over(w, written) == [n \in Variables |-> IF n \in DOMAIN written THEN written[n] ELSE w.env[n]]

StartsOn(w, written) ==
    LET env == Over(w, written)
    IN  sc_db_config_load(env, w.own) /\ sc_mail_env_load(env) /\ configSchema(env, w.own)

\* The same answers in the same world set up the same installation on both paths, one both start
\* from: the same row, the same variables with the same values, a database that is kept stays as
\* it is but for the password production insists on, and a secret with a source of its own is left
\* where it is (setup.c, askForSetup.ts).  The one difference: a relay's password is written empty
\* by the reference path where no user goes with it, though a credential or a file may hold it.
\* And the mail of both then goes to the same relay, with the same login.
SetsUpAlike(w) ==
    LET c == hold_conversation(w)
        ts == askForSetup(w)
        mine == Written(c)
        EmptyPassword == "EMAIL_PASSWORD" \in w.own /\ "EMAIL_PASSWORD" \in DOMAIN ts.env
    IN  /\ c.community = ts.community
        /\ DOMAIN ts.env = DOMAIN mine \cup (IF EmptyPassword THEN {"EMAIL_PASSWORD"} ELSE {})
        /\ \A n \in DOMAIN mine : ts.env[n] = mine[n]
        /\ EmptyPassword => ts.env["EMAIL_PASSWORD"] = "" /\ ts.env["EMAIL_USERNAME"] = ""
        /\ DOMAIN mine \cap w.own = {}
        /\ c.kept => DOMAIN mine \cap Which = {}
        /\ StartsOn(w, mine) /\ StartsOn(w, ts.env)
        /\ LET relay == sc_mail_env_relay(Over(w, mine), w.own)
               other == smtpRelay(Over(w, ts.env), w.own)
           IN  other = [relay EXCEPT !.pass = IF relay.user = "" THEN other.pass ELSE @]

\* Holding Enter down where everything is configured changes nothing that is (setup.c,
\* askForSetup.ts): every proposal is what the environment says.
RerunKeepsWhatIs(w) ==
    LET mine == Written(hold_conversation(w))
        held == \A n \in DOMAIN w.say : n \in {"name", "description", "url"} \/ w.say[n] = ""
    IN  held /\ w.env["NODE_ENV"] = "production" =>
            \A n \in DOMAIN mine : w.env[n] # "" => \/ mine[n] = w.env[n]
                                                    \/ n = "EMAIL_PASSWORD" /\ mine["EMAIL_USERNAME"] = ""
=============================================================================
