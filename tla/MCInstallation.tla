--------------------------- MODULE MCInstallation ---------------------------
(***************************************************************************)
(* A small installation: three builds, two of which part company at the    *)
(* second migration, and two databases.  Or no command runs, and one       *)
(* question is put to both paths: a text one of the commands reads or      *)
(* writes, or a conversation of the setup command.                         *)
(***************************************************************************)
EXTENDS Installation, TLC

VARIABLE question

Sql == INSTANCE SqlSplit
Contract == INSTANCE MigrationContract WITH BC_MIGRATIONS_MAX <- 2
Env == INSTANCE EnvFile WITH ENV_FILE_MAX <- 18
Secret == INSTANCE Secrets WITH SECRET_SIZE <- 3
Terminal == INSTANCE Prompt WITH PORT_MAX <- 65
Probe == INSTANCE PostgresProbe
Dialogue == INSTANCE SetupDialogue

Make(o, needs) == [drop |-> FALSE, objects |-> {o}, needs |-> needs]
Drop(os) == [drop |-> TRUE, objects |-> os, needs |-> {}]

M1 == [version |-> 1, name |-> "0001_communities",
       up |-> <<Make("communities", {})>>, down |-> <<Drop({"communities"})>>]
M2 == [version |-> 2, name |-> "0002_users",
       up |-> <<Make("users", {"communities"}), Make("user_contacts", {"users"})>>,
       down |-> <<Drop({"user_contacts", "users"})>>]
\* Another branch's second migration, without a way back.
M2b == [version |-> 2, name |-> "0002_other", up |-> <<Make("other", {"communities"})>>,
        down |-> NONE]

MCBuilds == [old |-> <<M1>>, main |-> <<M1, M2>>, branch |-> <<M1, M2b>>]
\* A seed from nowhere, from a credential, and one that is none.
MCDeployments == {[impl |-> "c", seed |-> NONE], [impl |-> "ts", seed |-> 100],
                  [impl |-> "ts", seed |-> MALFORMED]}
\* A database may be answered again with another url, and either database may come first.
MCAnswers == {[db |-> "file", url |-> "home"], [db |-> "file", url |-> "public"],
              [db |-> "server", url |-> "public"]}
MCConfirmations == {NONE, EMPTY_TARGET, M1.name}
MCFresh == 1..6
MCProcs == 1..2

-----------------------------------------------------------------------------
(* The questions.                                                            *)

Lists(S, n) == UNION {[1 .. k -> S] : k \in 0 .. n}
Flat(ss) == FoldLeft(LAMBDA a, b : a \o b, <<>>, ss)

SqlPieces == {<<"'">>, <<";">>, <<"$", "$">>, <<"$", "a", "$">>, <<"-", "-">>, <<"newline">>, <<"a">>,
              <<" ">>, <<"-">>, <<"$">>}

\* Up to three entries where there is room for two; any file of the first may be missing.
Entry(name) == [version : {0, 1}, name : {name}, sql : BOOLEAN, down : BOOLEAN]
Indexes == {<<>>} \cup {<<a>> : a \in Entry("a")} \cup {<<a, b>> : a \in Entry("a"), b \in Entry("b")}
           \cup {<<a, b, a>> : a \in Entry("a"), b \in Entry("b")}
ContractFiles(names) == names \X {"up", "down"} \X {"sqlite", "postgresql"}

\* Values of up to three characters, and files of up to three lines.
SINGLE == Env!SINGLE
DOUBLE == Env!DOUBLE
BACKSLASH == Env!BACKSLASH
NL == Env!NL
Values == Lists({"A", SINGLE, DOUBLE, "#", " ", BACKSLASH, "n", NL}, 3)
EnvLines == {<<"#">>, <<"A", "=", "n">>, <<"export", " ", "A", "=", "n">>,
             <<"A", " ", "=", DOUBLE, BACKSLASH, "n", DOUBLE, "#">>, <<" ", "B", "=", SINGLE, "n">>,
             <<"B", "=", SINGLE>>, <<"B", "=">>, <<>>, <<"A">>}
Joined(lines) == FoldLeft(LAMBDA text, line : IF text = <<>> THEN line ELSE text \o <<NL>> \o line, <<>>, lines)
EnvFiles == UNION {{Joined(ls), Joined(ls) \o <<NL>>} : ls \in Lists(EnvLines, 3)}
Assign(name, value) == [name |-> <<name>>, value |-> value]

Credentials == {Secret!Unnamed, Secret!Absent, Secret!Unreadable}
               \cup {Secret!There(t) : t \in Lists({"x", Secret!CR, Secret!LF}, 4)}
SecretFiles == {Secret!Unnamed, Secret!Absent, Secret!Unreadable, Secret!There(<<Secret!LF, "x">>),
                Secret!There(<<"x", Secret!CR>>)}
SecretVariables == {Secret!Unnamed, Secret!There(<<>>), Secret!There(<<"x", Secret!LF>>),
                    Secret!There(<<"x", "x", "x">>)}

ESC == Terminal!ESC
KeyRuns == Lists({<<"enter">>, <<"interrupt">>, <<"back">>, <<"1">>, <<"3">>, <<"x">>, <<ESC>>,
                  <<ESC, "[", "A">>, <<ESC, "[", "B">>, <<ESC, "[", "3">>}, 3)
TextLines == {<<>>, <<" ">>, <<"x", " ">>, <<"x", "x", "x">>, <<"9">>, <<"9", "9", " ">>, <<"0">>,
              <<"3", "x">>, <<"x", "x", "x", "x">>}
TextRules == {[required |-> TRUE, max |-> 3, port |-> FALSE], [required |-> FALSE, max |-> 3, port |-> FALSE],
              [required |-> FALSE, max |-> 5, port |-> TRUE]}
NumberLines == {<<>>, <<"1">>, <<"2">>, <<"3">>, <<"yes">>, <<"YES">>, <<" ", "2">>, <<"no">>}
Lower == [c \in {"1", "2", "3", "yes", "YES", "no", " "} |-> IF c = "YES" THEN "yes" ELSE c]

\* What is configured and what is answered, every other variable unset and every other question
\* answered with Enter; a configuration the start accepts, with a sender from one of the two.
World(env, own, found, say) ==
    [env |-> env @@ [n \in Dialogue!Variables |-> ""], own |-> own, found |-> found,
     say |-> say @@ [n \in Dialogue!Variables \cup {"database", "kind", "take", "insisted", "name",
                                                    "description", "url"} |->
                        CASE n = "insisted" -> "typed" [] n = "url" -> "https" [] OTHER -> ""]]
Answerable(w) ==
    /\ w.say["database"] = "as configured" => Dialogue!is_database_configured(w)
    /\ w.env["EMAIL_SENDER"] # "" \/ w.say["EMAIL_SENDER"] # ""
    /\ Dialogue!configSchema(w.env, w.own)

AboutTheDatabase(q) ==
    \E type \in {"", "sqlite", "postgresql"}, host \in {"", "db"}, password \in {"", "secret"},
       env \in {"", "production"}, own \in {{}, {"DB_PASSWORD"}}, found \in SUBSET {"5432", "15432"},
       choice \in {"", "as configured", "sqlite", "postgresql"}, kind \in {"", "development", "production"},
       typed \in {"", "typed"}, where \in {"", "/var/run/postgresql", "other"} :
        q = [kind |-> "setup", world |->
                World([DB_TYPE |-> type, DB_HOST |-> host, DB_PASSWORD |-> password, NODE_ENV |-> env,
                       EMAIL_SENDER |-> "a@b"], own, found,
                      [database |-> choice, kind |-> kind, DB_PASSWORD |-> typed, DB_HOST |-> where])]
AboutTheRelay(q) ==
    \E mail \in {"", "true"}, user \in {"", "user"}, password \in {"", "secret"}, sender \in {"", "a@b"},
       tls \in {"", "implicit"}, own \in {{}, {"EMAIL_PASSWORD"}}, env \in {"", "production"},
       kind \in {"", "development", "production"}, take \in {"", "no"}, sends \in {"", "true", "false"},
       other \in {"", "other"}, typed \in {"", "typed"}, from \in {"", "c@d"} :
        q = [kind |-> "setup", world |->
                World([DB_TYPE |-> "sqlite", EMAIL |-> mail, EMAIL_USERNAME |-> user, EMAIL_PASSWORD |-> password,
                       EMAIL_SENDER |-> sender, EMAIL_SMTP_TLS |-> tls, NODE_ENV |-> env], own, {},
                      [kind |-> kind, take |-> take, EMAIL |-> sends, EMAIL_USERNAME |-> other,
                       EMAIL_PASSWORD |-> typed, EMAIL_SENDER |-> from])]

\* The socket is accepted or refused once and speaks only after that; the timer fires any time.
Heard == {e \in Lists({"accepted", "refused", "sent", "not sent", "nothing yet", "S", "N", "x", "closed", "timeout"}, 4) :
            \A i \in DOMAIN e :
                /\ e[i] \in {"accepted", "refused"} =>
                       \A j \in 1 .. (i - 1) : e[j] \notin {"accepted", "refused"}
                /\ e[i] \notin {"accepted", "refused", "timeout"} => \E j \in 1 .. (i - 1) : e[j] = "accepted"}

NoQuestion == [kind |-> "none"]
Questions(q) ==
    \/ \E ps \in Lists(SqlPieces, 4) : q = [kind |-> "sql", text |-> Flat(ps)]
    \/ \E es \in Indexes, missing \in SUBSET ContractFiles({"a"}) :
            q = [kind |-> "contract", contract |->
                    [entries |-> es, files |-> ContractFiles({"a", "b"}) \ missing]]
    \/ \E v \in Values, f \in {<<>>, <<"B", "=", "n">>, <<"A", "=", "n", NL, "#", NL>>} :
            q = [kind |-> "env", file |-> f, entries |-> <<Assign("A", v)>>]
    \/ \E f \in EnvFiles, es \in {<<Assign("A", <<"#">>)>>, <<Assign("B", <<"B">>), Assign("A", <<SINGLE, NL>>)>>} :
            q = [kind |-> "env", file |-> f, entries |-> es]
    \/ \E c \in Credentials, f \in SecretFiles, v \in SecretVariables :
            q = [kind |-> "secret", where |-> [credential |-> c, file |-> f, variable |-> v]]
    \/ \E k \in KeyRuns, i \in 0 .. 1 : q = [kind |-> "choose", in |-> Flat(k), initial |-> i]
    \/ \E k \in KeyRuns, f \in {<<>>, <<"y">>} : q = [kind |-> "hidden", in |-> Flat(k), fallback |-> f]
    \/ \E ls \in Lists(TextLines, 2), f \in {<<>>, <<"9">>}, r \in TextRules :
            q = [kind |-> "text", lines |-> ls, fallback |-> f, rule |-> r]
    \/ \E ls \in Lists(NumberLines, 3), i \in 0 .. 1 : q = [kind |-> "numbered", lines |-> ls, initial |-> i]
    \/ \E e \in Heard : q = [kind |-> "probe", events |-> e]
    \/ AboutTheDatabase(q) /\ Answerable(q.world)
    \/ AboutTheRelay(q) /\ Answerable(q.world)

-----------------------------------------------------------------------------
\* Commands, or one question with nothing running.
MCInit ==
    /\ Init
    /\ \/ question = NoQuestion
       \/ deployed.seed = NONE /\ Questions(question)

Command(A) == question = NoQuestion /\ A /\ UNCHANGED question
Answered == question # NoQuestion /\ UNCHANGED <<vars, question>>
MCNext == Command(Next) \/ Answered

\* The fairness of Installation.
MCSpec == /\ MCInit /\ [][MCNext]_<<vars, question>>
          /\ \A p \in Procs : WF_<<vars, question>>(Command(Works(p)))

-----------------------------------------------------------------------------
(* The properties of the questions, stated where the code is modelled.       *)

\* What the two paths read from the same bytes is the same: the statements of a migration
\* (migrations.c, Migration.ts), the migrations a build carries (migrations.c, migrations.ts), the
\* answers setup wrote into `.env` (env_file.c, envFile.ts) and a secret from its credential, its
\* file or its variable (secret.c, secret.ts).
FilesReadAlike ==
    /\ question.kind = "sql" => Sql!SplitsAlike(question.text)
    /\ question.kind = "contract" => Contract!LoadsAlike(question.contract)
    /\ question.kind = "env" => Env!AnswersReadBack(question.file, question.entries)
    /\ question.kind = "secret" => Secret!SecretsResolveAlike(question.where)

\* The same keys and lines are the same answers at both terminals (prompt.c, prompt.ts), a port
\* answers both probes alike (postgres_probe.c, findPostgres.ts), and the same answers make the
\* same installation, which starts, and which a second setup answered with Enter leaves as it is
\* (setup.c, askForSetup.ts).
SetupsAgree ==
    /\ question.kind = "choose" => Terminal!ChoosesAlike(question.in, 2, question.initial)
    /\ question.kind = "hidden" => Terminal!SecretsAlike(question.in, question.fallback, 3)
    /\ question.kind = "text" => Terminal!AsksAlike(question.lines, question.fallback, question.rule, 4)
    /\ question.kind = "numbered" =>
           Terminal!NumbersAlike(question.lines, <<"yes", "no">>, question.initial, Lower)
    /\ question.kind = "probe" => Probe!ProbesAlike(question.events)
    /\ question.kind = "setup" =>
           Dialogue!SetsUpAlike(question.world) /\ Dialogue!RerunKeepsWhatIs(question.world)
=============================================================================
