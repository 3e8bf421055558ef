--------------------------- MODULE DbTransaction ---------------------------
(***************************************************************************)
(* Running one unit on a connection: run_unit and roll_back in             *)
(* service-core/src/db_exec.c, the statement drivers under them, and the   *)
(* unit the backend has, a registration (backend-core, register_account.c  *)
(* and user_repository.c).                                                 *)
(*                                                                         *)
(* Every worker has a connection of its own; what they share is the        *)
(* database.  A round trip to the database is one action, so a connection  *)
(* can be lost, and a session can lose its prepared statements, between    *)
(* any two of them.                                                        *)
(***************************************************************************)
EXTENDS Naturals, FiniteSets

CONSTANTS
    Workers,        \* connections; one on SQLite
    Emails,         \* addresses people register
    Accesses,       \* the units there are: "read", "write"
    Draws,          \* the values a gradido_id and a verification code can take
    Databases,      \* what the process may be configured with
    AgainMax,       \* SC_DB_AGAIN_MAX
    RerunMax,       \* SC_DB_RERUN_MAX
    RegisterMax,    \* BC_REGISTER_MAX_ATTEMPTS
    Losses          \* what can be lost: "link", the connection; "names", a session's statements

ASSUME LimitsAssumption ==
    /\ AgainMax \in Nat \ {0} /\ RerunMax \in Nat \ {0} /\ RegisterMax \in Nat \ {0}

ASSUME SetsAssumption ==
    /\ Emails # {} /\ Draws # {}
    /\ Accesses \subseteq {"read", "write"}

\* SQLite with journal_mode WAL, or where WAL was refused; it has the one writer (plan_groups).
ASSUME DatabasesAssumption ==
    /\ Databases \subseteq {"postgresql", "wal", "journal"}
    /\ Cardinality(Workers) = 1 \/ Databases = {"postgresql"}

VARIABLES
    kind,       \* db->kind, and what SQLite's journal_mode answered
    pc,         \* where run_unit, and the work it calls, stands
    unit,       \* access, email, attempt, status and outcome of the unit the worker holds
    draw,       \* account.gradido_id and email_verification_code
    reruns,     \* run_unit's count of runs repeated for a lost statement
    tries,      \* sc_sql_postgres_run's `attempt`
    rerun,      \* db->rerun_unit
    table,      \* db->prepared: the statements the connection believes in
    link,       \* the connection: ok, lost (the server closed it, unnoticed) or bad
    known,      \* the database's: the names this session has
    txn,        \* the database's: this session's transaction
    pend,       \* the database's: the rows that transaction has written
    stored,     \* the database's: the rows that are durable
    critical,   \* sc_runtime_stop_critically was called
    collided    \* history: how often a draw of this unit met a value that exists

connVars == <<table, link, known, txn, pend>>
vars == <<kind, pc, unit, draw, reruns, tries, rerun, connVars, stored, critical, collided>>

\* The prepared statements, named after where run_unit stands when it runs one.
Statements == {"find", "insert_user", "insert_contact", "owner_of", "set_main"}

Rows == [table : {"user"}, id : Draws]
        \union [table : {"contact"}, id : Draws, email : Emails, code : Draws]
        \union [table : {"main"}, id : Draws]

Ends == {"commit", "rollback", "again"}
Places == {"idle", "usable", "begin"} \union Statements \union Ends

Units == [access : {"read", "write"}, email : Emails, attempt : 1..AgainMax,
          status : {"ok", "network", "refused"},
          outcome : {"pending", "created", "taken", "failed", "exhausted"}]

TypeOK ==
    /\ kind \in Databases
    /\ pc \in [Workers -> Places]
    /\ unit \in [Workers -> Units]
    /\ draw \in [Workers -> [id : Draws, code : Draws]]
    /\ reruns \in [Workers -> 0..RerunMax - 1]
    /\ tries \in [Workers -> 0..1]
    /\ rerun \in [Workers -> BOOLEAN]
    /\ table \in [Workers -> SUBSET Statements]
    /\ link \in [Workers -> {"ok", "lost", "bad"}]
    /\ known \in [Workers -> SUBSET Statements]
    /\ txn \in [Workers -> {"none", "open", "aborted"}]
    /\ pend \in [Workers -> SUBSET Rows]
    /\ stored \subseteq Rows
    /\ critical \in BOOLEAN
    /\ collided \in [Workers -> 0..RegisterMax]

NewUnit(access, email) ==
    [access |-> access, email |-> email, attempt |-> 1, status |-> "ok", outcome |-> "pending"]

Init ==
    /\ kind \in Databases
    /\ pc = [w \in Workers |-> "idle"]
    /\ unit = [w \in Workers |-> NewUnit("read", CHOOSE e \in Emails : TRUE)]
    /\ draw = [w \in Workers |-> [id |-> CHOOSE d \in Draws : TRUE, code |-> CHOOSE d \in Draws : TRUE]]
    /\ reruns = [w \in Workers |-> 0]
    /\ tries = [w \in Workers |-> 0]
    /\ rerun = [w \in Workers |-> FALSE]
    /\ table = [w \in Workers |-> {}]
    /\ link = [w \in Workers |-> "ok"]
    /\ known = [w \in Workers |-> {}]
    /\ txn = [w \in Workers |-> "none"]
    /\ pend = [w \in Workers |-> {}]
    /\ stored = {}
    /\ critical = FALSE
    /\ collided = [w \in Workers |-> 0]

Postgres == kind = "postgresql"

-----------------------------------------------------------------------------
(* The database and the network, as the drivers meet them.                   *)

\* A session that ends takes its transaction and its prepared statements with it.
SessionEnds(w) ==
    /\ txn' = [txn EXCEPT ![w] = "none"]
    /\ pend' = [pend EXCEPT ![w] = {}]
    /\ known' = [known EXCEPT ![w] = {}]

LoseLink(w) ==
    /\ "link" \in Losses /\ Postgres /\ link[w] = "ok"
    /\ link' = [link EXCEPT ![w] = "lost"]
    /\ SessionEnds(w)
    /\ UNCHANGED <<pc, unit, draw, reruns, tries, rerun, table, stored, critical, collided>>

\* DISCARD ALL or DEALLOCATE on this session.
Discard(w) ==
    /\ "names" \in Losses /\ Postgres /\ known[w] # {}
    /\ known' = [known EXCEPT ![w] = {}]
    /\ UNCHANGED <<pc, unit, draw, reruns, tries, rerun, table, link, txn, pend, stored, critical,
                   collided>>

\* sc_db_postgres_redial: a new session on the same connection object, or none.
Redial(w) ==
    \/ /\ link' = [link EXCEPT ![w] = "ok"]
       /\ SessionEnds(w)
       /\ table' = [table EXCEPT ![w] = {}]
    \/ /\ link' = [link EXCEPT ![w] = "bad"]
       /\ UNCHANGED <<table, known, txn, pend>>

-----------------------------------------------------------------------------
(* A worker takes a unit: run_on_worker, make_usable.                        *)

Take(w, access, email) ==
    /\ pc[w] = "idle"
    /\ unit' = [unit EXCEPT ![w] = NewUnit(access, email)]
    /\ pc' = [pc EXCEPT ![w] = "usable"]
    /\ reruns' = [reruns EXCEPT ![w] = 0]
    /\ collided' = [collided EXCEPT ![w] = 0]
    /\ UNCHANGED <<draw, tries, rerun, connVars, stored, critical>>

Return(w, status) ==
    /\ pc' = [pc EXCEPT ![w] = "idle"]
    /\ unit' = [unit EXCEPT ![w].status = status]

\* The connection is fine, or looks it: a loss nobody has read about yet is met at BEGIN.
Usable(w) ==
    /\ pc[w] = "usable" /\ link[w] # "bad"
    /\ pc' = [pc EXCEPT ![w] = "begin"]
    /\ UNCHANGED <<unit, draw, reruns, tries, rerun, connVars, stored, critical, collided>>

Revive(w) ==
    /\ pc[w] = "usable" /\ link[w] # "ok"
    /\ Redial(w)
    /\ IF link'[w] = "ok"
       THEN pc' = [pc EXCEPT ![w] = "begin"] /\ UNCHANGED unit
       ELSE Return(w, "network")
    /\ UNCHANGED <<draw, reruns, tries, rerun, stored, critical, collided>>

-----------------------------------------------------------------------------
(* run_unit's loop: BEGIN, then the work.                                    *)

\* registration_work draws anew on every run.
StartWork(w) ==
    /\ rerun' = [rerun EXCEPT ![w] = FALSE]
    /\ tries' = [tries EXCEPT ![w] = 0]
    /\ IF unit[w].access = "read"
       THEN pc' = [pc EXCEPT ![w] = "find"] /\ UNCHANGED draw
       ELSE /\ pc' = [pc EXCEPT ![w] = "insert_user"]
            /\ \E d, c \in Draws : draw' = [draw EXCEPT ![w] = [id |-> d, code |-> c]]

BeginRead(w) ==
    /\ pc[w] = "begin" /\ unit[w].access = "read"
    /\ StartWork(w)
    /\ UNCHANGED <<unit, reruns, connVars, stored, critical, collided>>

\* Mutant: no BEGIN is sent; every statement is kept by itself.
BeginNotSent(w) ==
    /\ pc[w] = "begin" /\ unit[w].access = "write"
    /\ link[w] = "ok"
    /\ StartWork(w)
    /\ UNCHANGED <<unit, reruns, connVars, stored, critical, collided>>

\* PostgreSQL answers a BEGIN inside a transaction with a warning and goes on in it; SQLite
\* refuses it.
BeginWrite(w) ==
    /\ pc[w] = "begin" /\ unit[w].access = "write"
    /\ link[w] = "ok"
    /\ txn[w] \in (IF Postgres THEN {"none", "open"} ELSE {"none"})
    /\ txn' = [txn EXCEPT ![w] = "open"]
    /\ StartWork(w)
    /\ UNCHANGED <<unit, reruns, table, link, known, pend, stored, critical, collided>>

\* refused: a connection libpq calls bad is a network failure, anything else a refusal.
BeginFails(w) ==
    /\ pc[w] = "begin" /\ unit[w].access = "write"
    /\ \/ /\ link[w] # "ok"
          /\ link' = [link EXCEPT ![w] = "bad"]
          /\ Return(w, "network")
       \/ /\ Postgres => txn[w] = "aborted"
          /\ UNCHANGED link
          /\ Return(w, "refused")
    /\ UNCHANGED <<draw, reruns, tries, rerun, table, known, txn, pend, stored, critical, collided>>

-----------------------------------------------------------------------------
(* A statement of the work: prepare and PQexecPrepared, or sqlite3_step.      *)

Concludes(w, end, outcome) ==
    /\ pc' = [pc EXCEPT ![w] = end]
    /\ unit' = [unit EXCEPT ![w].outcome = outcome]

\* A statement failed for any reason but a generated value that exists.
WorkFails(w) == Concludes(w, "rollback", "failed") /\ UNCHANGED collided

\* BC_ACCOUNT_COLLIDED: draw again, or give up after RegisterMax draws.
Collides(w) ==
    /\ collided' = [collided EXCEPT ![w] = IF @ < RegisterMax THEN @ + 1 ELSE @]
    /\ IF unit[w].attempt < RegisterMax
       THEN Concludes(w, "again", unit[w].outcome)
       ELSE Concludes(w, "rollback", "exhausted")

\* PostgreSQL lets nothing more happen in a transaction that had an error.
AfterError(t) == IF Postgres /\ t = "open" THEN "aborted" ELSE t

Aborts(w) ==
    /\ txn' = [txn EXCEPT ![w] = AfterError(@)]
    /\ pend' = [pend EXCEPT ![w] = IF AfterError(txn[w]) = "aborted" THEN {} ELSE @]

\* A name the session already has is refused as a duplicate.
Prepare(w) ==
    /\ pc[w] \in Statements \ table[w]
    /\ link[w] = "ok"
    /\ IF txn[w] = "aborted" \/ pc[w] \in known[w]
       THEN /\ Aborts(w)
            /\ WorkFails(w)
            /\ UNCHANGED <<table, known>>
       ELSE /\ table' = [table EXCEPT ![w] = @ \union {pc[w]}]
            /\ known' = [known EXCEPT ![w] = @ \union {pc[w]}]
            /\ UNCHANGED <<pc, unit, txn, pend, collided>>
    /\ UNCHANGED <<draw, reruns, tries, rerun, link, stored, critical>>

\* Mutant: every name is forgotten, those the session still has included.
ForgetAll(w) == table' = [table EXCEPT ![w] = {}]

Forget(w) == table' = [table EXCEPT ![w] = @ \ {pc[w]}]

MayRetry(w) == tries[w] = 0 /\ txn[w] = "none"

\* 26000: the session no longer has the name.
UnknownStatement(w) ==
    /\ pc[w] \in table[w] \ known[w]
    /\ link[w] = "ok" /\ txn[w] # "aborted"
    /\ Forget(w)
    /\ Aborts(w)
    /\ IF MayRetry(w)
       THEN /\ tries' = [tries EXCEPT ![w] = @ + 1]
            /\ UNCHANGED <<pc, unit, rerun, collided>>
       ELSE /\ rerun' = [rerun EXCEPT ![w] = TRUE]
            /\ WorkFails(w)
            /\ UNCHANGED tries
    /\ UNCHANGED <<draw, reruns, link, known, stored, critical>>

\* The statement meets a connection that is gone.
StatementUnanswered(w) ==
    /\ pc[w] \in Statements /\ link[w] # "ok"
    /\ link' = [link EXCEPT ![w] = "bad"]
    /\ WorkFails(w)
    /\ UNCHANGED <<draw, reruns, tries, rerun, table, known, txn, pend, stored, critical>>

\* The database refuses it: a full disk, a timeout.  SQLite may end the transaction with that.
StatementRefused(w) ==
    /\ pc[w] \in table[w] \intersect known[w]
    /\ link[w] = "ok"
    /\ \/ Aborts(w)
       \/ /\ ~Postgres
          /\ txn' = [txn EXCEPT ![w] = "none"]
          /\ pend' = [pend EXCEPT ![w] = {}]
    /\ WorkFails(w)
    /\ UNCHANGED <<draw, reruns, tries, rerun, table, link, known, stored, critical>>

-----------------------------------------------------------------------------
(* What a statement does that runs: bc_user_create_account.                  *)

UserRow(w) == [table |-> "user", id |-> draw[w].id]
ContactRow(w) ==
    [table |-> "contact", id |-> draw[w].id, email |-> unit[w].email, code |-> draw[w].code]
MainRow(w) == [table |-> "main", id |-> draw[w].id]

SameAddress(w, rows) == \E r \in rows : r.table = "contact" /\ r.email = unit[w].email
SameValue(w, rows) ==
    \/ pc[w] = "insert_user" /\ UserRow(w) \in rows
    \/ pc[w] = "insert_contact" /\ \E r \in rows : r.table = "contact" /\ r.code = draw[w].code

Visible(w) == stored \union pend[w]
Others(w) == UNION {pend[v] : v \in Workers \ {w}}

\* An index entry of a transaction that has not ended makes the statement wait for its end.
Waits(w) ==
    \/ SameValue(w, Others(w))
    \/ pc[w] = "insert_contact" /\ SameAddress(w, Others(w))

\* Outside a transaction a statement is its own.
Writes(w, row) ==
    /\ pend' = [pend EXCEPT ![w] = IF txn[w] = "open" THEN @ \union {row} ELSE @]
    /\ stored' = IF txn[w] = "open" THEN stored ELSE stored \union {row}
    /\ UNCHANGED <<txn, collided>>

Runs(w) ==
    \/ /\ pc[w] = "find"
       /\ Concludes(w, "rollback", "pending")
       /\ UNCHANGED <<txn, pend, stored, collided>>
    \/ /\ pc[w] = "insert_user" /\ ~SameValue(w, Visible(w))
       /\ Writes(w, UserRow(w))
       /\ pc' = [pc EXCEPT ![w] = "insert_contact"]
       /\ UNCHANGED unit
    \/ /\ pc[w] = "insert_contact" /\ SameAddress(w, Visible(w))
       /\ pc' = [pc EXCEPT ![w] = "owner_of"]
       /\ UNCHANGED <<unit, txn, pend, stored, collided>>
    \/ /\ pc[w] = "insert_contact" /\ ~SameAddress(w, Visible(w)) /\ ~SameValue(w, Visible(w))
       /\ Writes(w, ContactRow(w))
       /\ pc' = [pc EXCEPT ![w] = "set_main"]
       /\ UNCHANGED unit
    \/ /\ pc[w] = "insert_user" \/ (pc[w] = "insert_contact" /\ ~SameAddress(w, Visible(w)))
       /\ SameValue(w, Visible(w))
       /\ Aborts(w)
       /\ Collides(w)
       /\ UNCHANGED stored
    \/ /\ pc[w] = "owner_of"
       /\ Concludes(w, "rollback", "taken")
       /\ UNCHANGED <<txn, pend, stored, collided>>
    \/ /\ pc[w] = "set_main"
       /\ Writes(w, MainRow(w))
       /\ Concludes(w, "commit", "created")

Execute(w) ==
    /\ pc[w] \in table[w] \intersect known[w]
    /\ link[w] = "ok" /\ txn[w] # "aborted" /\ ~Waits(w)
    /\ Runs(w)
    /\ tries' = [tries EXCEPT ![w] = 0]
    /\ UNCHANGED <<draw, reruns, rerun, table, link, known, critical>>

-----------------------------------------------------------------------------
(* How the run ends: the rest of run_unit's loop, and roll_back.             *)

\* Mutant: reruns are not counted.
RunAgainUncounted(w) ==
    /\ pc' = [pc EXCEPT ![w] = "begin"]
    /\ UNCHANGED <<unit, reruns>>

\* The same attempt again, for a statement the session had lost.
RunAgain(w) ==
    IF reruns[w] + 1 < RerunMax
    THEN /\ pc' = [pc EXCEPT ![w] = "begin"]
         /\ reruns' = [reruns EXCEPT ![w] = @ + 1]
         /\ UNCHANGED unit
    ELSE Return(w, "refused") /\ UNCHANGED reruns

\* What the work asked for, once its transaction is gone.
AsAsked(w) ==
    /\ UNCHANGED reruns
    /\ IF pc[w] # "again" THEN Return(w, "ok")
       ELSE IF unit[w].attempt >= AgainMax THEN Return(w, "refused")
       ELSE /\ pc' = [pc EXCEPT ![w] = "begin"]
            /\ unit' = [unit EXCEPT ![w].attempt = @ + 1]

GoesOn(w) ==
    /\ IF rerun[w] THEN RunAgain(w) ELSE AsAsked(w)
    /\ rerun' = [rerun EXCEPT ![w] = FALSE]

EndRead(w) ==
    /\ pc[w] \in Ends /\ unit[w].access = "read"
    /\ GoesOn(w)
    /\ UNCHANGED <<draw, tries, connVars, stored, critical, collided>>

EndsTransaction(w) ==
    /\ txn' = [txn EXCEPT ![w] = "none"]
    /\ pend' = [pend EXCEPT ![w] = {}]

\* roll_back, once per run that does not commit.
RollBack(w) ==
    /\ pc[w] \in Ends /\ unit[w].access = "write" /\ (rerun[w] \/ pc[w] # "commit")
    /\ \/ /\ link[w] = "ok"
          /\ EndsTransaction(w)
          /\ UNCHANGED <<table, link, known>>
       \/ /\ link[w] # "ok"
          /\ Redial(w)
    /\ GoesOn(w)
    /\ UNCHANGED <<draw, tries, stored, critical, collided>>

StopsTheProcess == critical' = TRUE

\* SQLite could not roll back, and the transaction is still open.
RollBackStuck(w) ==
    /\ pc[w] \in Ends /\ unit[w].access = "write" /\ pc[w] # "commit"
    /\ ~Postgres /\ txn[w] = "open"
    /\ StopsTheProcess
    /\ Return(w, "refused")
    /\ UNCHANGED <<draw, reruns, tries, rerun, connVars, stored, collided>>

Commit(w) ==
    /\ pc[w] = "commit" /\ ~rerun[w]
    /\ link[w] = "ok"
    /\ stored' = stored \union pend[w]
    /\ EndsTransaction(w)
    /\ Return(w, "ok")
    /\ UNCHANGED <<draw, reruns, tries, rerun, table, link, known, critical, collided>>

\* Mutant: the answer to COMMIT is not looked at.
CommitStatusIgnored(status) == "ok"

CommitStatus(status) == status

\* Refused, and the transaction with it; or never heard of again, kept or not.
CommitFails(w) ==
    /\ pc[w] = "commit" /\ ~rerun[w]
    /\ \/ /\ link[w] = "ok"
          /\ EndsTransaction(w)
          /\ Return(w, CommitStatus("refused"))
          /\ UNCHANGED <<known, link, stored>>
       \/ /\ link[w] # "ok"
          /\ link' = [link EXCEPT ![w] = "bad"]
          /\ Return(w, CommitStatus("network"))
          /\ UNCHANGED <<known, txn, pend, stored>>
       \/ /\ "link" \in Losses /\ Postgres /\ link[w] = "ok"
          /\ link' = [link EXCEPT ![w] = "bad"]
          /\ stored' = stored \union pend[w]
          /\ SessionEnds(w)
          /\ Return(w, CommitStatus("network"))
    /\ UNCHANGED <<draw, reruns, tries, rerun, table, critical, collided>>

\* Without WAL a reader holds COMMIT off: SQLITE_BUSY, and the transaction stays open.
CommitBusy(w) ==
    /\ pc[w] = "commit" /\ ~rerun[w]
    /\ kind = "journal"
    /\ Return(w, CommitStatus("refused"))
    /\ UNCHANGED <<draw, reruns, tries, rerun, connVars, stored, critical, collided>>

-----------------------------------------------------------------------------

Work(w) ==
    \/ Usable(w) \/ Revive(w)
    \/ BeginRead(w) \/ BeginWrite(w) \/ BeginFails(w)
    \/ Prepare(w) \/ UnknownStatement(w) \/ StatementUnanswered(w) \/ StatementRefused(w)
    \/ Execute(w)
    \/ EndRead(w) \/ RollBack(w) \/ RollBackStuck(w)
    \/ Commit(w) \/ CommitFails(w) \/ CommitBusy(w)

Submit(w) == \E access \in Accesses, email \in Emails : Take(w, access, email)

\* A connection's kind is set when it is opened.
Next ==
    /\ \E w \in Workers : Submit(w) \/ Work(w) \/ LoseLink(w) \/ Discard(w)
    /\ UNCHANGED kind

Spec == Init /\ [][Next]_vars

\* A worker thread goes on as long as there is something for it to do.
FairSpec == Spec /\ \A w \in Workers : WF_vars(Work(w) /\ UNCHANGED kind)

-----------------------------------------------------------------------------
(* Properties.                                                               *)

\* An account is stored whole or not at all, and no two share an address or a generated
\* value, whatever is lost between the three statements that write it
\* (bc_user_create_account inside run_unit's transaction).
WholeAccounts ==
    /\ \A r \in stored :
          /\ \E c \in stored : c.table = "contact" /\ c.id = r.id
          /\ \A t \in {"user", "main"} : [table |-> t, id |-> r.id] \in stored
    /\ \A r, c \in stored :
          r.table = "contact" /\ c.table = "contact"
          /\ (r.id = c.id \/ r.email = c.email \/ r.code = c.code) => r = c

\* What `done` reads is what the database holds: a registration answered as created has its
\* three rows, one answered as taken names an address somebody has (status and outcome of
\* run_unit and registration_work, across reruns and redials).
AnswersAreTrue ==
    \A w \in Workers : pc[w] = "idle" /\ unit[w].status = "ok" =>
        /\ unit[w].outcome = "created" => {UserRow(w), ContactRow(w), MainRow(w)} \subseteq stored
        /\ unit[w].outcome = "taken" => SameAddress(w, stored)

\* A registration gives its generator up only after RegisterMax draws that really collided: a
\* session that loses statements spends none of them (`attempt` in db_exec.h).
ExhaustedIsTrue ==
    \A w \in Workers : unit[w].outcome = "exhausted" => collided[w] = RegisterMax

\* A registration does what it says: the accounts are whole and the answers about them true
\* (registration_work and bc_user_create_account, run by run_unit).
RegistrationIsTrue == WholeAccounts /\ AnswersAreTrue /\ ExhaustedIsTrue

\* Between two runs no transaction is open on the connection, so no unit ever starts inside
\* another one's, unless the process has been told to stop (roll_back, and the comment on
\* COMMIT in run_unit).
NothingLeftOpen ==
    kind # "journal" => \A w \in Workers :
        pc[w] \in {"idle", "usable", "begin"} => txn[w] = "none" \/ critical

\* The same where SQLite refused WAL: "A COMMIT that fails has ended the transaction anyway, on
\* both databases" (run_unit).
NothingLeftOpenAnywhere ==
    \A w \in Workers : pc[w] \in {"idle", "usable", "begin"} => txn[w] = "none" \/ critical

\* The table of prepared statements never misses a name the session has: such a statement
\* would be prepared again, be refused as a duplicate, and never work on this connection
\* (the comment on forgetting one name only in sc_sql_postgres_run).
NamesTrue == \A w \in Workers : known[w] \subseteq table[w]

\* A connection is as good as new for the next unit: nothing open on it, no name it cannot use.
StaysUsable == TypeOK /\ NothingLeftOpen /\ NamesTrue

\* Every unit a worker takes comes to an end, however often the connection or its prepared
\* statements are lost (SC_DB_AGAIN_MAX and SC_DB_RERUN_MAX).
EveryUnitEnds == \A w \in Workers : pc[w] # "idle" ~> pc[w] = "idle"

=============================================================================
