-------------------------- MODULE ReferenceProcess --------------------------
(***************************************************************************)
(* One process of the reference path: packages/bundle starts the services  *)
(* it was told to, each registers itself for the one shutdown of           *)
(* service-core/src/bootstrap/shutdown.ts, and the backend's requests pass *)
(* the gate of backend-core/src/database/gate.ts on their way to the       *)
(* database.                                                               *)
(*                                                                         *)
(* JavaScript runs one turn at a time: what a handler does up to its next  *)
(* await is one step here.  SQLite is called without an await, so a whole  *)
(* attempt at a registration is one step; on PostgreSQL every statement is *)
(* an await of its own and the transactions of two requests overlap.       *)
(***************************************************************************)
EXTENDS Naturals, Sequences, FiniteSets, Functions

CONSTANTS
    Requests,       \* POST /user/create requests, numbered as they arrive
    Email,          \* the address each of them names
    Draws,          \* values newGradidoId and newEmailVerificationCode may draw
    Kinds,          \* what DB_TYPE may be: the places in front of each
    QueueLimit,     \* DATABASE_QUEUE_PER_PLACE * places
    MaxAttempts,    \* MAX_ATTEMPTS
    NONE

Services == {"backend", "dht-node"}     \* as `gradido2 backend dht-node` starts them
KILLED == 143       \* what a shell reports for a process a SIGTERM ended

\* Requests come one after the other, a gate has a number of places and a limit to its queue, and
\* NONE is no exit code.
Setting ==
    /\ Requests \subseteq Nat /\ IsFiniteSet(Requests)
    /\ QueueLimit \in Nat /\ \A k \in DOMAIN Kinds : Kinds[k] \in Nat
    /\ NONE \notin {0, 1, KILLED}

VARIABLES
    kind,       \* DB_TYPE
    life,       \* where each service is
    db,         \* "none", "open", "closed"
    free, waiting,          \* the gate's
    job,        \* what each request is
    accounts,   \* the committed accounts
    network,    \* whether a node is registered for peer.bootstrap
    stopping,   \* the roles the one shutdown stops; {} before it began
    criticalStop,
    exit        \* NONE, or the exit code

vars == <<kind, life, db, free, waiting, job, accounts, network, stopping, criticalStop,
          exit>>
gate == <<free, waiting>>
process == <<kind, stopping, criticalStop, exit>>

Idle == [pc |-> "idle", email |-> NONE, id |-> NONE, code |-> NONE, attempt |-> 0]

Places == Kinds[kind]

Init ==
    /\ kind \in DOMAIN Kinds
    /\ life = [s \in Services |-> "starting"]
    /\ db = "none"
    /\ free = Places /\ waiting = << >>
    /\ job = [q \in Requests |-> Idle]
    /\ accounts = {}
    /\ network = FALSE
    /\ stopping = {} /\ criticalStop = FALSE /\ exit = NONE

Alive == exit = NONE
Registered == {s \in Services : life[s] \in {"up", "stopping"}}
Lives(s, from, to) == life[s] = from /\ life' = [life EXCEPT ![s] = to]

-----------------------------------------------------------------------------
(* Starting: the services run side by side, and one that cannot start ends   *)
(* the process on the spot.                                                  *)

\* runBackend as far as connectDatabase, which contacts nobody.
Connect ==
    /\ Alive /\ Lives("backend", "starting", "opening")
    /\ db' = "open"
    /\ UNCHANGED <<process, gate, job, accounts, network>>

\* The rest of open, and listen, whose callback registers the shutdown.
Listens ==
    /\ Alive /\ Lives("backend", "opening", "up")
    /\ UNCHANGED <<process, db, gate, job, accounts, network>>

\* Anything that goes wrong there closes what was opened and exits.
OpenFails ==
    /\ Alive /\ life["backend"] = "opening"
    /\ db' = "closed" /\ exit' = 1
    /\ UNCHANGED <<kind, life, gate, job, accounts, network, stopping, criticalStop>>

\* runDhtNode: the topic, the identity and the node, or process.exit(1).
runDhtNode ==
    /\ Alive
    /\ \/ /\ Lives("dht-node", "starting", "up")
          /\ network' = TRUE
          /\ UNCHANGED exit
       \/ /\ life["dht-node"] = "starting" /\ exit' = 1
          /\ UNCHANGED <<life, network>>
    /\ UNCHANGED <<kind, db, gate, job, accounts, stopping, criticalStop>>

-----------------------------------------------------------------------------
(* The gate                                                                  *)

Holding == {"work", "user", "contact"}
Holders == {q \in Requests : job[q].pc \in Holding}

\* Mutant: through `free`, and the waiter is woken to take it from there.
GiveByFree(q, answer) ==
    /\ free' = free + 1
    /\ IF waiting = << >> THEN
          /\ job' = [job EXCEPT ![q] = [Idle EXCEPT !.pc = answer, !.email = job[q].email]]
          /\ UNCHANGED waiting
       ELSE
          /\ job' = [job EXCEPT ![q] = [Idle EXCEPT !.pc = answer, !.email = job[q].email],
                                ![Head(waiting)].pc = "work"]
          /\ waiting' = Tail(waiting)

\* A request whose place is given back with this answer.  The place goes straight to the longest
\* waiter.
Give(q, answer) ==
    IF waiting = << >> THEN
        /\ job' = [job EXCEPT ![q] = [Idle EXCEPT !.pc = answer, !.email = job[q].email]]
        /\ free' = IF free + 1 > Places THEN Places ELSE free + 1
        /\ UNCHANGED waiting
    ELSE
        /\ job' = [job EXCEPT ![q] = [Idle EXCEPT !.pc = answer, !.email = job[q].email],
                              ![Head(waiting)].pc = "work"]
        /\ waiting' = Tail(waiting)
        /\ UNCHANGED free

\* A request arrives while the server listens and takes a place, queues, or is refused.
Take(q) ==
    /\ Alive /\ life["backend"] = "up" /\ job[q].pc = "idle"
    /\ \A o \in Requests : o < q => job[o].pc # "idle"
    /\ \/ /\ free > 0
          /\ free' = free - 1
          /\ job' = [job EXCEPT ![q].pc = "work", ![q].email = Email[q], ![q].attempt = 1]
          /\ UNCHANGED waiting
       \/ /\ free = 0 /\ Len(waiting) >= QueueLimit
          /\ job' = [job EXCEPT ![q].pc = "503", ![q].email = Email[q]]
          /\ UNCHANGED gate
       \/ /\ free = 0 /\ Len(waiting) < QueueLimit
          /\ waiting' = Append(waiting, q)
          /\ job' = [job EXCEPT ![q].pc = "waiting", ![q].email = Email[q], ![q].attempt = 1]
          /\ UNCHANGED free
    /\ UNCHANGED <<process, life, db, accounts, network>>

splice(s, at) == SubSeq(s, 1, at - 1) \o SubSeq(s, at + 1, Len(s))

\* The timer of a waiter that is still in the queue.
WaitedTooLong(q) ==
    /\ Alive
    /\ \E at \in DOMAIN waiting : waiting[at] = q /\ waiting' = splice(waiting, at)
    /\ job' = [job EXCEPT ![q] = [Idle EXCEPT !.pc = "503", !.email = job[q].email]]
    /\ UNCHANGED <<process, life, db, free, accounts, network>>

-----------------------------------------------------------------------------
(* registerAccount and UserRepository.createAccount                          *)

Taken(e) == \E a \in accounts : a.email = e
Collides(id, code) == \E a \in accounts : a.id = id \/ a.code = code

\* What is drawn is drawn again, MAX_ATTEMPTS times; then it is an error.
register(q) ==
    IF job[q].attempt < MaxAttempts THEN
        /\ job' = [job EXCEPT ![q].pc = "work", ![q].id = NONE, ![q].code = NONE,
                              ![q].attempt = @ + 1]
        /\ UNCHANGED gate
    ELSE Give(q, "500")

\* On SQLite the whole transaction: the address decides before the code can collide.
createAccount(q, id, code) ==
    /\ Alive /\ kind = "sqlite" /\ job[q].pc = "work" /\ db = "open"
    /\ IF \E a \in accounts : a.id = id THEN register(q) /\ UNCHANGED accounts
       ELSE IF Taken(job[q].email) THEN Give(q, "204") /\ UNCHANGED accounts
       ELSE IF Collides(id, code) THEN register(q) /\ UNCHANGED accounts
       ELSE /\ accounts' = accounts \cup {[email |-> job[q].email, id |-> id, code |-> code]}
            /\ Give(q, "204")
    /\ UNCHANGED <<process, life, db, network>>

\* On PostgreSQL an insert waits for the transaction that wrote the same value and has not ended.
Written(q, f, x) == \E o \in Requests \ {q} : job[o][f] = x /\ job[o].pc \in {"user", "contact"}

insertUser(q, id) ==
    /\ Alive /\ kind = "postgresql" /\ job[q].pc = "work" /\ db = "open"
    /\ ~Written(q, "id", id)
    /\ IF \E a \in accounts : a.id = id THEN register(q)
       ELSE /\ job' = [job EXCEPT ![q].pc = "user", ![q].id = id]
            /\ UNCHANGED gate
    /\ UNCHANGED <<process, life, db, accounts, network>>

ContactWritten(q, e, code) ==
    \E o \in Requests \ {q} : job[o].pc = "contact" /\ (job[o].email = e \/ job[o].code = code)

\* Mutant: no unique key on the address is waited for or looked at.
insertContactBlind(q, code) ==
    /\ Alive /\ job[q].pc = "user"
    /\ IF \E a \in accounts : a.code = code THEN register(q)
       ELSE job' = [job EXCEPT ![q].pc = "contact", ![q].code = code] /\ UNCHANGED gate
    /\ UNCHANGED <<process, life, db, accounts, network>>

\* ON CONFLICT DO NOTHING on the address: the member row goes with the rollback, and the request
\* is answered as a new one.
insertContact(q, code) ==
    /\ Alive /\ job[q].pc = "user"
    /\ ~ContactWritten(q, job[q].email, code)
    /\ IF Taken(job[q].email) THEN Give(q, "204")
       ELSE IF \E a \in accounts : a.code = code THEN register(q)
       ELSE job' = [job EXCEPT ![q].pc = "contact", ![q].code = code] /\ UNCHANGED gate
    /\ UNCHANGED <<process, life, db, accounts, network>>

\* The update of users.email_id and the commit, whose answer may be lost.
Commit(q) ==
    /\ Alive /\ job[q].pc = "contact"
    /\ accounts' = accounts \cup {[email |-> job[q].email, id |-> job[q].id, code |-> job[q].code]}
    /\ \E answer \in {"204", "500"} : Give(q, answer)
    /\ UNCHANGED <<process, life, db, network>>

\* A statement that fails: rolled back, thrown through the gate's finally, answered UNKNOWN.
Fails(q) ==
    /\ Alive /\ job[q].pc \in Holding
    /\ Give(q, "500")
    /\ UNCHANGED <<process, life, db, accounts, network>>

-----------------------------------------------------------------------------
(* service-core/src/bootstrap/shutdown.ts                                    *)

\* The handler runs gracefulShutdown once: every role that has registered stops, a node after it
\* has taken back its registration.  Without a handler the signal ends the process.
gracefulShutdown(crit) ==
    /\ criticalStop' = (criticalStop \/ crit)
    /\ IF Registered = {} THEN
          exit' = KILLED /\ UNCHANGED <<stopping, life, network>>
       ELSE IF stopping # {} THEN
          UNCHANGED <<stopping, life, network, exit>>
       ELSE
          /\ stopping' = Registered
          /\ life' = [s \in Services |-> IF s \in Registered THEN "stopping" ELSE life[s]]
          /\ network' = (network /\ "dht-node" \notin Registered)
          /\ UNCHANGED exit

Signal ==
    /\ Alive /\ stopping = {}
    /\ gracefulShutdown(FALSE)
    /\ UNCHANGED <<kind, db, gate, job, accounts>>

\* app.ts: a request that failed with a CriticalError stops the process, and is answered.
stopAfterCriticalError(q) ==
    /\ Alive /\ job[q].pc = "work" /\ kind = "sqlite"
    /\ gracefulShutdown(TRUE)
    /\ Give(q, "500")
    /\ UNCHANGED <<kind, db, accounts>>

\* The requests the server has taken and not answered.
InFlight == {q \in Requests : job[q].pc \in Holding \cup {"waiting"}}

\* app.stop resolves once the server has answered what it had taken.
StopBackend ==
    /\ Alive /\ "backend" \in stopping /\ InFlight = {}
    /\ Lives("backend", "stopping", "stopped")
    /\ UNCHANGED <<process, db, gate, job, accounts, network>>

\* node.stop resolves, at the latest by its own timer.
StopNode ==
    /\ Alive /\ "dht-node" \in stopping
    /\ Lives("dht-node", "stopping", "closed")
    /\ UNCHANGED <<process, db, gate, job, accounts, network>>

\* context.close, or a stop or close that rejects.
CloseBackend ==
    /\ Alive
    /\ \/ Lives("backend", "stopped", "closed") /\ db' = "closed"
       \/ /\ life["backend"] \in {"stopping", "stopped"} /\ "backend" \in stopping
          /\ life' = [life EXCEPT !["backend"] = "failed"]
          /\ UNCHANGED db
    /\ UNCHANGED <<process, gate, job, accounts, network>>

Settled == {s \in Services : life[s] \in {"closed", "failed"}}

\* Mutant: Promise.all, and nobody looks at a rejection.
OutcomeOfSignal == IF criticalStop THEN 1 ELSE 0

Outcome == IF criticalStop \/ \E s \in stopping : life[s] = "failed" THEN 1 ELSE 0

\* Promise.allSettled over the roles, then process.exit.
AllSettled ==
    /\ Alive /\ stopping # {} /\ stopping \subseteq Settled
    /\ exit' = Outcome
    /\ UNCHANGED <<kind, life, db, gate, job, accounts, network, stopping, criticalStop>>

\* Mutant: the timer is armed for the quick roles only.
ForcedExitNever == FALSE /\ UNCHANGED vars

ForcedExit ==
    /\ Alive /\ stopping # {} /\ ~(stopping \subseteq Settled)
    /\ exit' = 1
    /\ UNCHANGED <<kind, life, db, gate, job, accounts, network, stopping, criticalStop>>

-----------------------------------------------------------------------------
Registers(q) ==
    \/ \E id, code \in Draws : createAccount(q, id, code)
    \/ \E id \in Draws : insertUser(q, id)
    \/ \E code \in Draws : insertContact(q, code)
    \/ Commit(q)

Over == ~Alive /\ UNCHANGED vars

Next ==
    \/ Connect \/ Listens \/ OpenFails \/ runDhtNode
    \/ \E q \in Requests :
          \/ Take(q)
          \/ WaitedTooLong(q) \/ Registers(q) \/ Fails(q) \/ stopAfterCriticalError(q)
    \/ Signal \/ StopBackend \/ StopNode \/ CloseBackend \/ AllSettled \/ ForcedExit
    \/ Over

\* The event loop runs, a timer fires and a database answers.  Nothing is assumed of a stop or a
\* close: the forced exit is there because they may never resolve.
Fairness ==
    /\ WF_vars(AllSettled) /\ WF_vars(ForcedExit)
    /\ \A q \in Requests : WF_vars(WaitedTooLong(q)) /\ WF_vars(Registers(q))

Spec == Init /\ [][Next]_vars /\ Fairness

-----------------------------------------------------------------------------
(* Properties.                                                               *)

\* The gate loses no place and makes none up, whoever times out, fails or is handed one: the free
\* places and the holders are the places; nobody waits beside a free place, and the queue holds
\* exactly the requests that wait, up to its limit.
PlacesAreKept ==
    /\ free + Cardinality(Holders) = Places
    /\ waiting # << >> => free = 0
    /\ Len(waiting) <= QueueLimit
    /\ IsInjective(waiting)
    /\ Range(waiting) = {q \in Requests : job[q].pc = "waiting"}

\* However two registrations interleave: an address and each drawn value belong to one account,
\* a request answered 204 has its address in an account, and no statement runs on a database that
\* has been closed.
RegistrationIsWhole ==
    /\ \A a, b \in accounts : a # b => a.email # b.email /\ a.id # b.id /\ a.code # b.code
    /\ \A q \in Requests : job[q].pc = "204" => Taken(job[q].email)
    /\ Alive /\ Holders # {} => db = "open"

\* Exit code 0 means that every role the shutdown stopped was stopped and closed, none of the
\* requests the backend had taken was dropped, and nothing critical happened.
ExitZeroIsWhole ==
    exit = 0 =>
        /\ ~criticalStop
        /\ \A s \in stopping : life[s] = "closed"
        /\ "backend" \in stopping => db = "closed" /\ InFlight = {}

\* A request that was taken is answered unless the process ends first, and a shutdown that has
\* begun ends, whatever does not stop.
ServesAndEnds ==
    /\ \A q \in Requests : (q \in InFlight) ~> (q \notin InFlight \/ ~Alive)
    /\ (stopping # {}) ~> ~Alive
=============================================================================
