--------------------------- MODULE ServerProcess ---------------------------
(***************************************************************************)
(* One process of the fast path: src/main.c starts a thread per role and   *)
(* owns nothing but the quit flag; a role that fails takes the others      *)
(* down.  The dht-node role (dht-node/src/dht_node_server.c) owns a node   *)
(* that threads of the backend role read through the registry of           *)
(* service-core/src/peer_network.c, while either of the two may be on its  *)
(* way down.                                                               *)
(*                                                                         *)
(* The state begins where sc_runtime_install_signal_handlers has run and   *)
(* no command was named.  libp2p is external: it starts or does not, hands *)
(* out events, and may stop answering.                                     *)
(***************************************************************************)
EXTENDS Naturals, FiniteSets

CONSTANTS
    Selections,         \* the sets of roles a command line may name
    Requests,           \* GET /peer/bootstrap, each on a loop of the backend
    MaxAddresses,       \* DHT_SELF_ADDRESSES_MAX
    MaxJoins,           \* how often the node asks its bootstrap community in a behaviour
    NONE

Roles == {"backend", "federation", "dht"}

\* The order of kRoles, in which the threads are started.
Before == [backend |-> {}, federation |-> {"backend"}, dht |-> {"backend", "federation"}]

\* A command line names roles, and NONE is no request, no status and no line of run_role.
Setting ==
    /\ Selections \subseteq SUBSET Roles
    /\ NONE \notin Requests
    /\ NONE \notin {"ok", "failed", "timeout", "startup.server.stopped"}

VARIABLES
    selected,   \* the roles of the command line
    main,       \* where the main thread is
    role,       \* where each role's thread is
    status,     \* what each role returned
    said,       \* the last line run_role writes about it
    quit, signal, critical,
    code,       \* exit_code so far, then the exit code
    logger,     \* whether sc_log_shutdown has not run
    fn,         \* what is registered: "node" or NONE
    mutex,      \* who holds the registry's mutex
    node,       \* the libp2p node: "none", "up", "down"
    self,       \* dht_self: "none", "alive", "destroyed"
    addresses,  \* how many addresses it lists
    joins,
    req         \* where each request is

vars == <<selected, main, role, status, said, quit, signal, critical, code, logger, fn, mutex,
          node, self, addresses, joins, req>>

runtime == <<quit, signal, critical>>
peers == <<fn, mutex, node, self, addresses, joins>>

Init ==
    /\ selected \in Selections
    /\ main = "create"
    /\ role = [r \in Roles |-> "none"]
    /\ status = [r \in Roles |-> NONE]
    /\ said = [r \in Roles |-> NONE]
    /\ quit = FALSE /\ signal = NONE /\ critical = FALSE
    /\ code = 0
    /\ logger = TRUE
    /\ fn = NONE /\ mutex = NONE
    /\ node = "none" /\ self = "none" /\ addresses = 0 /\ joins = 0
    /\ req = [q \in Requests |-> "idle"]

-----------------------------------------------------------------------------
(* service-core/src/runtime.c                                                *)

\* on_signal: the first signal is kept, the flag raised.
on_signal(s) ==
    /\ signal' = IF signal = NONE THEN s ELSE signal
    /\ quit' = TRUE

Signal ==
    /\ main # "exited"
    /\ signal = NONE /\ on_signal("SIGINT")
    /\ UNCHANGED <<selected, main, role, status, said, critical, code, logger, peers, req>>

\* sc_runtime_stop_critically, by a database worker of the backend that found its connection
\* stuck: the flag, then a SIGTERM to this process.
StopCritically ==
    /\ role["backend"] \in {"serve", "drain"} /\ ~critical
    /\ critical' = TRUE
    /\ on_signal("SIGTERM")
    /\ UNCHANGED <<selected, main, role, status, said, code, logger, peers, req>>

-----------------------------------------------------------------------------
(* src/main.c                                                                *)

\* A thread for the next role in the registry's order; one that cannot be started ends it all.
CreateThread(r) ==
    /\ main = "create" /\ r \in selected /\ role[r] = "none"
    /\ \A b \in Before[r] \cap selected : role[b] # "none"
    /\ \/ /\ role' = [role EXCEPT ![r] = "begin"]
          /\ UNCHANGED <<quit, code>>
       \/ /\ role' = [role EXCEPT ![r] = "never"]
          /\ quit' = TRUE
          /\ code' = 1
    /\ UNCHANGED <<selected, main, status, said, signal, critical, logger, peers, req>>

AllCreated ==
    /\ main = "create" /\ \A r \in selected : role[r] # "none"
    /\ main' = "wait"
    /\ UNCHANGED <<selected, role, status, said, runtime, code, logger, peers, req>>

Wait ==
    /\ main = "wait" /\ quit
    /\ main' = "join"
    /\ UNCHANGED <<selected, role, status, said, runtime, code, logger, peers, req>>

Joined == \A r \in selected : role[r] \in {"left", "never"}

\* After the joins: a role that did not return SC_OK, or a critical stop.
Code == IF critical \/ \E r \in selected : status[r] \notin {"ok", NONE} THEN 1 ELSE code

Exit ==
    /\ main = "join" /\ Joined
    /\ code' = Code
    /\ logger' = FALSE
    /\ main' = "exited"
    /\ UNCHANGED <<selected, role, status, said, runtime, peers, req>>

\* run_role: the role returns, its line is written, the thread leaves the logger.
Returns(r, s) ==
    /\ role' = [role EXCEPT ![r] = "returned"]
    /\ status' = [status EXCEPT ![r] = s]

Line(r) ==
    CASE status[r] = "timeout" /\ signal # NONE -> "startup.shutdown.failed"
      [] status[r] = "ok" -> IF signal # NONE THEN "startup.server.stopped" ELSE NONE
      [] OTHER -> "role.failed"

run_role(r) ==
    /\ role[r] = "returned"
    /\ said' = [said EXCEPT ![r] = Line(r)]
    /\ quit' = (quit \/ Line(r) = "role.failed")
    /\ role' = [role EXCEPT ![r] = "left"]
    /\ UNCHANGED <<selected, main, status, signal, critical, code, logger, peers, req>>

-----------------------------------------------------------------------------
(* The two servers.  backend_run opens its database before it listens;       *)
(* RequestPath and Installation say how.                                     *)

Servers == {"backend", "federation"}

\* backend_run, federation_run up to sc_http_listen.
Listen(r) ==
    /\ r \in Servers /\ role[r] = "begin"
    /\ \/ Returns(r, "failed")
       \/ /\ role' = [role EXCEPT ![r] = "serve"]
          /\ UNCHANGED status
    /\ UNCHANGED <<selected, main, said, runtime, code, logger, peers, req>>

\* sc_http_run notices the flag: nothing new is taken, what is in hand is finished.
Drain(r) ==
    /\ r \in Servers /\ role[r] = "serve" /\ quit
    /\ role' = [role EXCEPT ![r] = "drain"]
    /\ UNCHANGED <<selected, main, status, said, runtime, code, logger, peers, req>>

\* The loops end when no handler is on them; connections left over are cut and said to be.
federation_run(r) ==
    /\ r \in Servers /\ role[r] = "drain"
    /\ r = "backend" => \A q \in Requests : req[q] \in {"idle", "answered"}
    /\ \E s \in {"ok", "timeout"} : Returns(r, s)
    /\ UNCHANGED <<selected, main, said, runtime, code, logger, peers, req>>

-----------------------------------------------------------------------------
(* dht_node_server_run                                                       *)

Dht(from) == role["dht"] = from
DhtTo(to) == role' = [role EXCEPT !["dht"] = to]

\* The topic, load_identity and the buffers: nothing is up yet.
dht_prepare ==
    /\ Dht("begin")
    /\ \/ Returns("dht", "failed")
       \/ DhtTo("start") /\ UNCHANGED status
    /\ UNCHANGED <<selected, main, said, runtime, code, logger, peers, req>>

\* lp2p_start and dht_self_init; a node whose self cannot be made is shut down again.
lp2p_start ==
    /\ Dht("start")
    /\ \/ /\ Returns("dht", "failed")
          /\ node' \in {"none", "down"}
          /\ UNCHANGED self
       \/ /\ DhtTo("register") /\ UNCHANGED status
          /\ node' = "up" /\ self' = "alive"
    /\ UNCHANGED <<selected, main, said, runtime, code, logger, fn, mutex, addresses, joins,
                   req>>

\* sc_peer_network_register takes the mutex: it waits for an answer in progress.
sc_peer_network_register(to) ==
    /\ mutex = NONE
    /\ fn' = to
    /\ UNCHANGED <<mutex, node, self, addresses>>

Register ==
    /\ Dht("register")
    /\ sc_peer_network_register("node")
    /\ \E to \in {"join", "poll"} : DhtTo(to)      \* DHT_BOOTSTRAP_URL, or none
    /\ UNCHANGED <<selected, main, status, said, runtime, code, logger, joins, req>>

\* dht_bootstrap_join: the fetch ends by an answer, by its timeout or by the flag; what it
\* takes up goes to the node.
dht_bootstrap_join ==
    /\ Dht("join") /\ node = "up"
    /\ DhtTo("poll")
    /\ joins' = joins + 1
    /\ UNCHANGED <<selected, main, status, said, runtime, code, logger, fn, mutex, node,
                   self, addresses, req>>

\* The interval is over and the node is alone.
Rejoin ==
    /\ Dht("poll") /\ ~quit /\ joins > 0 /\ joins < MaxJoins
    /\ DhtTo("join")
    /\ UNCHANGED <<selected, main, status, said, runtime, code, logger, peers, req>>

\* handle_event: LP2P_EV_LISTENING is listed once, under the mutex; the others change nothing here.
handle_event ==
    /\ Dht("poll") /\ ~quit
    /\ addresses < MaxAddresses
    /\ addresses' = addresses + 1
    /\ UNCHANGED <<selected, main, role, status, said, runtime, code, logger, fn, mutex,
                   node, self, joins, req>>

\* The flag between two polls, or a poll that fails: the same way out.
PollEnds ==
    /\ Dht("poll")
    /\ \/ quit /\ UNCHANGED status
       \/ status' = [status EXCEPT !["dht"] = "failed"]
    /\ DhtTo("unregister")
    /\ UNCHANGED <<selected, main, said, runtime, code, logger, peers, req>>

\* "Before the node goes: clearing waits for an answer the backend is still reading."
Unregister ==
    /\ Dht("unregister")
    /\ sc_peer_network_register(NONE)
    /\ DhtTo("shutdown")
    /\ UNCHANGED <<selected, main, status, said, runtime, code, logger, joins, req>>

lp2p_shutdown ==
    /\ Dht("shutdown")
    /\ node' = "down"
    /\ DhtTo("destroy")
    /\ UNCHANGED <<selected, main, status, said, runtime, code, logger, fn, mutex, self,
                   addresses, joins, req>>

dht_self_destroy ==
    /\ Dht("destroy")
    /\ self' = "destroyed"
    /\ Returns("dht", IF status["dht"] = "failed" THEN "failed" ELSE "ok")
    /\ UNCHANGED <<selected, main, said, runtime, code, logger, fn, mutex, node, addresses,
                   joins, req>>

-----------------------------------------------------------------------------
(* backend_peer_bootstrap with sc_peer_network_bootstrap_answer              *)

ReqTo(q, to) == req' = [req EXCEPT ![q] = to]

\* A request comes in while the loops take any, and finds the mutex free or waits for it.
Ask(q) ==
    /\ req[q] = "idle" /\ role["backend"] = "serve"
    /\ ReqTo(q, "asked")
    /\ UNCHANGED <<selected, main, role, status, said, runtime, code, logger, peers>>

\* Mutant: the mutex is let go before the answer is made.
sc_peer_network_bootstrap_answerUnlocked(q) ==
    /\ req[q] = "asked" /\ mutex = NONE
    /\ ReqTo(q, IF fn = NONE THEN "answered" ELSE "addresses")
    /\ UNCHANGED <<selected, main, role, status, said, runtime, code, logger, peers>>

\* Held for the whole answer; a process without a node answers that it has none.
sc_peer_network_bootstrap_answer(q) ==
    /\ req[q] = "asked" /\ mutex = NONE
    /\ IF fn = NONE THEN ReqTo(q, "answered") /\ UNCHANGED mutex
       ELSE ReqTo(q, "addresses") /\ mutex' = q
    /\ UNCHANGED <<selected, main, role, status, said, runtime, code, logger, fn, node,
                   self, addresses, joins>>

\* dht_bootstrap_answer: the addresses under the mutex of self, and then a sample of the node's
\* peers.
dht_bootstrap_answer(q) ==
    /\ req[q] = "addresses"
    /\ ReqTo(q, "sample")
    /\ UNCHANGED <<selected, main, role, status, said, runtime, code, logger, peers>>

\* Whether it fitted or not, the mutex goes and the client is answered.
backend_peer_bootstrap(q) ==
    /\ req[q] = "sample"
    /\ mutex' = IF mutex = q THEN NONE ELSE mutex
    /\ ReqTo(q, "answered")
    /\ UNCHANGED <<selected, main, role, status, said, runtime, code, logger, fn, node,
                   self, addresses, joins>>

-----------------------------------------------------------------------------
MainStep == AllCreated \/ Wait \/ Exit \/ \E r \in Roles : CreateThread(r)
RoleStep(r) == run_role(r) \/ Listen(r) \/ Drain(r) \/ federation_run(r)
DhtStep == \/ dht_prepare \/ lp2p_start \/ Register \/ dht_bootstrap_join \/ PollEnds
           \/ Unregister \/ lp2p_shutdown \/ dht_self_destroy
Answer(q) == \/ sc_peer_network_bootstrap_answer(q)
             \/ dht_bootstrap_answer(q) \/ backend_peer_bootstrap(q)

\* A process that is over stays over.
Over == main = "exited" /\ UNCHANGED vars

Next ==
    \/ Signal \/ StopCritically \/ MainStep \/ DhtStep \/ Rejoin \/ handle_event \/ Over
    \/ \E r \in Roles : RoleStep(r)
    \/ \E q \in Requests : Ask(q) \/ Answer(q)

\* Threads are scheduled.  A poll returns, at the latest after its tick, and a fetch after its
\* timeout; the requests are finitely many, so a mutex they share is free in the end.
Fairness ==
    /\ WF_vars(MainStep) /\ WF_vars(DhtStep)
    /\ \A r \in Roles : WF_vars(RoleStep(r))
    /\ \A q \in Requests : WF_vars(Answer(q))

Spec == Init /\ [][Next]_vars /\ Fairness

-----------------------------------------------------------------------------
(* Properties.                                                               *)

\* Nobody reads a node that is being shut down or a self that is destroyed: a request that found
\* the registration keeps the node up until it has answered.
NodeOutlivesItsReaders ==
    \A q \in Requests : req[q] \in {"addresses", "sample"} =>
        node = "up" /\ self = "alive"

\* The process ends with every thread it started out of the logger, and with 0 only when every
\* role was started and stopped in good order and nothing critical was found; a role is said to
\* have stopped only if it did.
ExitIsTrue ==
    /\ ~logger => \A r \in Roles : role[r] \in {"none", "never", "left"}
    /\ main = "exited" =>
         /\ (code = 0) <=> (~critical /\ \A r \in selected : status[r] = "ok")
         /\ \A r \in selected : said[r] = "startup.server.stopped" => status[r] = "ok"

\* A signal, a critical stop, a thread that cannot be started or one role that fails: each of them
\* brings the whole process to its end, whatever the others are doing.
ProcessEnds ==
    (quit \/ \E r \in Roles : status[r] = "failed") ~> (main = "exited")
=============================================================================
