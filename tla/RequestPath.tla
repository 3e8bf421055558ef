---------------------------- MODULE RequestPath ----------------------------
(***************************************************************************)
(* Answering later: a request that waits for the database is parked in its *)
(* loop's table (service-core/src/http_defer.c), a worker holds the ticket *)
(* and resumes it (db_http.c, http_h2o.c), and the loop answers.  Clients  *)
(* leave at any time, and the server drains its loops when it is told to   *)
(* quit (http_h2o.c, backend.c).                                           *)
(*                                                                         *)
(* Everything but a slot's state word belongs to the loop's thread.  The   *)
(* executor is DbExec: it hands every unit back once, from any thread.     *)
(***************************************************************************)
EXTENDS Naturals, Sequences, Functions, FiniteSets

CONSTANTS
    Loops,
    Requests,       \* memory of requests; used again once the client is gone
    Units,          \* the work requests wait for
    NULL,
    Shapes          \* the servers looked at: which loops run, SC_HTTP_DEFER_MAX,
                    \* TICKET_GEN_MASK, and what may stop a loop: a quit, the bound on its
                    \* drain, an error

ASSUME NullAssumption == NULL \notin Requests \union Units
ASSUME ShapesAssumption ==
    \A s \in Shapes : /\ s.loops \subseteq Loops /\ s.loops # {}
                      /\ s.slots \in Nat \ {0} /\ s.mask \in Nat \ {0}
                      /\ s.stops \subseteq {"quit", "deadline", "error"}

VARIABLES
    shape,      \* the server at hand
    slot,       \* table->slots: phase and generation, req, work
    free,       \* the free list of each table, its head first
    queue,      \* the resume messages sent to each loop
    waits,      \* the unit a request's client is waiting for, NULL when nobody waits
    hook,       \* the ticket in a request's generator
    unit,       \* where a unit stands: none, out, claimed, sent, or never
    ticket,     \* unit->park_token
    stale,      \* tickets that were resumed, in the hands of threads that may resume them again
    lent,       \* the units whose arena is out of a loop's pool
    loop,       \* where each loop's thread stands
    server      \* where backend_run stands

Slots == 1..shape.slots
GenMask == shape.mask
Stops == shape.stops

tableVars == <<slot, free, shape>>
vars == <<shape, slot, free, queue, waits, hook, unit, ticket, stale, lent, loop, server>>

Tickets == [loop : Loops, slot : Slots, gen : 0..GenMask]
MayBe(S) == S \union {NULL}
Entries == [phase : {"free", "armed", "resuming"}, gen : 0..GenMask,
            req : MayBe(Requests), work : MayBe(Units)]
NoTicket == [loop |-> CHOOSE l \in Loops : TRUE, slot |-> 1, gen |-> 0]

TypeOK ==
    /\ shape \in Shapes
    /\ slot \in [Loops -> [Slots -> Entries]]
    /\ free \in [Loops -> Seq(Slots)] /\ queue \in [Loops -> Seq(Slots)]
    /\ waits \in [Requests -> MayBe(Units)]
    /\ hook \in [Requests -> Tickets]
    /\ unit \in [Units -> {"none", "out", "claimed", "sent", "never"}]
    /\ ticket \in [Units -> Tickets]
    /\ stale \subseteq Tickets
    /\ lent \in [Loops -> SUBSET Units]
    /\ loop \in [Loops -> {"serving", "draining", "ended", "failed"}]
    /\ server \in {"running", "quitting", "closing", "destroyed"}

\* sc_defer_table_init: every slot free, generation 0, linked in order.
Init ==
    /\ shape \in Shapes
    /\ slot = [l \in Loops |-> [s \in Slots |->
                  [phase |-> "free", gen |-> 0, req |-> NULL, work |-> NULL]]]
    /\ free = [l \in Loops |-> [s \in Slots |-> s]]
    /\ queue = [l \in Loops |-> <<>>]
    /\ waits = [r \in Requests |-> NULL]
    /\ hook = [r \in Requests |-> NoTicket]
    /\ unit = [u \in Units |-> "none"]
    /\ ticket = [u \in Units |-> NoTicket]
    /\ stale = {}
    /\ lent = [l \in Loops |-> {}]
    /\ loop = [l \in Loops |-> IF l \in shape.loops THEN "serving" ELSE "ended"]
    /\ server = "running"

Turning(l) == loop[l] \in {"serving", "draining"}

-----------------------------------------------------------------------------
(* The loop parks a request: sc_db_submit, park, sc_http_defer, sc_defer_arm. *)

\* Zero is skipped on the wrap, so a ticket is never zero.
NextGen(g) == IF g = GenMask THEN 1 ELSE g + 1

\* The arena moves into the slot with the request, the stop hook is set, and the unit goes to
\* the executor.  Nobody keeps an older ticket for a whole turn of the generations (2^30 uses
\* of one slot in the code).
Defer(l, r, u) ==
    /\ Turning(l) /\ free[l] # <<>>
    /\ waits[r] = NULL /\ unit[u] = "none"
    /\ LET s == Head(free[l])
           t == [loop |-> l, slot |-> s, gen |-> NextGen(slot[l][s].gen)]
       IN /\ slot' = [slot EXCEPT ![l][s] =
                         [phase |-> "armed", gen |-> t.gen, req |-> r, work |-> u]]
          /\ ticket' = [ticket EXCEPT ![u] = t]
          /\ hook' = [q \in Requests |-> IF q = r THEN t
                                        ELSE IF hook[q] = t THEN NoTicket ELSE hook[q]]
          /\ stale' = stale \ {t}
    /\ free' = [free EXCEPT ![l] = Tail(@)]
    /\ lent' = [lent EXCEPT ![l] = @ \union {u}]
    /\ waits' = [waits EXCEPT ![r] = u]
    /\ unit' = [unit EXCEPT ![u] = "out"]
    /\ UNCHANGED <<shape, queue, loop, server>>

-----------------------------------------------------------------------------
(* A worker hands a unit back: finished, sc_http_resume, sc_defer_claim.     *)

\* The one compare and swap: this generation, and armed.
Names(t) == slot[t.loop][t.slot].phase = "armed" /\ slot[t.loop][t.slot].gen = t.gen

Claim(u) ==
    /\ unit[u] = "out"
    /\ IF Names(ticket[u])
       THEN /\ slot' = [slot EXCEPT ![ticket[u].loop][ticket[u].slot].phase = "resuming"]
            /\ unit' = [unit EXCEPT ![u] = "claimed"]
       ELSE /\ unit' = [unit EXCEPT ![u] = "never"]
            /\ UNCHANGED slot
    /\ stale' = stale \union {ticket[u]}
    /\ UNCHANGED <<shape, free, queue, waits, hook, ticket, lent, loop, server>>

\* loop_of: the loop the ticket names.
Home(t) == t.loop

\* The message goes to the loop, whatever has become of it.
Send(u) ==
    /\ unit[u] = "claimed"
    /\ queue' = [queue EXCEPT ![Home(ticket[u])] = Append(@, ticket[u].slot)]
    /\ unit' = [unit EXCEPT ![u] = "sent"]
    /\ UNCHANGED <<shape, slot, free, waits, hook, ticket, stale, lent, loop, server>>

\* A second resume of a ticket.
ResumeAgain(t) ==
    /\ t \in stale /\ server # "destroyed"
    /\ stale' = stale \ {t}
    /\ IF Names(t)
       THEN /\ slot' = [slot EXCEPT ![t.loop][t.slot].phase = "resuming"]
            /\ queue' = [queue EXCEPT ![Home(t)] = Append(@, t.slot)]
       ELSE UNCHANGED <<slot, queue>>
    /\ UNCHANGED <<shape, free, waits, hook, unit, ticket, lent, loop, server>>

-----------------------------------------------------------------------------
(* The loop answers: on_resume_message, deliver, sc_defer_release, resume.   *)

Released(e) == [e EXCEPT !.phase = "free", !.req = NULL, !.work = NULL]

\* Mutant: the slot is given back only when somebody is there to answer.
GivesBackForClients(l, s) ==
    free' = [free EXCEPT ![l] = IF slot[l][s].req = NULL THEN @ ELSE <<s>> \o @]

GivesBack(l, s) == free' = [free EXCEPT ![l] = <<s>> \o @]

\* sc_http_arena_leave.
Returns(l, e) == lent' = [lent EXCEPT ![l] = @ \ {e.work}]

\* Messages are read in the order they came.
Deliver(l) ==
    /\ Turning(l) /\ queue[l] # <<>>
    /\ LET s == Head(queue[l])
           e == slot[l][s]
       IN /\ slot' = [slot EXCEPT ![l][s] = Released(e)]
          /\ queue' = [queue EXCEPT ![l] = Tail(@)]
          /\ GivesBack(l, s)
          /\ waits' = [r \in Requests |-> IF r = e.req THEN NULL ELSE waits[r]]
          /\ unit' = [u \in Units |-> IF u = e.work THEN "none" ELSE unit[u]]
          /\ Returns(l, e)
    /\ UNCHANGED <<shape, hook, ticket, stale, loop, server>>

\* Mutant: the generation is not compared.
ForgetAnyone(t) ==
    slot' = IF slot[t.loop][t.slot].phase = "free" THEN slot
            ELSE [slot EXCEPT ![t.loop][t.slot].req = NULL]

\* sc_defer_forget: the slot stays taken, for the resume that is still to come.
Forget(t) ==
    slot' = IF slot[t.loop][t.slot].phase = "free" \/ slot[t.loop][t.slot].gen # t.gen THEN slot
            ELSE [slot EXCEPT ![t.loop][t.slot].req = NULL]

\* on_defer_stop, while the client is waiting; its request's memory is free from then on.
ClientLeaves(r) ==
    /\ waits[r] # NULL /\ Turning(hook[r].loop)
    /\ Forget(hook[r])
    /\ waits' = [waits EXCEPT ![r] = NULL]
    /\ UNCHANGED <<shape, free, queue, hook, unit, ticket, stale, lent, loop, server>>

\* on_defer_stop, long after the request was answered.
LateStop(r) ==
    /\ waits[r] = NULL /\ hook[r].gen # 0 /\ Turning(hook[r].loop)
    /\ Forget(hook[r])
    /\ hook' = [hook EXCEPT ![r] = NoTicket]
    /\ UNCHANGED <<shape, free, queue, waits, unit, ticket, stale, lent, loop, server>>

-----------------------------------------------------------------------------
(* Stopping: run_loop, drain_loop, sc_http_run, backend_run.                 *)

Quit ==
    /\ "quit" \in Stops /\ server = "running"
    /\ server' = "quitting"
    /\ UNCHANGED <<tableVars, queue, waits, hook, unit, ticket, stale, lent, loop>>

\* Mutant: only the first loop looks at the quit flag.
SeesQuitFirst(l) == server = "quitting" /\ \A k \in Loops : l <= k

\* run_loop's condition: every loop reads the flag.
SeesQuit(l) == server = "quitting"

Drain(l) ==
    /\ SeesQuit(l) /\ loop[l] = "serving"
    /\ loop' = [loop EXCEPT ![l] = "draining"]
    /\ UNCHANGED <<tableVars, queue, waits, hook, unit, ticket, stale, lent, server>>

\* A parked request whose client is there keeps its connection open.
Connected(l) == {r \in Requests : waits[r] # NULL /\ hook[r].loop = l}

\* No connection is left to wait for.
LoopDrained(l) ==
    /\ loop[l] = "draining" /\ Connected(l) = {}
    /\ loop' = [loop EXCEPT ![l] = "ended"]
    /\ UNCHANGED <<tableVars, queue, waits, hook, unit, ticket, stale, lent, server>>

\* SC_ERR_TIMEOUT.
LoopDeadline(l) ==
    /\ "deadline" \in Stops
    /\ loop[l] = "draining"
    /\ loop' = [loop EXCEPT ![l] = "failed"]
    /\ UNCHANGED <<tableVars, queue, waits, hook, unit, ticket, stale, lent, server>>

\* SC_ERR_NETWORK, from either of the two places a loop turns.
LoopFails(l) ==
    /\ "error" \in Stops
    /\ Turning(l)
    /\ loop' = [loop EXCEPT ![l] = "failed"]
    /\ UNCHANGED <<tableVars, queue, waits, hook, unit, ticket, stale, lent, server>>

\* sc_http_run has joined every loop; the executor is closed, and its workers finish.
Close ==
    /\ server \in {"running", "quitting"} /\ \A l \in Loops : ~Turning(l)
    /\ server' = "closing"
    /\ UNCHANGED <<tableVars, queue, waits, hook, unit, ticket, stale, lent, loop>>

Destroy ==
    /\ server = "closing" /\ \A u \in Units : unit[u] \notin {"out", "claimed"}
    /\ server' = "destroyed"
    /\ UNCHANGED <<tableVars, queue, waits, hook, unit, ticket, stale, lent, loop>>

-----------------------------------------------------------------------------

Next ==
    \/ \E l \in Loops, r \in Requests, u \in Units : Defer(l, r, u)
    \/ \E u \in Units : Claim(u) \/ Send(u)
    \/ \E t \in stale : ResumeAgain(t)
    \/ \E l \in Loops : Deliver(l) \/ Drain(l) \/ LoopDrained(l) \/ LoopDeadline(l) \/ LoopFails(l)
    \/ \E r \in Requests : ClientLeaves(r) \/ LateStop(r)
    \/ Quit \/ Close \/ Destroy

Spec == Init /\ [][Next]_vars

\* A worker hands back what it has, a loop that turns reads its messages and its quit flag,
\* a drain has its bound.
Fairness ==
    /\ \A u \in Units : WF_vars(Claim(u) \/ Send(u))
    /\ \A l \in Loops : WF_vars(Deliver(l)) /\ WF_vars(Drain(l) \/ LoopDrained(l) \/ LoopDeadline(l))
    /\ WF_vars(Close \/ Destroy)

FairSpec == Spec /\ Fairness

-----------------------------------------------------------------------------
(* Properties.                                                               *)

\* The free list is exactly the free slots, each once (sc_defer_arm, sc_defer_release).
FreeListTrue ==
    \A l \in Loops :
        /\ Range(free[l]) = {s \in Slots : slot[l][s].phase = "free"}
        /\ IsInjective(free[l])

\* A worker's ticket names the slot that holds its unit until it is claimed, through every
\* reuse of slots and generations, so its resume is never refused (sc_defer_claim, and
\* `finished`, which looks at no answer).
TicketsFindTheirUnit ==
    \A u \in Units :
        /\ unit[u] = "out" => Names(ticket[u]) /\ slot[ticket[u].loop][ticket[u].slot].work = u
        /\ unit[u] # "never"

\* A loop has one message for every slot that is being resumed and none for any other: a slot
\* is delivered once, with its own unit (on_resume_message, one message per slot).
DeliveredOnce ==
    \A l \in Loops :
        /\ IsInjective(queue[l])
        /\ \A s \in Range(queue[l]) :
              /\ slot[l][s].phase = "resuming"
              /\ slot[l][s].work # NULL /\ unit[slot[l][s].work] = "sent"

\* A parked request is answered for its own unit, and one whose client left is not touched:
\* the slot of a unit holds the request waiting for it, or none when nobody waits
\* (sc_defer_forget, called late or for memory that serves another request by now).
AnswersTheRightClient ==
    \A l \in Loops, s \in Slots : slot[l][s].phase # "free" =>
        IF \E r \in Requests : waits[r] = slot[l][s].work
        THEN slot[l][s].req # NULL /\ waits[slot[l][s].req] = slot[l][s].work
        ELSE slot[l][s].req = NULL

\* An arena is out of its loop's pool exactly while a unit of that loop lives in it
\* (sc_http_arena_take in sc_http_defer, sc_http_arena_leave in deliver).
ArenasWithUnits ==
    \A u \in Units, l \in Loops : u \in lent[l] <=> unit[u] # "none" /\ ticket[u].loop = l

\* What a loop lends out it gets back once, slots and arenas, over clients that leave and late
\* second resumes; and a worker's ticket finds its unit (deliver, sc_defer_release).
TableIsTrue == TypeOK /\ FreeListTrue /\ ArenasWithUnits /\ TicketsFindTheirUnit

\* An answer reaches the client that waits for it, once, and nobody who left (deliver,
\* on_defer_stop).
AnswersArriveOnce == DeliveredOnce /\ AnswersTheRightClient

\* Every parked request's unit comes back to its loop, whether the client is still there or
\* not, for as long as the loop turns (sc_http_resume_fn in http.h).
EveryUnitIsResumed ==
    \A u \in Units : unit[u] = "out" ~> unit[u] = "none" \/ ~Turning(ticket[u].loop)

=============================================================================
