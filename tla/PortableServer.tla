--------------------------- MODULE PortableServer ---------------------------
(***************************************************************************)
(* The portable HTTP server, service-core/src/http_fallback.c: one libuv   *)
(* loop that owns every connection's buffer, frames the requests in it,    *)
(* decodes chunked bodies in place, parks a request whose handler defers   *)
(* it, and answers in the order of the requests.                           *)
(*                                                                         *)
(* A symbol stands for bytes that mean one thing: a request's head, one    *)
(* byte of a body, a chunk's size line, a CRLF, a trailer line.  A read    *)
(* brings any number of them.  Clients leave at any time; workers resume a *)
(* parked request from their own threads.  libuv is external: a write, a   *)
(* shutdown and a close finish later, each with its callback.              *)
(***************************************************************************)
EXTENDS Naturals, Sequences, SequencesExt, FiniteSets, TLC

CONSTANTS
    Conns,
    Scripts,    \* what each client may send: sequences of requests
    REQ_BUF, MAX_HEAD, MAX_BODY, DRAIN_MAX,
    DEFER_MAX,  \* SC_HTTP_DEFER_MAX
    NONE

VARIABLES
    conn,       \* struct conn, with what its client still has to send and what it got
    parked,     \* the slots of server->defer
    waking,     \* the slots a worker has claimed and not called uv_async_send for
    async,      \* resume_async is pending
    uv          \* where sc_http_run and sc_http_server_destroy stand

vars == <<conn, parked, waking, async, uv>>

Tickets == 1..DEFER_MAX

-----------------------------------------------------------------------------
(* What a client puts on the wire.                                           *)

Sym(k, r, v) == [k |-> k, r |-> r, v |-> v]
Bytes(r, from, n) == [i \in 1..n |-> Sym("data", r, from + i)]
Total(chunks) == FoldLeft(LAMBDA a, b : a + b, 0, chunks)

Chunk(r, chunks, i) == <<Sym("size", r, chunks[i])>>
                       \o Bytes(r, Total(SubSeq(chunks, 1, i - 1)), chunks[i])
                       \o <<Sym("crlf", r, 0)>>

\* Request r of a script: its head, and its body framed as the head says.
Wire(q, r) ==
    LET head == <<Sym("head", r, 0)>>
        chunks == FlattenSeq([i \in 1..Len(q.body) |-> Chunk(r, q.body, i)])
    IN  CASE q.framing = "length" -> head \o Bytes(r, 0, Total(q.body))
          [] q.framing = "chunked" -> head \o chunks \o <<Sym("size", r, 0), Sym("end", r, 0)>>
          [] q.framing = "trailered" -> head \o chunks \o <<Sym("size", r, 0), Sym("trailer", r, 0),
                                                           Sym("end", r, 0)>>
          [] q.framing = "broken" -> head \o chunks \o <<Sym("crlf", r, 0)>>
          [] q.framing = "endless" -> [i \in 1..MAX_HEAD |-> Sym("part", r, 0)]
          [] OTHER -> head

Stream(script) == FlattenSeq([r \in 1..Len(script) |-> Wire(script[r], r)])

-----------------------------------------------------------------------------
(* A connection.                                                             *)

Parse == [head_len |-> 0, ch_state |-> "size", ch_read |-> 0, ch_remaining |-> 0, body_len |-> 0]

\* on_connection.
Fresh(script) ==
    Parse @@
    [script |-> script, unsent |-> Stream(script), gone |-> FALSE, got |-> <<>>,
     in |-> <<>>, reading |-> "on", deferred |-> FALSE, ticket |-> NONE, wire_len |-> 0,
     writing |-> NONE, close_after_write |-> FALSE, draining |-> "no", drained |-> 0,
     closing |-> FALSE, open_handles |-> 2]

Init ==
    /\ conn \in {[id \in Conns |-> Fresh(f[id])] : f \in {g \in [Conns -> UNION Range(Scripts)] :
                                                      \A id \in Conns : g[id] \in Scripts[id]}}
    /\ parked = [t \in Tickets |-> [phase |-> "free", conn |-> NONE]]
    /\ waking = {} /\ async = FALSE
    /\ uv = "running"

Freed(c) == c.open_handles = 0
Head1(c) == c.script[c.in[1].r]

\* respond: reading stops until the answer is out.
respond(c, status, body, keep_alive) ==
    [c EXCEPT !.writing = [r |-> c.in[1].r, status |-> status, body |-> body],
              !.close_after_write = @ \/ ~keep_alive,
              !.reading = "off"]

\* An error ends the connection: the framing is no longer trustworthy.
fail(c, status) == respond(c, status, <<>>, FALSE)

\* Mutant: the state of the chunked body before is kept.
consumeKeepingTheState(c, n) ==
    [c EXCEPT !.in = SubSeq(@, n + 1, Len(@)), !.head_len = 0, !.body_len = 0, !.ch_read = 0]

\* consume: drop a request from the front of the buffer and reset the parse.
consume(c, n) == Parse @@ [c EXCEPT !.in = SubSeq(@, n + 1, Len(@))]

\* decode_chunked: as much of the body as has arrived, over its own wire form.
RECURSIVE decode_chunked(_)
decode_chunked(c) ==
    LET avail == Len(c.in) - c.ch_read
        sym == c.in[c.ch_read + 1]
        Verdict(v) == [verdict |-> v, c |-> c]
        Step(d) == decode_chunked(d)
    IN  IF c.ch_state = "done" THEN Verdict("done")
        ELSE IF avail = 0 THEN Verdict("more")
        ELSE CASE c.ch_state = "size" ->
                    IF sym.k # "size" THEN Verdict("bad")
                    ELSE IF sym.v > MAX_BODY \/ c.body_len + sym.v > MAX_BODY
                    THEN Verdict("too large")
                    ELSE Step([c EXCEPT !.ch_read = @ + 1, !.ch_remaining = sym.v,
                                        !.ch_state = IF sym.v = 0 THEN "trailer" ELSE "data"])
               [] c.ch_state = "data" ->
                    LET n == IF avail < c.ch_remaining THEN avail ELSE c.ch_remaining
                        at == c.head_len + c.body_len
                        d == [c EXCEPT !.in = [i \in DOMAIN @ |->
                                                 IF i \in (at + 1)..(at + n)
                                                 THEN @[i - at + c.ch_read] ELSE @[i]],
                                       !.body_len = @ + n, !.ch_read = @ + n,
                                       !.ch_remaining = @ - n]
                    IN  IF d.ch_remaining # 0 THEN [verdict |-> "more", c |-> d]
                        ELSE Step([d EXCEPT !.ch_state = "crlf"])
               [] c.ch_state = "crlf" ->
                    IF sym.k # "crlf" THEN Verdict("bad")
                    ELSE Step([c EXCEPT !.ch_read = @ + 1, !.ch_state = "size"])
               [] c.ch_state = "trailer" ->
                    Step([c EXCEPT !.ch_read = @ + 1,
                                   !.ch_state = IF sym.k = "end" THEN "done" ELSE "trailer"])

\* The body a handler sees.
Body(c, n) == [i \in 1..n |-> c.in[c.head_len + i].v]

FreeTickets(slots) == {t \in Tickets : slots[t].phase = "free"}

\* dispatch: the handler answers, or defers; no slot free is a 503.
dispatch(id, c, slots, wire_len, body_len) ==
    LET q == Head1(c)
        t == CHOOSE x \in FreeTickets(slots) : \A y \in FreeTickets(slots) : x <= y
        Answered(status, body) ==
            [c |-> consume(respond(c, status, body, q.keep_alive), wire_len), slots |-> slots]
    IN  IF ~q.defers THEN Answered(200, Body(c, body_len))
        ELSE IF FreeTickets(slots) = {} THEN Answered(503, <<>>)
        ELSE [c |-> [c EXCEPT !.deferred = TRUE, !.ticket = t, !.wire_len = wire_len,
                              !.body_len = body_len],
              slots |-> [slots EXCEPT ![t] = [phase |-> "armed", conn |-> id]]]

\* process goes on: nothing on its way out, nothing parked.
Ready(c) == c.writing = NONE /\ ~c.close_after_write /\ ~c.deferred /\ c.in # <<>>

\* process: at most one request, since each ends in a return, a park or a write.
process(id, c, slots) ==
    LET As(d) == [c |-> d, slots |-> slots]
        head == [c EXCEPT !.head_len = 1, !.ch_read = IF c.head_len = 0 THEN 1 ELSE @]
        q == Head1(c)
    IN  IF ~Ready(c) THEN As(c)
        ELSE CASE q.framing = "endless" -> As(IF Len(c.in) >= MAX_HEAD THEN fail(c, 431) ELSE c)
               [] q.framing = "malformed" -> As(fail(c, 400))
               [] q.framing = "both" -> As(fail(c, 400))
               [] q.framing = "oversized" -> As(fail(c, 413))
               [] q.framing = "other" -> As(fail(c, 501))
               [] q.framing = "length" ->
                    IF Len(c.in) - 1 < Total(q.body) THEN As(head)
                    ELSE dispatch(id, head, slots, 1 + Total(q.body), Total(q.body))
               [] q.framing \in {"chunked", "trailered", "broken"} ->
                    LET d == decode_chunked(head)
                    IN  CASE d.verdict = "more" -> As(d.c)
                          [] d.verdict = "bad" -> As(fail(d.c, 400))
                          [] d.verdict = "too large" -> As(fail(d.c, 413))
                          [] d.verdict = "done" ->
                               dispatch(id, d.c, slots, d.c.ch_read, d.c.body_len)

\* sc_defer_forget: the slot stays taken, for the resume that is still to come.
forget(slots, c) == IF c.deferred THEN [slots EXCEPT ![c.ticket].conn = NONE] ELSE slots

\* teardown: forget the parked request, stop the timer, close both handles.
teardown(id, c, slots) ==
    /\ conn' = [conn EXCEPT ![id] = IF c.closing THEN c
                                    ELSE [c EXCEPT !.closing = TRUE, !.deferred = FALSE,
                                                   !.reading = "off"]]
    /\ parked' = IF c.closing THEN slots ELSE forget(slots, c)

Becomes(id, result) == conn' = [conn EXCEPT ![id] = result.c] /\ parked' = result.slots

-----------------------------------------------------------------------------
(* What the loop is called back for.                                         *)

Turns(id) == uv \in {"running", "quitting"} /\ ~conn[id].closing

\* on_alloc, on_read: as much as is there and as fits.
on_read(id, n) ==
    LET c == conn[id]
    IN  /\ Turns(id) /\ c.reading = "on" /\ n <= Len(c.unsent) /\ n <= REQ_BUF - Len(c.in)
        /\ Becomes(id, process(id, [c EXCEPT !.in = @ \o SubSeq(c.unsent, 1, n),
                                            !.unsent = SubSeq(@, n + 1, Len(@))], parked))
        /\ UNCHANGED <<waking, async, uv>>

\* No room is left: libuv answers an empty buffer with an error, and on_read takes it for the end.
on_read_nobufs(id) ==
    /\ Turns(id) /\ conn[id].reading = "on" /\ conn[id].unsent # <<>>
    /\ Len(conn[id].in) = REQ_BUF
    /\ teardown(id, conn[id], parked)
    /\ UNCHANGED <<waking, async, uv>>

\* The client closes; what it had not sent is never sent.
ClientLeaves(id) ==
    /\ uv # "destroyed" /\ ~conn[id].gone /\ ~conn[id].closing
    /\ conn' = [conn EXCEPT ![id].gone = TRUE, ![id].unsent = <<>>]
    /\ UNCHANGED <<parked, waking, async, uv>>

\* on_read and on_read_discard with n < 0.
on_read_eof(id) ==
    /\ Turns(id) /\ conn[id].gone /\ conn[id].reading # "off"
    /\ teardown(id, conn[id], parked)
    /\ UNCHANGED <<waking, async, uv>>

\* on_read_discard: what still arrives after the last answer, up to a budget.
on_read_discard(id) ==
    LET c == [conn[id] EXCEPT !.drained = @ + 1, !.unsent = Tail(@)]
    IN  /\ Turns(id) /\ conn[id].reading = "discard" /\ conn[id].unsent # <<>>
        /\ IF c.drained > DRAIN_MAX THEN teardown(id, c, parked)
           ELSE conn' = [conn EXCEPT ![id] = c] /\ UNCHANGED parked
        /\ UNCHANGED <<waking, async, uv>>

\* on_written: drain after the last answer; otherwise process what is buffered, then read on.
on_written(id) ==
    LET c == [conn[id] EXCEPT !.writing = NONE, !.got = Append(@, conn[id].writing)]
        next == process(id, c, parked)
    IN  /\ Turns(id) /\ conn[id].writing # NONE /\ ~conn[id].gone
        /\ IF c.close_after_write
           THEN /\ conn' = [conn EXCEPT ![id] = [c EXCEPT !.draining = "shutdown"]]
                /\ UNCHANGED parked
           ELSE Becomes(id, [next EXCEPT !.c.reading =
                                IF next.c.writing = NONE THEN "on" ELSE "off"])
        /\ UNCHANGED <<waking, async, uv>>

\* on_written and on_shutdown with a status below zero.
on_write_failed(id) ==
    /\ Turns(id) /\ conn[id].gone
    /\ conn[id].writing # NONE \/ conn[id].draining = "shutdown"
    /\ teardown(id, [conn[id] EXCEPT !.writing = NONE], parked)
    /\ UNCHANGED <<waking, async, uv>>

\* on_shutdown: the FIN is out; listen on for a while.
on_shutdown(id) ==
    /\ Turns(id) /\ conn[id].draining = "shutdown"
    /\ conn' = [conn EXCEPT ![id].draining = "timer", ![id].reading = "discard"]
    /\ UNCHANGED <<parked, waking, async, uv>>

on_drain_timeout(id) ==
    /\ Turns(id) /\ conn[id].draining = "timer"
    /\ teardown(id, conn[id], parked)
    /\ UNCHANGED <<waking, async, uv>>

\* on_handle_closed: the memory goes with the second of the two.
on_handle_closed(id) ==
    /\ uv \in {"running", "quitting"} /\ conn[id].closing /\ ~Freed(conn[id])
    /\ conn' = [conn EXCEPT ![id].open_handles = @ - 1]
    /\ UNCHANGED <<parked, waking, async, uv>>

-----------------------------------------------------------------------------
(* Answering later.                                                          *)

\* sc_http_resume on a worker's thread: claim the slot ...
sc_defer_claim(t) ==
    /\ uv # "destroyed" /\ parked[t].phase = "armed"
    /\ parked' = [parked EXCEPT ![t].phase = "resuming"]
    /\ waking' = waking \cup {t}
    /\ UNCHANGED <<conn, async, uv>>

\* ... then wake the loop; wakes that the loop has not seen fall together.
uv_async_send(t) ==
    /\ t \in waking
    /\ waking' = waking \ {t} /\ async' = TRUE
    /\ UNCHANGED <<conn, parked, uv>>

\* deliver, for a request whose client is there: its own answer, and its bytes are consumed.
deliver(c) ==
    consume(respond([c EXCEPT !.deferred = FALSE, !.ticket = NONE], 200, Body(c, c.body_len),
                    Head1(c).keep_alive), c.wire_len)

\* One wake delivers all that sc_defer_next_resuming finds.
on_resume_async ==
    LET due == {t \in Tickets : parked[t].phase = "resuming"}
    IN  /\ uv \in {"running", "quitting"} /\ async
        /\ async' = FALSE
        /\ parked' = [t \in Tickets |-> IF t \in due THEN [phase |-> "free", conn |-> NONE]
                                        ELSE parked[t]]
        /\ conn' = [id \in Conns |-> IF \E t \in due : parked[t].conn = id
                                     THEN deliver(conn[id]) ELSE conn[id]]
        /\ UNCHANGED <<waking, uv>>

-----------------------------------------------------------------------------
(* sc_http_run, sc_http_server_destroy.                                      *)

Quit == uv = "running" /\ uv' = "quitting" /\ UNCHANGED <<conn, parked, waking, async>>

\* The next tick sees the flag and stops the loop, whatever is still open.
on_quit_tick == uv = "quitting" /\ uv' = "stopped" /\ UNCHANGED <<conn, parked, waking, async>>

\* backend_run closes the executor first, which waits for its workers.
sc_http_server_destroy ==
    /\ uv = "stopped" /\ waking = {} /\ \A t \in Tickets : parked[t].phase # "armed"
    /\ uv' = "destroyed" /\ UNCHANGED <<conn, parked, waking, async>>

-----------------------------------------------------------------------------

Reads(id) == \E n \in 1..REQ_BUF : on_read(id, n)

\* What libuv calls back for without the client's help.
CallsBack(id) ==
    on_read_eof(id) \/ on_write_failed(id) \/ on_shutdown(id) \/ on_drain_timeout(id)
    \/ on_handle_closed(id)

Next ==
    \/ \E id \in Conns : Reads(id) \/ on_read_nobufs(id) \/ on_read_discard(id) \/ on_written(id)
                         \/ CallsBack(id) \/ ClientLeaves(id)
    \/ \E t \in Tickets : sc_defer_claim(t) \/ uv_async_send(t)
    \/ on_resume_async \/ Quit \/ on_quit_tick \/ sc_http_server_destroy

Spec == Init /\ [][Next]_vars

-----------------------------------------------------------------------------
(* Properties.                                                               *)

\* What a client is owed for request r of its script.
Owed(script, r, answer) ==
    /\ answer.r = r
    /\ answer.status = 200 => answer.body = [i \in 1..Total(script[r].body) |-> i]

\* The answers a client gets are those of its requests, in their order and with their own bodies,
\* however the bytes arrived, whatever was parked between them and whatever a chunked body was
\* decoded over (process, decode_chunked, consume, deliver).
AnswersInOrder ==
    \A id \in Conns :
        LET c == conn[id]
            all == IF c.writing = NONE THEN c.got ELSE Append(c.got, c.writing)
        IN  \A i \in 1..Len(all) : Owed(c.script, i, all[i])

\* A slot that names a connection names one that waits on it, and a connection that waits has its
\* slot: a resume never reaches memory that is being freed (teardown, sc_defer_forget, deliver).
ParkedIsTrue ==
    /\ \A t \in Tickets : parked[t].conn # NONE =>
          LET c == conn[parked[t].conn]
          IN  c.deferred /\ c.ticket = t /\ ~c.closing /\ c.in # <<>>
    /\ \A id \in Conns : conn[id].deferred => parked[conn[id].ticket].conn = id
    /\ \A t \in Tickets : parked[t].phase = "resuming" =>
          t \in waking \/ async \/ uv \in {"stopped", "destroyed"}

\* What the portable server parks and answers stays with its connection and its request.
PortableIsTrue == AnswersInOrder /\ ParkedIsTrue

\* A parked request is answered or its connection is gone, and a connection that drains is freed,
\* for as long as the loop turns (on_resume_async, on_shutdown, on_drain_timeout).
PortableGoesOn ==
    \A id \in Conns : conn[id].deferred \/ conn[id].draining # "no" ~>
        \/ uv # "running"
        \/ ~conn[id].deferred /\ (conn[id].draining = "no" \/ Freed(conn[id]))
=============================================================================
