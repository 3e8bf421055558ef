--------------------------- MODULE MCRequestPath ---------------------------
(* The two servers a build may hold: the h2o server's request path, on two   *)
(* shapes of it, and the portable server.  `carrier` is the one at hand.     *)
EXTENDS RequestPath, TLC

CONSTANTS r1, r2, u1, u2, c1, c2,
    Conns, REQ_BUF, MAX_HEAD, MAX_BODY, DRAIN_MAX, DEFER_MAX, NONE

VARIABLES carrier, conn, parked, waking, async, uv

MCRequests == {r1, r2}
MCUnits == {u1, u2}

\* One loop whose two slots wrap their generations; two loops that stop in every way.
MCShapes ==
    {[loops |-> {1}, slots |-> 2, mask |-> 2, stops |-> {}],
     [loops |-> {1, 2}, slots |-> 1, mask |-> 1, stops |-> {"quit", "deadline", "error"}]}

Request(framing, body, defers, keep_alive) ==
    [framing |-> framing, body |-> body, defers |-> defers, keep_alive |-> keep_alive]

\* Pipelined requests, parked and not, framed in every way; the second client asks once.
Scripts ==
    c1 :> { <<Request("length", <<1>>, TRUE, TRUE), Request("length", <<>>, FALSE, TRUE)>>,
            <<Request("chunked", <<2>>, TRUE, TRUE), Request("trailered", <<1>>, FALSE, FALSE)>>,
            <<Request("length", <<>>, FALSE, TRUE), Request("chunked", <<1, 1>>, FALSE, TRUE)>>,
            <<Request("chunked", <<2, 1>>, FALSE, TRUE)>>, <<Request("broken", <<1>>, FALSE, TRUE)>>,
            <<Request("endless", <<>>, FALSE, TRUE)>>, <<Request("other", <<>>, FALSE, TRUE)>>,
            <<Request("malformed", <<>>, FALSE, TRUE)>>, <<Request("both", <<>>, FALSE, TRUE)>>,
            <<Request("oversized", <<>>, FALSE, TRUE), Request("length", <<1>>, FALSE, TRUE)>> }
    @@ c2 :> { <<Request("length", <<>>, TRUE, FALSE)>> }

Portable == INSTANCE PortableServer

portableVars == <<conn, parked, waking, async, uv>>
allVars == <<carrier, vars, portableVars>>

H2oDoes(A) == carrier = "h2o" /\ A /\ UNCHANGED <<carrier, portableVars>>
PortableDoes(A) == carrier = "portable" /\ A /\ UNCHANGED <<carrier, vars>>

MCInit ==
    /\ carrier \in {"h2o", "portable"}
    /\ Init /\ Portable!Init
    /\ carrier = "h2o" => conn[c1].script[1].framing = "both"
    /\ carrier = "portable" => shape.stops = {}

MCNext == H2oDoes(Next) \/ PortableDoes(Portable!Next)

\* Fairness of RequestPath, and of the portable server: a worker goes on, libuv calls back for
\* what has happened, the timers fire.
MCFairness ==
    /\ \A u \in Units : WF_allVars(H2oDoes(Claim(u) \/ Send(u)))
    /\ \A l \in Loops : /\ WF_allVars(H2oDoes(Deliver(l)))
                       /\ WF_allVars(H2oDoes(Drain(l) \/ LoopDrained(l) \/ LoopDeadline(l)))
    /\ WF_allVars(H2oDoes(Close \/ Destroy))
    /\ \A id \in Conns : WF_allVars(PortableDoes(Portable!CallsBack(id)))
    /\ WF_allVars(PortableDoes(\E t \in 1..DEFER_MAX : Portable!sc_defer_claim(t)
                                                      \/ Portable!uv_async_send(t)))
    /\ WF_allVars(PortableDoes(Portable!on_resume_async))
    /\ WF_allVars(PortableDoes(Portable!on_quit_tick \/ Portable!sc_http_server_destroy))

MCSpec == MCInit /\ [][MCNext]_allVars /\ MCFairness

-----------------------------------------------------------------------------

\* Answers of the portable server: see PortableServer.
PortableIsTrue == Portable!PortableIsTrue

\* Whatever is parked comes back and a server told to quit stops, on either server (deliver and
\* drain_loop of http_h2o.c; on_resume_async, on_shutdown and on_quit_tick of http_fallback.c).
PathEnds ==
    /\ EveryUnitIsResumed /\ Portable!PortableGoesOn
    /\ server = "quitting" \/ uv = "quitting" ~> server = "destroyed" \/ uv = "destroyed"
=============================================================================
