--------------------------- MODULE PostgresProbe ---------------------------
(***************************************************************************)
(* Whether a PostgreSQL answers on a port: bk_postgres_probe of            *)
(* fast-servers/backend/src/postgres_probe.c and probePostgres of          *)
(* packages/backend/src/setup/findPostgres.ts.  What the loop reports is a *)
(* sequence of events, in any order the network and the timer make:        *)
(*   "accepted", "refused", "sent", "not sent", "nothing yet" (a read of   *)
(*   no bytes), "S", "N" or "x" (the first byte of a reply), "closed" and  *)
(*   "timeout".                                                            *)
(***************************************************************************)
EXTENDS Sequences, SequencesExt

Asking == [settled |-> FALSE, answer |-> "nothing", connected |-> FALSE]

-----------------------------------------------------------------------------
(* postgres_probe.c                                                          *)

\* The first answer is the one.
settle(p, answer) == IF p.settled THEN p ELSE [p EXCEPT !.settled = TRUE, !.answer = answer]
unanswered(p) == settle(p, IF p.connected THEN "other" ELSE "nothing")

\* The write and the read both start here, and either may fail to.
on_connect(p, event) ==
    IF event = "refused" THEN unanswered(p) ELSE [p EXCEPT !.connected = TRUE]

on_read(p, event) ==
    CASE event = "nothing yet" -> p
      [] event = "closed" -> unanswered(p)
      [] event \in {"S", "N"} -> settle(p, "postgresql")
      [] event = "x" -> settle(p, "other")

on_write(p, event) == IF event = "not sent" THEN unanswered(p) ELSE p

\* Closing the handles delivers a connect that was still under way as a refused one.
bk_postgres_probe(events) ==
    LET Handle(p, e) == CASE e \in {"accepted", "refused"} -> on_connect(p, e)
                          [] e \in {"sent", "not sent"} -> on_write(p, e)
                          [] e = "timeout" -> unanswered(p)
                          [] OTHER -> on_read(p, e)
        cancelled == \A i \in DOMAIN events : events[i] \notin {"accepted", "refused"}
    IN  FoldLeft(Handle, Asking, IF cancelled THEN Append(events, "refused") ELSE events)

-----------------------------------------------------------------------------
(* findPostgres.ts: `data` is heard once, an error is followed by `close`.   *)

probePostgres(events) ==
    LET resolved(i) == CASE events[i] \in {"S", "N"} -> "postgresql"
                         [] events[i] = "x" -> "other"
                         [] OTHER -> IF \E j \in 1 .. i : events[j] = "accepted" THEN "other" ELSE "nothing"
        ending == SelectInSeq(events, LAMBDA e : e \notin {"accepted", "sent", "nothing yet"})
    IN  IF ending = 0 THEN Asking.answer ELSE resolved(ending)

-----------------------------------------------------------------------------
\* However the connection, the reply, an error and the timer race, both probes come to the same
\* answer, and a port is PostgreSQL only if its first byte says so before anything else ended the
\* question (settle of postgres_probe.c, probePostgres); after a timeout there is an answer.
ProbesAlike(events) ==
    LET p == bk_postgres_probe(events)
        before(i) == {events[j] : j \in 1 .. (i - 1)}
    IN  /\ p.answer = probePostgres(events)
        /\ Contains(events, "timeout") => p.settled
        /\ p.answer = "postgresql" =>
               \E i \in DOMAIN events : /\ events[i] \in {"S", "N"}
                                        /\ before(i) \subseteq {"accepted", "sent", "nothing yet"}
=============================================================================
