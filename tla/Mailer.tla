------------------------------- MODULE Mailer -------------------------------
(***************************************************************************)
(* The mail queue and its workers (service-core/src/email/mailer.c).       *)
(*                                                                         *)
(* Every critical section of mailer->lock is one step.  Clocks are left    *)
(* out: how long a worker has been busy or idle is a choice where the code *)
(* compares it, and retries become due in the order they were put back.    *)
(* The waits on `work' end after a tick at the latest, so signals are left *)
(* out as well.                                                            *)
(***************************************************************************)
EXTENDS Naturals, Sequences, Functions, FiniteSets

CONSTANTS
    Mails,          \* what callers hand over, each once
    QueueMax,       \* queue_max: of the queue, of the retry ring and of the arena pool
    WorkerMax,      \* worker_max
    Modes,          \* the values of config->workers: 0 is flush mode
    SpawnBacklog,   \* spawn_backlog
    NONE

ASSUME MailerAssumption ==
    /\ QueueMax \in Nat \ {0} /\ WorkerMax \in Nat \ {0}
    /\ Modes \subseteq 0..WorkerMax /\ SpawnBacklog \in Nat \ {0}
    /\ IsFiniteSet(Mails) /\ NONE \notin Mails

Slots == 0..(WorkerMax - 1)
Flusher == WorkerMax                \* the caller of sc_mail_flush
Senders == Slots \union {Flusher}

VARIABLES
    started,        \* config->workers: how many start at once
    sessions,       \* sc_mail_session_open never answers NULL
    where,          \* where each mail is
    tries,          \* the attempts made for it
    queue, retry,   \* the two rings
    due,            \* how many retries, from the head, may be tried now
    out,            \* arenas out of the pool
    state,          \* worker->state: free, running, retired
    at,             \* where the thread of the slot is
    holds,          \* the mail it is sending
    busy,           \* busy_since_ms is set
    live,           \* worker_live
    stats,          \* queued, sent, retried, failed
    end,            \* sc_mailer_destroy: no, stopping, freed
    joins,          \* the workers it collected for joining
    counted         \* what the warning of sc_mailer_destroy says

ringVars == <<queue, retry, due>>
workerVars == <<state, at, busy, live>>
endVars == <<started, sessions, end, joins, counted>>
vars == <<where, tries, ringVars, out, workerVars, holds, stats, endVars>>

Places == {"new", "rendering", "queued", "sending", "retry", "sent", "failed", "refused", "full",
           "dropped"}

TypeOK ==
    /\ where \in [Mails -> Places] /\ tries \in [Mails -> 0..2]
    /\ queue \in Seq(Mails) /\ Len(queue) <= QueueMax
    /\ retry \in Seq(Mails) /\ Len(retry) <= QueueMax
    /\ due \in 0..Len(retry) /\ out \in 0..QueueMax
    /\ state \in [Slots -> {"free", "running", "retired"}]
    /\ at \in [Senders -> {"none", "starting", "loop", "waiting", "sending", "leaving", "gone"}]
    /\ holds \in [Senders -> Mails \union {NONE}]
    /\ busy \in [Slots -> BOOLEAN] /\ live \in 0..WorkerMax
    /\ stats \in [{"queued", "sent", "retried", "failed"} -> 0..Cardinality(Mails)]
    /\ end \in {"no", "stopping", "freed"} /\ counted \in 0..Cardinality(Mails)
    /\ joins \subseteq Slots /\ started \in Modes /\ sessions \in BOOLEAN

\* sc_mailer_create: the first workers are started, the rest of the slots are free.
Init ==
    /\ started \in Modes /\ sessions \in BOOLEAN
    /\ where = [m \in Mails |-> "new"] /\ tries = [m \in Mails |-> 0]
    /\ queue = <<>> /\ retry = <<>> /\ due = 0 /\ out = 0
    /\ state = [w \in Slots |-> IF w < started THEN "running" ELSE "free"]
    /\ at = [w \in Senders |-> IF w < started THEN "starting" ELSE "none"]
    /\ holds = [w \in Senders |-> NONE]
    /\ busy = [w \in Slots |-> FALSE]
    /\ live = started
    /\ stats = [k \in {"queued", "sent", "retried", "failed"} |-> 0]
    /\ end = "no" /\ joins = {} /\ counted = 0

Stopping == end # "no"
Goes(m, place) == where' = [where EXCEPT ![m] = place]
Counts(k) == stats' = [stats EXCEPT ![k] = @ + 1]
Pending == Len(queue) + Len(retry)

-----------------------------------------------------------------------------
(* Workers come and go: maybe_spawn, worker_start, worker_retire.            *)

\* The first slot without a running worker; its retired thread, which has left its loop and
\* takes no lock any more, is joined.
Vacant == {w \in Slots : state[w] # "running"}

\* Every worker is busy and a backlog waits behind them.
MayStart(waiting, busyNow) ==
    /\ live # 0 /\ live < WorkerMax /\ waiting >= SpawnBacklog
    /\ \A w \in Slots : state[w] = "running" => busyNow[w]

\* maybe_spawn, with places the threads are at once its caller is done.  That the longest busy
\* worker has been busy for long enough, and that a thread can be created, is a choice.
MaybeSpawn(waiting, places, busyNow) ==
    \/ /\ MayStart(waiting, busyNow)
       /\ LET w == CHOOSE v \in Vacant : \A u \in Vacant : v <= u
          IN /\ state' = [state EXCEPT ![w] = "running"]
             /\ at' = [places EXCEPT ![w] = "starting"]
             /\ busy' = [busyNow EXCEPT ![w] = FALSE]
             /\ live' = live + 1
    \/ /\ at' = places /\ busy' = busyNow
       /\ UNCHANGED <<state, live>>

Retires(w) ==
    /\ state' = [state EXCEPT ![w] = "retired"]
    /\ busy' = [busy EXCEPT ![w] = FALSE]
    /\ live' = live - 1
    /\ at' = [at EXCEPT ![w] = "leaving"]

-----------------------------------------------------------------------------
(* Handing a mail over: the two halves of sc_mail_enqueue.                   *)

Full == Len(queue) >= QueueMax \/ out >= QueueMax

\* Mutant: the stop flag is looked at once.
ClosedUnchecked == FALSE

\* The second look at the stop flag, after the rendering.
Closed == Stopping

Enqueue(m) ==
    /\ where[m] = "new" /\ end # "freed"
    /\ IF Stopping THEN Goes(m, "refused") /\ UNCHANGED out
       ELSE IF Full THEN Goes(m, "full") /\ UNCHANGED out
       ELSE Goes(m, "rendering") /\ out' = out + 1
    /\ UNCHANGED <<tries, ringVars, workerVars, holds, stats, endVars>>

Refuses(m) ==
    /\ out' = out - 1
    /\ Goes(m, "refused")
    /\ UNCHANGED <<tries, ringVars, workerVars, holds, stats, endVars>>

Push(m) ==
    /\ where[m] = "rendering" /\ end # "freed"
    /\ ~Closed /\ Len(queue) < QueueMax
    /\ queue' = Append(queue, m)
    /\ Goes(m, "queued") /\ Counts("queued")
    /\ MaybeSpawn(Pending + 1, at, busy)
    /\ UNCHANGED <<tries, retry, due, out, holds, endVars>>

\* The message does not fit, or the mailer stops.
GivesUp(m) == where[m] = "rendering" /\ end # "freed" /\ Refuses(m)

-----------------------------------------------------------------------------
(* Sending: take_due, attempt, finish_entry, worker_main, sc_mail_flush.     *)

\* A due retry before a fresh mail.
NextDue == IF due > 0 THEN Head(retry) ELSE Head(queue)
Something == due > 0 \/ queue # <<>>

\* Mutant: a retry is tried and stays on its ring.
TakesKeeping(w, m) ==
    /\ due' = IF due > 0 THEN due - 1 ELSE due
    /\ queue' = IF due > 0 THEN queue ELSE Tail(queue)
    /\ UNCHANGED retry

Takes(w, m) ==
    IF due > 0 THEN retry' = Tail(retry) /\ due' = due - 1 /\ UNCHANGED queue
    ELSE queue' = Tail(queue) /\ UNCHANGED <<retry, due>>

\* The thread has joined the logger and opened its session, or it has none and retires.
Open(w) ==
    /\ at[w] = "starting"
    /\ \/ at' = [at EXCEPT ![w] = "loop"] /\ UNCHANGED <<state, busy, live>>
       \/ ~sessions /\ Retires(w)
    /\ UNCHANGED <<where, tries, ringVars, out, holds, stats, endVars>>

MayTake == ~Stopping /\ Something

Take(w) ==
    /\ at[w] = "loop" /\ MayTake
    /\ LET m == NextDue IN
          /\ Takes(w, m)
          /\ Goes(m, "sending")
          /\ tries' = [tries EXCEPT ![m] = @ + 1]
          /\ holds' = [holds EXCEPT ![w] = m]
    /\ MaybeSpawn(Pending - 1, [at EXCEPT ![w] = "sending"], [busy EXCEPT ![w] = TRUE])
    /\ UNCHANGED <<out, stats, endVars>>

\* Nothing is due: the worker waits, for a tick at most.
Wait(w) ==
    /\ at[w] = "loop" /\ ~Stopping /\ ~Something
    /\ at' = [at EXCEPT ![w] = "waiting"]
    /\ busy' = [busy EXCEPT ![w] = FALSE]
    /\ UNCHANGED <<where, tries, ringVars, out, state, live, holds, stats, endVars>>

WakeUp(w) ==
    /\ at[w] = "waiting"
    /\ at' = [at EXCEPT ![w] = "loop"]
    /\ UNCHANGED <<where, tries, ringVars, out, state, busy, live, holds, stats, endVars>>

\* Mutant: whoever has nothing to do goes.
MayGoAnyone(w) == TRUE

\* Nothing to do for linger_ms: a worker started on demand goes, unless it is the last.
MayGo(w) == w # 0 /\ live > 1

Linger(w) ==
    /\ at[w] = "loop" /\ ~Stopping /\ ~Something
    /\ MayGo(w)
    /\ Retires(w)
    /\ UNCHANGED <<where, tries, ringVars, out, holds, stats, endVars>>

StopSeen(w) ==
    /\ at[w] = "loop" /\ Stopping
    /\ Retires(w)
    /\ UNCHANGED <<where, tries, ringVars, out, holds, stats, endVars>>

\* The thread closes its session, leaves the logger and ends.
Exit(w) ==
    /\ at[w] = "leaving"
    /\ at' = [at EXCEPT ![w] = "gone"]
    /\ UNCHANGED <<where, tries, ringVars, out, state, busy, live, holds, stats, endVars>>

\* entry->attempts: this was the second attempt.
TriedBefore(m) == tries[m] > 1

\* A mail that is over gives its arena back; a retry keeps it.
Returns(m, ok) == out' = out - 1

\* finish_entry.
Finish(w, ok) ==
    LET m == holds[w] IN
        /\ IF ok THEN Goes(m, "sent") /\ Counts("sent") /\ Returns(m, ok) /\ UNCHANGED retry
           ELSE IF ~TriedBefore(m) /\ Len(retry) < QueueMax
           THEN /\ Goes(m, "retry") /\ Counts("retried")
                /\ retry' = Append(retry, m) /\ UNCHANGED out
           ELSE Goes(m, "failed") /\ Counts("failed") /\ Returns(m, ok) /\ UNCHANGED retry
        /\ holds' = [holds EXCEPT ![w] = NONE]
        /\ UNCHANGED <<tries, queue, due, state, live, busy, endVars>>

\* The attempt is over, whichever way; the worker goes round again.
Sent(w, ok) ==
    /\ at[w] = "sending" /\ w \in Slots
    /\ Finish(w, ok)
    /\ at' = [at EXCEPT ![w] = "loop"]

\* sc_mail_flush, round by round on the caller's thread.
Flush ==
    /\ started = 0 /\ at[Flusher] = "none" /\ ~Stopping /\ Something
    /\ LET m == NextDue IN
          /\ Takes(Flusher, m)
          /\ Goes(m, "sending")
          /\ tries' = [tries EXCEPT ![m] = @ + 1]
          /\ holds' = [holds EXCEPT ![Flusher] = m]
    /\ at' = [at EXCEPT ![Flusher] = "sending"]
    /\ UNCHANGED <<out, state, busy, live, stats, endVars>>

Flushed(ok) ==
    /\ at[Flusher] = "sending"
    /\ Finish(Flusher, ok)
    /\ at' = [at EXCEPT ![Flusher] = "none"]

\* The oldest retry that still waits becomes due.
RetryDue ==
    /\ due < Len(retry) /\ ~Stopping
    /\ due' = due + 1
    /\ UNCHANGED <<where, tries, queue, retry, out, workerVars, holds, stats, endVars>>

-----------------------------------------------------------------------------
(* sc_mailer_destroy.                                                        *)

Joinable == {w \in Slots : state[w] # "free"}

\* The workers are told and collected, and the mails that wait are counted for the warning.
Destroy ==
    /\ end = "no" /\ at[Flusher] = "none"
    /\ end' = "stopping" /\ joins' = Joinable /\ counted' = Pending
    /\ UNCHANGED <<started, sessions, where, tries, ringVars, out, workerVars, holds, stats>>

\* return_arenas empties both rings.
WaitingMails == Range(queue) \union Range(retry)

\* The workers are gone and so are the callers: whoever destroys a mailer has ended the threads
\* that hand mails over, for nothing in sc_mailer_destroy waits for them.
Freed ==
    /\ end = "stopping" /\ \A w \in joins : at[w] = "gone"
    /\ \A m \in Mails : where[m] # "rendering"
    /\ end' = "freed"
    /\ where' = [m \in Mails |-> IF where[m] \in {"queued", "retry"} THEN "dropped" ELSE where[m]]
    /\ out' = out - Cardinality(WaitingMails)
    /\ queue' = <<>> /\ retry' = <<>> /\ due' = 0
    /\ UNCHANGED <<started, sessions, tries, workerVars, holds, stats, joins, counted>>

-----------------------------------------------------------------------------

WorkerSteps(w) == \/ Open(w) \/ Take(w) \/ Wait(w) \/ WakeUp(w) \/ StopSeen(w) \/ Exit(w)
                  \/ Sent(w, TRUE) \/ Sent(w, FALSE)

Next ==
    \/ \E m \in Mails : Enqueue(m) \/ Push(m) \/ GivesUp(m)
    \/ \E w \in Slots : WorkerSteps(w) \/ Linger(w)
    \/ Flush \/ Flushed(TRUE) \/ Flushed(FALSE)
    \/ RetryDue \/ Destroy \/ Freed

Spec == Init /\ [][Next]_vars

\* A worker runs, an attempt ends within its timeout, a caller that renders comes back, and
\* time passes.
FairSpec == /\ Spec
            /\ \A w \in Slots : WF_vars(WorkerSteps(w))
            /\ \A m \in Mails : WF_vars(Push(m) \/ GivesUp(m))
            /\ WF_vars(RetryDue) /\ WF_vars(Freed)

-----------------------------------------------------------------------------
(* Properties.                                                               *)

\* An arena is out for every mail that is somewhere between its enqueue and its end, and for no
\* other, so a mailer that is freed has them all back (the pool of sc_mailer).
WithArena == {m \in Mails : where[m] \in {"rendering", "queued", "sending", "retry"}}
ArenasAreTrue == out = Cardinality(WithArena)

\* A mail that is given up was tried twice, and none is tried three times: the retry ring never
\* refuses, because the arenas of the pool bound all that can be in flight (finish_entry's
\* branch for a full ring is never taken).
GivenUpAfterTwo ==
    \A m \in Mails :
        /\ where[m] = "failed" => tries[m] = 2
        /\ where[m] = "retry" => tries[m] = 1

\* Every mail that was accepted is in one ring, with one sender, or over: never twice and never
\* nowhere, and the counters say so (sc_mail_get_stats).
AcceptedOnce ==
    LET sending == {w \in Senders : holds[w] # NONE} IN
        /\ IsInjective(queue) /\ IsInjective(retry)
        /\ Range(queue) = {m \in Mails : where[m] = "queued"}
        /\ Range(retry) = {m \in Mails : where[m] = "retry"}
        /\ end # "freed" =>
              stats["queued"] = stats["sent"] + stats["failed"] + Pending + Cardinality(sending)

\* No thread outlives the mailer it points at, though workers start workers and callers push
\* while a destroy collects threads to join (sc_mailer_destroy, the second look at the stop
\* flag in sc_mail_enqueue).
NoThreadOutlives == end = "freed" => \A w \in Slots : at[w] \in {"none", "gone"}

\* worker_live is the number of running workers and stays under the ceiling, through spawns and
\* retirements in the same slots (maybe_spawn).
LiveIsTrue == live = Cardinality({w \in Slots : state[w] = "running"}) /\ live <= WorkerMax

\* The workers are known for as long as they run, and joined before what they use is freed
\* (maybe_spawn, sc_mailer_destroy).
WorkersAreTrue == NoThreadOutlives /\ LiveIsTrue

\* Every mail the warning of sc_mailer_destroy counts is dropped, none of them is sent after all:
\* once the flag is up no worker takes another one.  (More may be dropped than were counted: a
\* mail whose first attempt fails after the count goes on the retry ring and is dropped with it.)
CountedAreDropped ==
    end = "freed" => counted <= Cardinality({m \in Mails : where[m] = "dropped"})

\* Mails, their arenas and the counters agree, to the end (the pool, the rings and
\* sc_mail_get_stats).
MailsAreAccounted ==
    TypeOK /\ AcceptedOnce /\ ArenasAreTrue /\ GivenUpAfterTwo /\ CountedAreDropped

\* Where workers run and have their sessions, a mail that was accepted is sent, given up on, or
\* dropped by a destroy: somebody is always there to take it (worker_main, maybe_spawn).
EveryMailEnds ==
    \A m \in Mails :
        sessions /\ started > 0 /\ where[m] = "queued" ~> where[m] \in {"sent", "failed", "dropped"}

\* A destroy comes to its end: every worker sees the flag (sc_mailer_destroy).
DestroyEnds == end = "stopping" ~> end = "freed"

\* Mails and destroys come to an end, whatever the other does meanwhile.
ComesToRest == EveryMailEnds /\ DestroyEnds

=============================================================================
