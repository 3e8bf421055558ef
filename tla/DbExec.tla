------------------------------- MODULE DbExec -------------------------------
(***************************************************************************)
(* The database executor, fast-servers/service-core/src/db_exec.c.         *)
(*                                                                         *)
(* Loops submit units to a queue per group; the group's workers take them, *)
(* run them on a connection of their own and hand them back; a sweeper     *)
(* hands back the ones that waited too long; closing stops the sweeper,    *)
(* then the workers, which drain their queues first.                       *)
(*                                                                         *)
(* A critical section of a group's mutex is one action.  What happens      *)
(* between two critical sections of a thread is a step of its own.  How a  *)
(* unit's transaction runs is DbTransaction's subject; here a run is an    *)
(* interval with an outcome.                                               *)
(***************************************************************************)
EXTENDS Integers, Sequences, FiniteSets

CONSTANTS
    Units,          \* sc_db_unit objects: one per request in flight
    Workers,        \* exec_worker
    Loops,          \* the server's loops, which submit
    GroupCount,     \* exec->group_count
    GroupOf,        \* worker->group, from plan_groups
    LoopGroup,      \* exec->loop_group, from plan_groups
    Kind,           \* exec->kind
    Reads,          \* the units whose access is SC_DB_READ
    PerWorker,      \* SC_DB_QUEUE_PER_WORKER
    WaitLimit,      \* SC_DB_QUEUE_WAIT_MS
    MaxTime         \* bound on the clock

Groups == 1..GroupCount
WorkersOf(g) == {w \in Workers : GroupOf[w] = g}

NoUnit == "no unit"

ASSUME CountsAssumption ==
    /\ GroupCount \in Nat \ {0}
    /\ PerWorker \in Nat \ {0}
    /\ WaitLimit \in Nat
    /\ MaxTime \in Nat

ASSUME SetsAssumption ==
    /\ IsFiniteSet(Workers)
    /\ NoUnit \notin Units
    /\ Reads \subseteq Units
    /\ Kind \in {"sqlite", "postgresql"}

\* plan_groups: a group exists because it has a worker, and a loop without one of its own is
\* given the nearest group that has.
ASSUME PlanAssumption ==
    /\ GroupOf \in [Workers -> 1..GroupCount]
    /\ LoopGroup \in [Loops -> 1..GroupCount]
    /\ \A g \in 1..GroupCount : \E w \in Workers : GroupOf[w] = g

\* exec->groups[g].capacity
Capacity(g) == Cardinality(WorkersOf(g)) * PerWorker

VARIABLES
    queue,      \* head, tail and next: the units of each group in order
    count,      \* group->count
    idle,       \* group->idle
    stopping,   \* group->stopping
    wpc,        \* where each worker is
    wunit,      \* the unit it holds
    spc,        \* where the sweeper is
    sgroup,     \* the group it looks at next
    expired,    \* its local list
    sweepStop,  \* exec->sweep_stop
    phase,      \* where sc_db_exec_open, and later close_everything, stands
    conn,       \* each worker's connection, and each loop's reader
    status,     \* unit->status
    queuedAt,   \* unit->queued_ns
    now,        \* uv_hrtime
    \* History, not in the code:
    holder,     \* whose hands a unit is in: "caller", "out" (the executor), "back" (finished)
    worked      \* whether unit->work was called since the unit was submitted

queueVars == <<queue, count, idle, stopping>>
workerVars == <<wpc, wunit>>
sweepVars == <<spc, sgroup, expired, sweepStop>>
unitVars == <<status, queuedAt, holder, worked>>
vars == <<queueVars, workerVars, sweepVars, phase, conn, unitVars, now>>

Statuses == {"ok", "queue_full", "network", "refused"}
WorkerPlaces == {"none", "look", "wait", "woken", "took", "run", "gone"}
SweeperPlaces == {"none", "wait", "scan", "hand", "gone"}
Phases == {"connect", "readers", "threads", "sweeper", "open", "stop_sweeper", "stop_groups",
           "join", "closed"}

Conns == Workers \union Loops

TypeOK ==
    /\ queue \in [Groups -> Seq(Units)]
    /\ count \in [Groups -> Nat]
    /\ idle \in [Groups -> Nat]
    /\ stopping \in [Groups -> BOOLEAN]
    /\ wpc \in [Workers -> WorkerPlaces]
    /\ wunit \in [Workers -> Units \union {NoUnit}]
    /\ spc \in SweeperPlaces
    /\ sgroup \in Groups
    /\ expired \in Seq(Units)
    /\ sweepStop \in BOOLEAN
    /\ phase \in Phases
    /\ conn \in [Conns -> {"none", "open", "closed"}]
    /\ status \in [Units -> Statuses]
    /\ queuedAt \in [Units -> Nat]
    /\ now \in Nat
    /\ holder \in [Units -> {"caller", "out", "back"}]
    /\ worked \in [Units -> BOOLEAN]

Init ==
    /\ queue = [g \in Groups |-> <<>>]
    /\ count = [g \in Groups |-> 0]
    /\ idle = [g \in Groups |-> 0]
    /\ stopping = [g \in Groups |-> FALSE]
    /\ wpc = [w \in Workers |-> "none"]
    /\ wunit = [w \in Workers |-> NoUnit]
    /\ spc = "none"
    /\ sgroup = 1
    /\ expired = <<>>
    /\ sweepStop = FALSE
    /\ phase = "connect"
    /\ conn = [c \in Conns |-> "none"]
    /\ status = [u \in Units |-> "ok"]
    /\ queuedAt = [u \in Units |-> 0]
    /\ now = 0
    /\ holder = [u \in Units |-> "caller"]
    /\ worked = [u \in Units |-> FALSE]

Tick ==
    /\ now < MaxTime
    /\ now' = now + 1
    /\ UNCHANGED <<queueVars, workerVars, sweepVars, phase, conn, unitVars>>

-----------------------------------------------------------------------------
(* sc_db_exec_open: every connection, then every thread.  A step that fails  *)
(* goes to close_everything, which skips what was never started.             *)

OpenConnection ==
    /\ phase = "connect"
    /\ \E w \in Workers :
          /\ conn[w] = "none"
          /\ conn' = [conn EXCEPT ![w] = "open"]
          /\ phase' = IF \A v \in Workers \ {w} : conn[v] = "open"
                      THEN IF Kind = "sqlite" THEN "readers" ELSE "threads"
                      ELSE phase
    /\ UNCHANGED <<queueVars, workerVars, sweepVars, unitVars, now>>

OpenReader ==
    /\ phase = "readers"
    /\ \E l \in Loops :
          /\ conn[l] = "none"
          /\ conn' = [conn EXCEPT ![l] = "open"]
          /\ phase' = IF \A k \in Loops \ {l} : conn[k] = "open" THEN "threads" ELSE phase
    /\ UNCHANGED <<queueVars, workerVars, sweepVars, unitVars, now>>

StartWorker ==
    /\ phase = "threads"
    /\ \E w \in Workers :
          /\ wpc[w] = "none"
          /\ wpc' = [wpc EXCEPT ![w] = "look"]
          /\ phase' = IF \A v \in Workers \ {w} : wpc[v] # "none" THEN "sweeper" ELSE phase
    /\ UNCHANGED <<queueVars, wunit, sweepVars, conn, unitVars, now>>

StartSweeper ==
    /\ phase = "sweeper"
    /\ spc' = "wait"
    /\ phase' = "open"
    /\ UNCHANGED <<queueVars, workerVars, sgroup, expired, sweepStop, conn, unitVars,
                   now>>

OpenFails ==
    /\ phase \in {"connect", "readers", "threads", "sweeper"}
    /\ phase' = "stop_groups"
    /\ UNCHANGED <<queueVars, workerVars, sweepVars, conn, unitVars, now>>

-----------------------------------------------------------------------------
(* sc_db_exec_submit, on a loop's thread.                                    *)

Inline(u) == Kind = "sqlite" /\ u \in Reads

\* A loop submits while the server runs; the loops have stopped before the executor is closed.
MaySubmit(u) == phase = "open" /\ holder[u] = "caller"

\* What run_unit leaves in unit->status, and whether it got as far as the work.
RunOutcomes == {<<"ok", TRUE>>, <<"refused", TRUE>>, <<"refused", FALSE>>}

SubmitInline(u) ==
    /\ MaySubmit(u) /\ Inline(u)
    /\ \E o \in RunOutcomes :
          /\ status' = [status EXCEPT ![u] = o[1]]
          /\ worked' = [worked EXCEPT ![u] = o[2]]
    /\ holder' = [holder EXCEPT ![u] = "back"]
    /\ UNCHANGED <<queueVars, workerVars, sweepVars, phase, conn, queuedAt, now>>

\* Mutant: one unit too many.
FullTooLate(g) == stopping[g] \/ count[g] > Capacity(g)

\* No room for another unit.
Full(g) == stopping[g] \/ count[g] >= Capacity(g)

\* Not taken, and back in the caller's hands on the same stack.
NotTaken(u) ==
    /\ status' = [status EXCEPT ![u] = "ok"]
    /\ worked' = [worked EXCEPT ![u] = FALSE]
    /\ UNCHANGED <<queueVars, workerVars, sweepVars, phase, conn, queuedAt, holder, now>>

SubmitFull(u, l) ==
    /\ MaySubmit(u) /\ ~Inline(u)
    /\ Full(LoopGroup[l])
    /\ NotTaken(u)

\* cfg.park refuses under the lock: the loop's table of parked requests is full.
SubmitParkFails(u, l) ==
    /\ MaySubmit(u) /\ ~Inline(u)
    /\ ~Full(LoopGroup[l])
    /\ NotTaken(u)

\* Mutant: nobody is woken.
SignalNobody(g) == UNCHANGED wpc

\* uv_cond_signal: one sleeping worker of the group, if there is one.
Signal(g) ==
    LET asleep == {w \in WorkersOf(g) : wpc[w] = "wait"}
    IN  IF asleep = {}
        THEN UNCHANGED wpc
        ELSE \E w \in asleep : wpc' = [wpc EXCEPT ![w] = "woken"]

\* Mutant: the newest unit goes to the front.
EnqueueInFront(q, u) == <<u>> \o q

\* At the tail.
Enqueue(q, u) == Append(q, u)

SubmitTaken(u, l) ==
    LET g == LoopGroup[l]
    IN  /\ MaySubmit(u) /\ ~Inline(u)
        /\ ~Full(g)
        /\ now + WaitLimit < MaxTime      \* bound: the clock has room for this unit to expire
        /\ status' = [status EXCEPT ![u] = "ok"]
        /\ worked' = [worked EXCEPT ![u] = FALSE]
        /\ queuedAt' = [queuedAt EXCEPT ![u] = now]
        /\ queue' = [queue EXCEPT ![g] = Enqueue(@, u)]
        /\ count' = [count EXCEPT ![g] = @ + 1]
        /\ holder' = [holder EXCEPT ![u] = "out"]
        /\ IF idle[g] # 0 THEN Signal(g) ELSE UNCHANGED wpc
        /\ UNCHANGED <<idle, stopping, wunit, sweepVars, phase, conn, now>>

\* unit->done on the loop, after `finished` brought the unit back, or at once for a unit that ran
\* in place.  The unit goes with its request's arena; the next request makes a new one.
Answer(u) ==
    /\ holder[u] = "back"
    /\ holder' = [holder EXCEPT ![u] = "caller"]
    /\ status' = [status EXCEPT ![u] = "ok"]
    /\ queuedAt' = [queuedAt EXCEPT ![u] = 0]
    /\ worked' = [worked EXCEPT ![u] = FALSE]
    /\ UNCHANGED <<queueVars, workerVars, sweepVars, phase, conn, now>>

-----------------------------------------------------------------------------
(* worker_main                                                               *)

\* group->idle once a worker that slept has counted itself out again.
IdleWithout(w) == IF wpc[w] = "woken" THEN idle[GroupOf[w]] - 1 ELSE idle[GroupOf[w]]

\* Nothing queued and not stopping: to sleep, or back to sleep after a wake-up for nothing.
WorkerSleep(w) ==
    LET g == GroupOf[w]
    IN  /\ wpc[w] \in {"look", "woken"}
        /\ queue[g] = <<>> /\ ~stopping[g]
        /\ wpc' = [wpc EXCEPT ![w] = "wait"]
        /\ idle' = [idle EXCEPT ![g] = IdleWithout(w) + 1]
        /\ UNCHANGED <<queue, count, stopping, wunit, sweepVars, phase, conn, unitVars, now>>

\* A condition variable may return without a signal.
WorkerWakesByItself(w) ==
    /\ wpc[w] = "wait"
    /\ wpc' = [wpc EXCEPT ![w] = "woken"]
    /\ UNCHANGED <<queueVars, wunit, sweepVars, phase, conn, unitVars, now>>

WorkerTake(w) ==
    LET g == GroupOf[w]
    IN  /\ wpc[w] \in {"look", "woken"}
        /\ queue[g] # <<>>
        /\ wunit' = [wunit EXCEPT ![w] = Head(queue[g])]
        /\ queue' = [queue EXCEPT ![g] = Tail(@)]
        /\ count' = [count EXCEPT ![g] = @ - 1]
        /\ idle' = [idle EXCEPT ![g] = IdleWithout(w)]
        /\ wpc' = [wpc EXCEPT ![w] = "took"]
        /\ UNCHANGED <<stopping, sweepVars, phase, conn, unitVars, now>>

\* Stopping, and nothing left.
WorkerLeave(w) ==
    LET g == GroupOf[w]
    IN  /\ wpc[w] \in {"look", "woken"}
        /\ queue[g] = <<>> /\ stopping[g]
        /\ idle' = [idle EXCEPT ![g] = IdleWithout(w)]
        /\ wpc' = [wpc EXCEPT ![w] = "gone"]
        /\ UNCHANGED <<queue, count, stopping, wunit, sweepVars, phase, conn, unitVars, now>>

WaitedTooLong(u) == now > queuedAt[u] /\ now - queuedAt[u] > WaitLimit

\* cfg.finished: the unit leaves this worker, which looks for the next one.
WorkerFinish(w, s, ran) ==
    LET u == wunit[w]
    IN  /\ status' = [status EXCEPT ![u] = s]
        /\ worked' = [worked EXCEPT ![u] = ran]
        /\ holder' = [holder EXCEPT ![u] = "back"]
        /\ wunit' = [wunit EXCEPT ![w] = NoUnit]
        /\ wpc' = [wpc EXCEPT ![w] = "look"]
        /\ UNCHANGED <<queueVars, sweepVars, phase, conn, queuedAt, now>>

\* run_on_worker up to run_unit: a unit that is too old, or whose connection is gone, is not run.
WorkerRefuse(w) ==
    /\ wpc[w] = "took"
    /\ \/ WaitedTooLong(wunit[w]) /\ WorkerFinish(w, "queue_full", FALSE)
       \/ ~WaitedTooLong(wunit[w]) /\ Kind = "postgresql" /\ WorkerFinish(w, "network", FALSE)

WorkerRun(w) ==
    /\ wpc[w] = "took"
    /\ ~WaitedTooLong(wunit[w])
    /\ wpc' = [wpc EXCEPT ![w] = "run"]
    /\ UNCHANGED <<queueVars, wunit, sweepVars, phase, conn, unitVars, now>>

\* run_unit came back.  It may take for ever: a statement that is not coming back.
WorkerEnd(w) ==
    /\ wpc[w] = "run"
    /\ \E o \in RunOutcomes : WorkerFinish(w, o[1], o[2])

-----------------------------------------------------------------------------
(* sweeper_main                                                              *)

\* Mutant: the sweeper wakes up and goes back to sleep.
SweeperDozes ==
    /\ spc = "wait"
    /\ spc' = IF sweepStop THEN "gone" ELSE "wait"
    /\ UNCHANGED <<queueVars, workerVars, sgroup, expired, sweepStop, phase, conn, unitVars, now>>

\* The timed wait is over: its time was up, it was signalled, or it returned by itself.
SweeperWake ==
    /\ spc = "wait"
    /\ spc' = IF sweepStop THEN "gone" ELSE "scan"
    /\ UNCHANGED <<queueVars, workerVars, sgroup, expired, sweepStop, phase, conn, unitVars, now>>

\* Mutant: the head is not moved on.
UnlinkNothing(q, k) == q

\* The queue without its first k units.
Unlink(q, k) == SubSeq(q, k + 1, Len(q))

\* One group under its lock: the clock is read there, and the expired units come off the front.
SweeperScan ==
    /\ spc = "scan"
    /\ LET q == queue[sgroup]
       IN  \E k \in 0..Len(q) :
             /\ \A i \in 1..k : WaitedTooLong(q[i])
             /\ k < Len(q) => ~WaitedTooLong(q[k + 1])
             /\ expired' = SubSeq(q, 1, k)
             /\ queue' = [queue EXCEPT ![sgroup] = Unlink(q, k)]
             /\ count' = [count EXCEPT ![sgroup] = @ - k]
    /\ spc' = "hand"
    /\ UNCHANGED <<idle, stopping, workerVars, sgroup, sweepStop, phase, conn, unitVars, now>>

\* After the unlock, one by one; `next` is read before the unit is handed over.
SweeperHand ==
    /\ spc = "hand" /\ expired # <<>>
    /\ LET u == Head(expired)
       IN  /\ status' = [status EXCEPT ![u] = "queue_full"]
           /\ holder' = [holder EXCEPT ![u] = "back"]
    /\ expired' = Tail(expired)
    /\ UNCHANGED <<queueVars, workerVars, spc, sgroup, sweepStop, phase, conn, queuedAt,
                   worked, now>>

SweeperNext ==
    /\ spc = "hand" /\ expired = <<>>
    /\ IF sgroup = GroupCount
       THEN spc' = "wait" /\ sgroup' = 1
       ELSE spc' = "scan" /\ sgroup' = sgroup + 1
    /\ UNCHANGED <<queueVars, workerVars, expired, sweepStop, phase, conn, unitVars, now>>

-----------------------------------------------------------------------------
(* close_everything                                                          *)

CloseBegin ==
    /\ phase = "open"
    /\ phase' = "stop_sweeper"
    /\ sweepStop' = TRUE
    /\ UNCHANGED <<queueVars, workerVars, spc, sgroup, expired, conn, unitVars, now>>

CloseSweeperJoined ==
    /\ phase = "stop_sweeper" /\ spc = "gone"
    /\ phase' = "stop_groups"
    /\ UNCHANGED <<queueVars, workerVars, sweepVars, conn, unitVars, now>>

\* Mutant: no broadcast.
StopGroupQuietly(g) ==
    /\ phase = "stop_groups" /\ ~stopping[g]
    /\ stopping' = [stopping EXCEPT ![g] = TRUE]
    /\ phase' = IF \A h \in Groups \ {g} : stopping[h] THEN "join" ELSE phase
    /\ UNCHANGED <<queue, count, idle, workerVars, sweepVars, conn, unitVars, now>>

\* stopping and the broadcast, group by group.
CloseStopGroup(g) ==
    /\ phase = "stop_groups" /\ ~stopping[g]
    /\ stopping' = [stopping EXCEPT ![g] = TRUE]
    /\ wpc' = [w \in Workers |-> IF GroupOf[w] = g /\ wpc[w] = "wait" THEN "woken" ELSE wpc[w]]
    /\ phase' = IF \A h \in Groups \ {g} : stopping[h] THEN "join" ELSE phase
    /\ UNCHANGED <<queue, count, idle, wunit, sweepVars, conn, unitVars, now>>

\* Mutant: the connections are closed under the workers.
CloseWithoutJoin ==
    /\ phase = "join"
    /\ phase' = "closed"
    /\ conn' = [c \in Conns |-> IF conn[c] = "open" THEN "closed" ELSE conn[c]]
    /\ UNCHANGED <<queueVars, workerVars, sweepVars, unitVars, now>>

CloseJoined ==
    /\ phase = "join"
    /\ \A w \in Workers : wpc[w] \in {"none", "gone"}
    /\ phase' = "closed"
    /\ conn' = [c \in Conns |-> IF conn[c] = "open" THEN "closed" ELSE conn[c]]
    /\ UNCHANGED <<queueVars, workerVars, sweepVars, unitVars, now>>

-----------------------------------------------------------------------------
Opening == OpenConnection \/ OpenReader \/ StartWorker \/ StartSweeper \/ OpenFails

Submitting ==
    \E u \in Units :
        \/ SubmitInline(u)
        \/ Answer(u)
        \/ \E l \in Loops : SubmitFull(u, l) \/ SubmitParkFails(u, l) \/ SubmitTaken(u, l)

Working ==
    \E w \in Workers :
        \/ WorkerSleep(w) \/ WorkerWakesByItself(w) \/ WorkerTake(w) \/ WorkerLeave(w)
        \/ WorkerRefuse(w) \/ WorkerRun(w) \/ WorkerEnd(w)

Sweeping == SweeperWake \/ SweeperScan \/ SweeperHand \/ SweeperNext

Closing ==
    \/ CloseBegin \/ CloseSweeperJoined \/ CloseJoined
    \/ \E g \in Groups : CloseStopGroup(g)

\* After the close the executor is gone and only the loops' answers are left.
Closed == phase = "closed" /\ UNCHANGED vars

Next == Tick \/ Opening \/ Submitting \/ Working \/ Sweeping \/ Closing \/ Closed

Spec == Init /\ [][Next]_vars

\* Threads are scheduled and time passes.  A statement need not come back: WorkerEnd is not here.
Scheduling ==
    /\ WF_vars(Tick)
    /\ WF_vars(Sweeping)
    /\ \A w \in Workers :
          /\ WF_vars(WorkerSleep(w) \/ WorkerTake(w) \/ WorkerLeave(w))
          /\ WF_vars(WorkerRefuse(w) \/ WorkerRun(w))
    /\ WF_vars(CloseSweeperJoined \/ CloseJoined \/ \E g \in Groups : CloseStopGroup(g))

StuckSpec == Spec /\ Scheduling

\* Every statement ends, one way or the other.
FairSpec == Spec /\ Scheduling /\ \A w \in Workers : WF_vars(WorkerEnd(w))

-----------------------------------------------------------------------------
(* Properties                                                                *)

InQueue(u) == \E g \in Groups : \E i \in DOMAIN queue[g] : queue[g][i] = u
AtWorker(u) == \E w \in Workers : wunit[w] = u
AtSweeper(u) == \E i \in DOMAIN expired : expired[i] = u

\* A unit that was taken is in exactly one pair of hands -- a place in a queue, a worker, or the
\* sweeper's list -- until it is handed back, and in none afterwards: the worker, the sweeper and
\* the drain at close never hand back the same unit twice, and never lose one (worker_main,
\* sweeper_main and the comment on the sweeper in close_everything).
HandedOverOnce ==
    /\ \A u \in Units : holder[u] = "out" <=> InQueue(u) \/ AtWorker(u) \/ AtSweeper(u)
    /\ \A g, h \in Groups : \A i \in DOMAIN queue[g], j \in DOMAIN queue[h] :
          queue[g][i] = queue[h][j] => g = h /\ i = j
    /\ \A v, w \in Workers : wunit[v] = wunit[w] /\ wunit[v] # NoUnit => v = w
    /\ \A i, j \in DOMAIN expired : expired[i] = expired[j] => i = j
    /\ \A u \in Units : /\ ~(InQueue(u) /\ AtWorker(u))
                         /\ ~(InQueue(u) /\ AtSweeper(u))
                         /\ ~(AtWorker(u) /\ AtSweeper(u))

\* group->count is the length of the list and never passes the capacity, and group->idle is the
\* number of workers inside uv_cond_wait: what sc_db_exec_submit decides by is true.
Bookkeeping ==
    \A g \in Groups :
        /\ count[g] = Len(queue[g]) /\ count[g] <= Capacity(g)
        /\ idle[g] = Cardinality({w \in WorkersOf(g) : wpc[w] \in {"wait", "woken"}})

\* While a worker of the group sleeps, there are at least as many of its workers on their way to
\* the queue as there are units in it: submit's "signal only when somebody is idle" loses no
\* wake-up and leaves no unit queued behind a sleeping worker.
NoBacklogBehindSleepers ==
    \A g \in Groups :
        (\E w \in WorkersOf(g) : wpc[w] = "wait")
            => Len(queue[g]) <= Cardinality({w \in WorkersOf(g) : wpc[w] \in {"look", "woken"}})

\* A pass of the sweeper over a group leaves no unit in its queue that has waited too long,
\* although it looks no further than the first that has not: with a pass every SWEEP_INTERVAL_MS
\* that is the bound db_exec.h promises.
SweepLeavesNoneExpired ==
    [][SweeperScan => \A i \in DOMAIN queue'[sgroup] : ~WaitedTooLong(queue'[sgroup][i])]_vars

\* db_exec.h: SC_ERR_QUEUE_FULL means the work did not run -- and it is never said of a unit that
\* has not waited SC_DB_QUEUE_WAIT_MS, whoever says it (the sweeper, a worker).
TooBusyIsTrue ==
    \A u \in Units : status[u] = "queue_full" => ~worked[u] /\ now - queuedAt[u] > WaitLimit

\* The waiting time is kept from both sides: nobody is told too busy before it is over, and no
\* pass of the sweeper leaves somebody queued after it (sc_db_exec_submit, sweeper_main).
WaitingTimeIsKept == []TooBusyIsTrue /\ SweepLeavesNoneExpired

\* Closed, after serving or after a start that failed at any step: every unit has been handed
\* back, every thread that was started has ended, and no connection is still open.
ClosedIsEmpty ==
    phase = "closed" =>
        /\ \A u \in Units : holder[u] # "out"
        /\ \A w \in Workers : wpc[w] \in {"none", "gone"}
        /\ spc \in {"none", "gone"}
        /\ \A c \in Conns : conn[c] # "open"

\* A connection is used by nobody but its own running worker, and never after it was closed: a
\* worker holds a unit only on an open connection.
RunsOnOpenConnection ==
    \A w \in Workers : wunit[w] # NoUnit => conn[w] = "open"

\* Closing takes nothing away from anybody who still uses it and leaves nothing behind
\* (close_everything: the sweeper, then the workers, then the connections).
CloseIsOrderly == ClosedIsEmpty /\ RunsOnOpenConnection

\* db_exec.h: a unit is handed back when it has waited too long "even while every worker is stuck
\* inside a statement that is not coming back": while the executor serves, no unit stays queued.
NobodyWaitsForEver == \A u \in Units : InQueue(u) /\ phase = "open" ~> ~InQueue(u) \/ phase # "open"

\* Every unit that was taken is handed back, before the close or by it.
EveryUnitComesBack == \A u \in Units : holder[u] = "out" ~> holder[u] # "out"

\* Closing ends: nobody waits for a thread that waits for them.
CloseFinishes == phase = "stop_sweeper" ~> phase = "closed"

\* Nothing stays with the executor: neither a unit nor the close (run_unit, close_everything).
EverythingComesBack == EveryUnitComesBack /\ CloseFinishes
=============================================================================
