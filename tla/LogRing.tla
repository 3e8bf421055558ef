------------------------------ MODULE LogRing ------------------------------
(***************************************************************************)
(* The logger (service-core/src/log/ring.c, submit.c, logger.c): threads   *)
(* hand records to one logger thread through a ring of tickets, wait when  *)
(* it is full, and get their arenas back through queues of their own.      *)
(*                                                                         *)
(* The atomics are not all sequentially consistent.  A plain store of the  *)
(* logger may stay in its store buffer while it reads on; `pending' holds  *)
(* such stores, in order, until they reach memory or the logger makes an   *)
(* atomic update (a lock, the counter of written lines).  The submitting   *)
(* threads make one between every store and load that matter.              *)
(***************************************************************************)
EXTENDS Naturals, Sequences, Functions, FiniteSets

CONSTANTS
    Threads,
    MaxThreads,     \* SC_LOG_MAX_THREADS
    Capacity,       \* g_capacity
    MaxLines,       \* bound: the tickets a run hands out
    Machines,       \* whether stores may be delayed: a subset of BOOLEAN
    NONE

\* round_pow2 answers 8 or more.  With one slot a published line and a free slot would have the
\* same sequence word.
ASSUME SizesAssumption == /\ Capacity \in Nat /\ Capacity >= 2 /\ MaxThreads \in Nat \ {0}
                          /\ MaxLines \in Nat /\ Machines \subseteq BOOLEAN

Owners == 1..MaxThreads
Index == 0..(Capacity - 1)
At(pos) == pos % Capacity               \* pos & g_mask

VARIABLES
    delays,             \* the machine delays stores
    seq, slot,          \* the ring: each slot's sequence word and its record
    head, tail,         \* g_head, g_tail
    waiting,            \* g_consumer_waiting, as memory has it
    waiters,            \* g_producer_waiters
    pending,            \* the logger's delayed stores
    locked,             \* the logger holds g_mtx
    at, pos, said,      \* each thread: where it is, its ticket, how many lines it has logged
    owner, out, ret,    \* t_owner; each owner's arenas that are out, and those coming back
    logger, buffer,     \* where the logger is, and the lines in its output buffer
    written,            \* the lines that are out of the process
    stop                \* sc_log_shutdown: no, told, woken

ringVars == <<seq, slot, head, tail>>
ownerVars == <<owner, out, ret>>
flagVars == <<waiting, waiters, pending, locked>>
threadVars == <<at, pos, said>>
logVars == <<logger, buffer, written>>
vars == <<delays, ringVars, flagVars, threadVars, ownerVars, logVars, stop>>

Line(t, n) == [thread |-> t, n |-> n]
Lines == [thread : Threads, n : 1..MaxLines]
Records == [line : Lines, owner : Owners]

ASSUME NoneAssumption == IsFiniteSet(Threads) /\ NONE \notin Owners /\ NONE \notin Records

TypeOK ==
    /\ seq \in [Index -> Nat] /\ slot \in [Index -> Records \union {NONE}]
    /\ head \in 0..MaxLines /\ tail \in 0..head
    /\ waiting \in BOOLEAN
    /\ waiters = Cardinality({t \in Threads : at[t] \in {"blocked", "asleep", "unblocked"}})
    /\ locked \in BOOLEAN /\ delays \in Machines
    /\ pending \in Seq([to : 0..Capacity, value : Nat])
    /\ at \in [Threads -> {"idle", "reserve", "check", "blocked", "asleep", "unblocked", "write",
                           "publish", "wake", "signal", "leaving"}]
    /\ pos \in [Threads -> 0..MaxLines] /\ said \in [Threads -> 0..MaxLines]
    /\ owner \in [Threads -> Owners \union {NONE}]
    /\ out \in [Owners -> Nat] /\ ret \in [Owners -> Nat]
    /\ logger \in {"take", "empty", "lock", "look", "sleeping", "asleep", "relock", "unlock",
                   "commit", "line", "done", "waiters", "broadcast", "ended"}
    /\ buffer \in Seq(Lines) /\ written \in Seq(Lines)
    /\ stop \in {"no", "told", "woken"}

Init ==
    /\ delays \in Machines
    /\ seq = [i \in Index |-> i] /\ slot = [i \in Index |-> NONE]
    /\ head = 0 /\ tail = 0
    /\ waiting = FALSE /\ waiters = 0 /\ pending = <<>> /\ locked = FALSE
    /\ at = [t \in Threads |-> "idle"]
    /\ pos = [t \in Threads |-> 0] /\ said = [t \in Threads |-> 0]
    /\ owner = [t \in Threads |-> NONE]
    /\ out = [o \in Owners |-> 0] /\ ret = [o \in Owners |-> 0]
    /\ logger = "take" /\ buffer = <<>> /\ written = <<>>
    /\ stop = "no"

Mine(t) == Line(t, said[t])
Goes(t, where) == at' = [at EXCEPT ![t] = where]
Logger(where) == logger' = where

-----------------------------------------------------------------------------
(* Memory.                                                                   *)

Flag == Capacity        \* where a store to g_consumer_waiting goes, next to the slots

Applied(st) == IF st.to = Flag THEN waiting' = (st.value = 1) /\ UNCHANGED seq
               ELSE seq' = [seq EXCEPT ![st.to] = st.value] /\ UNCHANGED waiting

\* A delayed store reaches memory.
StoreLands ==
    /\ pending # <<>>
    /\ Applied(Head(pending))
    /\ pending' = Tail(pending)
    /\ UNCHANGED <<slot, head, tail, waiters, locked, threadVars, ownerVars, logVars, stop>>

\* A plain store of the logger's.
Stores(to, value) ==
    IF delays THEN pending' = Append(pending, [to |-> to, value |-> value]) /\ UNCHANGED <<seq, waiting>>
    ELSE Applied([to |-> to, value |-> value]) /\ UNCHANGED pending

\* An atomic update of the logger's waits for its stores.
Fenced == pending = <<>>

-----------------------------------------------------------------------------
(* The owners: sc_log_owner_join, _reclaim, _return, _leave.                 *)

Free == {o \in Owners : \A t \in Threads : owner[t] # o}

\* What is out once the owner has put everything that came back into its pool.
Reclaimed(o) == out[o] - ret[o]

\* submit up to the ticket: join if need be, reclaim, take an arena and fill it.  Without a free
\* owner slot or memory submit returns, and the line leaves no trace.
Submit(t) ==
    /\ at[t] = "idle" /\ stop = "no"
    /\ head + Cardinality({u \in Threads : at[u] = "reserve"}) < MaxLines /\ said[t] < MaxLines
    /\ \E o \in (IF owner[t] # NONE THEN {owner[t]} ELSE Free) :
          /\ owner' = [owner EXCEPT ![t] = o]
          /\ out' = [out EXCEPT ![o] = Reclaimed(o) + 1]
          /\ ret' = [ret EXCEPT ![o] = 0]
    /\ said' = [said EXCEPT ![t] = @ + 1]
    /\ Goes(t, "reserve")
    /\ UNCHANGED <<ringVars, flagVars, pos, logVars, stop>>

Leave(t) ==
    /\ at[t] = "idle" /\ owner[t] # NONE
    /\ Goes(t, "leaving")
    /\ UNCHANGED <<ringVars, flagVars, pos, said, ownerVars, logVars, stop>>

\* acquired_count is zero in every grade.
AllBack(o) == Reclaimed(o) = 0

Left(t) ==
    /\ at[t] = "leaving" /\ AllBack(owner[t])
    /\ out' = [out EXCEPT ![owner[t]] = 0] /\ ret' = [ret EXCEPT ![owner[t]] = 0]
    /\ owner' = [owner EXCEPT ![t] = NONE]
    /\ Goes(t, "idle")
    /\ UNCHANGED <<ringVars, flagVars, pos, said, logVars, stop>>

-----------------------------------------------------------------------------
(* A submitting thread: sc_log_ring_reserve, sc_log_ring_publish.            *)

SignalsNotEmpty == logger' = IF logger = "asleep" THEN "relock" ELSE logger

Reserve(t) ==
    /\ at[t] = "reserve"
    /\ pos' = [pos EXCEPT ![t] = head] /\ head' = head + 1
    /\ Goes(t, "check")
    /\ UNCHANGED <<seq, slot, tail, flagVars, said, ownerVars, logVars, stop>>

\* Mutant: any sequence word that is not a published line will do.
MineIfEmpty(t) == seq[At(pos[t])] # pos[t] + 1 - Capacity

\* The slot is free for this ticket.
MySlot(t) == seq[At(pos[t])] = pos[t]

Check(t) ==
    /\ at[t] = "check"
    /\ IF MySlot(t) THEN Goes(t, "write") /\ UNCHANGED waiters
       ELSE Goes(t, "blocked") /\ waiters' = waiters + 1
    /\ UNCHANGED <<ringVars, waiting, pending, locked, pos, said, ownerVars, logVars, stop>>

\* One round of the wait, under the lock: the logger may be asleep, so it is woken first.
Blocked(t) ==
    /\ at[t] = "blocked" /\ ~locked
    /\ IF MySlot(t) THEN Goes(t, "unblocked") /\ UNCHANGED logger
       ELSE Goes(t, "asleep") /\ SignalsNotEmpty
    /\ UNCHANGED <<ringVars, flagVars, pos, said, ownerVars, buffer, written, stop>>

Uncounted == waiters - 1

Unblocked(t) ==
    /\ at[t] = "unblocked"
    /\ waiters' = Uncounted
    /\ Goes(t, "write")
    /\ UNCHANGED <<ringVars, waiting, pending, locked, pos, said, ownerVars, logVars, stop>>

\* A condition variable may wake a waiter for nothing.
WokenForNothing(t) ==
    /\ at[t] = "asleep"
    /\ Goes(t, "blocked")
    /\ UNCHANGED <<ringVars, flagVars, pos, said, ownerVars, logVars, stop>>

Write(t) ==
    /\ at[t] = "write"
    /\ slot' = [slot EXCEPT ![At(pos[t])] = [line |-> Mine(t), owner |-> owner[t]]]
    /\ Goes(t, "publish")
    /\ UNCHANGED <<seq, head, tail, flagVars, pos, said, ownerVars, logVars, stop>>

\* The store, and the atomic count of submitted lines after it.
Publish(t) ==
    /\ at[t] = "publish"
    /\ seq' = [seq EXCEPT ![At(pos[t])] = pos[t] + 1]
    /\ Goes(t, "wake")
    /\ UNCHANGED <<slot, head, tail, flagVars, pos, said, ownerVars, logVars, stop>>

\* Mutant: the logger is woken only for a line that fills the ring.
SeesSleeperWhenFull == waiting /\ head - tail >= Capacity

SeesSleeper == waiting

Wake(t) ==
    /\ at[t] = "wake"
    /\ Goes(t, IF SeesSleeper THEN "signal" ELSE "idle")
    /\ UNCHANGED <<ringVars, flagVars, pos, said, ownerVars, logVars, stop>>

Signal(t) ==
    /\ at[t] = "signal" /\ ~locked
    /\ SignalsNotEmpty
    /\ Goes(t, "idle")
    /\ UNCHANGED <<ringVars, flagVars, pos, said, ownerVars, buffer, written, stop>>

-----------------------------------------------------------------------------
(* The logger: sc_log_ring_take, logger_main, sc_log_ring_done.              *)

\* out_flush.
Flushed == written' = written \o buffer /\ buffer' = <<>>

Running == stop = "no"

LastFlush == Flushed

\* Answers 0 once the ring is empty and the logger is told to stop.
Ends == tail = head /\ ~Running

Take ==
    /\ logger = "take"
    /\ IF Ends THEN LastFlush /\ Logger("ended")
       ELSE Logger(IF tail = head THEN "empty" ELSE "commit") /\ UNCHANGED <<buffer, written>>
    /\ UNCHANGED <<ringVars, flagVars, threadVars, ownerVars, stop>>

BeforeSleep == Flushed

\* After the idle spins.
StillEmpty ==
    /\ logger = "empty"
    /\ IF tail = head THEN BeforeSleep /\ Logger("lock")
       ELSE Logger("take") /\ UNCHANGED <<buffer, written>>
    /\ UNCHANGED <<ringVars, flagVars, threadVars, ownerVars, stop>>

Lock ==
    /\ logger = "lock" /\ ~locked /\ Fenced
    /\ locked' = TRUE
    /\ Stores(Flag, 1)
    /\ Logger("look")
    /\ UNCHANGED <<slot, head, tail, waiters, threadVars, ownerVars, buffer, written, stop>>

\* The condition of the wait, read under the lock.
Look ==
    /\ logger = "look"
    /\ IF tail = head /\ Running THEN Logger("sleeping") /\ UNCHANGED <<seq, waiting, pending>>
       ELSE Logger("unlock") /\ Stores(Flag, 0)
    /\ UNCHANGED <<slot, head, tail, waiters, locked, threadVars, ownerVars, buffer, written, stop>>

\* uv_cond_wait lets the lock go, and takes it again when it is woken.
Sleep ==
    /\ logger = "sleeping" /\ Fenced
    /\ locked' = FALSE /\ Logger("asleep")
    /\ UNCHANGED <<ringVars, waiting, waiters, pending, threadVars, ownerVars, buffer, written, stop>>

LoggerWokenForNothing ==
    /\ logger = "asleep" /\ Logger("relock")
    /\ UNCHANGED <<ringVars, flagVars, threadVars, ownerVars, buffer, written, stop>>

Relock ==
    /\ logger = "relock" /\ ~locked
    /\ locked' = TRUE /\ Logger("look")
    /\ UNCHANGED <<ringVars, waiting, waiters, pending, threadVars, ownerVars, buffer, written, stop>>

Unlock ==
    /\ logger = "unlock" /\ Fenced
    /\ locked' = FALSE /\ Logger("take")
    /\ UNCHANGED <<ringVars, waiting, waiters, pending, threadVars, ownerVars, buffer, written, stop>>

\* The producer has finished writing.
Committed == seq[At(tail)] = tail + 1

Commit ==
    /\ logger = "commit" /\ Committed
    /\ Logger("line")
    /\ UNCHANGED <<ringVars, flagVars, threadVars, ownerVars, buffer, written, stop>>

\* Into the buffer, which is flushed first when it has no room and afterwards for a warning;
\* then the arena goes to its owner's queue.
WriteLine ==
    /\ logger = "line"
    /\ LET r == slot[At(tail)]
       IN /\ \/ written' = written /\ buffer' = Append(buffer, r.line)
             \/ written' = written \o buffer /\ buffer' = <<r.line>>
             \/ written' = Append(written \o buffer, r.line) /\ buffer' = <<>>
          /\ ret' = [ret EXCEPT ![r.owner] = @ + 1]
    /\ Logger("done")
    /\ UNCHANGED <<ringVars, flagVars, threadVars, owner, out, stop>>

Done ==
    /\ logger = "done" /\ Fenced
    /\ Stores(At(tail), tail + Capacity)
    /\ tail' = tail + 1
    /\ Logger("waiters")
    /\ UNCHANGED <<slot, head, waiters, locked, threadVars, ownerVars, buffer, written, stop>>

\* Mutant: a producer is looked for only when the ring was full.
SeesWaitersWhenFull == waiters # 0 /\ head - tail > Capacity

SeesWaiters == waiters # 0

Waiters ==
    /\ logger = "waiters"
    /\ Logger(IF SeesWaiters THEN "broadcast" ELSE "take")
    /\ UNCHANGED <<ringVars, flagVars, threadVars, ownerVars, buffer, written, stop>>

Broadcast ==
    /\ logger = "broadcast" /\ ~locked /\ Fenced
    /\ at' = [t \in Threads |-> IF at[t] = "asleep" THEN "blocked" ELSE at[t]]
    /\ Logger("take")
    /\ UNCHANGED <<ringVars, flagVars, pos, said, ownerVars, buffer, written, stop>>

-----------------------------------------------------------------------------
(* sc_log_shutdown, once every thread has left.                              *)

Stop ==
    /\ stop = "no" /\ \A t \in Threads : at[t] = "idle" /\ owner[t] = NONE
    /\ stop' = "told"
    /\ UNCHANGED <<ringVars, flagVars, threadVars, ownerVars, logVars>>

StopWakes ==
    /\ stop = "told" /\ ~locked
    /\ SignalsNotEmpty
    /\ stop' = "woken"
    /\ UNCHANGED <<ringVars, flagVars, threadVars, ownerVars, buffer, written>>

-----------------------------------------------------------------------------

ThreadSteps(t) == \/ Reserve(t) \/ Check(t) \/ Blocked(t) \/ Unblocked(t) \/ Write(t)
                  \/ Publish(t) \/ Wake(t) \/ Signal(t) \/ Left(t)

LoggerSteps == \/ Take \/ StillEmpty \/ Lock \/ Look \/ Sleep \/ Relock \/ Unlock
               \/ Commit \/ WriteLine \/ Done \/ Waiters \/ Broadcast

Next ==
    /\ \/ \E t \in Threads : Submit(t) \/ Leave(t) \/ WokenForNothing(t)
                             \/ ThreadSteps(t)
       \/ LoggerSteps \/ LoggerWokenForNothing
       \/ StoreLands \/ Stop \/ StopWakes
    /\ UNCHANGED delays

Spec == Init /\ [][Next]_vars

\* Every thread that has something to do runs, and a store does not stay in its buffer.  Nobody
\* has to log again, leave or shut down.
FairSpec == /\ Spec
            /\ \A t \in Threads : WF_vars(ThreadSteps(t) /\ UNCHANGED delays)
            /\ WF_vars(LoggerSteps /\ UNCHANGED delays) /\ WF_vars(StoreLands /\ UNCHANGED delays)
            /\ WF_vars(StopWakes /\ UNCHANGED delays)

-----------------------------------------------------------------------------
(* Properties.                                                               *)

\* The logger reads a slot only when its record is the one the ticket's holder wrote, and no
\* thread writes a slot whose record is still to be read: between a thread's check and its
\* publish the slot is the thread's alone (the sequence words of sc_log_ring_reserve, _take
\* and _done).
SlotHasOneHolder ==
    /\ \A t \in Threads : at[t] \in {"write", "publish"} =>
          /\ seq[At(pos[t])] = pos[t] /\ pos[t] - tail < Capacity
          /\ \A u \in Threads \ {t} : at[u] \in {"write", "publish"} => At(pos[u]) # At(pos[t])
    /\ logger \in {"line", "done"} => \A t \in Threads :
          at[t] \in {"write", "publish"} => At(pos[t]) # At(tail)

\* The lines of a thread that have left the ring, in the order it handed them over, without a
\* gap and without a repetition (logger_main).
LeftTheRing == written \o buffer
InOrderOfEachThread ==
    \A i \in DOMAIN LeftTheRing :
        LeftTheRing[i].n = Cardinality({j \in 1..i : LeftTheRing[j].thread = LeftTheRing[i].thread})

\* An arena comes back to the thread that took it: the owner index in a record belongs to the
\* thread whose line it is until the logger has returned it, through threads that leave and
\* slots taken by others (sc_log_owner_leave, sc_log_owner_return).
ReturnsToItsOwner ==
    \A p \in tail..(head - 1) :
        (seq[At(p)] = p + 1 /\ ~(p = tail /\ logger = "done")) =>
            owner[slot[At(p)].line.thread] = slot[At(p)].owner

RetCapacity == Capacity * 2

\* A return queue never wraps onto an arena that was not collected (the sizing of ret in
\* sc_log_owner_join: a thread blocked on a full ring collects nothing meanwhile).
ReturnsFit == \A o \in Owners : ret[o] <= RetCapacity

\* Arenas go home: to the thread they are from, into a queue with room for them
\* (sc_log_owner_return).
ArenasGoHome == TypeOK /\ ReturnsToItsOwner /\ ReturnsFit

\* What a thread hands to the logger arrives once and in order, and what the logger hands back
\* goes home (ring.c, sc_log_owner_return).
RingIsTrue == SlotHasOneHolder /\ InOrderOfEachThread /\ ArenasGoHome

\* A line that was handed over is written, with nobody logging after it (ring.h on publish:
\* "hand it over and wake the logger if it is asleep").  Lines are written in ticket order.
HandedOver(p) == tail <= p /\ seq[At(p)] = p + 1
PublishedIsWritten == \A p \in 0..(MaxLines - 1) : HandedOver(p) ~> Len(written) > p

\* The same where every store is in memory before the next load: the look at the head under the
\* lock and the look at the flag after the publish cannot both miss.
PublishedIsWrittenInOrder ==
    \A p \in 0..(MaxLines - 1) : ~delays /\ HandedOver(p) ~> Len(written) > p

\* A thread that leaves gets away, where every store is in memory before the next load
\* (sc_log_owner_leave waits for the logger to put back what it has out).
LeavingEnds == \A t \in Threads : ~delays /\ at[t] = "leaving" ~> at[t] = "idle"

\* A thread that waits for a full ring goes on, even if the logger misses that it waits
\* (sc_log_ring_done reads the count of waiters after a store that may not have landed).
BackpressureEnds == \A t \in Threads : at[t] = "asleep" ~> at[t] = "write"

\* No thread waits for ever for the logger (sc_log_ring_reserve, sc_log_owner_leave).
WaitersGoOn == BackpressureEnds /\ LeavingEnds

\* A shutdown writes everything that was handed over (sc_log_shutdown).
ShutdownWritesAll ==
    stop = "told" ~> /\ logger = "ended"
                     /\ \A t \in Threads : \A n \in 1..said[t] : Line(t, n) \in Range(written)

\* Every line is written: while the process runs, with nobody logging after it, and by the
\* shutdown (sc_log_ring_publish, sc_log_shutdown).
LinesGetWritten == ShutdownWritesAll /\ PublishedIsWrittenInOrder

=============================================================================
