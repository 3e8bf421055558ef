---------------------------- MODULE MailerProofs ----------------------------
(* Mailer accounts for its mails, arenas and workers, for any number of      *)
(* mails and workers and any sizes of its rings.                             *)
EXTENDS Mailer, Lists, TLAPS

\* The mails at one of the places P.
In(P) == {m \in Mails : where[m] \in P}

Retried == {m \in Mails : tries[m] = 2 \/ (tries[m] = 1 /\ where[m] \in {"retry", "dropped"})}

Running == {w \in Slots : state[w] = "running"}

Arena == {"rendering", "queued", "sending", "retry"}
Accepted == {"queued", "sending", "retry", "sent", "failed", "dropped"}

LEMMA SetsFinite ==
  ASSUME Counting
  PROVE
  /\ IsFiniteSet(Mails) /\ Cardinality(Mails) \in Nat
  /\ IsFiniteSet(Slots) /\ Cardinality(Slots) = WorkerMax
  /\ Flusher \notin Slots /\ Slots \subseteq Nat
  <1>1. WorkerMax \in Nat \ {0} /\ IsFiniteSet(Mails)
    BY MailerAssumption, Zenon
  <1>2. IsFiniteSet(Slots) /\ Cardinality(Slots) = WorkerMax
    BY <1>1, CountOfRange DEF Slots
  <1> QED
    BY <1>1, <1>2, CountIsNat DEF Slots, Flusher

LEMMA InFinite ==
  ASSUME Counting, NEW P
  PROVE  IsFiniteSet(In(P)) /\ Cardinality(In(P)) \in 0..Cardinality(Mails)
  <1>1. In(P) \in SUBSET Mails
    BY Zenon DEF In
  <1>2. IsFiniteSet(In(P)) /\ Cardinality(In(P)) <= Cardinality(Mails)
    BY <1>1, SetsFinite, CountOfPart, Zenon
  <1> QED
    BY <1>2, SetsFinite, CountIsNat

LEMMA RetriedFinite ==
  ASSUME Counting
  PROVE  IsFiniteSet(Retried) /\ Cardinality(Retried) \in 0..Cardinality(Mails)
  <1>1. Retried \in SUBSET Mails
    BY Zenon DEF Retried
  <1>2. IsFiniteSet(Retried) /\ Cardinality(Retried) <= Cardinality(Mails)
    BY <1>1, SetsFinite, CountOfPart, Zenon
  <1> QED
    BY <1>2, SetsFinite, CountIsNat

LEMMA RunningFinite ==
  ASSUME Counting
  PROVE  IsFiniteSet(Running) /\ Cardinality(Running) \in 0..WorkerMax
  <1>1. Running \in SUBSET Slots
    BY Zenon DEF Running
  <1>2. IsFiniteSet(Running) /\ Cardinality(Running) <= Cardinality(Slots)
    BY <1>1, SetsFinite, CountOfPart, Zenon
  <1> QED
    BY <1>2, SetsFinite, CountIsNat

\* Places that exclude each other.
LEMMA InApart ==
  ASSUME Counting, NEW P, NEW Q, P \intersect Q = {}
  PROVE  Cardinality(In(P \union Q)) = Cardinality(In(P)) + Cardinality(In(Q))
  <1>1. In(P \union Q) = In(P) \union In(Q) /\ In(P) \intersect In(Q) = {}
    BY Zenon DEF In
  <1>2. IsFiniteSet(In(P)) /\ IsFiniteSet(In(Q))
    BY InFinite, Zenon
  <1>3. Cardinality(In(P) \union In(Q)) =
          Cardinality(In(P)) + Cardinality(In(Q)) - Cardinality(In(P) \intersect In(Q))
    BY <1>2, CountOfUnion, Zenon
  <1>4. Cardinality(In(P)) \in Nat /\ Cardinality(In(Q)) \in Nat
    BY InFinite, SetsFinite
  <1>5. Cardinality(In(P) \intersect In(Q)) = 0
    BY <1>1, CountOfNone, Zenon
  <1>6. Cardinality(In(P)) + Cardinality(In(Q)) - 0 = Cardinality(In(P)) + Cardinality(In(Q))
    BY <1>4
  <1> QED
    BY <1>1, <1>3, <1>5, <1>6, Zenon

\* One mail goes from one place to another.
LEMMA OneMoves ==
  ASSUME Counting, NEW m \in Mails, NEW p, NEW P, where \in [Mails -> Places], Goes(m, p)
  PROVE  /\ where[m] \in P /\ p \in P => Cardinality(In(P))' = Cardinality(In(P))
         /\ where[m] \notin P /\ p \notin P => Cardinality(In(P))' = Cardinality(In(P))
         /\ where[m] \notin P /\ p \in P => Cardinality(In(P))' = Cardinality(In(P)) + 1
         /\ where[m] \in P /\ p \notin P => /\ Cardinality(In(P))' = Cardinality(In(P)) - 1
                                           /\ Cardinality(In(P)) > 0
  <1>1. \A x \in Mails : where'[x] = IF x = m THEN p ELSE where[x]
    BY Zenon DEF Goes
  <1>2. CASE where[m] \in P <=> p \in P
    <2>1. In(P)' = In(P)
      BY <1>1, <1>2, Zenon DEF In
    <2> QED
      BY <1>2, <2>1, Zenon
  <1>3. CASE where[m] \notin P /\ p \in P
    <2>1. In(P)' = In(P) \union {m} /\ m \notin In(P)
      BY <1>1, <1>3, Zenon DEF In
    <2>2. Cardinality(In(P) \union {m}) = Cardinality(In(P)) + 1
      BY <2>1, InFinite, CountAdding, Zenon
    <2> QED
      BY <1>3, <2>1, <2>2, Zenon
  <1>4. CASE where[m] \in P /\ p \notin P
    <2>1. In(P)' = In(P) \ {m} /\ m \in In(P)
      BY <1>1, <1>4, Zenon DEF In
    <2>2. Cardinality(In(P) \ {m}) = Cardinality(In(P)) - 1
      BY <2>1, InFinite, CountRemoving, Zenon
    <2>3. Cardinality(In(P)) # 0
      BY <2>1, InFinite, CountOfNone, Zenon
    <2> QED
      BY <1>4, <2>1, <2>2, <2>3, InFinite
  <1> QED
    BY <1>2, <1>3, <1>4, Zenon

-----------------------------------------------------------------------------
(* The workers.                                                              *)

WorkTypes ==
    /\ state \in [Slots -> {"free", "running", "retired"}]
    /\ at \in [Senders -> {"none", "starting", "loop", "waiting", "sending", "leaving", "gone"}]
    /\ busy \in [Slots -> BOOLEAN] /\ live \in Nat
    /\ end \in {"no", "stopping", "freed"} /\ joins \subseteq Slots

\* What a slot says of its thread; a destroy knows every thread, for none starts after it.
WorkerTrue(w) ==
    /\ state[w] = "free" => at[w] = "none"
    /\ state[w] = "running" => at[w] \in {"starting", "loop", "waiting", "sending"}
    /\ state[w] = "retired" => at[w] \in {"leaving", "gone"}
    /\ end # "no" /\ state[w] # "free" => w \in joins
    /\ end = "freed" => at[w] \in {"none", "gone"}

WorkInv ==
    /\ WorkTypes
    /\ \A w \in Slots : WorkerTrue(w)
    /\ live = Cardinality(Running)
    /\ at[Flusher] \in {"none", "sending"} /\ (end # "no" => at[Flusher] = "none")

LEMMA WorkInit ==
  ASSUME Counting
  PROVE  Init => WorkInv
  <1> SUFFICES ASSUME Init PROVE WorkInv
    BY Zenon
  <1>1. /\ started \in 0..WorkerMax /\ WorkerMax \in Nat \ {0}
        /\ Senders = 0..WorkerMax /\ Flusher \in Senders
    BY MailerAssumption DEF Init, Slots, Senders, Flusher
  <1>2. /\ at[Flusher] = "none" /\ end = "no" /\ live = started /\ joins = {}
        /\ \A w \in Slots : state[w] = IF w < started THEN "running" ELSE "free"
        /\ \A w \in Slots : at[w] = IF w < started THEN "starting" ELSE "none"
    BY <1>1 DEF Init, Slots, Flusher, Senders
  <1>3. WorkTypes
    BY <1>1 DEF Init, WorkTypes
  <1>4. \A w \in Slots : WorkerTrue(w)
    BY <1>2, Zenon DEF WorkerTrue
  <1>5. Running = 0..(started - 1)
    BY <1>1, <1>2 DEF Running, Slots
  <1>6. Cardinality(0..(started - 1)) = started
    BY <1>1, CountOfRange
  <1> QED
    BY <1>2, <1>3, <1>4, <1>5, <1>6, Zenon DEF WorkInv

\* A worker is started in a slot of no running one, if at all.
LEMMA SpawnEffect ==
  ASSUME Counting, WorkInv, NEW n, NEW places, NEW busyNow, MaybeSpawn(n, places, busyNow)
  PROVE  \/ /\ at' = places /\ busy' = busyNow /\ UNCHANGED <<state, live>>
         \/ \E v \in Slots : /\ state[v] # "running" /\ state' = [state EXCEPT ![v] = "running"]
                             /\ at' = [places EXCEPT ![v] = "starting"]
                             /\ busy' = [busyNow EXCEPT ![v] = FALSE] /\ live' = live + 1
  <1> SUFFICES ASSUME MayStart(n, busyNow)
               PROVE  \E v \in Vacant : \A u \in Vacant : v <= u
    BY Zenon DEF MaybeSpawn, Vacant
  <1>1. Vacant # {}
    <2> SUFFICES ASSUME Vacant = {} PROVE FALSE
      BY Zenon
    <2>1. Running = Slots
      BY Zenon DEF Vacant, Running
    <2>2. live = WorkerMax /\ live < WorkerMax
      BY <2>1, SetsFinite, Zenon DEF WorkInv, MayStart
    <2> QED
      BY <2>2, MailerAssumption
  <1>2. Vacant \in SUBSET Nat
    BY SetsFinite, Zenon DEF Vacant
  <1> QED
    BY <1>1, <1>2, Smallest, Zenon

\* One thread moves, and its slot stays as it is.
LEMMA MovesTrue ==
  ASSUME Counting, WorkInv, NEW w \in Slots, NEW p \in {"loop", "waiting", "sending", "gone"},
         at[w] \in {"starting", "loop", "waiting", "sending", "leaving"},
         p = "gone" <=> at[w] = "leaving",
         at' = [at EXCEPT ![w] = p], busy' \in [Slots -> BOOLEAN],
         UNCHANGED <<state, live, end, joins>>
  PROVE  WorkInv'
  <1>1. /\ w \in Senders /\ Flusher \in Senders /\ w # Flusher
        /\ \A v \in Slots : v \in Senders
    BY SetsFinite, Zenon DEF Senders
  <1>2. at'[w] = p /\ \A v \in Senders : v # w => at'[v] = at[v]
    BY <1>1, Zenon DEF WorkInv, WorkTypes
  <1>3. \A v \in Slots : WorkerTrue(v)'
    BY <1>1, <1>2, Zenon DEF WorkInv, WorkTypes, WorkerTrue
  <1>4. WorkTypes' /\ Running' = Running
    BY Zenon DEF WorkInv, WorkTypes, Running
  <1> QED
    BY <1>1, <1>2, <1>3, <1>4, Zenon DEF WorkInv

LEMMA RetiresTrue ==
  ASSUME Counting, WorkInv, NEW w \in Slots, at[w] \in {"starting", "loop"}, Retires(w), UNCHANGED <<end, joins>>
  PROVE  WorkInv'
  <1>1. /\ w \in Senders /\ Flusher \in Senders /\ w # Flusher
        /\ \A v \in Slots : v \in Senders
    BY SetsFinite, Zenon DEF Senders
  <1>2. /\ at'[w] = "leaving" /\ \A v \in Senders : v # w => at'[v] = at[v]
        /\ state'[w] = "retired" /\ \A v \in Slots : v # w => state'[v] = state[v]
        /\ live' = live - 1 /\ state[w] = "running"
    BY <1>1, Zenon DEF WorkInv, WorkTypes, WorkerTrue, Retires
  <1>3. \A v \in Slots : WorkerTrue(v)'
    BY <1>1, <1>2, Zenon DEF WorkInv, WorkTypes, WorkerTrue
  <1>4. Running' = Running \ {w} /\ w \in Running
    BY <1>2, Zenon DEF Running
  <1>5. /\ Cardinality(Running \ {w}) = Cardinality(Running) - 1
        /\ Cardinality(Running) \in Nat /\ Cardinality(Running) # 0
    BY <1>4, RunningFinite, CountRemoving, CountOfNone
  <1>6. live' = Cardinality(Running') /\ live' \in Nat
    BY <1>2, <1>4, <1>5 DEF WorkInv
  <1>7. WorkTypes'
    BY <1>6, Zenon DEF WorkInv, WorkTypes, Retires
  <1> QED
    BY <1>1, <1>2, <1>3, <1>6, <1>7, Zenon DEF WorkInv

\* A spawn, of Push or of the worker w that has just taken a mail.
LEMMA SpawnTrue ==
  ASSUME Counting, WorkInv, NEW n, NEW places, NEW busyNow, MaybeSpawn(n, places, busyNow),
         busyNow \in [Slots -> BOOLEAN], UNCHANGED <<end, joins>>, end = "no",
         \/ places = at
         \/ \E w \in Slots : at[w] = "loop" /\ places = [at EXCEPT ![w] = "sending"]
  PROVE  WorkInv'
  <1>1. /\ Flusher \in Senders /\ Flusher \notin Slots /\ \A v \in Slots : v \in Senders
    BY SetsFinite, Zenon DEF Senders
  <1>2. /\ places \in [Senders -> {"none", "starting", "loop", "waiting", "sending", "leaving", "gone"}]
        /\ places[Flusher] = at[Flusher]
        /\ \A v \in Slots : \/ places[v] = at[v]
                            \/ at[v] = "loop" /\ places[v] = "sending"
    BY <1>1, Zenon DEF WorkInv, WorkTypes
  <1>3. CASE at' = places /\ busy' = busyNow /\ UNCHANGED <<state, live>>
    <2>1. \A v \in Slots : WorkerTrue(v)'
      BY <1>2, <1>3, Zenon DEF WorkInv, WorkTypes, WorkerTrue
    <2>2. WorkTypes' /\ Running' = Running
      BY <1>2, <1>3, Zenon DEF WorkInv, WorkTypes, Running
    <2> QED
      BY <1>2, <1>3, <2>1, <2>2, Zenon DEF WorkInv
  <1>4. CASE \E v \in Slots : /\ state[v] # "running" /\ state' = [state EXCEPT ![v] = "running"]
                             /\ at' = [places EXCEPT ![v] = "starting"]
                             /\ busy' = [busyNow EXCEPT ![v] = FALSE] /\ live' = live + 1
    <2>1. PICK v \in Slots : /\ state[v] # "running" /\ state' = [state EXCEPT ![v] = "running"]
                             /\ at' = [places EXCEPT ![v] = "starting"]
                             /\ busy' = [busyNow EXCEPT ![v] = FALSE] /\ live' = live + 1
      BY <1>4, Zenon
    <2>2. /\ at'[v] = "starting" /\ \A x \in Senders : x # v => at'[x] = places[x]
          /\ state'[v] = "running" /\ \A x \in Slots : x # v => state'[x] = state[x]
      BY <1>1, <1>2, <2>1, Zenon DEF WorkInv, WorkTypes
    <2>3. \A x \in Slots : WorkerTrue(x)'
      BY <1>1, <1>2, <2>2 DEF WorkInv, WorkTypes, WorkerTrue
    <2>4. Running' = Running \union {v} /\ v \notin Running
      BY <2>1, <2>2, Zenon DEF Running
    <2>5. Cardinality(Running \union {v}) = Cardinality(Running) + 1 /\ Cardinality(Running) \in Nat
      BY <2>4, RunningFinite, CountAdding
    <2>6. live' = Cardinality(Running') /\ live' \in Nat
      BY <2>1, <2>4, <2>5 DEF WorkInv
    <2>7. WorkTypes'
      BY <1>2, <2>1, <2>6, Zenon DEF WorkInv, WorkTypes
    <2> QED
      BY <1>1, <1>2, <2>2, <2>3, <2>6, <2>7, Zenon DEF WorkInv
  <1>5. \/ at' = places /\ busy' = busyNow /\ UNCHANGED <<state, live>>
        \/ \E v \in Slots : /\ state[v] # "running" /\ state' = [state EXCEPT ![v] = "running"]
                            /\ at' = [places EXCEPT ![v] = "starting"]
                            /\ busy' = [busyNow EXCEPT ![v] = FALSE] /\ live' = live + 1
    BY SpawnEffect
  <1> QED
    BY <1>3, <1>4, <1>5, Zenon

LEMMA WorkStep ==
  ASSUME Counting, WorkInv, [Next]_vars
  PROVE  WorkInv'
  <1>0. /\ Flusher \in Senders /\ Flusher \notin Slots /\ \A v \in Slots : v \in Senders
    BY SetsFinite, Zenon DEF Senders
  <1>1. CASE UNCHANGED <<state, at, busy, live, end, joins>>
    <2>1. WorkTypes' /\ Running' = Running /\ \A w \in Slots : WorkerTrue(w)'
      BY <1>1, Zenon DEF WorkInv, WorkTypes, Running, WorkerTrue
    <2> QED
      BY <1>1, <2>1, Zenon DEF WorkInv
  <1>2. ASSUME NEW m \in Mails, Enqueue(m) \/ GivesUp(m) \/ RetryDue \/ UNCHANGED vars
        PROVE  WorkInv'
    BY <1>1, <1>2, Zenon DEF Enqueue, GivesUp, Refuses, RetryDue, vars, workerVars, endVars
  <1>3. ASSUME NEW m \in Mails, Push(m)
        PROVE  WorkInv'
    <2>1. MaybeSpawn(Pending + 1, at, busy) /\ end = "no" /\ UNCHANGED <<end, joins>>
      BY <1>3, Zenon DEF Push, Closed, Stopping, endVars
    <2> QED
      BY <2>1, SpawnTrue, Zenon DEF WorkInv, WorkTypes
  <1>4. ASSUME NEW w \in Slots, Open(w)
        PROVE  WorkInv'
    <2>1. CASE at' = [at EXCEPT ![w] = "loop"] /\ UNCHANGED <<state, busy, live>>
      <3>1. busy' \in [Slots -> BOOLEAN] /\ UNCHANGED <<end, joins>> /\ at[w] = "starting"
        BY <1>4, <2>1, Zenon DEF Open, WorkInv, WorkTypes, endVars
      <3> QED
        BY <2>1, <3>1, MovesTrue, Zenon
    <2>2. CASE Retires(w)
      BY <1>4, <2>2, RetiresTrue, Zenon DEF Open, endVars
    <2> QED
      BY <1>4, <2>1, <2>2, Zenon DEF Open
  <1>5. ASSUME NEW w \in Slots, Take(w)
        PROVE  WorkInv'
    <2>1. /\ MaybeSpawn(Pending - 1, [at EXCEPT ![w] = "sending"], [busy EXCEPT ![w] = TRUE])
          /\ end = "no" /\ UNCHANGED <<end, joins>> /\ at[w] = "loop"
          /\ [busy EXCEPT ![w] = TRUE] \in [Slots -> BOOLEAN]
      BY <1>5, Zenon DEF Take, MayTake, Stopping, endVars, WorkInv, WorkTypes
    <2> QED
      BY <2>1, SpawnTrue, Zenon
  <1>6. ASSUME NEW w \in Slots, Wait(w)
        PROVE  WorkInv'
    <2>1. /\ at[w] = "loop" /\ at' = [at EXCEPT ![w] = "waiting"]
          /\ busy' \in [Slots -> BOOLEAN] /\ UNCHANGED <<state, live, end, joins>>
      BY <1>6, Zenon DEF Wait, endVars, WorkInv, WorkTypes
    <2> QED
      BY <2>1, MovesTrue, Zenon
  <1>7. ASSUME NEW w \in Slots, WakeUp(w)
        PROVE  WorkInv'
    <2>1. /\ at[w] = "waiting" /\ at' = [at EXCEPT ![w] = "loop"]
          /\ busy' \in [Slots -> BOOLEAN] /\ UNCHANGED <<state, live, end, joins>>
      BY <1>7, Zenon DEF WakeUp, endVars, WorkInv, WorkTypes
    <2> QED
      BY <2>1, MovesTrue, Zenon
  <1>8. ASSUME NEW w \in Slots, Linger(w) \/ StopSeen(w)
        PROVE  WorkInv'
    BY <1>8, RetiresTrue, Zenon DEF Linger, StopSeen, endVars
  <1>9. ASSUME NEW w \in Slots, Exit(w)
        PROVE  WorkInv'
    <2>1. /\ at[w] = "leaving" /\ at' = [at EXCEPT ![w] = "gone"]
          /\ busy' \in [Slots -> BOOLEAN] /\ UNCHANGED <<state, live, end, joins>>
      BY <1>9, Zenon DEF Exit, endVars, WorkInv, WorkTypes
    <2> QED
      BY <2>1, MovesTrue, Zenon
  <1>10. ASSUME NEW w \in Slots, NEW ok \in BOOLEAN, Sent(w, ok)
         PROVE  WorkInv'
    <2>1. /\ at[w] = "sending" /\ at' = [at EXCEPT ![w] = "loop"]
          /\ busy' \in [Slots -> BOOLEAN] /\ UNCHANGED <<state, live, end, joins>>
      BY <1>10, Zenon DEF Sent, Finish, endVars, WorkInv, WorkTypes
    <2> QED
      BY <2>1, MovesTrue, Zenon
  <1>11. ASSUME Flush \/ Flushed(TRUE) \/ Flushed(FALSE)
         PROVE  WorkInv'
    <2>1. PICK p \in {"none", "sending"} : /\ at' = [at EXCEPT ![Flusher] = p]
                                           /\ p = "none" \/ end = "no"
      BY <1>11, Zenon DEF Flush, Flushed, Stopping
    <2>2. UNCHANGED <<state, busy, live, end, joins>>
      BY <1>11, Zenon DEF Flush, Flushed, Finish, endVars
    <2>3. at'[Flusher] = p /\ \A v \in Slots : at'[v] = at[v]
      <3>1. at \in [Senders -> {"none", "starting", "loop", "waiting", "sending", "leaving", "gone"}]
        BY Zenon DEF WorkInv, WorkTypes
      <3> QED
        BY <1>0, <2>1, <3>1, Zenon
    <2>4. WorkTypes' /\ Running' = Running
      BY <2>1, <2>2, Zenon DEF WorkInv, WorkTypes, Running
    <2>5. \A v \in Slots : WorkerTrue(v)'
      BY <2>2, <2>3, Zenon DEF WorkInv, WorkerTrue
    <2> QED
      BY <2>1, <2>2, <2>3, <2>4, <2>5, Zenon DEF WorkInv
  <1>12. CASE Destroy
    <2>1. \A w \in Slots : WorkerTrue(w)'
      BY <1>12, Zenon DEF Destroy, Joinable, workerVars, WorkInv, WorkerTrue
    <2>2. WorkTypes' /\ Running' = Running
      BY <1>12, Zenon DEF Destroy, Joinable, workerVars, WorkInv, WorkTypes, Running
    <2> QED
      BY <1>12, <2>1, <2>2, Zenon DEF Destroy, workerVars, WorkInv
  <1>13. CASE Freed
    <2>1. \A w \in Slots : WorkerTrue(w)'
      BY <1>13, Zenon DEF Freed, workerVars, WorkInv, WorkTypes, WorkerTrue
    <2>2. WorkTypes' /\ Running' = Running
      BY <1>13, Zenon DEF Freed, workerVars, WorkInv, WorkTypes, Running
    <2> QED
      BY <1>13, <2>1, <2>2, Zenon DEF Freed, workerVars, WorkInv
  <1>14. CASE RetryDue \/ UNCHANGED vars
    BY <1>1, <1>14, Zenon DEF RetryDue, vars, workerVars, endVars
  <1> QED
    BY <1>2, <1>3, <1>4, <1>5, <1>6, <1>7, <1>8, <1>9, <1>10, <1>11, <1>12, <1>13, <1>14, Zenon
    DEF Next, WorkerSteps

-----------------------------------------------------------------------------
(* The mails.                                                                *)

Types ==
    /\ where \in [Mails -> Places] /\ tries \in [Mails -> 0..2]
    /\ queue \in Seq(Mails) /\ retry \in Seq(Mails)
    /\ due \in 0..Len(retry) /\ out \in 0..QueueMax
    /\ holds \in [Senders -> Mails \union {NONE}]
    /\ stats \in [{"queued", "sent", "retried", "failed"} -> Nat]
    /\ counted \in Nat /\ started \in Modes /\ sessions \in BOOLEAN

\* The attempts a mail has behind it, by its place.
MailTrue(m) ==
    /\ where[m] \in {"new", "rendering", "queued", "refused", "full"} => tries[m] = 0
    /\ where[m] = "retry" => tries[m] = 1
    /\ where[m] = "failed" => tries[m] = 2
    /\ where[m] \in {"sending", "sent"} => tries[m] \in {1, 2}
    /\ where[m] = "dropped" => tries[m] \in {0, 1} /\ end = "freed"

\* Senders and the mails they send are paired off.
SenderTrue(w) ==
    /\ holds[w] # NONE <=> at[w] = "sending"
    /\ holds[w] # NONE => where[holds[w]] = "sending"
    /\ \A v \in Senders : holds[v] = holds[w] /\ holds[w] # NONE => v = w
HasSender(m) == where[m] = "sending" => \E w \in Senders : holds[w] = m

RingTrue(ring, place) ==
    IsInjective(ring) /\ \A m \in Mails : m \in Range(ring) <=> where[m] = place

CountsTrue ==
    /\ out = Cardinality(In(Arena)) /\ stats["queued"] = Cardinality(In(Accepted))
    /\ stats["sent"] = Cardinality(In({"sent"})) /\ stats["failed"] = Cardinality(In({"failed"}))
    /\ stats["retried"] = Cardinality(Retried)

MailsTrue ==
    /\ Types
    /\ \A m \in Mails : MailTrue(m) /\ HasSender(m)
    /\ \A w \in Senders : SenderTrue(w)
    /\ RingTrue(queue, "queued") /\ RingTrue(retry, "retry")
    /\ CountsTrue

LEMMA MailsInit ==
  ASSUME Counting
  PROVE  Init => MailsTrue
  <1> SUFFICES ASSUME Init PROVE MailsTrue
    BY Zenon
  <1>1. Types
    <2>1. started \in Modes /\ sessions \in BOOLEAN /\ QueueMax \in Nat
      BY MailerAssumption, Zenon DEF Init
    <2>2. where \in [Mails -> Places] /\ tries \in [Mails -> 0..2]
      BY DEF Init, Places
    <2>3. queue \in Seq(Mails) /\ retry \in Seq(Mails) /\ Len(retry) = 0
      BY DEF Init
    <2> QED
      BY <2>1, <2>2, <2>3 DEF Init, Types
  <1>2. \A m \in Mails : MailTrue(m) /\ HasSender(m)
    BY Zenon DEF Init, MailTrue, HasSender
  <1>3. \A w \in Senders : SenderTrue(w)
    <2>1. \A w \in Senders : holds[w] = NONE /\ at[w] # "sending"
      BY Zenon DEF Init
    <2> QED
      BY <2>1, Zenon DEF SenderTrue
  <1>4. RingTrue(queue, "queued") /\ RingTrue(retry, "retry")
    <2>1. Range(<<>>) = {} /\ IsInjective(<<>>)
      BY DEF Range, IsInjective
    <2> QED
      BY <2>1, Zenon DEF Init, RingTrue
  <1>5. \A m \in Mails : where[m] = "new" /\ tries[m] = 0
    BY Zenon DEF Init
  <1>6. /\ In(Arena) = {} /\ In(Accepted) = {} /\ In({"sent"}) = {} /\ In({"failed"}) = {}
        /\ Retried = {}
    BY <1>5 DEF In, Arena, Accepted, Retried
  <1>7. CountsTrue
    BY <1>6, CountOfNone, Zenon DEF Init, CountsTrue
  <1> QED
    BY <1>1, <1>2, <1>3, <1>4, <1>7, Zenon DEF MailsTrue

\* The rings hold what their mails say, so they are as long as those are many.
LEMMA RingLengths ==
  ASSUME Counting, MailsTrue
  PROVE  /\ Len(queue) = Cardinality(In({"queued"})) /\ Len(retry) = Cardinality(In({"retry"}))
         /\ Range(queue) = In({"queued"}) /\ Range(retry) = In({"retry"})
  <1>1. queue \in Seq(Mails) /\ retry \in Seq(Mails)
    BY Zenon DEF MailsTrue, Types
  <1>2. Range(queue) = In({"queued"}) /\ Range(retry) = In({"retry"})
    BY <1>1, ListElements, Zenon DEF MailsTrue, RingTrue, In
  <1>3. IsInjective(queue) /\ IsInjective(retry)
    BY Zenon DEF MailsTrue, RingTrue
  <1> QED
    BY <1>1, <1>2, <1>3, LengthOfInjective, Zenon

\* The arenas bound what is in flight: while a mail is sent, the retry ring has room.
LEMMA RoomToRetry ==
  ASSUME Counting, MailsTrue
  PROVE  /\ Len(queue) <= QueueMax /\ Len(retry) <= QueueMax
         /\ (\E m \in Mails : where[m] = "sending") => Len(retry) < QueueMax
  <1> DEFINE c(P) == Cardinality(In(P))
  <1>1. /\ c({"queued"}) \in Nat /\ c({"retry"}) \in Nat /\ c({"sending"}) \in Nat
        /\ c({"rendering"}) \in Nat /\ c(Arena) \in Nat
    BY InFinite, SetsFinite
  <1>2. c(Arena) = c({"queued"}) + c({"rendering", "retry", "sending"})
    <2>1. {"queued"} \union {"rendering", "retry", "sending"} = Arena
      BY Zenon DEF Arena
    <2>2. {"queued"} \intersect {"rendering", "retry", "sending"} = {}
      BY Zenon
    <2> QED
      BY <2>1, <2>2, InApart, Zenon
  <1>3. c({"rendering", "retry", "sending"}) = c({"retry"}) + c({"rendering", "sending"})
    <2>1. {"retry"} \union {"rendering", "sending"} = {"rendering", "retry", "sending"}
      BY Zenon
    <2>2. {"retry"} \intersect {"rendering", "sending"} = {}
      BY Zenon
    <2> QED
      BY <2>1, <2>2, InApart, Zenon
  <1>4. c({"rendering", "sending"}) = c({"rendering"}) + c({"sending"})
    <2>1. {"rendering"} \union {"sending"} = {"rendering", "sending"}
      BY Zenon
    <2>2. {"rendering"} \intersect {"sending"} = {}
      BY Zenon
    <2> QED
      BY <2>1, <2>2, InApart, Zenon
  <1>5. (\E m \in Mails : where[m] = "sending") => c({"sending"}) # 0
    <2>1. (\E m \in Mails : where[m] = "sending") => In({"sending"}) # {}
      BY Zenon DEF In
    <2> QED
      BY <2>1, InFinite, CountOfNone, Zenon
  <1>6. c(Arena) <= QueueMax /\ QueueMax \in Nat
    BY MailerAssumption DEF MailsTrue, CountsTrue, Types
  <1>7. Len(queue) = c({"queued"}) /\ Len(retry) = c({"retry"})
    BY RingLengths, Zenon
  <1> HIDE DEF c
  <1> QED
    BY <1>1, <1>2, <1>3, <1>4, <1>5, <1>6, <1>7

LEMMA GoesEffect ==
  ASSUME where \in [Mails -> Places], NEW m \in Mails, NEW p \in Places, Goes(m, p)
  PROVE  /\ where' \in [Mails -> Places] /\ where'[m] = p
         /\ \A x \in Mails : x # m => where'[x] = where[x]
  BY Zenon DEF Goes

SendersStay == \A v \in Senders : at'[v] = "sending" <=> at[v] = "sending"

\* Steps that leave the mails alone.
LEMMA QuietTrue ==
  ASSUME MailsTrue, SendersStay,
         UNCHANGED <<where, tries, queue, retry, out, holds, stats, started, sessions>>,
         due' \in 0..Len(retry), counted' \in Nat, end' = end \/ end = "no"
  PROVE  MailsTrue'
  <1>1. Types'
    BY Zenon DEF MailsTrue, Types
  <1>2. \A m \in Mails : MailTrue(m)' /\ HasSender(m)'
    BY Zenon DEF MailsTrue, MailTrue, HasSender
  <1>3. \A w \in Senders : SenderTrue(w)'
    BY Zenon DEF MailsTrue, SenderTrue, SendersStay
  <1>4. RingTrue(queue, "queued")' /\ RingTrue(retry, "retry")'
    BY Zenon DEF MailsTrue, RingTrue
  <1>5. CountsTrue'
    BY Zenon DEF MailsTrue, CountsTrue, In, Retried
  <1> QED
    BY <1>1, <1>2, <1>3, <1>4, <1>5, Zenon DEF MailsTrue

\* A mail comes in, or is given up before it is queued.
LEMMA ComesTrue ==
  ASSUME Counting, MailsTrue, NEW m \in Mails, Enqueue(m) \/ GivesUp(m)
  PROVE  MailsTrue'
  <1>0. /\ Types /\ CountsTrue /\ QueueMax \in Nat /\ Cardinality(In(Arena)) \in Nat
        /\ where \in [Mails -> Places]
    BY MailerAssumption, InFinite, SetsFinite DEF MailsTrue, Types
  <1>1. PICK p \in {"rendering", "refused", "full"} :
          /\ Goes(m, p) /\ where[m] \in {"new", "rendering"}
          /\ \/ where[m] = "new" /\ p # "rendering" /\ out' = out
             \/ where[m] = "new" /\ p = "rendering" /\ out' = out + 1 /\ ~(out >= QueueMax)
             \/ where[m] = "rendering" /\ p # "rendering" /\ out' = out - 1
    BY Zenon DEF Enqueue, GivesUp, Refuses, Full
  <1>2. /\ UNCHANGED <<tries, queue, retry, due, holds, stats, at, started, sessions, end, counted>>
    BY Zenon DEF Enqueue, GivesUp, Refuses, ringVars, workerVars, endVars
  <1>3. /\ where' \in [Mails -> Places] /\ where'[m] = p
        /\ \A x \in Mails : x # m => where'[x] = where[x]
    <2>1. p \in Places
      BY Zenon DEF Places
    <2> QED
      BY <1>0, <1>1, <2>1, GoesEffect, Zenon
  <1>4. /\ out' = Cardinality(In(Arena))' /\ out' \in 0..QueueMax
    <2>1. out = Cardinality(In(Arena)) /\ out \in 0..QueueMax
      BY <1>0, Zenon DEF CountsTrue, Types
    <2>2. CASE where[m] = "new" /\ p # "rendering" /\ out' = out
      <3>1. where[m] \notin Arena /\ p \notin Arena
        BY <2>2, Zenon DEF Arena
      <3> QED
        BY <1>0, <1>1, <2>1, <2>2, <3>1, OneMoves
    <2>3. CASE where[m] = "new" /\ p = "rendering" /\ out' = out + 1 /\ ~(out >= QueueMax)
      <3>1. where[m] \notin Arena /\ p \in Arena
        BY <2>3, Zenon DEF Arena
      <3>2. Cardinality(In(Arena))' = Cardinality(In(Arena)) + 1
        BY <1>0, <1>1, <3>1, OneMoves
      <3> QED
        BY <1>0, <2>1, <2>3, <3>2
    <2>4. CASE where[m] = "rendering" /\ p # "rendering" /\ out' = out - 1
      <3>1. where[m] \in Arena /\ p \notin Arena
        BY <2>4, Zenon DEF Arena
      <3>2. Cardinality(In(Arena))' = Cardinality(In(Arena)) - 1 /\ Cardinality(In(Arena)) > 0
        BY <1>0, <1>1, <3>1, OneMoves
      <3> QED
        BY <1>0, <2>1, <2>4, <3>2
    <2> QED
      BY <1>1, <2>2, <2>3, <2>4, Zenon
  <1>5. /\ Cardinality(In(Accepted))' = Cardinality(In(Accepted))
        /\ Cardinality(In({"sent"}))' = Cardinality(In({"sent"}))
        /\ Cardinality(In({"failed"}))' = Cardinality(In({"failed"}))
    <2>1. /\ where[m] \notin Accepted /\ p \notin Accepted /\ where[m] \notin {"sent"} /\ p \notin {"sent"}
          /\ where[m] \notin {"failed"} /\ p \notin {"failed"}
      BY <1>1, Zenon DEF Accepted
    <2> QED
      BY <1>0, <1>1, <2>1, OneMoves
  <1>6. Retried' = Retried
    BY <1>1, <1>2, <1>3, Zenon DEF Retried
  <1>7. CountsTrue'
    BY <1>0, <1>2, <1>4, <1>5, <1>6, Zenon DEF CountsTrue
  <1>8. Types'
    BY <1>0, <1>2, <1>3, <1>4, Zenon DEF Types
  <1>9. \A x \in Mails : MailTrue(x)' /\ HasSender(x)'
    BY <1>1, <1>2, <1>3 DEF MailsTrue, MailTrue, HasSender
  <1>10. ASSUME NEW w \in Senders PROVE SenderTrue(w)'
    <2>1. SenderTrue(w) /\ (holds[w] = NONE \/ holds[w] \in Mails)
      BY Zenon DEF MailsTrue, Types
    <2> QED
      BY <1>1, <1>2, <1>3, <2>1, Zenon DEF SenderTrue
  <1>11. RingTrue(queue, "queued")' /\ RingTrue(retry, "retry")'
    BY <1>1, <1>2, <1>3, Zenon DEF MailsTrue, RingTrue
  <1> QED
    BY <1>7, <1>8, <1>9, <1>10, <1>11, Zenon DEF MailsTrue

LEMMA PushTrue ==
  ASSUME Counting, WorkInv, MailsTrue, NEW m \in Mails, Push(m)
  PROVE  MailsTrue'
  <1>0. /\ Types /\ CountsTrue /\ where \in [Mails -> Places] /\ queue \in Seq(Mails)
        /\ Cardinality(In(Accepted)) \in Nat
    BY InFinite, SetsFinite DEF MailsTrue, Types
  <1>1. /\ where[m] = "rendering" /\ Goes(m, "queued") /\ queue' = Append(queue, m)
        /\ stats' = [stats EXCEPT !["queued"] = @ + 1]
        /\ UNCHANGED <<tries, retry, due, out, holds, started, sessions, end, counted>>
    BY Zenon DEF Push, Counts, endVars
  <1>2. /\ where' \in [Mails -> Places] /\ where'[m] = "queued"
        /\ \A x \in Mails : x # m => where'[x] = where[x]
    <2>1. "queued" \in Places
      BY Zenon DEF Places
    <2> QED
      BY <1>0, <1>1, <2>1, GoesEffect, Zenon
  <1>3. SendersStay
    <2>1. MaybeSpawn(Pending + 1, at, busy)
      BY Zenon DEF Push
    <2>2. at' = at \/ \E v \in Slots : state[v] # "running" /\ at' = [at EXCEPT ![v] = "starting"]
      BY <2>1, SpawnEffect, Zenon
    <2> QED
      BY <2>2, Zenon DEF SendersStay, WorkInv, WorkTypes, WorkerTrue, Senders
  <1>4. /\ Cardinality(In(Arena))' = Cardinality(In(Arena))
        /\ Cardinality(In(Accepted))' = Cardinality(In(Accepted)) + 1
        /\ Cardinality(In({"sent"}))' = Cardinality(In({"sent"}))
        /\ Cardinality(In({"failed"}))' = Cardinality(In({"failed"}))
    <2>1. /\ where[m] \in Arena /\ "queued" \in Arena /\ where[m] \notin Accepted /\ "queued" \in Accepted
          /\ where[m] \notin {"sent"} /\ "queued" \notin {"sent"}
          /\ where[m] \notin {"failed"} /\ "queued" \notin {"failed"}
      BY <1>1, Zenon DEF Arena, Accepted
    <2> QED
      BY <1>0, <1>1, <2>1, OneMoves
  <1>5. Retried' = Retried
    BY <1>1, <1>2, Zenon DEF Retried
  <1>6. CountsTrue' /\ stats' \in [{"queued", "sent", "retried", "failed"} -> Nat]
    BY <1>0, <1>1, <1>4, <1>5 DEF CountsTrue, Types
  <1>7. Types'
    <2>1. queue' \in Seq(Mails)
      BY <1>0, <1>1
    <2> QED
      BY <1>0, <1>1, <1>2, <1>6, <2>1, Zenon DEF Types
  <1>8. \A x \in Mails : MailTrue(x)' /\ HasSender(x)'
    BY <1>1, <1>2 DEF MailsTrue, MailTrue, HasSender
  <1>9. ASSUME NEW w \in Senders PROVE SenderTrue(w)'
    <2>1. SenderTrue(w) /\ (holds[w] = NONE \/ holds[w] \in Mails)
      BY Zenon DEF MailsTrue, Types
    <2> QED
      BY <1>1, <1>2, <1>3, <2>1, Zenon DEF SenderTrue, SendersStay
  <1>10. RingTrue(retry, "retry")'
    BY <1>1, <1>2, Zenon DEF MailsTrue, RingTrue
  <1>11. RingTrue(queue, "queued")'
    <2>1. IsInjective(queue) /\ m \notin Range(queue) /\ \A x \in Mails : x \in Range(queue) <=> where[x] = "queued"
      BY <1>1, Zenon DEF MailsTrue, RingTrue
    <2>2. /\ IsInjective(queue')
          /\ \A x : x \in Range(queue') <=> x \in Range(queue) \/ x = m
      BY <1>0, <1>1, <2>1, AppendOnInjective, Zenon
    <2> QED
      BY <1>2, <2>1, <2>2, Zenon DEF RingTrue
  <1> QED
    BY <1>6, <1>7, <1>8, <1>9, <1>10, <1>11, Zenon DEF MailsTrue

\* What a sender does to the mails when it takes one.
Begins(w) ==
    /\ Something /\ Takes(w, NextDue) /\ Goes(NextDue, "sending")
    /\ tries' = [tries EXCEPT ![NextDue] = @ + 1]
    /\ holds' = [holds EXCEPT ![w] = NextDue]
    /\ UNCHANGED <<out, stats, started, sessions, end, counted>>

\* The mail that is next is waiting, and leaves its ring.
LEMMA NextIsWaiting ==
  ASSUME MailsTrue, NEW w \in Senders, Begins(w)
  PROVE  /\ NextDue \in Mails /\ where[NextDue] \in {"queued", "retry"}
         /\ tries[NextDue] = IF where[NextDue] = "retry" THEN 1 ELSE 0
         /\ queue' \in Seq(Mails) /\ retry' \in Seq(Mails) /\ due' \in 0..Len(retry')
         /\ IsInjective(queue') /\ IsInjective(retry')
         /\ \A x \in Mails : x \in Range(queue') <=> where[x] = "queued" /\ x # NextDue
         /\ \A x \in Mails : x \in Range(retry') <=> where[x] = "retry" /\ x # NextDue
  <1>1. /\ queue \in Seq(Mails) /\ retry \in Seq(Mails) /\ due \in 0..Len(retry) /\ Len(retry) \in Nat
        /\ RingTrue(queue, "queued") /\ RingTrue(retry, "retry")
    BY DEF MailsTrue, Types
  <1>2. CASE due > 0
    <2>1. retry # <<>> /\ NextDue = Head(retry) /\ IsInjective(retry)
      BY <1>1, <1>2 DEF NextDue, RingTrue
    <2>2. retry' = Tail(retry) /\ due' = due - 1 /\ queue' = queue
      BY <1>2, Zenon DEF Begins, Takes
    <2>3. /\ Head(retry) \in Range(retry) /\ IsInjective(Tail(retry))
          /\ \A x : x \in Range(Tail(retry)) <=> x \in Range(retry) /\ x # Head(retry)
      BY <1>1, <2>1, TailOfInjective, Zenon
    <2>4. Tail(retry) \in Seq(Mails) /\ Len(Tail(retry)) = Len(retry) - 1 /\ Head(retry) \in Mails
      BY <1>1, <2>1
    <2>5. due' \in 0..Len(retry')
      BY <1>1, <1>2, <2>2, <2>4
    <2>6. where[NextDue] = "retry" /\ NextDue \in Mails
      BY <1>1, <2>1, <2>3, <2>4, Zenon DEF RingTrue
    <2>7. tries[NextDue] = 1
      BY <2>6, Zenon DEF MailsTrue, MailTrue
    <2> QED
      BY <1>1, <2>1, <2>2, <2>3, <2>4, <2>5, <2>6, <2>7, Zenon DEF RingTrue
  <1>3. CASE ~(due > 0)
    <2>1. queue # <<>> /\ NextDue = Head(queue) /\ IsInjective(queue)
      BY <1>1, <1>3, Zenon DEF NextDue, RingTrue, Begins, Something
    <2>2. queue' = Tail(queue) /\ due' = due /\ retry' = retry
      BY <1>3, Zenon DEF Begins, Takes
    <2>3. /\ Head(queue) \in Range(queue) /\ IsInjective(Tail(queue))
          /\ \A x : x \in Range(Tail(queue)) <=> x \in Range(queue) /\ x # Head(queue)
      BY <1>1, <2>1, TailOfInjective, Zenon
    <2>4. Tail(queue) \in Seq(Mails) /\ Head(queue) \in Mails
      BY <1>1, <2>1
    <2>5. where[NextDue] = "queued" /\ NextDue \in Mails
      BY <1>1, <2>1, <2>3, <2>4, Zenon DEF RingTrue
    <2>6. tries[NextDue] = 0
      BY <2>5, Zenon DEF MailsTrue, MailTrue
    <2> QED
      BY <1>1, <2>1, <2>2, <2>3, <2>4, <2>5, <2>6, Zenon DEF RingTrue
  <1> QED
    BY <1>2, <1>3, Zenon

LEMMA BeginsTrue ==
  ASSUME Counting, MailsTrue, NEW w \in Senders, Begins(w), at[w] # "sending", at'[w] = "sending",
         \A v \in Senders : v # w => (at'[v] = "sending" <=> at[v] = "sending")
  PROVE  MailsTrue'
  <1>1. PICK m \in Mails : m = NextDue
    BY NextIsWaiting, Zenon
  <1>2. /\ where[m] \in {"queued", "retry"} /\ tries[m] = IF where[m] = "retry" THEN 1 ELSE 0
        /\ queue' \in Seq(Mails) /\ retry' \in Seq(Mails) /\ due' \in 0..Len(retry')
        /\ IsInjective(queue') /\ IsInjective(retry')
        /\ \A x \in Mails : x \in Range(queue') <=> where[x] = "queued" /\ x # m
        /\ \A x \in Mails : x \in Range(retry') <=> where[x] = "retry" /\ x # m
    BY <1>1, NextIsWaiting, Zenon
  <1>3. /\ Goes(m, "sending") /\ tries' = [tries EXCEPT ![m] = @ + 1]
        /\ holds' = [holds EXCEPT ![w] = m]
        /\ UNCHANGED <<out, stats, started, sessions, end, counted>>
    BY <1>1, Zenon DEF Begins
  <1>4. /\ Types /\ CountsTrue /\ where \in [Mails -> Places] /\ tries \in [Mails -> 0..2]
        /\ holds \in [Senders -> Mails \union {NONE}] /\ NONE \notin Mails
    BY MailerAssumption, Zenon DEF MailsTrue, Types
  <1>5. /\ where' \in [Mails -> Places] /\ where'[m] = "sending"
        /\ \A x \in Mails : x # m => where'[x] = where[x]
    <2>1. "sending" \in Places
      BY Zenon DEF Places
    <2> QED
      BY <1>3, <1>4, <2>1, GoesEffect, Zenon
  <1>6. /\ tries' \in [Mails -> 0..2] /\ tries'[m] = IF where[m] = "retry" THEN 2 ELSE 1
        /\ \A x \in Mails : x # m => tries'[x] = tries[x]
    BY <1>2, <1>3, <1>4
  <1>7. /\ holds' \in [Senders -> Mails \union {NONE}] /\ holds'[w] = m
        /\ \A v \in Senders : v # w => holds'[v] = holds[v]
    BY <1>3, <1>4, Zenon
  <1>8. \A v \in Senders : holds[v] # m
    BY <1>2, <1>4 DEF MailsTrue, SenderTrue
  <1>9. /\ Cardinality(In(Arena))' = Cardinality(In(Arena))
        /\ Cardinality(In(Accepted))' = Cardinality(In(Accepted))
        /\ Cardinality(In({"sent"}))' = Cardinality(In({"sent"}))
        /\ Cardinality(In({"failed"}))' = Cardinality(In({"failed"}))
    <2>1. /\ where[m] \in Arena /\ "sending" \in Arena /\ where[m] \in Accepted /\ "sending" \in Accepted
          /\ where[m] \notin {"sent"} /\ "sending" \notin {"sent"}
          /\ where[m] \notin {"failed"} /\ "sending" \notin {"failed"}
      BY <1>2, ZenonT(60) DEF Arena, Accepted
    <2>2. Cardinality(In(Arena))' = Cardinality(In(Arena))
      BY <1>3, <1>4, <2>1, OneMoves, Zenon
    <2>3. Cardinality(In(Accepted))' = Cardinality(In(Accepted))
      BY <1>3, <1>4, <2>1, OneMoves, Zenon
    <2>4. Cardinality(In({"sent"}))' = Cardinality(In({"sent"}))
      BY <1>3, <1>4, <2>1, OneMoves, Zenon
    <2>5. Cardinality(In({"failed"}))' = Cardinality(In({"failed"}))
      BY <1>3, <1>4, <2>1, OneMoves, Zenon
    <2> QED
      BY <2>2, <2>3, <2>4, <2>5, Zenon
  <1>10. Retried' = Retried
    BY <1>2, <1>5, <1>6 DEF Retried
  <1>11. CountsTrue'
    BY <1>3, <1>4, <1>9, <1>10, Zenon DEF CountsTrue
  <1>12. Types'
    BY <1>2, <1>3, <1>4, <1>5, <1>6, <1>7, ZenonT(60) DEF Types
  <1>13. ASSUME NEW x \in Mails PROVE MailTrue(x)' /\ HasSender(x)'
    <2>1. MailTrue(x) /\ HasSender(x)
      BY Zenon DEF MailsTrue
    <2>2. MailTrue(x)'
      BY <1>3, <1>5, <1>6, <2>1, ZenonT(60) DEF MailTrue
    <2>3. HasSender(x)'
      <3>1. ASSUME x # m, where[x] = "sending" PROVE \E v \in Senders : holds'[v] = x
        <4>1. PICK v \in Senders : holds[v] = x
          BY <2>1, <3>1, Zenon DEF HasSender
        <4>2. v # w
          BY <1>4, <4>1, Zenon DEF MailsTrue, SenderTrue
        <4> QED
          BY <1>7, <4>1, <4>2, Zenon
      <3> QED
        BY <1>5, <1>7, <3>1, Zenon DEF HasSender
    <2> QED
      BY <2>2, <2>3, Zenon
  <1>14. ASSUME NEW v \in Senders PROVE SenderTrue(v)'
    <2>1. SenderTrue(v) /\ (holds[v] = NONE \/ holds[v] \in Mails)
      BY <1>4, Zenon DEF MailsTrue
    <2>2. CASE v = w
      BY <1>4, <1>5, <1>7, <1>8, <2>2, Zenon DEF SenderTrue
    <2>3. CASE v # w
      <3>1. holds'[v] = holds[v] /\ holds[v] # m /\ (holds[v] # NONE => where'[holds[v]] = where[holds[v]])
        BY <1>5, <1>7, <1>8, <2>1, <2>3, Zenon
      <3>2. \A u \in Senders : holds'[u] = holds[v] /\ holds[v] # NONE => u = v
        BY <1>7, <1>8, <2>1, <2>3, Zenon DEF SenderTrue
      <3> QED
        BY <2>1, <2>3, <3>1, <3>2, Zenon DEF SenderTrue
    <2> QED
      BY <2>2, <2>3, Zenon
  <1>15. RingTrue(queue, "queued")' /\ RingTrue(retry, "retry")'
    BY <1>2, <1>5, Zenon DEF RingTrue
  <1> QED
    BY <1>11, <1>12, <1>13, <1>14, <1>15, Zenon DEF MailsTrue

\* The end of an attempt: a mail that fails for the first time always finds room to be retried.
LEMMA FinishEffect ==
  ASSUME Counting, MailsTrue, NEW w \in Senders, NEW ok \in BOOLEAN, at[w] = "sending", Finish(w, ok)
  PROVE  \E m \in Mails, p \in {"sent", "retry", "failed"} :
           /\ m = holds[w] /\ where[m] = "sending" /\ tries[m] \in {1, 2} /\ Goes(m, p)
           /\ holds' = [holds EXCEPT ![w] = NONE]
           /\ p = "sent" => Counts("sent") /\ out' = out - 1 /\ retry' = retry
           /\ p = "failed" => Counts("failed") /\ out' = out - 1 /\ retry' = retry /\ tries[m] = 2
           /\ p = "retry" => /\ Counts("retried") /\ out' = out /\ tries[m] = 1
                             /\ retry' = Append(retry, m)
           /\ UNCHANGED <<tries, queue, due, started, sessions, end, counted>>
  <1>1. holds[w] \in Mails /\ where[holds[w]] = "sending"
    BY Zenon DEF MailsTrue, Types, SenderTrue
  <1>2. tries[holds[w]] \in {1, 2} /\ Len(retry) < QueueMax
    BY <1>1, RoomToRetry, Zenon DEF MailsTrue, MailTrue
  <1>3. /\ holds' = [holds EXCEPT ![w] = NONE]
        /\ UNCHANGED <<tries, queue, due, started, sessions, end, counted>>
    BY Zenon DEF Finish, endVars
  <1>4. CASE ok
    BY <1>1, <1>2, <1>3, <1>4, Zenon DEF Finish, Returns
  <1>5. CASE ~ok /\ tries[holds[w]] = 1
    BY <1>1, <1>2, <1>3, <1>5 DEF Finish, Returns, TriedBefore
  <1>6. CASE ~ok /\ tries[holds[w]] = 2
    BY <1>1, <1>2, <1>3, <1>6 DEF Finish, Returns, TriedBefore
  <1> QED
    BY <1>2, <1>4, <1>5, <1>6, Zenon

LEMMA FinishTrue ==
  ASSUME Counting, MailsTrue, NEW w \in Senders, NEW ok \in BOOLEAN, at[w] = "sending", Finish(w, ok),
         at'[w] # "sending",
         \A v \in Senders : v # w => (at'[v] = "sending" <=> at[v] = "sending")
  PROVE  MailsTrue'
  <1>1. PICK m \in Mails, p \in {"sent", "retry", "failed"} :
           /\ m = holds[w] /\ where[m] = "sending" /\ tries[m] \in {1, 2} /\ Goes(m, p)
           /\ holds' = [holds EXCEPT ![w] = NONE]
           /\ p = "sent" => Counts("sent") /\ out' = out - 1 /\ retry' = retry
           /\ p = "failed" => Counts("failed") /\ out' = out - 1 /\ retry' = retry /\ tries[m] = 2
           /\ p = "retry" => /\ Counts("retried") /\ out' = out /\ tries[m] = 1
                             /\ retry' = Append(retry, m)
           /\ UNCHANGED <<tries, queue, due, started, sessions, end, counted>>
    BY FinishEffect, ZenonT(60)
  <1>2. /\ Types /\ CountsTrue /\ where \in [Mails -> Places] /\ retry \in Seq(Mails)
        /\ holds \in [Senders -> Mails \union {NONE}] /\ NONE \notin Mails
        /\ QueueMax \in Nat /\ due \in 0..Len(retry) /\ Len(retry) \in Nat
        /\ out \in 0..QueueMax /\ stats \in [{"queued", "sent", "retried", "failed"} -> Nat]
    BY MailerAssumption DEF MailsTrue, Types
  <1>3. /\ where' \in [Mails -> Places] /\ where'[m] = p
        /\ \A x \in Mails : x # m => where'[x] = where[x]
    <2>1. p \in Places
      BY Zenon DEF Places
    <2> QED
      BY <1>1, <1>2, <2>1, GoesEffect, Zenon
  <1>4. /\ holds' \in [Senders -> Mails \union {NONE}] /\ holds'[w] = NONE
        /\ \A v \in Senders : v # w => holds'[v] = holds[v] /\ holds[v] # m
    BY <1>1, <1>2, Zenon DEF MailsTrue, SenderTrue
  <1>5. /\ Cardinality(In(Arena)) \in Nat /\ Cardinality(In({"sent"})) \in Nat
        /\ Cardinality(In({"failed"})) \in Nat /\ Cardinality(Retried) \in Nat
        /\ IsFiniteSet(Retried)
    BY InFinite, RetriedFinite, SetsFinite
  <1>6. Cardinality(In(Accepted))' = Cardinality(In(Accepted))
    <2>1. where[m] \in Accepted /\ p \in Accepted
      BY <1>1, Zenon DEF Accepted
    <2> QED
      BY <1>1, <1>2, <2>1, OneMoves
  <1>7. /\ out' = Cardinality(In(Arena))' /\ out' \in 0..QueueMax
    <2>1. where[m] \in Arena /\ (p \in Arena <=> p = "retry")
      BY <1>1, Zenon DEF Arena
    <2>2. CASE p = "retry"
      BY <1>1, <1>2, <2>1, <2>2, OneMoves DEF CountsTrue
    <2>3. CASE p # "retry"
      <3>1. /\ Cardinality(In(Arena))' = Cardinality(In(Arena)) - 1 /\ Cardinality(In(Arena)) > 0
        BY <1>1, <1>2, <2>1, <2>3, OneMoves
      <3> QED
        BY <1>1, <1>2, <1>5, <2>3, <3>1 DEF CountsTrue
    <2> QED
      BY <2>2, <2>3, Zenon
  <1>8. /\ Cardinality(In({"sent"}))' = Cardinality(In({"sent"})) + (IF p = "sent" THEN 1 ELSE 0)
        /\ Cardinality(In({"failed"}))' = Cardinality(In({"failed"})) + (IF p = "failed" THEN 1 ELSE 0)
    <2>0. Counting /\ m \in Mails /\ where \in [Mails -> Places] /\ Goes(m, p)
      BY <1>1, <1>2, Zenon
    <2>1. /\ where[m] \notin {"sent"} /\ (p \in {"sent"} <=> p = "sent")
          /\ where[m] \notin {"failed"} /\ (p \in {"failed"} <=> p = "failed")
      BY <1>1, Zenon
    <2>2. Cardinality(In({"sent"}))' = Cardinality(In({"sent"})) + (IF p = "sent" THEN 1 ELSE 0)
      <3>1. CASE p = "sent"
        <4>1. where[m] \notin {"sent"} /\ p \in {"sent"}
          BY <2>1, <3>1, Zenon
        <4>2. Cardinality(In({"sent"}))' = Cardinality(In({"sent"})) + 1
          BY <2>0, <4>1, OneMoves, Zenon
        <4> QED
          BY <3>1, <4>2, Zenon
      <3>2. CASE p # "sent"
        <4>1. where[m] \notin {"sent"} /\ p \notin {"sent"}
          BY <2>1, <3>2, Zenon
        <4>2. Cardinality(In({"sent"}))' = Cardinality(In({"sent"}))
          BY <2>0, <4>1, OneMoves, Zenon
        <4> QED
          BY <1>5, <3>2, <4>2
      <3> QED
        BY <3>1, <3>2, Zenon
    <2>3. Cardinality(In({"failed"}))' = Cardinality(In({"failed"})) + (IF p = "failed" THEN 1 ELSE 0)
      <3>1. CASE p = "failed"
        <4>1. where[m] \notin {"failed"} /\ p \in {"failed"}
          BY <2>1, <3>1, Zenon
        <4>2. Cardinality(In({"failed"}))' = Cardinality(In({"failed"})) + 1
          BY <2>0, <4>1, OneMoves, Zenon
        <4> QED
          BY <3>1, <4>2, Zenon
      <3>2. CASE p # "failed"
        <4>1. where[m] \notin {"failed"} /\ p \notin {"failed"}
          BY <2>1, <3>2, Zenon
        <4>2. Cardinality(In({"failed"}))' = Cardinality(In({"failed"}))
          BY <2>0, <4>1, OneMoves, Zenon
        <4> QED
          BY <1>5, <3>2, <4>2
      <3> QED
        BY <3>1, <3>2, Zenon
    <2> QED
      BY <2>2, <2>3, Zenon
  <1>9. Cardinality(Retried)' = Cardinality(Retried) + (IF p = "retry" THEN 1 ELSE 0)
    <2>1. CASE p = "retry"
      <3>1. Retried' = Retried \union {m} /\ m \notin Retried
        BY <1>1, <1>3, <2>1 DEF Retried
      <3>2. Cardinality(Retried \union {m}) = Cardinality(Retried) + 1
        BY <1>5, <3>1, CountAdding, Zenon
      <3> QED
        BY <2>1, <3>1, <3>2, Zenon
    <2>2. CASE p # "retry"
      <3>1. Retried' = Retried
        BY <1>1, <1>3, <2>2, Zenon DEF Retried
      <3> QED
        BY <1>5, <2>2, <3>1
    <2> QED
      BY <2>1, <2>2, Zenon
  <1>10. /\ stats' \in [{"queued", "sent", "retried", "failed"} -> Nat]
         /\ stats'["queued"] = stats["queued"]
         /\ stats'["sent"] = stats["sent"] + (IF p = "sent" THEN 1 ELSE 0)
         /\ stats'["failed"] = stats["failed"] + (IF p = "failed" THEN 1 ELSE 0)
         /\ stats'["retried"] = stats["retried"] + (IF p = "retry" THEN 1 ELSE 0)
    <2>1. CASE p = "sent"
      BY <1>1, <1>2, <2>1 DEF Counts
    <2>2. CASE p = "failed"
      BY <1>1, <1>2, <2>2 DEF Counts
    <2>3. CASE p = "retry"
      BY <1>1, <1>2, <2>3 DEF Counts
    <2> QED
      BY <2>1, <2>2, <2>3, Zenon
  <1>11. CountsTrue'
    BY <1>2, <1>6, <1>7, <1>8, <1>9, <1>10, Zenon DEF CountsTrue
  <1>12. /\ retry' \in Seq(Mails) /\ due' \in 0..Len(retry') /\ RingTrue(retry, "retry")'
    <2>1. IsInjective(retry) /\ m \notin Range(retry) /\ \A x \in Mails : x \in Range(retry) <=> where[x] = "retry"
      BY <1>1, Zenon DEF MailsTrue, RingTrue
    <2>2. CASE p = "retry"
      <3>1. /\ Append(retry, m) \in Seq(Mails) /\ Len(Append(retry, m)) = Len(retry) + 1
        BY <1>2
      <3>2. /\ IsInjective(Append(retry, m))
            /\ \A x : x \in Range(Append(retry, m)) <=> x \in Range(retry) \/ x = m
        BY <1>2, <2>1, AppendOnInjective, ZenonT(60)
      <3>3. retry' = Append(retry, m) /\ due' = due
        BY <1>1, <2>2, Zenon
      <3>4. due' \in 0..Len(retry')
        BY <1>2, <3>1, <3>3
      <3> QED
        BY <1>3, <2>1, <2>2, <3>1, <3>2, <3>3, <3>4, Zenon DEF RingTrue
    <2>3. CASE p # "retry"
      <3>1. retry' = retry /\ due' = due
        BY <1>1, <2>3, Zenon
      <3> QED
        BY <1>1, <1>2, <1>3, <2>1, <2>3, <3>1 DEF RingTrue
    <2> QED
      BY <2>2, <2>3, Zenon
  <1>13. Types'
    BY <1>1, <1>2, <1>3, <1>4, <1>7, <1>10, <1>12, Zenon DEF Types
  <1>14. ASSUME NEW x \in Mails PROVE MailTrue(x)' /\ HasSender(x)'
    <2>1. MailTrue(x) /\ HasSender(x)
      BY Zenon DEF MailsTrue
    <2>2. MailTrue(x)'
      BY <1>1, <1>3, <2>1, Zenon DEF MailTrue
    <2>3. HasSender(x)'
      <3>1. ASSUME x # m, where[x] = "sending" PROVE \E v \in Senders : holds'[v] = x
        <4>1. PICK v \in Senders : holds[v] = x
          BY <2>1, <3>1, Zenon DEF HasSender
        <4> QED
          BY <1>1, <1>4, <3>1, <4>1, Zenon
      <3> QED
        BY <1>3, <3>1, Zenon DEF HasSender
    <2> QED
      BY <2>2, <2>3, Zenon
  <1>15. ASSUME NEW v \in Senders PROVE SenderTrue(v)'
    <2>1. SenderTrue(v) /\ (holds[v] = NONE \/ holds[v] \in Mails)
      BY <1>2, Zenon DEF MailsTrue
    <2>2. CASE v = w
      BY <1>4, <2>2, Zenon DEF SenderTrue
    <2>3. CASE v # w
      <3>1. holds'[v] = holds[v] /\ (holds[v] # NONE => where'[holds[v]] = where[holds[v]])
        BY <1>3, <1>4, <2>1, <2>3, Zenon
      <3>2. \A u \in Senders : holds'[u] = holds[v] /\ holds[v] # NONE => u = v
        BY <1>4, <2>1, <2>3, Zenon DEF SenderTrue
      <3> QED
        BY <2>1, <2>3, <3>1, <3>2, Zenon DEF SenderTrue
    <2> QED
      BY <2>2, <2>3, Zenon
  <1>16. RingTrue(queue, "queued")'
    BY <1>1, <1>3, ZenonT(60) DEF MailsTrue, RingTrue
  <1> QED
    BY <1>11, <1>12, <1>13, <1>14, <1>15, <1>16, ZenonT(60) DEF MailsTrue

\* sc_mailer_destroy empties both rings.
LEMMA FreedTrue ==
  ASSUME Counting, MailsTrue, Freed
  PROVE  MailsTrue' /\ Cardinality(In({"dropped"}))' = Len(queue) + Len(retry)
  <1>1. /\ where \in [Mails -> Places] /\ end' = "freed" /\ end # "freed"
        /\ where' = [m \in Mails |-> IF where[m] \in {"queued", "retry"} THEN "dropped" ELSE where[m]]
        /\ out' = out - Cardinality(Range(queue) \union Range(retry))
        /\ queue' = <<>> /\ retry' = <<>> /\ due' = 0
        /\ UNCHANGED <<started, sessions, tries, at, holds, stats, counted>>
        /\ \A m \in Mails : where[m] # "rendering"
    BY Zenon DEF Freed, WaitingMails, workerVars, MailsTrue, Types
  <1>2. /\ where' \in [Mails -> Places]
        /\ \A m \in Mails : where'[m] = IF where[m] \in {"queued", "retry"} THEN "dropped" ELSE where[m]
    BY <1>1, Zenon DEF Places
  <1>3. \A m \in Mails : MailTrue(m) /\ HasSender(m) /\ where[m] # "dropped"
    BY <1>1, Zenon DEF MailsTrue, MailTrue
  <1>4. /\ In({"dropped"})' = In({"queued", "retry"}) /\ In(Accepted)' = In(Accepted)
        /\ In({"sent"})' = In({"sent"}) /\ In({"failed"})' = In({"failed"})
        /\ In(Arena)' = In({"rendering", "sending"})
    BY <1>2, <1>3, Zenon DEF In, Accepted, Arena
  <1>5. Retried' = Retried
    BY <1>1, <1>2, <1>3 DEF Retried, MailTrue
  <1>6. /\ Cardinality(In({"queued", "retry"})) = Len(queue) + Len(retry)
        /\ Range(queue) \union Range(retry) = In({"queued", "retry"})
    <2>1. {"queued"} \intersect {"retry"} = {} /\ {"queued"} \union {"retry"} = {"queued", "retry"}
      BY Zenon
    <2>2. Cardinality(In({"queued"} \union {"retry"})) = Cardinality(In({"queued"})) + Cardinality(In({"retry"}))
      BY <2>1, InApart, Zenon
    <2>3. In({"queued", "retry"}) = In({"queued"}) \union In({"retry"})
      BY Zenon DEF In
    <2> QED
      BY <2>1, <2>2, <2>3, RingLengths, Zenon
  <1>7. /\ Cardinality(In(Arena)) = Cardinality(In({"queued", "retry"})) + Cardinality(In({"rendering", "sending"}))
        /\ Cardinality(In({"queued", "retry"})) \in Nat /\ Cardinality(In({"rendering", "sending"})) \in Nat
    <2>1. /\ {"queued", "retry"} \intersect {"rendering", "sending"} = {}
          /\ {"queued", "retry"} \union {"rendering", "sending"} = Arena
      BY Zenon DEF Arena
    <2>2. Cardinality(In({"queued", "retry"} \union {"rendering", "sending"})) =
            Cardinality(In({"queued", "retry"})) + Cardinality(In({"rendering", "sending"}))
      BY <2>1, InApart, Zenon
    <2>3. Cardinality(In({"queued", "retry"})) \in Nat /\ Cardinality(In({"rendering", "sending"})) \in Nat
      BY InFinite, SetsFinite
    <2> QED
      BY <2>1, <2>2, <2>3, Zenon
  <1>8. out' = Cardinality(In(Arena))' /\ out' \in 0..QueueMax
    <2>1. out = Cardinality(In(Arena)) /\ out \in 0..QueueMax /\ QueueMax \in Nat
      BY MailerAssumption, Zenon DEF MailsTrue, CountsTrue, Types
    <2>2. out' = out - Cardinality(In({"queued", "retry"}))
      BY <1>1, <1>6, ZenonT(60)
    <2>3. out' = Cardinality(In({"rendering", "sending"})) /\ out' \in 0..QueueMax
      BY <1>7, <2>1, <2>2
    <2> QED
      BY <1>4, <2>3, Zenon
  <1>9. CountsTrue'
    BY <1>1, <1>4, <1>5, <1>8, Zenon DEF MailsTrue, CountsTrue
  <1>10. Types'
    BY <1>1, <1>2, <1>8 DEF MailsTrue, Types
  <1>11. \A m \in Mails : MailTrue(m)' /\ HasSender(m)'
    BY <1>1, <1>2, <1>3, Zenon DEF MailTrue, HasSender
  <1>12. ASSUME NEW v \in Senders PROVE SenderTrue(v)'
    <2>1. SenderTrue(v) /\ (holds[v] = NONE \/ holds[v] \in Mails)
      BY Zenon DEF MailsTrue, Types
    <2> QED
      BY <1>1, <1>2, <2>1, Zenon DEF SenderTrue
  <1>13. RingTrue(queue, "queued")' /\ RingTrue(retry, "retry")'
    <2>1. IsInjective(<<>>) /\ Range(<<>>) = {}
      BY DEF IsInjective, Range
    <2>2. \A m \in Mails : where'[m] # "queued" /\ where'[m] # "retry"
      BY <1>2, Zenon
    <2> QED
      BY <1>1, <2>1, <2>2, Zenon DEF RingTrue
  <1> QED
    BY <1>4, <1>6, <1>9, <1>10, <1>11, <1>12, <1>13, Zenon DEF MailsTrue

LEMMA TakeTrue ==
  ASSUME Counting, WorkInv, MailsTrue, NEW w \in Slots, Take(w)
  PROVE  MailsTrue'
  <1>1. w \in Senders /\ at[w] = "loop" /\ state[w] = "running" /\ at \in [Senders -> {"none", "starting",
          "loop", "waiting", "sending", "leaving", "gone"}]
    BY Zenon DEF Take, WorkInv, WorkTypes, WorkerTrue, Senders
  <1>2. Begins(w)
    BY Zenon DEF Take, Begins, MayTake, endVars
  <1>3. MaybeSpawn(Pending - 1, [at EXCEPT ![w] = "sending"], [busy EXCEPT ![w] = TRUE])
    BY Zenon DEF Take
  <1>4. \/ at' = [at EXCEPT ![w] = "sending"]
        \/ \E v \in Slots : /\ state[v] # "running"
                            /\ at' = [[at EXCEPT ![w] = "sending"] EXCEPT ![v] = "starting"]
    BY <1>3, SpawnEffect, Zenon
  <1>5. /\ at'[w] = "sending"
        /\ \A u \in Senders : u # w => (at'[u] = "sending" <=> at[u] = "sending")
    <2>1. CASE at' = [at EXCEPT ![w] = "sending"]
      BY <1>1, <2>1, Zenon
    <2>2. ASSUME NEW v \in Slots, state[v] # "running",
                 at' = [[at EXCEPT ![w] = "sending"] EXCEPT ![v] = "starting"]
          PROVE  /\ at'[w] = "sending"
                 /\ \A u \in Senders : u # w => (at'[u] = "sending" <=> at[u] = "sending")
      <3>1. v # w /\ v \in Senders /\ at[v] # "sending"
        BY <1>1, <2>2, Zenon DEF WorkInv, WorkTypes, WorkerTrue, Senders
      <3> QED
        BY <1>1, <2>2, <3>1, Zenon
    <2> QED
      BY <1>4, <2>1, <2>2, Zenon
  <1> QED
    BY <1>1, <1>2, <1>5, BeginsTrue, Zenon

LEMMA FlushTrue ==
  ASSUME Counting, WorkInv, MailsTrue, Flush
  PROVE  MailsTrue'
  <1>1. Flusher \in Senders /\ at[Flusher] = "none" /\ at' = [at EXCEPT ![Flusher] = "sending"]
    BY Zenon DEF Flush, Senders
  <1>2. Begins(Flusher)
    BY Zenon DEF Flush, Begins, endVars
  <1>3. /\ at'[Flusher] = "sending"
        /\ \A u \in Senders : u # Flusher => (at'[u] = "sending" <=> at[u] = "sending")
    BY <1>1, Zenon DEF WorkInv, WorkTypes
  <1> QED
    BY <1>1, <1>2, <1>3, BeginsTrue, Zenon

LEMMA AttemptEnds ==
  ASSUME Counting, WorkInv, MailsTrue, NEW ok \in BOOLEAN, NEW w \in Slots, Sent(w, ok) \/ Flushed(ok)
  PROVE  MailsTrue'
  <1>1. PICK v \in Senders : /\ at[v] = "sending" /\ Finish(v, ok)
                             /\ at' = [at EXCEPT ![v] = "loop"] \/ at' = [at EXCEPT ![v] = "none"]
    BY Zenon DEF Sent, Flushed, Senders
  <1>2. at'[v] # "sending" /\ \A u \in Senders : u # v => (at'[u] = "sending" <=> at[u] = "sending")
    BY <1>1, Zenon DEF WorkInv, WorkTypes
  <1> QED
    BY <1>1, <1>2, FinishTrue, Zenon

LEMMA QuietStep ==
  ASSUME WorkInv, MailsTrue, NEW w \in Slots,
         \/ Open(w) \/ Wait(w) \/ WakeUp(w) \/ StopSeen(w) \/ Exit(w) \/ Linger(w)
         \/ RetryDue \/ Destroy \/ UNCHANGED vars
  PROVE  MailsTrue'
  <1>1. /\ UNCHANGED <<where, tries, queue, retry, out, holds, stats, started, sessions>>
        /\ end' = end \/ end = "no"
    BY Zenon DEF Open, Wait, WakeUp, StopSeen, Exit, Linger, RetryDue, Destroy, vars, ringVars, endVars
  <1>2. queue \in Seq(Mails) /\ retry \in Seq(Mails) /\ due \in 0..Len(retry) /\ counted \in Nat
    BY Zenon DEF MailsTrue, Types
  <1>3. Len(queue) \in Nat /\ Len(retry) \in Nat
    BY <1>2
  <1>4. due' \in 0..Len(retry)
    <2>1. due' = due \/ (due < Len(retry) /\ due' = due + 1)
      BY Zenon DEF Open, Wait, WakeUp, StopSeen, Exit, Linger, RetryDue, Destroy, vars, ringVars
    <2> QED
      BY <1>2, <1>3, <2>1
  <1>5. counted' \in Nat
    <2>1. counted' = counted \/ counted' = Len(queue) + Len(retry)
      BY Zenon DEF Open, Wait, WakeUp, StopSeen, Exit, Linger, RetryDue, Destroy, Pending, vars, endVars
    <2> QED
      BY <1>2, <1>3, <2>1
  <1>6. SendersStay
    <2>1. w \in Senders /\ at \in [Senders -> {"none", "starting", "loop", "waiting", "sending", "leaving", "gone"}]
      BY Zenon DEF Senders, WorkInv, WorkTypes
    <2>2. \/ at' = at
          \/ /\ at[w] # "sending"
             /\ \E p \in {"loop", "waiting", "leaving", "gone"} : at' = [at EXCEPT ![w] = p]
      <3>1. CASE Open(w)
        BY <3>1, Zenon DEF Open, Retires
      <3>2. CASE Wait(w) \/ WakeUp(w) \/ Exit(w)
        BY <3>2, Zenon DEF Wait, WakeUp, Exit
      <3>3. CASE StopSeen(w) \/ Linger(w)
        BY <3>3, Zenon DEF StopSeen, Linger, Retires
      <3>4. CASE RetryDue \/ Destroy \/ UNCHANGED vars
        BY <3>4, Zenon DEF RetryDue, Destroy, vars, workerVars
      <3> QED
        BY <3>1, <3>2, <3>3, <3>4, Zenon
    <2> QED
      BY <2>1, <2>2, Zenon DEF SendersStay
  <1> QED
    BY <1>1, <1>4, <1>5, <1>6, QuietTrue, Zenon

LEMMA MailsStep ==
  ASSUME Counting, WorkInv, MailsTrue, [Next]_vars
  PROVE  MailsTrue'
  <1>0. 0 \in Slots
    BY MailerAssumption DEF Slots
  <1>1. ASSUME NEW m \in Mails, Enqueue(m) \/ Push(m) \/ GivesUp(m) PROVE MailsTrue'
    BY <1>1, ComesTrue, PushTrue, Zenon
  <1>2. ASSUME NEW w \in Slots, WorkerSteps(w) \/ Linger(w) PROVE MailsTrue'
    <2>1. CASE Open(w) \/ Wait(w) \/ WakeUp(w) \/ StopSeen(w) \/ Exit(w) \/ Linger(w)
      BY <2>1, QuietStep, Zenon
    <2>2. CASE Take(w)
      BY <2>2, TakeTrue, Zenon
    <2>3. CASE Sent(w, TRUE) \/ Sent(w, FALSE)
      BY <2>3, AttemptEnds, Zenon
    <2> QED
      BY <1>2, <2>1, <2>2, <2>3, Zenon DEF WorkerSteps
  <1>3. CASE Flush
    BY <1>3, FlushTrue, Zenon
  <1>4. CASE Flushed(TRUE) \/ Flushed(FALSE)
    BY <1>0, <1>4, AttemptEnds, Zenon
  <1>5. CASE RetryDue \/ Destroy \/ UNCHANGED vars
    BY <1>0, <1>5, QuietStep, Zenon
  <1>6. CASE Freed
    BY <1>6, FreedTrue, Zenon
  <1> QED
    BY <1>1, <1>2, <1>3, <1>4, <1>5, <1>6, ZenonT(60) DEF Next

-----------------------------------------------------------------------------
(* What the warning of sc_mailer_destroy counts.                             *)

EndTrue ==
    /\ end = "no" => counted = 0
    /\ end = "stopping" => counted <= Len(queue) + Len(retry)
    /\ end = "freed" => counted <= Cardinality(In({"dropped"}))

LEMMA EndStep ==
  ASSUME Counting, WorkInv, MailsTrue, EndTrue, [Next]_vars
  PROVE  EndTrue'
  <1>0. /\ end \in {"no", "stopping", "freed"} /\ retry \in Seq(Mails) /\ Len(queue) \in Nat
        /\ Len(retry) \in Nat /\ counted \in Nat
    BY DEF WorkInv, WorkTypes, MailsTrue, Types
  <1>1. CASE Destroy
    BY <1>0, <1>1 DEF Destroy, EndTrue, Pending, ringVars
  <1>2. CASE Freed
    <2>1. Cardinality(In({"dropped"}))' = Len(queue) + Len(retry) /\ end = "stopping" /\ end' = "freed" /\ counted' = counted
      BY <1>2, FreedTrue, Zenon DEF Freed
    <2> QED
      BY <2>1, Zenon DEF EndTrue
  <1>3. CASE ~Destroy /\ ~Freed /\ end = "no"
    <2>1. end' = end /\ counted' = counted
      BY <1>3, Zenon DEF Next, WorkerSteps, Enqueue, GivesUp, Refuses, Push, Open, Wait, WakeUp, Take, StopSeen, Exit, Sent,
         Linger, Flush, Flushed, Finish, RetryDue, vars, endVars
    <2> QED
      BY <1>3, <2>1, Zenon DEF EndTrue
  <1>4. CASE ~Destroy /\ ~Freed /\ end = "stopping"
    <2>1. ~MayTake /\ Stopping /\ Closed
      BY <1>4, Zenon DEF MayTake, Stopping, Closed
    <2>2. end' = end /\ counted' = counted
      BY <1>4, Zenon DEF Next, WorkerSteps, Enqueue, GivesUp, Refuses, Push, Open, Wait, WakeUp, Take, StopSeen, Exit, Sent,
         Linger, Flush, Flushed, Finish, RetryDue, vars, endVars
    <2>3. UNCHANGED <<queue, retry>> \/ \E w \in Senders, ok \in BOOLEAN : at[w] = "sending" /\ Finish(w, ok)
      <3>1. ASSUME NEW m \in Mails, Enqueue(m) \/ Push(m) \/ GivesUp(m) PROVE UNCHANGED <<queue, retry>>
        BY <2>1, <3>1, Zenon DEF Enqueue, Push, GivesUp, Refuses, ringVars
      <3>2. ASSUME NEW w \in Slots, Open(w) \/ Wait(w) \/ WakeUp(w) \/ StopSeen(w) \/ Exit(w) \/ Linger(w) \/ Take(w)
            PROVE  UNCHANGED <<queue, retry>>
        BY <2>1, <3>2, Zenon DEF Open, Wait, WakeUp, StopSeen, Exit, Linger, Take, ringVars
      <3>3. ASSUME NEW w \in Slots, Sent(w, TRUE) \/ Sent(w, FALSE)
            PROVE  \E v \in Senders, ok \in BOOLEAN : at[v] = "sending" /\ Finish(v, ok)
        BY <3>3, Zenon DEF Sent, Senders
      <3>4. ASSUME Flushed(TRUE) \/ Flushed(FALSE)
            PROVE  \E v \in Senders, ok \in BOOLEAN : at[v] = "sending" /\ Finish(v, ok)
        BY <3>4, ZenonT(60) DEF Flushed, Senders
      <3>5. CASE Flush \/ RetryDue \/ UNCHANGED vars
        BY <2>1, <3>5, Zenon DEF Flush, RetryDue, vars, ringVars
      <3> QED
        BY <1>4, <3>1, <3>2, <3>3, <3>4, <3>5, ZenonT(60) DEF Next, WorkerSteps
    <2>4. ASSUME NEW w \in Senders, NEW ok \in BOOLEAN, at[w] = "sending", Finish(w, ok)
          PROVE  queue' = queue /\ (retry' = retry \/ \E m \in Mails : retry' = Append(retry, m))
      BY <2>4, FinishEffect, ZenonT(60)
    <2>5. \A m \in Mails : Len(Append(retry, m)) = Len(retry) + 1
      BY <1>0
    <2>6. queue' = queue /\ (retry' = retry \/ Len(retry') = Len(retry) + 1)
      BY <2>3, <2>4, <2>5, Zenon
    <2> QED
      BY <1>0, <1>4, <2>2, <2>6 DEF EndTrue
  <1>5. CASE end = "freed"
    <2>1. Stopping /\ Closed /\ ~MayTake /\ end # "no" /\ end # "stopping" /\ at[Flusher] = "none"
      BY <1>5, Zenon DEF Stopping, Closed, MayTake, WorkInv
    <2>2. \A w \in Slots : at[w] \in {"none", "gone"}
      BY <1>5, Zenon DEF WorkInv, WorkerTrue
    <2>3. ASSUME NEW m \in Mails, Enqueue(m) \/ Push(m) \/ GivesUp(m) PROVE FALSE
      BY <1>5, <2>3, Zenon DEF Enqueue, Push, GivesUp
    <2>4. ASSUME NEW w \in Slots, WorkerSteps(w) \/ Linger(w) PROVE FALSE
      <3>1. at[w] # "starting" /\ at[w] # "loop" /\ at[w] # "waiting" /\ at[w] # "sending" /\ at[w] # "leaving"
        BY <2>2, Zenon
      <3> QED
        BY <2>4, <3>1, Zenon DEF WorkerSteps, Open, Take, Wait, WakeUp, StopSeen, Exit, Sent, Linger
    <2>5. ~Flush /\ ~RetryDue /\ ~Destroy /\ ~Freed
      BY <2>1, Zenon DEF Flush, RetryDue, Destroy, Freed
    <2>6. ~Flushed(TRUE) /\ ~Flushed(FALSE)
      BY <2>1, Zenon DEF Flushed
    <2>7. UNCHANGED vars
      BY <2>3, <2>4, <2>5, <2>6, Zenon DEF Next
    <2>8. UNCHANGED <<end, counted, queue, retry, where>>
      BY <2>7, Zenon DEF vars, endVars, ringVars
    <2>9. In({"dropped"})' = In({"dropped"})
      BY <2>8, Zenon DEF In
    <2> QED
      BY <2>8, <2>9, Zenon DEF EndTrue
  <1> QED
    BY <1>0, <1>1, <1>2, <1>3, <1>4, <1>5, Zenon

-----------------------------------------------------------------------------

\* As many mails are being sent as senders hold one.
LEMMA OneSenderEach ==
  ASSUME Counting, MailsTrue
  PROVE  Cardinality({w \in Senders : holds[w] # NONE}) = Cardinality(In({"sending"}))
  <1> DEFINE S == {w \in Senders : holds[w] # NONE}
  <1>1. IsFiniteSet(S)
    <2>1. IsFiniteSet(Senders)
      BY SetsFinite, CountAdding, Zenon DEF Senders
    <2> QED
      BY <2>1, CountOfPart, Zenon
  <1>2. \A w \in S : holds[w] \in In({"sending"})
    BY Zenon DEF MailsTrue, Types, SenderTrue, In
  <1>3. \A v, w \in S : holds[v] = holds[w] => v = w
    BY Zenon DEF MailsTrue, SenderTrue
  <1>4. \A m \in In({"sending"}) : \E w \in S : holds[w] = m
    BY MailerAssumption, Zenon DEF MailsTrue, HasSender, In
  <1> QED
    BY <1>1, <1>2, <1>3, <1>4, PairedOff, Zenon

\* Where the accepted mails are.
LEMMA AcceptedAre ==
  ASSUME Counting, MailsTrue
  PROVE  Cardinality(In(Accepted)) =
           Cardinality(In({"sent"})) + Cardinality(In({"failed"})) + (Len(queue) + Len(retry))
             + Cardinality(In({"sending"})) + Cardinality(In({"dropped"}))
  <1> DEFINE c(P) == Cardinality(In(P))
  <1>1. \A P : c(P) \in Nat
    BY InFinite, SetsFinite
  <1>2. c(Accepted) = c({"sent"}) + c({"failed", "queued", "retry", "sending", "dropped"})
    <2>1. {"sent"} \intersect {"failed", "queued", "retry", "sending", "dropped"} = {} /\ {"sent"} \union {"failed", "queued", "retry", "sending", "dropped"} = Accepted
      BY Zenon DEF Accepted
    <2>2. Cardinality(In({"sent"} \union {"failed", "queued", "retry", "sending", "dropped"})) = c({"sent"}) + c({"failed", "queued", "retry", "sending", "dropped"})
      BY <2>1, InApart, Zenon
    <2> QED
      BY <2>1, <2>2, Zenon
  <1>3. c({"failed", "queued", "retry", "sending", "dropped"}) = c({"failed"}) + c({"queued", "retry", "sending", "dropped"})
    <2>1. {"failed"} \intersect {"queued", "retry", "sending", "dropped"} = {} /\ {"failed"} \union {"queued", "retry", "sending", "dropped"} = {"failed", "queued", "retry", "sending", "dropped"}
      BY Zenon DEF Accepted
    <2>2. Cardinality(In({"failed"} \union {"queued", "retry", "sending", "dropped"})) = c({"failed"}) + c({"queued", "retry", "sending", "dropped"})
      BY <2>1, InApart, Zenon
    <2> QED
      BY <2>1, <2>2, Zenon
  <1>4. c({"queued", "retry", "sending", "dropped"}) = c({"queued"}) + c({"retry", "sending", "dropped"})
    <2>1. {"queued"} \intersect {"retry", "sending", "dropped"} = {} /\ {"queued"} \union {"retry", "sending", "dropped"} = {"queued", "retry", "sending", "dropped"}
      BY Zenon DEF Accepted
    <2>2. Cardinality(In({"queued"} \union {"retry", "sending", "dropped"})) = c({"queued"}) + c({"retry", "sending", "dropped"})
      BY <2>1, InApart, Zenon
    <2> QED
      BY <2>1, <2>2, Zenon
  <1>5. c({"retry", "sending", "dropped"}) = c({"retry"}) + c({"sending", "dropped"})
    <2>1. {"retry"} \intersect {"sending", "dropped"} = {} /\ {"retry"} \union {"sending", "dropped"} = {"retry", "sending", "dropped"}
      BY Zenon DEF Accepted
    <2>2. Cardinality(In({"retry"} \union {"sending", "dropped"})) = c({"retry"}) + c({"sending", "dropped"})
      BY <2>1, InApart, Zenon
    <2> QED
      BY <2>1, <2>2, Zenon
  <1>6. c({"sending", "dropped"}) = c({"sending"}) + c({"dropped"})
    <2>1. {"sending"} \intersect {"dropped"} = {} /\ {"sending"} \union {"dropped"} = {"sending", "dropped"}
      BY Zenon DEF Accepted
    <2>2. Cardinality(In({"sending"} \union {"dropped"})) = c({"sending"}) + c({"dropped"})
      BY <2>1, InApart, Zenon
    <2> QED
      BY <2>1, <2>2, Zenon
  <1>8. Len(queue) = c({"queued"}) /\ Len(retry) = c({"retry"})
    BY RingLengths, Zenon
  <1> HIDE DEF c
  <1>9. c(Accepted) = c({"sent"}) + c({"failed"}) + (Len(queue) + Len(retry)) + c({"sending"}) + c({"dropped"})
    <2>1. /\ c({"sent"}) \in Nat /\ c({"failed"}) \in Nat /\ c({"queued"}) \in Nat /\ c({"retry"}) \in Nat
          /\ c({"sending"}) \in Nat /\ c({"dropped"}) \in Nat
      BY <1>1, Zenon
    <2> QED
      BY <1>2, <1>3, <1>4, <1>5, <1>6, <1>8, <2>1
  <1> QED
    BY <1>9, Zenon DEF c

LEMMA TypesHold ==
  ASSUME Counting, WorkInv, MailsTrue, EndTrue
  PROVE  TypeOK
  <1>1. \A P : Cardinality(In(P)) \in 0..Cardinality(Mails)
    BY InFinite, Zenon
  <1>2. Cardinality(Mails) \in Nat /\ Cardinality(Retried) \in 0..Cardinality(Mails)
    BY SetsFinite, RetriedFinite, Zenon
  <1>3. stats \in [{"queued", "sent", "retried", "failed"} -> 0..Cardinality(Mails)]
    <2>1. /\ stats["queued"] \in 0..Cardinality(Mails) /\ stats["sent"] \in 0..Cardinality(Mails)
          /\ stats["failed"] \in 0..Cardinality(Mails) /\ stats["retried"] \in 0..Cardinality(Mails)
      BY <1>1, <1>2, Zenon DEF MailsTrue, CountsTrue
    <2> QED
      BY <2>1, Zenon DEF MailsTrue, Types
  <1>4. counted \in 0..Cardinality(Mails)
    <2>1. counted \in Nat /\ end \in {"no", "stopping", "freed"}
      BY Zenon DEF MailsTrue, Types, WorkInv, WorkTypes
    <2>2. Len(queue) + Len(retry) <= Cardinality(Mails)
      <3>1. /\ Cardinality(In(Accepted)) \in 0..Cardinality(Mails) /\ Cardinality(In({"sent"})) \in Nat
            /\ Cardinality(In({"failed"})) \in Nat /\ Cardinality(In({"sending"})) \in Nat
            /\ Cardinality(In({"dropped"})) \in Nat /\ Len(queue) \in Nat /\ Len(retry) \in Nat
        BY <1>1, <1>2 DEF MailsTrue, Types
      <3> QED
        BY <1>2, <3>1, AcceptedAre
    <2>3. Len(queue) \in Nat /\ Len(retry) \in Nat /\ Cardinality(In({"dropped"})) \in 0..Cardinality(Mails)
      BY <1>1 DEF MailsTrue, Types
    <2> QED
      BY <1>2, <2>1, <2>2, <2>3 DEF EndTrue
  <1>5. live \in 0..WorkerMax
    BY RunningFinite, Zenon DEF WorkInv
  <1>6. Len(queue) <= QueueMax /\ Len(retry) <= QueueMax
    BY RoomToRetry, Zenon
  <1> QED
    BY <1>3, <1>4, <1>5, <1>6, Zenon DEF TypeOK, WorkInv, WorkTypes, MailsTrue, Types

LEMMA AccountsHold ==
  ASSUME Counting, WorkInv, MailsTrue, EndTrue
  PROVE  MailsAreAccounted
  <1>1. AcceptedOnce
    <2>1. /\ Range(queue) = {m \in Mails : where[m] = "queued"}
          /\ Range(retry) = {m \in Mails : where[m] = "retry"}
      BY RingLengths, Zenon DEF In
    <2>2. ASSUME end # "freed"
          PROVE  stats["queued"] = stats["sent"] + stats["failed"] + Pending
                                     + Cardinality({w \in Senders : holds[w] # NONE})
      <3>1. In({"dropped"}) = {}
        BY <2>2, Zenon DEF MailsTrue, MailTrue, In
      <3>2. Cardinality(In({"dropped"})) = 0
        BY <3>1, CountOfNone, Zenon
      <3>3. /\ Cardinality(In({"sent"})) \in Nat /\ Cardinality(In({"failed"})) \in Nat
            /\ Cardinality(In({"sending"})) \in Nat /\ Len(queue) \in Nat /\ Len(retry) \in Nat
        BY InFinite, SetsFinite DEF MailsTrue, Types
      <3>4. Cardinality(In(Accepted)) = Cardinality(In({"sent"})) + Cardinality(In({"failed"}))
              + (Len(queue) + Len(retry)) + Cardinality(In({"sending"}))
        BY <3>2, <3>3, AcceptedAre
      <3> QED
        BY <3>4, OneSenderEach, Zenon DEF MailsTrue, CountsTrue, Pending
    <2> QED
      BY <2>1, <2>2, Zenon DEF AcceptedOnce, MailsTrue, RingTrue
  <1>2. ArenasAreTrue
    <2>1. WithArena = In(Arena)
      BY Zenon DEF WithArena, In, Arena
    <2> QED
      BY <2>1, Zenon DEF ArenasAreTrue, MailsTrue, CountsTrue
  <1>3. GivenUpAfterTwo
    BY Zenon DEF GivenUpAfterTwo, MailsTrue, MailTrue
  <1>4. CountedAreDropped
    <2>1. {m \in Mails : where[m] = "dropped"} = In({"dropped"})
      BY Zenon DEF In
    <2> QED
      BY <2>1, Zenon DEF CountedAreDropped, EndTrue
  <1> QED
    BY <1>1, <1>2, <1>3, <1>4, TypesHold, Zenon DEF MailsAreAccounted

-----------------------------------------------------------------------------
(* The theorems.  What Lists takes for granted of counting is in the library. *)

INSTANCE FiniteSetTheorems

\* Finite sets are counted as the lemmas assume.
LEMMA CountingHolds == Counting
  <1>1. ASSUME NEW T \in SUBSET Nat, T # {} PROVE \E x \in T : \A y \in T : x <= y
    <2>1. PICK x \in T : \A y \in T : ~(<<y, x>> \in OpToRel(<, Nat))
      BY <1>1, NatLessThanWellFounded, WFMin, Zenon
    <2>2. \A y \in T : ~(y < x) /\ x \in Nat /\ y \in Nat
      BY <2>1, Zenon DEF OpToRel
    <2> QED
      BY <2>2
  <1>2. ASSUME NEW S, IsFiniteSet(S), NEW x
        PROVE  /\ IsFiniteSet(S \union {x}) /\ IsFiniteSet(S \ {x})
               /\ Cardinality(S \union {x}) = IF x \in S THEN Cardinality(S) ELSE Cardinality(S) + 1
               /\ Cardinality(S \ {x}) = IF x \in S THEN Cardinality(S) - 1 ELSE Cardinality(S)
    BY <1>2, FS_AddElement, FS_RemoveElement, Zenon
  <1> QED
    BY <1>1, <1>2, FS_CardinalityType, FS_EmptySet, FS_Subset, FS_Union, FS_Bijection, FS_Interval
    DEF Counting

\* The workers are known for as long as they run and joined before what they use is freed, for
\* any number of them (maybe_spawn, worker_retire, sc_mailer_destroy).
THEOREM WorkersHold == Spec => []WorkersAreTrue
  <1>1. WorkInv => WorkersAreTrue
    BY CountingHolds, RunningFinite, MailerAssumption
    DEF WorkInv, WorkerTrue, WorkersAreTrue, NoThreadOutlives, LiveIsTrue, Running
  <1>2. Init => WorkInv
    BY CountingHolds, WorkInit, Zenon
  <1>3. WorkInv /\ [Next]_vars => WorkInv'
    BY CountingHolds, WorkStep, Zenon
  <1> QED
    BY <1>1, <1>2, <1>3, PTL DEF Spec

\* Mails, arenas and counters agree to the end, for any number of mails and workers and any size
\* of the rings; in particular a mail that fails once always finds room on the retry ring
\* (sc_mail_enqueue, finish_entry, sc_mailer_destroy).
THEOREM MailsHold == Spec => []MailsAreAccounted
  <1>1. Init => WorkInv /\ MailsTrue /\ EndTrue
    <2>1. Init => EndTrue
      BY Zenon DEF Init, EndTrue
    <2> QED
      BY <2>1, CountingHolds, WorkInit, MailsInit, Zenon
  <1>2. WorkInv /\ MailsTrue /\ EndTrue => MailsAreAccounted
    BY CountingHolds, AccountsHold, Zenon
  <1>3. WorkInv /\ MailsTrue /\ EndTrue /\ [Next]_vars => (WorkInv /\ MailsTrue /\ EndTrue)'
    BY CountingHolds, WorkStep, MailsStep, EndStep, Zenon
  <1> QED
    BY <1>1, <1>2, <1>3, PTL DEF Spec
=============================================================================
