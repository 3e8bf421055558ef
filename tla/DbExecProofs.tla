---------------------------- MODULE DbExecProofs ----------------------------
(* What holds of DbExec for any number of units, workers, loops and groups:   *)
(* the queue's bookkeeping and that no wake-up is lost, who holds a unit      *)
(* (HandedOverOnce), how long it may wait for a worker (WaitingTimeIsKept)    *)
(* and how the executor closes (CloseIsOrderly).                             *)
EXTENDS DbExec, Lists, TLAPS

\* The workers of a group that are inside uv_cond_wait.
Asleep(g) == {w \in WorkersOf(g) : wpc[w] \in {"wait", "woken"}}

LEMMA GroupsFinite ==
  ASSUME Counting, NEW g
  PROVE  IsFiniteSet(WorkersOf(g)) /\ Cardinality(WorkersOf(g)) \in Nat /\ Capacity(g) \in Nat
  <1>1. IsFiniteSet(WorkersOf(g))
    BY SetsAssumption, CountOfPart, Zenon DEF WorkersOf
  <1>2. Cardinality(WorkersOf(g)) \in Nat
    BY <1>1, CountIsNat, Zenon
  <1> QED
    BY <1>1, <1>2, CountsAssumption DEF Capacity

LEMMA AsleepFinite ==
  ASSUME Counting, NEW g
  PROVE  IsFiniteSet(Asleep(g)) /\ Cardinality(Asleep(g)) \in Nat
  BY GroupsFinite, CountOfPart, CountIsNat, Zenon DEF Asleep

LEMMA TypeInit == Init => TypeOK
  <1> SUFFICES ASSUME Init PROVE TypeOK
    BY Zenon
  <1>1. queue \in [Groups -> Seq(Units)]
    BY DEF Init
  <1>2. sgroup \in Groups
    BY CountsAssumption DEF Init, Groups
  <1>3. expired \in Seq(Units)
    BY DEF Init
  <1> QED
    BY <1>1, <1>2, <1>3, Zenon DEF Init, TypeOK, Statuses, WorkerPlaces, SweeperPlaces, Phases

LEMMA BookkeepingInit ==
  ASSUME Counting
  PROVE  Init => Bookkeeping
  <1> SUFFICES ASSUME Init, NEW g \in Groups
               PROVE  /\ count[g] = Len(queue[g]) /\ count[g] <= Capacity(g)
                      /\ idle[g] = Cardinality(Asleep(g))
    BY Zenon DEF Bookkeeping, Asleep
  <1>1. Asleep(g) = {}
    BY Zenon DEF Init, Asleep, WorkersOf
  <1>2. Cardinality(Asleep(g)) = 0
    BY <1>1, CountOfNone, Zenon
  <1> QED
    BY <1>2, GroupsFinite DEF Init

-----------------------------------------------------------------------------
(* How one worker's move changes the number of sleepers.                     *)

AsleepPlaces == {"wait", "woken"}

LEMMA SameSleepers ==
  ASSUME TypeOK, NEW w \in Workers, NEW p, wpc' = [wpc EXCEPT ![w] = p],
         wpc[w] \in AsleepPlaces <=> p \in AsleepPlaces
  PROVE  \A g \in Groups : Asleep(g)' = Asleep(g)
  BY Zenon DEF TypeOK, Asleep, AsleepPlaces, WorkersOf

LEMMA FallsAsleep ==
  ASSUME Counting, TypeOK, NEW w \in Workers, NEW p \in AsleepPlaces, wpc' = [wpc EXCEPT ![w] = p],
         wpc[w] \notin AsleepPlaces
  PROVE  \A g \in Groups : Cardinality(Asleep(g)')
                             = IF g = GroupOf[w] THEN Cardinality(Asleep(g)) + 1
                                                 ELSE Cardinality(Asleep(g))
  <1> SUFFICES ASSUME NEW g \in Groups
               PROVE  Cardinality(Asleep(g)') = IF g = GroupOf[w] THEN Cardinality(Asleep(g)) + 1
                                                                  ELSE Cardinality(Asleep(g))
    BY Zenon
  <1>1. CASE g = GroupOf[w]
    <2>1. Asleep(g)' = Asleep(g) \union {w} /\ w \notin Asleep(g)
      BY <1>1, Zenon DEF TypeOK, Asleep, AsleepPlaces, WorkersOf
    <2> QED
      BY <1>1, <2>1, AsleepFinite, CountAdding, Zenon
  <1>2. CASE g # GroupOf[w]
    <2>1. Asleep(g)' = Asleep(g)
      BY <1>2, Zenon DEF TypeOK, Asleep, AsleepPlaces, WorkersOf
    <2> QED
      BY <1>2, <2>1, Zenon
  <1> QED
    BY <1>1, <1>2, Zenon

LEMMA WakesUp ==
  ASSUME Counting, TypeOK, NEW w \in Workers, NEW p, wpc' = [wpc EXCEPT ![w] = p],
         wpc[w] \in AsleepPlaces, p \notin AsleepPlaces
  PROVE  \A g \in Groups : Cardinality(Asleep(g)')
                             = IF g = GroupOf[w] THEN Cardinality(Asleep(g)) - 1
                                                 ELSE Cardinality(Asleep(g))
  <1> SUFFICES ASSUME NEW g \in Groups
               PROVE  Cardinality(Asleep(g)') = IF g = GroupOf[w] THEN Cardinality(Asleep(g)) - 1
                                                                  ELSE Cardinality(Asleep(g))
    BY Zenon
  <1>1. CASE g = GroupOf[w]
    <2>1. Asleep(g)' = Asleep(g) \ {w} /\ w \in Asleep(g)
      BY <1>1, Zenon DEF TypeOK, Asleep, AsleepPlaces, WorkersOf
    <2> QED
      BY <1>1, <2>1, AsleepFinite, CountRemoving, Zenon
  <1>2. CASE g # GroupOf[w]
    <2>1. Asleep(g)' = Asleep(g)
      BY <1>2, Zenon DEF TypeOK, Asleep, AsleepPlaces, WorkersOf
    <2> QED
      BY <1>2, <2>1, Zenon
  <1> QED
    BY <1>1, <1>2, Zenon

\* A worker that slept is counted, so it can be counted out.
LEMMA IdleCountsIt ==
  ASSUME Counting, TypeOK, Bookkeeping, NEW w \in Workers, wpc[w] = "woken"
  PROVE  idle[GroupOf[w]] - 1 \in Nat
  <1>1. GroupOf[w] \in Groups /\ w \in Asleep(GroupOf[w])
    BY PlanAssumption, Zenon DEF Groups, Asleep, WorkersOf
  <1>2. Cardinality(Asleep(GroupOf[w])) # 0
    BY <1>1, AsleepFinite, CountOfNone, Zenon
  <1>3. idle[GroupOf[w]] = Cardinality(Asleep(GroupOf[w]))
    BY <1>1, Zenon DEF Bookkeeping, Asleep
  <1> QED
    BY <1>2, <1>3, AsleepFinite

-----------------------------------------------------------------------------
(* Type correctness and the counters are inductive together: a count that is *)
(* decremented stays a natural number because it counts something.           *)

LEMMA OutcomeTypes ==
  ASSUME NEW o \in RunOutcomes
  PROVE  o[1] \in {"ok", "refused"} /\ o[2] \in BOOLEAN
  <1>1. CASE o = <<"ok", TRUE>>
    BY <1>1, Zenon
  <1>2. CASE o = <<"refused", TRUE>>
    BY <1>2, Zenon
  <1>3. CASE o = <<"refused", FALSE>>
    BY <1>3, Zenon
  <1> QED
    BY <1>1, <1>2, <1>3, Zenon DEF RunOutcomes

LEMMA TypeStep ==
  ASSUME Counting, TypeOK, Bookkeeping, [Next]_vars
  PROVE  TypeOK'
  <1> USE DEF TypeOK, Statuses, WorkerPlaces, SweeperPlaces, Phases,
              queueVars, workerVars, sweepVars, unitVars
  <1>1. CASE Tick
    BY <1>1 DEF Tick
  <1>2. CASE Opening
    <2>1. CASE OpenConnection
      BY <2>1, Zenon DEF OpenConnection
    <2>2. CASE OpenReader
      BY <2>2, Zenon DEF OpenReader
    <2>3. CASE StartWorker
      BY <2>3, Zenon DEF StartWorker
    <2>4. CASE StartSweeper
      BY <2>4, Zenon DEF StartSweeper
    <2>5. CASE OpenFails
      BY <2>5, Zenon DEF OpenFails
    <2> QED
      BY <1>2, <2>1, <2>2, <2>3, <2>4, <2>5, Zenon DEF Opening
  <1>3. CASE Submitting
    <2> PICK u \in Units :
          \/ SubmitInline(u)
          \/ Answer(u)
          \/ \E l \in Loops : SubmitFull(u, l) \/ SubmitParkFails(u, l) \/ SubmitTaken(u, l)
      BY <1>3, Zenon DEF Submitting
    <2>1. CASE SubmitInline(u)
      BY <2>1, OutcomeTypes DEF SubmitInline
    <2>2. CASE Answer(u)
      BY <2>2, Zenon DEF Answer
    <2>3. ASSUME NEW l \in Loops, SubmitFull(u, l) \/ SubmitParkFails(u, l)
          PROVE  TypeOK'
      BY <2>3, Zenon DEF SubmitFull, SubmitParkFails, NotTaken
    <2>4. ASSUME NEW l \in Loops, SubmitTaken(u, l)
          PROVE  TypeOK'
      <3>1. LoopGroup[l] \in Groups
        BY PlanAssumption, Zenon DEF Groups
      <3>2. queue' \in [Groups -> Seq(Units)]
        BY <2>4, <3>1 DEF SubmitTaken, Enqueue
      <3>3. wpc' \in [Workers -> WorkerPlaces]
        <4>1. CASE UNCHANGED wpc
          BY <4>1, Zenon
        <4>2. CASE \E w \in Workers : wpc' = [wpc EXCEPT ![w] = "woken"]
          BY <4>2, Zenon
        <4> QED
          BY <2>4, <4>1, <4>2, Zenon DEF SubmitTaken, Signal, WorkersOf
      <3>4. count' \in [Groups -> Nat]
        BY <2>4, <3>1 DEF SubmitTaken
      <3> QED
        BY <2>4, <3>2, <3>3, <3>4, Zenon DEF SubmitTaken
    <2> QED
      BY <2>1, <2>2, <2>3, <2>4, Zenon
  <1>4. CASE Working
    <2> PICK w \in Workers :
          \/ WorkerSleep(w) \/ WorkerWakesByItself(w) \/ WorkerTake(w) \/ WorkerLeave(w)
          \/ WorkerRefuse(w) \/ WorkerRun(w) \/ WorkerEnd(w)
      BY <1>4, Zenon DEF Working
    <2>0. GroupOf[w] \in Groups /\ IdleWithout(w) \in Nat
      BY PlanAssumption, IdleCountsIt, Zenon DEF Groups, IdleWithout
    <2>1. CASE WorkerSleep(w)
      BY <2>0, <2>1 DEF WorkerSleep
    <2>2. CASE WorkerWakesByItself(w)
      BY <2>2, Zenon DEF WorkerWakesByItself
    <2>3. CASE WorkerTake(w)
      <3>1. queue[GroupOf[w]] \in Seq(Units) /\ queue[GroupOf[w]] # <<>>
        BY <2>0, <2>3, Zenon DEF WorkerTake
      <3>2. /\ Head(queue[GroupOf[w]]) \in Units /\ Tail(queue[GroupOf[w]]) \in Seq(Units)
            /\ Len(queue[GroupOf[w]]) - 1 \in Nat
        BY <3>1
      <3>3. count[GroupOf[w]] - 1 \in Nat
        BY <2>0, <3>2, Zenon DEF Bookkeeping
      <3>4. queue' \in [Groups -> Seq(Units)]
        BY <2>0, <2>3, <3>2, Zenon DEF WorkerTake
      <3>5. wunit' \in [Workers -> Units \union {NoUnit}]
        BY <2>3, <3>2, Zenon DEF WorkerTake
      <3>6. count' \in [Groups -> Nat] /\ idle' \in [Groups -> Nat]
        BY <2>0, <2>3, <3>3, Zenon DEF WorkerTake
      <3> QED
        BY <2>3, <3>4, <3>5, <3>6, Zenon DEF WorkerTake
    <2>4. CASE WorkerLeave(w)
      BY <2>0, <2>4, Zenon DEF WorkerLeave
    <2>5. CASE WorkerRefuse(w)
      BY <2>5, Zenon DEF WorkerRefuse, WorkerFinish
    <2>6. CASE WorkerRun(w)
      BY <2>6, Zenon DEF WorkerRun
    <2>7. CASE WorkerEnd(w)
      <3>1. PICK o \in RunOutcomes : WorkerFinish(w, o[1], o[2])
        BY <2>7, Zenon DEF WorkerEnd
      <3>2. o[1] \in Statuses /\ o[2] \in BOOLEAN
        BY OutcomeTypes, Zenon
      <3> QED
        BY <3>1, <3>2, Zenon DEF WorkerFinish
    <2> QED
      BY <2>1, <2>2, <2>3, <2>4, <2>5, <2>6, <2>7, Zenon
  <1>5. CASE Sweeping
    <2>1. CASE SweeperWake
      BY <2>1, Zenon DEF SweeperWake
    <2>2. CASE SweeperScan
      <3>1. sgroup \in Groups /\ queue[sgroup] \in Seq(Units) /\ Len(queue[sgroup]) \in Nat
        OBVIOUS
      <3>2. PICK k \in 0..Len(queue[sgroup]) :
              /\ expired' = SubSeq(queue[sgroup], 1, k)
              /\ queue' = [queue EXCEPT ![sgroup] = Unlink(queue[sgroup], k)]
              /\ count' = [count EXCEPT ![sgroup] = @ - k]
        BY <2>2, Zenon DEF SweeperScan
      <3>3. count[sgroup] = Len(queue[sgroup])
        BY <3>1, Zenon DEF Bookkeeping
      <3>4. count[sgroup] - k \in Nat
        BY <3>1, <3>2, <3>3
      <3>5. expired' \in Seq(Units)
        BY <3>1, <3>2
      <3>6. Unlink(queue[sgroup], k) \in Seq(Units)
        BY <3>1, <3>2 DEF Unlink
      <3>7. queue' \in [Groups -> Seq(Units)] /\ count' \in [Groups -> Nat]
        BY <3>1, <3>2, <3>4, <3>6, Zenon
      <3> QED
        BY <2>2, <3>5, <3>7, Zenon DEF SweeperScan
    <2>3. CASE SweeperHand
      <3>1. Tail(expired) \in Seq(Units)
        BY <2>3 DEF SweeperHand
      <3> QED
        BY <2>3, <3>1, Zenon DEF SweeperHand
    <2>4. CASE SweeperNext
      <3>1. sgroup' \in Groups
        BY <2>4, CountsAssumption DEF SweeperNext, Groups
      <3> QED
        BY <2>4, <3>1, Zenon DEF SweeperNext
    <2> QED
      BY <1>5, <2>1, <2>2, <2>3, <2>4, Zenon DEF Sweeping
  <1>6. CASE Closing
    <2>1. CASE CloseBegin
      BY <2>1, Zenon DEF CloseBegin
    <2>2. CASE CloseSweeperJoined
      BY <2>2, Zenon DEF CloseSweeperJoined
    <2>3. CASE CloseJoined
      BY <2>3, Zenon DEF CloseJoined
    <2>4. ASSUME NEW g \in Groups, CloseStopGroup(g)
          PROVE  TypeOK'
      BY <2>4, Zenon DEF CloseStopGroup
    <2> QED
      BY <1>6, <2>1, <2>2, <2>3, <2>4, Zenon DEF Closing
  <1>7. CASE Closed \/ UNCHANGED vars
    BY <1>7 DEF Closed, vars
  <1> QED
    BY <1>1, <1>2, <1>3, <1>4, <1>5, <1>6, <1>7, Zenon DEF Next

CountsTrue == \A g \in Groups : count[g] = Len(queue[g]) /\ count[g] <= Capacity(g)

SleepersTrue == \A g \in Groups : idle[g] = Cardinality(Asleep(g))

LEMMA BookkeepingParts == Bookkeeping <=> CountsTrue /\ SleepersTrue
  BY Zenon DEF Bookkeeping, CountsTrue, SleepersTrue, Asleep

LEMMA CountsStep ==
  ASSUME Counting, TypeOK, TypeOK', CountsTrue, [Next]_vars
  PROVE  CountsTrue'
  <1>1. CASE UNCHANGED <<queue, count>>
    BY <1>1, Zenon DEF CountsTrue, Capacity, WorkersOf
  <1>2. ASSUME NEW u \in Units, NEW l \in Loops, SubmitTaken(u, l)
        PROVE  CountsTrue'
    <2> DEFINE g == LoopGroup[l]
    <2>1. g \in Groups /\ count[g] < Capacity(g)
      <3>1. g \in Groups
        BY PlanAssumption, Zenon DEF Groups
      <3>2. count[g] \in Nat /\ Capacity(g) \in Nat
        BY <3>1, GroupsFinite, Zenon DEF TypeOK
      <3>3. ~(count[g] >= Capacity(g))
        BY <1>2, Zenon DEF SubmitTaken, Full
      <3> QED
        BY <3>1, <3>2, <3>3
    <2>2. Len(Append(queue[g], u)) = Len(queue[g]) + 1
      BY <2>1 DEF TypeOK
    <2>3. queue' = [queue EXCEPT ![g] = Append(@, u)] /\ count' = [count EXCEPT ![g] = @ + 1]
      BY <1>2, Zenon DEF SubmitTaken, Enqueue
    <2>4. \A h \in Groups : Capacity(h)' = Capacity(h) /\ Capacity(h) \in Nat
      BY GroupsFinite, Zenon DEF Capacity, WorkersOf
    <2>5. count'[g] = Len(queue'[g]) /\ count'[g] <= Capacity(g)
      <3>1. /\ count[g] = Len(queue[g]) /\ count[g] <= Capacity(g) /\ count[g] \in Nat
            /\ Capacity(g) \in Nat
        BY <2>1, <2>4, Zenon DEF CountsTrue, TypeOK
      <3>2. queue'[g] = Append(queue[g], u) /\ count'[g] = count[g] + 1
        BY <2>1, <2>3, Zenon DEF TypeOK
      <3> QED
        BY <2>1, <2>2, <3>1, <3>2
    <2>6. \A h \in Groups \ {g} : count'[h] = count[h] /\ queue'[h] = queue[h]
      BY <2>3, Zenon DEF TypeOK
    <2> QED
      BY <2>4, <2>5, <2>6, SMTT(40) DEF CountsTrue
  <1>3. ASSUME NEW w \in Workers, WorkerTake(w)
        PROVE  CountsTrue'
    <2> DEFINE g == GroupOf[w]
    <2>1. g \in Groups
      BY PlanAssumption, Zenon DEF Groups
    <2>2. Len(Tail(queue[g])) = Len(queue[g]) - 1
      BY <1>3, <2>1 DEF WorkerTake, TypeOK
    <2>3. queue' = [queue EXCEPT ![g] = Tail(@)] /\ count' = [count EXCEPT ![g] = @ - 1]
      BY <1>3, Zenon DEF WorkerTake
    <2>4. \A h \in Groups : Capacity(h)' = Capacity(h) /\ Capacity(h) \in Nat
      BY GroupsFinite, Zenon DEF Capacity, WorkersOf
    <2>5. count'[g] = Len(queue'[g]) /\ count'[g] <= Capacity(g)
      <3>1. /\ count[g] = Len(queue[g]) /\ count[g] <= Capacity(g) /\ count[g] \in Nat
            /\ Capacity(g) \in Nat
        BY <2>1, <2>4, Zenon DEF CountsTrue, TypeOK
      <3>2. queue'[g] = Tail(queue[g]) /\ count'[g] = count[g] - 1
        BY <2>1, <2>3, SMTT(40) DEF TypeOK
      <3> QED
        BY <2>1, <2>2, <3>1, <3>2
    <2>6. \A h \in Groups \ {g} : count'[h] = count[h] /\ queue'[h] = queue[h]
      BY <2>3, Zenon DEF TypeOK
    <2> QED
      BY <2>4, <2>5, <2>6, Zenon DEF CountsTrue
  <1>4. CASE SweeperScan
    <2> DEFINE q == queue[sgroup]
    <2>1. sgroup \in Groups /\ q \in Seq(Units) /\ Len(q) \in Nat
      BY DEF TypeOK
    <2>2. PICK k \in 0..Len(q) :
            /\ queue' = [queue EXCEPT ![sgroup] = Unlink(q, k)]
            /\ count' = [count EXCEPT ![sgroup] = @ - k]
      BY <1>4, Zenon DEF SweeperScan
    <2>3. Len(Unlink(q, k)) = Len(q) - k
      BY <2>1, <2>2 DEF Unlink
    <2>4. \A h \in Groups : Capacity(h)' = Capacity(h) /\ Capacity(h) \in Nat
      BY GroupsFinite, Zenon DEF Capacity, WorkersOf
    <2>5. count'[sgroup] = Len(queue'[sgroup]) /\ count'[sgroup] <= Capacity(sgroup)
      BY <2>1, <2>2, <2>3, <2>4, SMTT(40) DEF CountsTrue, TypeOK
    <2>6. \A h \in Groups \ {sgroup} : count'[h] = count[h] /\ queue'[h] = queue[h]
      BY <2>2, SMTT(40) DEF TypeOK
    <2> QED
      BY <2>4, <2>5, <2>6, Zenon DEF CountsTrue
  <1> QED
    BY <1>1, <1>2, <1>3, <1>4, Zenon
    DEF Next, Tick, Opening, OpenConnection, OpenReader, StartWorker, StartSweeper, OpenFails,
        Submitting, SubmitInline, Answer, SubmitFull, SubmitParkFails, NotTaken,
        Working, WorkerSleep, WorkerWakesByItself, WorkerLeave, WorkerRefuse, WorkerRun,
        WorkerEnd, WorkerFinish, Sweeping, SweeperWake, SweeperHand, SweeperNext,
        Closing, CloseBegin, CloseSweeperJoined, CloseJoined, CloseStopGroup, Closed,
        vars, queueVars

LEMMA SleepersStep ==
  ASSUME Counting, TypeOK, TypeOK', SleepersTrue, [Next]_vars
  PROVE  SleepersTrue'
  <1>1. CASE UNCHANGED <<wpc, idle>>
    BY <1>1, Zenon DEF SleepersTrue, Asleep, WorkersOf
  <1>2. ASSUME NEW w \in Workers, NEW p, wpc' = [wpc EXCEPT ![w] = p], UNCHANGED idle,
               wpc[w] \in AsleepPlaces <=> p \in AsleepPlaces
        PROVE  SleepersTrue'
    BY <1>2, SameSleepers, Zenon DEF SleepersTrue
  <1>3. CASE StartWorker
    <2>1. PICK w \in Workers : wpc[w] = "none" /\ wpc' = [wpc EXCEPT ![w] = "look"]
      BY <1>3, Zenon DEF StartWorker
    <2> QED
      BY <1>2, <1>3, <2>1, Zenon DEF StartWorker, queueVars, AsleepPlaces
  <1>4. ASSUME NEW u \in Units, NEW l \in Loops, SubmitTaken(u, l)
        PROVE  SleepersTrue'
    <2>1. CASE UNCHANGED wpc
      BY <1>1, <1>4, <2>1, Zenon DEF SubmitTaken
    <2>2. CASE \E w \in Workers : wpc[w] = "wait" /\ wpc' = [wpc EXCEPT ![w] = "woken"]
      BY <1>2, <1>4, <2>2, Zenon DEF SubmitTaken, AsleepPlaces
    <2> QED
      BY <1>4, <2>1, <2>2, Zenon DEF SubmitTaken, Signal, WorkersOf
  <1>5. ASSUME NEW w \in Workers, WorkerSleep(w)
        PROVE  SleepersTrue'
    <2> DEFINE g == GroupOf[w]
    <2>1. g \in Groups
      BY PlanAssumption, Zenon DEF Groups
    <2>2. /\ wpc' = [wpc EXCEPT ![w] = "wait"]
          /\ idle' = [idle EXCEPT ![g] = IdleWithout(w) + 1]
      BY <1>5, Zenon DEF WorkerSleep
    <2>3. CASE wpc[w] = "look"
      <3>1. \A h \in Groups : Cardinality(Asleep(h)') = IF h = g THEN Cardinality(Asleep(h)) + 1
                                                                ELSE Cardinality(Asleep(h))
        BY <2>2, <2>3, FallsAsleep, Zenon DEF AsleepPlaces
      <3>2. IdleWithout(w) = idle[g]
        BY <2>3, Zenon DEF IdleWithout
      <3> QED
        BY <2>1, <2>2, <3>1, <3>2, Zenon DEF SleepersTrue, TypeOK
    <2>4. CASE wpc[w] = "woken"
      <3>1. \A h \in Groups : Asleep(h)' = Asleep(h)
        BY <2>2, <2>4, SameSleepers, Zenon DEF AsleepPlaces
      <3>2. IdleWithout(w) + 1 = idle[g]
        <4>1. idle[g] \in Nat
          BY <2>1, SMTT(40) DEF TypeOK
        <4> QED
          BY <2>4, <4>1 DEF IdleWithout
      <3> QED
        BY <2>1, <2>2, <3>1, <3>2, Zenon DEF SleepersTrue, TypeOK
    <2> QED
      BY <1>5, <2>3, <2>4, Zenon DEF WorkerSleep
  <1>6. ASSUME NEW w \in Workers, NEW p, p \notin AsleepPlaces, wpc[w] \in {"look", "woken"},
               wpc' = [wpc EXCEPT ![w] = p], idle' = [idle EXCEPT ![GroupOf[w]] = IdleWithout(w)]
        PROVE  SleepersTrue'
    <2> DEFINE g == GroupOf[w]
    <2>1. g \in Groups
      BY PlanAssumption, Zenon DEF Groups
    <2>2. CASE wpc[w] = "look"
      <3>1. \A h \in Groups : Asleep(h)' = Asleep(h)
        BY <1>6, <2>2, SameSleepers, Zenon DEF AsleepPlaces
      <3>2. IdleWithout(w) = idle[g]
        BY <2>2, Zenon DEF IdleWithout
      <3> QED
        BY <1>6, <2>1, <3>1, <3>2, Zenon DEF SleepersTrue, TypeOK
    <2>3. CASE wpc[w] = "woken"
      <3>1. \A h \in Groups : Cardinality(Asleep(h)') = IF h = g THEN Cardinality(Asleep(h)) - 1
                                                                ELSE Cardinality(Asleep(h))
        BY <1>6, <2>3, WakesUp, Zenon DEF AsleepPlaces
      <3>2. IdleWithout(w) = idle[g] - 1
        BY <2>3, Zenon DEF IdleWithout
      <3> QED
        BY <1>6, <2>1, <3>1, <3>2, Zenon DEF SleepersTrue, TypeOK
    <2> QED
      BY <1>6, <2>2, <2>3, Zenon
  <1>7. ASSUME NEW w \in Workers, WorkerTake(w) \/ WorkerLeave(w)
        PROVE  SleepersTrue'
    BY <1>6, <1>7, Zenon DEF WorkerTake, WorkerLeave, AsleepPlaces
  <1>8. ASSUME NEW w \in Workers,
               WorkerWakesByItself(w) \/ WorkerRefuse(w) \/ WorkerRun(w) \/ WorkerEnd(w)
        PROVE  SleepersTrue'
    BY <1>2, <1>8, Zenon
    DEF WorkerWakesByItself, WorkerRefuse, WorkerRun, WorkerEnd, WorkerFinish, AsleepPlaces,
        queueVars
  <1>9. ASSUME NEW g \in Groups, CloseStopGroup(g)
        PROVE  SleepersTrue'
    <2>1. \A h \in Groups : Asleep(h)' = Asleep(h)
      BY <1>9, SMTT(40) DEF CloseStopGroup, Asleep, WorkersOf, TypeOK
    <2> QED
      BY <1>9, <2>1, Zenon DEF CloseStopGroup, SleepersTrue
  <1> QED
    BY <1>1, <1>3, <1>4, <1>5, <1>7, <1>8, <1>9, Zenon
    DEF Next, Tick, Opening, OpenConnection, OpenReader, StartSweeper, OpenFails,
        Submitting, SubmitInline, Answer, SubmitFull, SubmitParkFails, NotTaken,
        Working, Sweeping, SweeperWake, SweeperScan, SweeperHand, SweeperNext,
        Closing, CloseBegin, CloseSweeperJoined, CloseJoined, Closed,
        vars, queueVars, workerVars

-----------------------------------------------------------------------------
(* Wake-ups.  Every move of a worker but falling asleep, leaving and taking  *)
(* a unit brings it towards the queue.                                       *)

Sleeping(g) == {w \in WorkersOf(g) : wpc[w] = "wait"}
Coming(g) == {w \in WorkersOf(g) : wpc[w] \in {"look", "woken"}}

LEMMA ComingFinite ==
  ASSUME Counting, NEW g
  PROVE  IsFiniteSet(Coming(g)) /\ Cardinality(Coming(g)) \in Nat
  BY GroupsFinite, CountOfPart, CountIsNat, Zenon DEF Coming

LEMMA BacklogOf ==
  NoBacklogBehindSleepers
    <=> \A g \in Groups : Sleeping(g) # {} => Len(queue[g]) <= Cardinality(Coming(g))
  BY Zenon DEF NoBacklogBehindSleepers, Sleeping, Coming

LEMMA BacklogInit == Init => NoBacklogBehindSleepers
  BY Zenon DEF Init, NoBacklogBehindSleepers, WorkersOf

LEMMA BacklogStep ==
  ASSUME Counting, TypeOK, TypeOK', Bookkeeping, NoBacklogBehindSleepers, [Next]_vars
  PROVE  NoBacklogBehindSleepers'
  <1> DEFINE Kept(g) == Sleeping(g)' # {} => Len(queue'[g]) <= Cardinality(Coming(g)')
  <1> SUFFICES \A g \in Groups : Kept(g)
    BY Zenon DEF NoBacklogBehindSleepers, Sleeping, Coming
  <1>0. /\ \A g \in Groups : Sleeping(g) # {} => Len(queue[g]) <= Cardinality(Coming(g))
        /\ \A g \in Groups : Len(queue[g]) \in Nat /\ Len(queue'[g]) \in Nat
        /\ \A g \in Groups : WorkersOf(g)' = WorkersOf(g)
        /\ \A w \in Workers : GroupOf[w] \in Groups
    <2>1. \A g \in Groups : Sleeping(g) # {} => Len(queue[g]) <= Cardinality(Coming(g))
      BY BacklogOf, Zenon
    <2>2. \A g \in Groups : Len(queue[g]) \in Nat /\ Len(queue'[g]) \in Nat
      <3>1. \A g \in Groups : queue[g] \in Seq(Units) /\ queue'[g] \in Seq(Units)
        BY Zenon DEF TypeOK, Groups
      <3> QED
        BY <3>1
    <2> QED
      BY <2>1, <2>2, PlanAssumption, Zenon DEF WorkersOf, Groups
  <1>1. ASSUME NEW g \in Groups, Len(queue'[g]) <= Len(queue[g]), Sleeping(g)' \subseteq Sleeping(g),
               Coming(g) \subseteq Coming(g)'
        PROVE  Kept(g)
    <2>1. IsFiniteSet(Coming(g)') /\ Cardinality(Coming(g)') \in Nat /\ Cardinality(Coming(g)) \in Nat
      <3>1. IsFiniteSet(WorkersOf(g)) /\ Coming(g)' \subseteq WorkersOf(g)
        BY GroupsFinite, <1>0, Zenon DEF Coming
      <3> QED
        BY <3>1, ComingFinite, CountOfPart, CountIsNat, Zenon
    <2>2. Cardinality(Coming(g)) <= Cardinality(Coming(g)')
      BY <1>1, <2>1, CountOfPart, Zenon
    <2> QED
      BY <1>0, <1>1, <2>1, <2>2
  <1>2. CASE UNCHANGED wpc /\ \A g \in Groups : Len(queue'[g]) <= Len(queue[g])
    <2>1. \A g \in Groups : Sleeping(g)' = Sleeping(g) /\ Coming(g)' = Coming(g)
      BY <1>2, Zenon DEF Sleeping, Coming, WorkersOf
    <2> QED
      BY <1>1, <1>2, <2>1, Zenon
  <1>3. CASE UNCHANGED <<queue, wpc>>
    BY <1>0, <1>2, <1>3
  \* One worker turns to the queue, or goes from a unit it holds to its run.
  <1>4. ASSUME NEW w \in Workers, NEW p \in {"look", "woken", "run"},
               wpc' = [wpc EXCEPT ![w] = p], p = "run" => wpc[w] = "took", UNCHANGED queue
        PROVE  \A g \in Groups : Kept(g)
    <2>1. \A g \in Groups : Sleeping(g)' \subseteq Sleeping(g) /\ Coming(g) \subseteq Coming(g)'
      BY <1>4, Zenon DEF Sleeping, Coming, WorkersOf, TypeOK
    <2> QED
      BY <1>0, <1>1, <1>4, <2>1
  <1>5. ASSUME NEW u \in Units, NEW l \in Loops, SubmitTaken(u, l), NEW g \in Groups
        PROVE  Kept(g)
    <2>1. CASE g # LoopGroup[l]
      <3>1. queue'[g] = queue[g]
        BY <1>5, <2>1, Zenon DEF SubmitTaken, TypeOK
      <3>2. Sleeping(g)' = Sleeping(g) /\ Coming(g)' = Coming(g)
        <4>1. CASE UNCHANGED wpc
          BY <4>1, Zenon DEF Sleeping, Coming, WorkersOf
        <4>2. CASE \E w \in WorkersOf(LoopGroup[l]) : wpc' = [wpc EXCEPT ![w] = "woken"]
          <5>1. \A v \in WorkersOf(g) : wpc'[v] = wpc[v]
            BY <2>1, <4>2, Zenon DEF WorkersOf, TypeOK
          <5> QED
            BY <1>0, <5>1, Zenon DEF Sleeping, Coming
        <4> QED
          BY <1>5, <4>1, <4>2, Zenon DEF SubmitTaken, Signal
      <3> QED
        BY <1>0, <3>1, <3>2, Zenon
    <2>2. CASE g = LoopGroup[l] /\ Sleeping(g) = {}
      <3>1. UNCHANGED wpc
        BY <1>5, <2>2, Zenon DEF SubmitTaken, Signal, Sleeping
      <3> QED
        BY <2>2, <3>1, Zenon DEF Sleeping, WorkersOf
    <2>3. CASE g = LoopGroup[l] /\ Sleeping(g) # {}
      <3>1. idle[g] # 0
        <4>1. Asleep(g) # {}
          BY <2>3, Zenon DEF Sleeping, Asleep
        <4>2. Cardinality(Asleep(g)) # 0
          BY <4>1, AsleepFinite, CountOfNone, Zenon
        <4> QED
          BY <4>2, BookkeepingParts, Zenon DEF SleepersTrue
      <3>2. PICK w \in Sleeping(g) : wpc' = [wpc EXCEPT ![w] = "woken"]
        BY <1>5, <2>3, <3>1, Zenon DEF SubmitTaken, Signal, Sleeping
      <3>3. Coming(g)' = Coming(g) \union {w} /\ w \notin Coming(g)
        BY <3>2, Zenon DEF Sleeping, Coming, WorkersOf, TypeOK
      <3>4. Cardinality(Coming(g)') = Cardinality(Coming(g)) + 1
        BY <3>3, ComingFinite, CountAdding, Zenon
      <3>5. queue'[g] = Append(queue[g], u)
        BY <1>5, <2>3, Zenon DEF SubmitTaken, Enqueue, TypeOK
      <3>6. Len(queue'[g]) = Len(queue[g]) + 1
        BY <3>5, <1>5 DEF TypeOK
      <3> QED
        BY <1>0, <2>3, <3>4, <3>6, ComingFinite
    <2> QED
      BY <2>1, <2>2, <2>3, Zenon
  \* An empty queue is no backlog.
  <1>6. ASSUME NEW w \in Workers, NEW p, wpc' = [wpc EXCEPT ![w] = p], UNCHANGED queue,
               queue[GroupOf[w]] = <<>>, NEW g \in Groups
        PROVE  Kept(g)
    <2>1. CASE g = GroupOf[w]
      <3>1. Len(queue'[g]) = 0
        BY <1>6, <2>1, Zenon
      <3>2. IsFiniteSet(WorkersOf(g)) /\ Coming(g)' \subseteq WorkersOf(g)
        BY GroupsFinite, <1>0, Zenon DEF Coming
      <3> QED
        BY <3>1, <3>2, CountOfPart, CountIsNat
    <2>2. CASE g # GroupOf[w]
      <3>1. Sleeping(g)' = Sleeping(g) /\ Coming(g)' = Coming(g)
        <4>1. \A v \in WorkersOf(g) : wpc'[v] = wpc[v]
          BY <1>6, <2>2, Zenon DEF WorkersOf, TypeOK
        <4> QED
          BY <1>0, <4>1, Zenon DEF Sleeping, Coming
      <3> QED
        BY <1>0, <1>6, <3>1, Zenon
    <2> QED
      BY <2>1, <2>2, Zenon
  <1>7. ASSUME NEW w \in Workers, WorkerTake(w), NEW g \in Groups
        PROVE  Kept(g)
    <2>1. CASE g = GroupOf[w]
      <3>1. queue[g] # <<>> /\ queue'[g] = Tail(queue[g])
        BY <1>7, <2>1, Zenon DEF WorkerTake, TypeOK
      <3>2. Len(queue'[g]) = Len(queue[g]) - 1
        BY <3>1 DEF TypeOK
      <3>3. Sleeping(g)' = Sleeping(g) /\ Coming(g)' = Coming(g) \ {w} /\ w \in Coming(g)
        BY <1>7, <2>1, Zenon DEF WorkerTake, Sleeping, Coming, WorkersOf, TypeOK
      <3>4. Cardinality(Coming(g)') = Cardinality(Coming(g)) - 1
        BY <3>3, ComingFinite, CountRemoving, Zenon
      <3> QED
        BY <1>0, <3>2, <3>3, <3>4, ComingFinite
    <2>2. CASE g # GroupOf[w]
      <3>1. Sleeping(g)' = Sleeping(g) /\ Coming(g)' = Coming(g) /\ queue'[g] = queue[g]
        BY <1>7, <2>2, Zenon DEF WorkerTake, Sleeping, Coming, WorkersOf, TypeOK
      <3> QED
        BY <1>0, <3>1, Zenon
    <2> QED
      BY <2>1, <2>2, Zenon
  <1>8. CASE SweeperScan
    <2>1. sgroup \in Groups /\ queue[sgroup] \in Seq(Units) /\ Len(queue[sgroup]) \in Nat
      BY DEF TypeOK
    <2>2. PICK k \in 0..Len(queue[sgroup]) :
              queue' = [queue EXCEPT ![sgroup] = Unlink(queue[sgroup], k)]
      BY <1>8, Zenon DEF SweeperScan
    <2>3. Len(Unlink(queue[sgroup], k)) = Len(queue[sgroup]) - k
      BY <2>1, <2>2 DEF Unlink
    <2>4. queue'[sgroup] = Unlink(queue[sgroup], k) /\ \A g \in Groups \ {sgroup} : queue'[g] = queue[g]
      BY <2>1, <2>2, Zenon DEF TypeOK
    <2>5. \A g \in Groups : Len(queue'[g]) <= Len(queue[g])
      BY <1>0, <2>1, <2>2, <2>3, <2>4
    <2> QED
      BY <1>2, <1>8, <2>5, Zenon DEF SweeperScan, workerVars
  <1>9. ASSUME NEW h \in Groups, CloseStopGroup(h)
        PROVE  \A g \in Groups : Kept(g)
    <2>1. \A g \in Groups : Sleeping(g)' \subseteq Sleeping(g) /\ Coming(g) \subseteq Coming(g)'
      BY <1>9, Zenon DEF CloseStopGroup, Sleeping, Coming, WorkersOf, TypeOK
    <2> QED
      BY <1>0, <1>1, <1>9, <2>1 DEF CloseStopGroup
  <1> HIDE DEF Kept
  <1>10. CASE Working
    <2>1. ASSUME NEW w \in Workers, WorkerSleep(w) \/ WorkerLeave(w)
          PROVE  \A g \in Groups : Kept(g)
      BY <1>6, <2>1, Zenon DEF WorkerSleep, WorkerLeave
    <2>2. ASSUME NEW w \in Workers,
                 WorkerWakesByItself(w) \/ WorkerRefuse(w) \/ WorkerRun(w) \/ WorkerEnd(w)
          PROVE  \A g \in Groups : Kept(g)
      <3>1. /\ UNCHANGED queue
            /\ \E p \in {"look", "woken", "run"} :
                 wpc' = [wpc EXCEPT ![w] = p] /\ (p = "run" => wpc[w] = "took")
        BY <2>2, Zenon
        DEF WorkerWakesByItself, WorkerRefuse, WorkerRun, WorkerEnd, WorkerFinish, queueVars
      <3> QED
        BY <1>4, <3>1, Zenon
    <2> QED
      BY <1>7, <1>10, <2>1, <2>2, Zenon DEF Working
  <1>11. CASE Opening
    <2>1. CASE StartWorker
      BY <1>4, <2>1, Zenon DEF StartWorker, queueVars
    <2>2. CASE OpenConnection \/ OpenReader \/ StartSweeper \/ OpenFails
      BY <1>3, <2>2, Zenon DEF OpenConnection, OpenReader, StartSweeper, OpenFails, queueVars, workerVars
    <2> QED
      BY <1>11, <2>1, <2>2, Zenon DEF Opening
  <1>12. CASE Submitting
    <2>1. ASSUME NEW u \in Units, SubmitInline(u) \/ Answer(u)
          PROVE  \A g \in Groups : Kept(g)
      BY <1>3, <2>1, Zenon DEF SubmitInline, Answer, queueVars, workerVars
    <2>2. ASSUME NEW u \in Units, NEW l \in Loops, SubmitFull(u, l) \/ SubmitParkFails(u, l)
          PROVE  \A g \in Groups : Kept(g)
      BY <1>3, <2>2, Zenon DEF SubmitFull, SubmitParkFails, NotTaken, queueVars, workerVars
    <2> QED
      BY <1>5, <1>12, <2>1, <2>2, Zenon DEF Submitting
  <1>13. CASE Sweeping
    <2>1. CASE SweeperWake \/ SweeperHand \/ SweeperNext
      BY <1>3, <2>1, Zenon DEF SweeperWake, SweeperHand, SweeperNext, queueVars, workerVars
    <2> QED
      BY <1>8, <1>13, <2>1, Zenon DEF Sweeping
  <1>14. CASE Closing
    <2>1. CASE CloseBegin \/ CloseSweeperJoined \/ CloseJoined
      BY <1>3, <2>1, Zenon DEF CloseBegin, CloseSweeperJoined, CloseJoined, queueVars, workerVars
    <2> QED
      BY <1>9, <1>14, <2>1, Zenon DEF Closing
  <1>15. CASE Tick \/ Closed \/ UNCHANGED vars
    BY <1>3, <1>15, Zenon DEF Tick, Closed, vars, queueVars, workerVars
  <1> QED
    BY <1>10, <1>11, <1>12, <1>13, <1>14, <1>15, Zenon DEF Next

-----------------------------------------------------------------------------

(* Ownership.  HandedOverOnce is inductive once it is known what the locals  *)
(* of the threads hold: a worker has a unit exactly while it is past the     *)
(* queue, and the sweeper's list is empty unless it is handing it out; there *)
(* is no sweeper while the executor opens.                                   *)

LocalsTrue ==
    /\ \A w \in Workers : wpc[w] \in {"took", "run"} <=> wunit[w] # NoUnit
    /\ spc # "hand" => expired = <<>>
    /\ phase \in {"connect", "readers", "threads", "sweeper"} => spc = "none"

LEMMA LocalsInit == Init => LocalsTrue
  BY DEF Init, LocalsTrue

LEMMA LocalsStep ==
  ASSUME TypeOK, LocalsTrue, [Next]_vars
  PROVE  LocalsTrue'
  <1> USE DEF TypeOK, LocalsTrue, queueVars, workerVars, sweepVars
  <1>1. CASE UNCHANGED <<wpc, wunit, spc, expired, phase>>
    BY <1>1, Zenon
  <1>2. CASE StartWorker
    BY <1>2, Zenon DEF StartWorker
  <1>3. CASE StartSweeper
    BY <1>3, Zenon DEF StartSweeper
  <1>4. ASSUME NEW u \in Units, NEW l \in Loops, SubmitTaken(u, l)
        PROVE  LocalsTrue'
    <2>1. CASE UNCHANGED wpc
      BY <1>4, <2>1, Zenon DEF SubmitTaken
    <2>2. CASE \E w \in Workers : wpc[w] = "wait" /\ wpc' = [wpc EXCEPT ![w] = "woken"]
      BY <1>4, <2>2, Zenon DEF SubmitTaken
    <2> QED
      BY <1>4, <2>1, <2>2, Zenon DEF SubmitTaken, Signal, WorkersOf
  <1>5. ASSUME NEW w \in Workers, WorkerSleep(w) \/ WorkerWakesByItself(w) \/ WorkerLeave(w)
        PROVE  LocalsTrue'
    BY <1>5 DEF WorkerSleep, WorkerWakesByItself, WorkerLeave
  <1>6. ASSUME NEW w \in Workers, WorkerTake(w)
        PROVE  LocalsTrue'
    <2>1. GroupOf[w] \in Groups
      BY PlanAssumption, Zenon DEF Groups
    <2>2. queue[GroupOf[w]] \in Seq(Units) /\ queue[GroupOf[w]] # <<>>
      BY <1>6, <2>1, Zenon DEF WorkerTake
    <2>3. Head(queue[GroupOf[w]]) # NoUnit
      BY <2>2, SetsAssumption
    <2> QED
      BY <1>6, <2>3, Zenon DEF WorkerTake
  <1>7. ASSUME NEW w \in Workers, WorkerRun(w)
        PROVE  LocalsTrue'
    BY <1>7, Zenon DEF WorkerRun
  <1>8. ASSUME NEW w \in Workers, WorkerRefuse(w) \/ WorkerEnd(w)
        PROVE  LocalsTrue'
    BY <1>8, Zenon DEF WorkerRefuse, WorkerEnd, WorkerFinish
  <1>9. CASE SweeperWake \/ SweeperScan \/ SweeperHand \/ SweeperNext
    BY <1>9, Zenon DEF SweeperWake, SweeperScan, SweeperHand, SweeperNext
  <1>10. CASE OpenConnection \/ OpenReader \/ OpenFails
    BY <1>10, Zenon DEF OpenConnection, OpenReader, OpenFails
  <1>11. CASE CloseBegin \/ CloseSweeperJoined \/ CloseJoined
    BY <1>11, Zenon DEF CloseBegin, CloseSweeperJoined, CloseJoined
  <1>12. ASSUME NEW g \in Groups, CloseStopGroup(g)
         PROVE  LocalsTrue'
    BY <1>12, Zenon DEF CloseStopGroup
  <1>13. CASE Tick \/ Closed \/ UNCHANGED vars
    BY <1>1, <1>13, Zenon DEF Tick, Closed, vars
  <1>14. CASE Submitting
    <2>1. ASSUME NEW u \in Units, SubmitInline(u) \/ Answer(u)
          PROVE  LocalsTrue'
      BY <1>1, <2>1, Zenon DEF SubmitInline, Answer
    <2>2. ASSUME NEW u \in Units, NEW l \in Loops, SubmitFull(u, l) \/ SubmitParkFails(u, l)
          PROVE  LocalsTrue'
      BY <1>1, <2>2, Zenon DEF SubmitFull, SubmitParkFails, NotTaken
    <2> HIDE DEF TypeOK, LocalsTrue, queueVars, workerVars, sweepVars
    <2> QED
      BY <1>4, <1>14, <2>1, <2>2, Zenon DEF Submitting
  <1> HIDE DEF TypeOK, LocalsTrue, queueVars, workerVars, sweepVars
  <1>15. CASE Working
    BY <1>5, <1>6, <1>7, <1>8, <1>15, Zenon DEF Working
  <1>16. CASE Opening \/ Sweeping \/ Closing
    BY <1>2, <1>3, <1>9, <1>10, <1>11, <1>12, <1>16, Zenon DEF Opening, Sweeping, Closing
  <1> QED
    BY <1>13, <1>14, <1>15, <1>16, Zenon DEF Next

LEMMA OwnershipInit == Init => HandedOverOnce
  BY SetsAssumption DEF Init, HandedOverOnce, InQueue, AtWorker, AtSweeper

\* No unit is queued twice: the second conjunct of HandedOverOnce.
QueuedOnce ==
    \A g, h \in Groups : \A i \in DOMAIN queue[g], j \in DOMAIN queue[h] :
        queue[g][i] = queue[h][j] => g = h /\ i = j

LEMMA QueueGains ==
  ASSUME TypeOK, QueuedOnce, NEW g \in Groups, NEW u \in Units, ~InQueue(u),
         queue' = [queue EXCEPT ![g] = Append(@, u)]
  PROVE  QueuedOnce' /\ \A x \in Units : InQueue(x)' <=> InQueue(x) \/ x = u
  <1>1. queue[g] \in Seq(Units) /\ Len(queue[g]) \in Nat /\ DOMAIN queue[g] = 1..Len(queue[g])
    BY DEF TypeOK
  <1>2. /\ DOMAIN queue'[g] = 1..(Len(queue[g]) + 1)
        /\ \A i \in DOMAIN queue[g] : queue'[g][i] = queue[g][i]
        /\ queue'[g][Len(queue[g]) + 1] = u
    BY <1>1 DEF TypeOK
  <1>3. \A h \in Groups \ {g} : queue'[h] = queue[h]
    BY Zenon DEF TypeOK
  <1>4. DOMAIN queue'[g] = DOMAIN queue[g] \union {Len(queue[g]) + 1}
    BY <1>1, <1>2
  <1>5. QueuedOnce'
    BY <1>2, <1>3, <1>4 DEF QueuedOnce, InQueue
  <1>6. ASSUME NEW x \in Units
        PROVE  InQueue(x)' <=> InQueue(x) \/ x = u
    BY <1>2, <1>3, <1>4 DEF InQueue
  <1> QED
    BY <1>5, <1>6, Zenon

LEMMA QueueLoses ==
  ASSUME TypeOK, QueuedOnce, NEW g \in Groups, NEW k \in 0..Len(queue[g]),
         queue' = [queue EXCEPT ![g] = SubSeq(queue[g], k + 1, Len(queue[g]))]
  PROVE  /\ QueuedOnce'
         /\ \A x \in Units : InQueue(x)' <=> InQueue(x) /\ ~\E i \in 1..k : queue[g][i] = x
  <1>1. queue[g] \in Seq(Units) /\ Len(queue[g]) \in Nat /\ DOMAIN queue[g] = 1..Len(queue[g])
    BY DEF TypeOK
  <1>2. /\ DOMAIN queue'[g] = 1..(Len(queue[g]) - k)
        /\ \A i \in DOMAIN queue'[g] : i + k \in DOMAIN queue[g] /\ queue'[g][i] = queue[g][i + k]
    <2>1. /\ SubSeq(queue[g], k + 1, Len(queue[g])) \in Seq(Units)
          /\ Len(SubSeq(queue[g], k + 1, Len(queue[g]))) = Len(queue[g]) - k
          /\ \A i \in 1..(Len(queue[g]) - k) :
                SubSeq(queue[g], k + 1, Len(queue[g]))[i] = queue[g][i + k]
      BY <1>1
    <2>2. queue'[g] = SubSeq(queue[g], k + 1, Len(queue[g]))
      BY Zenon DEF TypeOK
    <2>3. DOMAIN queue'[g] = 1..(Len(queue[g]) - k)
      BY <2>1, <2>2
    <2>4. \A i \in 1..(Len(queue[g]) - k) : i + k \in 1..Len(queue[g])
      BY <1>1
    <2> QED
      BY <1>1, <2>1, <2>2, <2>3, <2>4, Zenon
  <1>3. \A h \in Groups \ {g} : queue'[h] = queue[h]
    BY Zenon DEF TypeOK
  <1>4. QueuedOnce'
    <2> SUFFICES ASSUME NEW a \in Groups, NEW b \in Groups, NEW i \in DOMAIN queue'[a],
                        NEW j \in DOMAIN queue'[b], queue'[a][i] = queue'[b][j]
                 PROVE  a = b /\ i = j
      BY Zenon DEF QueuedOnce
    <2>1. CASE a = g /\ b = g
      <3>1. i \in Int /\ j \in Int
        BY <1>2, <2>1
      <3>2. queue[g][i + k] = queue[g][j + k] /\ i + k \in DOMAIN queue[g] /\ j + k \in DOMAIN queue[g]
        BY <1>2, <2>1, Zenon
      <3>3. i + k = j + k
        BY <3>2 DEF QueuedOnce
      <3> QED
        BY <2>1, <3>1, <3>3
    <2>2. CASE a # g \/ b # g
      BY <1>2, <1>3, <2>2 DEF QueuedOnce
    <2> QED
      BY <2>1, <2>2, Zenon
  <1>5. ASSUME NEW x \in Units
        PROVE  InQueue(x)' <=> InQueue(x) /\ ~\E i \in 1..k : queue[g][i] = x
    <2>1. ASSUME InQueue(x)'
          PROVE  InQueue(x) /\ ~\E i \in 1..k : queue[g][i] = x
      <3>1. PICK a \in Groups : \E j \in DOMAIN queue'[a] : queue'[a][j] = x
        BY <2>1, Zenon DEF InQueue
      <3>2. CASE a = g
        <4>1. PICK j \in DOMAIN queue'[g] : queue[g][j + k] = x /\ j + k \in DOMAIN queue[g]
          BY <1>2, <3>1, <3>2, SMTT(40)
        <4>2. \A i \in 1..k : i # j + k /\ i \in DOMAIN queue[g]
          BY <1>1, <1>2
        <4> QED
          BY <4>1, <4>2, Zenon DEF InQueue, QueuedOnce
      <3>3. CASE a # g
        <4>1. PICK j \in DOMAIN queue[a] : queue[a][j] = x
          BY <1>3, <3>1, <3>3, Zenon
        <4>2. 1..k \subseteq DOMAIN queue[g]
          BY <1>1
        <4> QED
          BY <3>3, <4>1, <4>2, Zenon DEF InQueue, QueuedOnce
      <3> QED
        BY <3>2, <3>3, Zenon
    <2>2. ASSUME InQueue(x), ~\E i \in 1..k : queue[g][i] = x
          PROVE  InQueue(x)'
      <3>1. PICK a \in Groups : \E j \in DOMAIN queue[a] : queue[a][j] = x
        BY <2>2, Zenon DEF InQueue
      <3>2. CASE a = g
        <4>1. PICK j \in DOMAIN queue[g] : queue[g][j] = x /\ j > k
          BY <1>1, <2>2, <3>1, <3>2
        <4>2. j - k \in DOMAIN queue'[g] /\ (j - k) + k = j
          BY <1>1, <1>2, <4>1
        <4> QED
          BY <1>2, <4>1, <4>2, Zenon DEF InQueue
      <3>3. CASE a # g
        BY <1>3, <3>1, <3>3, SMTT(40) DEF InQueue
      <3> QED
        BY <3>2, <3>3, Zenon
    <2> QED
      BY <2>1, <2>2, Zenon
  <1> QED
    BY <1>4, <1>5, Zenon

LEMMA OwnershipStep ==
  ASSUME TypeOK, LocalsTrue, HandedOverOnce, [Next]_vars
  PROVE  HandedOverOnce'
  <1>0. QueuedOnce
    BY Zenon DEF HandedOverOnce, QueuedOnce
  <1>1. CASE UNCHANGED <<queue, wunit, expired, holder>>
    BY <1>1 DEF HandedOverOnce, InQueue, AtWorker, AtSweeper
  <1>2. ASSUME NEW u \in Units, SubmitInline(u) \/ Answer(u)
        PROVE  HandedOverOnce'
    <2>1. /\ UNCHANGED <<queue, wunit, expired>>
          /\ holder[u] # "out" /\ holder' \in {[holder EXCEPT ![u] = "back"], [holder EXCEPT ![u] = "caller"]}
      BY <1>2, Zenon DEF SubmitInline, MaySubmit, Answer, queueVars, workerVars, sweepVars
    <2>2. \A x \in Units : holder'[x] = "out" <=> holder[x] = "out"
      BY <2>1, Zenon DEF TypeOK
    <2> QED
      BY <2>1, <2>2 DEF HandedOverOnce, InQueue, AtWorker, AtSweeper
  <1>3. ASSUME NEW u \in Units, NEW l \in Loops, SubmitTaken(u, l)
        PROVE  HandedOverOnce'
    <2>1. LoopGroup[l] \in Groups
      BY PlanAssumption, Zenon DEF Groups
    <2>2. /\ queue' = [queue EXCEPT ![LoopGroup[l]] = Append(@, u)] /\ UNCHANGED <<wunit, expired>>
          /\ holder[u] = "caller" /\ holder' = [holder EXCEPT ![u] = "out"]
      BY <1>3, Zenon DEF SubmitTaken, MaySubmit, Enqueue, sweepVars
    <2>3. ~InQueue(u) /\ ~AtWorker(u) /\ ~AtSweeper(u)
      BY <2>2, Zenon DEF HandedOverOnce
    <2>4. QueuedOnce' /\ \A x \in Units : InQueue(x)' <=> InQueue(x) \/ x = u
      BY <1>0, <2>1, <2>2, <2>3, QueueGains, Zenon
    <2>5. \A x \in Units : (AtWorker(x)' <=> AtWorker(x)) /\ (AtSweeper(x)' <=> AtSweeper(x))
      BY <2>2, Zenon DEF AtWorker, AtSweeper
    <2>6. \A x \in Units : holder'[x] = "out" <=> holder[x] = "out" \/ x = u
      BY <2>2, SMTT(40) DEF TypeOK
    <2> QED
      BY <2>2, <2>3, <2>4, <2>5, <2>6, Zenon DEF HandedOverOnce, QueuedOnce
  <1>4. ASSUME NEW w \in Workers, WorkerTake(w)
        PROVE  HandedOverOnce'
    <2> DEFINE q == queue[GroupOf[w]]
    <2>1. GroupOf[w] \in Groups /\ q \in Seq(Units) /\ q # <<>>
      BY <1>4, PlanAssumption, Zenon DEF Groups, TypeOK, WorkerTake
    <2>2. /\ wunit' = [wunit EXCEPT ![w] = Head(q)] /\ UNCHANGED <<expired, holder>>
          /\ queue' = [queue EXCEPT ![GroupOf[w]] = Tail(q)]
          /\ wunit[w] = NoUnit
      BY <1>4, Zenon DEF WorkerTake, LocalsTrue, sweepVars, unitVars
    <2>3. Tail(q) = SubSeq(q, 1 + 1, Len(q)) /\ 1 \in 0..Len(q) /\ Head(q) = q[1] /\ q[1] \in Units
      BY <2>1
    <2>4. QueuedOnce' /\ \A x \in Units : InQueue(x)' <=> InQueue(x) /\ ~\E i \in 1..1 : q[i] = x
      BY <1>0, <2>1, <2>2, <2>3, QueueLoses, Zenon
    <2>5. InQueue(q[1]) /\ 1..1 = {1}
      BY <2>1, <2>3 DEF InQueue
    <2>6. \A x \in Units : (AtWorker(x)' <=> AtWorker(x) \/ x = q[1]) /\ (AtSweeper(x)' <=> AtSweeper(x))
      BY <2>2, <2>3, SetsAssumption, Zenon DEF AtWorker, AtSweeper, TypeOK
    <2>7. \A v \in Workers : wunit[v] # q[1]
      BY <2>3, <2>5, Zenon DEF HandedOverOnce, AtWorker
    <2>8. \A v, y \in Workers : wunit'[v] = wunit'[y] /\ wunit'[v] # NoUnit => v = y
      BY <2>2, <2>3, <2>7 DEF HandedOverOnce, TypeOK
    <2> QED
      BY <2>2, <2>3, <2>4, <2>5, <2>6, <2>8 DEF HandedOverOnce, QueuedOnce
  <1>5. ASSUME NEW w \in Workers, WorkerRefuse(w) \/ WorkerEnd(w)
        PROVE  HandedOverOnce'
    <2>1. /\ wunit' = [wunit EXCEPT ![w] = NoUnit] /\ UNCHANGED <<queue, expired>>
          /\ holder' = [holder EXCEPT ![wunit[w]] = "back"]
          /\ wunit[w] \in Units
      BY <1>5, Zenon DEF WorkerRefuse, WorkerEnd, WorkerFinish, LocalsTrue, TypeOK, queueVars, sweepVars
    <2>2. \A x \in Units : /\ AtWorker(x)' <=> AtWorker(x) /\ x # wunit[w]
                           /\ InQueue(x)' <=> InQueue(x)
                           /\ AtSweeper(x)' <=> AtSweeper(x)
      BY <2>1, SetsAssumption DEF AtWorker, InQueue, AtSweeper, HandedOverOnce, TypeOK
    <2>3. AtWorker(wunit[w])
      BY Zenon DEF AtWorker
    <2>4. \A x \in Units : holder'[x] = "out" <=> holder[x] = "out" /\ x # wunit[w]
      BY <2>1, Zenon DEF TypeOK
    <2>5. \A v, y \in Workers : wunit'[v] = wunit'[y] /\ wunit'[v] # NoUnit => v = y
      BY <2>1, Zenon DEF HandedOverOnce, TypeOK
    <2> QED
      BY <2>1, <2>2, <2>3, <2>4, <2>5 DEF HandedOverOnce
  <1>6. CASE SweeperScan
    <2> DEFINE q == queue[sgroup]
    <2>1. sgroup \in Groups /\ q \in Seq(Units) /\ Len(q) \in Nat /\ DOMAIN q = 1..Len(q)
      BY DEF TypeOK
    <2>2. PICK k \in 0..Len(q) :
            /\ expired' = SubSeq(q, 1, k)
            /\ queue' = [queue EXCEPT ![sgroup] = SubSeq(q, k + 1, Len(q))]
      BY <1>6, Zenon DEF SweeperScan, Unlink
    <2>3. UNCHANGED <<wunit, holder>> /\ expired = <<>>
      BY <1>6, Zenon DEF SweeperScan, workerVars, unitVars, LocalsTrue
    <2>4. QueuedOnce' /\ \A x \in Units : InQueue(x)' <=> InQueue(x) /\ ~\E i \in 1..k : q[i] = x
      BY <1>0, <2>1, <2>2, QueueLoses, Zenon
    <2>5. DOMAIN expired' = 1..k /\ \A i \in 1..k : expired'[i] = q[i] /\ i \in DOMAIN q
      BY <2>1, <2>2
    <2>6. \A x \in Units : /\ AtSweeper(x)' <=> \E i \in 1..k : q[i] = x
                           /\ AtWorker(x)' <=> AtWorker(x)
                           /\ ~AtSweeper(x)
      BY <2>3, <2>5 DEF AtSweeper, AtWorker
    <2>7. \A i, j \in DOMAIN expired' : expired'[i] = expired'[j] => i = j
      BY <1>0, <2>1, <2>5 DEF QueuedOnce
    <2>8. \A x \in Units : (\E i \in 1..k : q[i] = x) => InQueue(x)
      BY <2>1, <2>5, Zenon DEF InQueue
    <2> QED
      BY <2>3, <2>4, <2>6, <2>7, <2>8, Zenon DEF HandedOverOnce, QueuedOnce
  <1>7. CASE SweeperHand
    <2>1. /\ expired # <<>> /\ expired' = Tail(expired) /\ UNCHANGED <<queue, wunit>>
          /\ holder' = [holder EXCEPT ![Head(expired)] = "back"]
      BY <1>7, Zenon DEF SweeperHand, queueVars, workerVars
    <2>2. /\ Head(expired) = expired[1] /\ expired[1] \in Units /\ 1 \in DOMAIN expired
          /\ DOMAIN expired = 1..Len(expired) /\ Len(expired) \in Nat
          /\ DOMAIN expired' = 1..(Len(expired) - 1)
          /\ \A i \in DOMAIN expired' : expired'[i] = expired[i + 1] /\ i + 1 \in DOMAIN expired
      BY <2>1 DEF TypeOK
    <2>3. ASSUME NEW x \in Units
          PROVE  AtSweeper(x)' <=> AtSweeper(x) /\ x # expired[1]
      <3>1. ASSUME NEW i \in DOMAIN expired', expired'[i] = x
            PROVE  AtSweeper(x) /\ x # expired[1]
        <4>1. i + 1 # 1
          BY <2>2
        <4> QED
          BY <2>2, <3>1, <4>1 DEF AtSweeper, HandedOverOnce
      <3>2. ASSUME NEW i \in DOMAIN expired, expired[i] = x, x # expired[1]
            PROVE  AtSweeper(x)'
        <4>1. i - 1 \in DOMAIN expired' /\ (i - 1) + 1 = i
          BY <2>2, <3>2
        <4> QED
          BY <2>2, <3>2, <4>1, Zenon DEF AtSweeper
      <3> QED
        BY <3>1, <3>2, Zenon DEF AtSweeper
    <2>4. \A x \in Units : (AtWorker(x)' <=> AtWorker(x)) /\ (InQueue(x)' <=> InQueue(x))
      BY <2>1, Zenon DEF AtWorker, InQueue
    <2>5. \A x \in Units : holder'[x] = "out" <=> holder[x] = "out" /\ x # expired[1]
      BY <2>1, <2>2, Zenon DEF TypeOK
    <2>6. AtSweeper(expired[1])
      BY <2>2, Zenon DEF AtSweeper
    <2>7. ASSUME NEW i \in DOMAIN expired', NEW j \in DOMAIN expired', expired'[i] = expired'[j]
          PROVE  i = j
      <3>1. i + 1 = j + 1
        BY <2>2, <2>7 DEF HandedOverOnce
      <3> QED
        BY <2>2, <3>1
    <2> QED
      BY <2>1, <2>2, <2>3, <2>4, <2>5, <2>6, <2>7 DEF HandedOverOnce
  <1>8. CASE Tick \/ Opening \/ Closing \/ Closed \/ UNCHANGED vars
    <2>1. CASE Tick \/ Closed \/ UNCHANGED vars
      BY <1>1, <2>1, Zenon DEF Tick, Closed, vars, queueVars, workerVars, sweepVars, unitVars
    <2>2. CASE Opening
      BY <1>1, <2>2, Zenon
      DEF Opening, OpenConnection, OpenReader, StartWorker, StartSweeper, OpenFails,
          queueVars, workerVars, sweepVars, unitVars
    <2>3. CASE Closing
      BY <1>1, <2>3, Zenon
      DEF Closing, CloseBegin, CloseSweeperJoined, CloseJoined, CloseStopGroup,
          queueVars, workerVars, sweepVars, unitVars
    <2> QED
      BY <1>8, <2>1, <2>2, <2>3, Zenon
  <1>9. CASE Submitting
    <2>1. ASSUME NEW u \in Units, NEW l \in Loops, SubmitFull(u, l) \/ SubmitParkFails(u, l)
          PROVE  HandedOverOnce'
      BY <1>1, <2>1, Zenon DEF SubmitFull, SubmitParkFails, NotTaken, queueVars, workerVars, sweepVars
    <2> QED
      BY <1>2, <1>3, <1>9, <2>1, Zenon DEF Submitting
  <1>10. CASE Working
    <2>1. ASSUME NEW w \in Workers,
                 WorkerSleep(w) \/ WorkerWakesByItself(w) \/ WorkerLeave(w) \/ WorkerRun(w)
          PROVE  HandedOverOnce'
      BY <1>1, <2>1, Zenon
      DEF WorkerSleep, WorkerWakesByItself, WorkerLeave, WorkerRun, queueVars, sweepVars, unitVars
    <2> QED
      BY <1>4, <1>5, <1>10, <2>1, Zenon DEF Working
  <1>11. CASE Sweeping
    <2>1. CASE SweeperWake \/ SweeperNext
      BY <1>1, <2>1, Zenon DEF SweeperWake, SweeperNext, queueVars, workerVars, unitVars
    <2> QED
      BY <1>6, <1>7, <1>11, <2>1, Zenon DEF Sweeping
  <1> QED
    BY <1>8, <1>9, <1>10, <1>11, Zenon DEF Next

-----------------------------------------------------------------------------
(* The waiting time.                                                         *)

\* A queue is in the order of its times, which is why the sweeper may stop at the first unit that
\* has not waited too long; what the sweeper holds has; and a unit that is out has not run.
WaitsTrue ==
    /\ \A u \in Units : queuedAt[u] <= now /\ (holder[u] = "out" => ~worked[u])
    /\ \A i \in DOMAIN expired : WaitedTooLong(expired[i])
    /\ \A g \in Groups : \A i, j \in DOMAIN queue[g] :
          i <= j => queuedAt[queue[g][i]] <= queuedAt[queue[g][j]]

LEMMA WaitsInit == Init => WaitsTrue /\ TooBusyIsTrue
  BY DEF Init, WaitsTrue, TooBusyIsTrue

\* What is queued or in the sweeper's list is out.
LEMMA HeldIsOut ==
  ASSUME TypeOK, HandedOverOnce
  PROVE  /\ \A g \in Groups : \A i \in DOMAIN queue[g] :
              queue[g][i] \in Units /\ holder[queue[g][i]] = "out"
         /\ \A i \in DOMAIN expired : expired[i] \in Units /\ holder[expired[i]] = "out"
  <1>1. \A g \in Groups : \A i \in DOMAIN queue[g] : queue[g][i] \in Units
    BY DEF TypeOK
  <1>2. \A i \in DOMAIN expired : expired[i] \in Units
    BY DEF TypeOK
  <1> QED
    BY <1>1, <1>2, Zenon DEF HandedOverOnce, InQueue, AtSweeper

LEMMA WaitsStep ==
  ASSUME TypeOK, TypeOK', LocalsTrue, HandedOverOnce, WaitsTrue, TooBusyIsTrue, [Next]_vars
  PROVE  WaitsTrue' /\ TooBusyIsTrue'
  <1>0. /\ now \in Nat /\ now' \in Nat /\ WaitLimit \in Nat
        /\ \A u \in Units : queuedAt[u] \in Nat /\ queuedAt'[u] \in Nat
    BY CountsAssumption, Zenon DEF TypeOK
  \* Nothing of a unit that is out changes but that time passes; another's time may be reset.
  <1>1. ASSUME UNCHANGED <<queue, expired>>, now' >= now,
               \A x \in Units : \/ /\ holder'[x] = holder[x] /\ worked'[x] = worked[x]
                                   /\ queuedAt'[x] = queuedAt[x] /\ status'[x] = status[x]
                                \/ /\ holder[x] # "out" /\ holder'[x] # "out"
                                   /\ queuedAt'[x] \in {0, queuedAt[x]}
                                   /\ status'[x] # "queue_full"
        PROVE  WaitsTrue' /\ TooBusyIsTrue'
    <2>1. \A x \in Units : queuedAt'[x] <= now' /\ (holder'[x] = "out" => ~worked'[x])
      BY <1>0, <1>1 DEF WaitsTrue
    <2>2. \A x \in Units : holder[x] = "out" => queuedAt'[x] = queuedAt[x]
      BY <1>1, Zenon
    <2>3. \A i \in DOMAIN expired : WaitedTooLong(expired[i])'
      BY <1>0, <1>1, <2>2, HeldIsOut DEF WaitsTrue, WaitedTooLong
    <2>4. \A g \in Groups : \A i \in DOMAIN queue[g] : queuedAt'[queue[g][i]] = queuedAt[queue[g][i]]
      BY <2>2, HeldIsOut, Zenon
    <2>5. TooBusyIsTrue'
      BY <1>0, <1>1 DEF TooBusyIsTrue
    <2> QED
      BY <1>1, <2>1, <2>3, <2>4, <2>5 DEF WaitsTrue
  <1>2. CASE UNCHANGED <<queue, expired, holder, worked, queuedAt, status>> /\ now' >= now
    BY <1>1, <1>2, Zenon
  <1>3. CASE Submitting
    <2>0. ASSUME NEW u \in Units, NEW h \in {"caller", "back"}, NEW s, s # "queue_full",
                 NEW t \in {0, queuedAt[u]}, holder[u] # "out", UNCHANGED <<queue, expired, now>>,
                 holder' = [holder EXCEPT ![u] = h], status' = [status EXCEPT ![u] = s],
                 queuedAt' = [queuedAt EXCEPT ![u] = t],
                 \A x \in Units \ {u} : worked'[x] = worked[x]
          PROVE  WaitsTrue' /\ TooBusyIsTrue'
      <3>1. holder'[u] # "out" /\ status'[u] # "queue_full" /\ queuedAt'[u] \in {0, queuedAt[u]}
        BY <2>0, Zenon DEF TypeOK
      <3>2. \A x \in Units \ {u} : /\ holder'[x] = holder[x] /\ worked'[x] = worked[x]
                                   /\ queuedAt'[x] = queuedAt[x] /\ status'[x] = status[x]
        BY <2>0 DEF TypeOK
      <3>3. now' >= now
        BY <1>0, <2>0
      <3> QED
        BY <1>1, <2>0, <3>1, <3>2, <3>3, Zenon
    <2>1. ASSUME NEW u \in Units, SubmitInline(u)
          PROVE  WaitsTrue' /\ TooBusyIsTrue'
      <3>1. PICK o \in RunOutcomes :
              status' = [status EXCEPT ![u] = o[1]] /\ worked' = [worked EXCEPT ![u] = o[2]]
        BY <2>1, Zenon DEF SubmitInline
      <3>2. o[1] # "queue_full"
        BY OutcomeTypes, Zenon
      <3>3. queuedAt' = [queuedAt EXCEPT ![u] = queuedAt[u]]
        BY <2>1, Zenon DEF SubmitInline, TypeOK
      <3>4. \A x \in Units \ {u} : worked'[x] = worked[x]
        BY <3>1, Zenon DEF TypeOK
      <3>5. /\ holder[u] # "out" /\ holder' = [holder EXCEPT ![u] = "back"]
            /\ UNCHANGED <<queue, expired, now>>
        BY <2>1, Zenon DEF SubmitInline, MaySubmit, queueVars, sweepVars
      <3> QED
        BY <2>0, <3>1, <3>2, <3>3, <3>4, <3>5, Zenon
    <2>2. ASSUME NEW u \in Units, Answer(u)
          PROVE  WaitsTrue' /\ TooBusyIsTrue'
      <3>1. \A x \in Units \ {u} : worked'[x] = worked[x]
        BY <2>2 DEF Answer, TypeOK
      <3>2. /\ holder[u] # "out" /\ holder' = [holder EXCEPT ![u] = "caller"]
            /\ status' = [status EXCEPT ![u] = "ok"] /\ queuedAt' = [queuedAt EXCEPT ![u] = 0]
            /\ UNCHANGED <<queue, expired, now>>
        BY <2>2, Zenon DEF Answer, queueVars, sweepVars
      <3>3. "ok" # "queue_full"
        BY Zenon
      <3> QED
        BY <2>0, <3>1, <3>2, <3>3, Zenon
    <2>3. ASSUME NEW u \in Units, NEW l \in Loops, SubmitFull(u, l) \/ SubmitParkFails(u, l)
          PROVE  WaitsTrue' /\ TooBusyIsTrue'
      <3>1. MaySubmit(u) /\ NotTaken(u)
        BY <2>3, Zenon DEF SubmitFull, SubmitParkFails
      <3>2. /\ queuedAt' = [queuedAt EXCEPT ![u] = queuedAt[u]]
            /\ holder' = [holder EXCEPT ![u] = "caller"]
            /\ \A x \in Units \ {u} : worked'[x] = worked[x]
        BY <3>1 DEF MaySubmit, NotTaken, TypeOK
      <3>3. /\ holder[u] # "out" /\ status' = [status EXCEPT ![u] = "ok"] /\ "ok" # "queue_full"
            /\ UNCHANGED <<queue, expired, now>>
        BY <3>1, Zenon DEF MaySubmit, NotTaken, queueVars, sweepVars
      <3> QED
        BY <2>0, <3>2, <3>3, Zenon
    <2>4. ASSUME NEW u \in Units, NEW l \in Loops, SubmitTaken(u, l)
          PROVE  WaitsTrue' /\ TooBusyIsTrue'
      <3> DEFINE g == LoopGroup[l]
      <3>1. /\ g \in Groups /\ holder[u] = "caller" /\ UNCHANGED <<expired, now>>
            /\ queue' = [queue EXCEPT ![g] = Append(@, u)]
            /\ queuedAt' = [queuedAt EXCEPT ![u] = now]
            /\ holder' = [holder EXCEPT ![u] = "out"]
            /\ worked' = [worked EXCEPT ![u] = FALSE]
            /\ status' = [status EXCEPT ![u] = "ok"]
        BY <2>4, PlanAssumption, Zenon DEF SubmitTaken, MaySubmit, Enqueue, Groups, sweepVars
      <3>2. \A x \in Units \ {u} : /\ holder'[x] = holder[x] /\ worked'[x] = worked[x]
                                   /\ queuedAt'[x] = queuedAt[x] /\ status'[x] = status[x]
        BY <3>1 DEF TypeOK
      <3>3. queuedAt'[u] = now /\ ~worked'[u] /\ status'[u] = "ok"
        BY <3>1 DEF TypeOK
      <3>4. \A x \in Units : queuedAt'[x] <= now' /\ (holder'[x] = "out" => ~worked'[x])
        BY <1>0, <3>1, <3>2, <3>3 DEF WaitsTrue
      <3>5. \A i \in DOMAIN expired' : WaitedTooLong(expired[i])'
        BY <3>1, <3>2, HeldIsOut DEF WaitsTrue, WaitedTooLong
      <3>6. \A h \in Groups : \A i \in DOMAIN queue[h] : queuedAt'[queue[h][i]] = queuedAt[queue[h][i]]
        BY <3>1, <3>2, HeldIsOut, Zenon
      <3>7. \A h \in Groups \ {g} : queue'[h] = queue[h]
        BY <3>1, Zenon DEF TypeOK
      <3>8. /\ DOMAIN queue[g] = 1..Len(queue[g]) /\ Len(queue[g]) \in Nat
            /\ DOMAIN queue'[g] = DOMAIN queue[g] \union {Len(queue[g]) + 1}
            /\ \A i \in DOMAIN queue[g] : queue'[g][i] = queue[g][i]
            /\ queue'[g][Len(queue[g]) + 1] = u
        <4>1. queue[g] \in Seq(Units) /\ queue'[g] = Append(queue[g], u)
          BY <3>1, Zenon DEF TypeOK
        <4> QED
          BY <4>1
      <3>9. \A i, j \in DOMAIN queue'[g] :
              i <= j => queuedAt'[queue'[g][i]] <= queuedAt'[queue'[g][j]]
        <4> SUFFICES ASSUME NEW i \in DOMAIN queue'[g], NEW j \in DOMAIN queue'[g], i <= j
                     PROVE  queuedAt'[queue'[g][i]] <= queuedAt'[queue'[g][j]]
          BY Zenon
        <4>1. CASE j \in DOMAIN queue[g]
          <5>1. i \in DOMAIN queue[g]
            BY <3>8, <4>1
          <5>2. queuedAt[queue[g][i]] <= queuedAt[queue[g][j]]
            BY <3>1, <4>1, <5>1, Zenon DEF WaitsTrue
          <5>3. /\ queue'[g][i] = queue[g][i] /\ queuedAt'[queue[g][i]] = queuedAt[queue[g][i]]
                /\ queue'[g][j] = queue[g][j] /\ queuedAt'[queue[g][j]] = queuedAt[queue[g][j]]
            BY <3>1, <3>6, <3>8, <4>1, <5>1, Zenon
          <5> QED
            BY <5>2, <5>3, Zenon
        <4>2. CASE j = Len(queue[g]) + 1
          <5>1. queue'[g][i] \in Units /\ queue'[g][j] = u
            BY <3>8, <4>2, HeldIsOut, <3>1, Zenon
          <5> QED
            BY <3>1, <3>3, <3>4, <5>1, Zenon
        <4> QED
          BY <3>8, <4>1, <4>2, Zenon
      <3>10. \A h \in Groups : \A i, j \in DOMAIN queue'[h] :
               i <= j => queuedAt'[queue'[h][i]] <= queuedAt'[queue'[h][j]]
        <4> SUFFICES ASSUME NEW h \in Groups, h # g, NEW i \in DOMAIN queue[h],
                            NEW j \in DOMAIN queue[h], i <= j
                     PROVE  queuedAt'[queue[h][i]] <= queuedAt'[queue[h][j]]
          BY <3>7, <3>9, Zenon
        <4>1. queuedAt[queue[h][i]] <= queuedAt[queue[h][j]]
          BY Zenon DEF WaitsTrue
        <4>2. /\ queuedAt'[queue[h][i]] = queuedAt[queue[h][i]]
              /\ queuedAt'[queue[h][j]] = queuedAt[queue[h][j]]
          BY <3>6, Zenon
        <4> QED
          BY <4>1, <4>2, Zenon
      <3>11. TooBusyIsTrue'
        BY <3>1, <3>2, <3>3, Zenon DEF TooBusyIsTrue
      <3> QED
        BY <3>4, <3>5, <3>10, <3>11, Zenon DEF WaitsTrue
    <2> QED
      BY <1>3, <2>1, <2>2, <2>3, <2>4, Zenon DEF Submitting
  <1>4. ASSUME NEW g \in Groups, NEW k \in 0..Len(queue[g]),
               queue' = [queue EXCEPT ![g] = SubSeq(queue[g], k + 1, Len(queue[g]))],
               UNCHANGED <<holder, worked, queuedAt, status, now>>,
               \A i \in DOMAIN expired' : WaitedTooLong(expired'[i])
        PROVE  WaitsTrue' /\ TooBusyIsTrue'
    <2>1. queue[g] \in Seq(Units) /\ Len(queue[g]) \in Nat /\ DOMAIN queue[g] = 1..Len(queue[g])
      BY DEF TypeOK
    <2>2. queue'[g] = SubSeq(queue[g], k + 1, Len(queue[g]))
      BY <1>4, Zenon DEF TypeOK
    <2>3. /\ DOMAIN queue'[g] = 1..(Len(queue[g]) - k)
          /\ \A i \in DOMAIN queue'[g] : queue'[g][i] = queue[g][i + k] /\ i + k \in DOMAIN queue[g]
      <3>1. /\ Len(queue'[g]) = Len(queue[g]) - k /\ queue'[g] \in Seq(Units)
            /\ \A i \in 1..(Len(queue[g]) - k) : queue'[g][i] = queue[g][i + k]
        BY <2>1, <2>2
      <3>2. \A i \in 1..(Len(queue[g]) - k) : i + k \in 1..Len(queue[g])
        BY <2>1
      <3>3. DOMAIN queue'[g] = 1..(Len(queue[g]) - k)
        BY <3>1
      <3> QED
        BY <2>1, <3>1, <3>2, <3>3, Zenon
    <2>4. ASSUME NEW i \in DOMAIN queue'[g], NEW j \in DOMAIN queue'[g], i <= j
          PROVE  queuedAt[queue'[g][i]] <= queuedAt[queue'[g][j]]
      <3>1. i + k <= j + k
        BY <2>1, <2>3, <2>4
      <3> QED
        BY <2>3, <3>1, Zenon DEF WaitsTrue
    <2>5. \A h \in Groups \ {g} : queue'[h] = queue[h]
      BY <1>4, Zenon DEF TypeOK
    <2>6. \A h \in Groups : \A i, j \in DOMAIN queue'[h] :
             i <= j => queuedAt[queue'[h][i]] <= queuedAt[queue'[h][j]]
      BY <2>4, <2>5, Zenon DEF WaitsTrue
    <2> QED
      BY <1>4, <2>6, Zenon DEF WaitsTrue, WaitedTooLong, TooBusyIsTrue
  <1>5. ASSUME NEW w \in Workers, WorkerTake(w)
        PROVE  WaitsTrue' /\ TooBusyIsTrue'
    <2> DEFINE q == queue[GroupOf[w]]
    <2>1. GroupOf[w] \in Groups /\ q \in Seq(Units) /\ q # <<>>
      BY <1>5, PlanAssumption, Zenon DEF Groups, TypeOK, WorkerTake
    <2>2. Tail(q) = SubSeq(q, 1 + 1, Len(q)) /\ 1 \in 0..Len(q)
      BY <2>1
    <2>3. queue' = [queue EXCEPT ![GroupOf[w]] = SubSeq(q, 1 + 1, Len(q))]
      BY <1>5, <2>2, Zenon DEF WorkerTake
    <2>4. UNCHANGED <<expired, holder, worked, queuedAt, status, now>>
      BY <1>5, Zenon DEF WorkerTake, sweepVars, unitVars
    <2>5. \A i \in DOMAIN expired' : WaitedTooLong(expired'[i])
      BY <2>4, Zenon DEF WaitsTrue
    <2> QED
      BY <1>4, <2>1, <2>2, <2>3, <2>4, <2>5, Zenon
  <1>6. CASE SweeperScan
    <2> DEFINE q == queue[sgroup]
    <2>1. sgroup \in Groups /\ q \in Seq(Units) /\ Len(q) \in Nat
      BY DEF TypeOK
    <2>2. PICK k \in 0..Len(q) :
            /\ \A i \in 1..k : WaitedTooLong(q[i])
            /\ expired' = SubSeq(q, 1, k)
            /\ queue' = [queue EXCEPT ![sgroup] = SubSeq(q, k + 1, Len(q))]
      BY <1>6, Zenon DEF SweeperScan, Unlink
    <2>3. UNCHANGED <<holder, worked, queuedAt, status, now>>
      BY <1>6, Zenon DEF SweeperScan, unitVars
    <2>4. DOMAIN expired' = 1..k /\ \A i \in 1..k : expired'[i] = q[i]
      BY <2>1, <2>2
    <2>5. \A i \in DOMAIN expired' : WaitedTooLong(expired'[i])
      BY <2>2, <2>4, Zenon
    <2> QED
      BY <1>4, <2>1, <2>2, <2>3, <2>5, Zenon
  \* A unit is handed back, and only one that waited too long and did not run as too busy.
  <1>7. ASSUME NEW u \in Units, NEW s, NEW ran \in BOOLEAN, UNCHANGED <<queue, queuedAt, now>>,
               status' = [status EXCEPT ![u] = s], worked' = [worked EXCEPT ![u] = ran],
               holder' = [holder EXCEPT ![u] = "back"],
               s = "queue_full" => ~ran /\ WaitedTooLong(u),
               \A i \in DOMAIN expired' : WaitedTooLong(expired'[i])
        PROVE  WaitsTrue' /\ TooBusyIsTrue'
    <2>1. \A x \in Units \ {u} : status'[x] = status[x] /\ worked'[x] = worked[x] /\ holder'[x] = holder[x]
      BY <1>7 DEF TypeOK
    <2>2. status'[u] = s /\ worked'[u] = ran /\ holder'[u] = "back"
      BY <1>7 DEF TypeOK
    <2>3. TooBusyIsTrue'
      BY <1>0, <1>7, <2>1, <2>2, Zenon DEF TooBusyIsTrue, WaitedTooLong
    <2> QED
      BY <1>7, <2>1, <2>2, <2>3, Zenon DEF WaitsTrue, WaitedTooLong
  <1>8. ASSUME NEW w \in Workers, WorkerRefuse(w) \/ WorkerEnd(w)
        PROVE  WaitsTrue' /\ TooBusyIsTrue'
    <2>1. wunit[w] \in Units
      BY <1>8, Zenon DEF WorkerRefuse, WorkerEnd, LocalsTrue, TypeOK
    <2>2. PICK s \in Statuses, ran \in BOOLEAN :
              WorkerFinish(w, s, ran) /\ (s = "queue_full" => ~ran /\ WaitedTooLong(wunit[w]))
      <3>1. CASE WorkerRefuse(w)
        BY <3>1, Zenon DEF WorkerRefuse, Statuses
      <3>2. CASE WorkerEnd(w)
        BY <3>2, OutcomeTypes, Zenon DEF WorkerEnd, Statuses
      <3> QED
        BY <1>8, <3>1, <3>2, Zenon
    <2>3. \A i \in DOMAIN expired' : WaitedTooLong(expired'[i])
      BY <2>2, Zenon DEF WorkerFinish, sweepVars, WaitsTrue
    <2> QED
      BY <1>7, <2>1, <2>2, <2>3, Zenon DEF WorkerFinish, queueVars
  <1>9. CASE SweeperHand
    <2>1. /\ expired \in Seq(Units) /\ expired # <<>> /\ Len(expired) \in Nat
          /\ DOMAIN expired = 1..Len(expired)
      BY <1>9 DEF SweeperHand, TypeOK
    <2>2. Head(expired) = expired[1] /\ expired[1] \in Units /\ 1 \in DOMAIN expired
      BY <2>1
    <2>3. WaitedTooLong(Head(expired)) /\ holder[Head(expired)] = "out"
      BY <2>2, HeldIsOut, Zenon DEF WaitsTrue
    <2>4. \A i \in DOMAIN expired' : expired'[i] = expired[i + 1] /\ i + 1 \in DOMAIN expired
      BY <1>9, <2>1 DEF SweeperHand
    <2>5. \A i \in DOMAIN expired' : WaitedTooLong(expired'[i])
      BY <2>4, Zenon DEF WaitsTrue
    <2>6. worked' = [worked EXCEPT ![Head(expired)] = FALSE]
      BY <1>9, <2>2, <2>3, Zenon DEF SweeperHand, WaitsTrue, TypeOK
    <2> QED
      BY <1>7, <1>9, <2>2, <2>3, <2>5, <2>6, Zenon DEF SweeperHand, queueVars
  <1>10. CASE Working
    <2>1. ASSUME NEW w \in Workers,
                 WorkerSleep(w) \/ WorkerWakesByItself(w) \/ WorkerLeave(w) \/ WorkerRun(w)
          PROVE  WaitsTrue' /\ TooBusyIsTrue'
      BY <1>0, <1>2, <2>1
      DEF WorkerSleep, WorkerWakesByItself, WorkerLeave, WorkerRun, queueVars, sweepVars, unitVars
    <2> QED
      BY <1>5, <1>8, <1>10, <2>1, Zenon DEF Working
  <1>11. CASE Sweeping
    <2>1. CASE SweeperWake \/ SweeperNext
      BY <1>0, <1>2, <2>1 DEF SweeperWake, SweeperNext, queueVars, unitVars
    <2> QED
      BY <1>6, <1>9, <1>11, <2>1, Zenon DEF Sweeping
  <1>12. CASE Opening
    BY <1>0, <1>2, <1>12
    DEF Opening, OpenConnection, OpenReader, StartWorker, StartSweeper, OpenFails,
        queueVars, sweepVars, unitVars
  <1>13. CASE Closing
    BY <1>0, <1>2, <1>13
    DEF Closing, CloseBegin, CloseSweeperJoined, CloseJoined, CloseStopGroup,
        queueVars, sweepVars, unitVars
  <1>14. CASE Tick \/ Closed \/ UNCHANGED vars
    BY <1>0, <1>2, <1>14 DEF Tick, Closed, vars, queueVars, sweepVars, unitVars
  <1> QED
    BY <1>3, <1>10, <1>11, <1>12, <1>13, <1>14, Zenon DEF Next

\* The sweeper's own step: what it leaves is no older than the first it left.
LEMMA ScanLeavesTheYoung ==
  ASSUME TypeOK, HandedOverOnce, WaitsTrue, SweeperScan
  PROVE  \A i \in DOMAIN queue'[sgroup] : ~WaitedTooLong(queue'[sgroup][i])
  <1> DEFINE q == queue[sgroup]
  <1>1. sgroup \in Groups /\ q \in Seq(Units) /\ Len(q) \in Nat /\ DOMAIN q = 1..Len(q)
    BY DEF TypeOK
  <1>2. PICK k \in 0..Len(q) :
          /\ k < Len(q) => ~WaitedTooLong(q[k + 1])
          /\ queue' = [queue EXCEPT ![sgroup] = SubSeq(q, k + 1, Len(q))]
    BY Zenon DEF SweeperScan, Unlink
  <1>3. queue'[sgroup] = SubSeq(q, k + 1, Len(q))
    BY <1>1, <1>2, Zenon DEF TypeOK
  <1>4. /\ DOMAIN queue'[sgroup] = 1..(Len(q) - k)
        /\ \A i \in DOMAIN queue'[sgroup] : queue'[sgroup][i] = q[i + k] /\ i + k \in DOMAIN q
    BY <1>1, <1>2, <1>3
  <1> SUFFICES ASSUME NEW i \in DOMAIN queue'[sgroup]
               PROVE  ~WaitedTooLong(q[i + k])
    BY <1>4, Zenon
  <1>5. k + 1 \in DOMAIN q /\ k + 1 <= i + k /\ i + k \in DOMAIN q /\ k < Len(q)
    BY <1>1, <1>2, <1>4
  <1>6. queuedAt[q[k + 1]] <= queuedAt[q[i + k]]
    BY <1>1, <1>5, Zenon DEF WaitsTrue
  <1>7. /\ queuedAt[q[k + 1]] \in Nat /\ queuedAt[q[i + k]] \in Nat /\ now \in Nat
        /\ WaitLimit \in Nat
    BY <1>1, <1>5, HeldIsOut, CountsAssumption, Zenon DEF TypeOK
  <1> QED
    BY <1>2, <1>5, <1>6, <1>7 DEF WaitedTooLong

-----------------------------------------------------------------------------
(* The close.                                                                *)

\* What each phase of sc_db_exec_open and close_everything finds: connections before threads,
\* threads before units, the sweeper gone before a group stops, and a worker gone only from an
\* empty queue that stays empty.
PhasesTrue ==
    /\ phase \in {"connect", "readers"} => \A w \in Workers : wpc[w] = "none"
    /\ phase \in {"readers", "threads", "sweeper", "open"} => \A w \in Workers : conn[w] = "open"
    /\ phase \in {"sweeper", "open"} => \A w \in Workers : wpc[w] # "none"
    /\ phase # "closed" => \A w \in Workers : wpc[w] # "none" => conn[w] = "open"
    /\ phase \in {"stop_groups", "join", "closed"} => spc \in {"none", "gone"}
    /\ phase = "closed" => /\ \A w \in Workers : wpc[w] \in {"none", "gone"}
                           /\ \A c \in Conns : conn[c] # "open"

QueuesTrue ==
    /\ \A g \in Groups : queue[g] # <<>> => \A w \in Workers : wpc[w] # "none"
    /\ \A w \in Workers : wpc[w] = "gone" => stopping[GroupOf[w]] /\ queue[GroupOf[w]] = <<>>

LEMMA PhasesInit == Init => PhasesTrue
  BY Zenon DEF Init, PhasesTrue

LEMMA PhasesStep ==
  ASSUME TypeOK, LocalsTrue, PhasesTrue, [Next]_vars
  PROVE  PhasesTrue'
  <1> USE DEF PhasesTrue
  <1>1. CASE UNCHANGED <<wpc, conn, spc, phase>>
    BY <1>1, Zenon DEF Conns
  <1>2. CASE Opening
    <2>1. CASE OpenConnection
      BY <2>1 DEF OpenConnection, TypeOK, Conns, Phases, workerVars, sweepVars
    <2>2. CASE OpenReader
      BY <2>2, Zenon DEF OpenReader, TypeOK, Conns, Phases, workerVars, sweepVars
    <2>3. CASE StartWorker
      BY <2>3, Zenon DEF StartWorker, TypeOK, Conns, Phases, sweepVars
    <2>4. CASE StartSweeper
      BY <2>4, Zenon DEF StartSweeper, workerVars
    <2>5. CASE OpenFails
      BY <2>5, Zenon DEF OpenFails, LocalsTrue, workerVars, sweepVars
    <2> QED
      BY <1>2, <2>1, <2>2, <2>3, <2>4, <2>5, Zenon DEF Opening
  <1>3. ASSUME NEW w \in Workers, NEW p \in {"look", "wait", "woken", "took", "run", "gone"},
               wpc[w] \notin {"none", "gone"}, wpc' = [wpc EXCEPT ![w] = p],
               UNCHANGED <<conn, spc, phase>>
        PROVE  PhasesTrue'
    BY <1>3, Zenon DEF TypeOK, Conns
  <1>4. CASE Submitting
    <2>1. ASSUME NEW u \in Units, NEW l \in Loops, SubmitTaken(u, l)
          PROVE  PhasesTrue'
      <3>1. CASE UNCHANGED wpc
        BY <1>1, <2>1, <3>1, Zenon DEF SubmitTaken, sweepVars
      <3>2. CASE \E w \in Workers : wpc[w] = "wait" /\ wpc' = [wpc EXCEPT ![w] = "woken"]
        BY <1>3, <2>1, <3>2, Zenon DEF SubmitTaken, sweepVars
      <3> QED
        BY <2>1, <3>1, <3>2, Zenon DEF SubmitTaken, Signal, WorkersOf
    <2>2. ASSUME NEW u \in Units, NEW l \in Loops,
                 SubmitInline(u) \/ Answer(u) \/ SubmitFull(u, l) \/ SubmitParkFails(u, l)
          PROVE  PhasesTrue'
      BY <1>1, <2>2, Zenon
      DEF SubmitInline, Answer, SubmitFull, SubmitParkFails, NotTaken, workerVars, sweepVars
    <2>3. ASSUME NEW u \in Units, SubmitInline(u) \/ Answer(u)
          PROVE  PhasesTrue'
      BY <1>1, <2>3, Zenon DEF SubmitInline, Answer, workerVars, sweepVars
    <2> QED
      BY <1>4, <2>1, <2>2, <2>3, Zenon DEF Submitting
  <1>5. CASE Working
    <2>1. PICK w \in Workers :
              \/ WorkerSleep(w) \/ WorkerWakesByItself(w) \/ WorkerTake(w) \/ WorkerLeave(w)
              \/ WorkerRefuse(w) \/ WorkerRun(w) \/ WorkerEnd(w)
      BY <1>5, Zenon DEF Working
    <2>2. /\ wpc[w] \notin {"none", "gone"} /\ UNCHANGED <<conn, spc, phase>>
          /\ \E p \in {"look", "wait", "woken", "took", "run", "gone"} : wpc' = [wpc EXCEPT ![w] = p]
      BY <2>1, Zenon
      DEF WorkerSleep, WorkerWakesByItself, WorkerTake, WorkerLeave, WorkerRefuse, WorkerRun,
          WorkerEnd, WorkerFinish, sweepVars
    <2> QED
      BY <1>3, <2>2, Zenon
  <1>6. CASE Sweeping
    BY <1>6, Zenon DEF Sweeping, SweeperWake, SweeperScan, SweeperHand, SweeperNext, workerVars
  <1>7. CASE Closing
    <2>1. CASE CloseBegin \/ CloseSweeperJoined \/ CloseJoined
      BY <2>1, Zenon DEF CloseBegin, CloseSweeperJoined, CloseJoined, TypeOK, Conns, workerVars, sweepVars
    <2>2. ASSUME NEW g \in Groups, CloseStopGroup(g)
          PROVE  PhasesTrue'
      BY <2>2, Zenon DEF CloseStopGroup, TypeOK, sweepVars
    <2> QED
      BY <1>7, <2>1, <2>2, Zenon DEF Closing
  <1>8. CASE Tick \/ Closed \/ UNCHANGED vars
    BY <1>1, <1>8, Zenon DEF Tick, Closed, vars, workerVars, sweepVars
  <1> QED
    BY <1>2, <1>4, <1>5, <1>6, <1>7, <1>8, Zenon DEF Next

LEMMA QueuesInit == Init => QueuesTrue
  BY DEF Init, QueuesTrue

LEMMA QueuesStep ==
  ASSUME TypeOK, PhasesTrue, QueuesTrue, [Next]_vars
  PROVE  QueuesTrue'
  <1>1. \A w \in Workers : GroupOf[w] \in Groups
    BY PlanAssumption, Zenon DEF Groups
  \* A queue that does not grow, workers that do not become "none" or "gone".
  <1>2. ASSUME \A g \in Groups : queue[g] = <<>> => queue'[g] = <<>>,
               \A g \in Groups : stopping[g] => stopping'[g],
               \A w \in Workers : wpc[w] # "none" => wpc'[w] # "none",
               \A w \in Workers : wpc'[w] = "gone" => wpc[w] = "gone"
        PROVE  QueuesTrue'
    BY <1>1, <1>2, Zenon DEF QueuesTrue
  <1>3. CASE UNCHANGED <<queue, stopping, wpc>>
    BY <1>2, <1>3, Zenon
  <1>4. ASSUME NEW w \in Workers, NEW p \in {"look", "wait", "woken", "took", "run"},
               wpc' = [wpc EXCEPT ![w] = p], UNCHANGED <<queue, stopping>>
        PROVE  QueuesTrue'
    <2>1. /\ \A v \in Workers : wpc[v] # "none" => wpc'[v] # "none"
          /\ \A v \in Workers : wpc'[v] = "gone" => wpc[v] = "gone"
      BY <1>4, Zenon DEF TypeOK
    <2> QED
      BY <1>2, <1>4, <2>1, Zenon
  <1>5. CASE Opening
    <2>1. CASE StartWorker
      BY <1>4, <2>1, Zenon DEF StartWorker, queueVars
    <2>2. CASE OpenConnection \/ OpenReader \/ StartSweeper \/ OpenFails
      BY <1>3, <2>2, Zenon DEF OpenConnection, OpenReader, StartSweeper, OpenFails, queueVars, workerVars
    <2> QED
      BY <1>5, <2>1, <2>2, Zenon DEF Opening
  <1>6. ASSUME NEW u \in Units, NEW l \in Loops, SubmitTaken(u, l)
        PROVE  QueuesTrue'
    <2> DEFINE g == LoopGroup[l]
    <2>1. g \in Groups /\ ~stopping[g] /\ phase = "open" /\ UNCHANGED stopping
      BY <1>6, PlanAssumption, Zenon DEF Groups, SubmitTaken, Full, MaySubmit
    <2>2. \A h \in Groups \ {g} : queue'[h] = queue[h]
      BY <1>6, Zenon DEF SubmitTaken, TypeOK
    <2>3. \A w \in Workers : wpc[w] # "none"
      BY <2>1, Zenon DEF PhasesTrue
    <2>4. \A w \in Workers : wpc'[w] = wpc[w] \/ wpc'[w] = "woken"
      <3>1. CASE UNCHANGED wpc
        BY <3>1, Zenon
      <3>2. CASE \E w \in Workers : wpc' = [wpc EXCEPT ![w] = "woken"]
        BY <3>2, Zenon DEF TypeOK
      <3> QED
        BY <1>6, <3>1, <3>2, Zenon DEF SubmitTaken, Signal, WorkersOf
    <2>5. \A w \in Workers : wpc'[w] = "gone" => GroupOf[w] # g
      BY <2>1, <2>4, Zenon DEF QueuesTrue
    <2> QED
      BY <1>1, <2>1, <2>2, <2>3, <2>4, <2>5, Zenon DEF QueuesTrue
  <1>7. CASE Submitting
    <2>1. ASSUME NEW u \in Units, SubmitInline(u) \/ Answer(u)
          PROVE  QueuesTrue'
      BY <1>3, <2>1, Zenon DEF SubmitInline, Answer, queueVars, workerVars
    <2>2. ASSUME NEW u \in Units, NEW l \in Loops, SubmitFull(u, l) \/ SubmitParkFails(u, l)
          PROVE  QueuesTrue'
      BY <1>3, <2>2, Zenon DEF SubmitFull, SubmitParkFails, NotTaken, queueVars, workerVars
    <2> QED
      BY <1>6, <1>7, <2>1, <2>2, Zenon DEF Submitting
  <1>8. ASSUME NEW w \in Workers, WorkerTake(w)
        PROVE  QueuesTrue'
    <2>1. /\ \A v \in Workers : wpc[v] # "none" => wpc'[v] # "none"
          /\ \A v \in Workers : wpc'[v] = "gone" => wpc[v] = "gone"
      BY <1>8, Zenon DEF WorkerTake, TypeOK
    <2>2. \A g \in Groups : queue[g] = <<>> => queue'[g] = <<>>
      BY <1>1, <1>8, Zenon DEF WorkerTake, TypeOK
    <2> QED
      BY <1>2, <1>8, <2>1, <2>2, Zenon DEF WorkerTake
  <1>9. ASSUME NEW w \in Workers, WorkerLeave(w)
        PROVE  QueuesTrue'
    BY <1>1, <1>9, Zenon DEF WorkerLeave, QueuesTrue, TypeOK
  <1>10. CASE Working
    <2>1. ASSUME NEW w \in Workers,
                 WorkerSleep(w) \/ WorkerWakesByItself(w) \/ WorkerRefuse(w) \/ WorkerRun(w)
                   \/ WorkerEnd(w)
          PROVE  QueuesTrue'
      BY <1>4, <2>1, Zenon
      DEF WorkerSleep, WorkerWakesByItself, WorkerRefuse, WorkerRun, WorkerEnd, WorkerFinish,
          queueVars
    <2> QED
      BY <1>8, <1>9, <1>10, <2>1, Zenon DEF Working
  <1>11. CASE SweeperScan
    <2>1. sgroup \in Groups /\ queue[sgroup] \in Seq(Units)
      BY Zenon DEF TypeOK
    <2>2. PICK k \in 0..Len(queue[sgroup]) :
              queue' = [queue EXCEPT ![sgroup] = Unlink(queue[sgroup], k)]
      BY <1>11, Zenon DEF SweeperScan
    <2>3. queue[sgroup] = <<>> => Unlink(queue[sgroup], k) = <<>>
      BY <2>1, <2>2 DEF Unlink
    <2>4. \A g \in Groups : queue[g] = <<>> => queue'[g] = <<>>
      BY <2>1, <2>2, <2>3, Zenon DEF TypeOK
    <2> QED
      BY <1>2, <1>11, <2>4, Zenon DEF SweeperScan, workerVars
  <1>12. CASE Sweeping
    <2>1. CASE SweeperWake \/ SweeperHand \/ SweeperNext
      BY <1>3, <2>1, Zenon DEF SweeperWake, SweeperHand, SweeperNext, queueVars, workerVars
    <2> QED
      BY <1>11, <1>12, <2>1, Zenon DEF Sweeping
  <1>13. CASE Closing
    <2>1. CASE CloseBegin \/ CloseSweeperJoined \/ CloseJoined
      BY <1>3, <2>1, Zenon DEF CloseBegin, CloseSweeperJoined, CloseJoined, queueVars, workerVars
    <2>2. ASSUME NEW g \in Groups, CloseStopGroup(g)
          PROVE  QueuesTrue'
      <3>1. \A h \in Groups : stopping[h] => stopping'[h]
        BY <2>2, Zenon DEF CloseStopGroup, TypeOK
      <3>2. /\ \A v \in Workers : wpc[v] # "none" => wpc'[v] # "none"
            /\ \A v \in Workers : wpc'[v] = "gone" => wpc[v] = "gone"
        BY <2>2, Zenon DEF CloseStopGroup, TypeOK
      <3> QED
        BY <1>2, <2>2, <3>1, <3>2, Zenon DEF CloseStopGroup
    <2> QED
      BY <1>13, <2>1, <2>2, Zenon DEF Closing
  <1>14. CASE Tick \/ Closed \/ UNCHANGED vars
    BY <1>3, <1>14, Zenon DEF Tick, Closed, vars, queueVars, workerVars
  <1> QED
    BY <1>5, <1>7, <1>10, <1>12, <1>13, <1>14, Zenon DEF Next

\* A unit that is out when everything is closed would be in a queue, which its group's gone
\* workers left empty, at a worker, or in the list of a sweeper that is gone.
LEMMA OrderlyWhenTrue ==
  ASSUME TypeOK, LocalsTrue, HandedOverOnce, PhasesTrue, QueuesTrue
  PROVE  CloseIsOrderly
  <1>1. ASSUME phase = "closed", NEW u \in Units
        PROVE  holder[u] # "out"
    <2>1. ~InQueue(u)
      <3> SUFFICES ASSUME NEW g \in Groups, queue[g] # <<>>
                   PROVE  FALSE
        BY DEF InQueue, TypeOK
      <3>1. PICK w \in Workers : GroupOf[w] = g
        BY PlanAssumption, Zenon DEF Groups
      <3>2. wpc[w] = "gone"
        BY <1>1, Zenon DEF PhasesTrue, QueuesTrue
      <3> QED
        BY <3>1, <3>2, Zenon DEF QueuesTrue
    <2>2. ~AtWorker(u)
      BY <1>1, SetsAssumption, Zenon DEF AtWorker, PhasesTrue, LocalsTrue
    <2>3. ~AtSweeper(u)
      BY <1>1 DEF AtSweeper, PhasesTrue, LocalsTrue
    <2> QED
      BY <2>1, <2>2, <2>3, Zenon DEF HandedOverOnce
  <1>2. ASSUME NEW w \in Workers, wunit[w] # NoUnit
        PROVE  conn[w] = "open"
    BY <1>2, Zenon DEF LocalsTrue, PhasesTrue
  <1> QED
    BY <1>1, <1>2, Zenon DEF CloseIsOrderly, ClosedIsEmpty, RunsOnOpenConnection, PhasesTrue

-----------------------------------------------------------------------------
(* The theorems.  What Lists takes for granted of counting is in the library. *)

INSTANCE FiniteSetTheorems

\* Finite sets are counted as the lemmas assume.
LEMMA CountingHolds == Counting
  <1>1. ASSUME NEW T \in SUBSET Nat, T # {} PROVE \E x \in T : \A y \in T : x <= y
    <2>1. PICK x \in T : \A y \in T : ~(<<y, x>> \in OpToRel(<, Nat))
      BY <1>1, NatLessThanWellFounded, WFMin, Zenon
    <2>2. \A y \in T : ~(y < x) /\ x \in Nat /\ y \in Nat
      BY <2>1, Zenon DEF OpToRel
    <2> QED
      BY <2>2
  <1>2. ASSUME NEW S, IsFiniteSet(S), NEW x
        PROVE  /\ IsFiniteSet(S \union {x}) /\ IsFiniteSet(S \ {x})
               /\ Cardinality(S \union {x}) = IF x \in S THEN Cardinality(S) ELSE Cardinality(S) + 1
               /\ Cardinality(S \ {x}) = IF x \in S THEN Cardinality(S) - 1 ELSE Cardinality(S)
    BY <1>2, FS_AddElement, FS_RemoveElement, Zenon
  <1> QED
    BY <1>1, <1>2, FS_CardinalityType, FS_EmptySet, FS_Subset, FS_Union, FS_Bijection, FS_Interval, Zenon
    DEF Counting

\* Whatever the interleaving, submit decides by counters that are true: group->count is the
\* length of the list, within the capacity, and group->idle the number of sleeping workers.
THEOREM BookkeepingHolds == Spec => [](TypeOK /\ Bookkeeping)
  <1>1. Init => TypeOK /\ Bookkeeping
    BY CountingHolds, TypeInit, BookkeepingInit, Zenon
  <1>2. TypeOK /\ Bookkeeping /\ [Next]_vars => (TypeOK /\ Bookkeeping)'
    <2> SUFFICES ASSUME TypeOK, Bookkeeping, [Next]_vars PROVE TypeOK' /\ Bookkeeping'
      BY Zenon
    <2>1. TypeOK'
      BY CountingHolds, TypeStep, Zenon
    <2>2. CountsTrue' /\ SleepersTrue'
      BY <2>1, CountingHolds, CountsStep, SleepersStep, BookkeepingParts, Zenon
    <2>3. Bookkeeping'
      BY <2>2, Zenon DEF Bookkeeping, CountsTrue, SleepersTrue, Asleep
    <2> QED
      BY <2>1, <2>3, Zenon
  <1> QED
    BY <1>1, <1>2, PTL DEF Spec

\* No wake-up is lost: while a worker of a group sleeps, every unit of its queue has a worker on
\* its way to it.
THEOREM NoWakeUpIsLost == Spec => []NoBacklogBehindSleepers
  <1>1. TypeOK /\ TypeOK' /\ Bookkeeping /\ NoBacklogBehindSleepers /\ [Next]_vars
          => NoBacklogBehindSleepers'
    BY CountingHolds, BacklogStep, Zenon
  <1> QED
    BY <1>1, BacklogInit, BookkeepingHolds, PTL DEF Spec

\* However submits, workers, the sweeper and the close interleave, a unit that was taken is in
\* exactly one place until it is handed back, and in none before and after.
THEOREM OwnershipHolds == Spec => []HandedOverOnce
  <1>1. Init => LocalsTrue /\ HandedOverOnce
    BY CountingHolds, LocalsInit, OwnershipInit, Zenon
  <1>2. TypeOK /\ LocalsTrue /\ HandedOverOnce /\ [Next]_vars => (LocalsTrue /\ HandedOverOnce)'
    BY CountingHolds, LocalsStep, OwnershipStep, Zenon
  <1> QED
    BY <1>1, <1>2, BookkeepingHolds, PTL DEF Spec

\* SC_ERR_QUEUE_FULL is said only of a unit that waited SC_DB_QUEUE_WAIT_MS and did not run, and
\* every pass of the sweeper over a group takes off all that have waited that long.
THEOREM WaitingTimeHolds == Spec => WaitingTimeIsKept
  <1> DEFINE Kept == SweeperScan => \A i \in DOMAIN queue'[sgroup] : ~WaitedTooLong(queue'[sgroup][i])
  <1>1. Init => LocalsTrue /\ WaitsTrue /\ TooBusyIsTrue
    BY CountingHolds, LocalsInit, WaitsInit, Zenon
  <1>2. TypeOK /\ TypeOK' /\ LocalsTrue /\ HandedOverOnce /\ WaitsTrue /\ TooBusyIsTrue /\ [Next]_vars
          => (LocalsTrue /\ WaitsTrue /\ TooBusyIsTrue)'
    BY CountingHolds, LocalsStep, WaitsStep, Zenon
  <1>3. TypeOK /\ HandedOverOnce /\ WaitsTrue => [Kept]_vars
    BY CountingHolds, ScanLeavesTheYoung, Zenon
  <1> QED
    BY <1>1, <1>2, <1>3, BookkeepingHolds, OwnershipHolds, PTL
    DEF Spec, WaitingTimeIsKept, SweepLeavesNoneExpired

\* Closing takes no connection from a worker that holds a unit, and when it is over no unit,
\* thread or connection is left, whatever was queued or running when it began and wherever the
\* start failed.
THEOREM CloseHolds == Spec => []CloseIsOrderly
  <1>1. Init => LocalsTrue /\ PhasesTrue /\ QueuesTrue
    BY CountingHolds, LocalsInit, PhasesInit, QueuesInit, Zenon
  <1>2. TypeOK /\ LocalsTrue /\ PhasesTrue /\ QueuesTrue /\ [Next]_vars
          => (LocalsTrue /\ PhasesTrue /\ QueuesTrue)'
    BY CountingHolds, LocalsStep, PhasesStep, QueuesStep, Zenon
  <1>3. TypeOK /\ LocalsTrue /\ HandedOverOnce /\ PhasesTrue /\ QueuesTrue => CloseIsOrderly
    BY CountingHolds, OrderlyWhenTrue, Zenon
  <1> QED
    BY <1>1, <1>2, <1>3, BookkeepingHolds, OwnershipHolds, PTL DEF Spec
=============================================================================
