--------------------------- MODULE LogRingProofs ---------------------------
(* LogRing hands every line over once and in order, and every arena back,    *)
(* for any number of threads, any capacity and any number of lines, whether  *)
(* or not the machine delays the logger's stores.                            *)
EXTENDS LogRing, Lists, TLAPS

\* A ticket and the one a round later have the same slot.
LEMMA NextRound ==
  ASSUME NEW a \in Nat, NEW c \in Nat, c > 0
  PROVE  (a + c) % c = a % c /\ a % c \in 0..(c - 1)
  <1>1. ASSUME NEW b \in Nat
        PROVE  b = (c * (b \div c)) + (b % c) /\ b \div c \in Int /\ b % c \in 0..(c - 1)
    OBVIOUS
  <1>2. (a + c) \div c = (a \div c) + 1
    OBVIOUS
  <1>3. PICK k \in Int : k = a \div c
    BY <1>1, Zenon
  <1>4. c * (k + 1) = (c * k) + c /\ c * k \in Int
    OBVIOUS
  <1>5. a + c = ((c * k) + c) + ((a + c) % c) /\ (a + c) % c \in Int
    BY <1>1, <1>2, <1>3, <1>4
  <1>6. a = (c * k) + (a % c) /\ a % c \in 0..(c - 1)
    BY <1>1, <1>3, Zenon
  <1> QED
    BY <1>4, <1>5, <1>6

LEMMA Modular ==
  /\ Capacity \in Nat /\ Capacity >= 2 /\ MaxLines \in Nat /\ Flag \notin Index
  /\ \A a \in Nat : At(a) \in Index /\ At(a + Capacity) = At(a)
  /\ \A i \in Index : At(i) = i
  <1>1. Capacity \in Nat /\ Capacity >= 2 /\ MaxLines \in Nat
    BY SizesAssumption, Zenon
  <1>2. ASSUME NEW i \in 0..(Capacity - 1) PROVE i % Capacity = i
    BY <1>1
  <1>3. ASSUME NEW a \in Nat
        PROVE  (a + Capacity) % Capacity = a % Capacity /\ a % Capacity \in 0..(Capacity - 1)
    <2>1. Capacity > 0
      BY <1>1
    <2> QED
      BY <1>1, <2>1, NextRound, Zenon
  <1>4. Capacity \notin 0..(Capacity - 1)
    BY <1>1
  <1> QED
    BY <1>1, <1>2, <1>3, <1>4, Zenon DEF At, Index, Flag

-----------------------------------------------------------------------------
(* The sequence words.                                                       *)

ThreadPlaces == {"idle", "reserve", "check", "blocked", "asleep", "unblocked", "write", "publish",
                 "wake", "signal", "leaving"}
LoggerPlaces == {"take", "empty", "lock", "look", "sleeping", "asleep", "relock", "unlock", "commit",
                 "line", "done", "waiters", "broadcast", "ended"}
Stored == [to : 0..Capacity, value : Nat]

\* A thread with a ticket it has not published.
Holding(t) == at[t] \in {"check", "blocked", "asleep", "unblocked", "write", "publish"}
Held(p) == \E t \in Threads : Holding(t) /\ pos[t] = p

\* The tickets that have a slot, one each, and the last of them.
Window == tail..(tail + Capacity - 1)
Furthest == tail + Capacity - 1

\* The logger's word for the slot it has read is still on its way.
Slow == \E i \in DOMAIN pending : pending[i].to # Flag

MemTypes ==
    /\ seq \in [Index -> Nat] /\ head \in Nat /\ tail \in 0..head
    /\ pos \in [Threads -> Nat] /\ at \in [Threads -> ThreadPlaces] /\ logger \in LoggerPlaces
    /\ pending \in Seq(Stored)

WindowTrue ==
    /\ \A p, q \in Window : At(p) = At(q) => p = q
    /\ \A i \in Index : \E p \in Window : At(p) = i

WordTrue(p) ==
    IF Slow /\ p = Furthest THEN seq[At(p)] = tail ELSE seq[At(p)] \in {p, p + 1}

\* A ticket that was handed out is published or somebody's.
TicketTrue(p) ==
    /\ p \in Window /\ seq[At(p)] = p + 1 => p < head /\ ~Held(p)
    /\ p < head => (p \in Window /\ seq[At(p)] = p + 1) \/ Held(p)

HolderTrue(t) ==
    /\ Holding(t) => /\ pos[t] \in tail..(head - 1)
                     /\ \A u \in Threads : Holding(u) /\ pos[u] = pos[t] => u = t
    /\ at[t] \in {"unblocked", "write", "publish"} => seq[At(pos[t])] = pos[t]

LoggerTrue ==
    /\ Slow => /\ logger \notin {"look", "sleeping", "asleep", "relock", "unlock"}
               /\ pending = <<[to |-> At(Furthest), value |-> Furthest]>>
    /\ logger \in {"line", "done"} => seq[At(tail)] = tail + 1

MemInv ==
    /\ MemTypes /\ WindowTrue /\ LoggerTrue
    /\ \A p \in Window : WordTrue(p)
    /\ \A p \in Nat : p >= tail => TicketTrue(p)
    /\ \A t \in Threads : HolderTrue(t)

LEMMA MemInit == Init => MemInv
  <1> SUFFICES ASSUME Init PROVE MemInv
    BY Zenon
  <1>0. /\ head = 0 /\ tail = 0 /\ pending = <<>> /\ logger = "take" /\ Window = Index
        /\ \A t \in Threads : at[t] = "idle"
        /\ \A i \in Index : seq[i] = i /\ At(i) = i
    BY Modular DEF Init, Window, Index
  <1>1. MemTypes
    BY Modular DEF Init, MemTypes, ThreadPlaces, LoggerPlaces, Index
  <1>2. ~Slow
    BY <1>0 DEF Slow
  <1>3. WindowTrue
    BY <1>0 DEF WindowTrue
  <1>4. LoggerTrue
    BY <1>0, <1>2, Zenon DEF LoggerTrue
  <1>5. \A p \in Window : WordTrue(p)
    BY <1>0, <1>2, Zenon DEF WordTrue
  <1>6. \A p \in Nat : TicketTrue(p)
    <2>1. \A p \in Index : seq[At(p)] # p + 1
      BY <1>0 DEF Index
    <2> QED
      BY <1>0, <2>1 DEF TicketTrue
  <1>7. \A t \in Threads : HolderTrue(t)
    BY <1>0, Zenon DEF HolderTrue, Holding
  <1> QED
    BY <1>1, <1>3, <1>4, <1>5, <1>6, <1>7, Zenon DEF MemInv

\* A word that is a ticket's own has that ticket in the window.
LEMMA NotBeyond ==
  ASSUME MemInv, NEW p \in Nat, p >= tail, seq[At(p)] \in {p, p + 1}
  PROVE  p \in Window /\ ~(Slow /\ p = Furthest)
  <1>0. /\ tail \in Nat /\ Capacity \in Nat /\ Capacity >= 2 /\ At(p) \in Index
        /\ \A a, b \in Window : At(a) = At(b) => a = b
    <2>1. tail \in Nat /\ \A a, b \in Window : At(a) = At(b) => a = b
      BY DEF MemInv, MemTypes, WindowTrue
    <2> QED
      BY <2>1, Modular, Zenon
  <1>1. PICK q \in Window : At(q) = At(p)
    BY <1>0, Zenon DEF MemInv, WindowTrue
  <1>2. WordTrue(q) /\ q \in Nat /\ tail <= q /\ q <= tail + Capacity - 1
    BY <1>0, <1>1 DEF MemInv, Window
  <1>3. seq[At(p)] <= q + 1
    BY <1>0, <1>1, <1>2 DEF WordTrue
  <1>4. p \in Window
    <2> SUFFICES ASSUME p >= tail + Capacity PROVE FALSE
      BY <1>0 DEF Window
    <2>1. p = tail + Capacity /\ q = tail + Capacity - 1
      BY <1>0, <1>2, <1>3
    <2>2. At(q) = At(tail)
      BY <1>0, <1>1, <2>1, Modular, Zenon
    <2>3. q = tail
      BY <1>0, <1>1, <2>2 DEF Window
    <2> QED
      BY <1>0, <2>1, <2>3
  <1>5. ASSUME Slow, p = Furthest PROVE FALSE
    <2>1. seq[At(p)] = tail
      BY <1>4, <1>5, Zenon DEF MemInv, WordTrue
    <2> QED
      BY <1>0, <1>5, <2>1 DEF Furthest
  <1> QED
    BY <1>4, <1>5, Zenon

\* Steps that hand out no ticket and change no word.
LEMMA MemQuiet ==
  ASSUME MemInv, UNCHANGED <<seq, head, tail, pos>>, MemTypes', Slow' <=> Slow, LoggerTrue',
         \A t \in Threads : Holding(t)' <=> Holding(t),
         \A t \in Threads : at'[t] \in {"unblocked", "write", "publish"} => seq[At(pos[t])] = pos[t]
  PROVE  MemInv'
  <1>1. WindowTrue' /\ Window' = Window /\ Furthest' = Furthest
    BY Zenon DEF MemInv, WindowTrue, Window, Furthest
  <1>2. \A p \in Window' : WordTrue(p)'
    BY <1>1, Zenon DEF MemInv, WordTrue
  <1>3. \A p : Held(p)' <=> Held(p)
    BY Zenon DEF Held
  <1>4. \A p \in Nat : p >= tail' => TicketTrue(p)'
    BY <1>1, <1>3, Zenon DEF MemInv, TicketTrue
  <1>5. \A t \in Threads : HolderTrue(t)'
    BY Zenon DEF MemInv, HolderTrue
  <1> QED
    BY <1>1, <1>2, <1>4, <1>5, Zenon DEF MemInv

LEMMA MemReserve ==
  ASSUME MemInv, NEW t \in Threads, Reserve(t)
  PROVE  MemInv'
  <1>1. /\ pos' = [pos EXCEPT ![t] = head] /\ head' = head + 1 /\ at[t] = "reserve"
        /\ at' = [at EXCEPT ![t] = "check"] /\ UNCHANGED <<seq, tail, pending, logger>>
    BY Zenon DEF Reserve, Goes, flagVars, logVars
  <1>2. /\ pos \in [Threads -> Nat] /\ head \in Nat /\ tail \in 0..head /\ at \in [Threads -> ThreadPlaces]
        /\ "check" \in ThreadPlaces
    BY Zenon DEF MemInv, MemTypes, ThreadPlaces
  <1>3. /\ pos'[t] = head /\ at'[t] = "check" /\ Holding(t)' /\ ~Holding(t)
        /\ \A u \in Threads : u # t => pos'[u] = pos[u] /\ at'[u] = at[u] /\ (Holding(u)' <=> Holding(u))
        /\ pos' \in [Threads -> Nat] /\ at' \in [Threads -> ThreadPlaces]
    BY <1>1, <1>2, Zenon DEF Holding
  <1>4. MemTypes' /\ Window' = Window /\ Furthest' = Furthest /\ Slow' = Slow
    BY <1>1, <1>2, <1>3 DEF MemInv, MemTypes, Window, Furthest, Slow
  <1>5. WindowTrue' /\ LoggerTrue' /\ \A p \in Window' : WordTrue(p)'
    BY <1>1, <1>4, Zenon DEF MemInv, WindowTrue, LoggerTrue, WordTrue
  <1>6. \A p : Held(p)' <=> Held(p) \/ p = head
    BY <1>3, Zenon DEF Held
  <1>7. ASSUME NEW p \in Nat, p >= tail' PROVE TicketTrue(p)'
    <2>1. TicketTrue(p)
      BY <1>1, <1>7, Zenon DEF MemInv
    <2> QED
      BY <1>1, <1>2, <1>4, <1>6, <1>7, <2>1 DEF TicketTrue
  <1>8. ASSUME NEW u \in Threads PROVE HolderTrue(u)'
    <2>1. HolderTrue(u) /\ \A v \in Threads : HolderTrue(v)
      BY Zenon DEF MemInv
    <2>2. \A v \in Threads : Holding(v) => pos[v] \in tail..(head - 1)
      BY <2>1, Zenon DEF HolderTrue
    <2>3. CASE u = t
      BY <1>1, <1>2, <1>3, <2>2, <2>3 DEF HolderTrue
    <2>4. CASE u # t
      BY <1>1, <1>2, <1>3, <2>1, <2>2, <2>4 DEF HolderTrue
    <2> QED
      BY <2>3, <2>4, Zenon
  <1> QED
    BY <1>4, <1>5, <1>7, <1>8, Zenon DEF MemInv

LEMMA MemPublish ==
  ASSUME MemInv, NEW t \in Threads, Publish(t)
  PROVE  MemInv'
  <1>1. PICK p0 \in Nat : p0 = pos[t]
    BY Zenon DEF MemInv, MemTypes
  <1>2. /\ at[t] = "publish" /\ seq' = [seq EXCEPT ![At(p0)] = p0 + 1] /\ at' = [at EXCEPT ![t] = "wake"]
        /\ UNCHANGED <<head, tail, pos, pending, logger>>
    BY <1>1, Zenon DEF Publish, Goes, flagVars, logVars
  <1>3. /\ seq \in [Index -> Nat] /\ head \in Nat /\ tail \in 0..head /\ at \in [Threads -> ThreadPlaces]
        /\ "wake" \in ThreadPlaces /\ \A p, q \in Window : At(p) = At(q) => p = q
    BY Zenon DEF MemInv, MemTypes, ThreadPlaces, WindowTrue
  <1>4. /\ Holding(t) /\ p0 \in tail..(head - 1) /\ seq[At(p0)] = p0
        /\ \A u \in Threads : Holding(u) /\ pos[u] = p0 => u = t
    BY <1>1, <1>2, Zenon DEF MemInv, HolderTrue, Holding
  <1>5. p0 \in Window /\ ~(Slow /\ p0 = Furthest)
    BY <1>3, <1>4, NotBeyond
  <1>6. /\ ~Holding(t)' /\ \A u \in Threads : u # t => at'[u] = at[u] /\ (Holding(u)' <=> Holding(u))
        /\ at' \in [Threads -> ThreadPlaces] /\ at'[t] = "wake"
    BY <1>2, <1>3, Zenon DEF Holding
  <1>7. /\ seq'[At(p0)] = p0 + 1 /\ \A p \in Window : p # p0 => seq'[At(p)] = seq[At(p)]
        /\ seq' \in [Index -> Nat]
    <2>1. At(p0) \in Index /\ \A p \in Window : At(p) \in Index
      BY <1>3, Modular DEF Window
    <2> QED
      BY <1>2, <1>3, <1>5, <2>1
  <1>8. MemTypes' /\ Window' = Window /\ Furthest' = Furthest /\ Slow' = Slow
    BY <1>2, <1>6, <1>7, Zenon DEF MemInv, MemTypes, Window, Furthest, Slow
  <1>9. WindowTrue'
    BY <1>8, Zenon DEF MemInv, WindowTrue
  <1>10. LoggerTrue'
    <2>1. ASSUME logger \in {"line", "done"} PROVE seq'[At(tail)] = tail + 1
      <3>1. seq[At(tail)] = tail + 1 /\ tail \in Window
        BY <1>3, <2>1, Modular DEF MemInv, LoggerTrue, Window
      <3> QED
        BY <1>3, <1>4, <1>7, <3>1, Zenon
    <2> QED
      BY <1>2, <1>8, <2>1, Zenon DEF MemInv, LoggerTrue
  <1>11. \A p \in Window' : WordTrue(p)'
    BY <1>2, <1>5, <1>7, <1>8, Zenon DEF MemInv, WordTrue
  <1>12. /\ ~Held(p0)' /\ \A p : p # p0 => (Held(p)' <=> Held(p))
    BY <1>1, <1>2, <1>4, <1>6, Zenon DEF Held
  <1>13. ASSUME NEW p \in Nat, p >= tail' PROVE TicketTrue(p)'
    <2>1. TicketTrue(p)
      BY <1>2, <1>13, Zenon DEF MemInv
    <2>2. CASE p = p0
      BY <1>2, <1>3, <1>4, <1>5, <1>7, <1>8, <1>12, <2>2 DEF TicketTrue
    <2>3. CASE p # p0
      BY <1>2, <1>7, <1>8, <1>12, <2>1, <2>3, Zenon DEF TicketTrue
    <2> QED
      BY <2>2, <2>3, Zenon
  <1>14. ASSUME NEW u \in Threads PROVE HolderTrue(u)'
    <2>1. HolderTrue(u) /\ pos[u] \in Nat
      BY Zenon DEF MemInv, MemTypes
    <2>2. CASE u = t
      BY <1>6, <2>2, Zenon DEF HolderTrue
    <2>3. CASE u # t
      <3>1. ASSUME at[u] \in {"unblocked", "write", "publish"} PROVE seq'[At(pos[u])] = pos[u]
        <4>1. Holding(u) /\ seq[At(pos[u])] = pos[u] /\ pos[u] \in tail..(head - 1)
          BY <2>1, <3>1, Zenon DEF HolderTrue, Holding
        <4>2. pos[u] \in Window /\ pos[u] # p0
          BY <1>3, <1>4, <2>1, <2>3, <4>1, NotBeyond
        <4> QED
          BY <1>7, <4>1, <4>2, Zenon
      <3> QED
        BY <1>2, <1>6, <2>1, <2>3, <3>1, Zenon DEF HolderTrue
    <2> QED
      BY <2>2, <2>3, Zenon
  <1> QED
    BY <1>8, <1>9, <1>10, <1>11, <1>13, <1>14, Zenon DEF MemInv

\* The slot the logger has read is the last of the next window.
LEMMA MemDone ==
  ASSUME MemInv, Done
  PROVE  MemInv'
  <1>1. /\ logger = "done" /\ pending = <<>> /\ tail' = tail + 1 /\ logger' = "waiters"
        /\ UNCHANGED <<head, at, pos>>
    BY Zenon DEF Done, Fenced, Logger, threadVars
  <1>2. /\ seq \in [Index -> Nat] /\ head \in Nat /\ tail \in 0..head /\ pending \in Seq(Stored)
        /\ Capacity \in Nat /\ Capacity >= 2 /\ \A p, q \in Window : At(p) = At(q) => p = q
        /\ \A i \in Index : \E p \in Window : At(p) = i
    BY SizesAssumption, Zenon DEF MemInv, MemTypes, WindowTrue
  <1>3. /\ At(tail) \in Index /\ At(tail) # Flag /\ At(tail + Capacity) = At(tail) /\ tail \in Window
        /\ \A p \in Window : At(p) \in Index
    <2>1. tail \in Nat /\ tail \in Window /\ \A p \in Window : p \in Nat
      BY <1>2 DEF Window
    <2> QED
      BY <2>1, Modular, Zenon
  <1>4. seq[At(tail)] = tail + 1 /\ tail < head /\ ~Held(tail)
    <2>1. seq[At(tail)] = tail + 1 /\ TicketTrue(tail)
      BY <1>1, <1>2 DEF MemInv, LoggerTrue
    <2> QED
      BY <1>3, <2>1, Zenon DEF TicketTrue
  <1>5. ~Slow
    BY <1>1 DEF Slow
  <1>6. \/ /\ seq' = seq /\ Slow'
           /\ pending' = <<[to |-> At(tail), value |-> tail + Capacity]>>
        \/ /\ seq' = [seq EXCEPT ![At(tail)] = tail + Capacity] /\ pending' = <<>> /\ ~Slow'
    <2>1. Stores(At(tail), tail + Capacity)
      BY Zenon DEF Done
    <2>2. CASE delays
      <3>1. seq' = seq /\ pending' = <<[to |-> At(tail), value |-> tail + Capacity]>>
        BY <1>1, <2>1, <2>2 DEF Stores
      <3>2. 1 \in DOMAIN pending' /\ pending'[1].to # Flag
        BY <1>3, <3>1
      <3> QED
        BY <3>1, <3>2, Zenon DEF Slow
    <2>3. CASE ~delays
      <3>1. seq' = [seq EXCEPT ![At(tail)] = tail + Capacity] /\ pending' = <<>>
        BY <1>1, <1>3, <2>1, <2>3, Zenon DEF Stores, Applied
      <3> QED
        BY <3>1 DEF Slow
    <2> QED
      BY <2>2, <2>3, Zenon
  <1>7. /\ tail' \in Nat /\ Furthest' = tail + Capacity /\ At(Furthest') = At(tail)
        /\ \A p : p \in Window' <=> (p \in Window /\ p # tail) \/ p = tail + Capacity
    BY <1>1, <1>2, <1>3 DEF Window, Furthest
  <1>8. /\ \A p \in Window : p # tail => seq'[At(p)] = seq[At(p)] /\ At(p) # At(tail)
        /\ seq'[At(tail)] = IF Slow' THEN tail + 1 ELSE tail + Capacity
        /\ seq' \in [Index -> Nat]
    <2>1. \A p \in Window : p # tail => At(p) # At(tail) /\ At(p) \in Index
      BY <1>2, <1>3, Zenon
    <2> QED
      BY <1>2, <1>3, <1>4, <1>6, <2>1
  <1>9. MemTypes'
    <2>1. pending' \in Seq(Stored)
      <3>1. [to |-> At(tail), value |-> tail + Capacity] \in Stored
        BY <1>2, <1>3 DEF Stored, Index
      <3>2. PICK e \in Stored : e = [to |-> At(tail), value |-> tail + Capacity]
        BY <3>1, Zenon
      <3>3. <<e>> \in Seq(Stored) /\ <<>> \in Seq(Stored)
        OBVIOUS
      <3> QED
        BY <1>6, <3>2, <3>3, Zenon
    <2> QED
      BY <1>1, <1>2, <1>4, <1>8, <2>1 DEF MemInv, MemTypes, LoggerPlaces
  <1>10. WindowTrue'
    <2>1. ASSUME NEW p \in Window', NEW q \in Window', At(p) = At(q) PROVE p = q
      BY <1>2, <1>3, <1>7, <2>1, Zenon
    <2>2. ASSUME NEW i \in Index PROVE \E p \in Window' : At(p) = i
      <3>1. PICK p \in Window : At(p) = i
        BY <1>2, Zenon
      <3>2. CASE p = tail
        BY <1>3, <1>7, <3>1, <3>2, Zenon
      <3>3. CASE p # tail
        BY <1>7, <3>1, <3>3, Zenon
      <3> QED
        BY <3>2, <3>3, Zenon
    <2> QED
      BY <2>1, <2>2, Zenon DEF WindowTrue
  <1>11. LoggerTrue'
    BY <1>1, <1>6, <1>7, Zenon DEF LoggerTrue, Furthest
  <1>12. ASSUME NEW p \in Window' PROVE WordTrue(p)'
    <2>1. CASE p = tail + Capacity
      BY <1>1, <1>2, <1>3, <1>7, <1>8, <2>1, Zenon DEF WordTrue
    <2>2. CASE p # tail + Capacity
      <3>1. p \in Window /\ p # tail /\ WordTrue(p)
        BY <1>7, <2>2, Zenon DEF MemInv
      <3> QED
        BY <1>5, <1>7, <1>8, <2>2, <3>1, Zenon DEF WordTrue
    <2> QED
      BY <2>1, <2>2, Zenon
  <1>13. \A p : Held(p)' <=> Held(p)
    BY <1>1, Zenon DEF Held, Holding
  <1>14. ASSUME NEW p \in Nat, p >= tail' PROVE TicketTrue(p)'
    <2>1. TicketTrue(p) /\ p # tail
      BY <1>1, <1>2, <1>14 DEF MemInv
    <2>2. CASE p = tail + Capacity
      <3>1. seq'[At(p)] # p + 1
        BY <1>2, <1>3, <1>8, <2>2
      <3>2. p \notin Window
        BY <1>2, <2>2 DEF Window
      <3> QED
        BY <1>1, <1>13, <2>1, <3>1, <3>2, Zenon DEF TicketTrue
    <2>3. CASE p # tail + Capacity
      <3>1. p \in Window' <=> p \in Window
        BY <1>7, <2>1, <2>3, Zenon
      <3>2. p \in Window => seq'[At(p)] = seq[At(p)]
        BY <1>8, <2>1, Zenon
      <3> QED
        BY <1>1, <1>13, <2>1, <3>1, <3>2, Zenon DEF TicketTrue
    <2> QED
      BY <2>2, <2>3, Zenon
  <1>15. ASSUME NEW u \in Threads PROVE HolderTrue(u)'
    <2>1. HolderTrue(u) /\ pos[u] \in Nat /\ (Holding(u)' <=> Holding(u))
      BY <1>1, Zenon DEF MemInv, MemTypes, Holding
    <2>2. Holding(u) => pos[u] # tail /\ pos[u] \in tail..(head - 1)
      BY <1>4, <2>1, Zenon DEF HolderTrue, Held
    <2>3. ASSUME at[u] \in {"unblocked", "write", "publish"} PROVE seq'[At(pos[u])] = pos[u]
      <3>1. Holding(u) /\ seq[At(pos[u])] = pos[u]
        BY <2>1, <2>3, Zenon DEF HolderTrue, Holding
      <3>2. pos[u] \in Window
        BY <1>2, <2>1, <2>2, <3>1, NotBeyond
      <3> QED
        BY <1>8, <2>2, <3>1, <3>2, Zenon
    <2>4. \A v \in Threads : Holding(v)' <=> Holding(v)
      BY <1>1, Zenon DEF Holding
    <2>5. Holding(u) => pos[u] \in tail'..(head' - 1)
      BY <1>1, <1>2, <2>2
    <2> QED
      BY <1>1, <2>1, <2>3, <2>4, <2>5, Zenon DEF HolderTrue
  <1> QED
    BY <1>9, <1>10, <1>11, <1>12, <1>14, <1>15, Zenon DEF MemInv

\* The logger's word reaches memory.
LEMMA MemLands ==
  ASSUME MemInv, StoreLands
  PROVE  MemInv'
  <1>1. /\ pending # <<>> /\ Applied(pending[1]) /\ pending' = Tail(pending)
        /\ UNCHANGED <<head, tail, at, pos, logger>>
    <2>1. Head(pending) = pending[1]
      BY DEF MemInv, MemTypes, StoreLands
    <2> QED
      BY <2>1, Zenon DEF StoreLands, threadVars, logVars
  <1>2. /\ seq \in [Index -> Nat] /\ head \in Nat /\ tail \in 0..head /\ pending \in Seq(Stored)
        /\ Capacity \in Nat /\ Capacity >= 2 /\ \A p, q \in Window : At(p) = At(q) => p = q
    BY SizesAssumption, Zenon DEF MemInv, MemTypes, WindowTrue
  <1>3. pending' \in Seq(Stored)
    BY <1>1, <1>2
  <1>4. Window' = Window /\ Furthest' = Furthest /\ Furthest \in Window /\ tail \in Window /\ tail # Furthest
    BY <1>1, <1>2 DEF Window, Furthest
  <1>5. /\ \A p \in Window : At(p) \in Index
        /\ \A t \in Threads : Holding(t)' <=> Holding(t)
    BY <1>1, <1>2, Modular DEF Window, Holding
  <1>6. CASE ~Slow
    <2>1. 1 \in DOMAIN pending /\ pending[1].to = Flag
      BY <1>1, <1>2, <1>6 DEF Slow
    <2>2. seq' = seq
      BY <1>1, <2>1, Zenon DEF Applied
    <2>3. ~Slow'
      <3>1. \A i \in DOMAIN Tail(pending) : i + 1 \in DOMAIN pending /\ Tail(pending)[i] = pending[i + 1]
        BY <1>1, <1>2
      <3> QED
        BY <1>1, <1>6, <3>1, Zenon DEF Slow
    <2>4. MemTypes' /\ LoggerTrue'
      BY <1>1, <1>3, <2>2, <2>3, Zenon DEF MemInv, MemTypes, LoggerTrue
    <2>5. \A t \in Threads : at'[t] \in {"unblocked", "write", "publish"} => seq[At(pos[t])] = pos[t]
      BY <1>1, Zenon DEF MemInv, HolderTrue
    <2> QED
      BY <1>1, <1>5, <1>6, <2>2, <2>3, <2>4, <2>5, MemQuiet, Zenon
  <1>7. CASE Slow
    <2>1. pending = <<[to |-> At(Furthest), value |-> Furthest]>>
      BY <1>7, Zenon DEF MemInv, LoggerTrue
    <2>2. pending[1].to = At(Furthest) /\ pending[1].value = Furthest /\ Tail(pending) = <<>>
      BY <2>1
    <2>3. seq' = [seq EXCEPT ![At(Furthest)] = Furthest] /\ ~Slow' /\ At(Furthest) \in Index
      <3>1. At(Furthest) \in Index /\ At(Furthest) # Flag
        BY <1>4, <1>5, Modular, Zenon
      <3>2. ~Slow'
        BY <1>1, <2>2 DEF Slow
      <3> QED
        BY <1>1, <2>2, <3>1, <3>2, Zenon DEF Applied
    <2>4. /\ seq'[At(Furthest)] = Furthest /\ \A p \in Window : p # Furthest => seq'[At(p)] = seq[At(p)]
          /\ seq' \in [Index -> Nat]
      <3>1. Furthest \in Nat
        BY <1>2 DEF Furthest
      <3> QED
        BY <1>2, <1>4, <1>5, <2>3, <3>1, Zenon
    <2>5. seq[At(Furthest)] = tail
      BY <1>4, <1>7, Zenon DEF MemInv, WordTrue
    <2>6. MemTypes' /\ WindowTrue'
      BY <1>1, <1>3, <1>4, <2>4, Zenon DEF MemInv, MemTypes, WindowTrue
    <2>7. LoggerTrue'
      BY <1>1, <1>4, <2>3, <2>4, Zenon DEF MemInv, LoggerTrue
    <2>8. \A p \in Window' : WordTrue(p)'
      BY <1>4, <2>3, <2>4, Zenon DEF MemInv, WordTrue
    <2>9. \A p : Held(p)' <=> Held(p)
      BY <1>1, <1>5, Zenon DEF Held
    <2>10. ASSUME NEW p \in Nat, p >= tail' PROVE TicketTrue(p)'
      <3>1. TicketTrue(p)
        BY <1>1, <2>10, Zenon DEF MemInv
      <3>2. p \in Window => (seq'[At(p)] = p + 1 <=> seq[At(p)] = p + 1)
        BY <1>2, <2>4, <2>5, <2>10 DEF Furthest
      <3> QED
        BY <1>1, <1>4, <2>9, <3>1, <3>2, Zenon DEF TicketTrue
    <2>11. ASSUME NEW u \in Threads PROVE HolderTrue(u)'
      <3>1. HolderTrue(u) /\ pos[u] \in Nat
        BY Zenon DEF MemInv, MemTypes
      <3>2. ASSUME at[u] \in {"unblocked", "write", "publish"} PROVE seq'[At(pos[u])] = pos[u]
        <4>1. Holding(u) /\ seq[At(pos[u])] = pos[u] /\ pos[u] \in tail..(head - 1)
          BY <3>1, <3>2, Zenon DEF HolderTrue, Holding
        <4>2. pos[u] \in Window /\ pos[u] # Furthest
          BY <1>2, <1>7, <3>1, <4>1, NotBeyond
        <4> QED
          BY <2>4, <4>1, <4>2, Zenon
      <3> QED
        BY <1>1, <1>5, <3>1, <3>2, Zenon DEF HolderTrue
    <2> QED
      BY <2>6, <2>7, <2>8, <2>10, <2>11, Zenon DEF MemInv
  <1> QED
    BY <1>6, <1>7, Zenon

\* One thread goes on; it may have woken the logger.
LEMMA MemMoves ==
  ASSUME MemInv, NEW t \in Threads, NEW b \in ThreadPlaces, at' = [at EXCEPT ![t] = b],
         UNCHANGED <<seq, head, tail, pos, pending>>,
         logger' = logger \/ (logger = "asleep" /\ logger' = "relock"),
         at[t] \in {"check", "blocked", "asleep", "unblocked", "write", "publish"}
            <=> b \in {"check", "blocked", "asleep", "unblocked", "write", "publish"},
         b \in {"unblocked", "write", "publish"} => seq[At(pos[t])] = pos[t]
  PROVE  MemInv'
  <1>1. /\ at' \in [Threads -> ThreadPlaces] /\ at'[t] = b
        /\ \A u \in Threads : u # t => at'[u] = at[u]
    BY Zenon DEF MemInv, MemTypes
  <1>2. MemTypes'
    BY <1>1, Zenon DEF MemInv, MemTypes, LoggerPlaces
  <1>3. Slow' <=> Slow
    BY Zenon DEF Slow
  <1>4. LoggerTrue'
    BY <1>3, Zenon DEF MemInv, LoggerTrue, Furthest
  <1>5. \A u \in Threads : Holding(u)' <=> Holding(u)
    BY <1>1, Zenon DEF Holding
  <1>6. \A u \in Threads : at'[u] \in {"unblocked", "write", "publish"} => seq[At(pos[u])] = pos[u]
    BY <1>1, Zenon DEF MemInv, HolderTrue
  <1> QED
    BY <1>2, <1>3, <1>4, <1>5, <1>6, MemQuiet, Zenon

LEMMA MemThread ==
  ASSUME MemInv, NEW t \in Threads,
         Submit(t) \/ Leave(t) \/ WokenForNothing(t) \/ ThreadSteps(t)
  PROVE  MemInv'
  <1>1. CASE Submit(t)
    BY <1>1, MemMoves, Zenon DEF Submit, Goes, ringVars, flagVars, logVars, ThreadPlaces
  <1>2. CASE Leave(t)
    BY <1>2, MemMoves, Zenon DEF Leave, Goes, ringVars, flagVars, logVars, ThreadPlaces
  <1>3. CASE Left(t)
    BY <1>3, MemMoves, Zenon DEF Left, Goes, ringVars, flagVars, logVars, ThreadPlaces
  <1>4. CASE Reserve(t)
    BY <1>4, MemReserve, Zenon
  <1>5. CASE Check(t)
    <2>1. /\ at[t] = "check" /\ UNCHANGED <<seq, head, tail, pos, pending, logger>>
          /\ \E b \in {"write", "blocked"} : at' = [at EXCEPT ![t] = b] /\ (b = "write" => MySlot(t))
      BY <1>5, Zenon DEF Check, Goes, ringVars, logVars
    <2> QED
      BY <2>1, MemMoves, Zenon DEF MySlot, ThreadPlaces
  <1>6. CASE Blocked(t)
    <2>1. /\ at[t] = "blocked" /\ UNCHANGED <<seq, head, tail, pos, pending>>
          /\ \E b \in {"unblocked", "asleep"} : at' = [at EXCEPT ![t] = b] /\ (b = "unblocked" => MySlot(t))
          /\ logger' = logger \/ (logger = "asleep" /\ logger' = "relock")
      BY <1>6, Zenon DEF Blocked, Goes, SignalsNotEmpty, ringVars, flagVars
    <2> QED
      BY <2>1, MemMoves, Zenon DEF MySlot, ThreadPlaces
  <1>7. CASE Unblocked(t)
    <2>1. seq[At(pos[t])] = pos[t]
      BY <1>7, Zenon DEF Unblocked, MemInv, HolderTrue
    <2> QED
      BY <1>7, <2>1, MemMoves, Zenon DEF Unblocked, Goes, ringVars, logVars, ThreadPlaces
  <1>8. CASE WokenForNothing(t)
    BY <1>8, MemMoves, Zenon DEF WokenForNothing, Goes, ringVars, flagVars, logVars, ThreadPlaces
  <1>9. CASE Write(t)
    <2>1. seq[At(pos[t])] = pos[t]
      BY <1>9, Zenon DEF Write, MemInv, HolderTrue
    <2> QED
      BY <1>9, <2>1, MemMoves, Zenon DEF Write, Goes, flagVars, logVars, ThreadPlaces
  <1>10. CASE Publish(t)
    BY <1>10, MemPublish, Zenon
  <1>11. CASE Wake(t)
    <2>1. /\ at[t] = "wake" /\ UNCHANGED <<seq, head, tail, pos, pending, logger>>
          /\ \E b \in {"signal", "idle"} : at' = [at EXCEPT ![t] = b]
      BY <1>11, Zenon DEF Wake, Goes, ringVars, flagVars, logVars
    <2> QED
      BY <2>1, MemMoves, Zenon DEF ThreadPlaces
  <1>12. CASE Signal(t)
    BY <1>12, MemMoves, Zenon DEF Signal, Goes, SignalsNotEmpty, ringVars, flagVars, ThreadPlaces
  <1> QED
    BY <1>1, <1>2, <1>3, <1>4, <1>5, <1>6, <1>7, <1>8, <1>9, <1>10, <1>11, <1>12, Zenon
    DEF ThreadSteps

\* The logger goes on and stores nothing.
LEMMA MemLogger ==
  ASSUME MemInv, UNCHANGED <<seq, head, tail, pos, pending, at>>, NEW b \in LoggerPlaces, logger' = b,
         b \in {"look", "sleeping", "asleep", "relock", "unlock"} => ~Slow,
         b \in {"line", "done"} => seq[At(tail)] = tail + 1
  PROVE  MemInv'
  <1>1. MemTypes'
    BY Zenon DEF MemInv, MemTypes
  <1>2. Slow' <=> Slow
    BY Zenon DEF Slow
  <1>3. LoggerTrue'
    BY <1>2, Zenon DEF MemInv, LoggerTrue, Furthest
  <1>4. \A u \in Threads : Holding(u)' <=> Holding(u)
    BY Zenon DEF Holding
  <1>5. \A u \in Threads : at'[u] \in {"unblocked", "write", "publish"} => seq[At(pos[u])] = pos[u]
    BY Zenon DEF MemInv, HolderTrue
  <1> QED
    BY <1>1, <1>2, <1>3, <1>4, <1>5, MemQuiet, Zenon

\* A store to the flag leaves the words alone.
LEMMA MemFlag ==
  ASSUME MemInv, ~Slow, UNCHANGED <<head, tail, pos, at>>, NEW v \in {0, 1}, Stores(Flag, v),
         logger' \in {"look", "unlock"}
  PROVE  MemInv'
  <1>1. pending \in Seq(Stored) /\ [to |-> Flag, value |-> v] \in Stored
    BY Modular DEF MemInv, MemTypes, Stored, Flag
  <1>2. seq' = seq /\ (pending' = pending \/ pending' = Append(pending, [to |-> Flag, value |-> v]))
    BY Zenon DEF Stores, Applied
  <1>3. pending' \in Seq(Stored) /\ ~Slow'
    <2>1. CASE pending' = pending
      BY <1>1, <2>1, Zenon DEF Slow
    <2>2. CASE pending' = Append(pending, [to |-> Flag, value |-> v])
      <3>1. PICK e \in Stored : e = [to |-> Flag, value |-> v] /\ e.to = Flag
        BY <1>1, Zenon
      <3>2. /\ Append(pending, e) \in Seq(Stored) /\ Len(pending) \in Nat
            /\ DOMAIN Append(pending, e) = 1..(Len(pending) + 1) /\ DOMAIN pending = 1..Len(pending)
            /\ Append(pending, e)[Len(pending) + 1] = e
            /\ \A i \in 1..Len(pending) : Append(pending, e)[i] = pending[i]
        BY <1>1
      <3>3. pending' = Append(pending, e)
        BY <2>2, <3>1, Zenon
      <3>4. \A i \in 1..(Len(pending) + 1) : pending'[i].to = Flag
        <4>1. \A i \in 1..Len(pending) : pending[i].to = Flag
          BY <3>2, Zenon DEF Slow
        <4> QED
          BY <3>1, <3>2, <3>3, <4>1
      <3> QED
        BY <3>2, <3>3, <3>4, Zenon DEF Slow
    <2> QED
      BY <1>2, <2>1, <2>2, Zenon
  <1>4. MemTypes' /\ LoggerTrue'
    BY <1>2, <1>3, Zenon DEF MemInv, MemTypes, LoggerTrue, LoggerPlaces
  <1>5. \A u \in Threads : Holding(u)' <=> Holding(u)
    BY Zenon DEF Holding
  <1>6. \A u \in Threads : at'[u] \in {"unblocked", "write", "publish"} => seq[At(pos[u])] = pos[u]
    BY Zenon DEF MemInv, HolderTrue
  <1> QED
    BY <1>2, <1>3, <1>4, <1>5, <1>6, MemQuiet, Zenon

LEMMA MemStep ==
  ASSUME MemInv, [Next]_vars
  PROVE  MemInv'
  <1>0. Slow => logger \notin {"look", "sleeping", "asleep", "relock", "unlock"} /\ ~Fenced
    BY DEF MemInv, LoggerTrue, Slow, Fenced
  <1>1. ASSUME NEW t \in Threads, Submit(t) \/ Leave(t) \/ WokenForNothing(t) \/ ThreadSteps(t)
        PROVE  MemInv'
    BY <1>1, MemThread, Zenon
  <1>2. CASE Take \/ StillEmpty \/ Waiters
    <2>1. /\ UNCHANGED <<seq, head, tail, pos, pending, at>>
          /\ \E b \in {"ended", "empty", "commit", "lock", "take", "broadcast"} : logger' = b
      BY <1>2, Zenon DEF Take, StillEmpty, Waiters, Logger, ringVars, flagVars, threadVars
    <2> QED
      BY <2>1, MemLogger, Zenon DEF LoggerPlaces
  <1>3. CASE Lock
    BY <1>0, <1>3, MemFlag, Zenon DEF Lock, Logger, threadVars
  <1>4. CASE Look
    <2>1. CASE logger' = "sleeping"
      BY <1>0, <1>4, <2>1, MemLogger, Zenon DEF Look, Logger, threadVars, LoggerPlaces
    <2>2. CASE logger' # "sleeping"
      BY <1>0, <1>4, <2>2, MemFlag, Zenon DEF Look, Logger, threadVars
    <2> QED
      BY <2>1, <2>2, Zenon
  <1>5. CASE Sleep \/ Relock \/ Unlock \/ LoggerWokenForNothing
    <2>1. /\ UNCHANGED <<seq, head, tail, pos, pending, at>> /\ ~Slow
          /\ \E b \in {"asleep", "look", "take", "relock"} : logger' = b
      BY <1>0, <1>5, Zenon DEF Sleep, Relock, Unlock, LoggerWokenForNothing, Logger, ringVars, flagVars, threadVars
    <2> QED
      BY <2>1, MemLogger, Zenon DEF LoggerPlaces
  <1>6. CASE Commit
    BY <1>6, MemLogger, Zenon DEF Commit, Committed, Logger, ringVars, flagVars, threadVars, LoggerPlaces
  <1>7. CASE WriteLine
    <2>1. seq[At(tail)] = tail + 1
      BY <1>7, Zenon DEF WriteLine, MemInv, LoggerTrue
    <2> QED
      BY <1>7, <2>1, MemLogger, Zenon DEF WriteLine, Logger, ringVars, flagVars, threadVars, LoggerPlaces
  <1>8. CASE Done
    BY <1>8, MemDone, Zenon
  <1>9. CASE Broadcast
    <2>1. /\ UNCHANGED <<seq, head, tail, pos, pending>> /\ logger' = "take"
          /\ at' = [t \in Threads |-> IF at[t] = "asleep" THEN "blocked" ELSE at[t]]
      BY <1>9, Zenon DEF Broadcast, Logger, ringVars, flagVars
    <2>2. /\ at' \in [Threads -> ThreadPlaces]
          /\ \A u \in Threads : at'[u] = IF at[u] = "asleep" THEN "blocked" ELSE at[u]
      BY <2>1, Zenon DEF MemInv, MemTypes, ThreadPlaces
    <2>3. MemTypes' /\ (Slow' <=> Slow) /\ LoggerTrue'
      BY <2>1, <2>2, Zenon DEF MemInv, MemTypes, Slow, LoggerTrue, Furthest, LoggerPlaces
    <2>4. \A u \in Threads : Holding(u)' <=> Holding(u)
      BY <2>2, Zenon DEF Holding
    <2>5. \A u \in Threads : at'[u] \in {"unblocked", "write", "publish"} => seq[At(pos[u])] = pos[u]
      BY <2>2, Zenon DEF MemInv, HolderTrue
    <2> QED
      BY <2>1, <2>3, <2>4, <2>5, MemQuiet, Zenon
  <1>10. CASE StoreLands
    BY <1>10, MemLands, Zenon
  <1>11. CASE Stop \/ StopWakes \/ UNCHANGED vars
    <2>1. UNCHANGED <<seq, head, tail, pos, pending, at>> /\ (logger' = logger \/ (logger = "asleep" /\ logger' = "relock"))
      BY <1>11, Zenon DEF Stop, StopWakes, SignalsNotEmpty, vars, ringVars, flagVars, threadVars, logVars
    <2>2. logger \in LoggerPlaces /\ (logger \in {"line", "done"} => seq[At(tail)] = tail + 1)
      BY Zenon DEF MemInv, MemTypes, LoggerTrue
    <2>3. CASE logger' = logger
      BY <1>0, <2>1, <2>2, <2>3, MemLogger, Zenon
    <2>4. CASE logger = "asleep" /\ logger' = "relock"
      BY <1>0, <2>1, <2>2, <2>4, MemLogger, Zenon DEF LoggerPlaces
    <2> QED
      BY <2>1, <2>3, <2>4, Zenon
  <1> QED
    BY <1>1, <1>2, <1>3, <1>4, <1>5, <1>6, <1>7, <1>8, <1>9, <1>10, <1>11, Zenon
    DEF Next, LoggerSteps

-----------------------------------------------------------------------------
(* The lines.                                                                *)

\* A thread that is busy has an owner.
OwnerTyped ==
    /\ owner \in [Threads -> Owners \union {NONE}]
    /\ \A t \in Threads : at[t] # "idle" => owner[t] \in Owners

LEMMA OwnerTypedStep ==
  ASSUME MemInv, OwnerTyped, [Next]_vars
  PROVE  OwnerTyped'
  <1>0. at \in [Threads -> ThreadPlaces]
    BY Zenon DEF MemInv, MemTypes
  <1>1. CASE owner' = owner /\ \A t \in Threads : at[t] = "idle" => at'[t] = "idle"
    BY <1>1, Zenon DEF OwnerTyped
  <1>2. ASSUME NEW t \in Threads, Submit(t) PROVE OwnerTyped'
    <2>1. PICK o \in Owners : owner' = [owner EXCEPT ![t] = o]
      BY <1>2, Zenon DEF Submit, Free, OwnerTyped
    <2>2. at' = [at EXCEPT ![t] = "reserve"]
      BY <1>2, Zenon DEF Submit, Goes
    <2> QED
      BY <1>0, <2>1, <2>2, Zenon DEF OwnerTyped
  <1>3. ASSUME NEW t \in Threads, Left(t) PROVE OwnerTyped'
    BY <1>0, <1>3, Zenon DEF Left, Goes, OwnerTyped
  <1>4. ASSUME NEW t \in Threads, Leave(t) PROVE OwnerTyped'
    BY <1>0, <1>4, Zenon DEF Leave, Goes, OwnerTyped, ownerVars
  <1>5. ASSUME NEW t \in Threads,
               WokenForNothing(t) \/ Reserve(t) \/ Check(t) \/ Blocked(t) \/ Unblocked(t)
        PROVE  OwnerTyped'
    <2>1. owner' = owner /\ at[t] # "idle" /\ \E b : at' = [at EXCEPT ![t] = b]
      BY <1>5, Zenon DEF WokenForNothing, Reserve, Check, Blocked, Unblocked, Goes, ownerVars
    <2> QED
      BY <1>0, <1>1, <2>1, Zenon
  <1>6. ASSUME NEW t \in Threads, Write(t) \/ Publish(t) \/ Wake(t) \/ Signal(t) PROVE OwnerTyped'
    <2>1. owner' = owner /\ at[t] # "idle" /\ \E b : at' = [at EXCEPT ![t] = b]
      BY <1>6, Zenon DEF Write, Publish, Wake, Signal, Goes, ownerVars
    <2> QED
      BY <1>0, <1>1, <2>1, Zenon
  <1>7. CASE LoggerSteps
    <2>1. CASE Broadcast
      BY <1>1, <2>1, Zenon DEF Broadcast, ownerVars
    <2>2. CASE ~Broadcast
      <3>1. owner' = owner /\ at' = at
        BY <1>7, <2>2, Zenon DEF LoggerSteps, Take, StillEmpty, Lock, Look, Sleep, Relock, Unlock, Commit, WriteLine, Done,
          Waiters, ownerVars, threadVars
      <3> QED
        BY <1>1, <3>1, Zenon
    <2> QED
      BY <2>1, <2>2, Zenon
  <1>8. CASE LoggerWokenForNothing \/ StoreLands \/ Stop \/ StopWakes \/ UNCHANGED vars
    <2>1. owner' = owner /\ at' = at
      BY <1>8, Zenon DEF LoggerWokenForNothing, StoreLands, Stop, StopWakes, vars, ownerVars, threadVars
    <2> QED
      BY <1>1, <2>1, Zenon
  <1> QED
    BY <1>2, <1>3, <1>4, <1>5, <1>6, <1>7, <1>8, Zenon DEF Next, ThreadSteps

\* The tickets whose lines have left the ring come before this one.
Size == tail + (IF logger = "done" THEN 1 ELSE 0)
One(b) == IF b THEN 1 ELSE 0

Published(p) == p \in Window /\ seq[At(p)] = p + 1

\* The line of a ticket: it has left the ring, is in its slot, or is still with its thread.
Carries(p, l) ==
    \/ p < Size /\ l = LeftTheRing[p + 1]
    \/ p >= Size /\ ~Held(p) /\ l = slot[At(p)].line
    \/ \E t \in Threads : Holding(t) /\ pos[t] = p /\ l = Mine(t)
From(p, t) == \E n \in Nat : Carries(p, Line(t, n))
Before(p, t) == {q \in 0..(p - 1) : From(q, t)}

\* Lines are numbered in the order of their tickets.
LinesInv ==
    /\ slot \in [Index -> Records \union {NONE}] /\ said \in [Threads -> 0..MaxLines]
    /\ written \in Seq(Lines) /\ buffer \in Seq(Lines) /\ Len(LeftTheRing) = Size
    /\ \A p \in Nat : Published(p) => slot[At(p)] \in Records
    /\ \A t \in Threads : at[t] = "publish" =>
          slot[At(pos[t])] \in Records /\ slot[At(pos[t])].line = Mine(t)
    /\ \A p \in 0..(head - 1) :
          \E l \in Lines : Carries(p, l) /\ l.n = Cardinality(Before(p + 1, l.thread))
    /\ \A t \in Threads : said[t] = Cardinality(Before(head, t)) + One(at[t] = "reserve")

LEMMA LinesInit ==
  ASSUME Counting
  PROVE  Init => LinesInv
  <1> SUFFICES ASSUME Init PROVE LinesInv
    BY Zenon
  <1>1. /\ head = 0 /\ tail = 0 /\ logger = "take" /\ written = <<>> /\ buffer = <<>> /\ MaxLines \in Nat
        /\ slot = [i \in Index |-> NONE] /\ \A t \in Threads : at[t] = "idle" /\ said[t] = 0
        /\ said = [t \in Threads |-> 0]
    BY SizesAssumption, Zenon DEF Init
  <1>2. ~(\E p \in Nat : Published(p))
    <2>1. \A p \in Nat : p \in Window => ~(p < head)
      BY <1>1
    <2> QED
      BY <1>1, MemInit DEF MemInv, TicketTrue, Published, Window
  <1>3. \A t \in Threads : Cardinality(Before(head, t)) = 0
    <2>1. \A t \in Threads : Before(head, t) = {}
      BY <1>1 DEF Before
    <2> QED
      BY <2>1, CountOfNone, Zenon
  <1>4. Len(LeftTheRing) = 0 /\ Size = 0
    BY <1>1 DEF LeftTheRing, Size
  <1> QED
    BY <1>1, <1>2, <1>3, <1>4 DEF LinesInv, One

\* Nothing but a publish publishes.
LEMMA PublishedBefore ==
  ASSUME MemInv, MemInv', head' = head, tail' >= tail, \A p : Held(p)' <=> Held(p)
  PROVE  \A p \in Nat : Published(p)' => Published(p)
  <1> SUFFICES ASSUME NEW p \in Nat, Published(p)' PROVE Published(p)
    BY Zenon
  <1>1. tail \in Nat /\ tail' \in Nat /\ p >= tail'
    BY DEF MemInv, MemTypes, Published, Window
  <1>2. TicketTrue(p) /\ TicketTrue(p)'
    BY <1>1 DEF MemInv
  <1> QED
    BY <1>2, Zenon DEF TicketTrue, Published

LEMMA FreeIsPublished ==
  ASSUME MemInv, NEW p \in 0..(head - 1), p >= Size, ~Held(p)
  PROVE  Published(p)
  <1>1. tail \in Nat /\ head \in Nat /\ p \in Nat /\ p < head
    BY DEF MemInv, MemTypes
  <1>2. p >= tail
    BY <1>1 DEF Size
  <1>3. TicketTrue(p)
    BY <1>1, <1>2, Zenon DEF MemInv
  <1> QED
    BY <1>1, <1>3, Zenon DEF TicketTrue, Published

LEMMA BeforeFinite ==
  ASSUME Counting, NEW p \in Nat, NEW t
  PROVE  IsFiniteSet(Before(p, t)) /\ Cardinality(Before(p, t)) \in Nat
  <1>1. Before(p, t) \in SUBSET (0..(p - 1)) /\ p - 1 \in Int
    BY DEF Before
  <1>2. IsFiniteSet(0..(p - 1))
    BY <1>1, CountOfRange
  <1>3. IsFiniteSet(Before(p, t))
    BY <1>1, <1>2, CountOfPart, Zenon
  <1> QED
    BY <1>3, CountIsNat, Zenon

\* A ticket stays its thread's.
FromKept == \A p \in 0..(head - 1) : \A t : From(p, t)' <=> From(p, t)

\* Steps that leave every ticket its line.
LEMMA LinesQuiet ==
  ASSUME Counting, MemInv, MemInv', LinesInv, head' = head, tail' >= tail, Size' = Size, pos' = pos, slot' = slot,
         LeftTheRing' = LeftTheRing, written' \in Seq(Lines), buffer' \in Seq(Lines),
         said' \in [Threads -> 0..MaxLines],
         \A t \in Threads : Holding(t)' <=> Holding(t),
         \A t \in Threads : Holding(t) => said'[t] = said[t],
         \A t \in Threads : at'[t] = "publish" => at[t] = "publish",
         \A t \in Threads : said'[t] + One(at[t] = "reserve") = said[t] + One(at[t] = "reserve")'
  PROVE  LinesInv' /\ FromKept
  <1>1. \A p : Held(p)' <=> Held(p)
    BY Zenon DEF Held
  <1>2. \A p \in Nat : Published(p)' => Published(p)
    BY <1>1, PublishedBefore, Zenon
  <1>3. \A t \in Threads : Holding(t) => Mine(t)' = Mine(t)
    BY Zenon DEF Mine, Line
  <1>4. \A p, l : Carries(p, l)' <=> Carries(p, l)
    BY <1>1, <1>3, Zenon DEF Carries
  <1>5. \A p, t : From(p, t)' <=> From(p, t)
    BY <1>4, Zenon DEF From
  <1>6. \A p, t : Before(p, t)' = Before(p, t)
    BY <1>5, Zenon DEF Before
  <1>7. \A p \in 0..(head' - 1) :
          \E l \in Lines : Carries(p, l)' /\ l.n = Cardinality(Before(p + 1, l.thread))'
    BY <1>4, <1>6, Zenon DEF LinesInv
  <1>8. ASSUME NEW t \in Threads PROVE said'[t] = Cardinality(Before(head, t))' + One(at[t] = "reserve")'
    <2>1. said[t] = Cardinality(Before(head, t)) + One(at[t] = "reserve") /\ Before(head, t)' = Before(head, t)
      BY <1>6, Zenon DEF LinesInv
    <2>2. said[t] \in Nat /\ said'[t] \in Nat /\ Cardinality(Before(head, t)) \in Int
      BY BeforeFinite, SizesAssumption DEF LinesInv, MemInv, MemTypes
    <2> QED
      BY <2>1, <2>2 DEF One
  <1>9. \A t \in Threads : at'[t] = "publish" =>
          slot'[At(pos'[t])] \in Records /\ slot'[At(pos'[t])].line = Mine(t)'
    BY <1>3, Zenon DEF LinesInv, Holding
  <1>10. \A p \in Nat : Published(p)' => slot'[At(p)] \in Records
    BY <1>2, Zenon DEF LinesInv
  <1> QED
    BY <1>5, <1>7, <1>8, <1>9, <1>10, Zenon DEF LinesInv, FromKept

\* The line of a ticket somebody holds is that thread's next one.
LEMMA HoldersLine ==
  ASSUME MemInv, LinesInv, NEW t \in Threads, Holding(t)
  PROVE  /\ Mine(t) \in Lines /\ pos[t] >= Size /\ pos[t] \in 0..(head - 1)
         /\ \A l : Carries(pos[t], l) <=> l = Mine(t)
  <1>1. /\ pos[t] \in tail..(head - 1) /\ tail \in Nat /\ head \in Nat
        /\ \A u \in Threads : Holding(u) /\ pos[u] = pos[t] => u = t
    BY DEF MemInv, MemTypes, HolderTrue
  <1>2. logger = "done" => ~Held(tail)
    <2>1. logger = "done" => seq[At(tail)] = tail + 1 /\ TicketTrue(tail) /\ tail \in Window
      BY <1>1, SizesAssumption DEF MemInv, LoggerTrue, Window
    <2> QED
      BY <2>1, Zenon DEF TicketTrue
  <1>3. pos[t] >= Size
    BY <1>1, <1>2 DEF Held, Size
  <1>4. \A l : Carries(pos[t], l) <=> l = Mine(t)
    <2>1. Size \in Nat /\ ~(pos[t] < Size) /\ Held(pos[t])
      BY <1>1, <1>3 DEF Size, Held
    <2> QED
      BY <1>1, <2>1, Zenon DEF Carries
  <1>5. pos[t] \in 0..(head - 1)
    BY <1>1
  <1>6. PICK l \in Lines : Carries(pos[t], l)
    BY <1>5, Zenon DEF LinesInv
  <1> QED
    BY <1>3, <1>4, <1>5, <1>6, Zenon

\* Steps after which every ticket has the line it had; the number of tickets stays.
LEMMA LinesKept ==
  ASSUME MemInv, LinesInv, head' = head,
         slot' \in [Index -> Records \union {NONE}], said' = said,
         written' \in Seq(Lines), buffer' \in Seq(Lines), Len(LeftTheRing)' = Size',
         \A p \in Nat : Published(p)' => slot'[At(p)] \in Records,
         \A t \in Threads : at'[t] = "publish" =>
            slot'[At(pos'[t])] \in Records /\ slot'[At(pos'[t])].line = Mine(t)',
         \A t \in Threads : at'[t] = "reserve" <=> at[t] = "reserve",
         \A p \in 0..(head - 1) : \A l : Carries(p, l)' <=> Carries(p, l)
  PROVE  LinesInv' /\ FromKept
  <1>0. head \in Nat
    BY Zenon DEF MemInv, MemTypes
  <1>1. \A p \in 0..(head - 1) : \A t : From(p, t)' <=> From(p, t)
    BY Zenon DEF From
  <1>2. \A p \in 0..head : \A t : Before(p, t)' = Before(p, t)
    BY <1>0, <1>1 DEF Before
  <1>3. \A p \in 0..(head' - 1) :
          \E l \in Lines : Carries(p, l)' /\ l.n = Cardinality(Before(p + 1, l.thread))'
    <2>1. \A p \in 0..(head - 1) : p + 1 \in 0..head
      BY <1>0
    <2> QED
      BY <1>2, <2>1, Zenon DEF LinesInv
  <1>4. \A t \in Threads : said'[t] = Cardinality(Before(head, t))' + One(at[t] = "reserve")'
    <2>1. \A t \in Threads : Before(head, t)' = Before(head, t) /\ One(at[t] = "reserve")' = One(at[t] = "reserve")
      BY <1>0, <1>2 DEF One
    <2> QED
      BY <2>1, Zenon DEF LinesInv
  <1> QED
    BY <1>1, <1>3, <1>4, Zenon DEF LinesInv, FromKept

LEMMA LinesWrite ==
  ASSUME MemInv, MemInv', OwnerTyped, LinesInv, NEW t \in Threads, Write(t)
  PROVE  LinesInv' /\ FromKept
  <1>1. /\ at[t] = "write" /\ at' = [at EXCEPT ![t] = "publish"]
        /\ slot' = [slot EXCEPT ![At(pos[t])] = [line |-> Mine(t), owner |-> owner[t]]]
        /\ UNCHANGED <<seq, head, tail, pos, said, logger, written, buffer>>
    BY Zenon DEF Write, Goes, logVars
  <1>2. /\ slot \in [Index -> Records \union {NONE}] /\ at \in [Threads -> ThreadPlaces] /\ Holding(t)
        /\ pos[t] \in Nat /\ pos[t] \in tail..(head - 1) /\ seq[At(pos[t])] = pos[t] /\ tail \in Nat
        /\ At(pos[t]) \in Index
    <2>1. Holding(t) /\ HolderTrue(t) /\ pos[t] \in Nat
      BY <1>1, Zenon DEF MemInv, MemTypes, Holding
    <2>2. At(pos[t]) \in Index
      BY <2>1, Modular, Zenon
    <2> QED
      BY <1>1, <2>1, <2>2 DEF MemInv, MemTypes, LinesInv, HolderTrue
  <1>3. PICK e \in Records : e = [line |-> Mine(t), owner |-> owner[t]] /\ e.line = Mine(t)
    BY <1>1, <1>2, HoldersLine DEF OwnerTyped, Records
  <1>4. pos[t] \in Window
    BY <1>2, NotBeyond
  <1>5. /\ slot' \in [Index -> Records \union {NONE}] /\ slot'[At(pos[t])] = e
        /\ \A i \in Index : i # At(pos[t]) => slot'[i] = slot[i]
    BY <1>1, <1>2, <1>3, Zenon
  <1>6. \A u \in Threads : (Holding(u)' <=> Holding(u)) /\ Mine(u)' = Mine(u)
    BY <1>1, <1>2, Zenon DEF Holding, Mine, Line
  <1>7. \A p : Held(p)' <=> Held(p)
    BY <1>1, <1>6, Zenon DEF Held
  <1>8. Size' = Size /\ LeftTheRing' = LeftTheRing /\ Window' = Window
    BY <1>1, Zenon DEF Size, LeftTheRing, Window
  <1>9. \A p \in Nat : Published(p) => At(p) \in Index /\ At(p) # At(pos[t])
    <2>1. \A p \in Nat : Published(p) => p # pos[t] /\ p \in Window
      BY <1>2 DEF Published
    <2> QED
      BY <1>4, <2>1, Modular, Zenon DEF MemInv, WindowTrue
  <1>10. ASSUME NEW p \in 0..(head - 1), NEW l PROVE Carries(p, l)' <=> Carries(p, l)
    <2>1. p >= Size /\ ~Held(p) => Published(p)
      BY FreeIsPublished, Zenon
    <2>2. p >= Size /\ ~Held(p) => slot'[At(p)] = slot[At(p)]
      BY <1>5, <1>9, <2>1
    <2> QED
      BY <1>1, <1>6, <1>7, <1>8, <2>2, Zenon DEF Carries
  <1>11. \A p \in Nat : Published(p)' => slot'[At(p)] \in Records
    BY <1>1, <1>5, <1>8, <1>9, Zenon DEF LinesInv, Published
  <1>12. ASSUME NEW u \in Threads, at'[u] = "publish"
         PROVE  slot'[At(pos'[u])] \in Records /\ slot'[At(pos'[u])].line = Mine(u)'
    <2>1. CASE u = t
      BY <1>1, <1>3, <1>5, <1>6, <2>1, Zenon
    <2>2. CASE u # t
      <3>1. at[u] = "publish" /\ Holding(u) /\ pos[u] \in Nat /\ pos[u] # pos[t] /\ seq[At(pos[u])] = pos[u] /\ pos[u] >= tail
        BY <1>1, <1>2, <1>12, <2>2 DEF MemInv, MemTypes, HolderTrue, Holding
      <3>2. pos[u] \in Window
        BY <3>1, NotBeyond, Zenon
      <3>3. At(pos[u]) # At(pos[t]) /\ At(pos[u]) \in Index
        BY <1>4, <3>1, <3>2, Modular, Zenon DEF MemInv, WindowTrue
      <3> QED
        BY <1>1, <1>5, <1>6, <3>1, <3>3, Zenon DEF LinesInv
    <2> QED
      BY <2>1, <2>2, Zenon
  <1>13. \A u \in Threads : at'[u] = "reserve" <=> at[u] = "reserve"
    BY <1>1, <1>2, Zenon
  <1>14. said' = said /\ head' = head /\ written' \in Seq(Lines) /\ buffer' \in Seq(Lines) /\ Len(LeftTheRing)' = Size'
    BY <1>1, <1>8, Zenon DEF LinesInv
  <1> QED
    BY <1>5, <1>10, <1>11, <1>12, <1>13, <1>14, LinesKept, Zenon

LEMMA LinesPublish ==
  ASSUME MemInv, LinesInv, NEW t \in Threads, Publish(t)
  PROVE  LinesInv' /\ FromKept
  <1>1. /\ at[t] = "publish" /\ at' = [at EXCEPT ![t] = "wake"]
        /\ seq' = [seq EXCEPT ![At(pos[t])] = pos[t] + 1]
        /\ UNCHANGED <<slot, head, tail, pos, said, logger, written, buffer>>
    BY Zenon DEF Publish, Goes, logVars
  <1>2. /\ at \in [Threads -> ThreadPlaces] /\ seq \in [Index -> Nat] /\ Holding(t) /\ HolderTrue(t)
        /\ pos[t] \in Nat /\ At(pos[t]) \in Index /\ \A p \in Nat : At(p) \in Index
    BY <1>1, Modular, Zenon DEF MemInv, MemTypes, Holding
  <1>3. \A u \in Threads : (Holding(u)' <=> Holding(u) /\ u # t) /\ Mine(u)' = Mine(u)
    BY <1>1, <1>2, Zenon DEF Holding, Mine, Line
  <1>4. \A p : Held(p)' <=> Held(p) /\ p # pos[t]
    BY <1>1, <1>2, <1>3, Zenon DEF Held, HolderTrue
  <1>5. Size' = Size /\ LeftTheRing' = LeftTheRing /\ Window' = Window
    BY <1>1, Zenon DEF Size, LeftTheRing, Window
  <1>6. /\ pos[t] >= Size /\ slot[At(pos[t])] \in Records /\ slot[At(pos[t])].line = Mine(t)
        /\ Size \in Nat /\ \A l : Carries(pos[t], l) <=> l = Mine(t)
    <2>1. pos[t] >= Size /\ \A l : Carries(pos[t], l) <=> l = Mine(t)
      BY <1>2, HoldersLine, Zenon
    <2>2. Size \in Nat
      BY DEF Size, MemInv, MemTypes
    <2> QED
      BY <1>1, <2>1, <2>2, Zenon DEF LinesInv
  <1>7. ASSUME NEW p \in 0..(head - 1), NEW l PROVE Carries(p, l)' <=> Carries(p, l)
    <2>1. CASE p = pos[t]
      <3>1. ~Held(p)' /\ ~(p < Size') /\ p >= Size' /\ slot'[At(p)].line = Mine(t)
        BY <1>1, <1>2, <1>4, <1>5, <1>6, <2>1
      <3>2. ~\E u \in Threads : Holding(u)' /\ pos'[u] = p
        BY <3>1, Zenon DEF Held
      <3>3. Carries(p, l)' <=> l = Mine(t)
        BY <3>1, <3>2, Zenon DEF Carries
      <3> QED
        BY <1>6, <2>1, <3>3, Zenon
    <2>2. CASE p # pos[t]
      <3>1. \A u \in Threads : pos[u] = p => (Holding(u)' <=> Holding(u))
        BY <1>3, <2>2, Zenon
      <3> QED
        BY <1>1, <1>3, <1>4, <1>5, <2>2, <3>1, Zenon DEF Carries
    <2> QED
      BY <2>1, <2>2, Zenon
  <1>8. ASSUME NEW p \in Nat, Published(p)' PROVE slot'[At(p)] \in Records
    <2>1. CASE At(p) = At(pos[t])
      BY <1>1, <1>6, <2>1, Zenon
    <2>2. CASE At(p) # At(pos[t])
      BY <1>1, <1>2, <1>5, <1>8, <2>2, Zenon DEF Published, LinesInv
    <2> QED
      BY <2>1, <2>2, Zenon
  <1>9. \A u \in Threads : (at'[u] = "publish" => at[u] = "publish") /\ (at'[u] = "reserve" <=> at[u] = "reserve")
    BY <1>1, <1>2, Zenon
  <1>10. \A u \in Threads : at'[u] = "publish" =>
            slot'[At(pos'[u])] \in Records /\ slot'[At(pos'[u])].line = Mine(u)'
    BY <1>1, <1>3, <1>9, Zenon DEF LinesInv
  <1>11. /\ said' = said /\ head' = head /\ written' \in Seq(Lines) /\ buffer' \in Seq(Lines)
         /\ Len(LeftTheRing)' = Size' /\ slot' \in [Index -> Records \union {NONE}]
    BY <1>1, <1>5, Zenon DEF LinesInv
  <1> QED
    BY <1>7, <1>8, <1>9, <1>10, <1>11, LinesKept, Zenon

\* However the buffer is flushed, the line of the slot is the next that leaves the ring.
LEMMA OneLineLeaves ==
  ASSUME MemInv, LinesInv, WriteLine
  PROVE  /\ slot[At(tail)] \in Records /\ Published(tail) /\ tail < head /\ ~Held(tail)
         /\ written' \in Seq(Lines) /\ buffer' \in Seq(Lines)
         /\ LeftTheRing' = Append(LeftTheRing, slot[At(tail)].line)
  <1>1. logger = "line" /\ tail \in Nat /\ head \in Nat
    BY DEF WriteLine, MemInv, MemTypes
  <1>2. tail \in Window /\ seq[At(tail)] = tail + 1 /\ TicketTrue(tail)
    BY <1>1, SizesAssumption DEF MemInv, LoggerTrue, Window
  <1>3. Published(tail) /\ tail < head /\ ~Held(tail)
    BY <1>2, Zenon DEF TicketTrue, Published
  <1>4. slot[At(tail)] \in Records
    BY <1>1, <1>3, Zenon DEF LinesInv
  <1>5. PICK l \in Lines : l = slot[At(tail)].line
    BY <1>4, Zenon DEF Records
  <1>6. written \in Seq(Lines) /\ buffer \in Seq(Lines) /\ <<l>> \in Seq(Lines) /\ written \o buffer \in Seq(Lines)
    BY DEF LinesInv
  <1>7. CASE written' = written /\ buffer' = Append(buffer, l)
    <2>1. buffer' = buffer \o <<l>> /\ Append(written \o buffer, l) = (written \o buffer) \o <<l>>
      BY <1>6, <1>7
    <2>2. written' \in Seq(Lines) /\ buffer' \in Seq(Lines)
      BY <1>6, <1>7
    <2> QED
      BY <1>3, <1>4, <1>5, <1>6, <1>7, <2>1, <2>2 DEF LeftTheRing
  <1>8. CASE written' = written \o buffer /\ buffer' = <<l>>
    BY <1>3, <1>4, <1>5, <1>6, <1>8 DEF LeftTheRing
  <1>9. CASE written' = Append(written \o buffer, l) /\ buffer' = <<>>
    <2>1. written' \in Seq(Lines) /\ buffer' \in Seq(Lines) /\ written' \o <<>> = written'
      BY <1>6, <1>9
    <2> QED
      BY <1>3, <1>4, <1>5, <1>9, <2>1, Zenon DEF LeftTheRing
  <1> QED
    BY <1>5, <1>7, <1>8, <1>9, Zenon DEF WriteLine

LEMMA LinesWriteLine ==
  ASSUME MemInv, LinesInv, WriteLine
  PROVE  LinesInv' /\ FromKept
  <1>1. /\ logger = "line" /\ logger' = "done"
        /\ UNCHANGED <<seq, slot, head, tail, at, pos, said>>
    BY Zenon DEF WriteLine, Logger, ringVars, threadVars
  <1>2. /\ slot[At(tail)] \in Records /\ Published(tail) /\ tail < head /\ ~Held(tail)
        /\ written' \in Seq(Lines) /\ buffer' \in Seq(Lines)
        /\ LeftTheRing' = Append(LeftTheRing, slot[At(tail)].line)
    BY OneLineLeaves, Zenon
  <1>3. Size = tail /\ Size' = tail + 1 /\ tail \in Nat /\ head \in Nat
    BY <1>1 DEF Size, MemInv, MemTypes
  <1>4. LeftTheRing \in Seq(Lines) /\ Len(LeftTheRing) = tail /\ slot[At(tail)].line \in Lines
    BY <1>2, <1>3 DEF LinesInv, LeftTheRing, Records
  <1>5. /\ Len(LeftTheRing') = tail + 1 /\ LeftTheRing'[tail + 1] = slot[At(tail)].line
        /\ \A i \in 1..tail : LeftTheRing'[i] = LeftTheRing[i]
    BY <1>2, <1>3, <1>4
  <1>6. \A u \in Threads : (Holding(u)' <=> Holding(u)) /\ Mine(u)' = Mine(u)
    BY <1>1, Zenon DEF Holding, Mine, Line
  <1>7. \A p : Held(p)' <=> Held(p)
    BY <1>1, <1>6, Zenon DEF Held
  <1>8. ASSUME NEW p \in 0..(head - 1), NEW l PROVE Carries(p, l)' <=> Carries(p, l)
    <2>0. p \in Nat
      OBVIOUS
    <2>1. CASE p < tail
      <3>1. p < Size /\ p < Size' /\ ~(p >= Size) /\ ~(p >= Size') /\ LeftTheRing'[p + 1] = LeftTheRing[p + 1]
        BY <1>3, <1>5, <2>0, <2>1
      <3> QED
        BY <1>1, <1>6, <3>1, Zenon DEF Carries
    <2>2. CASE p = tail
      <3>1. ~(p < Size) /\ p < Size' /\ p >= Size /\ ~(p >= Size') /\ LeftTheRing'[p + 1] = slot[At(p)].line
        BY <1>3, <1>5, <2>0, <2>2
      <3> QED
        BY <1>1, <1>2, <1>6, <2>2, <3>1, Zenon DEF Carries
    <2>3. CASE p > tail
      <3>1. ~(p < Size) /\ ~(p < Size') /\ p >= Size /\ p >= Size'
        BY <1>3, <2>0, <2>3
      <3> QED
        BY <1>1, <1>6, <1>7, <3>1, Zenon DEF Carries
    <2> QED
      BY <1>3, <2>0, <2>1, <2>2, <2>3
  <1>9. /\ \A p \in Nat : Published(p)' => slot'[At(p)] \in Records
        /\ \A u \in Threads : at'[u] = "publish" =>
            slot'[At(pos'[u])] \in Records /\ slot'[At(pos'[u])].line = Mine(u)'
    BY <1>1, <1>6, Zenon DEF LinesInv, Published, Window
  <1>10. /\ said' = said /\ head' = head /\ Len(LeftTheRing)' = Size' /\ slot' \in [Index -> Records \union {NONE}]
    BY <1>1, <1>3, <1>5, Zenon DEF LinesInv
  <1> QED
    BY <1>1, <1>2, <1>8, <1>9, <1>10, LinesKept, Zenon

LEMMA LinesReserve ==
  ASSUME Counting, MemInv, LinesInv, NEW t \in Threads, Reserve(t), NEW h \in Nat, h = head
  PROVE  LinesInv' /\ FromKept /\ \A u : From(h, u)' <=> u = t
  <1>1. /\ at[t] = "reserve" /\ at' = [at EXCEPT ![t] = "check"]
        /\ pos' = [pos EXCEPT ![t] = head] /\ head' = head + 1
        /\ UNCHANGED <<seq, slot, tail, said, logger, written, buffer>>
    BY Zenon DEF Reserve, Goes, logVars
  <1>2. /\ at \in [Threads -> ThreadPlaces] /\ pos \in [Threads -> Nat] /\ head \in Nat /\ tail \in 0..head
        /\ said[t] \in 0..MaxLines /\ MaxLines \in Nat /\ said \in [Threads -> 0..MaxLines]
    BY SizesAssumption, Zenon DEF MemInv, MemTypes, LinesInv
  <1>0. h \in Nat /\ h = head
    BY Zenon
  <1>3. ~Holding(t) /\ \A u \in Threads : Holding(u) => pos[u] \in 0..(head - 1) /\ pos[u] # head
    BY <1>1, <1>2 DEF MemInv, HolderTrue, Holding
  <1>4. \A u \in Threads : /\ Holding(u)' <=> Holding(u) \/ u = t
                          /\ Mine(u)' = Mine(u) /\ pos'[u] = IF u = t THEN head ELSE pos[u]
    BY <1>1, <1>2, <1>3, Zenon DEF Holding, Mine, Line
  <1>5. \A p : Held(p)' <=> Held(p) \/ p = head
    BY <1>3, <1>4, Zenon DEF Held
  <1>6. Size \in Nat /\ Size' = Size /\ Size <= head /\ LeftTheRing' = LeftTheRing /\ Window' = Window
    <2>1. logger = "done" => tail < head
      <3>1. logger = "done" => seq[At(tail)] = tail + 1 /\ TicketTrue(tail) /\ tail \in Window
        BY <1>2, SizesAssumption DEF MemInv, LoggerTrue, Window
      <3> QED
        BY <3>1, Zenon DEF TicketTrue
    <2> QED
      BY <1>1, <1>2, <2>1 DEF Size, LeftTheRing, Window
  <1>7. ASSUME NEW p \in 0..(head - 1), NEW l PROVE Carries(p, l)' <=> Carries(p, l)
    <2>1. p # head
      BY <1>2
    <2>2. \A u \in Threads : Holding(u)' /\ pos'[u] = p <=> Holding(u) /\ pos[u] = p
      BY <1>3, <1>4, <2>1, Zenon
    <2>3. Held(p)' <=> Held(p)
      BY <1>5, <2>1, Zenon
    <2> QED
      BY <1>1, <1>4, <1>6, <2>2, <2>3, Zenon DEF Carries
  <1>8. \A l : Carries(h, l)' <=> l = Mine(t)
    <2>1. ~(h < Size') /\ Held(h)'
      BY <1>0, <1>2, <1>5, <1>6
    <2>2. \A u \in Threads : Holding(u)' /\ pos'[u] = h <=> u = t
      BY <1>0, <1>3, <1>4, Zenon
    <2> QED
      BY <1>4, <2>1, <2>2, Zenon DEF Carries
  <1>9. \A u : From(h, u)' <=> u = t
    <2>1. \A u, n : Line(u, n) = Mine(t) <=> u = t /\ n = said[t]
      <3>1. ASSUME NEW u, NEW n PROVE Line(u, n).thread = u /\ Line(u, n).n = n
        BY Zenon DEF Line
      <3> QED
        BY <3>1 DEF Mine
    <2>2. said[t] \in Nat
      BY <1>2
    <2> QED
      BY <1>8, <2>1, <2>2, Zenon DEF From
  <1>10. \A p \in 0..(head - 1) : \A u : From(p, u)' <=> From(p, u)
    BY <1>7, Zenon DEF From
  <1>11. \A p \in 0..head : \A u : Before(p, u)' = Before(p, u)
    BY <1>2, <1>10 DEF Before
  <1>12. /\ Before(h + 1, t)' = Before(head, t) \union {head}
         /\ \A u : u # t => Before(h + 1, u)' = Before(head, u)
    <2>1. 0..(h + 1 - 1) = (0..(h - 1)) \union {h}
      OBVIOUS
    <2>2. \A u : Before(h + 1, u)' = {q \in (0..(h - 1)) \union {h} : From(q, u)'}
      BY <2>1 DEF Before
    <2> QED
      BY <1>0, <1>9, <1>10, <2>2, Zenon DEF Before
  <1>13. Cardinality(Before(head, t) \union {head}) = said[t] /\ said[t] >= 1
    <2>1. head \notin Before(head, t)
      BY <1>2 DEF Before
    <2>2. IsFiniteSet(Before(head, t)) /\ Cardinality(Before(head, t)) \in Nat
      BY <1>2, BeforeFinite, Zenon
    <2>3. Cardinality(Before(head, t) \union {head}) = Cardinality(Before(head, t)) + 1
      BY <2>1, <2>2, CountAdding, Zenon
    <2> QED
      BY <1>1, <2>2, <2>3 DEF LinesInv, One
  <1>14. Mine(t) \in Lines /\ Mine(t).n = said[t] /\ Mine(t).thread = t
    BY <1>2, <1>13 DEF Lines, Mine, Line
  <1>15. ASSUME NEW p \in 0..(head' - 1)
         PROVE  \E l \in Lines : Carries(p, l)' /\ l.n = Cardinality(Before(p + 1, l.thread))'
    <2>1. CASE p = head
      BY <1>0, <1>8, <1>12, <1>13, <1>14, <2>1, Zenon
    <2>2. CASE p # head
      <3>1. p \in 0..(head - 1) /\ p + 1 \in 0..head
        BY <1>1, <1>2, <2>2
      <3> QED
        BY <1>7, <1>11, <3>1, Zenon DEF LinesInv
    <2> QED
      BY <2>1, <2>2, Zenon
  <1>16. ASSUME NEW u \in Threads
         PROVE  said'[u] = Cardinality(Before(head, u))' + One(at[u] = "reserve")'
    <2>1. Before(head, u)' = Before(h + 1, u)'
      BY <1>0, <1>1, Zenon DEF Before
    <2>2. CASE u = t
      <3>1. Before(head, u)' = Before(head, t) \union {head} /\ One(at[u] = "reserve")' = 0
        BY <1>1, <1>2, <1>12, <2>1, <2>2, Zenon DEF One
      <3> QED
        <4>1. Cardinality(Before(head, u))' = said[t]
          BY <1>13, <3>1, Zenon
        <4>2. said'[u] = said[t] /\ said[t] \in Nat
          BY <1>1, <1>2, <2>2
        <4> QED
          BY <3>1, <4>1, <4>2
    <2>3. CASE u # t
      <3>1. Before(head, u)' = Before(head, u) /\ One(at[u] = "reserve")' = One(at[u] = "reserve")
        BY <1>1, <1>2, <1>12, <2>1, <2>3, Zenon DEF One
      <3> QED
        BY <1>1, <3>1, Zenon DEF LinesInv
    <2> QED
      BY <2>2, <2>3, Zenon
  <1>17. \A u \in Threads : at'[u] = "publish" =>
            slot'[At(pos'[u])] \in Records /\ slot'[At(pos'[u])].line = Mine(u)'
    <2>1. \A u \in Threads : at'[u] = "publish" => at[u] = "publish" /\ pos'[u] = pos[u]
      BY <1>1, <1>2, Zenon
    <2> QED
      BY <1>1, <1>4, <2>1, Zenon DEF LinesInv
  <1>18. \A p \in Nat : Published(p)' => slot'[At(p)] \in Records
    BY <1>1, <1>6, Zenon DEF LinesInv, Published
  <1>19. /\ slot' \in [Index -> Records \union {NONE}] /\ said' \in [Threads -> 0..MaxLines]
         /\ written' \in Seq(Lines) /\ buffer' \in Seq(Lines) /\ Len(LeftTheRing)' = Size'
    BY <1>1, <1>6, Zenon DEF LinesInv
  <1> QED
    BY <1>9, <1>10, <1>15, <1>16, <1>17, <1>18, <1>19, Zenon DEF LinesInv, FromKept

\* A flush moves no line out of its place.
LEMMA FlushKeeps ==
  ASSUME LinesInv, Flushed
  PROVE  LeftTheRing' = LeftTheRing /\ written' \in Seq(Lines) /\ buffer' \in Seq(Lines)
  <1>1. written \in Seq(Lines) /\ buffer \in Seq(Lines) /\ written' = written \o buffer /\ buffer' = <<>>
    BY Zenon DEF LinesInv, Flushed
  <1>2. written \o buffer \in Seq(Lines) /\ <<>> \in Seq(Lines)
    BY <1>1
  <1>3. (written \o buffer) \o <<>> = written \o buffer
    BY <1>2
  <1> QED
    BY <1>1, <1>2, <1>3, Zenon DEF LeftTheRing

LEMMA LinesStep ==
  ASSUME Counting, MemInv, MemInv', OwnerTyped, LinesInv, [Next]_vars
  PROVE  LinesInv' /\ FromKept
  <1> USE DEF ringVars, flagVars, threadVars, logVars, ownerVars
  <1>0. /\ at \in [Threads -> ThreadPlaces] /\ said \in [Threads -> 0..MaxLines] /\ MaxLines \in Nat
        /\ written \in Seq(Lines) /\ buffer \in Seq(Lines) /\ tail \in Nat /\ tail >= tail
    BY SizesAssumption DEF MemInv, MemTypes, LinesInv
  <1>1. ASSUME /\ head' = head /\ pos' = pos /\ slot' = slot /\ tail' >= tail /\ Size' = Size
               /\ \/ UNCHANGED <<written, buffer>>
                  \/ Flushed,
               said' = said /\ (at' = at
                  \/ (\E t \in Threads, w \in {"blocked", "asleep", "unblocked", "write"} :
                       at[t] \in {"check", "blocked", "asleep", "unblocked"} /\ at' = [at EXCEPT ![t] = w])
                  \/ (\E t \in Threads, w \in {"signal", "idle", "leaving"} :
                       at[t] \in {"idle", "wake", "signal", "leaving"} /\ at' = [at EXCEPT ![t] = w])
                  \/ at' = [t \in Threads |-> IF at[t] = "asleep" THEN "blocked" ELSE at[t]])
        PROVE  LinesInv' /\ FromKept
    <2>1. /\ \A t \in Threads : Holding(t)' <=> Holding(t)
          /\ \A t \in Threads : at'[t] = "publish" => at[t] = "publish"
          /\ \A t \in Threads : at'[t] = "reserve" <=> at[t] = "reserve"
      BY <1>0, <1>1, Zenon DEF Holding
    <2>2. /\ said' \in [Threads -> 0..MaxLines] /\ \A t \in Threads : Holding(t) => said'[t] = said[t]
          /\ \A t \in Threads : said'[t] + One(at[t] = "reserve") = said[t] + One(at[t] = "reserve")'
      BY <1>0, <1>1, <2>1, Zenon DEF One
    <2>3. LeftTheRing' = LeftTheRing /\ written' \in Seq(Lines) /\ buffer' \in Seq(Lines)
      BY <1>0, <1>1, FlushKeeps, Zenon DEF LeftTheRing
    <2> QED
      BY <1>1, <2>1, <2>2, <2>3, LinesQuiet, Zenon
  <1>2. ASSUME NEW t \in Threads, Submit(t) PROVE LinesInv' /\ FromKept
    <2>1. /\ at[t] = "idle" /\ at' = [at EXCEPT ![t] = "reserve"] /\ said' = [said EXCEPT ![t] = @ + 1]
          /\ said[t] < MaxLines /\ UNCHANGED <<seq, slot, head, tail, pos, logger, written, buffer>>
      BY <1>2, Zenon DEF Submit, Goes
    <2>2. said' \in [Threads -> 0..MaxLines]
      BY <1>0, <2>1
    <2>3. /\ \A u \in Threads : Holding(u)' <=> Holding(u)
          /\ \A u \in Threads : Holding(u) => said'[u] = said[u]
          /\ \A u \in Threads : at'[u] = "publish" => at[u] = "publish"
      BY <1>0, <2>1, Zenon DEF Holding
    <2>4. \A u \in Threads : said'[u] + One(at[u] = "reserve") = said[u] + One(at[u] = "reserve")'
      BY <1>0, <2>1 DEF One
    <2>5. Size' = Size /\ LeftTheRing' = LeftTheRing /\ tail' >= tail
      BY <1>0, <2>1, Zenon DEF Size, LeftTheRing
    <2>6. head' = head /\ pos' = pos /\ slot' = slot /\ written' \in Seq(Lines) /\ buffer' \in Seq(Lines)
      BY <1>0, <2>1, Zenon
    <2> QED
      BY <2>2, <2>3, <2>4, <2>5, <2>6, LinesQuiet, Zenon
  <1>3. ASSUME NEW t \in Threads, Check(t) \/ Blocked(t) \/ Unblocked(t) \/ WokenForNothing(t)
        PROVE  LinesInv' /\ FromKept
    <2>1. /\ UNCHANGED <<head, pos, slot, tail, written, buffer, said>>
          /\ logger' = logger \/ (logger = "asleep" /\ logger' = "relock")
      BY <1>3, Zenon DEF Check, Blocked, Unblocked, WokenForNothing, SignalsNotEmpty
    <2>2. \E w \in {"blocked", "asleep", "unblocked", "write"} :
             at[t] \in {"check", "blocked", "asleep", "unblocked"} /\ at' = [at EXCEPT ![t] = w]
      BY <1>3, Zenon DEF Check, Blocked, Unblocked, WokenForNothing, Goes
    <2>3. Size' = Size
      BY <2>1, Zenon DEF Size
    <2> QED
      BY <1>0, <1>1, <2>1, <2>2, <2>3, Zenon
  <1>4. ASSUME NEW t \in Threads, Wake(t) \/ Signal(t) \/ Leave(t) \/ Left(t)
        PROVE  LinesInv' /\ FromKept
    <2>1. /\ UNCHANGED <<head, pos, slot, tail, written, buffer, said>>
          /\ logger' = logger \/ (logger = "asleep" /\ logger' = "relock")
      BY <1>4, Zenon DEF Wake, Signal, Leave, Left, SignalsNotEmpty
    <2>2. \E w \in {"signal", "idle", "leaving"} :
             at[t] \in {"idle", "wake", "signal", "leaving"} /\ at' = [at EXCEPT ![t] = w]
      BY <1>4, Zenon DEF Wake, Signal, Leave, Left, Goes
    <2>3. Size' = Size
      BY <2>1, Zenon DEF Size
    <2> QED
      BY <1>0, <1>1, <2>1, <2>2, <2>3, Zenon
  <1>5. CASE Take \/ StillEmpty
    <2>1. /\ UNCHANGED <<head, pos, slot, tail, at, said>> /\ (UNCHANGED <<written, buffer>> \/ Flushed)
          /\ logger # "done" /\ logger' # "done"
      BY <1>5, Zenon DEF Take, StillEmpty, LastFlush, BeforeSleep, Logger
    <2>2. Size' = Size
      BY <2>1, Zenon DEF Size
    <2> QED
      BY <1>0, <1>1, <2>1, <2>2, Zenon
  <1>6. CASE Lock \/ Look \/ Sleep \/ LoggerWokenForNothing \/ Relock \/ Unlock
    <2>1. UNCHANGED <<head, pos, slot, tail, at, said, written, buffer>> /\ logger # "done" /\ logger' # "done"
      BY <1>6, Zenon DEF Lock, Look, Sleep, LoggerWokenForNothing, Relock, Unlock, Logger
    <2>2. Size' = Size
      BY <2>1, Zenon DEF Size
    <2> QED
      BY <1>0, <1>1, <2>1, <2>2, Zenon
  <1>7. CASE Commit \/ Waiters \/ Broadcast
    <2>1. UNCHANGED <<head, pos, slot, tail, said, written, buffer>> /\ logger # "done" /\ logger' # "done"
      BY <1>7, Zenon DEF Commit, Waiters, Broadcast, Logger
    <2>2. at' = at \/ at' = [t \in Threads |-> IF at[t] = "asleep" THEN "blocked" ELSE at[t]]
      BY <1>7, Zenon DEF Commit, Waiters, Broadcast
    <2>3. Size' = Size
      BY <2>1, Zenon DEF Size
    <2> QED
      BY <1>0, <1>1, <2>1, <2>2, <2>3, Zenon
  <1>8. CASE Done
    <2>1. /\ UNCHANGED <<head, pos, slot, at, said, written, buffer>> /\ logger = "done" /\ logger' = "waiters"
          /\ tail' = tail + 1
      BY <1>8, Zenon DEF Done, Logger
    <2>2. Size' = Size /\ tail' >= tail
      BY <1>0, <2>1 DEF Size
    <2> QED
      BY <1>0, <1>1, <2>1, <2>2, Zenon
  <1>9. CASE StoreLands \/ Stop \/ StopWakes \/ UNCHANGED vars
    <2>1. /\ UNCHANGED <<head, pos, slot, tail, at, said, written, buffer>>
          /\ logger' = logger \/ (logger = "asleep" /\ logger' = "relock")
      BY <1>9, Zenon DEF StoreLands, Stop, StopWakes, SignalsNotEmpty, vars
    <2>2. Size' = Size
      BY <2>1, Zenon DEF Size
    <2> QED
      BY <1>0, <1>1, <2>1, <2>2, Zenon
  <1>10. ASSUME NEW t \in Threads, Reserve(t) \/ Write(t) \/ Publish(t)
         PROVE  LinesInv' /\ FromKept
    <2>1. PICK h \in Nat : h = head
      BY Zenon DEF MemInv, MemTypes
    <2> QED
      BY <1>10, <2>1, LinesReserve, LinesWrite, LinesPublish, Zenon
  <1>11. CASE WriteLine
    BY <1>11, LinesWriteLine, Zenon
  <1> QED
    BY <1>2, <1>3, <1>4, <1>5, <1>6, <1>7, <1>8, <1>9, <1>10, <1>11, Zenon
    DEF Next, ThreadSteps, LoggerSteps

-----------------------------------------------------------------------------
(* The arenas.                                                               *)

\* The tickets of a thread whose lines the logger has still to take: their arenas are out.
Flight(t) == {p \in Size..(head - 1) : From(p, t)}

OutTrue(t) ==
    IF owner[t] = NONE THEN Flight(t) = {}
    ELSE out[owner[t]] = ret[owner[t]] + Cardinality(Flight(t)) + One(at[t] = "reserve")

SlotOwnerTrue ==
    /\ \A p \in Nat : Published(p) /\ p >= Size => slot[At(p)].owner = owner[slot[At(p)].line.thread]
    /\ \A t \in Threads : at[t] = "publish" => slot[At(pos[t])].owner = owner[t]

OwnersInv ==
    /\ out \in [Owners -> 0..(Capacity + 1)] /\ ret \in [Owners -> Nat]
    /\ \A t, u \in Threads : owner[t] # NONE /\ owner[u] = owner[t] => u = t
    /\ \A o \in Owners : (\A t \in Threads : owner[t] # o) => out[o] = 0 /\ ret[o] = 0
    /\ \A t \in Threads : OutTrue(t)
    /\ SlotOwnerTrue

LEMMA LineFields ==
  /\ \A t, n : Line(t, n).thread = t /\ Line(t, n).n = n
  /\ \A l \in Lines : l = Line(l.thread, l.n) /\ l.thread \in Threads /\ l.n \in Nat
  <1>1. \A t, n : Line(t, n).thread = t /\ Line(t, n).n = n
    BY Zenon DEF Line
  <1>2. \A l \in Lines : l = Line(l.thread, l.n) /\ l.thread \in Threads /\ l.n \in Nat
    BY SizesAssumption DEF Line, Lines
  <1> QED
    BY <1>1, <1>2, Zenon

\* A published line is its thread's, a ticket that is held its holder's.
LEMMA PublishedFrom ==
  ASSUME MemInv, LinesInv, NEW p \in Nat, Published(p), p >= Size
  PROVE  /\ p \in 0..(head - 1) /\ ~Held(p) /\ slot[At(p)] \in Records /\ slot[At(p)].line \in Lines
         /\ \A t : From(p, t) <=> t = slot[At(p)].line.thread
  <1>1. tail \in Nat /\ head \in Nat /\ p >= tail /\ Size \in Nat
    BY DEF MemInv, MemTypes, Published, Window, Size
  <1>2. p < head /\ ~Held(p)
    <2>1. TicketTrue(p)
      BY <1>1, Zenon DEF MemInv
    <2> QED
      BY <2>1, Zenon DEF TicketTrue, Published
  <1>3. slot[At(p)] \in Records /\ slot[At(p)].line \in Lines
    BY Zenon DEF LinesInv, Records
  <1>4. \A l : Carries(p, l) <=> l = slot[At(p)].line
    <2>1. ~(p < Size)
      BY <1>1
    <2> QED
      BY <1>2, <2>1, Zenon DEF Carries, Held
  <1>5. \A t : From(p, t) <=> t = slot[At(p)].line.thread
    BY <1>3, <1>4, LineFields, Zenon DEF From
  <1> QED
    BY <1>1, <1>2, <1>3, <1>5

LEMMA HeldFrom ==
  ASSUME MemInv, LinesInv, NEW t \in Threads, Holding(t)
  PROVE  /\ pos[t] \in 0..(head - 1) /\ pos[t] >= Size
         /\ \A u : From(pos[t], u) <=> u = t
  <1>1. /\ Mine(t) \in Lines /\ pos[t] >= Size /\ pos[t] \in 0..(head - 1)
        /\ \A l : Carries(pos[t], l) <=> l = Mine(t)
    BY HoldersLine, Zenon
  <1> QED
    BY <1>1, LineFields DEF From, Mine

LEMMA FlightFinite ==
  ASSUME Counting, MemInv, NEW t
  PROVE  IsFiniteSet(Flight(t)) /\ Cardinality(Flight(t)) \in Nat /\ Size \in Nat /\ Flight(t) \in SUBSET (0..(head - 1))
  <1>1. Size \in Nat /\ head \in Nat
    BY DEF MemInv, MemTypes, Size
  <1>2. Flight(t) \in SUBSET (0..(head - 1))
    BY <1>1 DEF Flight
  <1>3. IsFiniteSet(0..(head - 1))
    <2>1. 0 \in Int /\ head - 1 \in Int
      BY <1>1
    <2> QED
      BY <2>1, CountOfRange, Zenon
  <1>4. IsFiniteSet(Flight(t))
    BY <1>2, <1>3, CountOfPart, Zenon
  <1> QED
    BY <1>1, <1>2, <1>4, CountIsNat, Zenon

LEMMA OwnersInit == Init => OwnersInv
  <1> SUFFICES ASSUME Init PROVE OwnersInv
    BY Zenon
  <1>1. /\ head = 0 /\ tail = 0 /\ logger = "take" /\ Capacity \in Nat
        /\ owner = [t \in Threads |-> NONE] /\ at = [t \in Threads |-> "idle"]
        /\ out = [o \in Owners |-> 0] /\ ret = [o \in Owners |-> 0] /\ \A i \in Index : seq[i] = i
    BY SizesAssumption, Zenon DEF Init
  <1>2. \A t : Flight(t) = {}
    BY <1>1 DEF Flight, Size
  <1>3. \A p \in Nat : ~Published(p)
    <2>1. Window = Index /\ \A i \in Index : At(i) = i /\ i \in Nat
      BY <1>1, Modular DEF Window, Index
    <2> QED
      BY <1>1, <2>1 DEF Published
  <1>4. SlotOwnerTrue
    BY <1>1, <1>3, Zenon DEF SlotOwnerTrue
  <1>5. \A t \in Threads : OutTrue(t)
    BY <1>1, <1>2, Zenon DEF OutTrue
  <1> QED
    BY <1>1, <1>4, <1>5 DEF OwnersInv

\* Steps that move no arena.
LEMMA OwnersQuiet ==
  ASSUME MemInv, MemInv', LinesInv, OwnersInv, FromKept, head' = head, Size' = Size, tail' >= tail,
         pos' = pos, slot' = slot, owner' = owner, out' = out, ret' = ret,
         \A t \in Threads : Holding(t)' <=> Holding(t),
         \A t \in Threads : at'[t] = "publish" => at[t] = "publish",
         \A t \in Threads : at'[t] = "reserve" <=> at[t] = "reserve"
  PROVE  OwnersInv'
  <1>1. \A p : Held(p)' <=> Held(p)
    BY Zenon DEF Held
  <1>2. \A p \in Nat : Published(p)' => Published(p)
    BY <1>1, PublishedBefore, Zenon
  <1>3. \A t \in Threads : Flight(t)' = Flight(t) /\ One(at[t] = "reserve")' = One(at[t] = "reserve")
    <2>1. Size \in Nat /\ head \in Nat
      BY DEF MemInv, MemTypes, Size
    <2>2. \A p \in Size..(head - 1) : p \in 0..(head - 1)
      BY <2>1
    <2>3. \A t \in Threads : Flight(t)' = Flight(t)
      BY <2>2, Zenon DEF FromKept, Flight
    <2> QED
      BY <2>3, Zenon DEF One
  <1>4. \A t \in Threads : OutTrue(t)'
    BY <1>3, Zenon DEF OwnersInv, OutTrue
  <1>5. SlotOwnerTrue'
    BY <1>2, Zenon DEF OwnersInv, SlotOwnerTrue
  <1> QED
    BY <1>4, <1>5, Zenon DEF OwnersInv

\* What a thread without a ticket has in flight is published, so it is in the ring.
LEMMA FlightFits ==
  ASSUME Counting, MemInv, LinesInv, NEW t \in Threads, ~Holding(t)
  PROVE  Cardinality(Flight(t)) <= Capacity
  <1>1. ASSUME NEW p \in Flight(t) PROVE p \in Window
    <2>0. Size \in Nat /\ Flight(t) \in SUBSET (0..(head - 1)) /\ head \in Nat
      BY FlightFinite, Zenon DEF MemInv, MemTypes
    <2>1. p \in 0..(head - 1) /\ p >= Size /\ From(p, t)
      BY <2>0 DEF Flight
    <2>2. ~Held(p)
      <3>1. ASSUME NEW u \in Threads, Holding(u), pos[u] = p PROVE FALSE
        <4>1. From(pos[u], t) <=> t = u
          BY <3>1, HeldFrom, Zenon
        <4> QED
          BY <2>1, <3>1, <4>1, Zenon
      <3> QED
        BY <3>1, Zenon DEF Held
    <2> QED
      BY <2>1, <2>2, FreeIsPublished, Zenon DEF Published
  <1>2. Flight(t) \in SUBSET Window
    BY <1>1, Zenon
  <1>3. IsFiniteSet(Window) /\ Cardinality(Window) = Capacity
    <2>1. /\ tail \in Int /\ tail + Capacity - 1 \in Int /\ ~(tail > tail + Capacity - 1)
          /\ (tail + Capacity - 1) - tail + 1 = Capacity
      BY SizesAssumption DEF MemInv, MemTypes
    <2> QED
      BY <2>1, CountOfRange, Zenon DEF Window
  <1> QED
    BY <1>2, <1>3, CountOfPart, Zenon

LEMMA OwnersSubmit ==
  ASSUME Counting, MemInv, MemInv', OwnerTyped, LinesInv, OwnersInv, FromKept, NEW t \in Threads, Submit(t)
  PROVE  OwnersInv'
  <1>1. PICK o \in (IF owner[t] # NONE THEN {owner[t]} ELSE Free) :
           /\ at[t] = "idle" /\ at' = [at EXCEPT ![t] = "reserve"]
           /\ UNCHANGED <<seq, slot, head, tail, pos, logger>>
           /\ owner' = [owner EXCEPT ![t] = o]
           /\ out' = [out EXCEPT ![o] = Reclaimed(o) + 1]
           /\ ret' = [ret EXCEPT ![o] = 0]
    BY Zenon DEF Submit, Goes, ringVars, flagVars, logVars
  <1>2. /\ at \in [Threads -> ThreadPlaces] /\ owner \in [Threads -> Owners \union {NONE}] /\ tail \in Nat
        /\ out \in [Owners -> 0..(Capacity + 1)] /\ ret \in [Owners -> Nat] /\ NONE \notin Owners /\ Capacity \in Nat
    BY SizesAssumption, NoneAssumption DEF MemInv, MemTypes, OwnersInv, OwnerTyped
  <1>3. /\ o \in Owners /\ (owner[t] # NONE => o = owner[t])
        /\ \A u \in Threads : owner[u] = o => u = t
    BY <1>1, <1>2, Zenon DEF Free, OwnersInv
  <1>4. out[o] = ret[o] + Cardinality(Flight(t)) /\ Cardinality(Flight(t)) \in 0..Capacity
    <2>1. Cardinality(Flight(t)) \in Nat /\ Cardinality(Flight(t)) <= Capacity
      BY <1>1, FlightFinite, FlightFits, Zenon DEF Holding
    <2>2. OutTrue(t) /\ One(at[t] = "reserve") = 0
      BY <1>1, Zenon DEF OwnersInv, One
    <2>3. CASE owner[t] # NONE
      <3>1. out[o] = ret[o] + Cardinality(Flight(t)) + 0
        BY <1>3, <2>2, <2>3, Zenon DEF OutTrue
      <3> QED
        BY <1>2, <1>3, <2>1, <3>1
    <2>4. CASE owner[t] = NONE
      <3>1. Cardinality(Flight(t)) = 0
        BY <2>2, <2>4, CountOfNone, Zenon DEF OutTrue
      <3>2. out[o] = 0 /\ ret[o] = 0
        BY <1>1, <1>3, <2>4, Zenon DEF Free, OwnersInv
      <3> QED
        BY <2>1, <3>1, <3>2
    <2> QED
      BY <2>3, <2>4, Zenon
  <1>5. /\ out' \in [Owners -> 0..(Capacity + 1)] /\ ret' \in [Owners -> Nat]
        /\ out'[o] = Cardinality(Flight(t)) + 1 /\ ret'[o] = 0
        /\ \A q \in Owners : q # o => out'[q] = out[q] /\ ret'[q] = ret[q]
    <2>1. Reclaimed(o) = Cardinality(Flight(t))
      BY <1>2, <1>3, <1>4 DEF Reclaimed
    <2> QED
      BY <1>1, <1>2, <1>3, <1>4, <2>1
  <1>6. owner'[t] = o /\ \A u \in Threads : u # t => owner'[u] = owner[u] /\ owner[u] # o
    BY <1>1, <1>2, <1>3, Zenon
  <1>7. Size' = Size /\ Window' = Window
    BY <1>1, Zenon DEF Size, Window
  <1>8. ASSUME NEW u \in Threads PROVE Flight(u)' = Flight(u)
    <2>1. \A p \in Size..(head - 1) : p \in 0..(head - 1)
      BY FlightFinite
    <2> QED
      BY <1>1, <1>7, <2>1, Zenon DEF FromKept, Flight
  <1>9. ASSUME NEW u \in Threads PROVE OutTrue(u)'
    <2>1. CASE u = t
      <3>1. owner'[u] = o /\ o # NONE /\ One(at[u] = "reserve")' = 1 /\ Flight(u)' = Flight(t)
        BY <1>1, <1>2, <1>3, <1>6, <1>8, <2>1, Zenon DEF One
      <3>2. out'[o] = ret'[o] + Cardinality(Flight(t)) + 1
        BY <1>4, <1>5
      <3> QED
        BY <3>1, <3>2, Zenon DEF OutTrue
    <2>2. CASE u # t
      <3>1. /\ owner'[u] = owner[u] /\ One(at[u] = "reserve")' = One(at[u] = "reserve") /\ Flight(u)' = Flight(u)
            /\ (owner[u] # NONE => out'[owner[u]] = out[owner[u]] /\ ret'[owner[u]] = ret[owner[u]])
        BY <1>1, <1>2, <1>5, <1>6, <1>8, <2>2, Zenon DEF One
      <3> QED
        BY <3>1 DEF OutTrue, OwnersInv
    <2> QED
      BY <2>1, <2>2, Zenon
  <1>10. \A u, v \in Threads : owner'[u] # NONE /\ owner'[v] = owner'[u] => v = u
    BY <1>6, Zenon DEF OwnersInv
  <1>11. \A q \in Owners : (\A u \in Threads : owner'[u] # q) => out'[q] = 0 /\ ret'[q] = 0
    <2>1. ASSUME NEW q \in Owners, \A u \in Threads : owner'[u] # q PROVE q # o /\ \A u \in Threads : owner[u] # q
      BY <1>2, <1>3, <1>6, <2>1, Zenon
    <2> QED
      BY <1>5, <2>1, Zenon DEF OwnersInv
  <1>12. ASSUME NEW p \in Nat, Published(p)', p >= Size'
         PROVE  slot'[At(p)].owner = owner'[slot'[At(p)].line.thread]
    <2>1. Published(p) /\ p >= Size
      BY <1>1, <1>7, <1>12, Zenon DEF Published
    <2>2. /\ p \in 0..(head - 1) /\ slot[At(p)] \in Records /\ slot[At(p)].line.thread \in Threads
          /\ From(p, slot[At(p)].line.thread)
      BY <2>1, PublishedFrom, LineFields, Zenon
    <2>3. slot[At(p)].owner = owner[slot[At(p)].line.thread] /\ slot[At(p)].owner \in Owners
      BY <2>1, <2>2, Zenon DEF OwnersInv, SlotOwnerTrue, Records
    <2>4. slot[At(p)].line.thread = t => owner[t] # NONE
      BY <1>2, <2>3, Zenon
    <2> QED
      BY <1>1, <1>3, <1>6, <2>2, <2>3, <2>4, Zenon
  <1>13. \A u \in Threads : at'[u] = "publish" => slot'[At(pos'[u])].owner = owner'[u]
    <2>1. \A u \in Threads : at'[u] = "publish" => u # t /\ at[u] = "publish"
      BY <1>1, <1>2, Zenon
    <2> QED
      BY <1>1, <1>6, <2>1, Zenon DEF OwnersInv, SlotOwnerTrue
  <1> QED
    BY <1>5, <1>9, <1>10, <1>11, <1>12, <1>13, Zenon DEF OwnersInv, SlotOwnerTrue

LEMMA OwnersLeft ==
  ASSUME Counting, MemInv, MemInv', OwnerTyped, LinesInv, OwnersInv, FromKept, NEW t \in Threads, Left(t)
  PROVE  OwnersInv'
  <1>0. owner[t] \in Owners
    BY Zenon DEF Left, OwnerTyped
  <1>1. PICK o \in Owners :
           /\ o = owner[t] /\ at[t] = "leaving" /\ at' = [at EXCEPT ![t] = "idle"] /\ AllBack(o)
           /\ UNCHANGED <<seq, slot, head, tail, pos, logger>>
           /\ owner' = [owner EXCEPT ![t] = NONE]
           /\ out' = [out EXCEPT ![o] = 0]
           /\ ret' = [ret EXCEPT ![o] = 0]
    BY <1>0, Zenon DEF Left, Goes, ringVars, flagVars, logVars
  <1>2. /\ at \in [Threads -> ThreadPlaces] /\ owner \in [Threads -> Owners \union {NONE}]
        /\ out \in [Owners -> 0..(Capacity + 1)] /\ ret \in [Owners -> Nat] /\ NONE \notin Owners /\ Capacity \in Nat
    BY SizesAssumption, NoneAssumption, Zenon DEF MemInv, MemTypes, OwnersInv, OwnerTyped
  <1>3. \A u \in Threads : owner[u] = o => u = t
    BY <1>1, <1>2, Zenon DEF OwnersInv
  <1>4. Flight(t) = {}
    <2>1. /\ IsFiniteSet(Flight(t)) /\ Cardinality(Flight(t)) \in Nat
          /\ out[o] = ret[o] + Cardinality(Flight(t)) + 0
      <3>1. OutTrue(t) /\ One(at[t] = "reserve") = 0 /\ owner[t] # NONE
        BY <1>1, <1>2, Zenon DEF OwnersInv, One
      <3> QED
        BY <1>1, <3>1, FlightFinite, Zenon DEF OutTrue
    <2>2. out[o] - ret[o] = 0 /\ out[o] \in Nat /\ ret[o] \in Nat
      BY <1>1, <1>2 DEF AllBack, Reclaimed
    <2>3. Cardinality(Flight(t)) = 0
      BY <2>1, <2>2
    <2> QED
      BY <2>1, <2>3, CountOfNone, Zenon
  <1>5. /\ out' \in [Owners -> 0..(Capacity + 1)] /\ ret' \in [Owners -> Nat]
        /\ out'[o] = 0 /\ ret'[o] = 0
        /\ \A q \in Owners : q # o => out'[q] = out[q] /\ ret'[q] = ret[q]
    BY <1>1, <1>2
  <1>6. owner'[t] = NONE /\ \A u \in Threads : u # t => owner'[u] = owner[u] /\ owner[u] # o
    BY <1>1, <1>2, <1>3, Zenon
  <1>7. Size' = Size /\ Window' = Window
    BY <1>1, Zenon DEF Size, Window
  <1>8. ASSUME NEW u \in Threads PROVE Flight(u)' = Flight(u)
    <2>1. \A p \in Size..(head - 1) : p \in 0..(head - 1)
      BY FlightFinite
    <2> QED
      BY <1>1, <1>7, <2>1, Zenon DEF FromKept, Flight
  <1>9. ASSUME NEW u \in Threads PROVE OutTrue(u)'
    <2>1. CASE u = t
      BY <1>4, <1>6, <1>8, <2>1, Zenon DEF OutTrue
    <2>2. CASE u # t
      <3>1. /\ owner'[u] = owner[u] /\ One(at[u] = "reserve")' = One(at[u] = "reserve") /\ Flight(u)' = Flight(u)
            /\ (owner[u] # NONE => out'[owner[u]] = out[owner[u]] /\ ret'[owner[u]] = ret[owner[u]])
        BY <1>1, <1>2, <1>5, <1>6, <1>8, <2>2, Zenon DEF One
      <3> QED
        BY <3>1 DEF OutTrue, OwnersInv
    <2> QED
      BY <2>1, <2>2, Zenon
  <1>10. \A u, v \in Threads : owner'[u] # NONE /\ owner'[v] = owner'[u] => v = u
    BY <1>6, Zenon DEF OwnersInv
  <1>11. \A q \in Owners : (\A u \in Threads : owner'[u] # q) => out'[q] = 0 /\ ret'[q] = 0
    <2>1. ASSUME NEW q \in Owners, \A u \in Threads : owner'[u] # q, q # o
          PROVE  \A u \in Threads : owner[u] # q
      BY <1>1, <1>6, <2>1, Zenon
    <2> QED
      BY <1>5, <2>1, Zenon DEF OwnersInv
  <1>12. ASSUME NEW p \in Nat, Published(p)', p >= Size'
         PROVE  slot'[At(p)].owner = owner'[slot'[At(p)].line.thread]
    <2>1. Published(p) /\ p >= Size
      BY <1>1, <1>7, <1>12, Zenon DEF Published
    <2>2. /\ p \in 0..(head - 1) /\ slot[At(p)].line.thread \in Threads
          /\ From(p, slot[At(p)].line.thread)
      BY <2>1, PublishedFrom, LineFields, Zenon
    <2>3. p \in Flight(slot[At(p)].line.thread)
      BY <2>1, <2>2, FlightFinite DEF Flight
    <2> QED
      BY <1>1, <1>4, <1>6, <2>1, <2>2, <2>3, Zenon DEF OwnersInv, SlotOwnerTrue
  <1>13. \A u \in Threads : at'[u] = "publish" => slot'[At(pos'[u])].owner = owner'[u]
    <2>1. \A u \in Threads : at'[u] = "publish" => u # t /\ at[u] = "publish"
      BY <1>1, <1>2, Zenon
    <2> QED
      BY <1>1, <1>6, <2>1, Zenon DEF OwnersInv, SlotOwnerTrue
  <1> QED
    BY <1>5, <1>9, <1>10, <1>11, <1>12, <1>13, Zenon DEF OwnersInv, SlotOwnerTrue

LEMMA OwnersReserve ==
  ASSUME Counting, MemInv, MemInv', OwnerTyped, LinesInv, OwnersInv, FromKept, NEW t \in Threads, Reserve(t)
  PROVE  OwnersInv'
  <1>1. /\ at[t] = "reserve" /\ at' = [at EXCEPT ![t] = "check"]
        /\ pos' = [pos EXCEPT ![t] = head] /\ head' = head + 1
        /\ UNCHANGED <<seq, slot, tail, logger, owner, out, ret>>
    BY Zenon DEF Reserve, Goes, logVars, ownerVars
  <1>2. at \in [Threads -> ThreadPlaces] /\ pos \in [Threads -> Nat] /\ head \in Nat /\ tail \in 0..head
    BY Zenon DEF MemInv, MemTypes
  <1>3. Size' = Size /\ Size \in 0..head /\ Window' = Window
    <2>1. logger = "done" => tail < head
      <3>1. logger = "done" => seq[At(tail)] = tail + 1 /\ TicketTrue(tail) /\ tail \in Window
        BY <1>2, SizesAssumption DEF MemInv, LoggerTrue, Window
      <3> QED
        BY <3>1, Zenon DEF TicketTrue
    <2> QED
      BY <1>1, <1>2, <2>1 DEF Size, Window
  <1>4. PICK h \in Nat : h = head
    BY <1>2, Zenon
  <1>5. \A u : From(h, u)' <=> u = t
    BY <1>4, LinesReserve, Zenon
  <1>6. /\ Flight(t)' = Flight(t) \union {h}
        /\ \A u \in Threads : u # t => Flight(u)' = Flight(u)
    <2>1. Size'..(head' - 1) = (Size..(head - 1)) \union {h} /\ \A p \in Size..(head - 1) : p \in 0..(head - 1)
      BY <1>1, <1>2, <1>3, <1>4
    <2>2. ASSUME NEW u PROVE Flight(u)' = {p \in (Size..(head - 1)) \union {h} : From(p, u)'}
      BY <2>1, Zenon DEF Flight
    <2> QED
      BY <1>5, <2>1, <2>2, Zenon DEF FromKept, Flight
  <1>7. Cardinality(Flight(t) \union {h}) = Cardinality(Flight(t)) + 1 /\ Cardinality(Flight(t)) \in Nat
    <2>1. h \notin Flight(t)
      BY <1>2, <1>3, <1>4 DEF Flight
    <2> QED
      BY <2>1, FlightFinite, CountAdding, Zenon
  <1>8. ASSUME NEW u \in Threads PROVE OutTrue(u)'
    <2>1. CASE u = t
      <3>1. One(at[u] = "reserve") = 1 /\ One(at[u] = "reserve")' = 0 /\ Flight(u)' = Flight(t) \union {h} /\ owner'[u] = owner[t]
        BY <1>1, <1>2, <1>6, <2>1, Zenon DEF One
      <3>2. owner[t] # NONE /\ owner[t] \in Owners
        BY <1>1, NoneAssumption, Zenon DEF OwnerTyped
      <3>3. out[owner[t]] = ret[owner[t]] + Cardinality(Flight(t)) + 1
        BY <2>1, <3>1, <3>2, Zenon DEF OwnersInv, OutTrue
      <3>4. ret[owner[t]] \in Nat
        BY <3>2, Zenon DEF OwnersInv
      <3>5. Cardinality(Flight(u)') = Cardinality(Flight(t)) + 1
        BY <1>7, <3>1, Zenon
      <3> QED
        BY <1>1, <1>7, <2>1, <3>1, <3>2, <3>3, <3>4, <3>5 DEF OutTrue
    <2>2. CASE u # t
      <3>1. One(at[u] = "reserve")' = One(at[u] = "reserve") /\ Flight(u)' = Flight(u)
        BY <1>1, <1>2, <1>6, <2>2, Zenon DEF One
      <3> QED
        BY <1>1, <3>1, Zenon DEF OutTrue, OwnersInv
    <2> QED
      BY <2>1, <2>2, Zenon
  <1>9. SlotOwnerTrue'
    <2>1. \A u \in Threads : at'[u] = "publish" => at[u] = "publish" /\ pos'[u] = pos[u]
      BY <1>1, <1>2, Zenon
    <2> QED
      BY <1>1, <1>3, <2>1, Zenon DEF OwnersInv, SlotOwnerTrue, Published
  <1> QED
    BY <1>1, <1>8, <1>9, Zenon DEF OwnersInv

\* Steps of a thread with its slot: what is out and for whom stays.
LEMMA OwnersSame ==
  ASSUME Counting, MemInv, OwnersInv, FromKept, head' = head, Size' = Size, owner' = owner, out' = out, ret' = ret,
         \A t \in Threads : at'[t] = "reserve" <=> at[t] = "reserve",
         SlotOwnerTrue'
  PROVE  OwnersInv'
  <1>1. ASSUME NEW t \in Threads
        PROVE  Flight(t)' = Flight(t) /\ One(at[t] = "reserve")' = One(at[t] = "reserve")
    <2>1. \A p \in Size..(head - 1) : p \in 0..(head - 1)
      BY FlightFinite
    <2>2. Flight(t)' = Flight(t)
      BY <2>1, Zenon DEF FromKept, Flight
    <2> QED
      BY <2>2, Zenon DEF One
  <1>2. \A t \in Threads : OutTrue(t)'
    BY <1>1, Zenon DEF OwnersInv, OutTrue
  <1> QED
    BY <1>2, Zenon DEF OwnersInv

LEMMA OwnersWrite ==
  ASSUME Counting, MemInv, MemInv', OwnerTyped, LinesInv, OwnersInv, FromKept, NEW t \in Threads, Write(t)
  PROVE  OwnersInv'
  <1>1. /\ at[t] = "write" /\ at' = [at EXCEPT ![t] = "publish"]
        /\ slot' = [slot EXCEPT ![At(pos[t])] = [line |-> Mine(t), owner |-> owner[t]]]
        /\ UNCHANGED <<seq, head, tail, pos, logger, owner, out, ret>>
    BY Zenon DEF Write, Goes, logVars, ownerVars
  <1>2. /\ slot \in [Index -> Records \union {NONE}] /\ at \in [Threads -> ThreadPlaces]
        /\ pos[t] \in Nat /\ pos[t] >= tail /\ seq[At(pos[t])] = pos[t] /\ tail \in Nat
        /\ At(pos[t]) \in Index
    <2>1. Holding(t) /\ HolderTrue(t) /\ pos[t] \in Nat /\ tail \in Nat
      BY <1>1 DEF MemInv, MemTypes, Holding
    <2>2. At(pos[t]) \in Index
      BY <2>1, Modular, Zenon
    <2> QED
      BY <1>1, <2>1, <2>2 DEF MemInv, MemTypes, LinesInv, HolderTrue
  <1>3. pos[t] \in Window /\ Window' = Window /\ Size' = Size
    BY <1>1, <1>2, NotBeyond, Zenon DEF Window, Size
  <1>4. slot'[At(pos[t])].owner = owner[t] /\ \A i \in Index : i # At(pos[t]) => slot'[i] = slot[i]
    BY <1>1, <1>2, Zenon
  <1>5. \A p \in Nat : Published(p)' => Published(p) /\ slot'[At(p)] = slot[At(p)]
    <2>1. ASSUME NEW p \in Nat, Published(p)' PROVE Published(p) /\ p # pos[t] /\ p \in Window /\ At(p) \in Index
      BY <1>1, <1>2, <1>3, <2>1, Modular DEF Published
    <2>2. ASSUME NEW p \in Nat, Published(p)' PROVE At(p) # At(pos[t])
      BY <1>3, <2>1, <2>2, Zenon DEF MemInv, WindowTrue
    <2> QED
      BY <1>4, <2>1, <2>2, Zenon
  <1>6. ASSUME NEW u \in Threads, at'[u] = "publish"
         PROVE  slot'[At(pos'[u])].owner = owner'[u]
    <2>1. CASE u = t
      BY <1>1, <1>4, <2>1, Zenon
    <2>2. CASE u # t
      <3>1. at[u] = "publish" /\ Holding(u) /\ pos[u] \in Nat /\ pos[u] # pos[t] /\ seq[At(pos[u])] = pos[u] /\ pos[u] >= tail
        BY <1>1, <1>2, <1>6, <2>2 DEF MemInv, MemTypes, HolderTrue, Holding
      <3>2. pos[u] \in Window
        BY <3>1, NotBeyond, Zenon
      <3>3. At(pos[u]) # At(pos[t]) /\ At(pos[u]) \in Index
        BY <1>3, <3>1, <3>2, Modular, Zenon DEF MemInv, WindowTrue
      <3> QED
        BY <1>1, <1>4, <3>1, <3>3, Zenon DEF OwnersInv, SlotOwnerTrue
    <2> QED
      BY <2>1, <2>2, Zenon
  <1>7. SlotOwnerTrue'
    BY <1>1, <1>3, <1>5, <1>6, Zenon DEF OwnersInv, SlotOwnerTrue
  <1>8. \A u \in Threads : at'[u] = "reserve" <=> at[u] = "reserve"
    BY <1>1, <1>2, Zenon
  <1> QED
    BY <1>1, <1>3, <1>7, <1>8, OwnersSame, Zenon

LEMMA OwnersPublish ==
  ASSUME Counting, MemInv, LinesInv, OwnersInv, FromKept, NEW t \in Threads, Publish(t)
  PROVE  OwnersInv'
  <1>1. /\ at[t] = "publish" /\ at' = [at EXCEPT ![t] = "wake"]
        /\ seq' = [seq EXCEPT ![At(pos[t])] = pos[t] + 1]
        /\ UNCHANGED <<slot, head, tail, pos, logger, owner, out, ret>>
    BY Zenon DEF Publish, Goes, logVars, ownerVars
  <1>2. /\ at \in [Threads -> ThreadPlaces] /\ seq \in [Index -> Nat]
        /\ pos[t] \in Nat /\ At(pos[t]) \in Index /\ \A p \in Nat : At(p) \in Index
    BY <1>1, Modular, Zenon DEF MemInv, MemTypes
  <1>3. Size' = Size /\ Window' = Window
    BY <1>1, Zenon DEF Size, Window
  <1>4. slot[At(pos[t])].owner = owner[t] /\ slot[At(pos[t])].line.thread = t
    BY <1>1, LineFields DEF OwnersInv, SlotOwnerTrue, LinesInv, Mine
  <1>5. ASSUME NEW p \in Nat, Published(p)', p >= Size
        PROVE  slot'[At(p)].owner = owner'[slot'[At(p)].line.thread]
    <2>1. CASE At(p) = At(pos[t])
      BY <1>1, <1>4, <2>1, Zenon
    <2>2. CASE At(p) # At(pos[t])
      BY <1>1, <1>2, <1>3, <1>5, <2>2, Zenon DEF Published, OwnersInv, SlotOwnerTrue
    <2> QED
      BY <2>1, <2>2, Zenon
  <1>6. \A u \in Threads : (at'[u] = "publish" => at[u] = "publish") /\ (at'[u] = "reserve" <=> at[u] = "reserve")
    BY <1>1, <1>2, Zenon
  <1>7. SlotOwnerTrue'
    BY <1>1, <1>3, <1>5, <1>6, Zenon DEF OwnersInv, SlotOwnerTrue
  <1> QED
    BY <1>1, <1>3, <1>6, <1>7, OwnersSame, Zenon

LEMMA OwnersWriteLine ==
  ASSUME Counting, MemInv, OwnerTyped, LinesInv, OwnersInv, FromKept, WriteLine
  PROVE  OwnersInv'
  <1>1. /\ logger = "line" /\ logger' = "done" /\ ret' = [ret EXCEPT ![slot[At(tail)].owner] = @ + 1]
        /\ UNCHANGED <<seq, slot, head, tail, at, pos, owner, out>>
    BY Zenon DEF WriteLine, Logger, ringVars, threadVars
  <1>2. /\ tail \in Nat /\ head \in Nat /\ Size = tail /\ Size' = tail + 1 /\ Window' = Window
        /\ ret \in [Owners -> Nat]
    BY <1>1 DEF MemInv, MemTypes, Size, Window, OwnersInv
  <1>3. Published(tail) /\ tail \in 0..(head - 1)
    BY <1>2, OneLineLeaves
  <1>4. /\ slot[At(tail)] \in Records /\ slot[At(tail)].line.thread \in Threads
        /\ \A u : From(tail, u) <=> u = slot[At(tail)].line.thread
    BY <1>2, <1>3, PublishedFrom, LineFields
  <1>5. PICK t \in Threads : t = slot[At(tail)].line.thread /\ \A u : From(tail, u) <=> u = t
    BY <1>4, Zenon
  <1>6. slot[At(tail)].owner = owner[t] /\ owner[t] \in Owners /\ owner[t] # NONE
    <2>1. slot[At(tail)].owner = owner[t]
      BY <1>2, <1>3, <1>5 DEF OwnersInv, SlotOwnerTrue
    <2>2. slot[At(tail)].owner \in Owners
      BY <1>4, Zenon DEF Records
    <2> QED
      BY <2>1, <2>2, NoneAssumption, Zenon
  <1>7. ret' \in [Owners -> Nat] /\ ret'[owner[t]] = ret[owner[t]] + 1 /\ \A o \in Owners : o # owner[t] => ret'[o] = ret[o]
    BY <1>1, <1>2, <1>6
  <1>8. Flight(t)' = Flight(t) \ {tail} /\ \A u \in Threads : u # t => Flight(u)' = Flight(u)
    <2>1. Size..(head - 1) = tail..(head - 1) /\ Size'..(head' - 1) = (tail..(head - 1)) \ {tail}
      BY <1>1, <1>2, <1>3
    <2>2. \A p \in tail..(head - 1) : p \in 0..(head - 1)
      BY <1>2
    <2>3. ASSUME NEW u PROVE Flight(u) = {p \in tail..(head - 1) : From(p, u)}
                             /\ Flight(u)' = {p \in (tail..(head - 1)) \ {tail} : From(p, u)'}
      BY <2>1, Zenon DEF Flight
    <2>4. ASSUME NEW u PROVE Flight(u)' = Flight(u) \ {tail}
      <3>1. \A p \in tail..(head - 1) : From(p, u)' <=> From(p, u)
        BY <2>2, Zenon DEF FromKept
      <3> QED
        BY <2>3, <3>1, Zenon
    <2>5. ASSUME NEW u \in Threads, u # t PROVE Flight(u) \ {tail} = Flight(u)
      <3>1. tail \notin Flight(u)
        BY <1>5, <2>3, <2>5, Zenon
      <3> QED
        BY <3>1, Zenon
    <2> QED
      BY <2>4, <2>5, Zenon
  <1>9. Cardinality(Flight(t) \ {tail}) = Cardinality(Flight(t)) - 1 /\ Cardinality(Flight(t)) \in Nat
    <2>1. tail \in Flight(t)
      BY <1>2, <1>3, <1>5 DEF Flight
    <2> QED
      BY <2>1, FlightFinite, CountRemoving, Zenon
  <1>10. ASSUME NEW u \in Threads PROVE OutTrue(u)'
    <2>0. One(at[u] = "reserve")' = One(at[u] = "reserve") /\ owner'[u] = owner[u] /\ out' = out /\ OutTrue(u)
      BY <1>1, Zenon DEF One, OwnersInv
    <2>1. CASE u = t
      <3>1. Cardinality(Flight(u)') = Cardinality(Flight(t)) - 1
        BY <1>8, <1>9, <2>1, Zenon
      <3>2. out[owner[t]] = ret[owner[t]] + Cardinality(Flight(t)) + One(at[t] = "reserve") /\ ret[owner[t]] \in Nat
        BY <1>2, <1>6, <2>0, <2>1, Zenon DEF OutTrue
      <3>3. out[owner[t]] = ret'[owner[t]] + Cardinality(Flight(u)') + One(at[t] = "reserve")
        BY <1>7, <1>9, <3>1, <3>2 DEF One
      <3> QED
        BY <1>6, <2>0, <2>1, <3>3, Zenon DEF OutTrue
    <2>2. CASE u # t
      <3>1. owner[u] # NONE => owner[u] # owner[t] /\ owner[u] \in Owners
        BY <2>2, Zenon DEF OwnersInv, OwnerTyped
      <3> QED
        BY <1>7, <1>8, <2>0, <2>2, <3>1, Zenon DEF OutTrue
    <2> QED
      BY <2>1, <2>2, Zenon
  <1>11. SlotOwnerTrue'
    <2>1. \A p \in Nat : Published(p)' /\ p >= Size' => Published(p) /\ p >= Size
      BY <1>1, <1>2 DEF Published
    <2> QED
      BY <1>1, <2>1, Zenon DEF OwnersInv, SlotOwnerTrue
  <1>12. \A o \in Owners : (\A u \in Threads : owner'[u] # o) => out'[o] = 0 /\ ret'[o] = 0
    BY <1>1, <1>7, Zenon DEF OwnersInv
  <1> QED
    BY <1>1, <1>7, <1>10, <1>11, <1>12, Zenon DEF OwnersInv

LEMMA OwnersStep ==
  ASSUME Counting, MemInv, MemInv', OwnerTyped, LinesInv, OwnersInv, FromKept, [Next]_vars
  PROVE  OwnersInv'
  <1> USE DEF ringVars, flagVars, threadVars, logVars, ownerVars
  <1>0. at \in [Threads -> ThreadPlaces] /\ tail \in Nat /\ tail >= tail
    BY DEF MemInv, MemTypes
  <1>1. ASSUME UNCHANGED <<head, pos, slot, owner, out, ret>>, tail' >= tail, Size' = Size,
               at' = at
                  \/ (\E t \in Threads, w \in {"blocked", "asleep", "unblocked", "write"} :
                       at[t] \in {"check", "blocked", "asleep", "unblocked"} /\ at' = [at EXCEPT ![t] = w])
                  \/ (\E t \in Threads, w \in {"signal", "idle", "leaving"} :
                       at[t] \in {"idle", "wake", "signal"} /\ at' = [at EXCEPT ![t] = w])
                  \/ at' = [t \in Threads |-> IF at[t] = "asleep" THEN "blocked" ELSE at[t]]
        PROVE  OwnersInv'
    <2>1. /\ \A t \in Threads : Holding(t)' <=> Holding(t)
          /\ \A t \in Threads : at'[t] = "publish" => at[t] = "publish"
          /\ \A t \in Threads : at'[t] = "reserve" <=> at[t] = "reserve"
      BY <1>0, <1>1, Zenon DEF Holding
    <2> QED
      BY <1>1, <2>1, OwnersQuiet, Zenon
  <1>2. ASSUME NEW t \in Threads,
               Submit(t) \/ Left(t) \/ Reserve(t) \/ Write(t) \/ Publish(t)
        PROVE  OwnersInv'
    BY <1>2, OwnersSubmit, OwnersLeft, OwnersReserve, OwnersWrite, OwnersPublish, Zenon
  <1>3. ASSUME NEW t \in Threads, Check(t) \/ Blocked(t) \/ Unblocked(t) \/ WokenForNothing(t)
        PROVE  OwnersInv'
    <2>1. /\ UNCHANGED <<head, pos, slot, tail, owner, out, ret>>
          /\ logger' = logger \/ (logger = "asleep" /\ logger' = "relock")
      BY <1>3, Zenon DEF Check, Blocked, Unblocked, WokenForNothing, SignalsNotEmpty
    <2>2. \E w \in {"blocked", "asleep", "unblocked", "write"} :
             at[t] \in {"check", "blocked", "asleep", "unblocked"} /\ at' = [at EXCEPT ![t] = w]
      BY <1>3, Zenon DEF Check, Blocked, Unblocked, WokenForNothing, Goes
    <2>3. Size' = Size
      BY <2>1, Zenon DEF Size
    <2> QED
      BY <1>0, <1>1, <2>1, <2>2, <2>3, Zenon
  <1>4. ASSUME NEW t \in Threads, Wake(t) \/ Signal(t) \/ Leave(t)
        PROVE  OwnersInv'
    <2>1. /\ UNCHANGED <<head, pos, slot, tail, owner, out, ret>>
          /\ logger' = logger \/ (logger = "asleep" /\ logger' = "relock")
      BY <1>4, Zenon DEF Wake, Signal, Leave, SignalsNotEmpty
    <2>2. \E w \in {"signal", "idle", "leaving"} :
             at[t] \in {"idle", "wake", "signal"} /\ at' = [at EXCEPT ![t] = w]
      BY <1>4, Zenon DEF Wake, Signal, Leave, Goes
    <2>3. Size' = Size
      BY <2>1, Zenon DEF Size
    <2> QED
      BY <1>0, <1>1, <2>1, <2>2, <2>3, Zenon
  <1>5. CASE Take \/ StillEmpty \/ Lock \/ Look \/ Sleep \/ LoggerWokenForNothing \/ Relock \/ Unlock
    <2>1. UNCHANGED <<head, pos, slot, tail, at, owner, out, ret>> /\ logger # "done" /\ logger' # "done"
      BY <1>5, Zenon DEF Take, StillEmpty, Lock, Look, Sleep, LoggerWokenForNothing, Relock, Unlock, Logger
    <2>2. Size' = Size
      BY <2>1, Zenon DEF Size
    <2> QED
      BY <1>0, <1>1, <2>1, <2>2, Zenon
  <1>6. CASE Commit \/ Waiters \/ Broadcast
    <2>1. UNCHANGED <<head, pos, slot, tail, owner, out, ret>> /\ logger # "done" /\ logger' # "done"
      BY <1>6, Zenon DEF Commit, Waiters, Broadcast, Logger
    <2>2. at' = at \/ at' = [t \in Threads |-> IF at[t] = "asleep" THEN "blocked" ELSE at[t]]
      BY <1>6, Zenon DEF Commit, Waiters, Broadcast
    <2>3. Size' = Size
      BY <2>1, Zenon DEF Size
    <2> QED
      BY <1>0, <1>1, <2>1, <2>2, <2>3, Zenon
  <1>7. CASE Done
    <2>1. /\ UNCHANGED <<head, pos, slot, at, owner, out, ret>> /\ logger = "done" /\ logger' = "waiters"
          /\ tail' = tail + 1
      BY <1>7, Zenon DEF Done, Logger
    <2>2. Size' = Size /\ tail' >= tail
      BY <1>0, <2>1 DEF Size
    <2> QED
      BY <1>1, <2>1, <2>2, Zenon
  <1>8. CASE StoreLands \/ Stop \/ StopWakes \/ UNCHANGED vars
    <2>1. /\ UNCHANGED <<head, pos, slot, tail, at, owner, out, ret>>
          /\ logger' = logger \/ (logger = "asleep" /\ logger' = "relock")
      BY <1>8, Zenon DEF StoreLands, Stop, StopWakes, SignalsNotEmpty, vars
    <2>2. Size' = Size
      BY <2>1, Zenon DEF Size
    <2> QED
      BY <1>0, <1>1, <2>1, <2>2, Zenon
  <1>9. CASE WriteLine
    BY <1>9, OwnersWriteLine, Zenon
  <1> QED
    BY <1>2, <1>3, <1>4, <1>5, <1>6, <1>7, <1>8, <1>9, Zenon
    DEF Next, ThreadSteps, LoggerSteps

-----------------------------------------------------------------------------
(* The counters.                                                             *)

WaitingPlaces == {"blocked", "asleep", "unblocked"}
WaitingThreads == {t \in Threads : at[t] \in WaitingPlaces}
Reserving == {t \in Threads : at[t] = "reserve"}

CountInv ==
    /\ waiting \in BOOLEAN /\ locked \in BOOLEAN /\ delays \in Machines /\ stop \in {"no", "told", "woken"}
    /\ waiters = Cardinality(WaitingThreads)
    /\ head + Cardinality(Reserving) <= MaxLines
    /\ pos \in [Threads -> 0..MaxLines]

LEMMA ThreadsFinite ==
  ASSUME Counting
  PROVE
  /\ IsFiniteSet(WaitingThreads) /\ Cardinality(WaitingThreads) \in Nat
  /\ IsFiniteSet(Reserving) /\ Cardinality(Reserving) \in Nat
  <1>1. WaitingThreads \in SUBSET Threads /\ Reserving \in SUBSET Threads
    BY Zenon DEF WaitingThreads, Reserving
  <1>2. IsFiniteSet(WaitingThreads) /\ IsFiniteSet(Reserving)
    BY <1>1, NoneAssumption, CountOfPart, Zenon
  <1> QED
    BY <1>2, CountIsNat, Zenon

LEMMA CountInit ==
  ASSUME Counting
  PROVE  Init => CountInv
  <1> SUFFICES ASSUME Init PROVE CountInv
    BY Zenon
  <1>1. WaitingThreads = {} /\ Reserving = {}
    BY Zenon DEF Init, WaitingThreads, WaitingPlaces, Reserving
  <1>2. Cardinality(WaitingThreads) = 0 /\ Cardinality(Reserving) = 0
    BY <1>1, CountOfNone, Zenon
  <1> QED
    <2>1. head = 0 /\ waiters = 0 /\ MaxLines \in Nat /\ delays \in Machines /\ stop = "no"
      BY SizesAssumption, Zenon DEF Init
    <2>2. waiting \in BOOLEAN /\ locked \in BOOLEAN
      BY Zenon DEF Init
    <2>3. pos \in [Threads -> 0..MaxLines]
      BY <2>1 DEF Init
    <2> QED
      BY <1>2, <2>1, <2>2, <2>3 DEF CountInv

LEMMA CountStep ==
  ASSUME Counting, MemInv, CountInv, [Next]_vars
  PROVE  CountInv'
  <1> USE DEF ringVars, flagVars, threadVars, logVars, ownerVars
  <1>0. /\ at \in [Threads -> ThreadPlaces] /\ head \in Nat /\ MaxLines \in Nat /\ pos \in [Threads -> 0..MaxLines]
        /\ waiters = Cardinality(WaitingThreads) /\ waiting \in BOOLEAN /\ locked \in BOOLEAN
        /\ delays \in Machines /\ stop \in {"no", "told", "woken"} /\ head + Cardinality(Reserving) <= MaxLines
    BY SizesAssumption, Zenon DEF MemInv, MemTypes, CountInv
  <1>1. delays' = delays
    BY Zenon DEF Next, vars
  <1>2. ASSUME UNCHANGED <<head, pos, waiters>>, waiting' \in BOOLEAN, locked' \in BOOLEAN, stop' \in {"no", "told", "woken"},
               WaitingThreads' = WaitingThreads, Reserving' = Reserving
        PROVE  CountInv'
    BY <1>0, <1>1, <1>2, Zenon DEF CountInv
  <1>3. ASSUME NEW t \in Threads, Submit(t) PROVE CountInv'
    <2>1. /\ at' = [at EXCEPT ![t] = "reserve"] /\ at[t] = "idle" /\ head + Cardinality(Reserving) < MaxLines
          /\ UNCHANGED <<head, pos, waiters, waiting, locked, stop>>
      BY <1>3, Zenon DEF Submit, Goes, Reserving
    <2>2. WaitingThreads' = WaitingThreads /\ Reserving' = Reserving \union {t} /\ t \notin Reserving
      BY <1>0, <2>1, Zenon DEF WaitingThreads, WaitingPlaces, Reserving
    <2>3. Cardinality(Reserving') = Cardinality(Reserving) + 1
      BY <2>2, ThreadsFinite, CountAdding, Zenon
    <2> QED
      BY <1>0, <1>1, <2>1, <2>2, <2>3, ThreadsFinite DEF CountInv
  <1>4. ASSUME NEW t \in Threads, Reserve(t) PROVE CountInv'
    <2>1. /\ at' = [at EXCEPT ![t] = "check"] /\ at[t] = "reserve" /\ head' = head + 1
          /\ pos' = [pos EXCEPT ![t] = head] /\ UNCHANGED <<waiters, waiting, locked, stop>>
      BY <1>4, Zenon DEF Reserve, Goes
    <2>2. WaitingThreads' = WaitingThreads /\ Reserving' = Reserving \ {t} /\ t \in Reserving
      BY <1>0, <2>1, Zenon DEF WaitingThreads, WaitingPlaces, Reserving
    <2>3. Cardinality(Reserving') = Cardinality(Reserving) - 1
      BY <2>2, ThreadsFinite, CountRemoving, Zenon
    <2>4. Cardinality(Reserving) \in Nat /\ Cardinality(Reserving) # 0
      BY <2>2, ThreadsFinite, CountOfNone, Zenon
    <2>5. head \in 0..MaxLines /\ head' + Cardinality(Reserving') <= MaxLines
      BY <1>0, <2>1, <2>3, <2>4
    <2>6. pos' \in [Threads -> 0..MaxLines]
      BY <1>0, <2>1, <2>5, Zenon
    <2> QED
      BY <1>0, <1>1, <2>1, <2>2, <2>5, <2>6, Zenon DEF CountInv
  <1>5. ASSUME NEW t \in Threads, Check(t) PROVE CountInv'
    <2>1. at[t] = "check" /\ UNCHANGED <<head, pos, waiting, locked, stop>>
      BY <1>5, Zenon DEF Check
    <2>2. CASE at' = [at EXCEPT ![t] = "write"] /\ waiters' = waiters
      <3>1. WaitingThreads' = WaitingThreads /\ Reserving' = Reserving
        BY <1>0, <2>1, <2>2, Zenon DEF WaitingThreads, WaitingPlaces, Reserving
      <3> QED
        BY <1>0, <1>2, <2>1, <2>2, <3>1, Zenon
    <2>3. CASE at' = [at EXCEPT ![t] = "blocked"] /\ waiters' = waiters + 1
      <3>1. WaitingThreads' = WaitingThreads \union {t} /\ Reserving' = Reserving /\ t \notin WaitingThreads
        BY <1>0, <2>1, <2>3, Zenon DEF WaitingThreads, WaitingPlaces, Reserving
      <3>2. Cardinality(WaitingThreads') = Cardinality(WaitingThreads) + 1
        BY <3>1, ThreadsFinite, CountAdding, Zenon
      <3> QED
        BY <1>0, <1>1, <2>1, <2>3, <3>1, <3>2, Zenon DEF CountInv
    <2> QED
      BY <1>5, <2>2, <2>3, Zenon DEF Check, Goes
  <1>6. ASSUME NEW t \in Threads, Unblocked(t) PROVE CountInv'
    <2>1. /\ at' = [at EXCEPT ![t] = "write"] /\ at[t] = "unblocked" /\ waiters' = waiters - 1
          /\ UNCHANGED <<head, pos, waiting, locked, stop>>
      BY <1>6, Zenon DEF Unblocked, Goes, Uncounted
    <2>2. WaitingThreads' = WaitingThreads \ {t} /\ Reserving' = Reserving /\ t \in WaitingThreads
      BY <1>0, <2>1, Zenon DEF WaitingThreads, WaitingPlaces, Reserving
    <2>3. Cardinality(WaitingThreads') = Cardinality(WaitingThreads) - 1
      BY <2>2, ThreadsFinite, CountRemoving, Zenon
    <2> QED
      BY <1>0, <1>1, <2>1, <2>2, <2>3, Zenon DEF CountInv
  <1>7. ASSUME NEW t \in Threads, Blocked(t) \/ WokenForNothing(t) PROVE CountInv'
    <2>1. /\ at[t] \in {"blocked", "asleep"} /\ UNCHANGED <<head, pos, waiters, waiting, locked, stop>>
          /\ \E w \in {"blocked", "asleep", "unblocked"} : at' = [at EXCEPT ![t] = w]
      BY <1>7, Zenon DEF Blocked, WokenForNothing, Goes
    <2>2. WaitingThreads' = WaitingThreads /\ Reserving' = Reserving
      BY <1>0, <2>1, Zenon DEF WaitingThreads, WaitingPlaces, Reserving
    <2> QED
      BY <1>0, <1>2, <2>1, <2>2, Zenon
  <1>8. ASSUME NEW t \in Threads, Write(t) \/ Publish(t) \/ Wake(t) \/ Signal(t) \/ Left(t) \/ Leave(t)
        PROVE  CountInv'
    <2>1. UNCHANGED <<head, pos, waiters, waiting, locked, stop>>
      BY <1>8, Zenon DEF Write, Publish, Wake, Signal, Left, Leave
    <2>2. /\ at[t] \in {"write", "publish", "wake", "signal", "leaving", "idle"}
          /\ \E w \in {"publish", "wake", "signal", "idle", "leaving"} : at' = [at EXCEPT ![t] = w]
      BY <1>8, Zenon DEF Write, Publish, Wake, Signal, Left, Leave, Goes
    <2>3. WaitingThreads' = WaitingThreads /\ Reserving' = Reserving
      BY <1>0, <2>2, Zenon DEF WaitingThreads, WaitingPlaces, Reserving
    <2> QED
      BY <1>0, <1>2, <2>1, <2>3, Zenon
  <1>9. CASE Broadcast
    <2>1. /\ UNCHANGED <<head, pos, waiters, waiting, locked, stop>>
          /\ at' = [t \in Threads |-> IF at[t] = "asleep" THEN "blocked" ELSE at[t]]
      BY <1>9, Zenon DEF Broadcast
    <2>2. WaitingThreads' = WaitingThreads /\ Reserving' = Reserving
      BY <1>0, <2>1, Zenon DEF WaitingThreads, WaitingPlaces, Reserving
    <2> QED
      BY <1>0, <1>2, <2>1, <2>2, Zenon
  <1>10. CASE Lock \/ Look \/ Done \/ StoreLands
    <2>1. UNCHANGED <<head, pos, at, waiters, stop>> /\ locked' \in BOOLEAN
      BY <1>0, <1>10, Zenon DEF Lock, Look, Done, StoreLands
    <2>2. waiting' \in BOOLEAN
      BY <1>0, <1>10, Zenon DEF Lock, Look, Done, StoreLands, Stores, Applied
    <2>3. WaitingThreads' = WaitingThreads /\ Reserving' = Reserving
      BY <2>1, Zenon DEF WaitingThreads, Reserving
    <2> QED
      BY <1>0, <1>2, <2>1, <2>2, <2>3, Zenon
  <1>11. CASE Take \/ StillEmpty \/ Sleep \/ LoggerWokenForNothing \/ Relock \/ Unlock \/ Commit
    <2>1. UNCHANGED <<head, pos, at, waiters, stop, waiting>> /\ locked' \in BOOLEAN
      BY <1>0, <1>11, Zenon DEF Take, StillEmpty, Sleep, LoggerWokenForNothing, Relock, Unlock, Commit
    <2>3. WaitingThreads' = WaitingThreads /\ Reserving' = Reserving
      BY <2>1, Zenon DEF WaitingThreads, Reserving
    <2> QED
      BY <1>0, <1>2, <2>1, <2>3, Zenon
  <1>12. CASE WriteLine \/ Waiters \/ Stop \/ StopWakes \/ UNCHANGED vars
    <2>1. UNCHANGED <<head, pos, at, waiters, waiting, locked>> /\ stop' \in {"no", "told", "woken"}
      BY <1>0, <1>12, Zenon DEF WriteLine, Waiters, Stop, StopWakes, vars
    <2>3. WaitingThreads' = WaitingThreads /\ Reserving' = Reserving
      BY <2>1, Zenon DEF WaitingThreads, Reserving
    <2> QED
      BY <1>0, <1>2, <2>1, <2>3, Zenon
  <1> QED
    BY <1>3, <1>4, <1>5, <1>6, <1>7, <1>8, <1>9, <1>10, <1>11, <1>12, Zenon
    DEF Next, ThreadSteps, LoggerSteps

-----------------------------------------------------------------------------
(* What the invariants say of the ring.                                      *)

RingInv == MemInv /\ OwnerTyped /\ LinesInv /\ OwnersInv /\ CountInv

LEMMA OneHolder ==
  ASSUME MemInv
  PROVE  SlotHasOneHolder
  <1>0. tail \in Nat /\ Capacity \in Nat /\ Capacity >= 2 /\ tail \in Window
    BY SizesAssumption DEF MemInv, MemTypes, Window
  <1>1. ASSUME NEW t \in Threads, at[t] \in {"write", "publish"}
        PROVE  Holding(t) /\ seq[At(pos[t])] = pos[t] /\ pos[t] \in Window /\ pos[t] - tail < Capacity
    <2>1. HolderTrue(t) /\ Holding(t) /\ pos[t] \in Nat
      BY <1>1, Zenon DEF MemInv, MemTypes, Holding
    <2>2. seq[At(pos[t])] = pos[t] /\ pos[t] >= tail
      BY <1>1, <2>1 DEF HolderTrue
    <2>3. pos[t] \in Window
      BY <2>1, <2>2, NotBeyond, Zenon
    <2> QED
      BY <1>0, <2>1, <2>2, <2>3 DEF Window
  <1>2. ASSUME NEW t \in Threads, NEW u \in Threads \ {t},
               at[t] \in {"write", "publish"}, at[u] \in {"write", "publish"}
        PROVE  At(pos[u]) # At(pos[t])
    <2>1. Holding(t) /\ Holding(u) /\ pos[t] \in Window /\ pos[u] \in Window
      BY <1>1, <1>2, Zenon
    <2>2. pos[u] # pos[t]
      BY <2>1, Zenon DEF MemInv, HolderTrue
    <2> QED
      BY <2>1, <2>2, Zenon DEF MemInv, WindowTrue
  <1>3. ASSUME NEW t \in Threads, logger \in {"line", "done"}, at[t] \in {"write", "publish"}
        PROVE  At(pos[t]) # At(tail)
    <2>1. seq[At(tail)] = tail + 1 /\ seq[At(pos[t])] = pos[t] /\ pos[t] \in Window
      BY <1>1, <1>3, Zenon DEF MemInv, LoggerTrue
    <2>2. pos[t] # tail
      BY <1>0, <2>1
    <2> QED
      BY <1>0, <2>1, <2>2, Zenon DEF MemInv, WindowTrue
  <1> QED
    BY <1>1, <1>2, <1>3, Zenon DEF SlotHasOneHolder

\* The same set counted from one.
LEMMA Shifted ==
  ASSUME Counting, NEW n \in Nat, NEW S \in SUBSET (0..(n - 1)), NEW T \in SUBSET (1..n),
         \A q \in 0..(n - 1) : q \in S <=> q + 1 \in T
  PROVE  Cardinality(T) = Cardinality(S)
  <1> DEFINE f == [q \in S |-> q + 1]
  <1>1. \A j \in T : j - 1 \in S /\ (j - 1) + 1 = j
    BY DEF f
  <1>2. f \in [S -> T]
    BY Zenon
  <1>3. f \in Bijection(S, T)
    <2>1. f \in Injection(S, T)
      BY <1>2 DEF Injection, IsInjective
    <2>2. f \in Surjection(S, T)
      BY <1>1, <1>2, Zenon DEF Surjection
    <2> QED
      BY <2>1, <2>2, Zenon DEF Bijection
  <1>4. IsFiniteSet(S)
    <2>1. IsFiniteSet(0..(n - 1))
      BY CountOfRange
    <2> QED
      BY <2>1, CountOfPart, Zenon
  <1> QED
    BY <1>3, <1>4, CountOfSame, Zenon DEF ExistsBijection

LEMMA InOrder ==
  ASSUME Counting, MemInv, LinesInv
  PROVE  InOrderOfEachThread
  <1>0. /\ LeftTheRing \in Seq(Lines) /\ Len(LeftTheRing) = Size /\ Size \in Nat /\ head \in Nat /\ tail \in 0..head
    BY DEF LinesInv, LeftTheRing, MemInv, MemTypes, Size
  <1>1. Size <= head
    <2>1. logger = "done" => seq[At(tail)] = tail + 1 /\ TicketTrue(tail) /\ tail \in Window
      BY <1>0, SizesAssumption DEF MemInv, LoggerTrue, Window
    <2>2. logger = "done" => tail < head
      BY <2>1, Zenon DEF TicketTrue
    <2> QED
      BY <1>0, <2>2 DEF Size
  <1>2. ASSUME NEW p \in 0..(Size - 1) PROVE LeftTheRing[p + 1] \in Lines /\ \A l : Carries(p, l) <=> l = LeftTheRing[p + 1]
    <2>1. p < Size /\ ~(p >= Size) /\ p + 1 \in 1..Len(LeftTheRing)
      BY <1>0
    <2>2. ~\E t \in Threads : Holding(t) /\ pos[t] = p
      BY <2>1, HoldersLine, Zenon
    <2>3. LeftTheRing[p + 1] \in Lines
      BY <1>0, <2>1
    <2> QED
      BY <2>1, <2>2, <2>3, Zenon DEF Carries
  <1>3. ASSUME NEW p \in 0..(Size - 1) PROVE \A t : From(p, t) <=> LeftTheRing[p + 1].thread = t
    BY <1>2, LineFields DEF From
  <1>4. ASSUME NEW i \in DOMAIN LeftTheRing
        PROVE  LeftTheRing[i].n = Cardinality({j \in 1..i : LeftTheRing[j].thread = LeftTheRing[i].thread})
    <2>1. i \in 1..Size /\ i - 1 \in 0..(Size - 1) /\ i - 1 \in 0..(head - 1) /\ (i - 1) + 1 = i /\ i \in Nat
      BY <1>0, <1>1
    <2>2. PICK l \in Lines : Carries(i - 1, l) /\ l.n = Cardinality(Before((i - 1) + 1, l.thread))
      BY <2>1, Zenon DEF LinesInv
    <2>3. l = LeftTheRing[i]
      BY <1>2, <2>1, <2>2, Zenon
    <2>4. PICK S \in SUBSET (0..(i - 1)) : S = Before(i, l.thread)
      BY Zenon DEF Before
    <2>5. PICK T \in SUBSET (1..i) : T = {j \in 1..i : LeftTheRing[j].thread = LeftTheRing[i].thread}
      BY Zenon
    <2>6. ASSUME NEW q \in 0..(i - 1) PROVE q \in S <=> q + 1 \in T
      <3>1. q \in 0..(Size - 1) /\ q + 1 \in 1..i
        BY <1>0, <2>1
      <3>2. From(q, l.thread) <=> LeftTheRing[q + 1].thread = l.thread
        BY <1>3, <3>1, Zenon
      <3> QED
        BY <2>3, <2>4, <2>5, <3>1, <3>2, Zenon DEF Before
    <2>7. Cardinality(T) = Cardinality(S)
      BY <2>1, <2>6, Shifted, Zenon
    <2> QED
      BY <2>1, <2>2, <2>3, <2>4, <2>5, <2>7, Zenon
  <1> QED
    BY <1>4, Zenon DEF InOrderOfEachThread

LEMMA GoingHome ==
  ASSUME Counting, RingInv
  PROVE  ArenasGoHome
  <1> USE DEF RingInv
  <1>1. head \in 0..MaxLines
    <2>1. head \in Nat /\ MaxLines \in Nat /\ head + Cardinality(Reserving) <= MaxLines /\ Cardinality(Reserving) \in Nat
      BY ThreadsFinite, SizesAssumption, Zenon DEF MemInv, MemTypes, CountInv
    <2> QED
      BY <2>1
  <1>2. out \in [Owners -> Nat]
    <2>1. out \in [Owners -> 0..(Capacity + 1)] /\ Capacity \in Nat
      BY SizesAssumption, Zenon DEF OwnersInv
    <2> QED
      BY <2>1
  <1>3. TypeOK
    <2>1. waiters = Cardinality({t \in Threads : at[t] \in {"blocked", "asleep", "unblocked"}})
      BY Zenon DEF CountInv, WaitingThreads, WaitingPlaces
    <2> QED
      BY <1>1, <1>2, <2>1, Zenon
      DEF TypeOK, MemInv, MemTypes, LinesInv, OwnerTyped, OwnersInv, CountInv, ThreadPlaces, LoggerPlaces, Stored
  <1>4. ReturnsToItsOwner
    <2> SUFFICES ASSUME NEW p \in tail..(head - 1), seq[At(p)] = p + 1, ~(p = tail /\ logger = "done")
                 PROVE  owner[slot[At(p)].line.thread] = slot[At(p)].owner
      BY Zenon DEF ReturnsToItsOwner
    <2>1. tail \in Nat /\ head \in Nat /\ p \in Nat /\ p >= tail
      BY DEF MemInv, MemTypes
    <2>2. Published(p) /\ p >= Size
      BY <2>1, NotBeyond DEF Published, Size
    <2> QED
      BY <2>1, <2>2, Zenon DEF OwnersInv, SlotOwnerTrue
  <1>5. ReturnsFit
    <2> SUFFICES ASSUME NEW o \in Owners PROVE ret[o] <= Capacity * 2
      BY Zenon DEF ReturnsFit, RetCapacity
    <2>1. ret[o] \in Nat /\ out[o] \in 0..(Capacity + 1) /\ Capacity \in Nat /\ Capacity >= 2
      BY SizesAssumption, Zenon DEF OwnersInv
    <2>2. CASE \A t \in Threads : owner[t] # o
      BY <2>1, <2>2 DEF OwnersInv
    <2>3. ASSUME NEW t \in Threads, owner[t] = o PROVE ret[o] <= Capacity * 2
      <3>1. out[o] = ret[o] + Cardinality(Flight(t)) + One(at[t] = "reserve")
        BY <2>3, NoneAssumption, Zenon DEF OwnersInv, OutTrue
      <3>2. Cardinality(Flight(t)) \in Nat /\ One(at[t] = "reserve") \in Nat
        BY FlightFinite, Zenon DEF One
      <3> QED
        BY <2>1, <3>1, <3>2
    <2> QED
      BY <2>2, <2>3, Zenon
  <1> QED
    BY <1>3, <1>4, <1>5, Zenon DEF ArenasGoHome

-----------------------------------------------------------------------------
(* The theorems.  What Lists takes for granted of counting is in the library. *)

INSTANCE FiniteSetTheorems

\* Finite sets are counted as the lemmas assume.
LEMMA CountingHolds == Counting
  <1>1. ASSUME NEW T \in SUBSET Nat, T # {} PROVE \E x \in T : \A y \in T : x <= y
    <2>1. PICK x \in T : \A y \in T : ~(<<y, x>> \in OpToRel(<, Nat))
      BY <1>1, NatLessThanWellFounded, WFMin, Zenon
    <2>2. \A y \in T : ~(y < x) /\ x \in Nat /\ y \in Nat
      BY <2>1, Zenon DEF OpToRel
    <2> QED
      BY <2>2
  <1>2. ASSUME NEW S, IsFiniteSet(S), NEW x
        PROVE  /\ IsFiniteSet(S \union {x}) /\ IsFiniteSet(S \ {x})
               /\ Cardinality(S \union {x}) = IF x \in S THEN Cardinality(S) ELSE Cardinality(S) + 1
               /\ Cardinality(S \ {x}) = IF x \in S THEN Cardinality(S) - 1 ELSE Cardinality(S)
    BY <1>2, FS_AddElement, FS_RemoveElement, Zenon
  <1> QED
    BY <1>1, <1>2, FS_CardinalityType, FS_EmptySet, FS_Subset, FS_Union, FS_Bijection, FS_Interval, Zenon
    DEF Counting

\* What a thread hands to the logger arrives once and in order, and the arenas go home, for any
\* number of threads, slots and lines and whether or not the machine delays the logger's stores
\* (sc_log_ring_reserve, _publish, _take, _done; sc_log_owner_join, _return, _leave).
THEOREM RingHolds == Spec => []RingIsTrue
  <1>1. Init => RingInv
    BY CountingHolds, MemInit, LinesInit, OwnersInit, CountInit, Zenon DEF RingInv, OwnerTyped, Init
  <1>2. RingInv /\ [Next]_vars => RingInv'
    <2> SUFFICES ASSUME RingInv, [Next]_vars PROVE RingInv'
      BY Zenon
    <2> USE DEF RingInv
    <2>1. MemInv'
      BY CountingHolds, MemStep, Zenon
    <2>2. OwnerTyped'
      BY OwnerTypedStep, Zenon
    <2>3. LinesInv' /\ FromKept
      BY <2>1, CountingHolds, LinesStep, Zenon
    <2>4. OwnersInv'
      BY <2>1, <2>3, CountingHolds, OwnersStep, Zenon
    <2>5. CountInv'
      BY CountingHolds, CountStep, Zenon
    <2> QED
      BY <2>1, <2>2, <2>3, <2>4, <2>5, Zenon
  <1>3. RingInv => RingIsTrue
    BY CountingHolds, OneHolder, InOrder, GoingHome, Zenon DEF RingInv, RingIsTrue
  <1> QED
    BY <1>1, <1>2, <1>3, PTL DEF Spec
=============================================================================
