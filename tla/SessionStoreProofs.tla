------------------------- MODULE SessionStoreProofs -------------------------
(* The store of the TypeScript backend keeps what it promises, for any       *)
(* number of users, slots and tokens, any timeouts, any threshold of the     *)
(* compaction and any clock: THEOREM StoreHolds (slots, memory and tokens),  *)
(* THEOREM CreationHolds (what a creation may take away).                    *)
(*                                                                           *)
(* A creation may reclaim, retire and compact before it takes a slot, so the *)
(* argument is on what a prefix of the order leaves behind when it is handed *)
(* back: lemma ReleaseOf says it for any number of slots, and Ready is one   *)
(* such prefix (lemma ReadyIs).                                              *)
EXTENDS SessionStore, Lists, TLAPS

-----------------------------------------------------------------------------
(* The inductive invariant.                                                  *)

IsStore(st) ==
    /\ DOMAIN st = {"slots", "order", "orderHead", "free", "liveCount"}
    /\ IsFiniteSet(DOMAIN st.slots) /\ DOMAIN st.slots = 0..(Cardinality(DOMAIN st.slots) - 1)
    /\ st.slots = [s \in DOMAIN st.slots |-> st.slots[s]]
    /\ st.order \in Seq(DOMAIN st.slots) /\ st.free \in Seq(DOMAIN st.slots)
    /\ st.orderHead \in 0..Len(st.order)

Accounts(st) ==
    /\ Injective(Standing(st)) /\ Injective(st.free)
    /\ Members(Standing(st)) \intersect Members(st.free) = {}
    /\ Members(Standing(st)) \union Members(st.free) = DOMAIN st.slots
    /\ Members(st.free) \intersect Occupied(st) = {}
    /\ st.liveCount = Cardinality(Occupied(st))

\* What compactOrder leaves: little has been passed, or more stands than has been passed.
Short(st) == st.orderHead < CompactThreshold \/ st.orderHead * 2 < Len(st.order)

WellKept(st) == IsStore(st) /\ Accounts(st) /\ Short(st)

\* The number of slots that stand.
Stand(st) == Len(st.order) - st.orderHead

-----------------------------------------------------------------------------
(* The order.                                                                *)

\* What a sequence holds after its first h.
LEMMA Rest ==
  ASSUME NEW S, NEW q \in Seq(S), NEW h \in 0..Len(q)
  PROVE  LET r == SubSeq(q, h + 1, Len(q)) IN
         /\ r \in Seq(S) /\ Len(r) = Len(q) - h /\ DOMAIN r = 1..(Len(q) - h)
         /\ \A i \in 1..(Len(q) - h) : r[i] = q[h + i] /\ r[i] \in S
  <1>1. PICK a \in Int, b \in Int : a = h + 1 /\ b = Len(q)
    OBVIOUS
  <1>2. Len(q) \in Nat /\ \A i \in 1..Len(q) : q[i] \in S
    OBVIOUS
  <1>3. \A i \in a..b : q[i] \in S
    BY <1>1, <1>2
  <1>4. SubSeq(q, a, b) \in Seq(S)
    BY <1>3
  <1>5. Len(SubSeq(q, a, b)) = b - a + 1
    BY <1>1, <1>2, <1>3
  <1>6. DOMAIN SubSeq(q, a, b) = 1..(b - a + 1)
    BY <1>4, <1>5
  <1>7. \A i \in 1..(b - a + 1) : SubSeq(q, a, b)[i] = q[a + i - 1]
    BY <1>3
  <1>8. b - a + 1 = Len(q) - h
    BY <1>1, <1>2
  <1>9. \A i \in 1..(Len(q) - h) : a + i - 1 = h + i /\ h + i \in 1..Len(q)
    BY <1>1, <1>2
  <1> QED
    BY <1>1, <1>2, <1>4, <1>5, <1>6, <1>7, <1>8, <1>9, Zenon

\* What stands, by its place in the order.
LEMMA StandingIs ==
  ASSUME NEW st, IsStore(st)
  PROVE  /\ Stand(st) \in Nat /\ Standing(st) \in Seq(DOMAIN st.slots)
         /\ Len(Standing(st)) = Stand(st) /\ DOMAIN Standing(st) = 1..Stand(st)
         /\ \A i \in 1..Stand(st) :
              Standing(st)[i] = st.order[st.orderHead + i] /\ Standing(st)[i] \in DOMAIN st.slots
  <1>1. st.order \in Seq(DOMAIN st.slots) /\ st.orderHead \in 0..Len(st.order) /\ Len(st.order) \in Nat
    BY DEF IsStore
  <1>2. Stand(st) \in Nat
    BY <1>1 DEF Stand
  <1>3. PICK q \in Seq(DOMAIN st.slots) : q = st.order
    BY <1>1, Zenon
  <1>4. PICK h \in 0..Len(q) : h = st.orderHead
    BY <1>1, <1>3, Zenon
  <1>5. Standing(st) = SubSeq(q, h + 1, Len(q)) /\ Stand(st) = Len(q) - h
    BY <1>3, <1>4, Zenon DEF Standing, Stand
  <1>6. /\ SubSeq(q, h + 1, Len(q)) \in Seq(DOMAIN st.slots)
        /\ Len(SubSeq(q, h + 1, Len(q))) = Len(q) - h /\ DOMAIN SubSeq(q, h + 1, Len(q)) = 1..(Len(q) - h)
        /\ \A i \in 1..(Len(q) - h) : SubSeq(q, h + 1, Len(q))[i] = q[h + i]
                                       /\ SubSeq(q, h + 1, Len(q))[i] \in DOMAIN st.slots
    BY Rest, Zenon
  <1> QED
    BY <1>2, <1>3, <1>4, <1>5, <1>6, Zenon

\* compactOrder forgets what has been passed and nothing else.
LEMMA Compacting ==
  ASSUME NEW st, IsStore(st), Accounts(st)
  PROVE  LET c == CompactOrder(st) IN
         /\ WellKept(c) /\ Standing(c) = Standing(st) /\ Stand(c) = Stand(st)
         /\ c.slots = st.slots /\ c.free = st.free /\ c.liveCount = st.liveCount
  <1> DEFINE c == CompactOrder(st)
             short == [st EXCEPT !.order = Standing(st), !.orderHead = 0]
  <1>0. /\ Stand(st) \in Nat /\ Standing(st) \in Seq(DOMAIN st.slots) /\ Len(Standing(st)) = Stand(st)
        /\ CompactThreshold \in Nat \ {0} /\ Len(st.order) \in Nat /\ st.orderHead \in 0..Len(st.order)
    BY StandingIs, LimitsAssumption DEF IsStore
  <1>1. CASE st.orderHead = Len(st.order) \/ (st.orderHead >= CompactThreshold /\ st.orderHead * 2 >= Len(st.order))
    <2>1. c = short
      BY <1>1, Zenon DEF CompactOrder
    <2>3. /\ c.slots = st.slots /\ c.free = st.free /\ c.liveCount = st.liveCount
          /\ c.order = Standing(st) /\ c.orderHead = 0
          /\ DOMAIN c = {"slots", "order", "orderHead", "free", "liveCount"}
      BY <2>1, Zenon DEF IsStore
    <2> HIDE DEF short, c
    <2>4. IsStore(c)
      BY <1>0, <2>3 DEF IsStore
    <2>5. Standing(c) = Standing(st)
      <3>1. Standing(c) = SubSeq(Standing(st), 1, Len(Standing(st)))
        BY <2>3 DEF Standing
      <3> QED
        BY <1>0, <3>1
    <2>6. Stand(c) = Stand(st)
      BY <1>0, <2>3 DEF Stand
    <2>7. Occupied(c) = Occupied(st)
      BY <2>3, Zenon DEF Occupied
    <2>8. Accounts(c)
      BY <2>3, <2>5, <2>7, Zenon DEF Accounts
    <2>9. Short(c)
      BY <1>0, <2>3 DEF Short
    <2> QED
      BY <2>3, <2>4, <2>5, <2>6, <2>8, <2>9, Zenon DEF WellKept, c
  <1>2. CASE ~(st.orderHead = Len(st.order) \/ (st.orderHead >= CompactThreshold /\ st.orderHead * 2 >= Len(st.order)))
    <2>1. c = st
      BY <1>2, Zenon DEF CompactOrder
    <2>2. Short(st)
      BY <1>0, <1>2 DEF Short
    <2> QED
      BY <2>1, <2>2, Zenon DEF WellKept
  <1> QED
    BY <1>1, <1>2, Zenon

\* The first n of a sequence.
LEMMA First ==
  ASSUME NEW S, NEW q \in Seq(S), NEW n \in 0..Len(q)
  PROVE  LET r == SubSeq(q, 1, n) IN
         /\ r \in Seq(S) /\ Len(r) = n /\ DOMAIN r = 1..n
         /\ \A i \in 1..n : r[i] = q[i] /\ r[i] \in S
  <1>1. Len(q) \in Nat /\ n \in Int /\ 1 \in Int /\ \A i \in 1..Len(q) : q[i] \in S
    OBVIOUS
  <1>2. \A i \in 1..n : i \in 1..Len(q) /\ q[i] \in S
    BY <1>1
  <1>3. SubSeq(q, 1, n) \in Seq(S)
    BY <1>1, <1>2
  <1>4. Len(SubSeq(q, 1, n)) = n
    BY <1>1, <1>2
  <1>5. DOMAIN SubSeq(q, 1, n) = 1..n
    BY <1>3, <1>4
  <1>6. \A i \in 1..n : SubSeq(q, 1, n)[i] = q[i]
    BY <1>1, <1>2
  <1> QED
    BY <1>2, <1>3, <1>4, <1>5, <1>6, Zenon

\* Two lists one after the other hold what each of them holds, and no place twice if they share
\* nothing.
LEMMA Joined ==
  ASSUME NEW S, NEW q \in Seq(S), NEW r \in Seq(S)
  PROVE  /\ q \o r \in Seq(S)
         /\ Members(q \o r) = Members(q) \union Members(r)
         /\ Injective(q) /\ Injective(r) /\ Members(q) \intersect Members(r) = {} => Injective(q \o r)
  <1> DEFINE j == q \o r
             a == Len(q)
             b == Len(r)
  <1>1. /\ a \in Nat /\ b \in Nat /\ DOMAIN q = 1..a /\ DOMAIN r = 1..b
        /\ j \in Seq(S) /\ DOMAIN j = 1..(a + b)
    OBVIOUS
  <1>2. \A i \in 1..(a + b) : j[i] = IF i <= a THEN q[i] ELSE r[i - a]
    OBVIOUS
  <1> HIDE DEF j, a, b
  <1>3. \A i \in 1..(a + b) : (i <= a /\ i \in 1..a) \/ (~(i <= a) /\ i - a \in 1..b)
    BY <1>1
  <1>4. \A i \in 1..a : i \in 1..(a + b) /\ j[i] = q[i]
    BY <1>1, <1>2
  <1>5. \A i \in 1..b : a + i \in 1..(a + b) /\ j[a + i] = r[i]
    <2> TAKE i \in 1..b
    <2>1. a + i \in 1..(a + b) /\ ~(a + i <= a) /\ (a + i) - a = i
      BY <1>1
    <2> QED
      BY <1>2, <2>1, Zenon
  <1>6. Members(j) = Members(q) \union Members(r)
    <2>1. ASSUME NEW x \in Members(j) PROVE x \in Members(q) \union Members(r)
      BY <1>1, <1>2, <1>3, Zenon DEF Members
    <2>2. ASSUME NEW x \in Members(q) PROVE x \in Members(j)
      BY <1>1, <1>4, Zenon DEF Members
    <2>3. ASSUME NEW x \in Members(r) PROVE x \in Members(j)
      <3>1. PICK i \in 1..b : x = r[i]
        BY <1>1, Zenon DEF Members
      <3> QED
        BY <1>1, <1>5, <3>1, Zenon DEF Members
    <2> QED
      BY <2>1, <2>2, <2>3, Zenon
  <1>7. ASSUME Injective(q), Injective(r), Members(q) \intersect Members(r) = {} PROVE Injective(j)
    <2> SUFFICES ASSUME NEW i \in 1..(a + b), NEW k \in 1..(a + b), j[i] = j[k] PROVE i = k
      BY <1>1, Zenon DEF Injective
    <2>1. \A x \in 1..a, y \in 1..b : q[x] # r[y]
      BY <1>1, <1>7, Zenon DEF Members
    <2>2. CASE i <= a /\ k <= a
      BY <1>1, <1>2, <1>3, <1>7, <2>2, Zenon DEF Injective
    <2>3. CASE i <= a /\ ~(k <= a)
      BY <1>2, <1>3, <2>1, <2>3, Zenon
    <2>4. CASE ~(i <= a) /\ k <= a
      BY <1>2, <1>3, <2>1, <2>4, Zenon
    <2>5. CASE ~(i <= a) /\ ~(k <= a)
      <3>1. i - a \in 1..b /\ k - a \in 1..b /\ r[i - a] = r[k - a]
        BY <1>2, <1>3, <2>5, Zenon
      <3>2. i - a = k - a
        BY <1>1, <1>7, <3>1, Zenon DEF Injective
      <3> QED
        BY <1>1, <3>2
    <2> QED
      BY <2>2, <2>3, <2>4, <2>5, Zenon
  <1> QED
    BY <1>1, <1>6, <1>7, Zenon DEF j

-----------------------------------------------------------------------------
(* Handing back.                                                             *)

\* The first n slots of the order.
Passed(st, n) == {Standing(st)[i] : i \in 1..n}

\* What Release puts together before it compacts.
Handed(st, n) ==
    [st EXCEPT
        !.orderHead = @ + n,
        !.slots = [s \in DOMAIN st.slots |-> IF s \in Passed(st, n) THEN NONE ELSE st.slots[s]],
        !.free = @ \o SubSeq(Standing(st), 1, n),
        !.liveCount = Leaves(st, Passed(st, n))]

\* The first n slots of the order are emptied and free, and the rest stands as it stood.
LEMMA HandedOver ==
  ASSUME Counting, NEW st, WellKept(st), NEW n \in 0..Stand(st)
  PROVE  LET r == Handed(st, n) IN
         /\ IsStore(r) /\ Accounts(r) /\ DOMAIN r.slots = DOMAIN st.slots
         /\ \A s \in DOMAIN st.slots :
              r.slots[s] = IF s \in Passed(st, n) THEN NONE ELSE st.slots[s]
         /\ Stand(r) = Stand(st) - n
         /\ \A i \in 1..(Stand(st) - n) : Standing(r)[i] = Standing(st)[n + i]
         /\ r.free = st.free \o SubSeq(Standing(st), 1, n)
         /\ Members(r.free) = Members(st.free) \union Passed(st, n)
  <1> DEFINE r == Handed(st, n)
             D == DOMAIN st.slots
             turn == SubSeq(Standing(st), 1, n)
  <1>0. IsStore(st) /\ Accounts(st)
    BY Zenon DEF WellKept
  <1>1. /\ Stand(st) \in Nat /\ Standing(st) \in Seq(D) /\ Len(Standing(st)) = Stand(st)
        /\ DOMAIN Standing(st) = 1..Stand(st)
        /\ \A i \in 1..Stand(st) : Standing(st)[i] = st.order[st.orderHead + i] /\ Standing(st)[i] \in D
    BY <1>0, StandingIs, Zenon
  <1>2. /\ DOMAIN r = {"slots", "order", "orderHead", "free", "liveCount"}
        /\ r.slots = [s \in D |-> IF s \in Passed(st, n) THEN NONE ELSE st.slots[s]]
        /\ r.order = st.order /\ r.orderHead = st.orderHead + n /\ r.free = st.free \o turn
        /\ r.liveCount = Leaves(st, Passed(st, n))
    BY <1>0, Zenon DEF IsStore, Handed
  <1> HIDE DEF r
  <1>3. /\ DOMAIN r.slots = D
        /\ \A s \in D : r.slots[s] = IF s \in Passed(st, n) THEN NONE ELSE st.slots[s]
        /\ r.slots = [s \in D |-> r.slots[s]]
    BY <1>2, Zenon
  <1>4. turn \in Seq(D) /\ DOMAIN turn = 1..n /\ \A i \in 1..n : turn[i] = Standing(st)[i]
    <2>1. PICK q \in Seq(D) : q = Standing(st)
      BY <1>1, Zenon
    <2>2. PICK m \in 0..Len(q) : m = n
      BY <1>1, <2>1, Zenon
    <2>3. /\ SubSeq(q, 1, m) \in Seq(D) /\ Len(SubSeq(q, 1, m)) = m /\ DOMAIN SubSeq(q, 1, m) = 1..m
          /\ \A i \in 1..m : SubSeq(q, 1, m)[i] = q[i] /\ SubSeq(q, 1, m)[i] \in D
      BY First, Zenon
    <2> QED
      BY <2>1, <2>2, <2>3, Zenon
  <1> HIDE DEF turn
  <1>5. n \in Nat /\ n <= Stand(st) /\ \A i \in 1..n : i \in 1..Stand(st)
    BY <1>1
  <1>6. Members(turn) = Passed(st, n) /\ Passed(st, n) \subseteq Members(Standing(st))
        /\ Passed(st, n) \subseteq D
    BY <1>1, <1>4, <1>5, Zenon DEF Members, Passed
  <1>7. Injective(turn)
    BY <1>0, <1>1, <1>4, <1>5, Zenon DEF Injective, Accounts
  <1>8. st.free \in Seq(D)
    BY <1>0, Zenon DEF IsStore
  <1>9. Members(st.free) \intersect Members(turn) = {} /\ Injective(st.free)
    BY <1>0, <1>6, Zenon DEF Accounts
  <1>10. /\ r.free \in Seq(D) /\ Injective(r.free)
         /\ Members(r.free) = Members(st.free) \union Passed(st, n)
    <2>1. /\ st.free \o turn \in Seq(D) /\ Members(st.free \o turn) = Members(st.free) \union Members(turn)
          /\ Injective(st.free \o turn)
      <3>1. PICK f \in Seq(D), t \in Seq(D) : f = st.free /\ t = turn
        BY <1>4, <1>8, Zenon
      <3>2. Injective(f) /\ Injective(t) /\ Members(f) \intersect Members(t) = {}
        BY <1>7, <1>9, <3>1, Zenon
      <3>3. /\ f \o t \in Seq(D) /\ Members(f \o t) = Members(f) \union Members(t)
            /\ Injective(f) /\ Injective(t) /\ Members(f) \intersect Members(t) = {} => Injective(f \o t)
        BY Joined, Zenon
      <3>4. Injective(f \o t)
        BY <3>2, <3>3, Zenon
      <3> QED
        BY <3>1, <3>3, <3>4, Zenon
    <2> QED
      BY <1>2, <1>6, <2>1, Zenon
  <1>11. IsStore(r)
    <2>1. st.orderHead + n \in 0..Len(st.order)
      BY <1>0, <1>1, <1>5 DEF IsStore, Stand
    <2> QED
      BY <1>0, <1>2, <1>3, <1>10, <2>1, Zenon DEF IsStore
  <1>12. Stand(r) = Stand(st) - n
    BY <1>0, <1>2, <1>5 DEF Stand, IsStore
  <1>13. DOMAIN Standing(r) = 1..(Stand(st) - n)
         /\ \A i \in 1..(Stand(st) - n) : Standing(r)[i] = r.order[r.orderHead + i]
    BY <1>11, <1>12, StandingIs, Zenon
  <1>14. ASSUME NEW i \in 1..(Stand(st) - n)
         PROVE  n + i \in 1..Stand(st) /\ n + i \notin 1..n /\ Standing(r)[i] = Standing(st)[n + i]
    <2>1. n + i \in 1..Stand(st) /\ n + i \notin 1..n
      BY <1>1, <1>5
    <2>2. (st.orderHead + n) + i = st.orderHead + (n + i)
      BY <1>0, <1>5 DEF IsStore
    <2> QED
      BY <1>1, <1>2, <1>13, <2>1, <2>2
  <1>15. \A i, j \in 1..Stand(st) : Standing(st)[i] = Standing(st)[j] => i = j
    BY <1>0, <1>1, Zenon DEF Accounts, Injective
  <1>16. Injective(Standing(r))
    <2> SUFFICES ASSUME NEW i \in 1..(Stand(st) - n), NEW j \in 1..(Stand(st) - n),
                        Standing(r)[i] = Standing(r)[j]
                 PROVE  i = j
      BY <1>13, Zenon DEF Injective
    <2>1. n + i = n + j
      BY <1>14, <1>15, Zenon
    <2> QED
      BY <1>1, <1>5, <2>1
  <1>17. \A x : x \in Members(Standing(r)) <=> x \in Members(Standing(st)) /\ x \notin Passed(st, n)
    <2> TAKE x
    <2>1. ASSUME x \in Members(Standing(r)) PROVE x \in Members(Standing(st)) /\ x \notin Passed(st, n)
      <3>1. PICK i \in 1..(Stand(st) - n) : x = Standing(r)[i]
        BY <1>13, <2>1, Zenon DEF Members
      <3>2. x = Standing(st)[n + i] /\ n + i \in 1..Stand(st) /\ n + i \notin 1..n
        BY <1>14, <3>1, Zenon
      <3>3. x \in Members(Standing(st))
        BY <1>1, <3>2, Zenon DEF Members
      <3>4. ASSUME x \in Passed(st, n) PROVE FALSE
        <4>1. PICK k \in 1..n : x = Standing(st)[k]
          BY <3>4, Zenon DEF Passed
        <4> QED
          BY <1>5, <1>15, <3>2, <4>1, Zenon
      <3> QED
        BY <3>3, <3>4, Zenon
    <2>2. ASSUME x \in Members(Standing(st)), x \notin Passed(st, n) PROVE x \in Members(Standing(r))
      <3>1. PICK k \in 1..Stand(st) : x = Standing(st)[k]
        BY <1>1, <2>2, Zenon DEF Members
      <3>2. k \notin 1..n
        BY <2>2, <3>1, Zenon DEF Passed
      <3>3. k - n \in 1..(Stand(st) - n) /\ n + (k - n) = k
        BY <1>1, <1>5, <3>1, <3>2
      <3>4. Standing(r)[k - n] = x
        BY <1>14, <3>1, <3>3, Zenon
      <3> QED
        BY <1>13, <3>3, <3>4, Zenon DEF Members
    <2> QED
      BY <2>1, <2>2, Zenon
  <1>18. Occupied(r) = Occupied(st) \ Passed(st, n)
    BY <1>3, Zenon DEF Occupied
  <1>19. r.liveCount = Cardinality(Occupied(r))
    <2>1. IsFiniteSet(Occupied(st))
      <3>1. Occupied(st) \subseteq D /\ IsFiniteSet(D)
        BY <1>0, Zenon DEF Occupied, IsStore
      <3> QED
        BY <3>1, CountOfPart, Zenon
    <2>2. Cardinality(Occupied(st) \ Passed(st, n)) =
             Cardinality(Occupied(st)) - Cardinality(Occupied(st) \intersect Passed(st, n))
      BY <2>1, CountOfRest, Zenon
    <2>3. Occupied(st) \intersect Passed(st, n) = Passed(st, n) \intersect Occupied(st)
      BY Zenon
    <2>4. st.liveCount = Cardinality(Occupied(st))
      BY <1>0, Zenon DEF Accounts
    <2> QED
      BY <1>2, <1>18, <2>2, <2>3, <2>4, Zenon DEF Leaves
  <1>20. Accounts(r)
    <2>1. /\ Members(Standing(st)) \intersect Members(st.free) = {}
          /\ Members(Standing(st)) \union Members(st.free) = D
          /\ Members(st.free) \intersect Occupied(st) = {}
      BY <1>0, Zenon DEF Accounts
    <2>2. Members(Standing(r)) \intersect Members(r.free) = {}
      BY <1>10, <1>17, <2>1, Zenon
    <2>3. Members(Standing(r)) \union Members(r.free) = D
      BY <1>6, <1>10, <1>17, <2>1, Zenon
    <2>4. Members(r.free) \intersect Occupied(r) = {}
      BY <1>10, <1>18, <2>1, Zenon
    <2> QED
      BY <1>3, <1>10, <1>16, <1>19, <2>2, <2>3, <2>4, Zenon DEF Accounts
  <1> QED
    BY <1>2, <1>3, <1>10, <1>11, <1>12, <1>14, <1>20, Zenon DEF r, turn

\* So it is after the compaction.
LEMMA ReleaseOf ==
  ASSUME Counting, NEW st, WellKept(st), NEW n \in 0..Stand(st)
  PROVE  LET r == Release(st, n) IN
         /\ WellKept(r) /\ DOMAIN r.slots = DOMAIN st.slots
         /\ \A s \in DOMAIN st.slots :
              r.slots[s] = IF s \in Passed(st, n) THEN NONE ELSE st.slots[s]
         /\ Stand(r) = Stand(st) - n
         /\ \A i \in 1..(Stand(st) - n) : Standing(r)[i] = Standing(st)[n + i]
         /\ r.free = st.free \o SubSeq(Standing(st), 1, n)
         /\ Members(r.free) = Members(st.free) \union Passed(st, n)
  <1> DEFINE turn == SubSeq(Standing(st), 1, n)
             h == Handed(st, n)
             r == Release(st, n)
  <1>1. {turn[i] : i \in DOMAIN turn} = Passed(st, n)
    <2>1. Standing(st) \in Seq(DOMAIN st.slots) /\ Len(Standing(st)) = Stand(st)
      BY StandingIs, Zenon DEF WellKept
    <2>2. PICK q \in Seq(DOMAIN st.slots) : q = Standing(st)
      BY <2>1, Zenon
    <2>3. PICK m \in 0..Len(q) : m = n
      BY <2>1, <2>2, Zenon
    <2>4. /\ SubSeq(q, 1, m) \in Seq(DOMAIN st.slots) /\ Len(SubSeq(q, 1, m)) = m
          /\ DOMAIN SubSeq(q, 1, m) = 1..m
          /\ \A i \in 1..m : SubSeq(q, 1, m)[i] = q[i] /\ SubSeq(q, 1, m)[i] \in DOMAIN st.slots
      BY First, Zenon
    <2>5. DOMAIN turn = 1..n /\ \A i \in 1..n : turn[i] = Standing(st)[i]
      BY <2>2, <2>3, <2>4, Zenon
    <2> HIDE DEF turn
    <2> QED
      BY <2>5, Zenon DEF Passed
  <1>2. r = CompactOrder(h)
    <2>1. r = CompactOrder([st EXCEPT
                !.orderHead = @ + n,
                !.slots = [s \in DOMAIN st.slots |->
                             IF s \in {turn[i] : i \in DOMAIN turn} THEN NONE ELSE st.slots[s]],
                !.free = @ \o turn,
                !.liveCount = Leaves(st, {turn[i] : i \in DOMAIN turn})])
      BY Zenon DEF Release
    <2> HIDE DEF turn
    <2>2. r = CompactOrder([st EXCEPT
                !.orderHead = @ + n,
                !.slots = [s \in DOMAIN st.slots |-> IF s \in Passed(st, n) THEN NONE ELSE st.slots[s]],
                !.free = @ \o turn,
                !.liveCount = Leaves(st, Passed(st, n))])
      BY <1>1, <2>1, Zenon
    <2> QED
      BY <2>2, Zenon DEF Handed, turn
  <1>3. /\ IsStore(h) /\ Accounts(h) /\ DOMAIN h.slots = DOMAIN st.slots
        /\ \A s \in DOMAIN st.slots : h.slots[s] = IF s \in Passed(st, n) THEN NONE ELSE st.slots[s]
        /\ Stand(h) = Stand(st) - n
        /\ \A i \in 1..(Stand(st) - n) : Standing(h)[i] = Standing(st)[n + i]
        /\ h.free = st.free \o turn
        /\ Members(h.free) = Members(st.free) \union Passed(st, n)
    BY HandedOver, Zenon
  <1> HIDE DEF h, turn
  <1>4. /\ WellKept(CompactOrder(h)) /\ Standing(CompactOrder(h)) = Standing(h)
        /\ Stand(CompactOrder(h)) = Stand(h) /\ CompactOrder(h).slots = h.slots
        /\ CompactOrder(h).free = h.free /\ CompactOrder(h).liveCount = h.liveCount
    BY <1>3, Compacting, Zenon
  <1> HIDE DEF r
  <1>5. /\ WellKept(r) /\ Standing(r) = Standing(h) /\ Stand(r) = Stand(h) /\ r.slots = h.slots
        /\ r.free = h.free
    BY <1>2, <1>4, Zenon
  <1> QED
    BY <1>3, <1>5, Zenon DEF r, turn

-----------------------------------------------------------------------------
(* How far reclaimExpired walks.                                             *)

\* To the first session that is live, or to the end.
LEMMA ExpiredIs ==
  ASSUME Counting, NEW st, IsStore(st)
  PROVE  /\ Expired(st) \in 0..Stand(st)
         /\ \A i \in 1..Expired(st) : Dead(st, Standing(st)[i])
         /\ Expired(st) < Stand(st) => ~Dead(st, Standing(st)[Expired(st) + 1])
  <1>1. Stand(st) \in Nat /\ Len(Standing(st)) = Stand(st)
    BY StandingIs, Zenon
  <1> DEFINE T == {n \in 0..Stand(st) : n < Stand(st) => ~Dead(st, Standing(st)[n + 1])}
  <1>2. T \in SUBSET Nat /\ Stand(st) \in T
    BY <1>1
  <1>3. PICK n \in T : \A k \in T : n <= k
    BY <1>2, Smallest, Zenon
  <1>4. ASSUME NEW i \in 1..n PROVE Dead(st, Standing(st)[i])
    <2>1. i - 1 \in 0..Stand(st) /\ i - 1 < Stand(st) /\ (i - 1) + 1 = i /\ ~(n <= i - 1)
      BY <1>1, <1>3
    <2>2. i - 1 \notin T
      BY <1>3, <2>1, Zenon
    <2> QED
      BY <2>1, <2>2, Zenon
  <1>5. \E m \in 0..Stand(st) :
           /\ \A i \in 1..m : Dead(st, Standing(st)[i])
           /\ m < Stand(st) => ~Dead(st, Standing(st)[m + 1])
    BY <1>3, <1>4, Zenon
  <1>6. Expired(st) = CHOOSE m \in 0..Stand(st) :
           /\ \A i \in 1..m : Dead(st, Standing(st)[i])
           /\ m < Stand(st) => ~Dead(st, Standing(st)[m + 1])
    BY <1>1, Zenon DEF Expired
  <1> QED
    BY <1>5, <1>6, Zenon

-----------------------------------------------------------------------------
(* What a creation finds.                                                    *)

\* k slots of the order have been handed back.
HandsBack(r, st, k) ==
    /\ WellKept(r) /\ DOMAIN r.slots = DOMAIN st.slots
    /\ \A s \in DOMAIN st.slots : r.slots[s] = IF s \in Passed(st, k) THEN NONE ELSE st.slots[s]
    /\ Stand(r) = Stand(st) - k
    /\ \A i \in 1..(Stand(st) - k) : Standing(r)[i] = Standing(st)[k + i]
    /\ Members(r.free) = Members(st.free) \union Passed(st, k)

\* Release does that.
LEMMA ReleaseHandsBack ==
  ASSUME Counting, NEW st, WellKept(st), NEW n \in 0..Stand(st)
  PROVE  HandsBack(Release(st, n), st, n)
  BY ReleaseOf, Zenon DEF HandsBack

\* One after the other they hand back what they hand back together.
LEMMA HandsBackTwice ==
  ASSUME NEW st, NEW r, NEW q, NEW n, WellKept(st), n \in 0..Stand(st), HandsBack(r, st, n),
         HandsBack(q, r, 1), n < Stand(st)
  PROVE  HandsBack(q, st, n + 1)
  <1>1. Stand(st) \in Nat /\ n \in Nat /\ n + 1 \in 0..Stand(st)
    <2>1. Stand(st) \in Nat
      BY StandingIs, Zenon DEF WellKept
    <2> QED
      BY <2>1
  <1>2. Stand(r) = Stand(st) - n /\ Stand(q) = Stand(r) - 1
    BY Zenon DEF HandsBack
  <1>3. Stand(q) = Stand(st) - (n + 1)
    BY <1>1, <1>2
  <1>4. Standing(r)[1] = Standing(st)[n + 1]
    BY <1>1 DEF HandsBack
  <1>5. Passed(r, 1) = {Standing(st)[n + 1]}
    BY <1>4 DEF Passed
  <1>6. \A x : x \in Passed(st, n + 1) <=> x \in Passed(st, n) \/ x \in Passed(r, 1)
    <2> TAKE x
    <2>1. \A i \in 1..(n + 1) : i \in 1..n \/ i = n + 1
      BY <1>1
    <2>2. n + 1 \in 1..(n + 1) /\ \A i \in 1..n : i \in 1..(n + 1)
      BY <1>1
    <2> QED
      BY <1>5, <2>1, <2>2, Zenon DEF Passed
  <1>7. ASSUME NEW i \in 1..(Stand(st) - (n + 1)) PROVE Standing(q)[i] = Standing(st)[(n + 1) + i]
    <2>1. i \in 1..(Stand(r) - 1) /\ 1 + i \in 1..(Stand(st) - n) /\ n + (1 + i) = (n + 1) + i
      BY <1>1, <1>2
    <2>2. Standing(q)[i] = Standing(r)[1 + i]
      BY <2>1, Zenon DEF HandsBack
    <2>3. Standing(r)[1 + i] = Standing(st)[n + (1 + i)]
      BY <2>1, Zenon DEF HandsBack
    <2> QED
      BY <2>1, <2>2, <2>3, Zenon
  <1>8. \A s \in DOMAIN st.slots : q.slots[s] = IF s \in Passed(st, n + 1) THEN NONE ELSE st.slots[s]
    BY <1>6, Zenon DEF HandsBack
  <1>9. Members(q.free) = Members(st.free) \union Passed(st, n + 1)
    BY <1>6, Zenon DEF HandsBack
  <1>10. WellKept(q) /\ DOMAIN q.slots = DOMAIN st.slots
    BY Zenon DEF HandsBack
  <1> QED
    BY <1>3, <1>7, <1>8, <1>9, <1>10, Zenon DEF HandsBack

\* A full store has something that stands.
LEMMA FullStands ==
  ASSUME Counting, NEW st, WellKept(st), Full(st)
  PROVE  Stand(st) \in Nat \ {0} /\ Standing(st) # <<>>
  <1>1. /\ Stand(st) \in Nat /\ DOMAIN Standing(st) = 1..Stand(st)
        /\ Members(Standing(st)) \union Members(st.free) = DOMAIN st.slots
    BY StandingIs, Zenon DEF WellKept, Accounts
  <1>2. Members(<<>>) = {}
    BY DEF Members
  <1>3. ASSUME Stand(st) = 0 \/ Standing(st) = <<>> PROVE FALSE
    <2>1. Members(Standing(st)) = {}
      BY <1>1, <1>2, <1>3 DEF Members
    <2>2. DOMAIN st.slots = {}
      BY <1>1, <1>2, <2>1, Zenon DEF Full
    <2>3. Cardinality(DOMAIN st.slots) = 0
      BY <2>2, CountOfNone, Zenon
    <2> QED
      BY <2>3, LimitsAssumption DEF Full
  <1> QED
    BY <1>1, <1>3, Zenon

\* A creation finds the expired sessions handed back, and one more where there was no room after
\* that; then there is room.
LEMMA ReadyIs ==
  ASSUME Counting, WellKept(store)
  PROVE  \E k \in 0..Stand(store) :
            /\ HandsBack(Ready, store, k) /\ ~Full(Ready)
            /\ \/ k = Expired(store)
               \/ k = Expired(store) + 1 /\ Full(ReclaimExpired(store))
  <1> DEFINE e == Expired(store)
             r == ReclaimExpired(store)
  <1>1. e \in 0..Stand(store) /\ Stand(store) \in Nat
    BY ExpiredIs, StandingIs, Zenon DEF WellKept
  <1>2. HandsBack(r, store, e)
    BY <1>1, ReleaseHandsBack, Zenon DEF ReclaimExpired
  <1>3. Ready = IF Full(r) THEN RetireOldest(r) ELSE r
    BY Zenon DEF Ready, MakeRoom
  <1> HIDE DEF e, r
  <1>4. CASE ~Full(r)
    BY <1>1, <1>2, <1>3, <1>4, Zenon DEF e, r
  <1>5. CASE Full(r)
    <2>1. WellKept(r) /\ Stand(r) = Stand(store) - e
      BY <1>2, Zenon DEF HandsBack
    <2>2. Stand(r) \in Nat \ {0} /\ Standing(r) # <<>>
      BY <1>5, <2>1, FullStands, Zenon
    <2>3. Ready = Release(r, 1) /\ 1 \in 0..Stand(r) /\ e < Stand(store) /\ e + 1 \in 0..Stand(store)
      BY <1>1, <1>3, <1>5, <2>1, <2>2 DEF RetireOldest
    <2>4. HandsBack(Ready, r, 1)
      BY <2>1, <2>3, ReleaseHandsBack, Zenon
    <2>5. HandsBack(Ready, store, e + 1)
      BY <1>1, <1>2, <2>3, <2>4, HandsBackTwice, Zenon
    <2>6. ~Full(Ready)
      <3>1. Members(Ready.free) = Members(r.free) \union Passed(r, 1)
        BY <2>4, Zenon DEF HandsBack
      <3>2. Passed(r, 1) # {} /\ Members(<<>>) = {}
        BY DEF Passed, Members
      <3> QED
        BY <3>1, <3>2, Zenon DEF Full
    <2> QED
      BY <1>5, <2>3, <2>5, <2>6, Zenon DEF e, r
  <1> QED
    BY <1>4, <1>5, Zenon

-----------------------------------------------------------------------------
(* Sessions and their tokens.                                                *)

HandedTokens == [claims : Claims, session : 1..MaxTokens, at : Times]

\* An entry in its slot: its tokens are its own, and none of them is younger than issuedAt.
EntryTrue(e, s, h, last) ==
    /\ e \in Entries /\ e.session \in DOMAIN h /\ e.createdAt <= last
    /\ \A t \in e.tokens :
          /\ t \in DOMAIN h /\ h[t].session = e.session
          /\ h[t].claims = [slot |-> s, user |-> e.user, createdAt |-> e.createdAt]
    /\ \A i \in DOMAIN h : h[i].session = e.session => h[i].at <= e.issuedAt

\* The entries that stand were created in the order they stand in.
InOrder(st) ==
    \A i, j \in 1..Stand(st) :
        i < j /\ Standing(st)[i] \in Occupied(st) /\ Standing(st)[j] \in Occupied(st)
            => st.slots[Standing(st)[i]].createdAt <= st.slots[Standing(st)[j]].createdAt

Sessions(st, h, last) ==
    /\ \A s \in Occupied(st) : EntryTrue(st.slots[s], s, h, last)
    /\ \A s, t \in Occupied(st) : st.slots[s].session = st.slots[t].session => s = t
    /\ InOrder(st)

HandedTrue(h) == h \in Seq(HandedTokens) /\ \A i \in DOMAIN h : h[i].session \in DOMAIN h

\* What the store keeps between two calls.
StoreInv ==
    /\ WellKept(store) /\ CeilingHolds
    /\ lastCreatedAt \in Times /\ now \in Times /\ HandedTrue(handed)
    /\ Sessions(store, handed, lastCreatedAt)
    /\ TokensAreSpaced

\* Handing back takes sessions away and changes none.
LEMMA SessionsKept ==
  ASSUME NEW st, NEW r, NEW k, NEW h, NEW last, WellKept(st), k \in 0..Stand(st),
         HandsBack(r, st, k), Sessions(st, h, last)
  PROVE  Sessions(r, h, last)
  <1>1. \A s \in Occupied(r) : s \in Occupied(st) /\ s \notin Passed(st, k) /\ r.slots[s] = st.slots[s]
    BY Zenon DEF HandsBack, Occupied
  <1>2. \A s \in Occupied(r) : EntryTrue(r.slots[s], s, h, last)
    BY <1>1, Zenon DEF Sessions
  <1>3. \A s, t \in Occupied(r) : r.slots[s].session = r.slots[t].session => s = t
    BY <1>1, Zenon DEF Sessions
  <1>4. InOrder(r)
    <2> SUFFICES ASSUME NEW i \in 1..Stand(r), NEW j \in 1..Stand(r), i < j,
                        Standing(r)[i] \in Occupied(r), Standing(r)[j] \in Occupied(r)
                 PROVE  r.slots[Standing(r)[i]].createdAt <= r.slots[Standing(r)[j]].createdAt
      BY Zenon DEF InOrder
    <2>0. Stand(st) \in Nat
      BY StandingIs, Zenon DEF WellKept
    <2>1. Stand(r) = Stand(st) - k
      BY Zenon DEF HandsBack
    <2>2. k + i \in 1..Stand(st) /\ k + j \in 1..Stand(st) /\ k + i < k + j
          /\ i \in 1..(Stand(st) - k) /\ j \in 1..(Stand(st) - k)
      BY <2>0, <2>1
    <2>3. Standing(r)[i] = Standing(st)[k + i] /\ Standing(r)[j] = Standing(st)[k + j]
      BY <2>2, Zenon DEF HandsBack
    <2>4. /\ Standing(st)[k + i] \in Occupied(st) /\ Standing(st)[k + j] \in Occupied(st)
          /\ r.slots[Standing(r)[i]] = st.slots[Standing(st)[k + i]]
          /\ r.slots[Standing(r)[j]] = st.slots[Standing(st)[k + j]]
      BY <1>1, <2>3
    <2>5. st.slots[Standing(st)[k + i]].createdAt <= st.slots[Standing(st)[k + j]].createdAt
      BY <2>2, <2>4, Zenon DEF Sessions, InOrder
    <2> QED
      BY <2>4, <2>5, Zenon
  <1> QED
    BY <1>2, <1>3, <1>4, Zenon DEF Sessions

\* A creation that throws after all that leaves the store well kept.
LEMMA ReadyKept ==
  ASSUME Counting, StoreInv
  PROVE  /\ WellKept(Ready) /\ DOMAIN Ready.slots = DOMAIN store.slots /\ ~Full(Ready)
         /\ Sessions(Ready, handed, lastCreatedAt)
  <1>1. WellKept(store) /\ Sessions(store, handed, lastCreatedAt)
    BY Zenon DEF StoreInv
  <1>2. PICK k \in 0..Stand(store) : HandsBack(Ready, store, k) /\ ~Full(Ready)
    BY <1>1, ReadyIs, Zenon
  <1>3. Sessions(Ready, handed, lastCreatedAt)
    BY <1>1, <1>2, SessionsKept, Zenon
  <1> QED
    BY <1>2, <1>3, Zenon DEF HandsBack

-----------------------------------------------------------------------------
(* Taking a slot.                                                            *)

NewSlot(r) == IF r.free = <<>> THEN Cardinality(DOMAIN r.slots) ELSE r.free[Len(r.free)]

TakenBy(r, e) ==
    [r EXCEPT
        !.slots = [s \in DOMAIN r.slots \union {NewSlot(r)} |-> IF s = NewSlot(r) THEN e ELSE r.slots[s]],
        !.free = SubSeq(@, 1, Len(@) - 1),
        !.order = Append(@, NewSlot(r)),
        !.liveCount = @ + 1]

\* The slot is a free one, or the next after all there are while there is room for it.
LEMMA SlotTaken ==
  ASSUME Counting, NEW r, WellKept(r), ~Full(r), Cardinality(DOMAIN r.slots) <= MaxSessions
  PROVE  LET slot == NewSlot(r)
             D == DOMAIN r.slots \union {slot}
             rest == SubSeq(r.free, 1, Len(r.free) - 1)
         IN  /\ IsFiniteSet(D) /\ D = 0..(Cardinality(D) - 1) /\ Cardinality(D) <= MaxSessions
             /\ slot \in 0..MaxSessions /\ slot \notin Members(Standing(r)) /\ slot \notin Occupied(r)
             /\ rest \in Seq(D) /\ Injective(rest)
             /\ \A x : x \in Members(rest) <=> x \in Members(r.free) /\ x # slot
  <1> DEFINE slot == NewSlot(r)
             old == DOMAIN r.slots
             D == old \union {slot}
             rest == SubSeq(r.free, 1, Len(r.free) - 1)
  <1>1. /\ IsFiniteSet(old) /\ old = 0..(Cardinality(old) - 1) /\ r.free \in Seq(old) /\ Injective(r.free)
        /\ Members(Standing(r)) \intersect Members(r.free) = {}
        /\ Members(Standing(r)) \union Members(r.free) = old
        /\ Members(r.free) \intersect Occupied(r) = {} /\ Occupied(r) \subseteq old
    BY Zenon DEF WellKept, IsStore, Accounts, Occupied
  <1>2. Cardinality(old) \in Nat /\ MaxSessions \in Nat \ {0}
    BY <1>1, CountIsNat, LimitsAssumption, Zenon
  <1>3. CASE r.free = <<>>
    <2>1. slot = Cardinality(old) /\ Cardinality(old) < MaxSessions
      BY <1>2, <1>3 DEF NewSlot, Full
    <2>2. slot \notin old
      BY <1>1, <1>2, <2>1
    <2>3. IsFiniteSet(D) /\ Cardinality(D) = Cardinality(old) + 1
      BY <1>1, <2>2, CountAdding, Zenon
    <2>4. D = 0..Cardinality(old)
      <3>1. 0..Cardinality(old) = 0..(Cardinality(old) - 1) \union {Cardinality(old)}
        BY <1>2
      <3> QED
        BY <1>1, <2>1, <3>1, Zenon
    <2>5. rest = <<>>
      <3>1. Len(r.free) = 0
        BY <1>3
      <3>2. Len(r.free) - 1 < 1 /\ Len(r.free) - 1 \in Int
        BY <3>1
      <3> QED
        BY <3>2
    <2> HIDE DEF slot, rest
    <2>6. rest \in Seq(D) /\ Injective(rest) /\ Members(rest) = {} /\ Members(r.free) = {}
      BY <1>3, <2>5 DEF Injective, Members
    <2>7. Cardinality(D) <= MaxSessions /\ D = 0..(Cardinality(D) - 1) /\ slot \in 0..MaxSessions
      BY <1>2, <2>1, <2>3, <2>4
    <2> QED
      BY <1>1, <2>2, <2>3, <2>6, <2>7, Zenon DEF slot, rest
  <1>4. CASE r.free # <<>>
    <2> DEFINE n == Len(r.free)
    <2>1. n \in Nat \ {0} /\ DOMAIN r.free = 1..n /\ \A i \in 1..n : r.free[i] \in old
      BY <1>1, <1>4
    <2>2. slot = r.free[n] /\ n \in 1..n
      BY <1>4, <2>1 DEF NewSlot
    <2>3. slot \in old /\ slot \in Members(r.free)
      BY <2>1, <2>2, Zenon DEF Members
    <2>4. D = old
      BY <2>3, Zenon
    <2>5. rest \in Seq(old) /\ DOMAIN rest = 1..(n - 1) /\ \A i \in 1..(n - 1) : rest[i] = r.free[i]
      <3>1. PICK q \in Seq(old) : q = r.free
        BY <1>1, Zenon
      <3>2. PICK m \in 0..Len(q) : m = n - 1
        <4>1. Len(q) = n
          BY <3>1, Zenon
        <4> HIDE DEF n
        <4>2. n - 1 \in 0..n
          BY <2>1
        <4> QED
          BY <4>1, <4>2, Zenon
      <3>3. /\ SubSeq(q, 1, m) \in Seq(old) /\ Len(SubSeq(q, 1, m)) = m /\ DOMAIN SubSeq(q, 1, m) = 1..m
            /\ \A i \in 1..m : SubSeq(q, 1, m)[i] = q[i] /\ SubSeq(q, 1, m)[i] \in old
        BY First, Zenon
      <3> QED
        BY <3>1, <3>2, <3>3, Zenon
    <2> HIDE DEF slot, rest, n
    <2>6. \A i, j \in 1..n : r.free[i] = r.free[j] => i = j
      BY <1>1, <2>1, Zenon DEF Injective
    <2>7. \A i \in 1..(n - 1) : i \in 1..n /\ i # n
      BY <2>1
    <2>8. Injective(rest)
      BY <2>5, <2>6, <2>7, Zenon DEF Injective
    <2>9. \A x : x \in Members(rest) <=> x \in Members(r.free) /\ x # slot
      <3> TAKE x
      <3>1. ASSUME x \in Members(rest) PROVE x \in Members(r.free) /\ x # slot
        <4>1. PICK i \in 1..(n - 1) : x = r.free[i]
          BY <2>5, <3>1, Zenon DEF Members
        <4> QED
          BY <2>1, <2>2, <2>6, <2>7, <4>1, Zenon DEF Members
      <3>2. ASSUME x \in Members(r.free), x # slot PROVE x \in Members(rest)
        <4>1. PICK i \in 1..n : x = r.free[i]
          BY <2>1, <3>2, Zenon DEF Members
        <4>2. i \in 1..(n - 1)
          BY <2>1, <2>2, <3>2, <4>1
        <4> QED
          BY <2>5, <4>1, <4>2, Zenon DEF Members
      <3> QED
        BY <3>1, <3>2, Zenon
    <2>10. slot \in 0..MaxSessions
      BY <1>1, <1>2, <2>3
    <2>11. slot \notin Members(Standing(r)) /\ slot \notin Occupied(r)
      BY <1>1, <2>3, Zenon
    <2> QED
      BY <1>1, <2>4, <2>5, <2>8, <2>9, <2>10, <2>11, Zenon DEF slot, rest
  <1> QED
    BY <1>3, <1>4, Zenon

\* q is r with the entry e in its slot, which stands last from then on.
Takes(q, r, e) ==
    /\ WellKept(q) /\ Cardinality(DOMAIN q.slots) <= MaxSessions
    /\ NewSlot(r) \in 0..MaxSessions /\ NewSlot(r) \notin Occupied(r)
    /\ NewSlot(r) \notin Members(Standing(r))
    /\ q.slots[NewSlot(r)] = e /\ \A s \in DOMAIN r.slots : s # NewSlot(r) => q.slots[s] = r.slots[s]
    /\ Occupied(q) = Occupied(r) \union {NewSlot(r)}
    /\ Stand(q) = Stand(r) + 1 /\ Standing(q)[Stand(r) + 1] = NewSlot(r)
    /\ \A i \in 1..Stand(r) : Standing(q)[i] = Standing(r)[i]

\* So it is, and the store is well kept again.
LEMMA TakingASlot ==
  ASSUME Counting, NEW r, WellKept(r), ~Full(r), Cardinality(DOMAIN r.slots) <= MaxSessions, NEW e, e # NONE
  PROVE  Takes(TakenBy(r, e), r, e)
  <1> DEFINE q == TakenBy(r, e)
             slot == NewSlot(r)
             old == DOMAIN r.slots
             D == old \union {slot}
             rest == SubSeq(r.free, 1, Len(r.free) - 1)
  <1>1. /\ IsFiniteSet(D) /\ D = 0..(Cardinality(D) - 1) /\ Cardinality(D) <= MaxSessions
        /\ slot \in 0..MaxSessions /\ slot \notin Members(Standing(r)) /\ slot \notin Occupied(r)
        /\ rest \in Seq(D) /\ Injective(rest)
        /\ \A x : x \in Members(rest) <=> x \in Members(r.free) /\ x # slot
    BY SlotTaken, Zenon
  <1>2. IsStore(r) /\ Accounts(r) /\ Short(r)
    BY Zenon DEF WellKept
  <1>3. /\ DOMAIN q = {"slots", "order", "orderHead", "free", "liveCount"}
        /\ q.slots = [s \in D |-> IF s = slot THEN e ELSE r.slots[s]]
        /\ q.free = rest /\ q.order = Append(r.order, slot) /\ q.orderHead = r.orderHead
        /\ q.liveCount = r.liveCount + 1
    BY <1>2, Zenon DEF IsStore, TakenBy
  <1> HIDE DEF q, slot, rest
  <1>4. /\ DOMAIN q.slots = D /\ q.slots = [s \in D |-> q.slots[s]]
        /\ q.slots[slot] = e /\ \A s \in old : s # slot => q.slots[s] = r.slots[s]
    BY <1>3, Zenon
  <1>5. Occupied(q) = Occupied(r) \union {slot}
    BY <1>4, Zenon DEF Occupied
  <1>6. /\ Stand(r) \in Nat /\ DOMAIN Standing(r) = 1..Stand(r)
        /\ \A i \in 1..Stand(r) : Standing(r)[i] = r.order[r.orderHead + i] /\ Standing(r)[i] \in old
    BY <1>2, StandingIs, Zenon
  <1>7. r.order \in Seq(old) /\ r.orderHead \in 0..Len(r.order) /\ Len(r.order) \in Nat
    BY <1>2 DEF IsStore
  <1>8. /\ q.order \in Seq(D) /\ Len(q.order) = Len(r.order) + 1
        /\ \A i \in 1..Len(r.order) : q.order[i] = r.order[i]
        /\ q.order[Len(r.order) + 1] = slot
    <2>1. \A i \in 1..Len(r.order) : r.order[i] \in D
      BY <1>7
    <2>2. r.order \in Seq(D)
      BY <1>7, <2>1
    <2> QED
      BY <1>3, <2>2
  <1>9. IsStore(q)
    <2>1. q.orderHead \in 0..Len(q.order)
      BY <1>3, <1>7, <1>8
    <2>2. /\ IsFiniteSet(DOMAIN q.slots) /\ DOMAIN q.slots = 0..(Cardinality(DOMAIN q.slots) - 1)
          /\ q.slots = [s \in DOMAIN q.slots |-> q.slots[s]]
          /\ q.order \in Seq(DOMAIN q.slots) /\ q.free \in Seq(DOMAIN q.slots)
      BY <1>1, <1>3, <1>4, <1>8, Zenon
    <2> QED
      BY <1>3, <2>1, <2>2, Zenon DEF IsStore
  <1>10. Stand(q) = Stand(r) + 1
    BY <1>3, <1>7, <1>8 DEF Stand
  <1>11. /\ DOMAIN Standing(q) = 1..(Stand(r) + 1)
         /\ \A i \in 1..(Stand(r) + 1) : Standing(q)[i] = q.order[r.orderHead + i]
    <2>1. /\ DOMAIN Standing(q) = 1..Stand(q)
          /\ \A i \in 1..Stand(q) : Standing(q)[i] = q.order[q.orderHead + i] /\ Standing(q)[i] \in DOMAIN q.slots
      BY <1>9, StandingIs, Zenon
    <2> QED
      BY <1>3, <1>10, <2>1, Zenon
  <1>12. ASSUME NEW i \in 1..Stand(r) PROVE Standing(q)[i] = Standing(r)[i] /\ i \in 1..(Stand(r) + 1)
    <2>1. i \in 1..(Stand(r) + 1) /\ r.orderHead + i \in 1..Len(r.order)
      BY <1>6, <1>7 DEF Stand
    <2> QED
      BY <1>6, <1>8, <1>11, <2>1, Zenon
  <1>13. Standing(q)[Stand(r) + 1] = slot
    <2>1. Stand(r) + 1 \in 1..(Stand(r) + 1) /\ r.orderHead + (Stand(r) + 1) = Len(r.order) + 1
      BY <1>6, <1>7 DEF Stand
    <2> QED
      BY <1>8, <1>11, <2>1
  <1>14. \A i \in 1..(Stand(r) + 1) : i \in 1..Stand(r) \/ i = Stand(r) + 1
    BY <1>6
  <1>15. \A i \in 1..Stand(r) : Standing(r)[i] # slot
    BY <1>1, <1>6, Zenon DEF Members
  <1>16. Injective(Standing(q))
    <2>1. \A i, j \in 1..Stand(r) : Standing(r)[i] = Standing(r)[j] => i = j
      BY <1>2, <1>6, Zenon DEF Accounts, Injective
    <2> QED
      BY <1>11, <1>12, <1>13, <1>14, <1>15, <2>1, Zenon DEF Injective
  <1>17. \A x : x \in Members(Standing(q)) <=> x \in Members(Standing(r)) \/ x = slot
    <2>1. Stand(r) + 1 \in 1..(Stand(r) + 1)
      BY <1>6
    <2> QED
      BY <1>6, <1>11, <1>12, <1>13, <1>14, <2>1 DEF Members
  <1>18. q.liveCount = Cardinality(Occupied(q))
    <2>1. IsFiniteSet(Occupied(r)) /\ r.liveCount = Cardinality(Occupied(r))
      <3>1. Occupied(r) \subseteq old /\ IsFiniteSet(old) /\ r.liveCount = Cardinality(Occupied(r))
        BY <1>2, Zenon DEF Occupied, IsStore, Accounts
      <3> QED
        BY <3>1, CountOfPart, Zenon
    <2>2. Cardinality(Occupied(r) \union {slot}) = Cardinality(Occupied(r)) + 1
      BY <1>1, <2>1, CountAdding, Zenon
    <2> QED
      BY <1>3, <1>5, <2>1, <2>2, Zenon
  <1>19. Accounts(q)
    <2>1. /\ Members(Standing(r)) \intersect Members(r.free) = {}
          /\ Members(Standing(r)) \union Members(r.free) = old
          /\ Members(r.free) \intersect Occupied(r) = {}
      BY <1>2, Zenon DEF Accounts
    <2>2. \A x : x \in Members(q.free) <=> x \in Members(r.free) /\ x # slot
      BY <1>1, <1>3, Zenon
    <2>3. Members(Standing(q)) \intersect Members(q.free) = {}
      BY <1>17, <2>1, <2>2, Zenon
    <2>4. Members(Standing(q)) \union Members(q.free) = DOMAIN q.slots
      BY <1>4, <1>17, <2>1, <2>2, Zenon
    <2>5. Members(q.free) \intersect Occupied(q) = {}
      BY <1>5, <2>1, <2>2, Zenon
    <2>6. Injective(q.free)
      BY <1>1, <1>3, Zenon
    <2> QED
      BY <1>16, <1>18, <2>3, <2>4, <2>5, <2>6, Zenon DEF Accounts
  <1>20. Short(q)
    BY <1>2, <1>3, <1>7, <1>8, LimitsAssumption DEF Short
  <1>21. WellKept(q) /\ Cardinality(DOMAIN q.slots) <= MaxSessions
    BY <1>1, <1>4, <1>9, <1>19, <1>20, Zenon DEF WellKept
  <1> QED
    BY <1>1, <1>4, <1>5, <1>10, <1>12, <1>13, <1>21, Zenon DEF q, slot, Takes

-----------------------------------------------------------------------------
(* Minting a token.                                                          *)

\* A token is added at the end.
LEMMA Minted ==
  ASSUME NEW h, HandedTrue(h), NEW x \in HandedTokens, x.session \in DOMAIN h \/ x.session = Len(h) + 1
  PROVE  LET g == Append(h, x) IN
         /\ HandedTrue(g) /\ Len(h) \in Nat /\ DOMAIN h = 1..Len(h) /\ DOMAIN g = 1..(Len(h) + 1)
         /\ g[Len(h) + 1] = x /\ \A i \in DOMAIN h : i \in DOMAIN g /\ g[i] = h[i] /\ i # Len(h) + 1
         /\ \A i \in DOMAIN g : i \in DOMAIN h \/ i = Len(h) + 1
  <1> DEFINE g == Append(h, x)
  <1>1. h \in Seq(HandedTokens) /\ \A i \in DOMAIN h : h[i].session \in DOMAIN h
    BY Zenon DEF HandedTrue
  <1>2. Len(h) \in Nat /\ DOMAIN h = 1..Len(h)
    BY <1>1
  <1>3. /\ g \in Seq(HandedTokens) /\ Len(g) = Len(h) + 1
        /\ \A i \in 1..Len(h) : g[i] = h[i]
        /\ g[Len(h) + 1] = x
    BY <1>1
  <1>4. DOMAIN g = 1..(Len(h) + 1)
    BY <1>3
  <1> HIDE DEF g
  <1>5. /\ \A i \in DOMAIN h : i \in DOMAIN g /\ g[i] = h[i] /\ i # Len(h) + 1
        /\ \A i \in DOMAIN g : i \in DOMAIN h \/ i = Len(h) + 1
    BY <1>2, <1>3, <1>4
  <1>6. Len(h) + 1 \in DOMAIN g
    BY <1>2, <1>4
  <1>7. \A i \in DOMAIN g : g[i].session \in DOMAIN g
    BY <1>1, <1>3, <1>5, <1>6, Zenon
  <1> QED
    BY <1>2, <1>3, <1>4, <1>5, <1>7, Zenon DEF HandedTrue, g

\* The entries of other sessions are as true as they were.
LEMMA OthersMinted ==
  ASSUME NEW h, HandedTrue(h), NEW x \in HandedTokens, x.session \in DOMAIN h \/ x.session = Len(h) + 1,
         NEW e, NEW s, NEW a \in Int, NEW b \in Int, a <= b, EntryTrue(e, s, h, a), e.session # x.session
  PROVE  EntryTrue(e, s, Append(h, x), b)
  <1> DEFINE g == Append(h, x)
  <1>1. /\ g[Len(h) + 1] = x /\ \A i \in DOMAIN h : i \in DOMAIN g /\ g[i] = h[i] /\ i # Len(h) + 1
        /\ \A i \in DOMAIN g : i \in DOMAIN h \/ i = Len(h) + 1
    BY Minted, Zenon
  <1> HIDE DEF g
  <1>2. e \in Entries /\ e.session \in DOMAIN h /\ e.createdAt <= a
    BY Zenon DEF EntryTrue
  <1>3. e.createdAt \in Int
    BY <1>2, LimitsAssumption DEF Entries, Times
  <1>4. e.createdAt <= b
    BY <1>2, <1>3
  <1>5. ASSUME NEW t \in e.tokens
        PROVE  /\ t \in DOMAIN g /\ g[t].session = e.session
               /\ g[t].claims = [slot |-> s, user |-> e.user, createdAt |-> e.createdAt]
    <2>1. /\ t \in DOMAIN h /\ h[t].session = e.session
          /\ h[t].claims = [slot |-> s, user |-> e.user, createdAt |-> e.createdAt]
      BY Zenon DEF EntryTrue
    <2>2. t \in DOMAIN g /\ g[t] = h[t]
      BY <1>1, <2>1, Zenon
    <2> QED
      BY <2>1, <2>2, Zenon
  <1>6. ASSUME NEW i \in DOMAIN g, g[i].session = e.session PROVE g[i].at <= e.issuedAt
    <2>1. i \in DOMAIN h /\ g[i] = h[i]
      BY <1>1, <1>6, Zenon
    <2> QED
      BY <1>6, <2>1, Zenon DEF EntryTrue
  <1> QED
    BY <1>1, <1>2, <1>4, <1>5, <1>6, Zenon DEF EntryTrue, g

\* Tokens of one session stay apart when none of them is younger than one interval.
LEMMA SpacedMinted ==
  ASSUME NEW h, HandedTrue(h), NEW x \in HandedTokens, x.session \in DOMAIN h \/ x.session = Len(h) + 1,
         \A i, j \in DOMAIN h :
            i < j /\ h[i].session = h[j].session => h[j].at - h[i].at >= ReissueAfter,
         \A i \in DOMAIN h : h[i].session = x.session => x.at - h[i].at >= ReissueAfter
  PROVE  \A i, j \in DOMAIN Append(h, x) :
            i < j /\ Append(h, x)[i].session = Append(h, x)[j].session
                => Append(h, x)[j].at - Append(h, x)[i].at >= ReissueAfter
  <1> DEFINE g == Append(h, x)
  <1>1. /\ Len(h) \in Nat /\ DOMAIN h = 1..Len(h) /\ DOMAIN g = 1..(Len(h) + 1)
        /\ g[Len(h) + 1] = x /\ \A i \in DOMAIN h : i \in DOMAIN g /\ g[i] = h[i] /\ i # Len(h) + 1
        /\ \A i \in DOMAIN g : i \in DOMAIN h \/ i = Len(h) + 1
    BY Minted, Zenon
  <1> HIDE DEF g
  <1> SUFFICES ASSUME NEW i \in DOMAIN g, NEW j \in DOMAIN g, i < j, g[i].session = g[j].session
               PROVE  g[j].at - g[i].at >= ReissueAfter
    BY Zenon DEF g
  <1>2. i \in DOMAIN h
    BY <1>1
  <1>3. CASE j \in DOMAIN h
    BY <1>1, <1>2, <1>3, Zenon
  <1>4. CASE j = Len(h) + 1
    BY <1>1, <1>2, <1>4, Zenon
  <1> QED
    BY <1>1, <1>3, <1>4, Zenon

-----------------------------------------------------------------------------
(* The steps.                                                                *)

\* The session a creation makes.
NewEntry(u) ==
    [user |-> u, createdAt |-> CreatedAt, tokens |-> {NextToken}, issuedAt |-> now, session |-> NextToken]
NewHanded(u) ==
    [claims |-> [slot |-> NewSlot(Ready), user |-> u, createdAt |-> CreatedAt],
     session |-> NextToken, at |-> now]

\* A creation takes a slot of what it finds, with a session nobody had and its token.
LEMMA CreateIs ==
  ASSUME NEW u, Create(u)
  PROVE  /\ store' = TakenBy(Ready, NewEntry(u)) /\ lastCreatedAt' = CreatedAt /\ now' = now
         /\ handed' = Append(handed, NewHanded(u)) /\ NextToken <= MaxTokens
  <1> DEFINE slot == IF Ready.free = <<>> THEN Cardinality(DOMAIN Ready.slots)
                     ELSE Ready.free[Len(Ready.free)]
             entry == [user |-> u, createdAt |-> CreatedAt, tokens |-> {NextToken}, issuedAt |-> now,
                       session |-> NextToken]
  <1>1. slot = NewSlot(Ready) /\ entry = NewEntry(u)
    BY Zenon DEF NewSlot, NewEntry
  <1>2. /\ NextToken <= MaxTokens
        /\ store' = [Ready EXCEPT
                !.slots = [s \in DOMAIN Ready.slots \union {slot} |->
                              IF s = slot THEN entry ELSE Ready.slots[s]],
                !.free = SubSeq(@, 1, Len(@) - 1),
                !.order = Append(@, slot),
                !.liveCount = @ + 1]
        /\ lastCreatedAt' = CreatedAt
        /\ handed' = Append(handed, [claims |-> [slot |-> slot, user |-> u, createdAt |-> CreatedAt],
                                     session |-> NextToken, at |-> now])
        /\ now' = now
    BY Zenon DEF Create
  <1> HIDE DEF slot, entry
  <1> QED
    BY <1>1, <1>2, Zenon DEF TakenBy, NewHanded

\* A new session takes the last free slot, or a new one below the ceiling, and stands last in the
\* order (create).
LEMMA CreateKeeps ==
  ASSUME Counting, StoreInv, NEW u \in Users, Create(u)
  PROVE  StoreInv'
  <1> DEFINE e == NewEntry(u)
             x == NewHanded(u)
             r == Ready
             slot == NewSlot(Ready)
  <1>1. /\ store' = TakenBy(r, e) /\ lastCreatedAt' = CreatedAt /\ now' = now
        /\ handed' = Append(handed, x) /\ NextToken <= MaxTokens
    BY CreateIs, Zenon
  <1>2. /\ WellKept(r) /\ DOMAIN r.slots = DOMAIN store.slots /\ ~Full(r)
        /\ Sessions(r, handed, lastCreatedAt)
    BY ReadyKept, Zenon
  <1>3. lastCreatedAt \in Times /\ now \in Times /\ HandedTrue(handed) /\ TokensAreSpaced
    BY Zenon DEF StoreInv
  <1>4. Cardinality(DOMAIN r.slots) <= MaxSessions
    BY <1>2, Zenon DEF StoreInv, CeilingHolds
  <1>5. Len(handed) \in Nat /\ DOMAIN handed = 1..Len(handed)
    BY <1>3 DEF HandedTrue
  <1>6. CreatedAt \in Times /\ lastCreatedAt <= CreatedAt /\ NextToken \in 1..MaxTokens
        /\ NextToken = Len(handed) + 1
    BY <1>1, <1>3, <1>5, LimitsAssumption DEF CreatedAt, Times, NextToken
  <1>7. e \in Entries
    BY <1>3, <1>6, Zenon DEF NewEntry, Entries
  <1>8. e # NONE
    BY <1>7, NoneAssumption, Zenon
  <1>9. /\ e.session = NextToken /\ e.createdAt = CreatedAt /\ e.tokens = {NextToken}
        /\ e.issuedAt = now /\ e.user = u
    BY Zenon DEF NewEntry
  <1>10. /\ WellKept(store') /\ Cardinality(DOMAIN store'.slots) <= MaxSessions
         /\ slot \in 0..MaxSessions /\ slot \notin Occupied(r) /\ slot \notin Members(Standing(r))
         /\ store'.slots[slot] = e /\ \A s \in DOMAIN r.slots : s # slot => store'.slots[s] = r.slots[s]
         /\ Occupied(store') = Occupied(r) \union {slot}
         /\ Stand(store') = Stand(r) + 1 /\ Standing(store')[Stand(r) + 1] = slot
         /\ \A i \in 1..Stand(r) : Standing(store')[i] = Standing(r)[i]
    <2>1. PICK q, f : q = r /\ f = e
      BY Zenon
    <2>2. slot = NewSlot(q) /\ store' = TakenBy(q, f)
      BY <1>1, <2>1, Zenon
    <2> HIDE DEF e, r, slot
    <2>3. WellKept(q) /\ ~Full(q) /\ Cardinality(DOMAIN q.slots) <= MaxSessions /\ f # NONE
      BY <1>2, <1>4, <1>8, <2>1, Zenon
    <2>4. Takes(store', q, f)
      BY <2>2, <2>3, TakingASlot, Zenon
    <2>5. Takes(store', r, e) /\ slot = NewSlot(r)
      BY <2>1, <2>2, <2>4, Zenon
    <2> QED
      BY <2>5, Zenon DEF Takes
  <1>11. x \in HandedTokens /\ x.session = Len(handed) + 1 /\ x.at = now
         /\ x.claims = [slot |-> slot, user |-> e.user, createdAt |-> e.createdAt]
    <2>1. [slot |-> slot, user |-> u, createdAt |-> CreatedAt] \in Claims
      BY <1>6, <1>10, Zenon DEF Claims
    <2>2. /\ x.claims = [slot |-> slot, user |-> u, createdAt |-> CreatedAt] /\ x.session = NextToken
          /\ x.at = now /\ x = [claims |-> [slot |-> slot, user |-> u, createdAt |-> CreatedAt],
                                session |-> NextToken, at |-> now]
      BY Zenon DEF NewHanded
    <2>3. x \in HandedTokens
      BY <1>3, <1>6, <2>1, <2>2, Zenon DEF HandedTokens
    <2> QED
      BY <1>6, <1>9, <2>2, <2>3, Zenon
  <1> HIDE DEF e, x, r, slot
  <1>12. /\ HandedTrue(handed') /\ DOMAIN handed' = 1..(Len(handed) + 1)
         /\ handed'[Len(handed) + 1] = x
         /\ \A i \in DOMAIN handed : i \in DOMAIN handed' /\ handed'[i] = handed[i] /\ i # Len(handed) + 1
         /\ \A i \in DOMAIN handed' : i \in DOMAIN handed \/ i = Len(handed) + 1
    BY <1>1, <1>3, <1>11, Minted, Zenon
  <1>13. \A i \in DOMAIN handed : handed[i].session # Len(handed) + 1
    BY <1>3, <1>5 DEF HandedTrue
  <1>14. \A s \in Occupied(r) : s # slot /\ s \in DOMAIN r.slots /\ store'.slots[s] = r.slots[s]
    BY <1>10, Zenon DEF Occupied
  <1>15. \A s \in Occupied(r) : /\ EntryTrue(r.slots[s], s, handed, lastCreatedAt)
                                /\ r.slots[s].session \in DOMAIN handed
                                /\ r.slots[s].session # Len(handed) + 1
                                /\ r.slots[s].createdAt <= lastCreatedAt /\ r.slots[s].createdAt \in Int
    <2> TAKE s \in Occupied(r)
    <2>1. EntryTrue(r.slots[s], s, handed, lastCreatedAt)
      BY <1>2, Zenon DEF Sessions
    <2>2. r.slots[s] \in Entries /\ r.slots[s].session \in DOMAIN handed /\ r.slots[s].createdAt <= lastCreatedAt
      BY <2>1, Zenon DEF EntryTrue
    <2>3. r.slots[s].createdAt \in Int
      BY <2>2, LimitsAssumption DEF Entries, Times
    <2> QED
      BY <1>5, <2>1, <2>2, <2>3
  <1>16. lastCreatedAt \in Int /\ CreatedAt \in Int
    BY <1>3, <1>6, LimitsAssumption DEF Times
  <1>17. ASSUME NEW s \in Occupied(store') PROVE EntryTrue(store'.slots[s], s, handed', lastCreatedAt')
    <2>1. CASE s \in Occupied(r)
      <3>1. EntryTrue(r.slots[s], s, Append(handed, x), CreatedAt)
        <4>1. PICK f : f = r.slots[s]
          BY Zenon
        <4>2. EntryTrue(f, s, handed, lastCreatedAt) /\ f.session # x.session
          BY <1>11, <1>15, <2>1, <4>1, Zenon
        <4>3. EntryTrue(f, s, Append(handed, x), CreatedAt)
          BY <1>3, <1>6, <1>11, <1>16, <4>2, OthersMinted, Zenon
        <4> QED
          BY <4>1, <4>3, Zenon
      <3> QED
        BY <1>1, <1>14, <2>1, <3>1, Zenon
    <2>2. CASE s = slot
      <3>1. Len(handed) + 1 \in DOMAIN handed'
        BY <1>5, <1>12
      <3>2. e.session = Len(handed) + 1 /\ e.tokens = {Len(handed) + 1}
        BY <1>6, <1>9, Zenon
      <3>3. ASSUME NEW t \in e.tokens
            PROVE  /\ t \in DOMAIN handed' /\ handed'[t].session = e.session
                   /\ handed'[t].claims = [slot |-> slot, user |-> e.user, createdAt |-> e.createdAt]
        <4>1. t = Len(handed) + 1
          BY <3>2, Zenon
        <4> QED
          BY <1>11, <1>12, <3>1, <3>2, <4>1, Zenon
      <3>4. ASSUME NEW i \in DOMAIN handed', handed'[i].session = e.session PROVE handed'[i].at <= e.issuedAt
        <4>1. i = Len(handed) + 1
          BY <1>12, <1>13, <3>2, <3>4, Zenon
        <4>2. handed'[i].at = now /\ e.issuedAt = now /\ now \in Int
          BY <1>3, <1>9, <1>11, <1>12, <4>1, LimitsAssumption DEF Times
        <4> QED
          BY <4>2
      <3>5. e.createdAt <= CreatedAt
        BY <1>9, <1>16
      <3>6. EntryTrue(e, slot, handed', CreatedAt)
        BY <1>7, <3>1, <3>2, <3>3, <3>4, <3>5, Zenon DEF EntryTrue
      <3> QED
        BY <1>1, <1>10, <2>2, <3>6, Zenon
    <2> QED
      BY <1>10, <2>1, <2>2, Zenon
  <1>18. \A s, t \in Occupied(store') : store'.slots[s].session = store'.slots[t].session => s = t
    <2>1. \A s, t \in Occupied(r) : r.slots[s].session = r.slots[t].session => s = t
      BY <1>2, Zenon DEF Sessions
    <2>2. e.session = Len(handed) + 1
      BY <1>6, <1>9, Zenon
    <2> QED
      BY <1>10, <1>14, <1>15, <2>1, <2>2
  <1>19. InOrder(store')
    <2>1. /\ Stand(r) \in Nat
          /\ \A i \in 1..Stand(r) : Standing(r)[i] \in Members(Standing(r))
      <3>1. Stand(r) \in Nat /\ DOMAIN Standing(r) = 1..Stand(r)
        BY <1>2, StandingIs, Zenon DEF WellKept
      <3> QED
        BY <3>1, Zenon DEF Members
    <2> SUFFICES ASSUME NEW i \in 1..Stand(store'), NEW j \in 1..Stand(store'), i < j,
                        Standing(store')[i] \in Occupied(store'), Standing(store')[j] \in Occupied(store')
                 PROVE  store'.slots[Standing(store')[i]].createdAt <= store'.slots[Standing(store')[j]].createdAt
      BY Zenon DEF InOrder
    <2>2. i \in 1..Stand(r) /\ (j \in 1..Stand(r) \/ j = Stand(r) + 1)
      BY <1>10, <2>1
    <2>3. Standing(store')[i] = Standing(r)[i] /\ Standing(r)[i] # slot
      BY <1>10, <2>1, <2>2, Zenon
    <2>4. Standing(r)[i] \in Occupied(r)
      BY <1>10, <2>3, Zenon
    <2>5. CASE j \in 1..Stand(r)
      <3>1. Standing(store')[j] = Standing(r)[j] /\ Standing(r)[j] \in Occupied(r)
        BY <1>10, <2>1, <2>5, Zenon
      <3>2. r.slots[Standing(r)[i]].createdAt <= r.slots[Standing(r)[j]].createdAt
        BY <1>2, <2>2, <2>4, <2>5, <3>1, Zenon DEF Sessions, InOrder
      <3> QED
        BY <1>14, <2>3, <2>4, <3>1, <3>2, Zenon
    <2>6. CASE j = Stand(r) + 1
      <3>1. store'.slots[Standing(store')[j]] = e /\ e.createdAt = CreatedAt
        BY <1>9, <1>10, <2>6, Zenon
      <3>2. store'.slots[Standing(store')[i]] = r.slots[Standing(r)[i]]
        BY <1>14, <2>3, <2>4, Zenon
      <3>3. r.slots[Standing(r)[i]].createdAt <= lastCreatedAt /\ r.slots[Standing(r)[i]].createdAt \in Int
        BY <1>15, <2>4, Zenon
      <3> QED
        BY <1>6, <1>16, <3>1, <3>2, <3>3
    <2> QED
      BY <2>2, <2>5, <2>6, Zenon
  <1>20. TokensAreSpaced'
    <2>1. \A i, j \in DOMAIN handed :
             i < j /\ handed[i].session = handed[j].session => handed[j].at - handed[i].at >= ReissueAfter
      BY <1>3, Zenon DEF TokensAreSpaced
    <2>2. \A i \in DOMAIN handed : handed[i].session = x.session => x.at - handed[i].at >= ReissueAfter
      BY <1>11, <1>13, Zenon
    <2>3. \A i, j \in DOMAIN Append(handed, x) :
            i < j /\ Append(handed, x)[i].session = Append(handed, x)[j].session
                => Append(handed, x)[j].at - Append(handed, x)[i].at >= ReissueAfter
      BY <1>3, <1>11, <2>1, <2>2, SpacedMinted, Zenon
    <2> QED
      BY <1>1, <2>3, Zenon DEF TokensAreSpaced
  <1>21. Sessions(store', handed', lastCreatedAt')
    BY <1>17, <1>18, <1>19, Zenon DEF Sessions
  <1>22. CeilingHolds' /\ lastCreatedAt' \in Times /\ now' \in Times
    BY <1>1, <1>3, <1>6, <1>10, Zenon DEF CeilingHolds
  <1> QED
    BY <1>10, <1>12, <1>20, <1>21, <1>22, Zenon DEF StoreInv

\* A creation that throws has handed back and changed nothing else.
LEMMA ThrowKeeps ==
  ASSUME Counting, StoreInv, CreateThrows
  PROVE  StoreInv'
  <1>1. store' = Ready /\ lastCreatedAt' = lastCreatedAt /\ now' = now /\ handed' = handed
    BY Zenon DEF CreateThrows
  <1>2. /\ WellKept(Ready) /\ DOMAIN Ready.slots = DOMAIN store.slots
        /\ Sessions(Ready, handed, lastCreatedAt)
    BY ReadyKept, Zenon
  <1>3. CeilingHolds'
    BY <1>1, <1>2, Zenon DEF StoreInv, CeilingHolds
  <1>4. TokensAreSpaced'
    BY <1>1, Zenon DEF StoreInv, TokensAreSpaced
  <1>5. lastCreatedAt \in Times /\ now \in Times /\ HandedTrue(handed)
    BY Zenon DEF StoreInv
  <1> QED
    BY <1>1, <1>2, <1>3, <1>4, <1>5, Zenon DEF StoreInv

\* q is st with e in the slot.
Puts(q, st, slot, e) ==
    /\ DOMAIN q = DOMAIN st /\ q.slots = [st.slots EXCEPT ![slot] = e] /\ q.order = st.order
    /\ q.orderHead = st.orderHead /\ q.free = st.free
    /\ q.liveCount = IF e = NONE THEN st.liveCount - 1 ELSE st.liveCount

KeepsRest(q, st, slot, e) ==
    /\ WellKept(q) /\ DOMAIN q.slots = DOMAIN st.slots /\ Standing(q) = Standing(st)
    /\ Stand(q) = Stand(st) /\ q.slots[slot] = e
    /\ \A s \in DOMAIN st.slots : s # slot => q.slots[s] = st.slots[s]
    /\ Occupied(q) = IF e = NONE THEN Occupied(st) \ {slot} ELSE Occupied(st)

\* With other contents in a slot that stands, the slots are accounted for as they were.
LEMMA SlotChanged ==
  ASSUME Counting, NEW st, NEW q, WellKept(st), NEW slot \in Occupied(st), NEW e, Puts(q, st, slot, e)
  PROVE  KeepsRest(q, st, slot, e)
  <1> USE DEF Puts
  <1>1. IsStore(st) /\ Accounts(st) /\ Short(st)
    BY Zenon DEF WellKept
  <1>2. slot \in DOMAIN st.slots /\ st.slots[slot] # NONE
    BY Zenon DEF Occupied
  <1>3. /\ DOMAIN q.slots = DOMAIN st.slots /\ q.slots[slot] = e
        /\ \A s \in DOMAIN st.slots : s # slot => q.slots[s] = st.slots[s]
        /\ q.slots = [s \in DOMAIN q.slots |-> q.slots[s]]
    BY <1>2, Zenon
  <1>4. Standing(q) = Standing(st) /\ Stand(q) = Stand(st)
    BY Zenon DEF Standing, Stand
  <1>5. Occupied(q) = IF e = NONE THEN Occupied(st) \ {slot} ELSE Occupied(st)
    BY <1>2, <1>3, Zenon DEF Occupied
  <1>6. IsFiniteSet(Occupied(st)) /\ st.liveCount = Cardinality(Occupied(st))
    <2>1. Occupied(st) \subseteq DOMAIN st.slots /\ IsFiniteSet(DOMAIN st.slots)
      BY <1>1, Zenon DEF Occupied, IsStore
    <2> QED
      BY <1>1, <2>1, CountOfPart, Zenon DEF Accounts
  <1>7. q.liveCount = Cardinality(Occupied(q))
    <2>1. Cardinality(Occupied(st) \ {slot}) = Cardinality(Occupied(st)) - 1
      BY <1>6, CountRemoving, Zenon
    <2> QED
      BY <1>5, <1>6, <2>1, Zenon
  <1>8. IsStore(q)
    BY <1>1, <1>3, Zenon DEF IsStore
  <1>9. Members(q.free) \intersect Occupied(q) = {}
    BY <1>1, <1>5, Zenon DEF Accounts
  <1>10. Accounts(q)
    BY <1>1, <1>3, <1>4, <1>7, <1>9, Zenon DEF Accounts
  <1>11. Short(q)
    BY <1>1, Zenon DEF Short
  <1> QED
    BY <1>3, <1>4, <1>5, <1>8, <1>10, <1>11, Zenon DEF WellKept, KeepsRest

\* Ending a session empties its slot and leaves it standing in the order (invalidate).
LEMMA InvalidateKeeps ==
  ASSUME Counting, StoreInv, NEW c \in Claims, NEW token \in DOMAIN handed, Invalidate(c, token)
  PROVE  StoreInv'
  <1>1. c.slot \in Occupied(store)
    BY Zenon DEF Invalidate, Find
  <1>2. store' = [store EXCEPT !.slots[c.slot] = NONE, !.liveCount = @ - 1]
        /\ lastCreatedAt' = lastCreatedAt /\ now' = now /\ handed' = handed
    BY Zenon DEF Invalidate, Emptied
  <1>3. WellKept(store) /\ DOMAIN store = {"slots", "order", "orderHead", "free", "liveCount"}
    BY Zenon DEF StoreInv, WellKept, IsStore
  <1>4. /\ store'.slots = [store.slots EXCEPT ![c.slot] = NONE] /\ store'.order = store.order
        /\ store'.orderHead = store.orderHead /\ store'.free = store.free
        /\ store'.liveCount = store.liveCount - 1 /\ DOMAIN store' = DOMAIN store
    BY <1>2, <1>3, Zenon
  <1>5. /\ WellKept(store') /\ DOMAIN store'.slots = DOMAIN store.slots
        /\ Standing(store') = Standing(store) /\ Stand(store') = Stand(store)
        /\ \A s \in DOMAIN store.slots : s # c.slot => store'.slots[s] = store.slots[s]
        /\ Occupied(store') = Occupied(store) \ {c.slot}
    <2>1. Puts(store', store, c.slot, NONE)
      BY <1>4, Zenon DEF Puts
    <2>2. KeepsRest(store', store, c.slot, NONE)
      BY <1>1, <1>3, <2>1, SlotChanged, Zenon
    <2> QED
      BY <2>2, Zenon DEF KeepsRest
  <1>6. \A s \in Occupied(store') : s \in Occupied(store) /\ store'.slots[s] = store.slots[s]
    BY <1>5, Zenon DEF Occupied
  <1>7. Sessions(store', handed, lastCreatedAt)
    <2>1. Sessions(store, handed, lastCreatedAt)
      BY Zenon DEF StoreInv
    <2>2. \A s \in Occupied(store') : EntryTrue(store'.slots[s], s, handed, lastCreatedAt)
      BY <1>6, <2>1, Zenon DEF Sessions
    <2>3. \A s, t \in Occupied(store') : store'.slots[s].session = store'.slots[t].session => s = t
      BY <1>6, <2>1, Zenon DEF Sessions
    <2>4. InOrder(store')
      BY <1>5, <1>6, <2>1 DEF Sessions, InOrder
    <2> QED
      BY <2>2, <2>3, <2>4, Zenon DEF Sessions
  <1>8. CeilingHolds' /\ TokensAreSpaced'
    BY <1>2, <1>5, Zenon DEF StoreInv, CeilingHolds, TokensAreSpaced
  <1>9. lastCreatedAt \in Times /\ now \in Times /\ HandedTrue(handed)
    BY Zenon DEF StoreInv
  <1> QED
    BY <1>2, <1>5, <1>7, <1>8, <1>9, Zenon DEF StoreInv

\* A further token carries the claims of its session, an interval after the last (refreshToken).
LEMMA RefreshKeeps ==
  ASSUME Counting, StoreInv, NEW c \in Claims, NEW token \in DOMAIN handed, RefreshToken(c, token)
  PROVE  StoreInv'
  <1> DEFINE slot == c.slot
             old == store.slots[slot]
             x == [claims |-> FreshClaims(c), session |-> old.session, at |-> now]
             e == [old EXCEPT !.tokens = @ \union {NextToken}, !.issuedAt = now]
  <1>1. slot \in Occupied(store) /\ now - old.issuedAt >= ReissueAfter /\ NextToken <= MaxTokens
    BY Zenon DEF RefreshToken, Find, Due
  <1>2. /\ store' = [store EXCEPT !.slots[slot].tokens = @ \union {NextToken}, !.slots[slot].issuedAt = now]
        /\ handed' = Append(handed, x) /\ lastCreatedAt' = lastCreatedAt /\ now' = now
    BY Zenon DEF RefreshToken
  <1>3. WellKept(store) /\ DOMAIN store = {"slots", "order", "orderHead", "free", "liveCount"}
    BY Zenon DEF StoreInv, WellKept, IsStore
  <1>4. Sessions(store, handed, lastCreatedAt) /\ HandedTrue(handed) /\ lastCreatedAt \in Times
        /\ now \in Times /\ TokensAreSpaced
    BY Zenon DEF StoreInv
  <1>5. EntryTrue(old, slot, handed, lastCreatedAt)
    BY <1>1, <1>4, Zenon DEF Sessions
  <1>6. old \in Entries /\ old.session \in DOMAIN handed /\ old.createdAt <= lastCreatedAt
    BY <1>5, Zenon DEF EntryTrue
  <1>7. Len(handed) \in Nat /\ DOMAIN handed = 1..Len(handed)
    BY <1>4 DEF HandedTrue
  <1>71. \A i \in DOMAIN handed : handed[i].at \in Int
    <2>1. \A i \in DOMAIN handed : handed[i] \in HandedTokens
      BY <1>4, <1>7 DEF HandedTrue
    <2>2. Times \subseteq Int
      BY LimitsAssumption DEF Times
    <2> QED
      BY <2>1, <2>2, Zenon DEF HandedTokens
  <1>8. NextToken \in 1..MaxTokens /\ NextToken = Len(handed) + 1
    BY <1>1, <1>7, LimitsAssumption DEF NextToken
  <1>9. /\ old.user \in Users /\ old.createdAt \in Times /\ old.tokens \in SUBSET (1..MaxTokens)
        /\ old.issuedAt \in Times /\ old.session \in 1..MaxTokens
    BY <1>6, Zenon DEF Entries
  <1>10. /\ e \in Entries /\ e.tokens = old.tokens \union {NextToken} /\ e.issuedAt = now
         /\ e.user = old.user /\ e.createdAt = old.createdAt /\ e.session = old.session
    BY <1>4, <1>6, <1>8, <1>9, Zenon DEF Entries
  <1>11. e # NONE
    BY <1>10, NoneAssumption, Zenon
  <1>12. slot \in DOMAIN store.slots
    BY <1>1, Zenon DEF Occupied
  <1>13. Puts(store', store, slot, e)
    <2>1. store'.slots = [store.slots EXCEPT ![slot] = e]
      BY <1>2, <1>3, <1>12, Zenon
    <2>2. /\ store'.order = store.order /\ store'.orderHead = store.orderHead
          /\ store'.free = store.free /\ store'.liveCount = store.liveCount /\ DOMAIN store' = DOMAIN store
      BY <1>2, <1>3, Zenon
    <2> HIDE DEF e
    <2> QED
      BY <1>11, <2>1, <2>2, Zenon DEF Puts
  <1>14. x \in HandedTokens /\ x.session = old.session /\ x.at = now
         /\ x.claims = [slot |-> slot, user |-> old.user, createdAt |-> old.createdAt]
    <2>1. c.slot \in 0..MaxSessions
      BY Zenon DEF Claims
    <2>2. FreshClaims(c) = [slot |-> slot, user |-> old.user, createdAt |-> old.createdAt]
      BY Zenon DEF FreshClaims
    <2>3. FreshClaims(c) \in Claims
      BY <1>9, <2>1, <2>2 DEF Claims
    <2> QED
      BY <1>4, <1>9, <2>2, <2>3, Zenon DEF HandedTokens
  <1> HIDE DEF e, x, old, slot
  <1>15. KeepsRest(store', store, slot, e)
    <2>1. PICK st, q, f : st = store /\ q = store' /\ f = e
      BY Zenon
    <2>2. WellKept(st) /\ slot \in Occupied(st) /\ Puts(q, st, slot, f)
      BY <1>1, <1>3, <1>13, <2>1, Zenon
    <2>3. KeepsRest(q, st, slot, f)
      BY <2>2, SlotChanged, Zenon
    <2> QED
      BY <2>1, <2>3, Zenon
  <1>16. /\ WellKept(store') /\ DOMAIN store'.slots = DOMAIN store.slots
         /\ Standing(store') = Standing(store) /\ Stand(store') = Stand(store) /\ store'.slots[slot] = e
         /\ \A s \in DOMAIN store.slots : s # slot => store'.slots[s] = store.slots[s]
         /\ Occupied(store') = Occupied(store)
    BY <1>11, <1>15, Zenon DEF KeepsRest
  <1>17. /\ HandedTrue(handed') /\ handed'[Len(handed) + 1] = x
         /\ DOMAIN handed' = 1..(Len(handed) + 1)
         /\ \A i \in DOMAIN handed : i \in DOMAIN handed' /\ handed'[i] = handed[i] /\ i # Len(handed) + 1
         /\ \A i \in DOMAIN handed' : i \in DOMAIN handed \/ i = Len(handed) + 1
    <2>0. PICK h : h = handed
      BY Zenon
    <2>1. PICK y \in HandedTokens : h = handed /\ y = x
      BY <1>14, <2>0, Zenon
    <2>2. HandedTrue(h) /\ (y.session \in DOMAIN h \/ y.session = Len(h) + 1)
      BY <1>4, <1>6, <1>14, <2>1, Zenon
    <2>3. /\ HandedTrue(Append(h, y)) /\ Len(h) \in Nat /\ DOMAIN h = 1..Len(h)
          /\ DOMAIN Append(h, y) = 1..(Len(h) + 1) /\ Append(h, y)[Len(h) + 1] = y
          /\ \A i \in DOMAIN h : i \in DOMAIN Append(h, y) /\ Append(h, y)[i] = h[i] /\ i # Len(h) + 1
          /\ \A i \in DOMAIN Append(h, y) : i \in DOMAIN h \/ i = Len(h) + 1
      BY <2>2, Minted, Zenon
    <2> QED
      BY <1>2, <2>1, <2>3, Zenon
  <1>18. \A s \in Occupied(store) : s # slot => store'.slots[s] = store.slots[s]
    BY <1>16, Zenon DEF Occupied
  <1>19. ASSUME NEW s \in Occupied(store), s # slot
         PROVE  EntryTrue(store'.slots[s], s, handed', lastCreatedAt)
    <2>0. PICK h, f : h = handed /\ f = store.slots[s]
      BY Zenon
    <2>1. PICK y \in HandedTokens, a \in Int :
            h = handed /\ y = x /\ a = lastCreatedAt /\ f = store.slots[s]
      BY <1>4, <1>14, <2>0, LimitsAssumption DEF Times
    <2>2. EntryTrue(f, s, h, a) /\ HandedTrue(h) /\ (y.session \in DOMAIN h \/ y.session = Len(h) + 1)
      BY <1>4, <1>6, <1>14, <2>1, Zenon DEF Sessions
    <2>3. f.session # y.session
      <3>1. store.slots[s].session # store.slots[slot].session
        BY <1>1, <1>4, <1>19, Zenon DEF Sessions
      <3> QED
        BY <1>14, <2>1, <3>1, Zenon DEF old
    <2>4. a <= a
      BY <2>1
    <2>5. EntryTrue(f, s, Append(h, y), a)
      BY <2>2, <2>3, <2>4, OthersMinted, Zenon
    <2> QED
      BY <1>2, <1>18, <1>19, <2>1, <2>5, Zenon
  <1>20. EntryTrue(e, slot, handed', lastCreatedAt)
    <2>1. Len(handed) + 1 \in DOMAIN handed'
      BY <1>7, <1>17
    <2>2. ASSUME NEW t \in e.tokens
          PROVE  /\ t \in DOMAIN handed' /\ handed'[t].session = e.session
                 /\ handed'[t].claims = [slot |-> slot, user |-> e.user, createdAt |-> e.createdAt]
      <3>1. t \in old.tokens \/ t = Len(handed) + 1
        BY <1>8, <1>10, Zenon
      <3>2. CASE t \in old.tokens
        <4>1. /\ t \in DOMAIN handed /\ handed[t].session = old.session
              /\ handed[t].claims = [slot |-> slot, user |-> old.user, createdAt |-> old.createdAt]
          BY <1>5, <3>2, Zenon DEF EntryTrue
        <4>2. t \in DOMAIN handed' /\ handed'[t] = handed[t]
          BY <1>17, <4>1, Zenon
        <4> QED
          BY <1>10, <4>1, <4>2, Zenon
      <3>3. CASE t = Len(handed) + 1
        BY <1>10, <1>14, <1>17, <2>1, <3>3, Zenon
      <3> QED
        BY <3>1, <3>2, <3>3, Zenon
    <2>3. now \in Int /\ old.issuedAt \in Int /\ ReissueAfter \in Nat
      BY <1>4, <1>9, LimitsAssumption DEF Times
    <2>4. ASSUME NEW i \in DOMAIN handed', handed'[i].session = e.session PROVE handed'[i].at <= e.issuedAt
      <3>1. CASE i \in DOMAIN handed
        <4>1. handed'[i] = handed[i] /\ handed[i].session = old.session
          BY <1>10, <1>17, <2>4, <3>1, Zenon
        <4>2. handed[i].at <= old.issuedAt
          BY <1>5, <3>1, <4>1, Zenon DEF EntryTrue
        <4>3. handed[i].at \in Int
          BY <1>71, <3>1, Zenon
        <4>4. old.issuedAt <= now
          BY <1>1, <2>3 DEF old
        <4> QED
          BY <1>10, <2>3, <4>1, <4>2, <4>3, <4>4
      <3>2. CASE i = Len(handed) + 1
        BY <1>10, <1>14, <1>17, <2>3, <3>2
      <3> QED
        BY <1>17, <3>1, <3>2, Zenon
    <2>5. e.session \in DOMAIN handed' /\ e.createdAt <= lastCreatedAt
      BY <1>6, <1>10, <1>17, Zenon
    <2> QED
      BY <1>10, <2>2, <2>4, <2>5, Zenon DEF EntryTrue
  <1>21. Sessions(store', handed', lastCreatedAt')
    <2>1. \A s \in Occupied(store') : EntryTrue(store'.slots[s], s, handed', lastCreatedAt')
      BY <1>2, <1>16, <1>19, <1>20, Zenon
    <2>2. \A s \in Occupied(store) : /\ store'.slots[s].session = store.slots[s].session
                                     /\ store'.slots[s].createdAt = store.slots[s].createdAt
      BY <1>10, <1>16, <1>18, Zenon DEF old
    <2>3. \A s, t \in Occupied(store') : store'.slots[s].session = store'.slots[t].session => s = t
      BY <1>4, <1>16, <2>2, Zenon DEF Sessions
    <2>4. InOrder(store')
      BY <1>4, <1>16, <2>2 DEF Sessions, InOrder
    <2> QED
      BY <2>1, <2>3, <2>4, Zenon DEF Sessions
  <1>22. TokensAreSpaced'
    <2>0. PICK h : h = handed
      BY Zenon
    <2>1. PICK y \in HandedTokens : h = handed /\ y = x
      BY <1>14, <2>0, Zenon
    <2>2. HandedTrue(h) /\ (y.session \in DOMAIN h \/ y.session = Len(h) + 1)
      BY <1>4, <1>6, <1>14, <2>1, Zenon
    <2>3. \A i, j \in DOMAIN h : i < j /\ h[i].session = h[j].session => h[j].at - h[i].at >= ReissueAfter
      BY <1>4, <2>1, Zenon DEF TokensAreSpaced
    <2>4. \A i \in DOMAIN h : h[i].session = y.session => y.at - h[i].at >= ReissueAfter
      <3> SUFFICES ASSUME NEW i \in DOMAIN handed, handed[i].session = old.session
                   PROVE  now - handed[i].at >= ReissueAfter
        BY <1>14, <2>1, Zenon
      <3>1. handed[i].at <= old.issuedAt
        BY <1>5, Zenon DEF EntryTrue
      <3>2. now \in Int /\ old.issuedAt \in Int /\ ReissueAfter \in Nat
        BY <1>4, <1>9, LimitsAssumption DEF Times
      <3>3. handed[i].at \in Int
        BY <1>71, Zenon
      <3>4. now - old.issuedAt >= ReissueAfter
        BY <1>1, Zenon DEF old
      <3> QED
        BY <3>1, <3>2, <3>3, <3>4
    <2>5. \A i, j \in DOMAIN Append(h, y) :
            i < j /\ Append(h, y)[i].session = Append(h, y)[j].session
                => Append(h, y)[j].at - Append(h, y)[i].at >= ReissueAfter
      BY <2>2, <2>3, <2>4, SpacedMinted, Zenon
    <2> QED
      BY <1>2, <2>1, <2>5, Zenon DEF TokensAreSpaced
  <1>23. CeilingHolds'
    BY <1>16, Zenon DEF StoreInv, CeilingHolds
  <1> QED
    BY <1>2, <1>4, <1>16, <1>17, <1>21, <1>22, <1>23, Zenon DEF StoreInv

\* The store is empty at first.
LEMMA InitKept ==
  ASSUME Counting, Init
  PROVE  StoreInv
  <1> USE DEF Init
  <1>1. /\ store.slots = [s \in {} |-> NONE] /\ store.order = <<>> /\ store.orderHead = 0
        /\ store.free = <<>> /\ store.liveCount = 0
        /\ DOMAIN store = {"slots", "order", "orderHead", "free", "liveCount"}
    BY Zenon
  <1>2. /\ DOMAIN store.slots = {} /\ IsFiniteSet(DOMAIN store.slots) /\ Cardinality(DOMAIN store.slots) = 0
        /\ store.slots = [s \in DOMAIN store.slots |-> store.slots[s]]
    BY <1>1, CountOfNone, Zenon
  <1>3. DOMAIN store.slots = 0..(Cardinality(DOMAIN store.slots) - 1)
    BY <1>2
  <1>4. Len(store.order) = 0 /\ store.order \in Seq(DOMAIN store.slots) /\ store.free \in Seq(DOMAIN store.slots)
    BY <1>1
  <1>5. IsStore(store)
    BY <1>1, <1>2, <1>3, <1>4 DEF IsStore
  <1>6. Stand(store) = 0 /\ DOMAIN Standing(store) = {}
    <2>1. Stand(store) = 0
      BY <1>1, <1>4 DEF Stand
    <2>2. DOMAIN Standing(store) = 1..Stand(store)
      BY <1>5, StandingIs, Zenon
    <2> QED
      BY <2>1, <2>2
  <1>7. Occupied(store) = {}
    BY <1>2, Zenon DEF Occupied
  <1>8. Members(Standing(store)) = {} /\ Members(store.free) = {} /\ Injective(Standing(store)) /\ Injective(store.free)
    BY <1>1, <1>6 DEF Members, Injective
  <1>9. Accounts(store)
    BY <1>1, <1>2, <1>7, <1>8, CountOfNone, Zenon DEF Accounts
  <1>10. Short(store)
    BY <1>1, LimitsAssumption DEF Short
  <1>11. Sessions(store, handed, lastCreatedAt)
    BY <1>6, <1>7, Zenon DEF Sessions, InOrder
  <1>12. lastCreatedAt \in Times /\ now \in Times /\ CeilingHolds
    BY <1>2, LimitsAssumption DEF Times, CeilingHolds
  <1>13. HandedTrue(handed) /\ TokensAreSpaced
    BY DEF HandedTrue, TokensAreSpaced
  <1> QED
    BY <1>5, <1>9, <1>10, <1>11, <1>12, <1>13, Zenon DEF StoreInv, WellKept

\* Every step, the clock included, keeps the inductive invariant.
LEMMA StepKeeps ==
  ASSUME Counting, StoreInv, [Next]_vars
  PROVE  StoreInv'
  <1>1. ASSUME NEW t \in Times, Clock(t) PROVE StoreInv'
    <2>1. now' = t /\ store' = store /\ lastCreatedAt' = lastCreatedAt /\ handed' = handed
      BY <1>1, Zenon DEF Clock
    <2>2. CeilingHolds' /\ TokensAreSpaced'
      BY <2>1, Zenon DEF StoreInv, CeilingHolds, TokensAreSpaced
    <2> QED
      BY <2>1, <2>2, Zenon DEF StoreInv
  <1>2. CASE UNCHANGED vars
    <2>1. now' = now /\ store' = store /\ lastCreatedAt' = lastCreatedAt /\ handed' = handed
      BY <1>2, Zenon DEF vars
    <2>2. CeilingHolds' /\ TokensAreSpaced'
      BY <2>1, Zenon DEF StoreInv, CeilingHolds, TokensAreSpaced
    <2> QED
      BY <2>1, <2>2, Zenon DEF StoreInv
  <1>3. CASE Creating
    BY <1>3, ThrowKeeps, CreateKeeps, Zenon DEF Creating
  <1>4. ASSUME NEW c \in Claims, NEW token \in DOMAIN handed, RefreshToken(c, token) \/ Invalidate(c, token)
        PROVE  StoreInv'
    BY <1>4, RefreshKeeps, InvalidateKeeps, Zenon
  <1> QED
    BY <1>1, <1>2, <1>3, <1>4, Zenon DEF Next

-----------------------------------------------------------------------------
(* What follows from it.                                                     *)

\* No more stands than there are slots.
LEMMA StandsInSlots ==
  ASSUME Counting, NEW st, WellKept(st)
  PROVE  Stand(st) \in Nat /\ Cardinality(DOMAIN st.slots) \in Nat /\ Stand(st) <= Cardinality(DOMAIN st.slots)
  <1>1. /\ Stand(st) \in Nat /\ Standing(st) \in Seq(DOMAIN st.slots) /\ Len(Standing(st)) = Stand(st)
        /\ IsFiniteSet(DOMAIN st.slots) /\ Injective(Standing(st))
        /\ Members(Standing(st)) \subseteq DOMAIN st.slots
    BY StandingIs, Zenon DEF WellKept, IsStore, Accounts
  <1>2. Range(Standing(st)) = Members(Standing(st)) /\ IsInjective(Standing(st))
    BY <1>1, Zenon DEF Range, Members, IsInjective, Injective
  <1>3. Len(Standing(st)) = Cardinality(Range(Standing(st)))
    BY <1>1, <1>2, LengthOfInjective, Zenon
  <1>4. Cardinality(Members(Standing(st))) <= Cardinality(DOMAIN st.slots) /\ Cardinality(DOMAIN st.slots) \in Nat
    BY <1>1, CountOfPart, CountIsNat, Zenon
  <1> QED
    BY <1>1, <1>2, <1>3, <1>4, Zenon

\* The inductive invariant says what the run checks.
LEMMA StoreInvIsTrue ==
  ASSUME Counting, StoreInv
  PROVE  StoreIsTrue
  <1>1. /\ IsStore(store) /\ Accounts(store) /\ Short(store) /\ WellKept(store) /\ CeilingHolds
        /\ HandedTrue(handed) /\ lastCreatedAt \in Times /\ now \in Times /\ TokensAreSpaced
        /\ \A s \in Occupied(store) : EntryTrue(store.slots[s], s, handed, lastCreatedAt)
    BY Zenon DEF StoreInv, WellKept, Sessions
  <1>2. \A s \in DOMAIN store.slots : store.slots[s] \in Entries \union {NONE}
    <2>1. \A s \in Occupied(store) : store.slots[s] \in Entries
      BY <1>1, Zenon DEF EntryTrue
    <2> QED
      BY <2>1, Zenon DEF Occupied
  <1>3. /\ Stand(store) \in Nat /\ Cardinality(DOMAIN store.slots) \in Nat
        /\ Stand(store) <= Cardinality(DOMAIN store.slots)
    BY <1>1, StandsInSlots, Zenon
  <1>4. TypeOK
    <2>1. store.slots \in [DOMAIN store.slots -> Entries \union {NONE}]
      BY <1>1, <1>2, Zenon DEF IsStore
    <2>2. store.slots \in [0..(Cardinality(DOMAIN store.slots) - 1) -> Entries \union {NONE}]
      BY <1>1, <2>1, Zenon DEF IsStore
    <2>3. store.liveCount \in Nat
      <3>1. Occupied(store) \subseteq DOMAIN store.slots /\ IsFiniteSet(DOMAIN store.slots)
        BY <1>1, Zenon DEF Occupied, IsStore
      <3>2. Cardinality(Occupied(store)) \in Nat
        BY <3>1, CountOfPart, CountIsNat, Zenon
      <3> QED
        BY <1>1, <3>2, Zenon DEF Accounts
    <2>4. handed \in Seq([claims : Claims, session : 1..MaxTokens, at : Times])
      BY <1>1, Zenon DEF HandedTrue, HandedTokens
    <2>5. /\ store.order \in Seq(DOMAIN store.slots) /\ store.free \in Seq(DOMAIN store.slots)
          /\ store.orderHead \in 0..Len(store.order)
      BY <1>1, Zenon DEF IsStore
    <2> QED
      BY <1>1, <2>2, <2>3, <2>4, <2>5, Zenon DEF TypeOK
  <1>5. SlotsAreAccounted
    BY <1>1, <1>4, Zenon DEF SlotsAreAccounted, Accounts
  <1>6. OrderStaysShort
    <2>1. store.orderHead \in Nat /\ Len(store.order) \in Nat /\ Len(store.order) - store.orderHead <= MaxSessions
      BY <1>1, <1>3, LimitsAssumption DEF IsStore, Stand, CeilingHolds
    <2>2. store.orderHead < CompactThreshold \/ store.orderHead * 2 < Len(store.order)
      BY <1>1, Zenon DEF Short
    <2> QED
      BY <2>1, <2>2, LimitsAssumption DEF OrderStaysShort
  <1>7. OpensItsOwnSession
    <2> SUFFICES ASSUME NEW token \in DOMAIN handed, NEW c \in Claims, Find(c, token)
                 PROVE  store.slots[c.slot].session = handed[token].session
      BY Zenon DEF OpensItsOwnSession
    <2>1. c.slot \in Occupied(store) /\ token \in store.slots[c.slot].tokens
      BY Zenon DEF Find
    <2> QED
      BY <1>1, <2>1, Zenon DEF EntryTrue
  <1>8. SignedClaimsAreTrue
    BY <1>1, Zenon DEF SignedClaimsAreTrue, EntryTrue
  <1> QED
    BY <1>1, <1>5, <1>6, <1>7, <1>8, Zenon DEF StoreIsTrue, StoreStaysBounded, TokensAreTrue

-----------------------------------------------------------------------------
(* What a creation may take away.                                            *)

\* A session that is not Dead is there and has not timed out.
LEMMA Living ==
  ASSUME NEW slot \in DOMAIN store.slots
  PROVE  ~Dead(store, slot) <=> slot \in Occupied(store) /\ IsWithinTimeout(store.slots[slot].createdAt)
  BY Zenon DEF Dead, Occupied

\* After the first session that is live there are only such sessions, and none as old as it.
LEMMA LivingOnes ==
  ASSUME Counting, StoreInv, NEW s \in Occupied(store), NEW i \in 1..Stand(store), s = Standing(store)[i],
         i > Expired(store)
  PROVE  LET first == Standing(store)[Expired(store) + 1] IN
         /\ IsWithinTimeout(store.slots[s].createdAt)
         /\ first \in Occupied(store) /\ store.slots[first].createdAt <= store.slots[s].createdAt
  <1> DEFINE n == Expired(store)
             first == Standing(store)[n + 1]
  <1>1. IsStore(store) /\ Sessions(store, handed, lastCreatedAt) /\ now \in Times
    BY Zenon DEF StoreInv, WellKept
  <1>2. /\ Stand(store) \in Nat
        /\ \A j \in 1..Stand(store) : Standing(store)[j] \in DOMAIN store.slots
    BY <1>1, StandingIs, Zenon
  <1>3. n \in 0..Stand(store) /\ (n < Stand(store) => ~Dead(store, Standing(store)[n + 1]))
    BY <1>1, ExpiredIs, Zenon
  <1> HIDE DEF n
  <1>4. n < Stand(store) /\ n + 1 \in 1..Stand(store) /\ (i = n + 1 \/ n + 1 < i)
    BY <1>2, <1>3 DEF n
  <1>5. first \in DOMAIN store.slots /\ ~Dead(store, first)
    BY <1>2, <1>3, <1>4, Zenon
  <1>6. first \in Occupied(store) /\ IsWithinTimeout(store.slots[first].createdAt)
    BY <1>5, Living, Zenon
  <1>7. \A t \in Occupied(store) : store.slots[t].createdAt \in Int
    <2>1. \A t \in Occupied(store) : store.slots[t] \in Entries
      BY <1>1, Zenon DEF Sessions, EntryTrue
    <2>2. Times \subseteq Int
      BY LimitsAssumption DEF Times
    <2> QED
      BY <2>1, <2>2, Zenon DEF Entries
  <1>8. store.slots[first].createdAt <= store.slots[s].createdAt
    <2>1. CASE i = n + 1
      BY <1>6, <1>7, <2>1
    <2>2. CASE n + 1 < i
      BY <1>1, <1>4, <1>6, <2>2, Zenon DEF Sessions, InOrder
    <2> QED
      BY <1>4, <2>1, <2>2, Zenon
  <1>9. IsWithinTimeout(store.slots[s].createdAt)
    <2>1. now \in Int /\ HardTimeout \in Int
      BY <1>1, LimitsAssumption DEF Times
    <2> QED
      BY <1>6, <1>7, <1>8, <2>1 DEF IsWithinTimeout
  <1> QED
    BY <1>6, <1>8, <1>9, Zenon DEF n

\* What a creation leaves is what it found, and a session created now.
LEMMA CreationLeaves ==
  ASSUME Counting, StoreInv, Creating
  PROVE  /\ \A s \in Occupied(Ready) : s \in Occupied(store') /\ store'.slots[s] = Ready.slots[s]
         /\ \A s \in Occupied(store') :
              \/ s \in Occupied(Ready)
              \/ store'.slots[s].createdAt = CreatedAt
  <1>1. CASE CreateThrows
    BY <1>1, Zenon DEF CreateThrows
  <1>2. ASSUME NEW u \in Users, Create(u)
        PROVE  /\ \A s \in Occupied(Ready) : s \in Occupied(store') /\ store'.slots[s] = Ready.slots[s]
               /\ \A s \in Occupied(store') : s \in Occupied(Ready) \/ store'.slots[s].createdAt = CreatedAt
    <2>1. store' = TakenBy(Ready, NewEntry(u)) /\ NextToken <= MaxTokens
      BY <1>2, CreateIs, Zenon
    <2>2. WellKept(Ready) /\ ~Full(Ready) /\ Cardinality(DOMAIN Ready.slots) <= MaxSessions
      BY ReadyKept, Zenon DEF StoreInv, CeilingHolds
    <2>3. NewEntry(u) # NONE /\ NewEntry(u).createdAt = CreatedAt
      <3>1. lastCreatedAt \in Times /\ now \in Times /\ HandedTrue(handed)
        BY Zenon DEF StoreInv
      <3>2. CreatedAt \in Times
        BY <3>1, Zenon DEF CreatedAt
      <3>3. Len(handed) \in Nat
        BY <3>1 DEF HandedTrue
      <3>4. NextToken \in 1..MaxTokens
        BY <2>1, <3>3, LimitsAssumption DEF NextToken
      <3>5. NewEntry(u) \in Entries
        BY <1>2, <3>1, <3>2, <3>4, Zenon DEF NewEntry, Entries
      <3> QED
        BY <3>5, NoneAssumption, Zenon DEF NewEntry
    <2>4. Takes(store', Ready, NewEntry(u))
      <3>1. PICK q, f : q = Ready /\ f = NewEntry(u)
        BY Zenon
      <3>2. WellKept(q) /\ ~Full(q) /\ Cardinality(DOMAIN q.slots) <= MaxSessions /\ f # NONE
        BY <2>2, <2>3, <3>1, Zenon
      <3>3. Takes(TakenBy(q, f), q, f)
        BY <3>2, TakingASlot, Zenon
      <3> QED
        BY <2>1, <3>1, <3>3, Zenon
    <2>5. /\ store'.slots[NewSlot(Ready)] = NewEntry(u) /\ NewSlot(Ready) \notin Occupied(Ready)
          /\ \A s \in DOMAIN Ready.slots : s # NewSlot(Ready) => store'.slots[s] = Ready.slots[s]
          /\ Occupied(store') = Occupied(Ready) \union {NewSlot(Ready)}
      BY <2>4, Zenon DEF Takes
    <2>6. Occupied(Ready) \subseteq DOMAIN Ready.slots
      BY Zenon DEF Occupied
    <2> QED
      BY <2>3, <2>5, <2>6, Zenon
  <1> QED
    BY <1>1, <1>2, Zenon DEF Creating

\* What stands after a creation has not timed out.
LEMMA NoneExpired ==
  ASSUME Counting, StoreInv, Creating
  PROVE  \A s \in Occupied(store') : IsWithinTimeout(store'.slots[s].createdAt)
  <1>1. PICK k \in 0..Stand(store) :
          HandsBack(Ready, store, k) /\ (k = Expired(store) \/ k = Expired(store) + 1)
    BY ReadyIs, Zenon DEF StoreInv
  <1>2. WellKept(store) /\ lastCreatedAt \in Times /\ now \in Times
    BY Zenon DEF StoreInv
  <1>3. /\ Stand(store) \in Nat /\ Expired(store) \in 0..Stand(store)
        /\ DOMAIN Standing(store) = 1..Stand(store)
    BY <1>2, StandingIs, ExpiredIs, Zenon DEF WellKept
  <1>4. ASSUME NEW s \in Occupied(Ready)
        PROVE  Ready.slots[s] = store.slots[s] /\ IsWithinTimeout(store.slots[s].createdAt)
    <2>1. s \in Occupied(store) /\ s \notin Passed(store, k) /\ Ready.slots[s] = store.slots[s]
      BY <1>1, Zenon DEF HandsBack, Occupied
    <2>2. s \in Members(Standing(store))
      BY <1>2, <2>1, Zenon DEF WellKept, Accounts, Occupied
    <2>3. PICK i \in 1..Stand(store) : s = Standing(store)[i]
      BY <1>3, <2>2, Zenon DEF Members
    <2>4. i \notin 1..k
      BY <2>1, <2>3, Zenon DEF Passed
    <2>5. i > Expired(store)
      BY <1>1, <1>3, <2>4
    <2> QED
      BY <2>1, <2>3, <2>5, LivingOnes, Zenon
  <1>5. IsWithinTimeout(CreatedAt)
    BY <1>2, LimitsAssumption DEF IsWithinTimeout, CreatedAt, Times
  <1> QED
    BY <1>4, <1>5, CreationLeaves, Zenon

\* What a creation takes of the sessions that have not timed out is the oldest of them, where
\* the store was full without it.
LEMMA OneRetired ==
  ASSUME Counting, StoreInv, Creating
  PROVE  LET young == {s \in Occupied(store) : IsWithinTimeout(store.slots[s].createdAt)}
             lost == {s \in young : s \notin Occupied(store') \/ store'.slots[s] # store.slots[s]}
         IN  /\ Cardinality(lost) <= 1
             /\ lost # {} => Cardinality(DOMAIN store.slots) = MaxSessions /\ ReclaimExpired(store).free = <<>>
             /\ \A s \in lost, t \in young : store.slots[s].createdAt <= store.slots[t].createdAt
  <1> DEFINE young == {s \in Occupied(store) : IsWithinTimeout(store.slots[s].createdAt)}
             lost == {s \in young : s \notin Occupied(store') \/ store'.slots[s] # store.slots[s]}
             n == Expired(store)
             first == Standing(store)[n + 1]
  <1>1. PICK k \in 0..Stand(store) :
          /\ HandsBack(Ready, store, k)
          /\ k = n \/ (k = n + 1 /\ Full(ReclaimExpired(store)))
    BY ReadyIs, Zenon DEF StoreInv
  <1>2. WellKept(store) /\ IsStore(store) /\ CeilingHolds
    BY Zenon DEF StoreInv, WellKept
  <1>3. /\ Stand(store) \in Nat /\ n \in 0..Stand(store) /\ DOMAIN Standing(store) = 1..Stand(store)
        /\ \A i \in 1..n : Dead(store, Standing(store)[i])
        /\ \A i \in 1..Stand(store) : Standing(store)[i] \in DOMAIN store.slots
    BY <1>2, StandingIs, ExpiredIs, Zenon
  <1> HIDE DEF n
  <1>4. ASSUME NEW s \in young
        PROVE  \E i \in 1..Stand(store) : s = Standing(store)[i] /\ i > n
    <2>1. s \in Occupied(store) /\ IsWithinTimeout(store.slots[s].createdAt) /\ s \in DOMAIN store.slots
      BY Zenon DEF Occupied
    <2>2. s \in Members(Standing(store))
      BY <1>2, <2>1, Zenon DEF WellKept, Accounts
    <2>3. PICK i \in 1..Stand(store) : s = Standing(store)[i]
      BY <1>3, <2>2, Zenon DEF Members
    <2>4. ~Dead(store, s)
      BY <2>1, Living, Zenon
    <2>5. i \notin 1..n
      BY <1>3, <2>3, <2>4, Zenon
    <2> QED
      BY <1>3, <2>3, <2>5
  <1>5. ASSUME NEW s \in lost
        PROVE  k = n + 1 /\ Full(ReclaimExpired(store)) /\ s = first
    <2>1. s \in young /\ s \in Occupied(store) /\ s \in DOMAIN store.slots
      BY Zenon DEF Occupied
    <2>2. ASSUME s \notin Passed(store, k) PROVE FALSE
      <3>1. s \in Occupied(Ready) /\ Ready.slots[s] = store.slots[s]
        BY <1>1, <2>1, <2>2, Zenon DEF HandsBack, Occupied
      <3>2. s \in Occupied(store') /\ store'.slots[s] = store.slots[s]
        BY <3>1, CreationLeaves, Zenon
      <3> QED
        BY <3>2, Zenon
    <2>3. PICK j \in 1..k : s = Standing(store)[j]
      BY <2>2, Zenon DEF Passed
    <2>4. PICK i \in 1..Stand(store) : s = Standing(store)[i] /\ i > n
      BY <1>4, <2>1, Zenon
    <2>5. j \in 1..Stand(store)
      BY <1>3, <2>3
    <2>6. i = j
      BY <1>2, <1>3, <2>3, <2>4, <2>5, Zenon DEF WellKept, Accounts, Injective
    <2>7. k = n + 1 /\ i = n + 1
      BY <1>1, <1>3, <2>3, <2>4, <2>6
    <2> QED
      BY <1>1, <1>3, <2>4, <2>7
  <1>6. Cardinality(lost) <= 1
    <2>1. lost \subseteq {first} /\ IsFiniteSet({first}) /\ Cardinality({first}) = 1
      BY <1>5, CountOfOne, Zenon
    <2> HIDE DEF lost, first
    <2> QED
      BY <2>1, CountOfPart, Zenon
  <1>7. ASSUME lost # {}
        PROVE  Cardinality(DOMAIN store.slots) = MaxSessions /\ ReclaimExpired(store).free = <<>>
    <2>1. Full(ReclaimExpired(store))
      BY <1>5, <1>7, Zenon
    <2>2. DOMAIN ReclaimExpired(store).slots = DOMAIN store.slots
      <3>1. n \in 0..Stand(store)
        BY <1>3, Zenon
      <3>2. HandsBack(Release(store, n), store, n)
        BY <1>2, <3>1, ReleaseHandsBack, Zenon DEF n
      <3> QED
        BY <3>2, Zenon DEF HandsBack, ReclaimExpired, n
    <2>3. Cardinality(DOMAIN store.slots) \in Nat
      BY <1>2, StandsInSlots, Zenon
    <2> QED
      BY <1>2, <2>1, <2>2, <2>3, LimitsAssumption DEF Full, CeilingHolds
  <1>8. ASSUME NEW s \in lost, NEW t \in young
        PROVE  store.slots[s].createdAt <= store.slots[t].createdAt
    <2>1. s = first /\ t \in Occupied(store)
      BY <1>5, Zenon
    <2>2. PICK i \in 1..Stand(store) : t = Standing(store)[i] /\ i > n
      BY <1>4, Zenon
    <2>3. store.slots[first].createdAt <= store.slots[t].createdAt
      BY <2>1, <2>2, LivingOnes, Zenon DEF n
    <2> QED
      BY <2>1, <2>3, Zenon
  <1> QED
    BY <1>6, <1>7, <1>8, Zenon

-----------------------------------------------------------------------------
(* The theorems.  What Lists takes for granted of counting is in the library. *)

INSTANCE FiniteSetTheorems

\* Finite sets are counted as the lemmas assume.
LEMMA CountingHolds == Counting
  <1>1. ASSUME NEW T \in SUBSET Nat, T # {} PROVE \E x \in T : \A y \in T : x <= y
    <2>1. PICK x \in T : \A y \in T : ~(<<y, x>> \in OpToRel(<, Nat))
      BY <1>1, NatLessThanWellFounded, WFMin, Zenon
    <2>2. \A y \in T : ~(y < x) /\ x \in Nat /\ y \in Nat
      BY <2>1, Zenon DEF OpToRel
    <2> QED
      BY <2>2
  <1>2. ASSUME NEW S, IsFiniteSet(S), NEW x
        PROVE  /\ IsFiniteSet(S \union {x}) /\ IsFiniteSet(S \ {x})
               /\ Cardinality(S \union {x}) = IF x \in S THEN Cardinality(S) ELSE Cardinality(S) + 1
               /\ Cardinality(S \ {x}) = IF x \in S THEN Cardinality(S) - 1 ELSE Cardinality(S)
    BY <1>2, FS_AddElement, FS_RemoveElement, Zenon
  <1> QED
    BY <1>1, <1>2, FS_CardinalityType, FS_EmptySet, FS_Subset, FS_Union, FS_Bijection, FS_Interval
    DEF Counting

\* Every slot is in the order or free and never in both, the order and the slots stay within
\* their bounds, and a token opens the session it was minted for, carries its claims and is
\* minted at most once per interval: whatever sessions are created, refreshed and invalidated
\* in whatever order, with the clock set back and creations that throw (SessionStore.ts).
THEOREM StoreHolds == Spec => []StoreIsTrue
  <1>1. Init => StoreInv
    BY CountingHolds, InitKept, Zenon
  <1>2. StoreInv /\ [Next]_vars => StoreInv'
    BY CountingHolds, StepKeeps, Zenon
  <1>3. StoreInv => StoreIsTrue
    BY CountingHolds, StoreInvIsTrue, Zenon
  <1> QED
    BY <1>1, <1>2, <1>3, PTL DEF Spec

\* A creation leaves no session that has timed out, and of the others it takes at most one, the
\* oldest, and only where every slot is taken (create, reclaimExpired, retireOldest): an action
\* property, for any clock that is set back in between.
THEOREM CreationHolds == Spec => CreationIsFair
  <1>1. Init => StoreInv
    BY CountingHolds, InitKept, Zenon
  <1>2. StoreInv /\ [Next]_vars => StoreInv'
    BY CountingHolds, StepKeeps, Zenon
  <1>3. StoreInv /\ [Next]_vars =>
          [Creating => \A s \in Occupied(store') : IsWithinTimeout(store'.slots[s].createdAt)]_vars
    BY CountingHolds, NoneExpired, Zenon
  <1>4. StoreInv /\ [Next]_vars =>
          [Creating =>
            LET young == {s \in Occupied(store) : IsWithinTimeout(store.slots[s].createdAt)}
                lost == {s \in young : s \notin Occupied(store') \/ store'.slots[s] # store.slots[s]}
            IN  /\ Cardinality(lost) <= 1
                /\ lost # {} => Cardinality(DOMAIN store.slots) = MaxSessions /\ ReclaimExpired(store).free = <<>>
                /\ \A s \in lost, t \in young : store.slots[s].createdAt <= store.slots[t].createdAt]_vars
    BY CountingHolds, OneRetired, Zenon
  <1>5. Spec => CreationLeavesNoneExpired
    BY <1>1, <1>2, <1>3, PTL DEF Spec, CreationLeavesNoneExpired
  <1>6. Spec => OnlyTheOldestIsRetired
    BY <1>1, <1>2, <1>4, PTL DEF Spec, OnlyTheOldestIsRetired
  <1> QED
    BY <1>5, <1>6, Zenon DEF CreationIsFair
=============================================================================
