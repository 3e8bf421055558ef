------------------------ MODULE SessionCacheProofs ------------------------
(* SessionCache keeps its counts and its table for any number of requests,   *)
(* keys, entries and slots, and implements CacheContents.                    *)
EXTENDS SessionCache, Lists, TLAPS

-----------------------------------------------------------------------------
(* The invariant.                                                            *)

\* A call that puts an entry and has not swapped it into the table yet.
Putting(u) == pc[u] \in {"put", "put_walk"}

\* The slots a key may be in.
Place(k, i) == (Home[k] + i) % Capacity
Window(k) == {Place(k, i) : i \in 0..(Probe - 1)}

\* The table points at the entry, or is about to.
Tabled(e) == (\E s \in Slots : slots[s] = e) \/ (\E u \in Users : Putting(u) /\ entry[u] = e)
Uses(u, e) ==
    \/ entry[u] = e /\ pc[u] \in {"put", "put_walk", "put_displaced", "put_free", "hold"}
    \/ displaced[u] = e /\ pc[u] = "put_displaced"
Using(e) == {u \in Users : Uses(u, e)}
One(b) == IF b THEN 1 ELSE 0

\* The call that found the count at zero and is about to free the entry.
Freeing(u, e) == (pc[u] = "free" /\ entry[u] = e) \/ (pc[u] = "put_free" /\ displaced[u] = e)

Types ==
    /\ slots \in [Slots -> MayBe(Entries)] /\ refs \in [Entries -> Nat]
    /\ keyOf \in [Entries -> MayBe(Keys)] /\ created \in [Entries -> 0..MaxTime] /\ alive \in SUBSET Entries
    /\ pc \in [Users -> Places] /\ key \in [Users -> MayBe(Keys)] /\ now \in [Users -> 0..MaxTime]
    /\ entry \in [Users -> MayBe(Entries)] /\ displaced \in [Users -> MayBe(Entries)]
    /\ step \in [Users -> 0..Probe] /\ victim \in [Users -> Slots] /\ rank \in [Users -> 0..4]
    /\ clock \in 0..MaxTime /\ open \in BOOLEAN

\* What is in a slot is allocated, in its key's window, and its key's only entry.
SlotTrue(s) ==
    slots[s] # NULL =>
        /\ slots[s] \in alive /\ keyOf[slots[s]] \in Keys /\ s \in Window(keyOf[slots[s]])
        /\ \A t \in Slots : slots[t] # NULL /\ keyOf[slots[t]] = keyOf[slots[s]] => t = s

\* What a call has in its hands.
HandsTrue(u) ==
    /\ IF pc[u] \in {"idle", "get", "get_walk"} THEN entry[u] = NULL ELSE entry[u] \in alive
    /\ pc[u] \notin {"put_displaced", "put_free"} => displaced[u] = NULL
    /\ pc[u] = "put_free" => displaced[u] # NULL
    /\ displaced[u] # NULL => /\ displaced[u] \in alive /\ displaced[u] # entry[u]
                              /\ \A s \in Slots : slots[s] # displaced[u]
    /\ pc[u] \in {"get", "get_walk", "get_found", "put", "put_walk"} => key[u] \in Keys
    /\ pc[u] = "get_found" => keyOf[entry[u]] = key[u] /\ \E s \in Slots : slots[s] = entry[u]
    /\ Putting(u) => keyOf[entry[u]] = key[u] /\ \A s \in Slots : slots[s] # entry[u]
    /\ \A e \in Entries : Freeing(u, e) => refs[e] = 0

\* How far a walk has come.
WalkTrue(u) ==
    /\ pc[u] \notin {"get_walk", "get_found", "put_walk"} => step[u] = 0
    /\ pc[u] = "put" => victim[u] = Home[key[u]] /\ rank[u] = 4
    /\ pc[u] = "put_walk" =>
          /\ victim[u] \in Window(key[u])
          /\ IF rank[u] = 0 THEN Matches(u, slots[victim[u]])
             ELSE \A i \in 0..(step[u] - 1) : ~Matches(u, slots[Place(key[u], i)])

\* Two calls do not have the same entry where only one may.
PairTrue(u, v) ==
    /\ Putting(u) => entry[v] # entry[u] /\ displaced[v] # entry[u]
    /\ displaced[u] # NULL => displaced[v] # displaced[u]
    /\ \A e \in Entries : ~(Freeing(u, e) /\ Freeing(v, e))
    /\ pc[u] = "put_walk" => pc[v] \notin {"put_walk", "get_walk", "get_found"}

RefsTrue(e) ==
    /\ refs[e] = One(Tabled(e)) + Cardinality(Using(e))
    /\ refs[e] = 0 => \E u \in Users : Freeing(u, e)

CacheInv ==
    /\ Types
    /\ \A s \in Slots : SlotTrue(s)
    /\ \A u \in Users : HandsTrue(u) /\ WalkTrue(u)
    /\ \A u, v \in Users : u # v => PairTrue(u, v)
    /\ \A e \in alive : RefsTrue(e)
    /\ ~open => alive = {} /\ \A u \in Users : pc[u] = "idle"

-----------------------------------------------------------------------------
(* The walk.                                                                 *)

LEMMA PlaceIsSlot ==
  ASSUME Sizes, NEW k \in Keys, NEW i \in Nat
  PROVE  Place(k, i) \in Slots
  <1>1. Home[k] + i \in Nat /\ Capacity \in Nat /\ Capacity > 0
    BY DEF Sizes, Slots
  <1>2. ASSUME NEW a \in Nat, NEW c \in Nat, c > 0 PROVE a % c \in 0..(c - 1)
    BY <1>2
  <1> QED
    BY <1>1, <1>2, Zenon DEF Place, Slots

LEMMA HomeInWindow ==
  ASSUME Sizes, NEW k \in Keys
  PROVE  Home[k] \in Window(k) /\ Window(k) \in SUBSET Slots
  <1>1. Home[k] \in 0..(Capacity - 1) /\ Capacity \in Nat /\ Probe \in 1..Capacity
    BY Zenon DEF Sizes, Slots
  <1>2. ASSUME NEW c \in Nat, NEW a \in 0..(c - 1) PROVE (a + 0) % c = a
    BY <1>2
  <1>3. Home[k] = Place(k, 0) /\ 0 \in 0..(Probe - 1)
    BY <1>1, <1>2 DEF Place
  <1>4. \A i \in 0..(Probe - 1) : Place(k, i) \in Slots
    BY <1>1, PlaceIsSlot
  <1> QED
    BY <1>3, <1>4, Zenon DEF Window

LEMMA Init1 == Sizes /\ Init => CacheInv
  <1> SUFFICES ASSUME Sizes, Init PROVE CacheInv
    BY Zenon
  <1>1. /\ slots = [s \in Slots |-> NULL] /\ alive = {} /\ open = FALSE
        /\ pc = [u \in Users |-> "idle"] /\ entry = [u \in Users |-> NULL] /\ displaced = [u \in Users |-> NULL]
        /\ step = [u \in Users |-> 0]
    BY Zenon DEF Init
  <1>2. Types
    <2>1. 0 \in Slots /\ 0 \in 0..MaxTime /\ 0 \in 0..Probe
      BY DEF Sizes, Slots
    <2>2. open \in BOOLEAN
      BY <1>1, Zenon
    <2>3. /\ refs \in [Entries -> Nat] /\ created \in [Entries -> 0..MaxTime] /\ now \in [Users -> 0..MaxTime]
          /\ step \in [Users -> 0..Probe] /\ victim \in [Users -> Slots] /\ rank \in [Users -> 0..4]
          /\ clock \in 0..MaxTime
      BY <2>1 DEF Init
    <2>4. /\ slots \in [Slots -> MayBe(Entries)] /\ keyOf \in [Entries -> MayBe(Keys)] /\ alive \in SUBSET Entries
          /\ pc \in [Users -> Places] /\ key \in [Users -> MayBe(Keys)]
          /\ entry \in [Users -> MayBe(Entries)] /\ displaced \in [Users -> MayBe(Entries)]
      BY Zenon DEF Init, MayBe, Places
    <2> QED
      BY <2>2, <2>3, <2>4, Zenon DEF Types
  <1>3. \A s \in Slots : SlotTrue(s)
    BY <1>1, Zenon DEF SlotTrue
  <1>4. \A u \in Users : HandsTrue(u) /\ WalkTrue(u)
    BY <1>1, Zenon DEF HandsTrue, WalkTrue, Putting, Freeing
  <1>5. \A u, v \in Users : PairTrue(u, v)
    BY <1>1, Zenon DEF PairTrue, Putting, Freeing
  <1> QED
    BY <1>1, <1>2, <1>3, <1>4, <1>5, Zenon DEF CacheInv

-----------------------------------------------------------------------------
(* Steps of a call that leave the table and the counts alone.                *)

LEMMA OthersQuiet ==
  ASSUME CacheInv, NEW u \in Users, UNCHANGED <<slots, keyOf, alive>>,
         \A v \in Users : v # u => \A e \in Entries : Freeing(v, e) => refs'[e] = refs[e],
         \A v \in Users : v # u => /\ pc'[v] = pc[v] /\ key'[v] = key[v] /\ entry'[v] = entry[v]
                                   /\ displaced'[v] = displaced[v] /\ step'[v] = step[v]
                                   /\ victim'[v] = victim[v] /\ rank'[v] = rank[v]
  PROVE  /\ \A s \in Slots : SlotTrue(s)'
         /\ \A v \in Users : v # u => HandsTrue(v)' /\ WalkTrue(v)'
         /\ \A v, w \in Users : v # u /\ w # u /\ v # w => PairTrue(v, w)'
  <1>1. \A s \in Slots : SlotTrue(s)'
    BY Zenon DEF CacheInv, SlotTrue
  <1>2. \A v \in Users : v # u => HandsTrue(v)'
    BY DEF CacheInv, HandsTrue, Putting, Freeing
  <1>3. \A v \in Users : v # u => WalkTrue(v)'
    BY DEF CacheInv, WalkTrue, Matches
  <1>4. \A v, w \in Users : v # u /\ w # u /\ v # w => PairTrue(v, w)'
    BY DEF CacheInv, PairTrue, Putting, Freeing
  <1> QED
    BY <1>1, <1>2, <1>3, <1>4, Zenon

LEMMA RefsSame ==
  ASSUME NEW e, RefsTrue(e), refs'[e] = refs[e], Tabled(e)' <=> Tabled(e),
         \A v \in Users : Uses(v, e)' <=> Uses(v, e),
         \A v \in Users : Freeing(v, e) => Freeing(v, e)'
  PROVE  RefsTrue(e)'
  <1>1. Using(e)' = Using(e)
    BY Zenon DEF Using
  <1>2. One(Tabled(e))' = One(Tabled(e))
    BY Zenon DEF One
  <1> QED
    BY <1>1, <1>2, Zenon DEF RefsTrue

LookPlaces == {"idle", "get", "get_walk", "get_found", "put", "put_walk"}
ReadPlaces == {"get_walk", "get_found"}

\* A step of a call up to its use of the table.
LEMMA QuietCall ==
  ASSUME CacheInv, NEW u \in Users, UNCHANGED <<slots, refs, keyOf, alive, displaced, open>>, open,
         \A v \in Users : v # u => /\ pc'[v] = pc[v] /\ key'[v] = key[v] /\ entry'[v] = entry[v]
                                   /\ step'[v] = step[v] /\ victim'[v] = victim[v] /\ rank'[v] = rank[v],
         Types', HandsTrue(u)', WalkTrue(u)',
         pc[u] \in LookPlaces, pc'[u] \in LookPlaces,
         Putting(u)' <=> Putting(u),
         entry'[u] = entry[u] \/ (~Putting(u) /\ \E s \in Slots : slots[s] = entry'[u]),
         pc'[u] = "put_walk" => pc[u] = "put_walk"
            \/ \A v \in Users : pc[v] # "put_walk" /\ pc[v] \notin ReadPlaces,
         pc'[u] \in ReadPlaces => pc[u] \in ReadPlaces \/ \A v \in Users : pc[v] # "put_walk"
  PROVE  CacheInv'
  <1>1. /\ \A s \in Slots : SlotTrue(s)'
        /\ \A v \in Users : v # u => HandsTrue(v)' /\ WalkTrue(v)'
        /\ \A v, w \in Users : v # u /\ w # u /\ v # w => PairTrue(v, w)'
    BY OthersQuiet, Zenon
  <1>2. ~\E e : Freeing(u, e) \/ Freeing(u, e)'
    BY Zenon DEF Freeing, LookPlaces
  <1>3. ASSUME NEW v \in Users, v # u PROVE PairTrue(u, v)' /\ PairTrue(v, u)'
    <2>1. PairTrue(u, v) /\ PairTrue(v, u) /\ HandsTrue(v) /\ HandsTrue(u)
      BY <1>3, Zenon DEF CacheInv
    <2>2. /\ Putting(v)' <=> Putting(v)
          /\ \A e \in Entries : ~(Freeing(u, e)' /\ Freeing(v, e)')
      BY <1>2, <1>3, Zenon DEF Putting
    <2>3. PairTrue(u, v)'
      <3>1. Putting(u)' => entry'[v] # entry'[u] /\ displaced'[v] # entry'[u]
        BY <1>3, <2>1, Zenon DEF PairTrue
      <3>2. pc'[u] = "put_walk" => pc'[v] \notin {"put_walk", "get_walk", "get_found"}
        BY <1>3, <2>1, Zenon DEF PairTrue, ReadPlaces
      <3> QED
        BY <2>1, <2>2, <3>1, <3>2, Zenon DEF PairTrue
    <2>4. PairTrue(v, u)'
      <3>1. Putting(v)' => entry'[u] # entry'[v] /\ displaced'[u] # entry'[v]
        BY <1>3, <2>1, <2>2 DEF PairTrue, HandsTrue
      <3>2. pc'[v] = "put_walk" => pc'[u] \notin {"put_walk", "get_walk", "get_found"}
        BY <1>3, <2>1, Zenon DEF PairTrue, ReadPlaces
      <3> QED
        BY <2>1, <2>2, <3>1, <3>2, Zenon DEF PairTrue
    <2> QED
      BY <2>3, <2>4, Zenon
  <1>4. \A v, w \in Users : v # w => PairTrue(v, w)'
    BY <1>1, <1>3, Zenon
  <1>5. ASSUME NEW e \in alive PROVE RefsTrue(e)'
    <2>1. \A v \in Users : (Putting(v) /\ entry[v] = e)' <=> (Putting(v) /\ entry[v] = e)
      BY Zenon DEF Putting
    <2>2. Tabled(e)' <=> Tabled(e)
      BY <2>1, Zenon DEF Tabled
    <2>3. ASSUME NEW v \in Users PROVE Uses(v, e)' <=> Uses(v, e)
      <3>1. CASE v # u
        BY <3>1, Zenon DEF Uses
      <3>2. CASE v = u
        <4>1. Uses(u, e) <=> Putting(u) /\ entry[u] = e
          BY Zenon DEF Uses, LookPlaces, Putting
        <4>2. Uses(u, e)' <=> (Putting(u) /\ entry[u] = e)'
          BY Zenon DEF Uses, LookPlaces, Putting
        <4> QED
          BY <2>1, <3>2, <4>1, <4>2, Zenon
      <3> QED
        BY <3>1, <3>2, Zenon
    <2>4. \A v \in Users : Freeing(v, e) => Freeing(v, e)'
      BY <1>2, Zenon DEF Freeing
    <2>5. RefsTrue(e)
      BY Zenon DEF CacheInv
    <2> QED
      BY <2>2, <2>3, <2>4, <2>5, RefsSame, Zenon
  <1> QED
    BY <1>1, <1>4, <1>5, Zenon DEF CacheInv

LEMMA GetStarts ==
  ASSUME Sizes, CacheInv, NEW u \in Users, NEW k \in Keys, Get(u, k)
  PROVE  CacheInv'
  <1>0. Types /\ HandsTrue(u) /\ WalkTrue(u)
    BY Zenon DEF CacheInv
  <1>1. /\ pc[u] = "idle" /\ open /\ pc' = [pc EXCEPT ![u] = "get"] /\ key' = [key EXCEPT ![u] = k]
        /\ now' = [now EXCEPT ![u] = clock]
        /\ UNCHANGED <<slots, refs, keyOf, created, alive, entry, displaced, step, victim, rank, clock, open>>
    BY Zenon DEF Get, Goes, entryVars
  <1>2. Types'
    BY <1>0, <1>1, Zenon DEF Types, Places, MayBe
  <1>3. /\ pc'[u] = "get" /\ key'[u] = k /\ entry'[u] = NULL /\ displaced'[u] = NULL /\ step'[u] = 0
        /\ \A v \in Users : v # u => pc'[v] = pc[v] /\ key'[v] = key[v] /\ entry'[v] = entry[v]
                                       /\ step'[v] = step[v] /\ victim'[v] = victim[v] /\ rank'[v] = rank[v]
    BY <1>0, <1>1, Zenon DEF Types, HandsTrue, WalkTrue
  <1>4. HandsTrue(u)' /\ WalkTrue(u)'
    BY <1>3, Zenon DEF HandsTrue, WalkTrue, Putting, Freeing
  <1> QED
    BY <1>1, <1>2, <1>3, <1>4, QuietCall, Zenon DEF LookPlaces, ReadPlaces, Putting

LEMMA Locks ==
  ASSUME Sizes, CacheInv, NEW u \in Users, GetLock(u) \/ PutLock(u)
  PROVE  CacheInv'
  <1>0. Types /\ HandsTrue(u) /\ WalkTrue(u) /\ open
    BY Zenon DEF CacheInv, GetLock, PutLock
  <1>1. UNCHANGED <<slots, refs, keyOf, created, alive, key, now, entry, displaced, step, victim, rank, clock, open>>
    BY Zenon DEF GetLock, PutLock, entryVars
  <1>2. CASE pc[u] = "get" /\ Writers = {} /\ pc' = [pc EXCEPT ![u] = "get_walk"]
    <2>1. Types'
      BY <1>0, <1>1, <1>2, Zenon DEF Types, Places
    <2>2. /\ pc'[u] = "get_walk" /\ entry[u] = NULL /\ displaced[u] = NULL /\ key[u] \in Keys
          /\ \A v \in Users : (v # u => pc'[v] = pc[v]) /\ pc[v] # "put_walk"
      BY <1>0, <1>2, Zenon DEF Types, HandsTrue, Writers
    <2>3. HandsTrue(u)' /\ WalkTrue(u)'
      BY <1>1, <2>2, Zenon DEF HandsTrue, WalkTrue, Putting, Freeing
    <2> QED
      BY <1>0, <1>1, <1>2, <2>1, <2>2, <2>3, QuietCall, Zenon DEF LookPlaces, ReadPlaces, Putting
  <1>3. CASE pc[u] = "put" /\ Writers = {} /\ Readers = {} /\ pc' = [pc EXCEPT ![u] = "put_walk"]
    <2>1. Types'
      BY <1>0, <1>1, <1>3, Zenon DEF Types, Places
    <2>2. /\ pc'[u] = "put_walk" /\ displaced[u] = NULL /\ key[u] \in Keys /\ entry[u] \in alive
          /\ keyOf[entry[u]] = key[u] /\ \A s \in Slots : slots[s] # entry[u]
      BY <1>0, <1>3, Zenon DEF Types, HandsTrue, Putting
    <2>3. \A v \in Users : (v # u => pc'[v] = pc[v]) /\ pc[v] # "put_walk" /\ pc[v] \notin ReadPlaces
      BY <1>0, <1>3, Zenon DEF Types, Writers, Readers, ReadPlaces
    <2>4. HandsTrue(u)'
      BY <1>1, <2>2, Zenon DEF HandsTrue, Putting, Freeing
    <2>5. WalkTrue(u)'
      <3>1. step[u] = 0 /\ victim[u] = Home[key[u]] /\ rank[u] = 4
        BY <1>0, <1>3, Zenon DEF WalkTrue
      <3>2. victim[u] \in Window(key[u])
        BY <2>2, <3>1, HomeInWindow, Zenon
      <3> QED
        BY <1>1, <2>2, <3>1, <3>2 DEF WalkTrue, Window, Place
    <2> QED
      BY <1>0, <1>1, <1>3, <2>1, <2>2, <2>3, <2>4, <2>5, QuietCall, Zenon DEF LookPlaces, ReadPlaces, Putting
  <1> QED
    BY <1>2, <1>3, Zenon DEF GetLock, PutLock, Goes

\* A lookup that ends without an entry.
LEMMA Misses ==
  ASSUME CacheInv, NEW u \in Users, pc[u] = "get_walk", pc' = [pc EXCEPT ![u] = "idle"], LocalsGone(u),
         UNCHANGED <<slots, refs, keyOf, created, alive, entry, displaced, victim, rank, clock, open>>, Sizes
  PROVE  CacheInv'
  <1>0. Types /\ HandsTrue(u) /\ WalkTrue(u) /\ open
    BY Zenon DEF CacheInv
  <1>1. Types'
    BY <1>0 DEF Types, Places, MayBe, LocalsGone, Sizes
  <1>2. /\ pc'[u] = "idle" /\ entry[u] = NULL /\ displaced[u] = NULL /\ step'[u] = 0
        /\ \A v \in Users : v # u => pc'[v] = pc[v] /\ key'[v] = key[v] /\ step'[v] = step[v]
    BY <1>0, Zenon DEF Types, HandsTrue, LocalsGone
  <1>3. HandsTrue(u)' /\ WalkTrue(u)'
    BY <1>2, Zenon DEF HandsTrue, WalkTrue, Putting, Freeing
  <1> QED
    BY <1>0, <1>1, <1>2, <1>3, QuietCall, Zenon DEF LookPlaces, ReadPlaces, Putting

LEMMA GetWalks ==
  ASSUME Sizes, CacheInv, NEW u \in Users, GetProbe(u) \/ GetMiss(u)
  PROVE  CacheInv'
  <1>0. Types /\ HandsTrue(u) /\ WalkTrue(u) /\ open /\ pc[u] = "get_walk"
    BY Zenon DEF CacheInv, GetProbe, GetMiss
  <1>1. UNCHANGED <<slots, refs, keyOf, created, alive, displaced, victim, rank, clock, open>>
    BY Zenon DEF GetProbe, GetMiss, entryVars
  <1>2. CASE pc' = [pc EXCEPT ![u] = "idle"] /\ LocalsGone(u) /\ entry' = entry
    BY <1>0, <1>1, <1>2, Misses, Zenon
  <1>3. CASE step[u] < Probe /\ step' = [step EXCEPT ![u] = @ + 1] /\ UNCHANGED <<pc, key, now, entry>>
    <2>1. Types'
      BY <1>0, <1>1, <1>3 DEF Types, Sizes
    <2>2. HandsTrue(u)' /\ WalkTrue(u)' /\ \A v \in Users : v # u => step'[v] = step[v]
      BY <1>0, <1>1, <1>3, Zenon DEF HandsTrue, WalkTrue, Putting, Freeing, Types
    <2> QED
      BY <1>0, <1>1, <1>3, <2>1, <2>2, QuietCall, Zenon DEF LookPlaces, ReadPlaces, Putting
  <1>4. CASE /\ Matches(u, slots[Candidate(u)]) /\ pc' = [pc EXCEPT ![u] = "get_found"]
             /\ entry' = [entry EXCEPT ![u] = slots[Candidate(u)]] /\ UNCHANGED <<key, now, step>>
    <2>1. key[u] \in Keys /\ displaced[u] = NULL /\ Candidate(u) \in Slots
      <3>1. key[u] \in Keys /\ displaced[u] = NULL /\ step[u] \in Nat
        BY <1>0 DEF HandsTrue, Types, Sizes
      <3> QED
        BY <3>1, PlaceIsSlot, Zenon DEF Candidate, Place
    <2>2. PICK e \in Entries : e = slots[Candidate(u)] /\ e \in alive /\ keyOf[e] = key[u]
      BY <1>0, <1>4, <2>1, Zenon DEF Types, MayBe, Matches, CacheInv, SlotTrue
    <2>3. Types'
      BY <1>0, <1>1, <1>4, <2>2, Zenon DEF Types, Places, MayBe
    <2>4. /\ pc'[u] = "get_found" /\ entry'[u] = e
          /\ \A v \in Users : v # u => pc'[v] = pc[v] /\ entry'[v] = entry[v]
      BY <1>0, <1>4, <2>2, Zenon DEF Types
    <2>5. HandsTrue(u)' /\ WalkTrue(u)'
      BY <1>1, <1>4, <2>1, <2>2, <2>4 DEF HandsTrue, WalkTrue, Putting, Freeing
    <2> QED
      BY <1>0, <1>1, <1>4, <2>1, <2>2, <2>3, <2>4, <2>5, QuietCall, Zenon DEF LookPlaces, ReadPlaces, Putting
  <1> QED
    BY <1>2, <1>3, <1>4, Zenon DEF GetProbe, GetMiss, Goes, Walking

LEMMA RankValue ==
  ASSUME NEW u, NEW e
  PROVE  Rank(u, e) \in 0..4 /\ (Rank(u, e) = 0 <=> Matches(u, e))
  <1>1. CASE e = NULL
    <2>1. Rank(u, e) = 1 /\ ~Matches(u, e)
      BY <1>1, Zenon DEF Rank, Matches
    <2> QED
      BY <2>1
  <1>2. CASE Matches(u, e)
    <2>1. Rank(u, e) = 0
      BY <1>2, Zenon DEF Rank, Matches
    <2> QED
      BY <1>2, <2>1
  <1>3. CASE e # NULL /\ ~Matches(u, e)
    <2>1. Rank(u, e) \in {2, 3, 4}
      BY <1>3, Zenon DEF Rank
    <2> QED
      BY <1>3, <2>1
  <1> QED
    BY <1>1, <1>2, <1>3, Zenon

LEMMA PutWalks ==
  ASSUME Sizes, CacheInv, NEW u \in Users, PutProbe(u)
  PROVE  CacheInv'
  <1>0. Types /\ HandsTrue(u) /\ WalkTrue(u) /\ open /\ pc[u] = "put_walk"
    BY Zenon DEF CacheInv, PutProbe
  <1>1. /\ step[u] < Probe /\ rank[u] # 0 /\ step' = [step EXCEPT ![u] = @ + 1]
        /\ UNCHANGED <<slots, refs, keyOf, created, alive, pc, key, now, entry, displaced, clock, open>>
    BY Zenon DEF PutProbe, Walking, entryVars
  <1>2. PICK r \in 0..4 : r = Rank(u, slots[Candidate(u)]) /\ (r = 0 <=> Matches(u, slots[Candidate(u)]))
    BY RankValue, Zenon
  <1>3. /\ key[u] \in Keys /\ step[u] \in Nat /\ Probe \in Nat /\ Candidate(u) = Place(key[u], step[u])
        /\ Candidate(u) \in Slots /\ Candidate(u) \in Window(key[u]) /\ rank[u] \in 0..4 /\ step'[u] = step[u] + 1
    <2>1. key[u] \in Keys /\ step[u] \in Nat /\ Probe \in Nat /\ rank[u] \in 0..4 /\ step'[u] = step[u] + 1
      BY <1>0, <1>1 DEF HandsTrue, Types, Sizes
    <2>2. Candidate(u) = Place(key[u], step[u]) /\ step[u] \in 0..(Probe - 1)
      BY <1>1, <2>1 DEF Candidate, Place
    <2> QED
      BY <2>1, <2>2, PlaceIsSlot, Zenon DEF Window
  <1>4. \A i \in 0..(step[u] - 1) : ~Matches(u, slots[Place(key[u], i)])
    BY <1>0, <1>1, Zenon DEF WalkTrue
  <1>5. ASSUME r # 0 PROVE \A i \in 0..(step'[u] - 1) : ~Matches(u, slots[Place(key[u], i)])
    <2>1. \A i \in 0..(step'[u] - 1) : i \in 0..(step[u] - 1) \/ i = step[u]
      BY <1>3
    <2> QED
      BY <1>2, <1>3, <1>4, <1>5, <2>1, Zenon
  <1>7. HandsTrue(u)'
    BY <1>0, <1>1, Zenon DEF HandsTrue, Putting, Freeing
  <1>8. CASE r < rank[u] /\ rank' = [rank EXCEPT ![u] = r] /\ victim' = [victim EXCEPT ![u] = Candidate(u)]
    <2>1. Types'
      BY <1>0, <1>1, <1>3, <1>8 DEF Types
    <2>2. /\ rank'[u] = r /\ victim'[u] = Candidate(u)
          /\ \A v \in Users : v # u => step'[v] = step[v] /\ rank'[v] = rank[v] /\ victim'[v] = victim[v]
      BY <1>0, <1>1, <1>8, Zenon DEF Types
    <2>3. WalkTrue(u)'
      BY <1>0, <1>1, <1>2, <1>3, <1>5, <2>2, Zenon DEF WalkTrue, Matches
    <2> QED
      BY <1>0, <1>1, <1>7, <2>1, <2>2, <2>3, QuietCall, Zenon DEF LookPlaces, ReadPlaces, Putting
  <1>9. CASE ~(r < rank[u]) /\ UNCHANGED <<rank, victim>>
    <2>1. Types'
      BY <1>0, <1>1, <1>3, <1>9 DEF Types
    <2>2. r # 0 /\ \A v \in Users : v # u => step'[v] = step[v]
      BY <1>0, <1>1, <1>3, <1>9 DEF Types
    <2>3. WalkTrue(u)'
      BY <1>0, <1>1, <1>5, <1>9, <2>2, Zenon DEF WalkTrue, Matches
    <2> QED
      BY <1>0, <1>1, <1>7, <1>9, <2>1, <2>2, <2>3, QuietCall, Zenon DEF LookPlaces, ReadPlaces, Putting
  <1> QED
    BY <1>2, <1>8, <1>9, Zenon DEF PutProbe

-----------------------------------------------------------------------------
(* Steps that count.                                                         *)

LEMMA UsingFinite ==
  ASSUME Counting, Sizes, NEW e
  PROVE  IsFiniteSet(Using(e)) /\ Cardinality(Using(e)) \in Nat
  <1>1. Using(e) \in SUBSET Users
    BY Zenon DEF Using
  <1>2. IsFiniteSet(Using(e))
    BY <1>1, CountOfPart, Zenon DEF Sizes
  <1> QED
    BY <1>2, CountIsNat, Zenon

\* One use more, or one less.
LEMMA Counted ==
  ASSUME Counting, Sizes, NEW u \in Users, NEW e \in Entries, refs \in [Entries -> Nat], refs' \in [Entries -> Nat],
         refs[e] = One(Tabled(e)) + Cardinality(Using(e)), Tabled(e)' <=> Tabled(e),
         \A v \in Users : v # u => (Uses(v, e)' <=> Uses(v, e)),
         \/ refs'[e] = refs[e] + 1 /\ ~Uses(u, e) /\ Uses(u, e)'
         \/ refs'[e] = refs[e] - 1 /\ Uses(u, e) /\ ~Uses(u, e)'
  PROVE  refs'[e] = (One(Tabled(e)) + Cardinality(Using(e)))'
  <1>1. One(Tabled(e))' = One(Tabled(e)) /\ One(Tabled(e)) \in Nat /\ Cardinality(Using(e)) \in Nat
    BY UsingFinite, Zenon DEF One
  <1>2. CASE refs'[e] = refs[e] + 1 /\ ~Uses(u, e) /\ Uses(u, e)'
    <2>1. Using(e)' = Using(e) \union {u} /\ u \notin Using(e)
      BY <1>2, Zenon DEF Using
    <2>2. Cardinality(Using(e)') = Cardinality(Using(e)) + 1
      BY <2>1, UsingFinite, CountAdding
    <2> QED
      BY <1>1, <1>2, <2>2
  <1>3. CASE refs'[e] = refs[e] - 1 /\ Uses(u, e) /\ ~Uses(u, e)'
    <2>1. Using(e)' = Using(e) \ {u} /\ u \in Using(e)
      BY <1>3, Zenon DEF Using
    <2>2. Cardinality(Using(e)') = Cardinality(Using(e)) - 1
      BY <2>1, UsingFinite, CountRemoving
    <2> QED
      BY <1>1, <1>3, <2>2
  <1> QED
    BY <1>2, <1>3, Zenon

\* What is used or in the table is not about to be freed.
LEMMA InUse ==
  ASSUME Counting, Sizes, CacheInv, NEW e \in alive, Tabled(e) \/ \E u \in Users : Uses(u, e)
  PROVE  refs[e] \in Nat /\ refs[e] >= 1 /\ \A v \in Users : ~Freeing(v, e)
  <1>1. /\ refs[e] = One(Tabled(e)) + Cardinality(Using(e)) /\ Cardinality(Using(e)) \in Nat /\ e \in Entries
        /\ IsFiniteSet(Using(e))
    BY UsingFinite, Zenon DEF CacheInv, RefsTrue, Types
  <1>2. (\E u \in Users : Uses(u, e)) => Cardinality(Using(e)) # 0
    BY <1>1, CountOfNone, Zenon DEF Using
  <1>3. refs[e] \in Nat /\ refs[e] >= 1
    BY <1>1, <1>2 DEF One
  <1>4. \A v \in Users : Freeing(v, e) => refs[e] = 0
    BY <1>1, Zenon DEF CacheInv, HandsTrue
  <1> QED
    BY <1>3, <1>4

LEMMA CountingCall ==
  ASSUME Counting, Sizes, CacheInv, NEW u \in Users, NEW e \in alive, UNCHANGED <<slots, keyOf, alive, open>>, open,
         \A v \in Users : v # u => /\ pc'[v] = pc[v] /\ key'[v] = key[v] /\ entry'[v] = entry[v]
                                   /\ displaced'[v] = displaced[v] /\ step'[v] = step[v]
                                   /\ victim'[v] = victim[v] /\ rank'[v] = rank[v],
         Types', HandsTrue(u)', step'[u] = 0,
         pc[u] \in {"get_found", "put_displaced", "hold"}, pc'[u] \in {"hold", "put_free", "idle", "free"},
         entry'[u] \in {entry[u], NULL}, displaced'[u] \in {displaced[u], NULL},
         \A f \in Entries : f # e => refs'[f] = refs[f] /\ (Uses(u, f)' <=> Uses(u, f)) /\ ~Freeing(u, f)',
         refs'[e] = 0 => Freeing(u, e)',
         \/ refs'[e] = refs[e] + 1 /\ ~Uses(u, e) /\ Uses(u, e)' /\ Tabled(e)
         \/ refs'[e] = refs[e] - 1 /\ Uses(u, e) /\ ~Uses(u, e)'
  PROVE  CacheInv'
  <1>0. alive \in SUBSET Entries /\ NULL \notin alive /\ refs \in [Entries -> Nat] /\ refs' \in [Entries -> Nat]
    BY Zenon DEF CacheInv, Types, Sizes
  <1>1. \A v \in Users : ~Freeing(v, e)
    BY InUse, Zenon
  <1>2. /\ \A s \in Slots : SlotTrue(s)'
        /\ \A v \in Users : v # u => HandsTrue(v)' /\ WalkTrue(v)'
        /\ \A v, w \in Users : v # u /\ w # u /\ v # w => PairTrue(v, w)'
    <2>1. \A v \in Users : v # u => \A f \in Entries : Freeing(v, f) => refs'[f] = refs[f]
      BY <1>1, Zenon
    <2> QED
      BY <2>1, OthersQuiet, Zenon
  <1>3. WalkTrue(u)' /\ ~Putting(u)' /\ ~Putting(u)
    BY Zenon DEF WalkTrue, Putting
  <1>4. ASSUME NEW v \in Users, v # u PROVE PairTrue(u, v)' /\ PairTrue(v, u)'
    <2>1. PairTrue(u, v) /\ PairTrue(v, u) /\ HandsTrue(v)
      BY <1>4, Zenon DEF CacheInv
    <2>2. /\ Putting(v)' <=> Putting(v)
          /\ \A f \in Entries : ~(Freeing(u, f)' /\ Freeing(v, f)')
      <3>1. \A f : Freeing(v, f)' <=> Freeing(v, f)
        BY <1>4, Zenon DEF Freeing
      <3> QED
        BY <1>1, <1>4, <3>1, Zenon DEF Putting
    <2>3. PairTrue(u, v)'
      BY <1>3, <1>4, <2>1, <2>2, Zenon DEF PairTrue
    <2>4. PairTrue(v, u)'
      <3>1. Putting(v) => entry[v] # NULL
        BY <1>0, <2>1, Zenon DEF HandsTrue, Putting
      <3> QED
        BY <1>4, <2>1, <2>2, <3>1, Zenon DEF PairTrue
    <2> QED
      BY <2>3, <2>4, Zenon
  <1>5. \A v, w \in Users : v # w => PairTrue(v, w)'
    BY <1>2, <1>4, Zenon
  <1>6. ASSUME NEW f \in alive PROVE RefsTrue(f)'
    <2>0. RefsTrue(f) /\ f \in Entries
      BY <1>0, Zenon DEF CacheInv
    <2>1. \A v \in Users : (Putting(v) /\ entry[v] = f)' <=> (Putting(v) /\ entry[v] = f)
      BY <1>3, Zenon DEF Putting
    <2>2. Tabled(f)' <=> Tabled(f)
      BY <2>1, Zenon DEF Tabled
    <2>3. \A v \in Users : v # u => (Uses(v, f)' <=> Uses(v, f)) /\ (Freeing(v, f)' <=> Freeing(v, f))
      BY Zenon DEF Uses, Freeing
    <2>4. CASE f = e
      <3>1. refs'[e] = (One(Tabled(e)) + Cardinality(Using(e)))'
        BY <1>0, <2>0, <2>2, <2>3, <2>4, Counted, Zenon DEF RefsTrue
      <3> QED
        BY <2>4, <3>1, Zenon DEF RefsTrue
    <2>5. CASE f # e
      <3>1. \A v \in Users : Uses(v, f)' <=> Uses(v, f)
        BY <2>0, <2>3, <2>5, Zenon
      <3>2. ~Freeing(u, f)
        BY Zenon DEF Freeing
      <3> QED
        BY <2>0, <2>2, <2>3, <2>5, <3>1, <3>2, RefsSame, Zenon
    <2> QED
      BY <2>4, <2>5, Zenon
  <1> QED
    BY <1>2, <1>3, <1>5, <1>6, Zenon DEF CacheInv

LEMMA GetCounts ==
  ASSUME Counting, Sizes, CacheInv, NEW u \in Users, GetCount(u)
  PROVE  CacheInv'
  <1>0. Types /\ HandsTrue(u) /\ open /\ pc[u] = "get_found"
    BY Zenon DEF CacheInv, GetCount
  <1>1. PICK e \in alive : e = entry[u] /\ e \in Entries /\ \E s \in Slots : slots[s] = e
    BY <1>0, Zenon DEF HandsTrue, Types
  <1>2. /\ refs' = [refs EXCEPT ![e] = @ + 1] /\ pc' = [pc EXCEPT ![u] = "hold"] /\ LocalsGone(u)
        /\ UNCHANGED <<slots, keyOf, created, alive, entry, displaced, victim, rank, clock, open>>
    BY <1>1, Zenon DEF GetCount, Goes
  <1>3. Types'
    BY <1>0, <1>1, <1>2 DEF Types, Places, MayBe, LocalsGone, Sizes
  <1>4. /\ pc'[u] = "hold" /\ displaced[u] = NULL /\ step'[u] = 0 /\ refs'[e] = refs[e] + 1 /\ refs[e] \in Nat
        /\ \A f \in Entries : f # e => refs'[f] = refs[f]
        /\ \A v \in Users : v # u => pc'[v] = pc[v] /\ key'[v] = key[v] /\ step'[v] = step[v]
    BY <1>0, <1>1, <1>2, Zenon DEF Types, HandsTrue, LocalsGone
  <1>5. HandsTrue(u)'
    BY <1>1, <1>2, <1>4, Zenon DEF HandsTrue, Putting, Freeing
  <1>6. /\ ~Uses(u, e) /\ Uses(u, e)' /\ Tabled(e) /\ refs'[e] # 0
        /\ \A f \in Entries : f # e => (Uses(u, f)' <=> Uses(u, f)) /\ ~Freeing(u, f)'
    BY <1>0, <1>1, <1>2, <1>4 DEF Uses, Tabled, Freeing
  <1> QED
    BY <1>0, <1>1, <1>2, <1>3, <1>4, <1>5, <1>6, CountingCall, Zenon

LEMMA Releases ==
  ASSUME Counting, Sizes, CacheInv, NEW u \in Users, Release(u)
  PROVE  CacheInv'
  <1>0. Types /\ HandsTrue(u) /\ open /\ pc[u] = "hold" /\ step[u] = 0
    BY Zenon DEF CacheInv, Release, WalkTrue
  <1>1. PICK e \in alive : e = entry[u] /\ e \in Entries /\ e # NULL /\ Uses(u, e)
    BY <1>0, Zenon DEF HandsTrue, Types, Uses, Sizes
  <1>2. refs[e] \in Nat /\ refs[e] >= 1
    BY <1>1, InUse, Zenon
  <1>3. /\ refs' = [refs EXCEPT ![e] = @ - 1] /\ refs'[e] = refs[e] - 1 /\ refs'[e] \in Nat
        /\ \A f \in Entries : f # e => refs'[f] = refs[f]
        /\ UNCHANGED <<slots, keyOf, created, alive, key, now, displaced, step, victim, rank, clock, open>>
        /\ displaced[u] = NULL
    BY <1>0, <1>1, <1>2 DEF Release, GivesUp, Types, HandsTrue
  <1>4. CASE refs'[e] = 0 /\ pc' = [pc EXCEPT ![u] = "free"] /\ entry' = entry
    <2>1. Types'
      BY <1>0, <1>1, <1>2, <1>3, <1>4, Zenon DEF Types, Places
    <2>2. pc'[u] = "free" /\ \A v \in Users : v # u => pc'[v] = pc[v]
      BY <1>0, <1>4, Zenon DEF Types
    <2>3. HandsTrue(u)'
      BY <1>1, <1>3, <1>4, <2>2, Zenon DEF HandsTrue, Putting, Freeing
    <2>4. /\ ~Uses(u, e)' /\ Freeing(u, e)'
          /\ \A f \in Entries : f # e => (Uses(u, f)' <=> Uses(u, f)) /\ ~Freeing(u, f)'
      BY <1>0, <1>1, <1>3, <1>4, <2>2, Zenon DEF Uses, Freeing
    <2> QED
      BY <1>0, <1>1, <1>3, <1>4, <2>1, <2>2, <2>3, <2>4, CountingCall, Zenon
  <1>5. CASE refs'[e] # 0 /\ pc' = [pc EXCEPT ![u] = "idle"] /\ entry' = [entry EXCEPT ![u] = NULL]
    <2>1. Types'
      BY <1>0, <1>1, <1>2, <1>3, <1>5, Zenon DEF Types, Places, MayBe
    <2>2. /\ pc'[u] = "idle" /\ entry'[u] = NULL
          /\ \A v \in Users : v # u => pc'[v] = pc[v] /\ entry'[v] = entry[v]
      BY <1>0, <1>5, Zenon DEF Types
    <2>3. HandsTrue(u)'
      BY <1>1, <1>3, <1>5, <2>2, Zenon DEF HandsTrue, Putting, Freeing
    <2>4. /\ ~Uses(u, e)'
          /\ \A f \in Entries : f # e => (Uses(u, f)' <=> Uses(u, f)) /\ ~Freeing(u, f)'
      BY <1>0, <1>1, <1>3, <1>5, <2>2, Zenon DEF Uses, Freeing
    <2> QED
      BY <1>0, <1>1, <1>3, <1>5, <2>1, <2>2, <2>3, <2>4, CountingCall, Zenon
  <1> QED
    BY <1>1, <1>4, <1>5, Zenon DEF Release, GivesUp, Last, Goes

\* sc_cache_put displaced nothing.
LEMMA ReleasesNothing ==
  ASSUME Sizes, CacheInv, NEW u \in Users, PutRelease(u), displaced[u] = NULL
  PROVE  CacheInv'
  <1>0. Types /\ HandsTrue(u) /\ open /\ pc[u] = "put_displaced" /\ step[u] = 0
    BY Zenon DEF CacheInv, PutRelease, WalkTrue
  <1>1. /\ pc' = [pc EXCEPT ![u] = "hold"]
        /\ UNCHANGED <<slots, refs, keyOf, created, alive, key, now, entry, displaced, step, victim,
                       rank, clock, open>>
    BY Zenon DEF PutRelease, Goes
  <1>2. Types'
    BY <1>0, <1>1, Zenon DEF Types, Places
  <1>3. pc'[u] = "hold" /\ \A v \in Users : v # u => pc'[v] = pc[v]
    BY <1>0, <1>1, Zenon DEF Types
  <1>4. /\ \A s \in Slots : SlotTrue(s)'
        /\ \A v \in Users : v # u => HandsTrue(v)' /\ WalkTrue(v)'
        /\ \A v, w \in Users : v # u /\ w # u /\ v # w => PairTrue(v, w)'
    BY <1>1, <1>3, OthersQuiet, Zenon
  <1>5. HandsTrue(u)' /\ WalkTrue(u)'
    BY <1>0, <1>1, <1>3, Zenon DEF HandsTrue, WalkTrue, Putting, Freeing
  <1>6. ASSUME NEW v \in Users, v # u PROVE PairTrue(u, v)' /\ PairTrue(v, u)'
    <2>1. PairTrue(u, v) /\ PairTrue(v, u)
      BY <1>6, Zenon DEF CacheInv
    <2> QED
      BY <1>0, <1>1, <1>3, <1>6, <2>1, Zenon DEF PairTrue, Putting, Freeing
  <1>7. ASSUME NEW e \in alive PROVE RefsTrue(e)'
    <2>0. e # NULL
      BY <1>0, Zenon DEF Types, Sizes
    <2>1. \A v \in Users : Putting(v)' <=> Putting(v)
      BY <1>0, <1>3, Zenon DEF Putting
    <2>2. Tabled(e)' <=> Tabled(e)
      BY <1>1, <2>1, Zenon DEF Tabled
    <2>3. \A v \in Users : (Uses(v, e)' <=> Uses(v, e)) /\ (Freeing(v, e) => Freeing(v, e)')
      BY <1>0, <1>1, <1>3, <2>0, Zenon DEF Uses, Freeing
    <2> QED
      BY <1>1, <2>2, <2>3, RefsSame, Zenon DEF CacheInv
  <1>8. \A v, w \in Users : v # w => PairTrue(v, w)'
    BY <1>4, <1>6, Zenon
  <1>9. \A v \in Users : HandsTrue(v)' /\ WalkTrue(v)'
    BY <1>4, <1>5, Zenon
  <1> QED
    BY <1>0, <1>1, <1>2, <1>4, <1>7, <1>8, <1>9, Zenon DEF CacheInv

LEMMA PutReleases ==
  ASSUME Counting, Sizes, CacheInv, NEW u \in Users, PutRelease(u), displaced[u] # NULL
  PROVE  CacheInv'
  <1>0. Types /\ HandsTrue(u) /\ open /\ pc[u] = "put_displaced" /\ step[u] = 0
    BY Zenon DEF CacheInv, PutRelease, WalkTrue
  <1>1. PICK e \in alive : e = displaced[u] /\ e \in Entries /\ e # NULL /\ Uses(u, e) /\ e # entry[u]
    BY <1>0, Zenon DEF HandsTrue, Types, Uses, Sizes
  <1>2. refs[e] \in Nat /\ refs[e] >= 1
    BY <1>1, InUse, Zenon
  <1>3. /\ refs' = [refs EXCEPT ![e] = @ - 1] /\ refs'[e] = refs[e] - 1 /\ refs'[e] \in Nat
        /\ \A f \in Entries : f # e => refs'[f] = refs[f]
        /\ UNCHANGED <<slots, keyOf, created, alive, key, now, entry, step, victim, rank, clock, open>>
        /\ entry[u] \in alive
    BY <1>0, <1>1, <1>2 DEF PutRelease, GivesUp, Types, HandsTrue
  <1>4. CASE refs'[e] = 0 /\ pc' = [pc EXCEPT ![u] = "put_free"] /\ displaced' = displaced
    <2>1. Types'
      BY <1>0, <1>1, <1>2, <1>3, <1>4, Zenon DEF Types, Places
    <2>2. pc'[u] = "put_free" /\ \A v \in Users : v # u => pc'[v] = pc[v]
      BY <1>0, <1>4, Zenon DEF Types
    <2>3. HandsTrue(u)'
      BY <1>0, <1>1, <1>3, <1>4, <2>2, Zenon DEF HandsTrue, Putting, Freeing
    <2>4. /\ ~Uses(u, e)' /\ Freeing(u, e)'
          /\ \A f \in Entries : f # e => (Uses(u, f)' <=> Uses(u, f)) /\ ~Freeing(u, f)'
      BY <1>0, <1>1, <1>3, <1>4, <2>2, Zenon DEF Uses, Freeing
    <2> QED
      BY <1>0, <1>1, <1>3, <1>4, <2>1, <2>2, <2>3, <2>4, CountingCall, Zenon
  <1>5. CASE refs'[e] # 0 /\ pc' = [pc EXCEPT ![u] = "hold"] /\ displaced' = [displaced EXCEPT ![u] = NULL]
    <2>1. Types'
      BY <1>0, <1>1, <1>2, <1>3, <1>5, Zenon DEF Types, Places, MayBe
    <2>2. /\ pc'[u] = "hold" /\ displaced'[u] = NULL
          /\ \A v \in Users : v # u => pc'[v] = pc[v] /\ displaced'[v] = displaced[v]
      BY <1>0, <1>5, Zenon DEF Types
    <2>3. HandsTrue(u)'
      BY <1>1, <1>3, <1>5, <2>2, Zenon DEF HandsTrue, Putting, Freeing
    <2>4. /\ ~Uses(u, e)'
          /\ \A f \in Entries : f # e => (Uses(u, f)' <=> Uses(u, f)) /\ ~Freeing(u, f)'
      BY <1>0, <1>1, <1>3, <1>5, <2>2, Zenon DEF Uses, Freeing
    <2> QED
      BY <1>0, <1>1, <1>3, <1>5, <2>1, <2>2, <2>3, <2>4, CountingCall, Zenon
  <1> QED
    BY <1>1, <1>4, <1>5, Zenon DEF PutRelease, GivesUp, Last, Goes

-----------------------------------------------------------------------------
(* The swap.                                                                 *)

\* What the walk of sc_cache_put found: no slot but the victim holds the key.
LEMMA WalkFound ==
  ASSUME Sizes, CacheInv, NEW u \in Users, pc[u] = "put_walk", step[u] = Probe \/ rank[u] = 0,
         NEW t \in Slots, t # victim[u], slots[t] # NULL
  PROVE  keyOf[slots[t]] # key[u]
  <1> SUFFICES ASSUME keyOf[slots[t]] = key[u] PROVE FALSE
    BY Zenon
  <1>1. SlotTrue(t) /\ SlotTrue(victim[u]) /\ WalkTrue(u)
    BY Zenon DEF CacheInv, Types
  <1>2. CASE rank[u] = 0
    BY <1>1, <1>2, Zenon DEF WalkTrue, Matches, SlotTrue
  <1>3. CASE rank[u] # 0 /\ step[u] = Probe
    <2>1. PICK i \in 0..(Probe - 1) : t = Place(key[u], i)
      BY <1>1, Zenon DEF SlotTrue, Window
    <2>2. ~Matches(u, slots[t])
      BY <1>1, <1>3, <2>1, Zenon DEF WalkTrue
    <2> QED
      BY <2>2, Zenon DEF Matches
  <1> QED
    BY <1>2, <1>3, Zenon

LEMMA PutSwaps ==
  ASSUME Counting, Sizes, CacheInv, NEW u \in Users, PutSwap(u)
  PROVE  CacheInv'
  <1>0. Types /\ HandsTrue(u) /\ WalkTrue(u) /\ open /\ pc[u] = "put_walk" /\ (step[u] = Probe \/ rank[u] = 0)
    BY Zenon DEF CacheInv, PutSwap
  <1>1. PICK e \in alive : /\ e = entry[u] /\ e \in Entries /\ e # NULL /\ keyOf[e] = key[u] /\ key[u] \in Keys
                           /\ (\A s \in Slots : slots[s] # e) /\ displaced[u] = NULL
    BY <1>0, Zenon DEF HandsTrue, Types, Sizes, Putting
  <1>2. PICK w \in Slots : w = victim[u] /\ w \in Window(key[u])
    BY <1>0, <1>1, Zenon DEF Types, WalkTrue
  <1>3. PICK d \in MayBe(Entries) : d = slots[w] /\ d # e
    BY <1>0, <1>1, Zenon DEF Types
  <1>4. /\ slots' = [slots EXCEPT ![w] = e] /\ displaced' = [displaced EXCEPT ![u] = d]
        /\ victim' = [victim EXCEPT ![u] = 0] /\ rank' = [rank EXCEPT ![u] = 0] /\ LocalsGone(u)
        /\ pc' = [pc EXCEPT ![u] = "put_displaced"]
        /\ UNCHANGED <<refs, keyOf, created, alive, entry, clock, open>>
    BY <1>1, <1>2, <1>3, Zenon DEF PutSwap, Goes, entryVars
  <1>5. Types'
    <2>1. slots' \in [Slots -> MayBe(Entries)] /\ displaced' \in [Users -> MayBe(Entries)]
      BY <1>0, <1>1, <1>3, <1>4, Zenon DEF Types, MayBe
    <2>2. 0 \in Slots /\ 0 \in 0..MaxTime /\ 0 \in 0..Probe
      BY DEF Sizes, Slots
    <2>3. /\ victim' \in [Users -> Slots] /\ rank' \in [Users -> 0..4] /\ step' \in [Users -> 0..Probe]
          /\ now' \in [Users -> 0..MaxTime]
      BY <1>0, <1>4, <2>2 DEF Types, LocalsGone
    <2>4. pc' \in [Users -> Places] /\ key' \in [Users -> MayBe(Keys)]
      BY <1>0, <1>4, Zenon DEF Types, LocalsGone, Places, MayBe
    <2> QED
      BY <1>0, <1>4, <2>1, <2>3, <2>4, Zenon DEF Types
  <1>6. /\ slots'[w] = e /\ \A s \in Slots : s # w => slots'[s] = slots[s]
        /\ pc'[u] = "put_displaced" /\ displaced'[u] = d /\ entry'[u] = e /\ step'[u] = 0
        /\ \A v \in Users : v # u => /\ pc'[v] = pc[v] /\ key'[v] = key[v] /\ entry'[v] = entry[v]
                                      /\ displaced'[v] = displaced[v] /\ step'[v] = step[v]
                                      /\ victim'[v] = victim[v] /\ rank'[v] = rank[v]
    BY <1>0, <1>1, <1>4, Zenon DEF Types, LocalsGone
  <1>7. \A t \in Slots : t # w /\ slots[t] # NULL => keyOf[slots[t]] # key[u]
    BY <1>0, <1>2, WalkFound, Zenon
  <1>8. /\ d # NULL => d \in alive /\ d \in Entries
        /\ \A s \in Slots : slots'[s] = d => d = NULL
    <2>1. \A s \in Slots : slots[s] = d /\ d # NULL => s = w
      BY <1>3, Zenon DEF CacheInv, SlotTrue
    <2> QED
      BY <1>0, <1>3, <1>6, <2>1 DEF CacheInv, SlotTrue, Types
  <1>9. ASSUME NEW s \in Slots PROVE SlotTrue(s)'
    <2>1. SlotTrue(s)
      BY Zenon DEF CacheInv
    <2>2. CASE s = w
      BY <1>1, <1>2, <1>4, <1>6, <1>7, <2>2 DEF SlotTrue
    <2>3. CASE s # w
      BY <1>1, <1>4, <1>6, <1>7, <2>1, <2>3 DEF SlotTrue
    <2> QED
      BY <2>2, <2>3, Zenon
  <1>10. ASSUME NEW v \in Users, v # u
         PROVE  /\ PairTrue(u, v) /\ PairTrue(v, u) /\ HandsTrue(v) /\ WalkTrue(v)
                /\ pc[v] \notin {"put_walk", "get_walk", "get_found"}
                /\ entry[v] # e /\ displaced[v] # e
    <2>1. PairTrue(u, v) /\ PairTrue(v, u) /\ HandsTrue(v) /\ WalkTrue(v)
      BY <1>10, Zenon DEF CacheInv
    <2> QED
      BY <1>0, <1>1, <2>1, Zenon DEF PairTrue, Putting
  <1>11. HandsTrue(u)' /\ WalkTrue(u)'
    BY <1>1, <1>3, <1>4, <1>6, <1>8 DEF HandsTrue, WalkTrue, Putting, Freeing
  <1>12. ASSUME NEW v \in Users, v # u PROVE HandsTrue(v)'
    <2>1. \A f : f # e /\ (\A s \in Slots : slots[s] # f) => \A s \in Slots : slots'[s] # f
      BY <1>6, Zenon
    <2>2. HandsTrue(v) /\ pc[v] # "get_found" /\ entry[v] # e /\ displaced[v] # e
      BY <1>10, <1>12, Zenon
    <2> QED
      BY <1>4, <1>6, <1>12, <2>1, <2>2 DEF HandsTrue, Putting, Freeing
  <1>13. ASSUME NEW v \in Users, v # u PROVE WalkTrue(v)'
    BY <1>6, <1>10, <1>13 DEF WalkTrue
  <1>14. ASSUME NEW v \in Users, v # u PROVE PairTrue(u, v)' /\ PairTrue(v, u)'
    <2>1. d # NULL => displaced[v] # d /\ (Putting(v) => entry[v] # d)
      BY <1>3, <1>10, <1>14, Zenon DEF HandsTrue
    <2>2. /\ ~Putting(u)' /\ (\A f \in Entries : ~Freeing(u, f)') /\ (Putting(v)' <=> Putting(v))
      BY <1>6, <1>14, Zenon DEF Putting, Freeing
    <2>3. PairTrue(u, v)'
      BY <1>6, <1>14, <2>1, <2>2, Zenon DEF PairTrue
    <2>4. Putting(v) => entry[v] # d
      BY <1>0, <1>10, <1>14, <2>1 DEF HandsTrue, Types, Sizes, Putting
    <2>5. PairTrue(v, u)'
      BY <1>1, <1>6, <1>10, <1>14, <2>1, <2>2, <2>4, Zenon DEF PairTrue
    <2> QED
      BY <2>3, <2>5, Zenon
  <1>15. \A v \in Users : v # u => (Putting(v)' <=> Putting(v)) /\ \A f :
           (Uses(v, f)' <=> Uses(v, f)) /\ (Freeing(v, f)' <=> Freeing(v, f))
    BY <1>6, Zenon DEF Putting, Uses, Freeing
  <1>16. Putting(u) /\ ~Putting(u)' /\ \A f : ~Freeing(u, f) /\ ~Freeing(u, f)'
    BY <1>0, <1>6, Zenon DEF Putting, Freeing
  <1>17. ASSUME NEW f \in alive PROVE RefsTrue(f)'
    <2>0. RefsTrue(f) /\ f \in Entries /\ f # NULL
      BY <1>0, Zenon DEF CacheInv, Types, Sizes
    <2>1. CASE f # d
      <3>1. Uses(u, f)' <=> Uses(u, f)
        BY <1>0, <1>1, <1>6, <2>0, <2>1, Zenon DEF Uses
      <3>2. Tabled(f)' <=> Tabled(f)
        <4>1. CASE f = e
          BY <1>1, <1>6, <1>16, <4>1, Zenon DEF Tabled
        <4>2. CASE f # e
          <5>1. (\E s \in Slots : slots'[s] = f) <=> (\E s \in Slots : slots[s] = f)
            BY <1>3, <1>6, <2>1, <4>2, Zenon
          <5>2. (\E v \in Users : Putting(v)' /\ entry'[v] = f) <=> (\E v \in Users : Putting(v) /\ entry[v] = f)
            BY <1>1, <1>4, <1>15, <1>16, <4>2, Zenon
          <5> QED
            BY <5>1, <5>2, Zenon DEF Tabled
        <4> QED
          BY <4>1, <4>2, Zenon
      <3> QED
        BY <1>4, <1>15, <1>16, <2>0, <3>1, <3>2, RefsSame, Zenon
    <2>2. CASE f = d
      <3>1. Tabled(d)
        BY <1>3, Zenon DEF Tabled
      <3>2. ~Tabled(d)'
        <4>1. ASSUME NEW v \in Users, Putting(v)' PROVE entry'[v] # d
          BY <1>3, <1>6, <1>10, <1>15, <1>16, <4>1 DEF HandsTrue
        <4> QED
          BY <1>8, <2>0, <2>2, <4>1, Zenon DEF Tabled
      <3>3. ~Uses(u, d) /\ Uses(u, d)'
        BY <1>1, <1>3, <1>6, <2>0, <2>2, Zenon DEF Uses
      <3>4. Using(d)' = Using(d) \union {u} /\ u \notin Using(d)
        BY <1>15, <3>3, Zenon DEF Using
      <3>5. Cardinality(Using(d)') = Cardinality(Using(d)) + 1 /\ Cardinality(Using(d)) \in Nat
        BY <3>4, UsingFinite, CountAdding, Zenon
      <3>6. refs'[d] = One(Tabled(d)) + Cardinality(Using(d)) /\ One(Tabled(d)) = 1 /\ One(Tabled(d))' = 0
        BY <1>4, <2>0, <2>2, <3>1, <3>2, Zenon DEF RefsTrue, One
      <3> QED
        BY <1>3, <2>2, <3>5, <3>6 DEF RefsTrue
    <2> QED
      BY <2>1, <2>2, Zenon
  <1>18. \A v, x \in Users : v # u /\ x # u /\ v # x => PairTrue(v, x)'
    BY <1>6 DEF CacheInv, PairTrue, Putting, Freeing
  <1>19. \A v, x \in Users : v # x => PairTrue(v, x)'
    BY <1>14, <1>18, Zenon
  <1>20. \A v \in Users : HandsTrue(v)' /\ WalkTrue(v)'
    BY <1>11, <1>12, <1>13, Zenon
  <1> QED
    BY <1>0, <1>4, <1>5, <1>9, <1>17, <1>19, <1>20, Zenon DEF CacheInv

-----------------------------------------------------------------------------
(* Memory for entries.                                                       *)

LEMMA Reached ==
  ASSUME Sizes, CacheInv
  PROVE  /\ \A s \in Slots : slots[s] \in MayBe(alive)
         /\ \A v \in Users : entry[v] \in MayBe(alive) /\ displaced[v] \in MayBe(alive)
         /\ NULL \notin alive /\ alive \in SUBSET Entries
  BY Zenon DEF CacheInv, Types, Sizes, SlotTrue, HandsTrue, MayBe

\* The calls of others do not notice that an entry they do not reach is made or freed.
LEMMA OthersKeep ==
  ASSUME Sizes, CacheInv, NEW u \in Users, UNCHANGED slots,
         \A f \in alive : \/ f \in alive' /\ keyOf'[f] = keyOf[f] /\ refs'[f] = refs[f]
                         \/ /\ \A s \in Slots : slots[s] # f
                            /\ \A v \in Users : v # u => entry[v] # f /\ displaced[v] # f,
         \A v \in Users : v # u => /\ pc'[v] = pc[v] /\ key'[v] = key[v] /\ entry'[v] = entry[v]
                                   /\ displaced'[v] = displaced[v] /\ step'[v] = step[v]
                                   /\ victim'[v] = victim[v] /\ rank'[v] = rank[v]
  PROVE  /\ \A s \in Slots : SlotTrue(s)'
         /\ \A v \in Users : v # u => HandsTrue(v)' /\ WalkTrue(v)'
         /\ \A v, w \in Users : v # u /\ w # u /\ v # w => PairTrue(v, w)'
  <1>0. Types
    BY Zenon DEF CacheInv
  <1>1. \A s \in Slots : slots[s] # NULL =>
           slots[s] \in alive /\ slots[s] \in alive' /\ keyOf'[slots[s]] = keyOf[slots[s]]
    BY Reached, Zenon DEF MayBe
  <1>2. \A v \in Users : v # u =>
           /\ entry[v] # NULL =>
              entry[v] \in alive /\ entry[v] \in alive' /\ keyOf'[entry[v]] = keyOf[entry[v]] /\ refs'[entry[v]] = refs[entry[v]]
           /\ displaced[v] # NULL =>
              displaced[v] \in alive /\ displaced[v] \in alive' /\ refs'[displaced[v]] = refs[displaced[v]]
    BY Reached DEF MayBe
  <1>3. ASSUME NEW s \in Slots PROVE SlotTrue(s)'
    <2>1. SlotTrue(s)
      BY Zenon DEF CacheInv
    <2> QED
      BY <1>1, <2>1, Zenon DEF SlotTrue
  <1>4. ASSUME NEW v \in Users, v # u PROVE HandsTrue(v)'
    <2>1. HandsTrue(v) /\ NULL \notin alive /\ NULL \notin Entries
      BY Reached, Zenon DEF CacheInv, Sizes
    <2>2. \A e \in Entries : Freeing(v, e)' => refs'[e] = 0
      BY <1>2, <1>4, <2>1 DEF HandsTrue, Freeing
    <2>3. /\ IF pc'[v] \in {"idle", "get", "get_walk"} THEN entry'[v] = NULL ELSE entry'[v] \in alive'
          /\ pc'[v] \notin {"put_displaced", "put_free"} => displaced'[v] = NULL
          /\ pc'[v] = "put_free" => displaced'[v] # NULL
          /\ displaced'[v] # NULL => /\ displaced'[v] \in alive' /\ displaced'[v] # entry'[v]
                                     /\ \A s \in Slots : slots'[s] # displaced'[v]
      BY <1>2, <1>4, <2>1 DEF HandsTrue
    <2>4. /\ pc'[v] \in {"get", "get_walk", "get_found", "put", "put_walk"} => key'[v] \in Keys
          /\ pc'[v] = "get_found" => keyOf'[entry'[v]] = key'[v] /\ \E s \in Slots : slots'[s] = entry'[v]
          /\ Putting(v)' => keyOf'[entry'[v]] = key'[v] /\ \A s \in Slots : slots'[s] # entry'[v]
      BY <1>2, <1>4, <2>1 DEF HandsTrue, Putting
    <2> QED
      BY <2>2, <2>3, <2>4, Zenon DEF HandsTrue
  <1>5. ASSUME NEW v \in Users, v # u PROVE WalkTrue(v)'
    <2>1. WalkTrue(v) /\ HandsTrue(v)
      BY Zenon DEF CacheInv
    <2>2. \A s \in Slots : Matches(v, slots[s])' <=> Matches(v, slots[s])
      BY <1>1, <1>5, Zenon DEF Matches
    <2>3. CASE pc[v] = "put_walk"
      <3>1. key[v] \in Keys /\ victim[v] \in Slots /\ step[v] \in Nat
        BY <1>0, <2>1, <2>3 DEF HandsTrue, Types, Sizes
      <3>2. \A i \in 0..(step[v] - 1) : Place(key[v], i) \in Slots
        BY <3>1, PlaceIsSlot
      <3>3. Matches(v, slots[victim[v]])' <=> Matches(v, slots[victim[v]])
        BY <1>1, <1>5, <3>1 DEF Matches
      <3>4. \A i \in 0..(step[v] - 1) : Matches(v, slots[Place(key[v], i)])' <=> Matches(v, slots[Place(key[v], i)])
        BY <1>1, <1>5, <3>2 DEF Matches
      <3> QED
        BY <1>5, <2>1, <2>3, <3>3, <3>4, Zenon DEF WalkTrue
    <2>4. CASE pc[v] # "put_walk"
      BY <1>5, <2>1, <2>4, Zenon DEF WalkTrue
    <2> QED
      BY <2>3, <2>4, Zenon
  <1>6. \A v, w \in Users : v # u /\ w # u /\ v # w => PairTrue(v, w)'
    BY DEF CacheInv, PairTrue, Putting, Freeing
  <1> QED
    BY <1>3, <1>4, <1>5, <1>6, Zenon

LEMMA PutStarts ==
  ASSUME Counting, Sizes, CacheInv, NEW u \in Users, NEW k \in Keys, NEW e \in Entries, Put(u, k, e)
  PROVE  CacheInv'
  <1>0. Types /\ HandsTrue(u) /\ WalkTrue(u) /\ pc[u] = "idle" /\ open /\ e \notin alive
    BY Zenon DEF CacheInv, Put
  <1>1. /\ alive' = alive \union {e} /\ refs' = [refs EXCEPT ![e] = 2] /\ keyOf' = [keyOf EXCEPT ![e] = k]
        /\ created' = [created EXCEPT ![e] = clock] /\ pc' = [pc EXCEPT ![u] = "put"]
        /\ key' = [key EXCEPT ![u] = k] /\ now' = [now EXCEPT ![u] = clock] /\ entry' = [entry EXCEPT ![u] = e]
        /\ victim' = [victim EXCEPT ![u] = Home[k]] /\ rank' = [rank EXCEPT ![u] = 4]
        /\ UNCHANGED <<slots, displaced, step, clock, open>>
    BY Zenon DEF Put, Goes, TableAndCaller
  <1>2. Types'
    <2>1. Home[k] \in Slots /\ k \in MayBe(Keys) /\ e \in MayBe(Entries) /\ "put" \in Places
      BY Zenon DEF Sizes, MayBe, Places
    <2>2. /\ refs' \in [Entries -> Nat] /\ keyOf' \in [Entries -> MayBe(Keys)] /\ created' \in [Entries -> 0..MaxTime]
          /\ alive' \in SUBSET Entries
      BY <1>0, <1>1, <2>1, Zenon DEF Types
    <2>3. /\ pc' \in [Users -> Places] /\ key' \in [Users -> MayBe(Keys)] /\ now' \in [Users -> 0..MaxTime]
          /\ entry' \in [Users -> MayBe(Entries)] /\ victim' \in [Users -> Slots] /\ rank' \in [Users -> 0..4]
      BY <1>0, <1>1, <2>1 DEF Types
    <2> QED
      BY <1>0, <1>1, <2>2, <2>3, Zenon DEF Types
  <1>3. /\ pc'[u] = "put" /\ key'[u] = k /\ entry'[u] = e
        /\ displaced'[u] = NULL /\ displaced[u] = NULL /\ step'[u] = 0
        /\ victim'[u] = Home[k] /\ rank'[u] = 4 /\ refs'[e] = 2 /\ keyOf'[e] = k /\ e \in alive'
        /\ \A f \in Entries : f # e => refs'[f] = refs[f] /\ keyOf'[f] = keyOf[f]
        /\ \A v \in Users : v # u => /\ pc'[v] = pc[v] /\ key'[v] = key[v] /\ entry'[v] = entry[v]
                                      /\ displaced'[v] = displaced[v] /\ step'[v] = step[v]
                                      /\ victim'[v] = victim[v] /\ rank'[v] = rank[v]
    BY <1>0, <1>1, Zenon DEF Types, HandsTrue, WalkTrue
  <1>4. /\ e # NULL /\ \A s \in Slots : slots[s] # e
        /\ \A v \in Users : entry[v] # e /\ displaced[v] # e
        /\ NULL \notin alive /\ alive \in SUBSET Entries
    BY <1>0, Reached, Zenon DEF MayBe, Sizes
  <1>5. /\ \A s \in Slots : SlotTrue(s)'
        /\ \A v \in Users : v # u => HandsTrue(v)' /\ WalkTrue(v)'
        /\ \A v, w \in Users : v # u /\ w # u /\ v # w => PairTrue(v, w)'
    <2>1. \A f \in alive : f \in alive' /\ keyOf'[f] = keyOf[f] /\ refs'[f] = refs[f]
      BY <1>0, <1>1, <1>3, <1>4, Zenon
    <2>2. slots' = slots
      BY <1>1, Zenon
    <2> QED
      BY <1>3, <2>1, <2>2, OthersKeep, Zenon
  <1>6. HandsTrue(u)' /\ WalkTrue(u)'
    BY <1>1, <1>3, <1>4 DEF HandsTrue, WalkTrue, Putting, Freeing
  <1>7. ASSUME NEW v \in Users, v # u PROVE PairTrue(u, v)' /\ PairTrue(v, u)'
    <2>1. HandsTrue(v) /\ ~Freeing(u, e)' /\ (\A f : ~Freeing(u, f)') /\ (Putting(v)' <=> Putting(v))
      BY <1>3, <1>7, Zenon DEF CacheInv, Freeing, Putting
    <2>2. Putting(v) => entry[v] # NULL
      BY <1>4, <2>1, Zenon DEF HandsTrue, Putting
    <2> QED
      BY <1>3, <1>4, <1>7, <2>1, <2>2 DEF PairTrue
  <1>8. RefsTrue(e)'
    <2>1. Tabled(e)'
      BY <1>3, Zenon DEF Tabled, Putting
    <2>2. Using(e)' = {u}
      BY <1>3, <1>4 DEF Using, Uses
    <2>3. Cardinality({u}) = 1
      BY CountOfOne, Zenon
    <2> QED
      BY <1>3, <2>1, <2>2, <2>3 DEF RefsTrue, One
  <1>9. ASSUME NEW f \in alive PROVE RefsTrue(f)'
    <2>0. RefsTrue(f) /\ f \in Entries /\ f # NULL /\ f # e /\ refs'[f] = refs[f]
      BY <1>0, <1>3, <1>4, Zenon DEF CacheInv
    <2>1. \A v \in Users : /\ (Putting(v) /\ entry[v] = f)' <=> (Putting(v) /\ entry[v] = f)
                           /\ Uses(v, f)' <=> Uses(v, f)
                           /\ Freeing(v, f)' <=> Freeing(v, f)
      BY <1>0, <1>3, <2>0, Zenon DEF Putting, Uses, Freeing
    <2>2. Tabled(f)' <=> Tabled(f)
      BY <1>1, <2>1, Zenon DEF Tabled
    <2> QED
      BY <2>0, <2>1, <2>2, RefsSame, Zenon
  <1>10. \A v, w \in Users : v # w => PairTrue(v, w)'
    BY <1>5, <1>7, Zenon
  <1>11. \A v \in Users : HandsTrue(v)' /\ WalkTrue(v)'
    BY <1>5, <1>6, Zenon
  <1>12. \A f \in alive' : RefsTrue(f)'
    BY <1>1, <1>8, <1>9, Zenon
  <1> QED
    BY <1>0, <1>1, <1>2, <1>5, <1>10, <1>11, <1>12, Zenon DEF CacheInv

\* Nobody else reaches what is about to be freed.
LEMMA NobodyReaches ==
  ASSUME Counting, Sizes, CacheInv, NEW u \in Users, NEW e \in alive, Freeing(u, e)
  PROVE  /\ \A s \in Slots : slots[s] # e
         /\ \A v \in Users : v # u => entry[v] # e /\ displaced[v] # e
         /\ \A v \in Users : ~Uses(v, e)
  <1>0. alive \in SUBSET Entries /\ NULL \notin alive
    BY Reached, Zenon
  <1>1. ~Tabled(e) /\ \A v \in Users : ~Uses(v, e)
    BY InUse, Zenon
  <1>2. \A s \in Slots : slots[s] # e
    BY <1>1, Zenon DEF Tabled
  <1>3. ASSUME NEW v \in Users, v # u PROVE entry[v] # e /\ displaced[v] # e
    <2>1. ~Freeing(v, e)
      BY <1>0, <1>3, Zenon DEF CacheInv, PairTrue
    <2>2. HandsTrue(v) /\ pc[v] \in Places
      BY Zenon DEF CacheInv, Types
    <2> QED
      BY <1>0, <1>1, <1>2, <2>1, <2>2, Zenon DEF HandsTrue, Uses, Freeing, Places
  <1> QED
    BY <1>1, <1>2, <1>3, Zenon

LEMMA FreeingCall ==
  ASSUME Counting, Sizes, CacheInv, NEW u \in Users, NEW e \in alive, Freeing(u, e),
         UNCHANGED <<slots, refs, open>>, open, alive' = alive \ {e},
         \A f \in alive : f # e => keyOf'[f] = keyOf[f],
         \A v \in Users : v # u => /\ pc'[v] = pc[v] /\ key'[v] = key[v] /\ entry'[v] = entry[v]
                                   /\ displaced'[v] = displaced[v] /\ step'[v] = step[v]
                                   /\ victim'[v] = victim[v] /\ rank'[v] = rank[v],
         Types', HandsTrue(u)', step'[u] = 0, pc'[u] \in {"idle", "hold"},
         entry'[u] \in {entry[u], NULL}, displaced'[u] = NULL,
         \A f \in alive : f # e => (Uses(u, f)' <=> Uses(u, f)) /\ ~Freeing(u, f)
  PROVE  CacheInv'
  <1>0. alive \in SUBSET Entries /\ NULL \notin alive /\ e \notin alive'
    BY Reached, Zenon
  <1>1. /\ \A s \in Slots : slots[s] # e
        /\ \A v \in Users : v # u => entry[v] # e /\ displaced[v] # e
    BY NobodyReaches, Zenon
  <1>2. /\ \A s \in Slots : SlotTrue(s)'
        /\ \A v \in Users : v # u => HandsTrue(v)' /\ WalkTrue(v)'
        /\ \A v, w \in Users : v # u /\ w # u /\ v # w => PairTrue(v, w)'
    <2>1. \A f \in alive : \/ f \in alive' /\ keyOf'[f] = keyOf[f] /\ refs'[f] = refs[f]
                         \/ /\ \A s \in Slots : slots[s] # f
                            /\ \A v \in Users : v # u => entry[v] # f /\ displaced[v] # f
      BY <1>1, Zenon
    <2>2. slots' = slots
      BY Zenon
    <2> QED
      BY <2>1, <2>2, OthersKeep, Zenon
  <1>3. WalkTrue(u)' /\ ~Putting(u)' /\ ~Putting(u) /\ \A f : ~Freeing(u, f)'
    BY Zenon DEF WalkTrue, Putting, Freeing
  <1>4. ASSUME NEW v \in Users, v # u PROVE PairTrue(u, v)' /\ PairTrue(v, u)'
    <2>1. PairTrue(v, u) /\ HandsTrue(v) /\ (Putting(v)' <=> Putting(v))
      BY <1>4, Zenon DEF CacheInv, Putting
    <2>2. Putting(v) => entry[v] # NULL
      BY <1>0, <2>1, Zenon DEF HandsTrue, Putting
    <2>3. PairTrue(u, v)'
      BY <1>3, Zenon DEF PairTrue
    <2>4. PairTrue(v, u)'
      BY <1>3, <1>4, <2>1, <2>2, Zenon DEF PairTrue
    <2> QED
      BY <2>3, <2>4, Zenon
  <1>5. ASSUME NEW f \in alive' PROVE RefsTrue(f)'
    <2>0. f \in alive /\ RefsTrue(f) /\ f # e
      BY <1>0, Zenon DEF CacheInv
    <2>1. \A v \in Users : /\ (Putting(v) /\ entry[v] = f)' <=> (Putting(v) /\ entry[v] = f)
                           /\ Freeing(v, f) => Freeing(v, f)'
      BY <1>3, <2>0, Zenon DEF Putting, Freeing
    <2>2. Tabled(f)' <=> Tabled(f)
      BY <2>1, Zenon DEF Tabled
    <2>3. \A v \in Users : Uses(v, f)' <=> Uses(v, f)
      BY <2>0 DEF Uses
    <2> QED
      BY <2>0, <2>1, <2>2, <2>3, RefsSame, Zenon
  <1>6. \A v, w \in Users : v # w => PairTrue(v, w)'
    BY <1>2, <1>4, Zenon
  <1>7. \A v \in Users : HandsTrue(v)' /\ WalkTrue(v)'
    BY <1>2, <1>3, Zenon
  <1> QED
    BY <1>2, <1>5, <1>6, <1>7, Zenon DEF CacheInv

LEMMA Frees ==
  ASSUME Counting, Sizes, CacheInv, NEW u \in Users, Free(u)
  PROVE  CacheInv'
  <1>0. Types /\ HandsTrue(u) /\ open /\ pc[u] = "free" /\ step[u] = 0
    BY Zenon DEF CacheInv, Free, WalkTrue
  <1>1. PICK e \in alive : e = entry[u] /\ e \in Entries /\ e # NULL /\ displaced[u] = NULL
    BY <1>0, Zenon DEF HandsTrue, Types, Sizes
  <1>2. /\ alive' = alive \ {e} /\ keyOf' = [keyOf EXCEPT ![e] = NULL] /\ created' = [created EXCEPT ![e] = 0]
        /\ entry' = [entry EXCEPT ![u] = NULL] /\ pc' = [pc EXCEPT ![u] = "idle"]
        /\ UNCHANGED <<refs, slots, key, now, displaced, step, victim, rank, clock, open>>
    BY <1>1, Zenon DEF Free, Freed, Goes
  <1>3. Types'
    BY <1>0, <1>2 DEF Types, MayBe, Places, Sizes
  <1>4. /\ pc'[u] = "idle" /\ entry'[u] = NULL
        /\ \A f \in Entries : f # e => keyOf'[f] = keyOf[f]
        /\ \A v \in Users : v # u => pc'[v] = pc[v] /\ entry'[v] = entry[v]
    BY <1>0, <1>2, Zenon DEF Types
  <1>5. HandsTrue(u)'
    BY <1>1, <1>2, <1>4, Zenon DEF HandsTrue, Putting, Freeing
  <1>6. /\ Freeing(u, e) /\ alive \in SUBSET Entries
        /\ \A f \in alive : f # e => (Uses(u, f)' <=> Uses(u, f)) /\ ~Freeing(u, f)
    BY <1>0, <1>1, <1>4, Zenon DEF Uses, Freeing, Types
  <1> QED
    BY <1>0, <1>1, <1>2, <1>3, <1>4, <1>5, <1>6, FreeingCall

LEMMA PutFrees ==
  ASSUME Counting, Sizes, CacheInv, NEW u \in Users, PutFree(u)
  PROVE  CacheInv'
  <1>0. Types /\ HandsTrue(u) /\ open /\ pc[u] = "put_free" /\ step[u] = 0
    BY Zenon DEF CacheInv, PutFree, WalkTrue
  <1>1. PICK e \in alive : /\ e = displaced[u] /\ e \in Entries /\ e # NULL /\ entry[u] # e /\ entry[u] \in alive
    BY <1>0, Zenon DEF HandsTrue, Types, Sizes
  <1>2. /\ alive' = alive \ {e} /\ keyOf' = [keyOf EXCEPT ![e] = NULL] /\ created' = [created EXCEPT ![e] = 0]
        /\ displaced' = [displaced EXCEPT ![u] = NULL] /\ pc' = [pc EXCEPT ![u] = "hold"]
        /\ UNCHANGED <<refs, slots, key, now, entry, step, victim, rank, clock, open>>
    BY <1>1, Zenon DEF PutFree, Freed, Goes
  <1>3. Types'
    BY <1>0, <1>2 DEF Types, MayBe, Places, Sizes
  <1>4. /\ pc'[u] = "hold" /\ displaced'[u] = NULL
        /\ \A f \in Entries : f # e => keyOf'[f] = keyOf[f]
        /\ \A v \in Users : v # u => pc'[v] = pc[v] /\ displaced'[v] = displaced[v]
    BY <1>0, <1>2, Zenon DEF Types
  <1>5. HandsTrue(u)'
    BY <1>1, <1>2, <1>4, Zenon DEF HandsTrue, Putting, Freeing
  <1>6. /\ Freeing(u, e) /\ alive \in SUBSET Entries /\ NULL \notin alive
        /\ \A f \in alive : f # e => (Uses(u, f)' <=> Uses(u, f)) /\ ~Freeing(u, f)
    BY <1>0, <1>1, <1>2, <1>4, Reached, Zenon DEF Uses, Freeing
  <1> QED
    BY <1>0, <1>1, <1>2, <1>3, <1>4, <1>5, <1>6, FreeingCall

-----------------------------------------------------------------------------
(* The cache as a whole.                                                     *)

\* With nobody in a call, the cache has what its table has, once each.
LEMMA Resting ==
  ASSUME Counting, Sizes, CacheInv, \A u \in Users : pc[u] = "idle"
  PROVE  \A e \in alive : e \in InTable /\ refs[e] = 1
  <1> SUFFICES ASSUME NEW e \in alive PROVE e \in InTable /\ refs[e] = 1
    BY Zenon
  <1>1. Using(e) = {} /\ ~\E u \in Users : Freeing(u, e) \/ Putting(u)
    BY Zenon DEF Using, Uses, Freeing, Putting
  <1>2. Cardinality(Using(e)) = 0
    BY <1>1, CountOfNone, Zenon
  <1>3. refs[e] = One(Tabled(e)) + 0 /\ refs[e] # 0
    BY <1>1, <1>2, Zenon DEF CacheInv, RefsTrue
  <1>4. Tabled(e)
    BY <1>3 DEF One
  <1>5. refs[e] = 1
    BY <1>3, <1>4 DEF One
  <1>6. e # NULL
    BY Reached, Zenon
  <1> QED
    BY <1>1, <1>4, <1>5, <1>6, Zenon DEF Tabled, InTable

\* An empty table that nobody uses.
LEMMA Emptied ==
  ASSUME CacheInv, Types', slots' = [s \in Slots |-> NULL], alive' = {}, \A u \in Users : pc[u] = "idle",
         UNCHANGED callVars
  PROVE  CacheInv'
  <1>1. UNCHANGED <<pc, key, now, entry, displaced, step, victim, rank>>
    BY Zenon DEF callVars
  <1>2. \A s \in Slots : SlotTrue(s)'
    BY Zenon DEF SlotTrue
  <1>3. ASSUME NEW u \in Users PROVE HandsTrue(u)' /\ WalkTrue(u)'
    <2>1. HandsTrue(u) /\ WalkTrue(u)
      BY Zenon DEF CacheInv
    <2> QED
      BY <1>1, <2>1, Zenon DEF HandsTrue, WalkTrue, Putting, Freeing
  <1>4. \A u, v \in Users : u # v => PairTrue(u, v)'
    BY <1>1, Zenon DEF CacheInv, PairTrue, Putting, Freeing
  <1> QED
    BY <1>1, <1>2, <1>3, <1>4, Zenon DEF CacheInv

LEMMA Creates ==
  ASSUME Sizes, CacheInv, Create
  PROVE  CacheInv'
  <1>1. /\ Types /\ alive = {} /\ (\A u \in Users : pc[u] = "idle") /\ open' = TRUE
        /\ slots' = [s \in Slots |-> NULL] /\ UNCHANGED <<refs, keyOf, created, alive>> /\ UNCHANGED callVars
        /\ UNCHANGED clock
    BY Zenon DEF CacheInv, Create, entryVars
  <1>2. slots' \in [Slots -> MayBe(Entries)]
    BY <1>1, Zenon DEF MayBe
  <1>3. open' \in BOOLEAN
    BY <1>1, Zenon
  <1>4. Types'
    BY <1>1, <1>2, <1>3, Zenon DEF Types, callVars
  <1>5. alive' = {}
    BY <1>1, Zenon
  <1> QED
    BY <1>1, <1>4, <1>5, Emptied, Zenon

LEMMA Destroys ==
  ASSUME Counting, Sizes, CacheInv, Destroy
  PROVE  CacheInv'
  <1>1. /\ Types /\ (\A u \in Users : pc[u] = "idle") /\ open' = FALSE
        /\ slots' = [s \in Slots |-> NULL] /\ UNCHANGED callVars /\ UNCHANGED clock
        /\ refs' = [e \in Entries |-> IF e \in InTable THEN refs[e] - 1 ELSE refs[e]]
        /\ alive' = alive \ {e \in InTable : refs'[e] = 0}
        /\ keyOf' = [e \in Entries |-> IF e \in alive' THEN keyOf[e] ELSE NULL]
        /\ created' = [e \in Entries |-> IF e \in alive' THEN created[e] ELSE 0]
    BY Zenon DEF CacheInv, Destroy
  <1>2. /\ \A e \in alive : e \in InTable /\ refs[e] = 1
        /\ alive \in SUBSET Entries /\ InTable \in SUBSET alive
    <2>1. InTable \in SUBSET alive
      BY Reached, Zenon DEF InTable, MayBe
    <2> QED
      BY <1>1, <2>1, Resting, Reached, Zenon
  <1>3. alive' = {}
    <2>1. \A e \in alive : refs'[e] = 0
      BY <1>1, <1>2
    <2> QED
      BY <1>1, <1>2, <2>1, Zenon
  <1>4. Types'
    <2>1. refs' \in [Entries -> Nat]
      <3>1. \A e \in Entries : (IF e \in InTable THEN refs[e] - 1 ELSE refs[e]) \in Nat
        BY <1>1, <1>2 DEF Types
      <3> QED
        BY <1>1, <3>1, Zenon
    <2>2. slots' \in [Slots -> MayBe(Entries)] /\ keyOf' \in [Entries -> MayBe(Keys)] /\ alive' \in SUBSET Entries
      BY <1>1, <1>3, Zenon DEF MayBe
    <2>3. created' \in [Entries -> 0..MaxTime]
      <3>1. 0 \in 0..MaxTime
        BY DEF Sizes
      <3>2. created' = [e \in Entries |-> 0]
        BY <1>1, <1>3, Zenon
      <3> QED
        BY <3>1, <3>2, Zenon
    <2>4. open' \in BOOLEAN
      BY <1>1, Zenon
    <2> QED
      BY <1>1, <2>1, <2>2, <2>3, <2>4, Zenon DEF Types, callVars
  <1> QED
    BY <1>1, <1>3, <1>4, Emptied, Zenon

\* Only the clock is different.
LEMMA Ticks ==
  ASSUME Sizes, CacheInv, Tick \/ UNCHANGED vars
  PROVE  CacheInv'
  <1>1. /\ UNCHANGED <<slots, refs, keyOf, created, alive, pc, key, now, entry, displaced, step, victim, rank, open>>
    BY Zenon DEF Tick, vars, entryVars, callVars
  <1>2. clock' \in 0..MaxTime
    BY DEF Tick, vars, CacheInv, Types, Sizes
  <1>3. Types'
    BY <1>1, <1>2, Zenon DEF CacheInv, Types
  <1>4. \A s \in Slots : SlotTrue(s)'
    BY <1>1, Zenon DEF CacheInv, SlotTrue
  <1>5. \A u \in Users : HandsTrue(u)' /\ WalkTrue(u)'
    BY <1>1 DEF CacheInv, HandsTrue, WalkTrue, Putting, Freeing, Matches
  <1>6. \A u, v \in Users : u # v => PairTrue(u, v)'
    BY <1>1 DEF CacheInv, PairTrue, Putting, Freeing
  <1>7. ASSUME NEW e \in alive PROVE RefsTrue(e)'
    <2>1. Tabled(e)' <=> Tabled(e)
      BY <1>1, Zenon DEF Tabled, Putting
    <2>2. \A v \in Users : (Uses(v, e)' <=> Uses(v, e)) /\ (Freeing(v, e) => Freeing(v, e)')
      BY <1>1, Zenon DEF Uses, Freeing
    <2> QED
      BY <1>1, <2>1, <2>2, RefsSame, Zenon DEF CacheInv
  <1> QED
    BY <1>1, <1>3, <1>4, <1>5, <1>6, <1>7, Zenon DEF CacheInv

LEMMA CacheStep ==
  ASSUME Counting
  PROVE  Sizes /\ CacheInv /\ [Next]_vars => CacheInv'
  <1> SUFFICES ASSUME Sizes, CacheInv, [Next]_vars PROVE CacheInv'
    BY Zenon
  <1>1. CASE Create \/ Destroy \/ Tick \/ UNCHANGED vars
    BY <1>1, Creates, Destroys, Ticks, Zenon
  <1>2. ASSUME NEW u \in Users, Call(u) PROVE CacheInv'
    <2>1. CASE \E k \in Keys : Get(u, k) \/ \E e \in Entries : Put(u, k, e)
      BY <2>1, GetStarts, PutStarts, Zenon
    <2>2. CASE GetLock(u) \/ GetProbe(u) \/ GetMiss(u) \/ GetCount(u)
      BY <2>2, Locks, GetWalks, GetCounts, Zenon
    <2>3. CASE PutLock(u) \/ PutProbe(u) \/ PutSwap(u) \/ PutFree(u)
      BY <2>3, Locks, PutWalks, PutSwaps, PutFrees, Zenon
    <2>4. CASE PutRelease(u)
      BY <2>4, PutReleases, ReleasesNothing, Zenon
    <2>5. CASE Release(u) \/ Free(u)
      BY <2>5, Releases, Frees, Zenon
    <2> QED
      BY <1>2, <2>1, <2>2, <2>3, <2>4, <2>5, Zenon DEF Call
  <1> QED
    BY <1>1, <1>2, Zenon DEF Next

-----------------------------------------------------------------------------
(* What the invariant says of the cache.                                     *)

\* The count of freed memory stands at the zero it was freed at.
FreedAtZero == \A e \in Entries \ alive : refs[e] = 0

LEMMA FreedStep ==
  ASSUME Counting
  PROVE  Sizes /\ CacheInv /\ FreedAtZero /\ [Next]_vars => FreedAtZero'
  <1> SUFFICES ASSUME Sizes, CacheInv, FreedAtZero, [Next]_vars PROVE FreedAtZero'
    BY Zenon
  <1>0. Types
    BY Zenon DEF CacheInv
  <1>1. CASE UNCHANGED <<refs, alive>>
    BY <1>1, Zenon DEF FreedAtZero
  <1>2. ASSUME NEW u \in Users, NEW k \in Keys, NEW e \in Entries, Put(u, k, e) PROVE FreedAtZero'
    BY <1>0, <1>2, Zenon DEF FreedAtZero, Put, Types
  <1>5. CASE Destroy
    <2>1. \A e \in alive : e \in InTable /\ refs[e] = 1 /\ e \in Entries
      BY <1>0, <1>5, Resting, Reached, Zenon DEF Destroy
    <2>2. \A e \in Entries : e \in InTable => e \in alive
      BY Reached, Zenon DEF InTable, MayBe
    <2>3. refs' = [e \in Entries |-> IF e \in InTable THEN refs[e] - 1 ELSE refs[e]]
      BY <1>5, Zenon DEF Destroy
    <2>4. \A e \in Entries : e \in alive \/ refs[e] = 0
      BY Zenon DEF FreedAtZero
    <2> QED
      BY <2>1, <2>2, <2>3, <2>4 DEF FreedAtZero
  <1>6. ASSUME NEW u \in Users, GetCount(u) PROVE FreedAtZero'
    <2>1. entry[u] \in alive /\ refs' = [refs EXCEPT ![entry[u]] = refs'[entry[u]]] /\ alive' = alive
      BY <1>0, <1>6, Zenon DEF GetCount, CacheInv, HandsTrue, Types
    <2> QED
      BY <1>0, <2>1, Zenon DEF FreedAtZero, Types
  <1>7. ASSUME NEW u \in Users, Release(u) PROVE FreedAtZero'
    <2>1. entry[u] \in alive /\ refs' = [refs EXCEPT ![entry[u]] = refs'[entry[u]]] /\ alive' = alive
      BY <1>0, <1>7, Zenon DEF Release, GivesUp, CacheInv, HandsTrue, Types
    <2> QED
      BY <1>0, <2>1, Zenon DEF FreedAtZero, Types
  <1>8. ASSUME NEW u \in Users, PutRelease(u), displaced[u] # NULL PROVE FreedAtZero'
    <2>1. displaced[u] \in alive /\ refs' = [refs EXCEPT ![displaced[u]] = refs'[displaced[u]]] /\ alive' = alive
      BY <1>0, <1>8, Zenon DEF PutRelease, GivesUp, CacheInv, HandsTrue, Types
    <2> QED
      BY <1>0, <2>1, Zenon DEF FreedAtZero, Types
  <1>9. ASSUME NEW u \in Users, Free(u) PROVE FreedAtZero'
    <2>1. entry[u] \in alive /\ Freeing(u, entry[u]) /\ refs' = refs /\ alive' = alive \ {entry[u]}
      BY <1>9, Zenon DEF Free, Freed, CacheInv, HandsTrue, Freeing
    <2> QED
      BY <1>0, <2>1 DEF FreedAtZero, CacheInv, HandsTrue, Types
  <1>10. ASSUME NEW u \in Users, PutFree(u) PROVE FreedAtZero'
    <2>1. displaced[u] \in alive /\ Freeing(u, displaced[u]) /\ refs' = refs /\ alive' = alive \ {displaced[u]}
      BY <1>10, Zenon DEF PutFree, Freed, CacheInv, HandsTrue, Freeing
    <2> QED
      BY <1>0, <2>1 DEF FreedAtZero, CacheInv, HandsTrue, Types
  <1>11. ASSUME NEW u \in Users, Call(u) PROVE FreedAtZero'
    <2>1. CASE \E k \in Keys : Get(u, k) \/ \E e \in Entries : Put(u, k, e)
      BY <1>1, <1>2, <2>1, Zenon DEF Get, entryVars
    <2>2. CASE GetLock(u) \/ GetProbe(u) \/ GetMiss(u) \/ PutLock(u) \/ PutProbe(u) \/ PutSwap(u)
      BY <1>1, <2>2, Zenon DEF GetLock, GetProbe, GetMiss, PutLock, PutProbe, PutSwap, entryVars
    <2>3. CASE PutRelease(u) /\ displaced[u] = NULL
      BY <1>1, <2>3, Zenon DEF PutRelease
    <2> QED
      BY <1>6, <1>7, <1>8, <1>9, <1>10, <1>11, <2>1, <2>2, <2>3, Zenon DEF Call
  <1>12. CASE Create \/ Tick \/ UNCHANGED vars
    BY <1>1, <1>12, Zenon DEF Create, Tick, vars, entryVars
  <1> QED
    BY <1>5, <1>11, <1>12, Zenon DEF Next

LEMMA InvTypeOK ==
  ASSUME Counting, Sizes, CacheInv, FreedAtZero
  PROVE  TypeOK
  <1>1. Types /\ Cardinality(Users) \in Nat
    BY CountIsNat, Zenon DEF CacheInv, Sizes
  <1>2. ASSUME NEW e \in Entries PROVE refs[e] \in 0..(Cardinality(Users) + 1)
    <2>1. CASE e \in alive
      <3>1. refs[e] = One(Tabled(e)) + Cardinality(Using(e)) /\ Using(e) \in SUBSET Users
        BY <2>1, Zenon DEF CacheInv, RefsTrue, Using
      <3>2. Cardinality(Using(e)) \in Nat /\ Cardinality(Using(e)) <= Cardinality(Users)
        BY <3>1, UsingFinite, CountOfPart, Zenon DEF Sizes
      <3>3. One(Tabled(e)) \in {0, 1}
        BY Zenon DEF One
      <3> QED
        BY <1>1, <3>1, <3>2, <3>3
    <2>2. CASE e \notin alive
      BY <1>1, <2>2 DEF FreedAtZero
    <2> QED
      BY <2>1, <2>2, Zenon
  <1>3. refs \in [Entries -> 0..(Cardinality(Users) + 1)]
    BY <1>1, <1>2, Zenon DEF Types
  <1> QED
    BY <1>1, <1>3, Zenon DEF Types, TypeOK

\* At most one of something.
LEMMA AtMostOne ==
  ASSUME Counting, NEW S, \A x, y \in S : x = y
  PROVE  Cardinality(S) = One(\E x : x \in S)
  <1>1. CASE S = {}
    BY <1>1, CountOfNone, Zenon DEF One
  <1>2. CASE S # {}
    <2>1. PICK x : x \in S
      BY <1>2, Zenon
    <2>2. S = {x}
      BY <2>1, Zenon
    <2> QED
      BY <2>1, <2>2, CountOfOne, Zenon DEF One
  <1> QED
    BY <1>1, <1>2, Zenon

LEMMA InvCounts ==
  ASSUME Counting, Sizes, CacheInv
  PROVE  CountsAreTrue
  <1> SUFFICES ASSUME NEW e \in alive
               PROVE  refs[e] = TableRefs(e) + Cardinality(Holders(e)) + Cardinality(Displacers(e))
    BY Zenon DEF CountsAreTrue
  <1> DEFINE S == {s \in Slots : slots[s] = e}
             P == {u \in Users : entry[u] = e /\ pc[u] \in {"put", "put_walk"}}
  <1>0. e # NULL /\ e \in Entries
    BY Reached, Zenon
  <1>1. \A s, t \in S : s = t
    BY <1>0, Zenon DEF CacheInv, SlotTrue
  <1>2. \A u, v \in P : u = v
    BY Zenon DEF CacheInv, PairTrue, Putting
  <1>3. \A u \in P, s \in S : FALSE
    BY DEF CacheInv, HandsTrue, Putting
  <1>4. Tabled(e) <=> (\E s : s \in S) \/ (\E u : u \in P)
    BY Zenon DEF Tabled, Putting
  <1>5. Cardinality(S) = One(\E s : s \in S) /\ Cardinality(P) = One(\E u : u \in P)
    BY <1>1, <1>2, AtMostOne, Zenon
  <1>6. TableRefs(e) = One(Tabled(e)) /\ TableRefs(e) \in Nat
    <2>1. TableRefs(e) = Cardinality(S) + Cardinality(P)
      BY Zenon DEF TableRefs
    <2>2. One(\E s : s \in S) + One(\E u : u \in P) = One(Tabled(e))
      <3> HIDE DEF S, P
      <3>1. CASE \E s : s \in S
        BY <1>3, <1>4, <3>1 DEF One
      <3>2. CASE ~\E s : s \in S
        BY <1>4, <3>2 DEF One
      <3> QED
        BY <3>1, <3>2, Zenon
    <2>3. One(Tabled(e)) \in Nat
      BY Zenon DEF One
    <2> QED
      BY <1>5, <2>1, <2>2, <2>3, Zenon
  <1>7. Using(e) = Holders(e) \union Displacers(e) /\ Holders(e) \intersect Displacers(e) = {}
    <2>1. Using(e) = Holders(e) \union Displacers(e)
      BY Zenon DEF Using, Uses, Holders, Displacers
    <2>2. \A u \in Users : ~(entry[u] = e /\ displaced[u] = e)
      BY <1>0, Zenon DEF CacheInv, HandsTrue
    <2> QED
      BY <2>1, <2>2, Zenon DEF Holders, Displacers
  <1>8. IsFiniteSet(Holders(e)) /\ IsFiniteSet(Displacers(e))
    <2>1. Holders(e) \in SUBSET Users /\ Displacers(e) \in SUBSET Users
      BY Zenon DEF Holders, Displacers
    <2> QED
      BY <2>1, CountOfPart, Zenon DEF Sizes
  <1>9. Cardinality(Holders(e)) \in Nat /\ Cardinality(Displacers(e)) \in Nat
    BY <1>8, CountIsNat, Zenon
  <1>10. Cardinality(Using(e)) = Cardinality(Holders(e)) + Cardinality(Displacers(e))
    <2>1. Cardinality(Holders(e) \union Displacers(e))
            = Cardinality(Holders(e)) + Cardinality(Displacers(e)) - Cardinality(Holders(e) \intersect Displacers(e))
      BY <1>8, CountOfUnion, Zenon
    <2>2. Cardinality(Holders(e) \intersect Displacers(e)) = 0
      BY <1>7, CountOfNone, Zenon
    <2> QED
      BY <1>7, <1>9, <2>1, <2>2
  <1>11. refs[e] = One(Tabled(e)) + Cardinality(Using(e))
    BY Zenon DEF CacheInv, RefsTrue
  <1> QED
    BY <1>6, <1>9, <1>10, <1>11

LEMMA InvTable ==
  ASSUME Counting, Sizes, CacheInv, FreedAtZero
  PROVE  TableIsTrue
  <1>1. TypeOK /\ CountsAreTrue
    BY InvTypeOK, InvCounts, Zenon
  <1>2. NothingFreedInUse
    <2>1. InTable \in SUBSET alive /\ \A u \in Users : {entry[u], displaced[u]} \in SUBSET MayBe(alive)
      BY Reached, Zenon DEF InTable, MayBe
    <2>2. ASSUME NEW u \in Users, NEW v \in Users, pc[u] = "free", pc[v] = "put_free" PROVE entry[u] # displaced[v]
      <3>1. u # v /\ entry[u] \in Entries
        BY <2>2, Reached, Zenon DEF CacheInv, HandsTrue
      <3> QED
        BY <2>2, <3>1, Zenon DEF CacheInv, PairTrue, Freeing
    <2> QED
      BY <2>1, <2>2, Zenon DEF NothingFreedInUse
  <1>3. OneEntryPerKey
    BY Zenon DEF CacheInv, SlotTrue, OneEntryPerKey
  <1>4. NothingLeaks
    BY Zenon DEF CacheInv, NothingLeaks
  <1> QED
    BY <1>1, <1>2, <1>3, <1>4, Zenon DEF TableIsTrue

-----------------------------------------------------------------------------
(* The steps of CacheContents, user by user and key by key.                  *)

Asked(u) == IF pc[u] \in {"get", "get_walk", "get_found"} THEN key[u] ELSE NULL
Given(u) == IF pc[u] \in {"put_displaced", "put_free"} THEN entry[u] ELSE NULL
Answer(u) == IF pc[u] = "hold" THEN entry[u] ELSE NULL

SameUser(u) == UNCHANGED <<Asked(u), Given(u), Answer(u)>>
SameEntries == \A k \in Keys : EntryOf(k)' = EntryOf(k)

LEMMA StepStutters ==
  ASSUME \A u \in Users : SameUser(u), SameEntries
  PROVE  UNCHANGED Contents!vars
  BY Zenon DEF Contents!vars, SameUser, SameEntries, Asked, Given, Answer

LEMMA StepAsks ==
  ASSUME NEW u \in Users, NEW k \in Keys, Asked(u) = NULL, Asked(u)' = k, UNCHANGED <<Given(u), Answer(u)>>,
         \A v \in Users : v # u => SameUser(v), SameEntries
  PROVE  Contents!Ask(u, k)
  BY Zenon DEF Contents!Ask, SameUser, SameEntries, Asked, Given, Answer

LEMMA StepHits ==
  ASSUME NEW u \in Users, Asked(u) \in Keys, NULL \notin Keys, EntryOf(Asked(u)) # NULL, Asked(u)' = NULL,
         Answer(u)' = EntryOf(Asked(u)), UNCHANGED Given(u),
         \A v \in Users : v # u => SameUser(v), SameEntries
  PROVE  Contents!Hit(u)
  BY Zenon DEF Contents!Hit, SameUser, SameEntries, Asked, Given, Answer

LEMMA StepMisses ==
  ASSUME NEW u \in Users, Asked(u) # NULL, Asked(u)' = NULL, UNCHANGED <<Given(u), Answer(u)>>,
         \A v \in Users : v # u => SameUser(v), SameEntries
  PROVE  Contents!Miss(u)
  BY Zenon DEF Contents!Miss, SameUser, SameEntries, Asked, Given, Answer

LEMMA StepReleases ==
  ASSUME NEW u \in Users, Answer(u) # NULL, Answer(u)' = NULL, UNCHANGED <<Asked(u), Given(u)>>,
         \A v \in Users : v # u => SameUser(v), SameEntries
  PROVE  Contents!Release(u)
  BY Zenon DEF Contents!Release, SameUser, SameEntries, Asked, Given, Answer

LEMMA StepGives ==
  ASSUME NEW u \in Users, Given(u) # NULL, Given(u)' = NULL, Answer(u)' = Given(u), UNCHANGED Asked(u),
         \A v \in Users : v # u => SameUser(v), SameEntries
  PROVE  Contents!Given(u)
  BY Zenon DEF Contents!Given, SameUser, SameEntries, Asked, Given, Answer

LEMMA StepPuts ==
  ASSUME NEW u \in Users, NEW k \in Keys, NEW e, Given(u) = NULL, Given(u)' = e, UNCHANGED <<Asked(u), Answer(u)>>,
         \A v \in Users : v # u => SameUser(v),
         \A j \in Keys : EntryOf(j) # e, EntryOf(k)' = e,
         NEW f \in Keys, f # k => EntryOf(f)' = NULL,
         \A j \in Keys : j # k /\ j # f => EntryOf(j)' = EntryOf(j)
  PROVE  Contents!Put(u, k, e)
  BY Zenon DEF Contents!Put, SameUser, Asked, Given, Answer

LEMMA StepForgets ==
  ASSUME \A u \in Users : SameUser(u) /\ Given(u) = NULL /\ Answer(u) = NULL,
         \A k \in Keys : EntryOf(k)' = NULL
  PROVE  Contents!Forget
  BY Zenon DEF Contents!Forget, SameUser, Asked, Given, Answer

-----------------------------------------------------------------------------
(* The entry of a key.                                                       *)

LEMMA Chosen ==
  ASSUME NEW T, NEW K, NEW k, NEW e \in T, K[e] = k, \A f \in T : K[f] = k => f = e
  PROVE  (IF \E f \in T : K[f] = k THEN CHOOSE f \in T : K[f] = k ELSE NULL) = e
  BY Zenon

LEMMA EntryIs ==
  ASSUME CacheInv, NEW k, NEW e \in InTable, keyOf[e] = k
  PROVE  EntryOf(k) = e
  <1>1. \A f \in InTable : keyOf[f] = k => f = e
    BY Zenon DEF CacheInv, SlotTrue, InTable
  <1> QED
    BY <1>1, Chosen, Zenon DEF EntryOf

LEMMA EntryWillBe ==
  ASSUME CacheInv', NEW k, NEW e, e \in InTable', keyOf'[e] = k
  PROVE  EntryOf(k)' = e
  <1>1. \A f \in InTable' : keyOf'[f] = k => f = e
    BY Zenon DEF CacheInv, SlotTrue, InTable
  <1> QED
    BY <1>1, Chosen, Zenon DEF EntryOf

LEMMA EntryNone ==
  ASSUME NEW k
  PROVE  /\ (\A e \in InTable : keyOf[e] # k) => EntryOf(k) = NULL
         /\ (\A e \in InTable' : keyOf'[e] # k) => EntryOf(k)' = NULL
  BY Zenon DEF EntryOf

\* A key keeps its entry where the same entries have the key.
LEMMA EntryKept ==
  ASSUME CacheInv, CacheInv', NEW k,
         \A e : (e \in InTable /\ keyOf[e] = k) <=> (e \in InTable' /\ keyOf'[e] = k)
  PROVE  EntryOf(k)' = EntryOf(k)
  <1>1. CASE \E e \in InTable : keyOf[e] = k
    <2>1. PICK e : e \in InTable /\ keyOf[e] = k /\ e \in InTable' /\ keyOf'[e] = k
      BY <1>1, Zenon
    <2> QED
      BY <2>1, EntryIs, EntryWillBe, Zenon
  <1>2. CASE \A e \in InTable : keyOf[e] # k
    BY <1>2, EntryNone, Zenon
  <1> QED
    BY <1>1, <1>2, Zenon

LEMMA EntriesKept ==
  ASSUME CacheInv, CacheInv', slots' = slots, \A e \in InTable : keyOf'[e] = keyOf[e]
  PROVE  SameEntries
  <1>1. InTable' = InTable
    BY Zenon DEF InTable
  <1>2. \A k : \A e : (e \in InTable /\ keyOf[e] = k) <=> (e \in InTable' /\ keyOf'[e] = k)
    BY <1>1, Zenon
  <1> QED
    BY <1>2, EntryKept, Zenon DEF SameEntries

-----------------------------------------------------------------------------
(* Every step of the cache is a step of CacheContents.                       *)

LEMMA LooksRefine ==
  ASSUME Sizes, CacheInv, CacheInv', NEW u \in Users,
         (\E k \in Keys : Get(u, k)) \/ GetLock(u) \/ GetProbe(u) \/ GetMiss(u) \/ GetCount(u)
  PROVE  [Contents!Next]_(Contents!vars)
  <1>0. Types /\ HandsTrue(u)
    BY Zenon DEF CacheInv
  <1>1. SameEntries
    <2>1. slots' = slots /\ keyOf' = keyOf
      BY Zenon DEF Get, GetLock, GetProbe, GetMiss, GetCount, entryVars
    <2> QED
      BY <2>1, EntriesKept, Zenon
  <1>2. ASSUME NEW k \in Keys, Get(u, k) PROVE Contents!Ask(u, k)
    <2>1. /\ Asked(u) = NULL /\ Asked(u)' = k /\ UNCHANGED <<Given(u), Answer(u)>>
          /\ \A v \in Users : v # u => SameUser(v)
      BY <1>0, <1>2, Zenon DEF Get, Goes, Types, SameUser, Asked, Given, Answer
    <2> QED
      BY <1>1, <2>1, StepAsks, Zenon
  <1>3. ASSUME \A v \in Users : SameUser(v) PROVE UNCHANGED Contents!vars
    BY <1>1, <1>3, StepStutters, Zenon
  <1>4. CASE GetLock(u)
    <2>1. \A v \in Users : SameUser(v)
      BY <1>0, <1>4, Zenon DEF GetLock, Goes, Types, SameUser, Asked, Given, Answer
    <2> QED
      BY <1>3, <2>1, Zenon
  <1>5. CASE pc[u] = "get_walk" /\ pc' = [pc EXCEPT ![u] = "idle"] /\ LocalsGone(u) /\ entry' = entry
    <2>1. /\ Asked(u) # NULL /\ Asked(u)' = NULL /\ UNCHANGED <<Given(u), Answer(u)>>
          /\ \A v \in Users : v # u => SameUser(v)
      BY <1>0, <1>5, Zenon DEF LocalsGone, HandsTrue, Types, Sizes, SameUser, Asked, Given, Answer
    <2>2. Contents!Miss(u)
      BY <1>1, <2>1, StepMisses, Zenon
    <2> QED
      BY <2>2, Zenon DEF Contents!Next
  <1>6. CASE pc[u] = "get_walk" /\ UNCHANGED <<pc, key, entry>>
    <2>1. \A v \in Users : SameUser(v)
      BY <1>6, Zenon DEF SameUser, Asked, Given, Answer
    <2> QED
      BY <1>3, <2>1, Zenon
  <1>7. CASE /\ pc[u] = "get_walk" /\ pc' = [pc EXCEPT ![u] = "get_found"] /\ key' = key
             /\ \A v \in Users : v # u => entry'[v] = entry[v]
    <2>1. \A v \in Users : SameUser(v)
      BY <1>0, <1>7, Zenon DEF Types, SameUser, Asked, Given, Answer
    <2> QED
      BY <1>3, <2>1, Zenon
  <1>8. CASE GetProbe(u) \/ GetMiss(u)
    BY <1>0, <1>5, <1>6, <1>7, <1>8, Zenon DEF GetProbe, GetMiss, Goes, Types
  <1>9. CASE GetCount(u)
    <2>1. /\ key[u] \in Keys /\ keyOf[entry[u]] = key[u] /\ entry[u] \in InTable /\ entry[u] # NULL
      BY <1>0, <1>9, Reached, Zenon DEF GetCount, HandsTrue, InTable
    <2>2. EntryOf(key[u]) = entry[u]
      BY <2>1, EntryIs, Zenon
    <2>3. /\ Asked(u) = key[u] /\ Asked(u)' = NULL /\ Answer(u)' = entry[u] /\ UNCHANGED Given(u)
          /\ \A v \in Users : v # u => SameUser(v)
      BY <1>0, <1>9, Zenon DEF GetCount, Goes, LocalsGone, Types, SameUser, Asked, Given, Answer
    <2>4. Contents!Hit(u)
      BY <1>1, <2>1, <2>2, <2>3, StepHits, Zenon DEF Sizes
    <2> QED
      BY <2>4, Zenon DEF Contents!Next
  <1>10. CASE \E k \in Keys : Get(u, k)
    BY <1>2, <1>10, Zenon DEF Contents!Next
  <1> QED
    BY <1>4, <1>8, <1>9, <1>10, Zenon

LEMMA PutsRefine ==
  ASSUME Sizes, CacheInv, CacheInv', NEW u \in Users,
         (\E k \in Keys, e \in Entries : Put(u, k, e)) \/ PutLock(u) \/ PutProbe(u)
  PROVE  UNCHANGED Contents!vars
  <1>0. Types
    BY Zenon DEF CacheInv
  <1>1. SameEntries
    <2>1. slots' = slots /\ \A e \in InTable : keyOf'[e] = keyOf[e]
      <3>1. CASE PutLock(u) \/ PutProbe(u)
        BY <3>1, Zenon DEF PutLock, PutProbe, entryVars
      <3>2. ASSUME NEW k \in Keys, NEW e \in Entries, Put(u, k, e)
            PROVE  slots' = slots /\ \A f \in InTable : keyOf'[f] = keyOf[f]
        <4>1. \A f \in InTable : f \in Entries /\ f # e
          BY <3>2, Reached, Zenon DEF Put, InTable, MayBe
        <4> QED
          BY <1>0, <3>2, <4>1, Zenon DEF Put, Types
      <3> QED
        BY <3>1, <3>2, Zenon
    <2> QED
      BY <2>1, EntriesKept, Zenon
  <1>2. \A v \in Users : SameUser(v)
    BY <1>0 DEF Put, PutLock, PutProbe, Goes, Types, SameUser, Asked, Given, Answer
  <1> QED
    BY <1>1, <1>2, StepStutters, Zenon

LEMMA SwapRefines ==
  ASSUME Sizes, CacheInv, CacheInv', NEW u \in Users, PutSwap(u)
  PROVE  \E k \in Keys, e \in Entries : Contents!Put(u, k, e)
  <1>0. Types /\ HandsTrue(u) /\ pc[u] = "put_walk" /\ (step[u] = Probe \/ rank[u] = 0)
    BY Zenon DEF CacheInv, PutSwap
  <1>1. PICK e \in Entries : /\ e = entry[u] /\ e # NULL /\ keyOf[e] = key[u] /\ key[u] \in Keys
                             /\ \A s \in Slots : slots[s] # e
    BY <1>0, Zenon DEF HandsTrue, Types, Sizes, Putting
  <1>2. PICK k \in Keys : k = key[u]
    BY <1>1, Zenon
  <1>3. PICK w \in Slots : w = victim[u]
    BY <1>0, Zenon DEF Types
  <1>4. slots' = [slots EXCEPT ![w] = e] /\ keyOf' = keyOf /\ entry' = entry
    BY <1>1, <1>3, Zenon DEF PutSwap, entryVars
  <1>5. slots'[w] = e /\ \A s \in Slots : s # w => slots'[s] = slots[s]
    BY <1>0, <1>4, Zenon DEF Types
  <1>6. /\ Given(u) = NULL /\ Given(u)' = e /\ UNCHANGED <<Asked(u), Answer(u)>>
        /\ \A v \in Users : v # u => SameUser(v)
    BY <1>0, <1>1, Zenon DEF PutSwap, Goes, LocalsGone, Types, SameUser, Asked, Given, Answer
  <1>7. \A j \in Keys : EntryOf(j) # e
    <2>1. e \notin InTable
      BY <1>1, Zenon DEF InTable
    <2>2. ASSUME NEW j \in Keys PROVE EntryOf(j) # e
      <3>1. CASE \E f \in InTable : keyOf[f] = j
        BY <2>1, <3>1, EntryIs, Zenon
      <3>2. CASE \A f \in InTable : keyOf[f] # j
        BY <1>1, <3>2, EntryNone, Zenon
      <3> QED
        BY <3>1, <3>2, Zenon
    <2> QED
      BY <2>2, Zenon
  <1>8. EntryOf(k)' = e
    <2>1. e \in InTable' /\ keyOf'[e] = k
      BY <1>1, <1>2, <1>4, <1>5, Zenon DEF InTable
    <2> QED
      BY <2>1, EntryWillBe, Zenon
  <1>9. \A t \in Slots : t # w /\ slots[t] # NULL => keyOf[slots[t]] # k
    BY <1>0, <1>2, <1>3, WalkFound, Zenon
  <1>10. ASSUME NEW j \in Keys, j # k, slots[w] = NULL \/ keyOf[slots[w]] # j PROVE EntryOf(j)' = EntryOf(j)
    <2>1. \A f : (f \in InTable /\ keyOf[f] = j) <=> (f \in InTable' /\ keyOf'[f] = j)
      BY <1>1, <1>2, <1>4, <1>5, <1>10 DEF InTable
    <2> QED
      BY <2>1, EntryKept, Zenon
  <1>11. CASE slots[w] = NULL
    <2>1. \A j \in Keys : j # k /\ j # k => EntryOf(j)' = EntryOf(j)
      BY <1>10, <1>11, Zenon
    <2>2. Contents!Put(u, k, e)
      BY <1>6, <1>7, <1>8, <2>1, StepPuts, Zenon
    <2> QED
      BY <2>2, Zenon
  <1>12. CASE slots[w] # NULL
    <2>1. PICK f \in Keys : f = keyOf[slots[w]]
      BY <1>12, Zenon DEF CacheInv, SlotTrue
    <2>2. f # k => EntryOf(f)' = NULL
      <3>1. ASSUME f # k, NEW g \in InTable' PROVE keyOf'[g] # f
        <4>1. PICK s \in Slots : g = slots'[s] /\ g # NULL
          BY <3>1, Zenon DEF InTable
        <4>2. CASE s = w
          BY <1>1, <1>2, <1>4, <1>5, <3>1, <4>1, <4>2, Zenon
        <4>3. CASE s # w
          BY <1>4, <1>5, <1>12, <2>1, <4>1, <4>3 DEF CacheInv, SlotTrue
        <4> QED
          BY <4>2, <4>3, Zenon
      <3> QED
        BY <3>1, EntryNone, Zenon
    <2>3. \A j \in Keys : j # k /\ j # f => EntryOf(j)' = EntryOf(j)
      BY <1>10, <2>1, Zenon
    <2>4. Contents!Put(u, k, e)
      BY <1>6, <1>7, <1>8, <2>2, <2>3, StepPuts, Zenon
    <2> QED
      BY <2>4, Zenon
  <1> QED
    BY <1>11, <1>12, Zenon

LEMMA ReleasesRefine ==
  ASSUME Counting, Sizes, CacheInv, CacheInv', NEW u \in Users,
         PutRelease(u) \/ PutFree(u) \/ Release(u) \/ Free(u)
  PROVE  Contents!Given(u) \/ Contents!Release(u) \/ UNCHANGED Contents!vars
  <1>0. Types /\ HandsTrue(u)
    BY Zenon DEF CacheInv
  <1>1. SameEntries
    <2>1. CASE PutRelease(u) \/ Release(u)
      BY <2>1, EntriesKept, Zenon DEF PutRelease, Release
    <2>2. CASE PutFree(u)
      <3>1. /\ slots' = slots /\ keyOf' = [keyOf EXCEPT ![displaced[u]] = NULL]
            /\ \A f \in InTable : f \in Entries /\ f # displaced[u]
        BY <1>0, <2>2, Reached, Zenon DEF PutFree, Freed, HandsTrue, InTable, MayBe
      <3>2. \A f \in InTable : keyOf'[f] = keyOf[f]
        BY <1>0, <3>1, Zenon DEF Types
      <3> QED
        BY <3>1, <3>2, EntriesKept, Zenon
    <2>3. CASE Free(u)
      <3>1. entry[u] \in alive /\ Freeing(u, entry[u])
        BY <1>0, <2>3, Zenon DEF Free, HandsTrue, Freeing
      <3>2. \A s \in Slots : slots[s] # entry[u]
        BY <3>1, NobodyReaches, Zenon
      <3>3. /\ slots' = slots /\ keyOf' = [keyOf EXCEPT ![entry[u]] = NULL]
            /\ \A f \in InTable : f \in Entries /\ f # entry[u]
        BY <2>3, <3>2, Reached DEF Free, Freed, InTable, MayBe
      <3>4. \A f \in InTable : keyOf'[f] = keyOf[f]
        BY <1>0, <3>3, Zenon DEF Types
      <3> QED
        BY <3>3, <3>4, EntriesKept, Zenon
    <2> QED
      BY <2>1, <2>2, <2>3, Zenon
  <1>2. CASE /\ pc[u] \in {"put_displaced", "put_free"} /\ pc' = [pc EXCEPT ![u] = "hold"]
             /\ UNCHANGED <<key, entry>>
    <2>1. /\ Given(u) # NULL /\ Given(u)' = NULL /\ Answer(u)' = Given(u) /\ UNCHANGED Asked(u)
          /\ \A v \in Users : v # u => SameUser(v)
      BY <1>0, <1>2, Reached, Zenon DEF HandsTrue, Types, SameUser, Asked, Given, Answer
    <2> QED
      BY <1>1, <2>1, StepGives, Zenon
  <1>3. CASE pc[u] = "put_displaced" /\ pc' = [pc EXCEPT ![u] = "put_free"] /\ UNCHANGED <<key, entry>>
    <2>1. \A v \in Users : SameUser(v)
      BY <1>0, <1>3, Zenon DEF Types, SameUser, Asked, Given, Answer
    <2> QED
      BY <1>1, <2>1, StepStutters, Zenon
  <1>4. CASE Release(u)
    <2>1. /\ pc[u] = "hold" /\ key' = key /\ \A v \in Users : v # u => pc'[v] = pc[v] /\ entry'[v] = entry[v]
      BY <1>0, <1>4, Zenon DEF Release, GivesUp, Goes, Types
    <2>2. pc'[u] \in {"idle", "free"}
      BY <1>0, <1>4, Zenon DEF Release, GivesUp, Goes, Types
    <2>3. /\ Answer(u) # NULL /\ Answer(u)' = NULL /\ UNCHANGED <<Asked(u), Given(u)>>
          /\ \A v \in Users : v # u => SameUser(v)
      BY <1>0, <2>1, <2>2, Reached, Zenon DEF HandsTrue, SameUser, Asked, Given, Answer
    <2> QED
      BY <1>1, <2>3, StepReleases, Zenon
  <1>5. CASE Free(u)
    <2>1. \A v \in Users : SameUser(v)
      BY <1>0, <1>5, Zenon DEF Free, Goes, Types, SameUser, Asked, Given, Answer
    <2> QED
      BY <1>1, <2>1, StepStutters, Zenon
  <1>6. CASE PutRelease(u)
    BY <1>2, <1>3, <1>6, Zenon DEF PutRelease, GivesUp, Goes
  <1>7. CASE PutFree(u)
    BY <1>2, <1>7, Zenon DEF PutFree, Goes
  <1> QED
    BY <1>4, <1>5, <1>6, <1>7, Zenon

LEMMA WholeRefines ==
  ASSUME Sizes, CacheInv, CacheInv', Create \/ Destroy \/ Tick \/ UNCHANGED vars
  PROVE  Contents!Forget \/ UNCHANGED Contents!vars
  <1>1. \A u \in Users : SameUser(u)
    BY Zenon DEF Create, Destroy, Tick, vars, callVars, SameUser, Asked, Given, Answer
  <1>2. CASE Create
    <2>1. InTable = {} /\ InTable' = {}
      BY <1>2, Reached, Zenon DEF Create, CacheInv, InTable, MayBe
    <2>2. SameEntries
      BY <2>1, EntryNone, Zenon DEF SameEntries
    <2> QED
      BY <1>1, <2>2, StepStutters, Zenon
  <1>3. CASE Destroy
    <2>1. \A u \in Users : SameUser(u) /\ Given(u) = NULL /\ Answer(u) = NULL
      BY <1>1, <1>3, Zenon DEF Destroy, Given, Answer
    <2>2. InTable' = {}
      BY <1>3, Zenon DEF Destroy, InTable
    <2>3. \A k \in Keys : EntryOf(k)' = NULL
      BY <2>2, EntryNone, Zenon
    <2> QED
      BY <2>1, <2>3, StepForgets, Zenon
  <1>4. CASE Tick \/ UNCHANGED vars
    <2>1. slots' = slots /\ keyOf' = keyOf
      BY <1>4, Zenon DEF Tick, vars, entryVars
    <2>2. SameEntries
      BY <2>1, EntriesKept, Zenon
    <2> QED
      BY <1>1, <2>2, StepStutters, Zenon
  <1> QED
    BY <1>2, <1>3, <1>4, Zenon

LEMMA StepRefines ==
  ASSUME Counting, Sizes, CacheInv, CacheInv', [Next]_vars
  PROVE  [Contents!Next]_(Contents!vars)
  <1>1. CASE Create \/ Destroy \/ Tick \/ UNCHANGED vars
    BY <1>1, WholeRefines, Zenon DEF Contents!Next
  <1>2. ASSUME NEW u \in Users, Call(u) PROVE [Contents!Next]_(Contents!vars)
    <2>1. CASE (\E k \in Keys : Get(u, k)) \/ GetLock(u) \/ GetProbe(u) \/ GetMiss(u) \/ GetCount(u)
      BY <2>1, LooksRefine, Zenon
    <2>2. CASE (\E k \in Keys, e \in Entries : Put(u, k, e)) \/ PutLock(u) \/ PutProbe(u)
      BY <2>2, PutsRefine, Zenon
    <2>3. CASE PutSwap(u)
      BY <2>3, SwapRefines, Zenon DEF Contents!Next
    <2>4. CASE PutRelease(u) \/ PutFree(u) \/ Release(u) \/ Free(u)
      BY <2>4, ReleasesRefine, Zenon DEF Contents!Next
    <2> QED
      BY <1>2, <2>1, <2>2, <2>3, <2>4, Zenon DEF Call
  <1> QED
    BY <1>1, <1>2, Zenon DEF Next

LEMMA InitRefines == Init => Contents!Init
  <1> SUFFICES ASSUME Init PROVE Contents!Init
    BY Zenon
  <1>1. InTable = {}
    BY Zenon DEF Init, InTable
  <1>2. \A k \in Keys : EntryOf(k) = NULL
    BY <1>1, EntryNone, Zenon
  <1> QED
    BY <1>2, Zenon DEF Init, Contents!Init

-----------------------------------------------------------------------------
(* The theorems.  What Lists takes for granted of counting is in the library. *)

INSTANCE FiniteSetTheorems

\* Finite sets are counted as the lemmas assume.
LEMMA CountingHolds == Counting
  <1>1. ASSUME NEW T \in SUBSET Nat, T # {} PROVE \E x \in T : \A y \in T : x <= y
    <2>1. PICK x \in T : \A y \in T : ~(<<y, x>> \in OpToRel(<, Nat))
      BY <1>1, NatLessThanWellFounded, WFMin, Zenon
    <2>2. \A y \in T : ~(y < x) /\ x \in Nat /\ y \in Nat
      BY <2>1, Zenon DEF OpToRel
    <2> QED
      BY <2>2
  <1>2. ASSUME NEW S, IsFiniteSet(S), NEW x
        PROVE  /\ IsFiniteSet(S \union {x}) /\ IsFiniteSet(S \ {x})
               /\ Cardinality(S \union {x}) = IF x \in S THEN Cardinality(S) ELSE Cardinality(S) + 1
               /\ Cardinality(S \ {x}) = IF x \in S THEN Cardinality(S) - 1 ELSE Cardinality(S)
    BY <1>2, FS_AddElement, FS_RemoveElement, Zenon
  <1> QED
    BY <1>1, <1>2, FS_CardinalityType, FS_EmptySet, FS_Subset, FS_Union, FS_Bijection, FS_Interval
    DEF Counting

\* For any number of requests, keys, entries and slots, every entry's count is the table's pointer
\* plus those who use it, nothing that the table or a call reaches is freed, a key has one entry,
\* and sc_cache_destroy leaves none (sc_cache_get, _put, _release, _destroy).
THEOREM TableHolds == Sizes => (Spec => []TableIsTrue)
  <1> SUFFICES ASSUME Sizes PROVE Spec => []TableIsTrue
    BY Zenon
  <1> DEFINE Inv == CacheInv /\ FreedAtZero
  <1>1. Init => Inv
    <2>1. Init => FreedAtZero
      BY Zenon DEF Init, FreedAtZero
    <2> QED
      BY <2>1, CountingHolds, Init1, Zenon
  <1>2. Inv /\ [Next]_vars => Inv'
    BY CountingHolds, CacheStep, FreedStep, Zenon
  <1>3. Inv => TableIsTrue
    BY CountingHolds, InvTable, Zenon
  <1> QED
    BY <1>1, <1>2, <1>3, PTL DEF Spec

\* Every lookup, insertion, eviction and release of the table is a step of CacheContents, whatever
\* the number of requests that overlap: a hit is the last entry put under its key, and an insertion
\* costs at most one other key its entry (sc_cache_get, sc_cache_put).
THEOREM ContentsKept == Sizes => (Spec => KeepsContents)
  <1> SUFFICES ASSUME Sizes PROVE Spec => KeepsContents
    BY Zenon
  <1>1. Init => CacheInv
    BY CountingHolds, Init1, Zenon
  <1>2. CacheInv /\ [Next]_vars => CacheInv'
    BY CountingHolds, CacheStep, Zenon
  <1>3. CacheInv /\ CacheInv' /\ [Next]_vars => [Contents!Next]_(Contents!vars)
    BY CountingHolds, StepRefines, Zenon
  <1> QED
    BY <1>1, <1>2, <1>3, InitRefines, PTL DEF Spec, KeepsContents, Contents!Spec
=============================================================================
