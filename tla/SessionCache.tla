---------------------------- MODULE SessionCache ----------------------------
(***************************************************************************)
(* The table of the session cache, service-core/src/cache.c: an open-      *)
(* addressed table under a shared/exclusive lock, whose entries count      *)
(* their references.  A reference is given up without the lock, so what a  *)
(* writer reads of a count can be old when it uses it.                     *)
(*                                                                         *)
(* A user is a request: it looks a key up or puts one, holds what came     *)
(* back, and releases it.  Entries are memory: what was freed is handed    *)
(* out again.                                                              *)
(***************************************************************************)
EXTENDS Integers, FiniteSets

CONSTANTS
    Users,          \* requests at a time
    Keys,
    Entries,        \* memory for entries
    NULL,
    Capacity,       \* mask + 1
    Probe,          \* cache->probe
    Home,           \* the slot a key's hash picks
    HardTimeout,    \* hard_timeout_ms; 0 is no expiry
    MaxTime         \* a bound on the clock

Slots == 0..Capacity - 1

\* What sc_cache_create makes of its configuration: at least one slot, and a walk of at least one
\* and at most all of them.
Sizes ==
    /\ IsFiniteSet(Users) /\ NULL \notin Entries /\ NULL \notin Keys
    /\ Capacity \in Nat \ {0} /\ Probe \in 1..Capacity /\ Home \in [Keys -> Slots]
    /\ MaxTime \in Nat

VARIABLES
    slots,      \* cache->slots
    refs,       \* entry->references
    keyOf,      \* entry->key
    created,    \* entry->created_ms
    alive,      \* the entries that are allocated
    pc,         \* where each user's call stands
    key,        \* the key of its call
    now,        \* now_ms, read before the lock
    entry,      \* the entry its call is about to return, or has returned
    displaced,  \* sc_cache_put's displaced
    step,       \* the probe walk's i
    victim,     \* sc_cache_put's victim
    rank,       \* sc_cache_put's victim_rank
    clock,      \* sc_now_ms
    open        \* there is a cache

callVars == <<pc, key, now, entry, displaced, step, victim, rank>>
entryVars == <<refs, keyOf, created, alive>>
vars == <<slots, entryVars, callVars, clock, open>>

\* Who has cache->lock, shared and exclusive.
Readers == {u \in Users : pc[u] \in {"get_walk", "get_found"}}
Writers == {u \in Users : pc[u] = "put_walk"}

MayBe(S) == S \union {NULL}

Places == {"idle", "get", "get_walk", "get_found", "put", "put_walk", "put_displaced", "put_free",
           "hold", "free"}

TypeOK ==
    /\ slots \in [Slots -> MayBe(Entries)]
    /\ refs \in [Entries -> 0..Cardinality(Users) + 1]
    /\ keyOf \in [Entries -> MayBe(Keys)]
    /\ created \in [Entries -> 0..MaxTime]
    /\ alive \subseteq Entries
    /\ pc \in [Users -> Places]
    /\ key \in [Users -> MayBe(Keys)]
    /\ now \in [Users -> 0..MaxTime]
    /\ entry \in [Users -> MayBe(Entries)]
    /\ displaced \in [Users -> MayBe(Entries)]
    /\ step \in [Users -> 0..Probe]
    /\ victim \in [Users -> Slots]
    /\ rank \in [Users -> 0..4]
    /\ clock \in 0..MaxTime
    /\ open \in BOOLEAN

Init ==
    /\ slots = [s \in Slots |-> NULL]
    /\ refs = [e \in Entries |-> 0]
    /\ keyOf = [e \in Entries |-> NULL]
    /\ created = [e \in Entries |-> 0]
    /\ alive = {}
    /\ pc = [u \in Users |-> "idle"]
    /\ key = [u \in Users |-> NULL]
    /\ now = [u \in Users |-> 0]
    /\ entry = [u \in Users |-> NULL]
    /\ displaced = [u \in Users |-> NULL]
    /\ step = [u \in Users |-> 0]
    /\ victim = [u \in Users |-> 0]
    /\ rank = [u \in Users |-> 0]
    /\ clock = 0
    /\ open = FALSE

Tick ==
    /\ clock < MaxTime
    /\ clock' = clock + 1
    /\ UNCHANGED <<slots, entryVars, callVars, open>>

Expired(e, t) == HardTimeout > 0 /\ t - created[e] >= HardTimeout

\* Mutant: the length of the key is all that is compared.
MatchesAny(u, e) == e # NULL

Matches(u, e) == e # NULL /\ keyOf[e] = key[u]

Walking(u) == step[u] < Probe

Candidate(u) == (Home[key[u]] + step[u]) % Capacity

Goes(u, place) == pc' = [pc EXCEPT ![u] = place]

\* The locals of a call that is over are gone.
LocalsGone(u) ==
    /\ key' = [key EXCEPT ![u] = NULL]
    /\ now' = [now EXCEPT ![u] = 0]
    /\ step' = [step EXCEPT ![u] = 0]

Create ==
    /\ ~open
    /\ open' = TRUE
    /\ slots' = [s \in Slots |-> NULL]
    /\ UNCHANGED <<entryVars, callVars, clock>>

InTable == {slots[s] : s \in Slots} \ {NULL}

\* sc_cache_destroy: the table's references are given up.  The cache outlives its readers.
Destroy ==
    /\ open /\ \A u \in Users : pc[u] = "idle"
    /\ open' = FALSE
    /\ slots' = [s \in Slots |-> NULL]
    /\ refs' = [e \in Entries |-> IF e \in InTable THEN refs[e] - 1 ELSE refs[e]]
    /\ alive' = alive \ {e \in InTable : refs'[e] = 0}
    /\ keyOf' = [e \in Entries |-> IF e \in alive' THEN keyOf[e] ELSE NULL]
    /\ created' = [e \in Entries |-> IF e \in alive' THEN created[e] ELSE 0]
    /\ UNCHANGED <<callVars, clock>>

-----------------------------------------------------------------------------
(* sc_cache_get                                                              *)

Get(u, k) ==
    /\ pc[u] = "idle" /\ open
    /\ Goes(u, "get")
    /\ key' = [key EXCEPT ![u] = k]
    /\ now' = [now EXCEPT ![u] = clock]
    /\ UNCHANGED <<slots, entryVars, entry, displaced, step, victim, rank, clock, open>>

\* The shared lock is had; the walk reads a table nobody changes.
GetLock(u) ==
    /\ pc[u] = "get" /\ Writers = {}
    /\ Goes(u, "get_walk")
    /\ UNCHANGED <<slots, entryVars, key, now, entry, displaced, step, victim, rank, clock, open>>

GetProbe(u) ==
    /\ pc[u] = "get_walk" /\ Walking(u)
    /\ LET e == slots[Candidate(u)] IN
       IF ~Matches(u, e)
       THEN /\ step' = [step EXCEPT ![u] = @ + 1]
            /\ UNCHANGED <<pc, key, now, entry>>
       ELSE IF Expired(e, now[u])
       THEN Goes(u, "idle") /\ LocalsGone(u) /\ UNCHANGED entry
       ELSE /\ Goes(u, "get_found")
            /\ entry' = [entry EXCEPT ![u] = e]
            /\ UNCHANGED <<key, now, step>>
    /\ UNCHANGED <<slots, entryVars, displaced, victim, rank, clock, open>>

GetMiss(u) ==
    /\ pc[u] = "get_walk" /\ step[u] = Probe
    /\ Goes(u, "idle")
    /\ LocalsGone(u)
    /\ UNCHANGED <<slots, entryVars, entry, displaced, victim, rank, clock, open>>

\* The count is raised inside the lock, which is given up after that.
GetCount(u) ==
    /\ pc[u] = "get_found"
    /\ refs' = [refs EXCEPT ![entry[u]] = @ + 1]
    /\ Goes(u, "hold")
    /\ LocalsGone(u)
    /\ UNCHANGED <<slots, keyOf, created, alive, entry, displaced, victim, rank, clock, open>>

-----------------------------------------------------------------------------
(* sc_cache_put                                                              *)

\* Mutant: the caller's own reference is forgotten.
TableOnly == 1

\* One for the table, one for the caller.
TableAndCaller == 2

Put(u, k, e) ==
    /\ pc[u] = "idle" /\ open
    /\ e \notin alive
    /\ alive' = alive \union {e}
    /\ refs' = [refs EXCEPT ![e] = TableAndCaller]
    /\ keyOf' = [keyOf EXCEPT ![e] = k]
    /\ created' = [created EXCEPT ![e] = clock]
    /\ Goes(u, "put")
    /\ key' = [key EXCEPT ![u] = k]
    /\ now' = [now EXCEPT ![u] = clock]
    /\ entry' = [entry EXCEPT ![u] = e]
    /\ victim' = [victim EXCEPT ![u] = Home[k]]
    /\ rank' = [rank EXCEPT ![u] = 4]
    /\ UNCHANGED <<slots, displaced, step, clock, open>>

PutLock(u) ==
    /\ pc[u] = "put" /\ Writers = {} /\ Readers = {}
    /\ Goes(u, "put_walk")
    /\ UNCHANGED <<slots, entryVars, key, now, entry, displaced, step, victim, rank, clock, open>>

\* How good a victim the occupant is: 0 same key, 1 free, 2 expired, 3 unused, 4 in use.
Rank(u, e) ==
    CASE e = NULL -> 1
      [] Matches(u, e) -> 0
      [] e # NULL /\ ~Matches(u, e) ->
             IF Expired(e, now[u]) THEN 2 ELSE IF refs[e] <= 1 THEN 3 ELSE 4

\* One slot of the walk.  The counts it reads can change before the next one is read.
PutProbe(u) ==
    /\ pc[u] = "put_walk" /\ Walking(u) /\ rank[u] # 0
    /\ LET r == Rank(u, slots[Candidate(u)]) IN
       IF r < rank[u]
       THEN /\ rank' = [rank EXCEPT ![u] = r]
            /\ victim' = [victim EXCEPT ![u] = Candidate(u)]
       ELSE UNCHANGED <<rank, victim>>
    /\ step' = [step EXCEPT ![u] = @ + 1]
    /\ UNCHANGED <<slots, entryVars, pc, key, now, entry, displaced, clock, open>>

PutSwap(u) ==
    /\ pc[u] = "put_walk" /\ (step[u] = Probe \/ rank[u] = 0)
    /\ displaced' = [displaced EXCEPT ![u] = slots[victim[u]]]
    /\ slots' = [slots EXCEPT ![victim[u]] = entry[u]]
    /\ victim' = [victim EXCEPT ![u] = 0]
    /\ rank' = [rank EXCEPT ![u] = 0]
    /\ LocalsGone(u)
    /\ Goes(u, "put_displaced")
    /\ UNCHANGED <<entryVars, entry, clock, open>>

-----------------------------------------------------------------------------
(* sc_cache_release                                                          *)

\* The decrement answers zero to exactly one caller.
Last(u, e) == refs'[e] = 0

\* Freed memory holds nothing anybody may read.
Freed(e) ==
    /\ alive' = alive \ {e}
    /\ keyOf' = [keyOf EXCEPT ![e] = NULL]
    /\ created' = [created EXCEPT ![e] = 0]
    /\ UNCHANGED refs

GivesUp(u, e, place, last) ==
    /\ refs' = [refs EXCEPT ![e] = @ - 1]
    /\ Goes(u, IF Last(u, e) THEN last ELSE place)

\* sc_cache_put releases what it displaced, outside the lock.
PutRelease(u) ==
    /\ pc[u] = "put_displaced"
    /\ IF displaced[u] = NULL
       THEN Goes(u, "hold") /\ UNCHANGED <<refs, displaced>>
       ELSE /\ GivesUp(u, displaced[u], "hold", "put_free")
            /\ displaced' = IF Last(u, displaced[u]) THEN displaced
                            ELSE [displaced EXCEPT ![u] = NULL]
    /\ UNCHANGED <<slots, keyOf, created, alive, key, now, entry, step, victim, rank, clock, open>>

PutFree(u) ==
    /\ pc[u] = "put_free"
    /\ Freed(displaced[u])
    /\ displaced' = [displaced EXCEPT ![u] = NULL]
    /\ Goes(u, "hold")
    /\ UNCHANGED <<slots, key, now, entry, step, victim, rank, clock, open>>

Release(u) ==
    /\ pc[u] = "hold"
    /\ GivesUp(u, entry[u], "idle", "free")
    /\ entry' = IF Last(u, entry[u]) THEN entry ELSE [entry EXCEPT ![u] = NULL]
    /\ UNCHANGED <<slots, keyOf, created, alive, key, now, displaced, step, victim, rank, clock,
                   open>>

Free(u) ==
    /\ pc[u] = "free"
    /\ Freed(entry[u])
    /\ entry' = [entry EXCEPT ![u] = NULL]
    /\ Goes(u, "idle")
    /\ UNCHANGED <<slots, key, now, displaced, step, victim, rank, clock, open>>

-----------------------------------------------------------------------------

Call(u) ==
    \/ \E k \in Keys : Get(u, k) \/ \E e \in Entries : Put(u, k, e)
    \/ GetLock(u) \/ GetProbe(u) \/ GetMiss(u) \/ GetCount(u)
    \/ PutLock(u) \/ PutProbe(u) \/ PutSwap(u) \/ PutRelease(u) \/ PutFree(u)
    \/ Release(u) \/ Free(u)

Next == Create \/ Destroy \/ Tick \/ \E u \in Users : Call(u)

Spec == Init /\ [][Next]_vars

-----------------------------------------------------------------------------
(* Properties.                                                               *)

\* The users that own a reference to e: what a call returned, is about to count, or has
\* taken out of the table and not yet given up.
Holders(e) ==
    {u \in Users : entry[u] = e /\ pc[u] \in {"put", "put_walk", "put_displaced", "put_free", "hold"}}

Displacers(e) == {u \in Users : displaced[u] = e /\ pc[u] = "put_displaced"}

\* The table's own reference; an entry being put carries it before it is in the table.
TableRefs(e) ==
    Cardinality({s \in Slots : slots[s] = e})
    + Cardinality({u \in Users : entry[u] = e /\ pc[u] \in {"put", "put_walk"}})

\* An entry's count is the table's pointer plus everybody who uses it (the comment on
\* `references`), through lookups, evictions and releases that overlap.
CountsAreTrue ==
    \A e \in alive : refs[e] = TableRefs(e) + Cardinality(Holders(e)) + Cardinality(Displacers(e))

\* Nothing the table or a call can still reach has been freed, so no count is raised in freed
\* memory and no entry is freed twice (sc_cache_get counts inside the lock, sc_cache_release
\* frees at zero only).
NothingFreedInUse ==
    /\ InTable \subseteq alive
    /\ \A u \in Users : {entry[u], displaced[u]} \subseteq MayBe(alive)
    /\ \A u, v \in Users : pc[u] = "free" /\ pc[v] = "put_free" => entry[u] # displaced[v]

\* A key has at most one entry in the table, so a lookup cannot depend on the probe order
\* (the walk of sc_cache_put).
OneEntryPerKey ==
    \A s, t \in Slots :
        slots[s] # NULL /\ slots[t] # NULL /\ keyOf[slots[s]] = keyOf[slots[t]] => s = t

\* sc_cache_destroy leaves no entry behind once its readers are gone: every reference that
\* was taken was given up.
NothingLeaks == ~open => alive = {}

\* The table and its counts say what is there, and nothing that is reached was freed
\* (sc_cache_get, _put, _release, _destroy).
TableIsTrue == TypeOK /\ CountsAreTrue /\ NothingFreedInUse /\ OneEntryPerKey /\ NothingLeaks

\* The table does what the abstract cache promises.
EntryOf(k) ==
    IF \E e \in InTable : keyOf[e] = k THEN CHOOSE e \in InTable : keyOf[e] = k ELSE NULL
Contents == INSTANCE CacheContents WITH
    cached <- [k \in Keys |-> EntryOf(k)],
    asked <- [u \in Users |-> IF pc[u] \in {"get", "get_walk", "get_found"} THEN key[u] ELSE NULL],
    putting <- [u \in Users |-> IF pc[u] \in {"put_displaced", "put_free"} THEN entry[u] ELSE NULL],
    answer <- [u \in Users |-> IF pc[u] = "hold" THEN entry[u] ELSE NULL]

\* Every lookup, insertion and eviction is a step of CacheContents: a hit is the last entry put
\* under its key, and an insertion costs at most one other key its entry (cache.h on
\* sc_cache_get and sc_cache_put).
KeepsContents == Contents!Spec

=============================================================================
