---------------------------- MODULE SessionStore ----------------------------
(***************************************************************************)
(* The session store of the TypeScript backend,                            *)
(* service-core/src/session/SessionStore.ts: sessions in slots that tokens *)
(* name, expiry in the order of creation, a free list, and a ceiling.      *)
(*                                                                         *)
(* Every method is synchronous, so a call is one action.  The clock is the *)
(* wall clock and may step back.  A token is its number in `handed': a     *)
(* mint gives a token nobody had before.                                   *)
(***************************************************************************)
EXTENDS Integers, Sequences, FiniteSets

CONSTANTS
    Users,
    NONE,               \* undefined
    MaxSessions,        \* maxSessions
    HardTimeout,        \* hardTimeoutMs
    ReissueAfter,       \* tokenReissueAfterMs
    CompactThreshold,   \* ORDER_COMPACT_THRESHOLD
    MaxTime,            \* bound on the clock
    MaxTokens           \* bound: the tokens a run mints

ASSUME LimitsAssumption ==
    /\ MaxSessions \in Nat \ {0} /\ HardTimeout \in Nat \ {0} /\ ReissueAfter \in Nat \ {0}
    /\ CompactThreshold \in Nat \ {0} /\ MaxTime \in Nat /\ MaxTokens \in Nat

VARIABLES
    store,          \* slots, order, orderHead, free and liveCount
    lastCreatedAt,
    now,            \* this.now()
    handed          \* every token that was minted, with its claims, its session and the time

vars == <<store, lastCreatedAt, now, handed>>

Times == 0..MaxTime
Claims == [slot : 0..MaxSessions, user : Users, createdAt : Times]
Entries == [user : Users, createdAt : Times, tokens : SUBSET (1..MaxTokens), issuedAt : Times,
            session : 1..MaxTokens]

\* undefined is no session.
ASSUME NoneAssumption == NONE \notin Entries

\* The slots that stand in the order of creation and were not reclaimed.
Standing(st) == SubSeq(st.order, st.orderHead + 1, Len(st.order))
Occupied(st) == {s \in DOMAIN st.slots : st.slots[s] # NONE}

TypeOK ==
    /\ store.slots \in [0..(Cardinality(DOMAIN store.slots) - 1) -> Entries \union {NONE}]
    /\ store.order \in Seq(DOMAIN store.slots) /\ store.free \in Seq(DOMAIN store.slots)
    /\ store.orderHead \in 0..Len(store.order) /\ store.liveCount \in Nat
    /\ lastCreatedAt \in Times /\ now \in Times
    /\ handed \in Seq([claims : Claims, session : 1..MaxTokens, at : Times])

Init ==
    /\ store = [slots |-> [s \in {} |-> NONE], order |-> <<>>, orderHead |-> 0, free |-> <<>>,
                liveCount |-> 0]
    /\ lastCreatedAt = 0 /\ now \in Times /\ handed = <<>>

\* The wall clock goes on, or is set back.
Clock(t) == now' = t /\ UNCHANGED <<store, lastCreatedAt, handed>>

-----------------------------------------------------------------------------
(* Reading.                                                                  *)

IsWithinTimeout(createdAt) == now - createdAt < HardTimeout

\* Mutant: a user's own token opens whatever session of that user is in its slot.
FindUser(c, token) ==
    /\ IsWithinTimeout(c.createdAt) /\ c.slot \in Occupied(store)
    /\ LET entry == store.slots[c.slot] IN
          IsWithinTimeout(entry.createdAt) /\ entry.user = c.user

Find(c, token) ==
    /\ IsWithinTimeout(c.createdAt) /\ c.slot \in Occupied(store)
    /\ LET entry == store.slots[c.slot] IN
          IsWithinTimeout(entry.createdAt) /\ entry.user = c.user /\ token \in entry.tokens

-----------------------------------------------------------------------------
(* Expiry.                                                                   *)

Dead(st, slot) == st.slots[slot] = NONE \/ ~IsWithinTimeout(st.slots[slot].createdAt)

CompactOrder(st) ==
    IF \/ st.orderHead = Len(st.order)
       \/ st.orderHead >= CompactThreshold /\ st.orderHead * 2 >= Len(st.order)
    THEN [st EXCEPT !.order = Standing(st), !.orderHead = 0]
    ELSE st

\* liveCount when the slots `gone' are emptied.
Leaves(st, gone) == st.liveCount - Cardinality(gone \intersect Occupied(st))

\* The first n slots of the order are handed back, in turn.
Release(st, n) ==
    LET turn == SubSeq(Standing(st), 1, n)
        gone == {turn[i] : i \in DOMAIN turn}
    IN  CompactOrder([st EXCEPT
            !.orderHead = @ + n,
            !.slots = [s \in DOMAIN st.slots |-> IF s \in gone THEN NONE ELSE st.slots[s]],
            !.free = @ \o turn,
            !.liveCount = Leaves(st, gone)])

\* How far reclaimExpired walks: to the first session that is still live.
Expired(st) ==
    CHOOSE n \in 0..Len(Standing(st)) :
        /\ \A i \in 1..n : Dead(st, Standing(st)[i])
        /\ n < Len(Standing(st)) => ~Dead(st, Standing(st)[n + 1])

ReclaimExpired(st) == Release(st, Expired(st))

RetireOldest(st) == IF Standing(st) = <<>> THEN st ELSE Release(st, 1)

-----------------------------------------------------------------------------
(* Creating.                                                                 *)

Full(st) == st.free = <<>> /\ Cardinality(DOMAIN st.slots) >= MaxSessions

MakeRoom(st) == IF Full(st) THEN RetireOldest(st) ELSE st

Ready == MakeRoom(ReclaimExpired(store))

\* Mutant: the clock's word is taken for it.
CreatedAtNow == now

CreatedAt == IF now > lastCreatedAt THEN now ELSE lastCreatedAt

NextToken == Len(handed) + 1

\* The session is built and its token minted before its slot is taken.
Create(user) ==
    LET slot == IF Ready.free = <<>> THEN Cardinality(DOMAIN Ready.slots) ELSE Ready.free[Len(Ready.free)]
        entry == [user |-> user, createdAt |-> CreatedAt, tokens |-> {NextToken}, issuedAt |-> now,
                  session |-> NextToken]
    IN  /\ NextToken <= MaxTokens
        /\ store' = [Ready EXCEPT
                !.slots = [s \in DOMAIN Ready.slots \union {slot} |->
                              IF s = slot THEN entry ELSE Ready.slots[s]],
                !.free = SubSeq(@, 1, Len(@) - 1),
                !.order = Append(@, slot),
                !.liveCount = @ + 1]
        /\ lastCreatedAt' = CreatedAt
        /\ handed' = Append(handed, [claims |-> [slot |-> slot, user |-> user, createdAt |-> CreatedAt],
                                     session |-> NextToken, at |-> now])
        /\ UNCHANGED now

\* The user's id, the session or its token is refused: what was reclaimed and retired stays so.
CreateThrows == store' = Ready /\ UNCHANGED <<lastCreatedAt, now, handed>>

-----------------------------------------------------------------------------
(* Refreshing and ending.                                                    *)

FreshClaims(c) ==
    [slot |-> c.slot, user |-> store.slots[c.slot].user, createdAt |-> store.slots[c.slot].createdAt]

Due(entry) == now - entry.issuedAt >= ReissueAfter

RefreshToken(c, token) ==
    /\ Find(c, token) /\ Due(store.slots[c.slot]) /\ NextToken <= MaxTokens
    /\ store' = [store EXCEPT !.slots[c.slot].tokens = @ \union {NextToken},
                              !.slots[c.slot].issuedAt = now]
    /\ handed' = Append(handed, [claims |-> FreshClaims(c), session |-> store.slots[c.slot].session,
                                 at |-> now])
    /\ UNCHANGED <<lastCreatedAt, now>>

Emptied(slot) == [store EXCEPT !.slots[slot] = NONE, !.liveCount = @ - 1]

Invalidate(c, token) ==
    /\ Find(c, token)
    /\ store' = Emptied(c.slot)
    /\ UNCHANGED <<lastCreatedAt, now, handed>>

Creating == CreateThrows \/ \E u \in Users : Create(u)

Next ==
    \/ \E t \in Times : Clock(t)
    \/ Creating
    \/ \E c \in Claims, token \in DOMAIN handed : RefreshToken(c, token) \/ Invalidate(c, token)

Spec == Init /\ [][Next]_vars

-----------------------------------------------------------------------------
(* Properties.                                                               *)

Injective(s) == \A i, j \in DOMAIN s : s[i] = s[j] => i = j
Members(s) == {s[i] : i \in DOMAIN s}

\* Every slot is in exactly one of the order and the free list, once, and a free one is empty:
\* no index is handed out twice and none is lost, with sessions invalidated out of turn
\* (invalidate, "freeing it here would put the same index in `free` twice").  `size' is the
\* number of sessions there are, although reclaimExpired also passes slots that were emptied.
SlotsAreAccounted ==
    /\ TypeOK
    /\ Injective(Standing(store)) /\ Injective(store.free)
    /\ Members(Standing(store)) \intersect Members(store.free) = {}
    /\ Members(Standing(store)) \union Members(store.free) = DOMAIN store.slots
    /\ Members(store.free) \intersect Occupied(store) = {}
    /\ store.liveCount = Cardinality(Occupied(store))

\* The order never drags along more than it needs: memory stays proportional to the ceiling
\* however many sessions come and go (compactOrder).
OrderStaysShort ==
    Len(store.order) < MaxSessions + (IF CompactThreshold > MaxSessions THEN CompactThreshold ELSE MaxSessions)

\* The store never has more slots than its ceiling (create, retireOldest).
CeilingHolds == Cardinality(DOMAIN store.slots) <= MaxSessions

\* The store's memory is bounded by its ceiling, for good (slots and order).
StoreStaysBounded == OrderStaysShort /\ CeilingHolds

\* A token opens the session it was minted for and no other, in particular not the one that
\* has its slot by now (find, on every claim there can be).
OpensItsOwnSession ==
    \A token \in DOMAIN handed, c \in Claims :
        Find(c, token) => store.slots[c.slot].session = handed[token].session

\* Every token of a session carries the session's own claims, whatever claims it was asked for
\* with: what is signed was never only claimed (refreshToken).
SignedClaimsAreTrue ==
    \A s \in Occupied(store) : \A token \in store.slots[s].tokens :
        handed[token].claims = [slot |-> s, user |-> store.slots[s].user, createdAt |-> store.slots[s].createdAt]

\* A session gets at most one token per interval (`tokenReissueAfterMs' bounds the set).
TokensAreSpaced ==
    \A i, j \in DOMAIN handed :
        i < j /\ handed[i].session = handed[j].session => handed[j].at - handed[i].at >= ReissueAfter

\* A token means its own session, in what it opens and in what it says, and sessions mint few
\* of them (find, refreshToken).
TokensAreTrue == OpensItsOwnSession /\ SignedClaimsAreTrue /\ TokensAreSpaced

\* Slots, memory and tokens of the store are what its sessions say (SessionStore.ts).
StoreIsTrue == SlotsAreAccounted /\ StoreStaysBounded /\ TokensAreTrue

\* A creation leaves no session in the store that has timed out (reclaimExpired stops at the
\* first that has not).
CreationLeavesNoneExpired ==
    [][Creating => \A s \in Occupied(store') : IsWithinTimeout(store'.slots[s].createdAt)]_vars

\* A creation costs a session that has not timed out only at the ceiling, at most one, and the
\* oldest (create, retireOldest).
OnlyTheOldestIsRetired ==
    [][Creating =>
        LET young == {s \in Occupied(store) : IsWithinTimeout(store.slots[s].createdAt)}
            lost == {s \in young : s \notin Occupied(store') \/ store'.slots[s] # store.slots[s]}
        IN  /\ Cardinality(lost) <= 1
            /\ lost # {} => Cardinality(DOMAIN store.slots) = MaxSessions /\ ReclaimExpired(store).free = <<>>
            /\ \A s \in lost, t \in young : store.slots[s].createdAt <= store.slots[t].createdAt]_vars

\* A creation takes away what has timed out, and of the rest no more than the ceiling asks for
\* (create, reclaimExpired, retireOldest).
CreationIsFair == CreationLeavesNoneExpired /\ OnlyTheOldestIsRetired

=============================================================================
