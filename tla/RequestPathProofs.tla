------------------------- MODULE RequestPathProofs -------------------------
(* RequestPath keeps its table and its answers true, for any number of       *)
(* loops, requests, units, slots and generations.                            *)
EXTENDS RequestPath, Lists, TLAPS

LEMMA ShapeFacts ==
  ASSUME shape \in Shapes
  PROVE  /\ shape.slots \in Nat \ {0} /\ GenMask \in Nat \ {0}
         /\ 1 \in Slots /\ 0 \in 0..GenMask
         /\ (CHOOSE l \in Loops : TRUE) \in Loops
         /\ NoTicket \in Tickets
  <1>1. /\ shape.slots \in Nat \ {0} /\ shape.mask \in Nat \ {0}
        /\ shape.loops \subseteq Loops /\ shape.loops # {}
    BY ShapesAssumption, Zenon
  <1>2. (CHOOSE l \in Loops : TRUE) \in Loops
    BY <1>1, Zenon
  <1>3. 1 \in Slots /\ 0 \in 0..GenMask
    BY <1>1 DEF Slots, GenMask
  <1> QED
    BY <1>1, <1>2, <1>3, Zenon DEF GenMask, NoTicket, Tickets

LEMMA NextGenTypes ==
  ASSUME shape \in Shapes, NEW g \in 0..GenMask
  PROVE  NextGen(g) \in 0..GenMask /\ NextGen(g) # 0
  BY ShapeFacts DEF NextGen

LEMMA PhaseTypes ==
  ASSUME NEW e \in Entries, NEW p \in {"free", "armed", "resuming"}
  PROVE  LET x == [e EXCEPT !.phase = p]
         IN  x \in Entries /\ x.phase = p /\ x.gen = e.gen /\ x.req = e.req /\ x.work = e.work
  BY Zenon DEF Entries

LEMMA ReqTypes ==
  ASSUME NEW e \in Entries
  PROVE  LET x == [e EXCEPT !.req = NULL]
         IN  x \in Entries /\ x.phase = e.phase /\ x.gen = e.gen /\ x.req = NULL /\ x.work = e.work
  BY Zenon DEF Entries, MayBe

LEMMA RelTypes ==
  ASSUME NEW e \in Entries
  PROVE  LET x == Released(e)
         IN  x \in Entries /\ x.phase = "free" /\ x.gen = e.gen /\ x.req = NULL /\ x.work = NULL
  BY Zenon DEF Entries, MayBe, Released

\* One slot's entry becomes e, and no other entry changes.
Becomes(l, s, e) ==
    /\ slot' \in [Loops -> [Slots -> Entries]]
    /\ slot'[l][s] = e
    /\ \A k \in Loops, x \in Slots : k # l \/ x # s => slot'[k][x] = slot[k][x]

LEMMA EntryStep ==
  ASSUME TypeOK, NEW l \in Loops, NEW s \in Slots, NEW e \in Entries,
         slot' = [slot EXCEPT ![l][s] = e]
  PROVE  Becomes(l, s, e)
  BY Zenon DEF TypeOK, Becomes

LEMMA PhaseStep ==
  ASSUME TypeOK, NEW l \in Loops, NEW s \in Slots, NEW p \in {"free", "armed", "resuming"},
         slot' = [slot EXCEPT ![l][s].phase = p]
  PROVE  Becomes(l, s, [slot[l][s] EXCEPT !.phase = p])
  <1>1. slot[l][s] \in Entries
    BY Zenon DEF TypeOK
  <1>2. PICK e \in Entries : e = [slot[l][s] EXCEPT !.phase = p]
    BY <1>1, PhaseTypes, Zenon
  <1>3. slot' = [slot EXCEPT ![l][s] = e]
    BY <1>2, Zenon
  <1> QED
    BY <1>2, <1>3, EntryStep, Zenon

LEMMA ReqStep ==
  ASSUME TypeOK, NEW l \in Loops, NEW s \in Slots, slot' = [slot EXCEPT ![l][s].req = NULL]
  PROVE  Becomes(l, s, [slot[l][s] EXCEPT !.req = NULL])
  <1>1. slot[l][s] \in Entries
    BY Zenon DEF TypeOK
  <1>2. PICK e \in Entries : e = [slot[l][s] EXCEPT !.req = NULL]
    BY <1>1, ReqTypes, Zenon
  <1>3. slot' = [slot EXCEPT ![l][s] = e]
    BY <1>2, Zenon
  <1> QED
    BY <1>2, <1>3, EntryStep, Zenon

-----------------------------------------------------------------------------

LEMMA TypeInit == Init => TypeOK
  <1> SUFFICES ASSUME Init PROVE TypeOK
    BY Zenon
  <1>1. shape \in Shapes
    BY Zenon DEF Init
  <1>2. slot \in [Loops -> [Slots -> Entries]]
    BY <1>1, ShapeFacts, Zenon DEF Init, Entries, MayBe
  <1>3. free \in [Loops -> Seq(Slots)] /\ queue \in [Loops -> Seq(Slots)]
    <2> SUFFICES ASSUME NEW l \in Loops PROVE free[l] \in Seq(Slots) /\ queue[l] \in Seq(Slots)
      BY Zenon DEF Init
    <2>1. free[l] \in [1..shape.slots -> Slots] /\ shape.slots \in Nat /\ queue[l] = <<>>
      BY <1>1, ShapeFacts, Zenon DEF Init, Slots
    <2> QED
      BY <2>1
  <1>4. waits \in [Requests -> MayBe(Units)] /\ hook \in [Requests -> Tickets]
        /\ ticket \in [Units -> Tickets] /\ stale \subseteq Tickets
    BY <1>1, ShapeFacts, Zenon DEF Init, MayBe
  <1>5. /\ unit \in [Units -> {"none", "out", "claimed", "sent", "never"}]
        /\ lent \in [Loops -> SUBSET Units]
        /\ loop \in [Loops -> {"serving", "draining", "ended", "failed"}]
        /\ server \in {"running", "quitting", "closing", "destroyed"}
    BY Zenon DEF Init
  <1> QED
    BY <1>1, <1>2, <1>3, <1>4, <1>5, Zenon DEF TypeOK

LEMMA ForgetTypes ==
  ASSUME TypeOK, NEW t \in Tickets, Forget(t)
  PROVE  slot' \in [Loops -> [Slots -> Entries]]
  <1>1. t.loop \in Loops /\ t.slot \in Slots
    BY Zenon DEF Tickets
  <1>2. slot' = slot \/ slot' = [slot EXCEPT ![t.loop][t.slot].req = NULL]
    BY Zenon DEF Forget
  <1> QED
    BY <1>1, <1>2, ReqStep, Zenon DEF TypeOK, Becomes

\* Steps of the loop's thread and of a worker that move slots.
LEMMA DeferTypes ==
  ASSUME TypeOK, NEW l \in Loops, NEW r \in Requests, NEW u \in Units, Defer(l, r, u)
  PROVE  TypeOK'
  <1> DEFINE s == Head(free[l])
             t == [loop |-> l, slot |-> s, gen |-> NextGen(slot[l][s].gen)]
  <1>1. s \in Slots /\ Tail(free[l]) \in Seq(Slots)
    BY DEF TypeOK, Defer
  <1>2. slot[l][s].gen \in 0..GenMask
    BY <1>1 DEF TypeOK, Entries
  <1>3. t \in Tickets
    BY <1>1, <1>2, NextGenTypes, Zenon DEF Tickets, TypeOK
  <1>4. NextGen(slot[l][s].gen) \in 0..GenMask
    BY <1>2, NextGenTypes, Zenon DEF TypeOK
  <1>5. /\ slot' = [slot EXCEPT ![l][s] = [phase |-> "armed", gen |-> t.gen, req |-> r, work |-> u]]
        /\ ticket' = [ticket EXCEPT ![u] = t]
        /\ hook' = [q \in Requests |-> IF q = r THEN t
                                      ELSE IF hook[q] = t THEN NoTicket ELSE hook[q]]
        /\ stale' = stale \ {t}
        /\ free' = [free EXCEPT ![l] = Tail(@)]
        /\ lent' = [lent EXCEPT ![l] = @ \union {u}]
        /\ waits' = [waits EXCEPT ![r] = u]
        /\ unit' = [unit EXCEPT ![u] = "out"]
        /\ UNCHANGED <<shape, queue, loop, server>>
    BY Zenon DEF Defer
  <1>6. hook' \in [Requests -> Tickets] /\ ticket' \in [Units -> Tickets] /\ stale' \subseteq Tickets
    BY <1>3, <1>5, ShapeFacts, Zenon DEF TypeOK
  <1>7. slot' \in [Loops -> [Slots -> Entries]]
    BY <1>1, <1>4, <1>5, Zenon DEF TypeOK, Entries, MayBe
  <1>8. free' \in [Loops -> Seq(Slots)] /\ queue' \in [Loops -> Seq(Slots)]
    BY <1>1, <1>5, Zenon DEF TypeOK
  <1>9. /\ waits' \in [Requests -> MayBe(Units)] /\ lent' \in [Loops -> SUBSET Units]
        /\ unit' \in [Units -> {"none", "out", "claimed", "sent", "never"}]
    BY <1>5, Zenon DEF TypeOK, MayBe
  <1> QED
    BY <1>5, <1>6, <1>7, <1>8, <1>9, Zenon DEF TypeOK, Slots, GenMask, Tickets, Entries

LEMMA ClaimTypes ==
  ASSUME TypeOK, NEW u \in Units, Claim(u)
  PROVE  TypeOK'
  <1>1. /\ ticket[u] \in Tickets /\ ticket[u].loop \in Loops /\ ticket[u].slot \in Slots
    BY Zenon DEF TypeOK, Tickets
  <1>2. /\ \/ slot' = [slot EXCEPT ![ticket[u].loop][ticket[u].slot].phase = "resuming"]
           \/ slot' = slot
        /\ \E x \in {"claimed", "never"} : unit' = [unit EXCEPT ![u] = x]
        /\ stale' = stale \union {ticket[u]}
        /\ UNCHANGED <<shape, free, queue, waits, hook, ticket, lent, loop, server>>
    BY Zenon DEF Claim
  <1>3. slot' \in [Loops -> [Slots -> Entries]]
    BY <1>1, <1>2, PhaseStep, Zenon DEF TypeOK, Becomes
  <1>4. unit' \in [Units -> {"none", "out", "claimed", "sent", "never"}] /\ stale' \subseteq Tickets
    BY <1>1, <1>2, Zenon DEF TypeOK
  <1> QED
    BY <1>2, <1>3, <1>4, Zenon DEF TypeOK, Slots, GenMask, Tickets, Entries

LEMMA ResumeTypes ==
  ASSUME TypeOK, NEW t \in stale, ResumeAgain(t)
  PROVE  TypeOK'
  <1>1. t.loop \in Loops /\ t.slot \in Slots
    BY Zenon DEF TypeOK, Tickets
  <1>2. /\ stale' \subseteq stale
        /\ \/ /\ slot' = [slot EXCEPT ![t.loop][t.slot].phase = "resuming"]
              /\ queue' = [queue EXCEPT ![t.loop] = Append(@, t.slot)]
           \/ slot' = slot /\ queue' = queue
        /\ UNCHANGED <<shape, free, waits, hook, unit, ticket, lent, loop, server>>
    BY Zenon DEF ResumeAgain, Home
  <1>3. slot' \in [Loops -> [Slots -> Entries]]
    BY <1>1, <1>2, PhaseStep, Zenon DEF TypeOK, Becomes
  <1>4. queue' \in [Loops -> Seq(Slots)]
    <2>1. Append(queue[t.loop], t.slot) \in Seq(Slots)
      BY <1>1 DEF TypeOK
    <2> QED
      BY <1>1, <1>2, <2>1, Zenon DEF TypeOK
  <1> QED
    BY <1>2, <1>3, <1>4, Zenon DEF TypeOK, Slots, GenMask, Tickets, Entries

LEMMA DeliverTypes ==
  ASSUME TypeOK, NEW l \in Loops, Deliver(l)
  PROVE  TypeOK'
  <1> DEFINE s == Head(queue[l])
             e == slot[l][s]
  <1>1. s \in Slots /\ Tail(queue[l]) \in Seq(Slots) /\ <<s>> \o free[l] \in Seq(Slots)
    BY DEF TypeOK, Deliver
  <1>2. /\ slot' = [slot EXCEPT ![l][s] = Released(e)]
        /\ queue' = [queue EXCEPT ![l] = Tail(@)]
        /\ free' = [free EXCEPT ![l] = <<s>> \o @]
        /\ waits' = [r \in Requests |-> IF r = e.req THEN NULL ELSE waits[r]]
        /\ unit' = [u \in Units |-> IF u = e.work THEN "none" ELSE unit[u]]
        /\ lent' = [lent EXCEPT ![l] = @ \ {e.work}]
        /\ UNCHANGED <<shape, hook, ticket, stale, loop, server>>
    BY Zenon DEF Deliver, GivesBack, Returns
  <1>3. Released(e) \in Entries
    BY <1>1, RelTypes DEF TypeOK
  <1>4. slot' \in [Loops -> [Slots -> Entries]]
    BY <1>1, <1>2, <1>3, Zenon DEF TypeOK
  <1>5. queue' \in [Loops -> Seq(Slots)] /\ free' \in [Loops -> Seq(Slots)]
    BY <1>1, <1>2, Zenon DEF TypeOK
  <1>6. /\ waits' \in [Requests -> MayBe(Units)] /\ lent' \in [Loops -> SUBSET Units]
        /\ unit' \in [Units -> {"none", "out", "claimed", "sent", "never"}]
    BY <1>2, Zenon DEF TypeOK, MayBe
  <1> QED
    BY <1>2, <1>4, <1>5, <1>6, Zenon DEF TypeOK, Slots, GenMask, Tickets, Entries

\* Of the loops and the server only the place they stand at moves.
Stopping ==
    \/ \E l \in Loops : Drain(l) \/ LoopDrained(l) \/ LoopDeadline(l) \/ LoopFails(l)
    \/ Quit \/ Close \/ Destroy

LEMMA StoppingStays ==
  ASSUME Stopping
  PROVE  UNCHANGED <<shape, slot, free, queue, waits, hook, unit, ticket, stale, lent>>
  BY Zenon DEF Stopping, Drain, LoopDrained, LoopDeadline, LoopFails, Quit, Close, Destroy, tableVars

LEMMA TypeStep ==
  ASSUME TypeOK, [Next]_vars
  PROVE  TypeOK'
  <1>1. CASE UNCHANGED vars
    BY <1>1, Zenon DEF vars, TypeOK, Slots, GenMask, Tickets, Entries
  <1>2. CASE Stopping
    <2>1. /\ loop' \in [Loops -> {"serving", "draining", "ended", "failed"}]
          /\ server' \in {"running", "quitting", "closing", "destroyed"}
      BY <1>2, Zenon
      DEF Stopping, Drain, LoopDrained, LoopDeadline, LoopFails, Quit, Close, Destroy, TypeOK
    <2> QED
      BY <1>2, <2>1, StoppingStays, Zenon DEF TypeOK, Slots, GenMask, Tickets, Entries
  <1>3. ASSUME NEW u \in Units, Send(u)
        PROVE  TypeOK'
    <2>1. ticket[u].loop \in Loops /\ ticket[u].slot \in Slots
      BY Zenon DEF TypeOK, Tickets
    <2>2. queue' \in [Loops -> Seq(Slots)]
      BY <1>3, <2>1 DEF TypeOK, Send, Home
    <2>3. unit' \in [Units -> {"none", "out", "claimed", "sent", "never"}]
      BY <1>3, Zenon DEF TypeOK, Send
    <2> QED
      BY <1>3, <2>2, <2>3, Zenon DEF Send, TypeOK, Slots, GenMask, Tickets, Entries
  <1>4. ASSUME NEW r \in Requests, ClientLeaves(r) \/ LateStop(r)
        PROVE  TypeOK'
    <2>1. hook[r] \in Tickets /\ Forget(hook[r])
      BY <1>4, Zenon DEF TypeOK, ClientLeaves, LateStop
    <2>2. slot' \in [Loops -> [Slots -> Entries]]
      BY <2>1, ForgetTypes, Zenon
    <2>3. waits' \in [Requests -> MayBe(Units)] /\ hook' \in [Requests -> Tickets]
      BY <1>4, ShapeFacts, Zenon DEF TypeOK, ClientLeaves, LateStop, MayBe
    <2> QED
      BY <1>4, <2>2, <2>3, Zenon DEF ClientLeaves, LateStop, TypeOK, Slots, GenMask, Tickets, Entries
  <1> QED
    BY <1>1, <1>2, <1>3, <1>4, DeferTypes, ClaimTypes, ResumeTypes, DeliverTypes, Zenon
    DEF Next, Stopping

-----------------------------------------------------------------------------
(* The inductive invariant.                                                  *)

At(t) == slot[t.loop][t.slot]
TicketOf(l, s) == [loop |-> l, slot |-> s, gen |-> slot[l][s].gen]

\* A taken slot holds the unit whose ticket names it, armed until the unit is handed back, and
\* the request that waits for that unit if it is still there.
SlotTrue(l, s) ==
    /\ slot[l][s].phase = "free" => slot[l][s].req = NULL /\ slot[l][s].work = NULL
    /\ slot[l][s].phase # "free" =>
          /\ slot[l][s].gen # 0 /\ slot[l][s].work \in Units
          /\ ticket[slot[l][s].work] = TicketOf(l, s)
          /\ slot[l][s].phase = "armed" <=> unit[slot[l][s].work] = "out"
          /\ unit[slot[l][s].work] \in {"out", "claimed", "sent"}
    /\ slot[l][s].req # NULL => waits[slot[l][s].req] = slot[l][s].work

UnitTrue(u) ==
    /\ unit[u] # "never"
    /\ unit[u] # "none" => At(ticket[u]).work = u

\* A stop hook, however late, finds its own request or none.
RequestTrue(r) ==
    /\ waits[r] # NULL =>
          unit[waits[r]] # "none" /\ hook[r] = ticket[waits[r]] /\ At(hook[r]).req = r
    /\ At(hook[r]).phase # "free" /\ At(hook[r]).gen = hook[r].gen => At(hook[r]).req \in {NULL, r}

QueueTrue(l) ==
    /\ IsInjective(queue[l])
    /\ \A s \in Slots :
          s \in Range(queue[l]) <=> slot[l][s].phase = "resuming" /\ unit[slot[l][s].work] = "sent"

FreeTrue(l) ==
    /\ IsInjective(free[l])
    /\ \A s \in Slots : s \in Range(free[l]) <=> slot[l][s].phase = "free"

PathInv ==
    /\ \A l \in Loops, s \in Slots : SlotTrue(l, s)
    /\ \A u \in Units : UnitTrue(u)
    /\ \A r \in Requests : RequestTrue(r)
    /\ \A l \in Loops : QueueTrue(l) /\ FreeTrue(l)
    /\ \A t \in stale : ~Names(t)
    /\ ArenasWithUnits

LEMMA ListsOfSlots ==
  ASSUME TypeOK, NEW l \in Loops
  PROVE  Range(free[l]) \subseteq Slots /\ Range(queue[l]) \subseteq Slots
  <1>1. free[l] \in Seq(Slots) /\ queue[l] \in Seq(Slots)
    BY Zenon DEF TypeOK
  <1> QED
    BY <1>1, ListElements, Zenon

\* A unit on its way has its slot, and no other slot.
LEMMA Held ==
  ASSUME TypeOK, PathInv, NEW u \in Units, unit[u] # "none"
  PROVE  /\ ticket[u].loop \in Loops /\ ticket[u].slot \in Slots
         /\ At(ticket[u]).work = u /\ At(ticket[u]).phase # "free"
         /\ At(ticket[u]).gen = ticket[u].gen /\ ticket[u].gen # 0
         /\ At(ticket[u]).phase = "armed" <=> unit[u] = "out"
         /\ unit[u] \in {"out", "claimed", "sent"}
  <1> DEFINE l == ticket[u].loop
             s == ticket[u].slot
  <1>1. l \in Loops /\ s \in Slots
    BY Zenon DEF TypeOK, Tickets
  <1>2. slot[l][s].work = u /\ u # NULL
    BY NullAssumption, Zenon DEF PathInv, UnitTrue, At
  <1>3. SlotTrue(l, s) /\ slot[l][s].phase # "free"
    BY <1>1, <1>2, Zenon DEF PathInv, SlotTrue
  <1>4. /\ slot[l][s].gen # 0 /\ ticket[u] = TicketOf(l, s)
        /\ slot[l][s].phase = "armed" <=> unit[u] = "out"
        /\ unit[u] \in {"out", "claimed", "sent"}
    BY <1>2, <1>3, Zenon DEF SlotTrue
  <1>5. ticket[u].gen = slot[l][s].gen
    BY <1>4 DEF TicketOf
  <1> QED
    BY <1>1, <1>2, <1>3, <1>4, <1>5, Zenon DEF At

LEMMA OneSlot ==
  ASSUME TypeOK, PathInv, NEW l \in Loops, NEW s \in Slots, slot[l][s].phase # "free"
  PROVE  /\ slot[l][s].work \in Units /\ slot[l][s].gen # 0
         /\ unit[slot[l][s].work] \in {"out", "claimed", "sent"}
         /\ ticket[slot[l][s].work].loop = l /\ ticket[slot[l][s].work].slot = s
         /\ ticket[slot[l][s].work].gen = slot[l][s].gen
  <1>1. /\ slot[l][s].work \in Units /\ slot[l][s].gen # 0
        /\ unit[slot[l][s].work] \in {"out", "claimed", "sent"}
        /\ ticket[slot[l][s].work] = TicketOf(l, s)
    BY Zenon DEF PathInv, SlotTrue
  <1> QED
    BY <1>1 DEF TicketOf

LEMMA TrueWhenInv ==
  ASSUME TypeOK, PathInv
  PROVE  TableIsTrue /\ AnswersArriveOnce
  <1>1. FreeListTrue
    BY ListsOfSlots, Zenon DEF FreeListTrue, PathInv, FreeTrue
  <1>2. TicketsFindTheirUnit
    <2> SUFFICES ASSUME NEW u \in Units
                 PROVE  /\ unit[u] # "never"
                        /\ unit[u] = "out" => Names(ticket[u]) /\ At(ticket[u]).work = u
      BY Zenon DEF TicketsFindTheirUnit, At
    <2>1. unit[u] # "never"
      BY Zenon DEF PathInv, UnitTrue
    <2> QED
      BY <2>1, Held, Zenon DEF Names, At
  <1>3. DeliveredOnce
    <2> SUFFICES ASSUME NEW l \in Loops
                 PROVE  /\ IsInjective(queue[l])
                        /\ \A s \in Range(queue[l]) :
                              /\ slot[l][s].phase = "resuming"
                              /\ slot[l][s].work # NULL /\ unit[slot[l][s].work] = "sent"
      BY Zenon DEF DeliveredOnce
    <2>1. \A s \in Range(queue[l]) : s \in Slots /\ SlotTrue(l, s)
      BY ListsOfSlots, Zenon DEF PathInv
    <2> QED
      BY <2>1, NullAssumption DEF PathInv, QueueTrue, SlotTrue
  <1>4. AnswersTheRightClient
    <2> SUFFICES ASSUME NEW l \in Loops, NEW s \in Slots, slot[l][s].phase # "free"
                 PROVE  IF \E r \in Requests : waits[r] = slot[l][s].work
                        THEN slot[l][s].req # NULL /\ waits[slot[l][s].req] = slot[l][s].work
                        ELSE slot[l][s].req = NULL
      BY Zenon DEF AnswersTheRightClient
    <2>1. /\ SlotTrue(l, s) /\ slot[l][s].work # NULL
          /\ slot[l][s].req \in Requests \union {NULL}
      BY NullAssumption DEF PathInv, SlotTrue, TypeOK, Entries, MayBe
    <2>2. ASSUME NEW r \in Requests, waits[r] = slot[l][s].work
          PROVE  slot[l][s].req = r
      <3>1. hook[r] = TicketOf(l, s) /\ At(hook[r]).req = r
        BY <2>1, <2>2, Zenon DEF PathInv, RequestTrue, SlotTrue
      <3> QED
        BY <3>1 DEF At, TicketOf
    <2> QED
      BY <2>1, <2>2, NullAssumption, Zenon DEF SlotTrue
  <1> QED
    BY <1>1, <1>2, <1>3, <1>4, Zenon DEF TableIsTrue, AnswersArriveOnce, PathInv

LEMMA InvInit == Init => PathInv
  <1> SUFFICES ASSUME Init PROVE PathInv
    BY Zenon
  <1>1. TypeOK /\ shape \in Shapes
    BY TypeInit, Zenon DEF TypeOK
  <1>2. \A l \in Loops, s \in Slots : slot[l][s] = [phase |-> "free", gen |-> 0, req |-> NULL, work |-> NULL]
    BY Zenon DEF Init
  <1>3. ASSUME NEW r \in Requests PROVE RequestTrue(r)
    <2>1. hook[r].loop \in Loops /\ hook[r].slot \in Slots
      BY <1>1, Zenon DEF TypeOK, Tickets
    <2> QED
      BY <1>2, <2>1, Zenon DEF Init, RequestTrue, At
  <1>4. ASSUME NEW l \in Loops PROVE QueueTrue(l) /\ FreeTrue(l)
    <2>1. free[l] = [s \in Slots |-> s] /\ queue[l] = <<>>
      BY Zenon DEF Init
    <2>2. Range(free[l]) = Slots /\ IsInjective(free[l])
      BY <2>1 DEF Range, IsInjective
    <2>3. Range(queue[l]) = {} /\ IsInjective(queue[l])
      BY <2>1 DEF Range, IsInjective
    <2> QED
      BY <1>2, <2>2, <2>3 DEF QueueTrue, FreeTrue
  <1>5. \A l \in Loops, s \in Slots : SlotTrue(l, s)
    BY <1>2 DEF SlotTrue
  <1>6. \A u \in Units : UnitTrue(u)
    BY Zenon DEF Init, UnitTrue
  <1>7. ArenasWithUnits /\ stale = {}
    BY Zenon DEF Init, ArenasWithUnits
  <1> QED
    BY <1>3, <1>4, <1>5, <1>6, <1>7, Zenon DEF PathInv

-----------------------------------------------------------------------------
(* The steps.                                                                *)

LEMMA ClaimStep ==
  ASSUME TypeOK, PathInv, NEW u \in Units, Claim(u)
  PROVE  PathInv'
  <1> DEFINE t == ticket[u]
             L == t.loop
             S == t.slot
  <1>1. /\ unit[u] = "out" /\ L \in Loops /\ S \in Slots
        /\ slot[L][S].work = u /\ slot[L][S].phase = "armed" /\ slot[L][S].gen = t.gen
        /\ slot[L][S] \in Entries
    BY Held DEF Claim, At, TypeOK
  <1>2. /\ slot' = [slot EXCEPT ![L][S].phase = "resuming"]
        /\ unit' = [unit EXCEPT ![u] = "claimed"]
        /\ stale' = stale \union {t}
        /\ UNCHANGED <<shape, free, queue, waits, hook, ticket, lent, loop, server>>
    BY <1>1, Zenon DEF Claim, Names
  <1>3. Becomes(L, S, [slot[L][S] EXCEPT !.phase = "resuming"])
    BY <1>1, <1>2, PhaseStep, ZenonT(60)
  <1>4. /\ slot'[L][S].phase = "resuming" /\ slot'[L][S].work = u
        /\ slot'[L][S].gen = slot[L][S].gen /\ slot'[L][S].req = slot[L][S].req
    BY <1>1, <1>3, PhaseTypes DEF Becomes
  <1>5. /\ \A l \in Loops, s \in Slots : l # L \/ s # S => slot'[l][s] = slot[l][s]
        /\ unit'[u] = "claimed" /\ \A v \in Units : v # u => unit'[v] = unit[v]
    BY <1>2, <1>3, Zenon DEF Becomes, TypeOK
  <1>6. /\ Slots' = Slots /\ \A k \in Tickets : k.loop \in Loops /\ k.slot \in Slots
        /\ t \in Tickets
    BY <1>2, Zenon DEF Slots, Tickets, TypeOK
  <1> HIDE DEF t, L, S
  \* Only the phase of one slot moves, from armed on.
  <1>7. ASSUME NEW l \in Loops, NEW s \in Slots
        PROVE  /\ slot'[l][s].work = slot[l][s].work /\ slot'[l][s].gen = slot[l][s].gen
               /\ slot'[l][s].req = slot[l][s].req
               /\ slot'[l][s].phase = "free" <=> slot[l][s].phase = "free"
               /\ slot'[l][s].phase = "armed" => slot[l][s].phase = "armed"
    BY <1>1, <1>4, <1>5, Zenon
  <1>8. ASSUME NEW l \in Loops, NEW s \in Slots, l # L \/ s # S, slot[l][s].phase # "free"
        PROVE  slot[l][s].work \in Units /\ slot[l][s].work # u
    BY <1>8, OneSlot DEF t, L, S
  <1>9. ASSUME NEW l \in Loops, NEW s \in Slots
        PROVE  SlotTrue(l, s)'
    <2>1. SlotTrue(l, s) /\ TicketOf(l, s)' = TicketOf(l, s)
      BY <1>7, Zenon DEF PathInv, TicketOf
    <2>2. CASE l = L /\ s = S
      BY <1>1, <1>2, <1>4, <1>5, <2>1, <2>2 DEF SlotTrue
    <2>3. CASE l # L \/ s # S
      BY <1>2, <1>5, <1>8, <2>1, <2>3 DEF SlotTrue
    <2> QED
      BY <2>2, <2>3, Zenon
  <1>10. ASSUME NEW v \in Units PROVE UnitTrue(v)'
    <2>1. UnitTrue(v) /\ ticket[v].loop \in Loops /\ ticket[v].slot \in Slots
      BY <1>6, Zenon DEF PathInv, TypeOK
    <2> QED
      BY <1>1, <1>2, <1>5, <1>7, <2>1 DEF UnitTrue, At
  <1>11. ASSUME NEW r \in Requests PROVE RequestTrue(r)'
    <2>1. RequestTrue(r) /\ hook[r].loop \in Loops /\ hook[r].slot \in Slots
      BY <1>6, Zenon DEF PathInv, TypeOK
    <2>2. waits[r] = NULL \/ waits[r] \in Units
      BY Zenon DEF TypeOK, MayBe
    <2>3. /\ At(hook[r])'.req = At(hook[r]).req /\ At(hook[r])'.gen = At(hook[r]).gen
          /\ At(hook[r])'.phase = "free" <=> At(hook[r]).phase = "free"
      BY <1>2, <1>7, <2>1 DEF At
    <2> QED
      BY <1>1, <1>2, <1>5, <2>1, <2>2, <2>3 DEF RequestTrue
  <1>12. ASSUME NEW l \in Loops PROVE QueueTrue(l)' /\ FreeTrue(l)'
    <2>1. QueueTrue(l) /\ FreeTrue(l)
      BY Zenon DEF PathInv
    <2>2. FreeTrue(l)'
      BY <1>2, <1>6, <1>7, <2>1, Zenon DEF FreeTrue
    <2>3. ASSUME NEW s \in Slots
          PROVE  slot'[l][s].phase = "resuming" /\ unit'[slot'[l][s].work] = "sent"
                 <=> slot[l][s].phase = "resuming" /\ unit[slot[l][s].work] = "sent"
      BY <1>1, <1>4, <1>5, <1>8
    <2> QED
      BY <1>2, <1>6, <2>1, <2>2, <2>3, Zenon DEF QueueTrue
  <1>13. ASSUME NEW k \in stale' PROVE ~Names(k)'
    <2>1. CASE k = t
      BY <1>2, <1>4, <2>1, Zenon DEF Names, L, S
    <2>2. CASE k \in stale
      <3>1. ~Names(k) /\ k.loop \in Loops /\ k.slot \in Slots
        BY <1>6, <2>2, Zenon DEF PathInv, TypeOK
      <3> QED
        BY <1>7, <3>1, Zenon DEF Names
    <2> QED
      BY <1>2, <2>1, <2>2, Zenon
  <1>14. ArenasWithUnits'
    BY <1>1, <1>2, <1>5 DEF PathInv, ArenasWithUnits
  <1> QED
    BY <1>6, <1>9, <1>10, <1>11, <1>12, <1>13, <1>14, Zenon DEF PathInv

LEMMA SendStep ==
  ASSUME TypeOK, PathInv, NEW u \in Units, Send(u)
  PROVE  PathInv'
  <1> DEFINE L == ticket[u].loop
             S == ticket[u].slot
  <1>1. /\ unit[u] = "claimed" /\ L \in Loops /\ S \in Slots
        /\ slot[L][S].work = u /\ slot[L][S].phase \notin {"free", "armed"}
    BY Held, Zenon DEF Send, At
  <1>2. /\ queue' = [queue EXCEPT ![L] = Append(@, S)]
        /\ unit' = [unit EXCEPT ![u] = "sent"]
        /\ UNCHANGED <<shape, slot, free, waits, hook, ticket, stale, lent, loop, server>>
    BY Zenon DEF Send, Home
  <1>3. /\ Slots' = Slots /\ slot[L][S].phase = "resuming"
        /\ unit'[u] = "sent" /\ \A v \in Units : v # u => unit'[v] = unit[v]
        /\ queue'[L] = Append(queue[L], S) /\ \A l \in Loops : l # L => queue'[l] = queue[l]
    <2>1. slot[L][S] \in Entries
      BY <1>1 DEF TypeOK
    <2>2. slot[L][S].phase = "resuming"
      BY <1>1, <2>1, Zenon DEF Entries
    <2> QED
      BY <1>1, <1>2, <2>2, Zenon DEF Slots, TypeOK
  <1>4. ASSUME NEW l \in Loops, NEW s \in Slots, l # L \/ s # S, slot[l][s].phase # "free"
        PROVE  slot[l][s].work \in Units /\ slot[l][s].work # u
    BY <1>4, OneSlot
  <1> HIDE DEF L, S
  <1>5. ASSUME NEW l \in Loops, NEW s \in Slots
        PROVE  SlotTrue(l, s)'
    <2>1. SlotTrue(l, s) /\ TicketOf(l, s)' = TicketOf(l, s)
      BY <1>2, ZenonT(60) DEF PathInv, TicketOf
    <2>2. CASE l = L /\ s = S
      BY <1>1, <1>2, <1>3, <2>1, <2>2, Zenon DEF SlotTrue
    <2>3. CASE l # L \/ s # S
      BY <1>2, <1>3, <1>4, <2>1, <2>3, Zenon DEF SlotTrue
    <2> QED
      BY <2>2, <2>3, Zenon
  <1>6. ASSUME NEW v \in Units PROVE UnitTrue(v)'
    BY <1>1, <1>2, <1>3, Zenon DEF PathInv, UnitTrue, At
  <1>7. ASSUME NEW r \in Requests PROVE RequestTrue(r)'
    <2>1. RequestTrue(r) /\ (waits[r] = NULL \/ waits[r] \in Units)
      BY Zenon DEF PathInv, TypeOK, MayBe
    <2> QED
      BY <1>1, <1>2, <1>3, <2>1, Zenon DEF RequestTrue, At
  <1>8. ASSUME NEW l \in Loops PROVE FreeTrue(l)' /\ QueueTrue(l)'
    <2>1. FreeTrue(l) /\ QueueTrue(l)
      BY Zenon DEF PathInv
    <2>2. FreeTrue(l)'
      BY <1>2, <1>3, <2>1, Zenon DEF FreeTrue
    <2>3. CASE l # L
      BY <1>2, <1>3, <1>4, <2>1, <2>2, <2>3 DEF QueueTrue
    <2>4. CASE l = L
      <3>1. queue[L] \in Seq(Slots) /\ S \notin Range(queue[L]) /\ IsInjective(queue[L])
        BY <1>1, <2>1, <2>4, Zenon DEF QueueTrue, TypeOK
      <3>2. /\ IsInjective(queue'[L])
            /\ \A x : x \in Range(queue'[L]) <=> x \in Range(queue[L]) \/ x = S
        BY <1>1, <1>3, <3>1, AppendOnInjective
      <3> QED
        BY <1>1, <1>2, <1>3, <1>4, <2>1, <2>2, <2>4, <3>2 DEF QueueTrue
    <2> QED
      BY <2>3, <2>4, Zenon
  <1>9. ArenasWithUnits'
    BY <1>1, <1>2, <1>3 DEF PathInv, ArenasWithUnits
  <1>10. \A t \in stale' : ~Names(t)'
    BY <1>2, Zenon DEF PathInv, Names
  <1> QED
    BY <1>3, <1>5, <1>6, <1>7, <1>8, <1>9, <1>10, Zenon DEF PathInv

\* A second resume is refused, and stopping leaves the table alone.
LEMMA NothingMovesStep ==
  ASSUME TypeOK, PathInv, stale' \subseteq stale,
         UNCHANGED <<shape, slot, free, queue, waits, hook, unit, ticket, lent>>
  PROVE  PathInv'
  <1>1. Slots' = Slots
    BY Zenon DEF Slots
  <1>2. \A l \in Loops, s \in Slots : SlotTrue(l, s)'
    BY DEF PathInv, SlotTrue, TicketOf
  <1>3. \A u \in Units : UnitTrue(u)'
    BY Zenon DEF PathInv, UnitTrue, At
  <1>4. \A r \in Requests : RequestTrue(r)'
    BY Zenon DEF PathInv, RequestTrue, At
  <1>5. \A l \in Loops : QueueTrue(l)' /\ FreeTrue(l)'
    BY <1>1, Zenon DEF PathInv, QueueTrue, FreeTrue
  <1>6. (\A t \in stale' : ~Names(t)') /\ ArenasWithUnits'
    BY Zenon DEF PathInv, Names, ArenasWithUnits
  <1> QED
    BY <1>1, <1>2, <1>3, <1>4, <1>5, <1>6, Zenon DEF PathInv

LEMMA ResumeAgainStep ==
  ASSUME TypeOK, PathInv, NEW t \in stale, ResumeAgain(t)
  PROVE  PathInv'
  <1>1. ~Names(t)
    BY Zenon DEF PathInv
  <1>2. stale' \subseteq stale
    BY Zenon DEF ResumeAgain
  <1>3. UNCHANGED <<shape, slot, free, queue, waits, hook, unit, ticket, lent>>
    BY <1>1, Zenon DEF ResumeAgain
  <1> QED
    BY <1>2, <1>3, NothingMovesStep, Zenon

LEMMA DeliverStep ==
  ASSUME TypeOK, PathInv, NEW l \in Loops, Deliver(l)
  PROVE  PathInv'
  <1>1. PICK s \in Slots : s = Head(queue[l]) /\ queue[l] # <<>> /\ queue[l] \in Seq(Slots)
    BY DEF TypeOK, Deliver
  <1>2. /\ IsInjective(queue[l]) /\ s \in Range(queue[l]) /\ IsInjective(Tail(queue[l]))
        /\ \A x : x \in Range(Tail(queue[l])) <=> x \in Range(queue[l]) /\ x # s
    <2>1. IsInjective(queue[l])
      BY Zenon DEF PathInv, QueueTrue
    <2> QED
      BY <1>1, <2>1, TailOfInjective, Zenon
  <1>3. slot[l][s].phase = "resuming" /\ unit[slot[l][s].work] = "sent" /\ slot[l][s] \in Entries
    BY <1>1, <1>2, Zenon DEF PathInv, QueueTrue, TypeOK
  <1>4. PICK u \in Units : /\ slot[l][s].work = u /\ unit[u] = "sent"
                          /\ ticket[u].loop = l /\ ticket[u].slot = s
    BY <1>3, OneSlot
  <1>5. PICK q \in Requests \union {NULL} : slot[l][s].req = q
    BY <1>3, Zenon DEF Entries, MayBe
  <1>6. /\ slot' = [slot EXCEPT ![l][s] = Released(slot[l][s])]
        /\ queue' = [queue EXCEPT ![l] = Tail(@)]
        /\ free' = [free EXCEPT ![l] = <<s>> \o @]
        /\ waits' = [r \in Requests |-> IF r = q THEN NULL ELSE waits[r]]
        /\ unit' = [v \in Units |-> IF v = u THEN "none" ELSE unit[v]]
        /\ lent' = [lent EXCEPT ![l] = @ \ {u}]
        /\ UNCHANGED <<shape, hook, ticket, stale, loop, server>>
    BY <1>1, <1>4, <1>5, Zenon DEF Deliver, GivesBack, Returns
  <1>7. /\ slot'[l][s].phase = "free" /\ slot'[l][s].req = NULL /\ slot'[l][s].work = NULL
        /\ \A k \in Loops, x \in Slots : k # l \/ x # s => slot'[k][x] = slot[k][x]
    <2>1. PICK e \in Entries : e = Released(slot[l][s])
      BY <1>3, RelTypes, Zenon
    <2>2. Becomes(l, s, e)
      BY <1>6, <2>1, EntryStep, Zenon
    <2>3. e.phase = "free" /\ e.req = NULL /\ e.work = NULL
      BY <1>3, <2>1, RelTypes, Zenon
    <2> QED
      BY <2>2, <2>3, Zenon DEF Becomes
  <1>8. /\ unit'[u] = "none" /\ \A v \in Units : v # u => unit'[v] = unit[v]
        /\ \A r \in Requests : waits'[r] = IF r = q THEN NULL ELSE waits[r]
        /\ queue'[l] = Tail(queue[l]) /\ \A k \in Loops : k # l => queue'[k] = queue[k]
        /\ free'[l] = <<s>> \o free[l] /\ \A k \in Loops : k # l => free'[k] = free[k]
        /\ lent'[l] = lent[l] \ {u} /\ \A k \in Loops : k # l => lent'[k] = lent[k]
        /\ Slots' = Slots
    BY <1>6, Zenon DEF TypeOK, Slots
  <1>9. ASSUME NEW k \in Loops, NEW x \in Slots, k # l \/ x # s, slot[k][x].phase # "free"
        PROVE  slot[k][x].work \in Units /\ slot[k][x].work # u
    BY <1>4, <1>9, OneSlot
  <1>10. ASSUME NEW k \in Loops, NEW x \in Slots
         PROVE  SlotTrue(k, x)'
    <2>1. CASE k = l /\ x = s
      BY <1>7, <2>1, Zenon DEF SlotTrue
    <2>2. CASE k # l \/ x # s
      <3>1. SlotTrue(k, x) /\ slot'[k][x] = slot[k][x] /\ TicketOf(k, x)' = TicketOf(k, x)
        BY <1>7, <2>2, Zenon DEF PathInv, TicketOf
      <3>2. slot[k][x].req \in Requests \union {NULL}
        BY DEF TypeOK, Entries, MayBe
      <3>3. slot[k][x].req # NULL => slot[k][x].req # q
        <4> SUFFICES ASSUME slot[k][x].req # NULL, slot[k][x].req = q PROVE FALSE
          BY Zenon
        <4>1. waits[q] = u /\ slot[k][x].work = u /\ slot[k][x].phase # "free"
          <5>1. SlotTrue(l, s)
            BY Zenon DEF PathInv
          <5> QED
            BY <1>4, <1>5, <3>1, <5>1, Zenon DEF SlotTrue
        <4> QED
          BY <1>9, <2>2, <4>1, Zenon
      <3>4. slot[k][x].phase # "free" => unit'[slot[k][x].work] = unit[slot[k][x].work]
        BY <1>8, <1>9, <2>2, Zenon
      <3>5. slot[k][x].req # NULL => waits'[slot[k][x].req] = waits[slot[k][x].req]
        BY <1>8, <3>2, <3>3, Zenon
      <3>6. ticket' = ticket
        BY <1>6, Zenon
      <3> QED
        BY <3>1, <3>4, <3>5, <3>6, Zenon DEF SlotTrue
    <2> QED
      BY <2>1, <2>2, Zenon
  <1>11. ASSUME NEW v \in Units PROVE UnitTrue(v)'
    <2>1. UnitTrue(v) /\ ticket[v].loop \in Loops /\ ticket[v].slot \in Slots
      BY Zenon DEF PathInv, TypeOK, Tickets
    <2> QED
      BY <1>4, <1>6, <1>7, <1>8, <2>1 DEF UnitTrue, At
  <1>12. ASSUME NEW r \in Requests PROVE RequestTrue(r)'
    <2>1. RequestTrue(r) /\ hook[r].loop \in Loops /\ hook[r].slot \in Slots
      BY Zenon DEF PathInv, TypeOK, Tickets
    <2>2. waits[r] = NULL \/ waits[r] \in Units
      BY Zenon DEF TypeOK, MayBe
    <2>3. waits[r] = u => r = q
      BY <1>4, <1>5, <2>1, NullAssumption, Zenon DEF RequestTrue, At
    <2>4. waits'[r] # NULL => unit'[waits'[r]] # "none" /\ hook'[r] = ticket'[waits'[r]]
                              /\ At(hook[r])'.req = r
      BY <1>5, <1>6, <1>7, <1>8, <2>1, <2>2, <2>3 DEF RequestTrue, At
    <2>5. CASE hook[r].loop = l /\ hook[r].slot = s
      <3>1. At(hook[r])'.phase = "free"
        BY <1>6, <1>7, <2>5, Zenon DEF At
      <3> QED
        BY <1>6, <2>4, <3>1, Zenon DEF RequestTrue
    <2>6. CASE hook[r].loop # l \/ hook[r].slot # s
      <3>1. At(hook[r])' = At(hook[r])
        BY <1>6, <1>7, <2>1, <2>6 DEF At
      <3> QED
        BY <1>6, <2>1, <2>4, <3>1, Zenon DEF RequestTrue
    <2> QED
      BY <2>5, <2>6, Zenon
  <1>13. ASSUME NEW k \in Loops PROVE QueueTrue(k)' /\ FreeTrue(k)'
    <2>1. QueueTrue(k) /\ FreeTrue(k)
      BY Zenon DEF PathInv
    <2>2. CASE k # l
      <3>1. QueueTrue(k)'
        BY <1>7, <1>8, <1>9, <2>1, <2>2 DEF QueueTrue
      <3> QED
        BY <1>7, <1>8, <2>1, <2>2, <3>1 DEF FreeTrue
    <2>3. CASE k = l
      <3>1. QueueTrue(l)'
        BY <1>2, <1>7, <1>8, <1>9, <2>1, <2>3 DEF QueueTrue
      <3>2. s \notin Range(free[l]) /\ free[l] \in Seq(Slots) /\ IsInjective(free[l])
        BY <1>3, <2>1, <2>3, Zenon DEF FreeTrue, TypeOK
      <3>3. /\ IsInjective(free'[l])
            /\ \A x : x \in Range(free'[l]) <=> x \in Range(free[l]) \/ x = s
        BY <1>8, <3>2, PushOnInjective
      <3>4. ASSUME NEW x \in Slots PROVE x \in Range(free'[l]) <=> slot'[l][x].phase = "free"
        BY <1>7, <2>1, <2>3, <3>3, Zenon DEF FreeTrue
      <3> QED
        BY <1>8, <2>3, <3>1, <3>3, <3>4, ZenonT(60) DEF FreeTrue
    <2> QED
      BY <2>2, <2>3, Zenon
  <1>14. ASSUME NEW t \in stale' PROVE ~Names(t)'
    <2>1. ~Names(t) /\ t.loop \in Loops /\ t.slot \in Slots
      BY <1>6, Zenon DEF PathInv, TypeOK, Tickets
    <2> QED
      BY <1>7, <2>1, Zenon DEF Names
  <1>15. ArenasWithUnits'
    BY <1>4, <1>6, <1>8 DEF PathInv, ArenasWithUnits
  <1> QED
    BY <1>8, <1>10, <1>11, <1>12, <1>13, <1>14, <1>15, Zenon DEF PathInv

LEMMA SameTicket ==
  ASSUME NEW a \in Tickets, NEW b \in Tickets, a.loop = b.loop, a.slot = b.slot, a.gen = b.gen
  PROVE  a = b
  BY DEF Tickets

LEMMA DeferStep ==
  ASSUME TypeOK, PathInv, NEW l \in Loops, NEW r \in Requests, NEW u \in Units, Defer(l, r, u)
  PROVE  PathInv'
  <1>1. PICK s \in Slots : s = Head(free[l]) /\ free[l] # <<>> /\ free[l] \in Seq(Slots)
    BY DEF TypeOK, Defer
  <1>2. /\ s \in Range(free[l]) /\ IsInjective(Tail(free[l]))
        /\ \A x : x \in Range(Tail(free[l])) <=> x \in Range(free[l]) /\ x # s
    <2>1. IsInjective(free[l])
      BY Zenon DEF PathInv, FreeTrue
    <2> QED
      BY <1>1, <2>1, TailOfInjective, Zenon
  <1>3. PICK g \in 0..GenMask : g = NextGen(slot[l][s].gen) /\ g # 0
    BY NextGenTypes, Zenon DEF TypeOK, Entries
  <1>4. PICK t \in Tickets : t = [loop |-> l, slot |-> s, gen |-> g]
    BY ZenonT(60) DEF Tickets
  <1>5. t.loop = l /\ t.slot = s /\ t.gen = g /\ slot[l][s].phase = "free"
        /\ waits[r] = NULL /\ unit[u] = "none" /\ u # NULL /\ r # NULL
    BY <1>2, <1>4, NullAssumption, Zenon DEF Defer, PathInv, FreeTrue
  <1>6. /\ slot' = [slot EXCEPT ![l][s] = [phase |-> "armed", gen |-> t.gen, req |-> r, work |-> u]]
        /\ ticket' = [ticket EXCEPT ![u] = t]
        /\ hook' = [q \in Requests |-> IF q = r THEN t
                                      ELSE IF hook[q] = t THEN NoTicket ELSE hook[q]]
        /\ stale' = stale \ {t}
        /\ free' = [free EXCEPT ![l] = Tail(@)]
        /\ lent' = [lent EXCEPT ![l] = @ \union {u}]
        /\ waits' = [waits EXCEPT ![r] = u]
        /\ unit' = [unit EXCEPT ![u] = "out"]
        /\ UNCHANGED <<shape, queue, loop, server>>
    BY <1>1, <1>3, <1>4, Zenon DEF Defer
  <1>7. /\ slot'[l][s].phase = "armed" /\ slot'[l][s].gen = g
        /\ slot'[l][s].req = r /\ slot'[l][s].work = u
        /\ \A k \in Loops, x \in Slots : k # l \/ x # s => slot'[k][x] = slot[k][x]
    <2>1. PICK e \in Entries : e = [phase |-> "armed", gen |-> t.gen, req |-> r, work |-> u]
      BY <1>5, Zenon DEF Entries, MayBe
    <2>2. Becomes(l, s, e)
      BY <1>6, <2>1, EntryStep, ZenonT(60)
    <2> QED
      BY <1>5, <2>1, <2>2 DEF Becomes
  <1>8. /\ unit'[u] = "out" /\ \A v \in Units : v # u => unit'[v] = unit[v]
        /\ ticket'[u] = t /\ \A v \in Units : v # u => ticket'[v] = ticket[v]
        /\ waits'[r] = u /\ \A q \in Requests : q # r => waits'[q] = waits[q]
        /\ hook'[r] = t
        /\ \A q \in Requests : q # r => hook'[q] = IF hook[q] = t THEN NoTicket ELSE hook[q]
        /\ free'[l] = Tail(free[l]) /\ \A k \in Loops : k # l => free'[k] = free[k]
        /\ lent'[l] = lent[l] \union {u} /\ \A k \in Loops : k # l => lent'[k] = lent[k]
        /\ Slots' = Slots
    BY <1>6, Zenon DEF TypeOK, Slots
  <1>9. ASSUME NEW k \in Loops, NEW x \in Slots, slot[k][x].phase # "free"
        PROVE  slot[k][x].work \in Units /\ slot[k][x].work # u /\ (k # l \/ x # s)
    BY <1>5, <1>9, OneSlot
  <1>10. ASSUME NEW k \in Loops, NEW x \in Slots
         PROVE  SlotTrue(k, x)'
    <2>1. CASE k = l /\ x = s
      <3>1. TicketOf(k, x)' = t
        BY <1>4, <1>5, <1>7, <2>1, Zenon DEF TicketOf
      <3> QED
        BY <1>3, <1>7, <1>8, <2>1, <3>1, Zenon DEF SlotTrue
    <2>2. CASE k # l \/ x # s
      <3>1. SlotTrue(k, x) /\ slot'[k][x] = slot[k][x] /\ TicketOf(k, x)' = TicketOf(k, x)
        BY <1>7, <2>2, Zenon DEF PathInv, TicketOf
      <3>2. slot[k][x].req \in Requests \union {NULL}
        BY DEF TypeOK, Entries, MayBe
      <3>3. slot[k][x].req # NULL => slot[k][x].req # r
        BY <1>5, <1>9, <3>1, NullAssumption, Zenon DEF SlotTrue
      <3>4. CASE slot[k][x].phase = "free"
        BY <3>1, <3>4, Zenon DEF SlotTrue
      <3>5. CASE slot[k][x].phase # "free"
        <4>1. /\ unit'[slot[k][x].work] = unit[slot[k][x].work]
              /\ ticket'[slot[k][x].work] = ticket[slot[k][x].work]
              /\ slot[k][x].req # NULL => waits'[slot[k][x].req] = waits[slot[k][x].req]
          BY <1>8, <1>9, <3>2, <3>3, <3>5, Zenon
        <4> QED
          BY <3>1, <3>5, <4>1, Zenon DEF SlotTrue
      <3> QED
        BY <3>4, <3>5, Zenon
    <2> QED
      BY <2>1, <2>2, Zenon
  <1>11. ASSUME NEW v \in Units PROVE UnitTrue(v)'
    <2>1. CASE v = u
      <3>1. At(ticket[u])'.work = u
        BY <1>5, <1>7, <1>8, Zenon DEF At
      <3> QED
        BY <1>8, <2>1, <3>1, ZenonT(60) DEF UnitTrue
    <2>2. CASE v # u /\ unit[v] # "none"
      <3>1. /\ ticket[v].loop \in Loops /\ ticket[v].slot \in Slots /\ At(ticket[v]).work = v
            /\ At(ticket[v]).phase # "free" /\ UnitTrue(v)
        BY <2>2, Held, ZenonT(60) DEF PathInv
      <3>2. At(ticket[v])' = At(ticket[v])
        BY <1>7, <1>8, <1>9, <2>2, <3>1 DEF At
      <3> QED
        BY <1>8, <2>2, <3>1, <3>2, Zenon DEF UnitTrue
    <2>3. CASE v # u /\ unit[v] = "none"
      BY <1>8, <2>3, Zenon DEF UnitTrue
    <2> QED
      BY <2>1, <2>2, <2>3, Zenon
  <1>12. ASSUME NEW q \in Requests, q # r PROVE RequestTrue(q)'
    <2>1. RequestTrue(q) /\ hook[q] \in Tickets /\ hook[q].loop \in Loops /\ hook[q].slot \in Slots
      BY Zenon DEF PathInv, TypeOK, Tickets
    <2>2. CASE hook[q] = t
      <3>1. waits[q] = NULL
        <4> SUFFICES ASSUME waits[q] # NULL PROVE FALSE
          BY Zenon
        <4>1. waits[q] \in Units /\ unit[waits[q]] # "none" /\ ticket[waits[q]] = t
          BY <2>1, <2>2, Zenon DEF RequestTrue, TypeOK, MayBe
        <4> QED
          BY <1>5, <4>1, Held, Zenon DEF At
      <3>2. hook'[q] = NoTicket /\ NoTicket.gen = 0 /\ NoTicket.loop \in Loops /\ NoTicket.slot \in Slots
        BY <1>8, <1>12, <2>2, ShapeFacts, ZenonT(60) DEF NoTicket, TypeOK
      <3>3. SlotTrue(NoTicket.loop, NoTicket.slot)'
        BY <1>10, <3>2, Zenon
      <3>4. At(hook[q])'.phase # "free" => At(hook[q])'.gen # 0
        BY <3>2, <3>3, ZenonT(60) DEF SlotTrue, At
      <3> QED
        BY <1>8, <1>12, <3>1, <3>2, <3>4, ZenonT(60) DEF RequestTrue
    <2>3. CASE hook[q] # t /\ hook[q].loop = l /\ hook[q].slot = s
      <3>1. hook[q].gen # g /\ hook'[q] = hook[q]
        BY <1>5, <1>8, <1>12, <2>1, <2>3, SameTicket
      <3>2. waits[q] = NULL
        <4> SUFFICES ASSUME waits[q] # NULL PROVE FALSE
          BY Zenon
        <4>1. waits[q] \in Units /\ unit[waits[q]] # "none" /\ ticket[waits[q]] = hook[q]
          BY <2>1, <2>3, Zenon DEF RequestTrue, TypeOK, MayBe
        <4> QED
          BY <1>5, <2>3, <4>1, Held DEF At
      <3>3. At(hook[q])'.gen = g
        BY <1>7, <2>3, <3>1, Zenon DEF At
      <3> QED
        BY <1>8, <1>12, <3>1, <3>2, <3>3, Zenon DEF RequestTrue
    <2>4. CASE hook[q] # t /\ (hook[q].loop # l \/ hook[q].slot # s)
      <3>1. hook'[q] = hook[q] /\ waits'[q] = waits[q] /\ At(hook[q])' = At(hook[q])
        BY <1>7, <1>8, <1>12, <2>1, <2>4 DEF At
      <3>2. waits[q] # NULL => waits[q] \in Units /\ waits[q] # u
        BY <1>5, <2>1, Zenon DEF RequestTrue, TypeOK, MayBe
      <3> QED
        BY <1>8, <2>1, <3>1, <3>2 DEF RequestTrue
    <2> QED
      BY <2>2, <2>3, <2>4, Zenon
  <1>13. RequestTrue(r)'
    <2>1. At(hook[r])'.req = r
      BY <1>5, <1>7, <1>8, Zenon DEF At
    <2> QED
      BY <1>8, <2>1, Zenon DEF RequestTrue
  <1>14. ASSUME NEW k \in Loops PROVE QueueTrue(k)' /\ FreeTrue(k)'
    <2>1. QueueTrue(k) /\ FreeTrue(k) /\ queue' = queue
      BY <1>6, Zenon DEF PathInv
    <2>2. ASSUME NEW x \in Slots
          PROVE  slot'[k][x].phase = "resuming" /\ unit'[slot'[k][x].work] = "sent"
                 <=> slot[k][x].phase = "resuming" /\ unit[slot[k][x].work] = "sent"
      <3>1. CASE slot[k][x].phase = "free"
        BY <1>7, <3>1, Zenon
      <3>2. CASE slot[k][x].phase # "free"
        BY <1>7, <1>8, <1>9, <3>2
      <3> QED
        BY <3>1, <3>2, Zenon
    <2>3. QueueTrue(k)'
      BY <1>8, <2>1, <2>2, Zenon DEF QueueTrue
    <2>4. CASE k # l
      BY <1>7, <1>8, <2>1, <2>3, <2>4 DEF FreeTrue
    <2>5. CASE k = l
      <3>1. ASSUME NEW x \in Slots PROVE x \in Range(free'[l]) <=> slot'[l][x].phase = "free"
        BY <1>2, <1>7, <1>8, <2>1, <2>5 DEF FreeTrue
      <3> QED
        BY <1>2, <1>8, <2>3, <2>5, <3>1, ZenonT(60) DEF FreeTrue
    <2> QED
      BY <2>4, <2>5, Zenon
  <1>15. ASSUME NEW k \in stale' PROVE ~Names(k)'
    <2>1. ~Names(k) /\ k # t /\ k \in Tickets /\ k.loop \in Loops /\ k.slot \in Slots
      BY <1>6, Zenon DEF PathInv, TypeOK, Tickets
    <2>2. CASE k.loop = l /\ k.slot = s
      <3>1. k.gen # g
        BY <1>5, <2>1, <2>2, SameTicket, Zenon
      <3> QED
        BY <1>7, <2>2, <3>1, Zenon DEF Names
    <2>3. CASE k.loop # l \/ k.slot # s
      BY <1>7, <2>1, <2>3, Zenon DEF Names
    <2> QED
      BY <2>2, <2>3, Zenon
  <1>16. ArenasWithUnits'
    BY <1>5, <1>8 DEF PathInv, ArenasWithUnits
  <1> QED
    BY <1>8, <1>10, <1>11, <1>12, <1>13, <1>14, <1>15, <1>16, Zenon DEF PathInv

LEMMA ForgetEffect ==
  ASSUME TypeOK, NEW t \in Tickets, Forget(t)
  PROVE  \A l \in Loops, s \in Slots :
           /\ slot'[l][s].phase = slot[l][s].phase /\ slot'[l][s].gen = slot[l][s].gen
           /\ slot'[l][s].work = slot[l][s].work
           /\ slot'[l][s].req =
                IF l = t.loop /\ s = t.slot /\ slot[l][s].phase # "free" /\ slot[l][s].gen = t.gen
                THEN NULL ELSE slot[l][s].req
  <1>1. t.loop \in Loops /\ t.slot \in Slots
    BY Zenon DEF Tickets
  <1>2. CASE At(t).phase = "free" \/ At(t).gen # t.gen
    BY <1>2, Zenon DEF Forget, At
  <1>3. CASE At(t).phase # "free" /\ At(t).gen = t.gen
    <2>1. slot[t.loop][t.slot] \in Entries /\ slot' = [slot EXCEPT ![t.loop][t.slot].req = NULL]
      BY <1>1, <1>3, Zenon DEF TypeOK, Forget, At
    <2>2. Becomes(t.loop, t.slot, [slot[t.loop][t.slot] EXCEPT !.req = NULL])
      BY <1>1, <2>1, ReqStep, Zenon
    <2>3. LET e == slot'[t.loop][t.slot]
          IN  /\ e.phase = At(t).phase /\ e.gen = At(t).gen /\ e.work = At(t).work /\ e.req = NULL
      BY <2>1, <2>2, ReqTypes, Zenon DEF Becomes, At
    <2> QED
      BY <1>3, <2>2, <2>3, ZenonT(60) DEF Becomes, At
  <1> QED
    BY <1>2, <1>3, Zenon

LEMMA StopStep ==
  ASSUME TypeOK, PathInv, NEW r \in Requests, ClientLeaves(r) \/ LateStop(r)
  PROVE  PathInv'
  <1>1. PICK t \in Tickets : t = hook[r] /\ t.loop \in Loops /\ t.slot \in Slots
    BY Zenon DEF TypeOK, Tickets
  <1>2. /\ Forget(t) /\ waits' \in [Requests -> MayBe(Units)] /\ waits'[r] = NULL
        /\ \A q \in Requests : q # r => waits'[q] = waits[q] /\ hook'[q] = hook[q]
        /\ hook'[r] = hook[r] \/ (hook'[r] = NoTicket /\ waits[r] = NULL)
        /\ UNCHANGED <<shape, free, queue, unit, ticket, stale, lent, loop, server>>
    BY <1>1, ZenonT(60) DEF ClientLeaves, LateStop, TypeOK, MayBe
  <1>3. ASSUME NEW l \in Loops, NEW s \in Slots
        PROVE  /\ slot'[l][s].phase = slot[l][s].phase /\ slot'[l][s].gen = slot[l][s].gen
               /\ slot'[l][s].work = slot[l][s].work
               /\ slot'[l][s].req \in {slot[l][s].req, NULL}
    BY <1>2, ForgetEffect
  \* The hook finds its own request.
  <1>4. ASSUME NEW l \in Loops, NEW s \in Slots, slot[l][s].req # NULL
        PROVE  slot'[l][s].req = IF slot[l][s].req = r THEN NULL ELSE slot[l][s].req
    <2>1. /\ SlotTrue(l, s) /\ slot[l][s].phase # "free" /\ waits[slot[l][s].req] = slot[l][s].work
          /\ slot[l][s].req \in Requests /\ slot[l][s].work \in Units /\ slot[l][s].work # NULL
      BY <1>4, NullAssumption DEF PathInv, SlotTrue, TypeOK, Entries, MayBe
    <2>2. slot[l][s].req = r => t.loop = l /\ t.slot = s /\ slot[l][s].gen = t.gen
      <3> SUFFICES ASSUME slot[l][s].req = r PROVE t.loop = l /\ t.slot = s /\ slot[l][s].gen = t.gen
        BY Zenon
      <3>1. hook[r] = ticket[slot[l][s].work]
        BY <2>1, ZenonT(60) DEF PathInv, RequestTrue
      <3> QED
        BY <1>1, <2>1, <3>1, OneSlot
    <2>3. t.loop = l /\ t.slot = s /\ slot[l][s].gen = t.gen => slot[l][s].req = r
      BY <1>1, <1>4, <2>1, ZenonT(60) DEF PathInv, RequestTrue, At
    <2> QED
      BY <1>2, <2>1, <2>2, <2>3, ForgetEffect
  <1>5. Slots' = Slots
    BY <1>2, Zenon DEF Slots
  <1>6. ASSUME NEW l \in Loops, NEW s \in Slots PROVE SlotTrue(l, s)'
    <2>1. SlotTrue(l, s) /\ TicketOf(l, s)' = TicketOf(l, s)
      BY <1>3, ZenonT(60) DEF PathInv, TicketOf
    <2>2. slot'[l][s].req # NULL => waits'[slot'[l][s].req] = slot'[l][s].work
      <3> SUFFICES ASSUME slot'[l][s].req # NULL PROVE waits'[slot'[l][s].req] = slot'[l][s].work
        BY Zenon
      <3>1. /\ slot[l][s].req # NULL /\ slot[l][s].req # r /\ slot'[l][s].req = slot[l][s].req
            /\ slot[l][s].req \in Requests
        BY <1>3, <1>4 DEF TypeOK, Entries, MayBe
      <3> QED
        BY <1>2, <1>3, <2>1, <3>1, ZenonT(60) DEF SlotTrue
    <2> QED
      BY <1>2, <1>3, <2>1, <2>2, Zenon DEF SlotTrue
  <1>7. ASSUME NEW u \in Units PROVE UnitTrue(u)'
    <2>1. UnitTrue(u) /\ ticket[u].loop \in Loops /\ ticket[u].slot \in Slots
      BY Zenon DEF PathInv, TypeOK, Tickets
    <2> QED
      BY <1>2, <1>3, <2>1, Zenon DEF UnitTrue, At
  <1>8. ASSUME NEW q \in Requests, hook'[q] = hook[q] PROVE RequestTrue(q)'
    <2>1. RequestTrue(q) /\ hook[q].loop \in Loops /\ hook[q].slot \in Slots
      BY Zenon DEF PathInv, TypeOK, Tickets
    <2>2. waits'[q] # NULL => q # r /\ waits'[q] = waits[q] /\ At(hook[q]).req = q
      BY <1>2, <2>1, Zenon DEF RequestTrue
    <2>3. waits'[q] # NULL => At(hook[q])'.req = q
      BY <1>4, <1>8, <2>1, <2>2, NullAssumption, Zenon DEF At
    <2>4. /\ At(hook[q])'.phase = At(hook[q]).phase /\ At(hook[q])'.gen = At(hook[q]).gen
          /\ At(hook[q])'.req \in {At(hook[q]).req, NULL}
      BY <1>3, <1>8, <2>1, ZenonT(60) DEF At
    <2> QED
      BY <1>2, <1>8, <2>1, <2>2, <2>3, <2>4, Zenon DEF RequestTrue
  <1>9. RequestTrue(r)'
    <2>1. CASE hook'[r] = NoTicket
      <3>1. NoTicket.gen = 0 /\ NoTicket.loop \in Loops /\ NoTicket.slot \in Slots
        BY ShapeFacts, Zenon DEF NoTicket, TypeOK
      <3>2. At(hook[r])'.phase # "free" => At(hook[r])'.gen # 0
        BY <1>6, <2>1, <3>1, Zenon DEF SlotTrue, At
      <3> QED
        BY <1>2, <2>1, <3>1, <3>2, Zenon DEF RequestTrue
    <2> QED
      BY <1>2, <1>8, <2>1, Zenon
  <1>10. \A q \in Requests : RequestTrue(q)'
    BY <1>2, <1>8, <1>9, ZenonT(60)
  <1>11. ASSUME NEW l \in Loops PROVE QueueTrue(l)' /\ FreeTrue(l)'
    <2>1. QueueTrue(l) /\ FreeTrue(l)
      BY Zenon DEF PathInv
    <2> QED
      BY <1>2, <1>3, <1>5, <2>1, ZenonT(60) DEF QueueTrue, FreeTrue
  <1>12. ASSUME NEW k \in stale' PROVE ~Names(k)'
    <2>1. ~Names(k) /\ k.loop \in Loops /\ k.slot \in Slots
      BY <1>2, ZenonT(60) DEF PathInv, TypeOK, Tickets
    <2> QED
      BY <1>3, <2>1, Zenon DEF Names
  <1>13. ArenasWithUnits'
    BY <1>2, Zenon DEF PathInv, ArenasWithUnits
  <1> QED
    BY <1>5, <1>6, <1>7, <1>10, <1>11, <1>12, <1>13, Zenon DEF PathInv

LEMMA InvStep ==
  ASSUME TypeOK, PathInv, [Next]_vars
  PROVE  PathInv'
  <1>1. CASE UNCHANGED vars
    BY <1>1, NothingMovesStep, Zenon DEF vars
  <1>2. CASE Stopping
    BY <1>2, StoppingStays, NothingMovesStep, Zenon
  <1> QED
    BY <1>1, <1>2, DeferStep, ClaimStep, SendStep, ResumeAgainStep, DeliverStep, StopStep, Zenon
    DEF Next, Stopping

LEMMA InvHolds == Spec => [](TypeOK /\ PathInv)
  <1>1. TypeOK /\ PathInv /\ [Next]_vars => (TypeOK /\ PathInv)'
    BY TypeStep, InvStep, Zenon
  <1> QED
    BY <1>1, TypeInit, InvInit, PTL DEF Spec

\* Whatever order clients leave, workers answer and loops turn in, and however often slots and
\* their generations are used again: the free list is the free slots, an arena is out exactly
\* while its unit is, and the worker's ticket names the slot of its unit.
THEOREM TableHolds == Spec => []TableIsTrue
  <1>1. TypeOK /\ PathInv => TableIsTrue
    BY TrueWhenInv, Zenon
  <1> QED
    BY <1>1, InvHolds, PTL

\* A slot is delivered once, with its own unit, to the request that waits for that unit or to
\* nobody when its client has left.
THEOREM AnswersHold == Spec => []AnswersArriveOnce
  <1>1. TypeOK /\ PathInv => AnswersArriveOnce
    BY TrueWhenInv, Zenon
  <1> QED
    BY <1>1, InvHolds, PTL
=============================================================================
