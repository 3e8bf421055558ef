------------------------ MODULE DbTransactionProofs ------------------------
(* What holds of DbTransaction for any connections, addresses, draws and     *)
(* limits, whatever is lost between two statements.                          *)
EXTENDS DbTransaction, TLAPS

-----------------------------------------------------------------------------
(* Types.                                                                    *)

LEMMA UnitTypes ==
  ASSUME NEW u \in Units
  PROVE  /\ u.access \in {"read", "write"} /\ u.email \in Emails /\ u.attempt \in 1..AgainMax
         /\ u.status \in {"ok", "network", "refused"}
         /\ u.outcome \in {"pending", "created", "taken", "failed", "exhausted"}
         /\ \A s \in {"ok", "network", "refused"} : [u EXCEPT !.status = s] \in Units
         /\ \A o \in {"pending", "created", "taken", "failed", "exhausted"} :
               [u EXCEPT !.outcome = o] \in Units
         /\ \A a \in 1..AgainMax : [u EXCEPT !.attempt = a] \in Units
  BY Zenon DEF Units

LEMMA RowTypes ==
  ASSUME TypeOK, NEW w \in Workers
  PROVE  UserRow(w) \in Rows /\ ContactRow(w) \in Rows /\ MainRow(w) \in Rows
  <1>1. draw[w].id \in Draws /\ draw[w].code \in Draws /\ unit[w].email \in Emails
    BY UnitTypes, Zenon DEF TypeOK
  <1> QED
    BY <1>1, Zenon DEF UserRow, ContactRow, MainRow, Rows

LEMMA TypeInit == Init => TypeOK
  <1> SUFFICES ASSUME Init PROVE TypeOK
    BY Zenon
  <1>1. NewUnit("read", CHOOSE e \in Emails : TRUE) \in Units
    BY SetsAssumption, LimitsAssumption DEF NewUnit, Units
  <1>2. (CHOOSE d \in Draws : TRUE) \in Draws
    BY SetsAssumption, Zenon
  <1>3. 0 \in 0..RerunMax - 1 /\ 0 \in 0..1 /\ 0 \in 0..RegisterMax
    BY LimitsAssumption
  <1> QED
    BY <1>1, <1>2, <1>3, Zenon DEF Init, TypeOK, Places

\* What Return, Concludes and Writes leave is well typed.
LEMMA ReturnTypes ==
  ASSUME TypeOK, NEW w \in Workers, NEW s \in {"ok", "network", "refused"}, Return(w, s)
  PROVE  pc' \in [Workers -> Places] /\ unit' \in [Workers -> Units]
  BY UnitTypes, Zenon DEF TypeOK, Return, Places

LEMMA ConcludesTypes ==
  ASSUME TypeOK, NEW w \in Workers, NEW e \in Ends, NEW o \in {"pending", "created", "taken", "failed", "exhausted"},
         Concludes(w, e, o)
  PROVE  pc' \in [Workers -> Places] /\ unit' \in [Workers -> Units]
  BY UnitTypes, Zenon DEF TypeOK, Concludes, Places

LEMMA SessionTypes ==
  ASSUME TypeOK, NEW w \in Workers
  PROVE  /\ SessionEnds(w) => /\ txn' \in [Workers -> {"none", "open", "aborted"}]
                              /\ pend' \in [Workers -> SUBSET Rows]
                              /\ known' \in [Workers -> SUBSET Statements]
         /\ EndsTransaction(w) => /\ txn' \in [Workers -> {"none", "open", "aborted"}]
                                  /\ pend' \in [Workers -> SUBSET Rows]
         /\ Aborts(w) => /\ txn' \in [Workers -> {"none", "open", "aborted"}]
                         /\ pend' \in [Workers -> SUBSET Rows]
         /\ Redial(w) => /\ link' \in [Workers -> {"ok", "lost", "bad"}]
                         /\ txn' \in [Workers -> {"none", "open", "aborted"}]
                         /\ pend' \in [Workers -> SUBSET Rows]
                         /\ known' \in [Workers -> SUBSET Statements]
                         /\ table' \in [Workers -> SUBSET Statements]
  <1>1. ASSUME EndsTransaction(w) \/ SessionEnds(w)
        PROVE  /\ txn' \in [Workers -> {"none", "open", "aborted"}]
               /\ pend' \in [Workers -> SUBSET Rows]
    BY <1>1, Zenon DEF TypeOK, SessionEnds, EndsTransaction
  <1>2. SessionEnds(w) => known' \in [Workers -> SUBSET Statements]
    BY Zenon DEF TypeOK, SessionEnds
  <1>3. ASSUME Aborts(w)
        PROVE  /\ txn' \in [Workers -> {"none", "open", "aborted"}]
               /\ pend' \in [Workers -> SUBSET Rows]
    BY <1>3, SMTT(30) DEF TypeOK, Aborts, AfterError
  <1>4. CASE Redial(w)
    <2>1. CASE /\ link' = [link EXCEPT ![w] = "ok"] /\ SessionEnds(w)
               /\ table' = [table EXCEPT ![w] = {}]
      BY <1>1, <1>2, <1>3, <2>1, Zenon DEF TypeOK
    <2>2. CASE link' = [link EXCEPT ![w] = "bad"] /\ UNCHANGED <<table, known, txn, pend>>
      BY <1>1, <1>2, <1>3, <2>2, Zenon DEF TypeOK
    <2> QED
      BY <1>4, <2>1, <2>2, Zenon DEF Redial
  <1> QED
    BY <1>1, <1>2, <1>3, <1>4, Zenon

LEMMA StartTypes ==
  ASSUME TypeOK, NEW w \in Workers, StartWork(w)
  PROVE  /\ pc' \in [Workers -> Places] /\ draw' \in [Workers -> [id : Draws, code : Draws]]
         /\ rerun' \in [Workers -> BOOLEAN] /\ tries' \in [Workers -> 0..1]
  <1>1. rerun' \in [Workers -> BOOLEAN] /\ tries' \in [Workers -> 0..1]
    BY DEF TypeOK, StartWork
  <1>2. pc' \in [Workers -> Places]
    <2>1. pc' = [pc EXCEPT ![w] = "find"] \/ pc' = [pc EXCEPT ![w] = "insert_user"]
      BY Zenon DEF StartWork
    <2> QED
      BY <2>1, Zenon DEF TypeOK, Places, Statements
  <1>3. draw' \in [Workers -> [id : Draws, code : Draws]]
    <2>1. draw' = draw \/ \E d, c \in Draws : draw' = [draw EXCEPT ![w] = [id |-> d, code |-> c]]
      BY Zenon DEF StartWork
    <2> QED
      BY <2>1 DEF TypeOK
  <1> QED
    BY <1>1, <1>2, <1>3, Zenon

LEMMA GoesOnTypes ==
  ASSUME TypeOK, NEW w \in Workers, GoesOn(w)
  PROVE  /\ pc' \in [Workers -> Places] /\ unit' \in [Workers -> Units]
         /\ reruns' \in [Workers -> 0..RerunMax - 1] /\ rerun' \in [Workers -> BOOLEAN]
  <1>1. rerun' \in [Workers -> BOOLEAN]
    BY Zenon DEF GoesOn, TypeOK
  <1>2. CASE RunAgain(w)
    <2>1. CASE Return(w, "refused") /\ UNCHANGED reruns
      BY <1>1, <2>1, ReturnTypes, Zenon DEF TypeOK
    <2>2. CASE /\ reruns[w] + 1 < RerunMax /\ pc' = [pc EXCEPT ![w] = "begin"]
               /\ reruns' = [reruns EXCEPT ![w] = @ + 1] /\ UNCHANGED unit
      <3>1. reruns[w] + 1 \in 0..RerunMax - 1
        BY <2>2, LimitsAssumption DEF TypeOK
      <3> QED
        BY <1>1, <2>2, <3>1, Zenon DEF TypeOK, Places
    <2> QED
      BY <1>2, <2>1, <2>2, Zenon DEF RunAgain
  <1>3. CASE AsAsked(w)
    <2>1. CASE Return(w, "ok") \/ Return(w, "refused")
      BY <1>1, <1>3, <2>1, ReturnTypes, Zenon DEF TypeOK, AsAsked
    <2>2. CASE /\ ~(unit[w].attempt >= AgainMax) /\ pc' = [pc EXCEPT ![w] = "begin"]
               /\ unit' = [unit EXCEPT ![w].attempt = @ + 1]
      <3>1. unit[w] \in Units /\ unit[w].attempt + 1 \in 1..AgainMax
        <4>1. unit[w] \in Units
          BY Zenon DEF TypeOK
        <4>2. unit[w].attempt \in 1..AgainMax /\ AgainMax \in Nat
          BY <4>1, UnitTypes, LimitsAssumption, Zenon
        <4> QED
          BY <2>2, <4>1, <4>2
      <3>2. [unit[w] EXCEPT !.attempt = unit[w].attempt + 1] \in Units
        BY <3>1, UnitTypes, Zenon
      <3> QED
        BY <1>1, <1>3, <2>2, <3>2, Zenon DEF TypeOK, Places, AsAsked
    <2> QED
      BY <1>3, <2>1, <2>2, Zenon DEF AsAsked
  <1> QED
    BY <1>2, <1>3, Zenon DEF GoesOn

LEMMA RunsTypes ==
  ASSUME TypeOK, NEW w \in Workers, Runs(w)
  PROVE  /\ pc' \in [Workers -> Places] /\ unit' \in [Workers -> Units]
         /\ txn' \in [Workers -> {"none", "open", "aborted"}]
         /\ pend' \in [Workers -> SUBSET Rows] /\ stored' \subseteq Rows
         /\ collided' \in [Workers -> 0..RegisterMax]
  <1>1. ASSUME NEW r \in Rows, Writes(w, r)
        PROVE  /\ txn' \in [Workers -> {"none", "open", "aborted"}]
               /\ pend' \in [Workers -> SUBSET Rows] /\ stored' \subseteq Rows
               /\ collided' \in [Workers -> 0..RegisterMax]
    <2>1. CASE txn[w] = "open"
      BY <1>1, <2>1, Zenon DEF TypeOK, Writes
    <2>2. CASE txn[w] # "open"
      BY <1>1, <2>2, Zenon DEF TypeOK, Writes
    <2> QED
      BY <2>1, <2>2, Zenon
  <1>2. ASSUME NEW p \in Statements, pc' = [pc EXCEPT ![w] = p], UNCHANGED unit
        PROVE  pc' \in [Workers -> Places] /\ unit' \in [Workers -> Units]
    BY <1>2, Zenon DEF TypeOK, Places
  <1>3. CASE pc[w] \in {"find", "owner_of"}
    BY <1>3, ConcludesTypes, Zenon DEF Runs, TypeOK, Ends
  <1>4. CASE SameValue(w, Visible(w)) /\ Aborts(w) /\ Collides(w) /\ UNCHANGED stored
    <2>1. collided' \in [Workers -> 0..RegisterMax]
      BY <1>4, LimitsAssumption DEF Collides, TypeOK
    <2>2. pc' \in [Workers -> Places] /\ unit' \in [Workers -> Units]
      <3>1. unit[w].outcome \in {"pending", "created", "taken", "failed", "exhausted"}
        BY UnitTypes, Zenon DEF TypeOK
      <3> QED
        BY <1>4, <3>1, ConcludesTypes, Zenon DEF Collides, Ends
    <2> QED
      BY <1>4, <2>1, <2>2, SessionTypes, Zenon DEF TypeOK
  <1>5. CASE Writes(w, UserRow(w)) /\ pc' = [pc EXCEPT ![w] = "insert_contact"] /\ UNCHANGED unit
    BY <1>1, <1>2, <1>5, RowTypes, Zenon DEF Statements
  <1>6. CASE Writes(w, ContactRow(w)) /\ pc' = [pc EXCEPT ![w] = "set_main"] /\ UNCHANGED unit
    BY <1>1, <1>2, <1>6, RowTypes, Zenon DEF Statements
  <1>7. CASE Writes(w, MainRow(w)) /\ Concludes(w, "commit", "created")
    BY <1>1, <1>7, RowTypes, ConcludesTypes, Zenon DEF Ends
  <1>8. CASE pc' = [pc EXCEPT ![w] = "owner_of"] /\ UNCHANGED <<unit, txn, pend, stored, collided>>
    BY <1>2, <1>8, Zenon DEF TypeOK, Statements
  <1> QED
    BY <1>3, <1>4, <1>5, <1>6, <1>7, <1>8, Zenon DEF Runs

LEMMA TypeStep ==
  ASSUME TypeOK, [Next]_vars
  PROVE  TypeOK'
  <1>1. CASE UNCHANGED vars
    BY <1>1, Zenon DEF vars, connVars, TypeOK
  <1> SUFFICES ASSUME UNCHANGED kind, NEW w \in Workers,
                      Submit(w) \/ Work(w) \/ LoseLink(w) \/ Discard(w)
               PROVE  TypeOK'
    BY <1>1, Zenon DEF Next
  <1> USE DEF connVars
  <1>2. CASE LoseLink(w) \/ Discard(w)
    BY <1>2, SessionTypes, Zenon DEF LoseLink, Discard, TypeOK
  <1>3. CASE Submit(w)
    <2>1. PICK a \in Accesses, e \in Emails : Take(w, a, e)
      BY <1>3, Zenon DEF Submit
    <2>2. NewUnit(a, e) \in Units
      BY SetsAssumption, LimitsAssumption DEF NewUnit, Units
    <2>3. 0 \in 0..RerunMax - 1 /\ 0 \in 0..RegisterMax
      BY LimitsAssumption
    <2> QED
      BY <2>1, <2>2, <2>3, Zenon DEF Take, TypeOK, Places
  <1>4. CASE Usable(w)
    BY <1>4, Zenon DEF Usable, TypeOK, Places
  <1>5. CASE Revive(w)
    <2>1. pc' \in [Workers -> Places] /\ unit' \in [Workers -> Units]
      <3>1. CASE pc' = [pc EXCEPT ![w] = "begin"] /\ UNCHANGED unit
        BY <3>1, Zenon DEF TypeOK, Places
      <3>2. CASE Return(w, "network")
        BY <3>2, ReturnTypes, Zenon
      <3> QED
        BY <1>5, <3>1, <3>2, Zenon DEF Revive
    <2> QED
      BY <1>5, <2>1, SessionTypes, Zenon DEF Revive, TypeOK
  <1>6. CASE BeginRead(w) \/ BeginWrite(w)
    <2>1. txn' \in [Workers -> {"none", "open", "aborted"}]
      BY <1>6, Zenon DEF BeginRead, BeginWrite, TypeOK
    <2> QED
      BY <1>6, <2>1, StartTypes, Zenon DEF BeginRead, BeginWrite, TypeOK
  <1>7. CASE BeginFails(w)
    BY <1>7, ReturnTypes, Zenon DEF BeginFails, TypeOK
  <1>8. ASSUME WorkFails(w)
        PROVE  pc' \in [Workers -> Places] /\ unit' \in [Workers -> Units] /\ UNCHANGED collided
    BY <1>8, ConcludesTypes, Zenon DEF WorkFails, Ends
  <1>9. CASE Prepare(w)
    <2>1. CASE Aborts(w) /\ WorkFails(w) /\ UNCHANGED <<table, known>>
      BY <1>8, <1>9, <2>1, SessionTypes, Zenon DEF Prepare, TypeOK
    <2>2. CASE /\ table' = [table EXCEPT ![w] = @ \union {pc[w]}]
               /\ known' = [known EXCEPT ![w] = @ \union {pc[w]}]
               /\ UNCHANGED <<pc, unit, txn, pend, collided>>
      BY <1>9, <2>2, Zenon DEF Prepare, TypeOK
    <2> QED
      BY <1>9, <2>1, <2>2, Zenon DEF Prepare
  <1>10. CASE UnknownStatement(w)
    <2>1. table' \in [Workers -> SUBSET Statements]
      BY <1>10, Zenon DEF UnknownStatement, Forget, TypeOK
    <2>2. /\ pc' \in [Workers -> Places] /\ unit' \in [Workers -> Units] /\ UNCHANGED collided
          /\ tries' \in [Workers -> 0..1] /\ rerun' \in [Workers -> BOOLEAN]
      <3>1. CASE MayRetry(w)
        BY <1>10, <3>1 DEF UnknownStatement, MayRetry, TypeOK
      <3>2. CASE ~MayRetry(w)
        BY <1>8, <1>10, <3>2, Zenon DEF UnknownStatement, TypeOK
      <3> QED
        BY <3>1, <3>2, Zenon
    <2>3. UNCHANGED <<draw, reruns, link, known, stored, critical>> /\ Aborts(w)
      BY <1>10, Zenon DEF UnknownStatement
    <2> QED
      BY <2>1, <2>2, <2>3, SessionTypes, Zenon DEF TypeOK
  <1>11. CASE StatementUnanswered(w)
    BY <1>8, <1>11, Zenon DEF StatementUnanswered, TypeOK
  <1>12. CASE StatementRefused(w)
    <2>1. /\ txn' \in [Workers -> {"none", "open", "aborted"}]
          /\ pend' \in [Workers -> SUBSET Rows]
      <3>1. CASE Aborts(w)
        BY <3>1, SessionTypes, Zenon
      <3>2. CASE txn' = [txn EXCEPT ![w] = "none"] /\ pend' = [pend EXCEPT ![w] = {}]
        BY <3>2, Zenon DEF TypeOK
      <3> QED
        BY <1>12, <3>1, <3>2, Zenon DEF StatementRefused
    <2> QED
      BY <1>8, <1>12, <2>1, Zenon DEF StatementRefused, TypeOK
  <1>13. CASE Execute(w)
    <2>1. tries' \in [Workers -> 0..1]
      BY <1>13 DEF Execute, TypeOK
    <2> QED
      BY <1>13, <2>1, RunsTypes, Zenon DEF Execute, TypeOK
  <1>14. CASE EndRead(w)
    BY <1>14, GoesOnTypes, Zenon DEF EndRead, TypeOK
  <1>15. CASE RollBack(w)
    <2>1. GoesOn(w) /\ UNCHANGED <<draw, tries, stored, critical, collided>>
      BY <1>15, Zenon DEF RollBack
    <2>2. CASE EndsTransaction(w) /\ UNCHANGED <<table, link, known>>
      BY <2>1, <2>2, GoesOnTypes, SessionTypes, Zenon DEF TypeOK
    <2>3. CASE Redial(w)
      BY <2>1, <2>3, GoesOnTypes, SessionTypes, Zenon DEF TypeOK
    <2> QED
      BY <1>15, <2>2, <2>3, Zenon DEF RollBack
  <1>16. CASE RollBackStuck(w) \/ CommitBusy(w)
    BY <1>16, ReturnTypes, Zenon DEF RollBackStuck, CommitBusy, CommitStatus, StopsTheProcess, TypeOK
  <1>17. CASE Commit(w)
    <2>1. stored' \subseteq Rows
      BY <1>17, Zenon DEF Commit, TypeOK
    <2> QED
      BY <1>17, <2>1, ReturnTypes, SessionTypes, Zenon DEF Commit, TypeOK
  <1>18. CASE CommitFails(w)
    <2>1. \E s \in {"ok", "network", "refused"} : Return(w, s)
      BY <1>18, Zenon DEF CommitFails, CommitStatus
    <2>2. stored' \subseteq Rows
      BY <1>18, Zenon DEF CommitFails, TypeOK
    <2>3. link' \in [Workers -> {"ok", "lost", "bad"}]
      BY <1>18, Zenon DEF CommitFails, TypeOK
    <2>4. /\ txn' \in [Workers -> {"none", "open", "aborted"}]
          /\ pend' \in [Workers -> SUBSET Rows] /\ known' \in [Workers -> SUBSET Statements]
      BY <1>18, SessionTypes, Zenon DEF CommitFails, TypeOK
    <2>5. UNCHANGED <<draw, reruns, tries, rerun, table, critical, collided>>
      BY <1>18, Zenon DEF CommitFails
    <2> QED
      BY <2>1, <2>2, <2>3, <2>4, <2>5, ReturnTypes, Zenon DEF TypeOK
  <1> QED
    BY <1>2, <1>3, <1>4, <1>5, <1>6, <1>7, <1>9, <1>10, <1>11, <1>12, <1>13, <1>14, <1>15, <1>16,
       <1>17, <1>18, Zenon DEF Work

-----------------------------------------------------------------------------
(* The inductive invariant.                                                  *)

\* A unit that reads runs the one statement that reads; a lost statement is only remembered until
\* the work starts again; created is the outcome of a unit on its way to COMMIT and of nothing else.
RunTrue(w) ==
    /\ pc[w] \in Statements => (unit[w].access = "read" <=> pc[w] = "find") /\ ~rerun[w]
    /\ pc[w] \in {"commit", "again"} => unit[w].access = "write" /\ ~rerun[w]
    /\ pc[w] = "commit" => unit[w].outcome = "created"
    /\ unit[w].outcome = "created" => pc[w] \in {"commit", "idle"}

\* Every attempt after the first was paid for with a collision.
CountTrue(w) ==
    /\ unit[w].attempt <= RegisterMax /\ unit[w].attempt <= collided[w] + 1
    /\ pc[w] = "again" => unit[w].attempt < RegisterMax /\ unit[w].attempt <= collided[w]
    /\ unit[w].outcome = "exhausted" => collided[w] = RegisterMax

\* A session without a connection has no transaction, and one with a transaction that is not open
\* has nothing pending; between two units, and in one that reads, there is none at all.
TxnTrue(w) ==
    /\ known[w] \subseteq table[w]
    /\ link[w] # "ok" => txn[w] = "none"
    /\ txn[w] # "open" => pend[w] = {}
    /\ kind # "journal" /\ (pc[w] \in {"idle", "usable", "begin"} \/ unit[w].access = "read")
          => txn[w] = "none" \/ critical
    /\ pc[w] \in Statements \ {"find"} /\ link[w] = "ok" => txn[w] # "none"
    /\ pc[w] = "commit" /\ link[w] = "ok" => txn[w] = "open"

\* The rows the open transaction has written are those of the statements that ran.
PendTrue(w) ==
    txn[w] = "open" =>
        /\ pc[w] = "insert_user" => pend[w] = {}
        /\ pc[w] \in {"insert_contact", "owner_of"} => pend[w] = {UserRow(w)}
        /\ pc[w] = "set_main" => pend[w] = {UserRow(w), ContactRow(w)}
        /\ pc[w] = "commit" => pend[w] = {UserRow(w), ContactRow(w), MainRow(w)}

\* What the outcome says is in the database already, or will be with the COMMIT.
AnswerTrue(w) ==
    /\ pc[w] = "owner_of" \/ unit[w].outcome = "taken" => SameAddress(w, stored)
    /\ pc[w] = "idle" /\ unit[w].status = "ok" /\ unit[w].outcome = "created"
          => {UserRow(w), ContactRow(w), MainRow(w)} \subseteq stored

WorkerTrue(w) == RunTrue(w) /\ CountTrue(w) /\ TxnTrue(w) /\ PendTrue(w) /\ AnswerTrue(w)

\* Two rows that one of the tables' unique indexes does not let stand together.
Clash(r, s) ==
    \/ r.table = "user" /\ r = s
    \/ /\ r.table = "contact" /\ s.table = "contact"
       /\ r.email = s.email \/ r.code = s.code

\* What is pending clashes with nothing that is durable and nothing that is pending elsewhere.
NoClash ==
    \A w \in Workers : \A r \in pend[w] :
        /\ \A s \in stored : ~Clash(r, s)
        /\ \A v \in Workers \ {w} : \A s \in pend[v] : ~Clash(r, s)

TransactionInv ==
    /\ \A w \in Workers : WorkerTrue(w)
    /\ NoClash
    /\ WholeAccounts
    /\ Postgres => ~critical

-----------------------------------------------------------------------------
(* A worker's step leaves everything of the other workers as it is.          *)

Mine(w) == <<pc[w], unit[w], draw[w], rerun[w], table[w], link[w], known[w], txn[w], pend[w],
             collided[w]>>

Acts(w) == (Submit(w) \/ Work(w) \/ LoseLink(w) \/ Discard(w)) /\ UNCHANGED kind

LEMMA OthersStay ==
  ASSUME TypeOK, NEW w \in Workers, Acts(w), NEW v \in Workers, v # w
  PROVE  Mine(v)' = Mine(v)
  <1> USE DEF Mine, connVars, TypeOK
  <1>1. CASE Submit(w)
    BY <1>1, Zenon DEF Submit, Take
  <1>2. CASE LoseLink(w) \/ Discard(w)
    BY <1>2, Zenon DEF LoseLink, SessionEnds, Discard
  <1>3. CASE Usable(w)
    BY <1>3, Zenon DEF Usable
  <1>4. CASE Revive(w)
    BY <1>4 DEF Revive, Redial, SessionEnds, Return
  <1>5. CASE BeginRead(w) \/ BeginWrite(w)
    BY <1>5 DEF BeginRead, BeginWrite, StartWork
  <1>6. CASE BeginFails(w)
    BY <1>6, Zenon DEF BeginFails, Return
  <1>7. CASE Prepare(w)
    BY <1>7 DEF Prepare, Aborts, WorkFails, Concludes
  <1>8. CASE UnknownStatement(w)
    BY <1>8, Zenon DEF UnknownStatement, Forget, Aborts, WorkFails, Concludes
  <1>9. CASE StatementUnanswered(w) \/ StatementRefused(w)
    BY <1>9, Zenon DEF StatementUnanswered, StatementRefused, Aborts, WorkFails, Concludes
  <1>10. CASE Execute(w)
    BY <1>10 DEF Execute, Runs, Writes, Aborts, Collides, Concludes
  <1>11. CASE EndRead(w)
    BY <1>11, Zenon DEF EndRead, GoesOn, RunAgain, AsAsked, Return
  <1>12. CASE RollBack(w)
    BY <1>12 DEF RollBack, EndsTransaction, Redial, SessionEnds, GoesOn, RunAgain, AsAsked, Return
  <1>13. CASE RollBackStuck(w) \/ CommitBusy(w)
    BY <1>13, Zenon DEF RollBackStuck, CommitBusy, Return
  <1>14. CASE Commit(w)
    BY <1>14, Zenon DEF Commit, EndsTransaction, Return
  <1>15. CASE CommitFails(w)
    BY <1>15 DEF CommitFails, EndsTransaction, SessionEnds, Return
  <1> HIDE DEF Mine, TypeOK
  <1> QED
    BY <1>1, <1>2, <1>3, <1>4, <1>5, <1>6, <1>7, <1>8, <1>9, <1>10, <1>11, <1>12, <1>13, <1>14,
       <1>15, Zenon DEF Acts, Work

\* What is true of a worker stays true while others add durable rows or stop the process.
LEMMA OthersTrue ==
  ASSUME TypeOK, NEW v \in Workers, WorkerTrue(v), Mine(v)' = Mine(v), stored \subseteq stored',
         critical => critical', UNCHANGED kind
  PROVE  WorkerTrue(v)'
  <1>1. /\ pc'[v] = pc[v] /\ unit'[v] = unit[v] /\ draw'[v] = draw[v] /\ rerun'[v] = rerun[v]
        /\ table'[v] = table[v] /\ link'[v] = link[v] /\ known'[v] = known[v]
        /\ txn'[v] = txn[v] /\ pend'[v] = pend[v] /\ collided'[v] = collided[v]
    BY Zenon DEF Mine
  <1>2. RunTrue(v)' /\ CountTrue(v)'
    BY <1>1, Zenon DEF WorkerTrue, RunTrue, CountTrue
  <1>3. TxnTrue(v)'
    BY <1>1, Zenon DEF WorkerTrue, TxnTrue
  <1>4. UserRow(v)' = UserRow(v) /\ ContactRow(v)' = ContactRow(v) /\ MainRow(v)' = MainRow(v)
    BY <1>1, Zenon DEF UserRow, ContactRow, MainRow
  <1>5. PendTrue(v)'
    BY <1>1, <1>4, Zenon DEF WorkerTrue, PendTrue
  <1>6. AnswerTrue(v)'
    BY <1>1, <1>4, Zenon DEF WorkerTrue, AnswerTrue, SameAddress
  <1> QED
    BY <1>2, <1>3, <1>5, <1>6, Zenon DEF WorkerTrue

-----------------------------------------------------------------------------
(* The step of the worker itself.  Effects are stated at the worker; the     *)
(* invariant is about nothing else.                                          *)

LEMMA OwnTypes ==
  ASSUME TypeOK, NEW w \in Workers
  PROVE  /\ unit[w].attempt \in Nat /\ unit[w].attempt >= 1 /\ collided[w] \in Nat
         /\ collided[w] <= RegisterMax /\ RegisterMax \in Nat /\ RegisterMax >= 1
         /\ unit[w].access \in {"read", "write"} /\ link[w] \in {"ok", "lost", "bad"}
         /\ unit[w].outcome \in {"pending", "created", "taken", "failed", "exhausted"}
         /\ txn[w] \in {"none", "open", "aborted"} /\ pc[w] \in Places
  <1>1. unit[w] \in Units /\ collided[w] \in 0..RegisterMax
    BY Zenon DEF TypeOK
  <1>2. AgainMax \in Nat /\ RegisterMax \in Nat /\ RegisterMax >= 1
    BY LimitsAssumption
  <1>3. unit[w].attempt \in 1..AgainMax /\ unit[w].access \in {"read", "write"}
        /\ unit[w].outcome \in {"pending", "created", "taken", "failed", "exhausted"}
    BY <1>1, UnitTypes, Zenon
  <1>4. /\ link[w] \in {"ok", "lost", "bad"} /\ txn[w] \in {"none", "open", "aborted"}
        /\ pc[w] \in Places
    BY Zenon DEF TypeOK
  <1> QED
    BY <1>1, <1>2, <1>3, <1>4

LEMMA ReturnEffect ==
  ASSUME TypeOK, NEW w \in Workers, NEW s, Return(w, s)
  PROVE  /\ pc'[w] = "idle" /\ unit'[w].status = s
         /\ unit'[w].access = unit[w].access /\ unit'[w].email = unit[w].email
         /\ unit'[w].attempt = unit[w].attempt /\ unit'[w].outcome = unit[w].outcome
  BY DEF Return, TypeOK, Units

LEMMA ConcludesEffect ==
  ASSUME TypeOK, NEW w \in Workers, NEW e, NEW o, Concludes(w, e, o)
  PROVE  /\ pc'[w] = e /\ unit'[w].outcome = o
         /\ unit'[w].access = unit[w].access /\ unit'[w].email = unit[w].email
         /\ unit'[w].attempt = unit[w].attempt /\ unit'[w].status = unit[w].status
  BY DEF Concludes, TypeOK, Units

\* The transaction and what it wrote, after an error, after its end and after a new session.
LEMMA SessionEffect ==
  ASSUME TypeOK, NEW w \in Workers
  PROVE  /\ SessionEnds(w) => txn'[w] = "none" /\ pend'[w] = {} /\ known'[w] = {}
         /\ EndsTransaction(w) => txn'[w] = "none" /\ pend'[w] = {}
         /\ Aborts(w) => \/ txn'[w] = txn[w] /\ pend'[w] = pend[w]
                         \/ txn'[w] = "aborted" /\ pend'[w] = {} /\ txn[w] # "none"
         /\ Redial(w) => \/ link'[w] = "ok" /\ txn'[w] = "none" /\ pend'[w] = {} /\ known'[w] = {}
                         \/ /\ link'[w] = "bad" /\ txn'[w] = txn[w] /\ pend'[w] = pend[w]
                            /\ known'[w] = known[w] /\ table'[w] = table[w]
  <1>1. SessionEnds(w) => txn'[w] = "none" /\ pend'[w] = {} /\ known'[w] = {}
    BY Zenon DEF SessionEnds, TypeOK
  <1>2. EndsTransaction(w) => txn'[w] = "none" /\ pend'[w] = {}
    BY Zenon DEF EndsTransaction, TypeOK
  <1>3. Aborts(w) => \/ txn'[w] = txn[w] /\ pend'[w] = pend[w]
                     \/ txn'[w] = "aborted" /\ pend'[w] = {} /\ txn[w] # "none"
    BY Zenon DEF Aborts, AfterError, TypeOK
  <1>4. Redial(w) => \/ link'[w] = "ok" /\ txn'[w] = "none" /\ pend'[w] = {} /\ known'[w] = {}
                     \/ /\ link'[w] = "bad" /\ txn'[w] = txn[w] /\ pend'[w] = pend[w]
                        /\ known'[w] = known[w] /\ table'[w] = table[w]
    BY <1>1, Zenon DEF Redial, TypeOK
  <1> QED
    BY <1>1, <1>2, <1>3, <1>4, Zenon

\* GoesOn: run again, draw again or hand back.
LEMMA GoesOnEffect ==
  ASSUME TypeOK, NEW w \in Workers, GoesOn(w)
  PROVE  /\ ~rerun'[w] /\ unit'[w].access = unit[w].access /\ unit'[w].email = unit[w].email
         /\ unit'[w].outcome = unit[w].outcome
         /\ \/ pc'[w] = "begin" /\ rerun[w] /\ unit'[w].attempt = unit[w].attempt
            \/ pc'[w] = "begin" /\ pc[w] = "again" /\ unit'[w].attempt = unit[w].attempt + 1
            \/ /\ pc'[w] = "idle" /\ unit'[w].attempt = unit[w].attempt
               /\ unit'[w].status = "ok" => ~rerun[w] /\ pc[w] # "again"
  <1>1. ~rerun'[w]
    BY Zenon DEF GoesOn, TypeOK
  <1>2. CASE rerun[w]
    <2>1. CASE reruns[w] + 1 < RerunMax
      BY <1>1, <1>2, <2>1, Zenon DEF GoesOn, RunAgain, TypeOK
    <2>2. CASE ~(reruns[w] + 1 < RerunMax)
      <3>1. Return(w, "refused")
        BY <1>2, <2>2, Zenon DEF GoesOn, RunAgain
      <3> QED
        BY <1>1, <3>1, ReturnEffect
    <2> QED
      BY <2>1, <2>2, Zenon
  <1>3. CASE ~rerun[w]
    <2>1. CASE pc[w] # "again"
      BY <1>1, <1>3, <2>1, ReturnEffect, Zenon DEF GoesOn, AsAsked
    <2>2. CASE pc[w] = "again" /\ unit[w].attempt >= AgainMax
      <3>1. Return(w, "refused")
        BY <1>3, <2>2, Zenon DEF GoesOn, AsAsked
      <3> QED
        BY <1>1, <3>1, ReturnEffect
    <2>3. CASE pc[w] = "again" /\ ~(unit[w].attempt >= AgainMax)
      BY <1>1, <1>3, <2>3 DEF GoesOn, AsAsked, TypeOK, Units
    <2> QED
      BY <2>1, <2>2, <2>3, Zenon
  <1> QED
    BY <1>2, <1>3, Zenon

LEMMA RowsStay ==
  ASSUME NEW w \in Workers, draw'[w] = draw[w], unit'[w].email = unit[w].email
  PROVE  UserRow(w)' = UserRow(w) /\ ContactRow(w)' = ContactRow(w) /\ MainRow(w)' = MainRow(w)
  BY Zenon DEF UserRow, ContactRow, MainRow

\* A unit whose work failed claims nothing.
LEMMA FailsTrue ==
  ASSUME TypeOK, NEW w \in Workers, WorkerTrue(w), WorkFails(w), TxnTrue(w)', pc[w] # "again"
  PROVE  WorkerTrue(w)'
  <1>1. /\ pc'[w] = "rollback" /\ unit'[w].outcome = "failed" /\ unit'[w].access = unit[w].access
        /\ unit'[w].attempt = unit[w].attempt /\ collided'[w] = collided[w]
    BY ConcludesEffect, Zenon DEF WorkFails
  <1> QED
    BY <1>1, Zenon DEF WorkerTrue, RunTrue, CountTrue, PendTrue, AnswerTrue, Statements

\* A unit that is handed back claims what it claimed, with more rows durable than before.
LEMMA ReturnTrue ==
  ASSUME TypeOK, NEW w \in Workers, NEW s, WorkerTrue(w), Return(w, s), TxnTrue(w)',
         UNCHANGED <<draw, collided>>, stored \subseteq stored',
         s = "ok" /\ unit[w].outcome = "created"
           => {UserRow(w), ContactRow(w), MainRow(w)} \subseteq stored'
  PROVE  WorkerTrue(w)'
  <1>1. /\ pc'[w] = "idle" /\ unit'[w].status = s
        /\ unit'[w].access = unit[w].access /\ unit'[w].email = unit[w].email
        /\ unit'[w].attempt = unit[w].attempt /\ unit'[w].outcome = unit[w].outcome
        /\ draw'[w] = draw[w] /\ collided'[w] = collided[w]
    BY ReturnEffect, Zenon
  <1>2. RunTrue(w)' /\ CountTrue(w)' /\ PendTrue(w)'
    BY <1>1, Zenon DEF WorkerTrue, RunTrue, CountTrue, PendTrue, Statements
  <1>3. UserRow(w)' = UserRow(w) /\ ContactRow(w)' = ContactRow(w) /\ MainRow(w)' = MainRow(w)
    BY <1>1, RowsStay, Zenon
  <1>4. AnswerTrue(w)'
    BY <1>1, <1>3, Zenon DEF WorkerTrue, AnswerTrue, SameAddress
  <1> QED
    BY <1>2, <1>4, Zenon DEF WorkerTrue

\* A unit goes on to the next place of its run, with rows and answers as they were.
LEMMA NextPlaceTrue ==
  ASSUME TypeOK, NEW w \in Workers, NEW p, WorkerTrue(w), pc' = [pc EXCEPT ![w] = p],
         UNCHANGED <<unit, draw, collided, stored>>, TxnTrue(w)', RunTrue(w)', PendTrue(w)',
         p \notin {"again", "idle"}, p = "owner_of" => SameAddress(w, stored)
  PROVE  WorkerTrue(w)'
  <1>1. pc'[w] = p
    BY Zenon DEF TypeOK
  <1> QED
    BY <1>1, Zenon DEF WorkerTrue, CountTrue, AnswerTrue, SameAddress, UserRow, ContactRow, MainRow

LEMMA LossesTrue ==
  ASSUME TypeOK, NEW w \in Workers, WorkerTrue(w), LoseLink(w) \/ Discard(w), UNCHANGED kind
  PROVE  WorkerTrue(w)'
  <1>1. /\ UNCHANGED <<pc, unit, draw, rerun, table, collided, stored, critical>> /\ known'[w] = {}
        /\ \/ link'[w] = "lost" /\ txn'[w] = "none" /\ pend'[w] = {}
           \/ UNCHANGED <<link, txn, pend>>
    BY SessionEffect, Zenon DEF LoseLink, Discard, TypeOK
  <1>2. TxnTrue(w)'
    BY <1>1 DEF WorkerTrue, TxnTrue
  <1>3. PendTrue(w)'
    BY <1>1, Zenon DEF WorkerTrue, PendTrue, UserRow, ContactRow, MainRow
  <1> QED
    BY <1>1, <1>2, <1>3, Zenon
    DEF WorkerTrue, RunTrue, CountTrue, AnswerTrue, SameAddress, UserRow, ContactRow, MainRow

LEMMA SubmitTrue ==
  ASSUME TypeOK, NEW w \in Workers, WorkerTrue(w), Submit(w), UNCHANGED kind
  PROVE  WorkerTrue(w)'
  <1>1. PICK a \in Accesses, e \in Emails : Take(w, a, e)
    BY Zenon DEF Submit
  <1>2. /\ pc[w] = "idle" /\ pc'[w] = "usable" /\ unit'[w].attempt = 1 /\ unit'[w].outcome = "pending"
        /\ collided'[w] = 0
        /\ UNCHANGED <<draw, rerun, table, link, known, txn, pend, stored, critical>>
    BY <1>1, Zenon DEF Take, NewUnit, TypeOK, connVars
  <1>3. TxnTrue(w)'
    BY <1>2, Zenon DEF WorkerTrue, TxnTrue, Statements
  <1>4. CountTrue(w)'
    BY <1>2, OwnTypes DEF CountTrue
  <1> QED
    BY <1>2, <1>3, <1>4, Zenon DEF WorkerTrue, RunTrue, PendTrue, AnswerTrue, Statements

LEMMA UsableTrue ==
  ASSUME TypeOK, NEW w \in Workers, WorkerTrue(w), Usable(w) \/ Revive(w), UNCHANGED kind
  PROVE  WorkerTrue(w)'
  <1>1. /\ UNCHANGED <<draw, rerun, collided, stored, critical>> /\ pc[w] = "usable"
        /\ unit[w].outcome # "created" /\ txn[w] \in {"none", "open", "aborted"}
    BY OwnTypes, Zenon DEF Usable, Revive, WorkerTrue, RunTrue
  <1>2. /\ pc'[w] \in {"idle", "begin"} => TxnTrue(w)'
    <2>1. CASE Usable(w)
      BY <1>1, <2>1 DEF Usable, WorkerTrue, TxnTrue, Statements, connVars
    <2>2. CASE Revive(w)
      <3>1. /\ link[w] # "ok"
            /\ \/ link'[w] = "ok" /\ txn'[w] = "none" /\ pend'[w] = {} /\ known'[w] = {}
               \/ /\ link'[w] = "bad" /\ txn'[w] = txn[w] /\ pend'[w] = pend[w]
                  /\ known'[w] = known[w] /\ table'[w] = table[w]
        BY <2>2, SessionEffect, Zenon DEF Revive
      <3> QED
        BY <1>1, <3>1, Zenon DEF WorkerTrue, TxnTrue, Statements
    <2> QED
      BY <2>1, <2>2, Zenon
  <1>3. CASE pc' = [pc EXCEPT ![w] = "begin"] /\ UNCHANGED unit
    <2>1. pc'[w] = "begin"
      BY <1>3, Zenon DEF TypeOK
    <2>2. RunTrue(w)' /\ PendTrue(w)'
      BY <1>1, <1>3, <2>1, Zenon DEF RunTrue, PendTrue, Statements
    <2> QED
      BY <1>1, <1>2, <1>3, <2>1, <2>2, NextPlaceTrue, Zenon
  <1>4. CASE Return(w, "network")
    BY <1>1, <1>2, <1>4, ReturnTrue, ReturnEffect, Zenon
  <1> QED
    BY <1>3, <1>4, Zenon DEF Usable, Revive

LEMMA BeginTrue ==
  ASSUME TypeOK, NEW w \in Workers, WorkerTrue(w), Postgres => ~critical, UNCHANGED kind,
         BeginRead(w) \/ BeginWrite(w) \/ BeginFails(w)
  PROVE  WorkerTrue(w)'
  <1>1. CASE BeginFails(w)
    <2>1. /\ pc[w] = "begin" /\ UNCHANGED <<draw, rerun, table, known, txn, pend, stored, critical, collided>>
          /\ link'[w] = link[w] \/ (link[w] # "ok" /\ link'[w] = "bad")
      BY <1>1, Zenon DEF BeginFails, TypeOK
    <2>2. PICK s \in {"network", "refused"} : Return(w, s)
      BY <1>1, Zenon DEF BeginFails
    <2>3. TxnTrue(w)'
      BY <2>1, <2>2, ReturnEffect, Zenon DEF WorkerTrue, TxnTrue, Statements
    <2> QED
      BY <2>1, <2>2, <2>3, ReturnTrue, Zenon
  <1>2. CASE BeginRead(w) \/ BeginWrite(w)
    <2>1. /\ pc[w] = "begin" /\ StartWork(w) /\ UNCHANGED <<unit, table, link, known, pend, stored, critical, collided>>
      BY <1>2, Zenon DEF BeginRead, BeginWrite, connVars
    <2>2. ~rerun'[w] /\ unit[w].outcome # "created"
      BY <2>1, Zenon DEF StartWork, WorkerTrue, RunTrue, TypeOK
    <2>3. CASE BeginRead(w)
      <3>1. unit[w].access = "read" /\ pc'[w] = "find" /\ UNCHANGED <<txn, draw>>
        BY <2>1, <2>3, Zenon DEF BeginRead, StartWork, connVars, TypeOK
      <3>2. TxnTrue(w)'
        BY <2>1, <3>1, Zenon DEF WorkerTrue, TxnTrue
      <3> QED
        BY <2>1, <2>2, <3>1, <3>2, Zenon
        DEF WorkerTrue, RunTrue, CountTrue, PendTrue, AnswerTrue, SameAddress, Statements
    <2>4. CASE BeginWrite(w)
      <3>1. /\ unit[w].access = "write" /\ pc'[w] = "insert_user" /\ txn'[w] = "open"
            /\ link[w] = "ok" /\ txn[w] \in {"none", "open"} /\ (~Postgres => txn[w] = "none")
        BY <2>1, <2>4 DEF BeginWrite, StartWork, TypeOK
      <3>2. txn[w] = "none"
        BY <2>1, <3>1, Zenon DEF WorkerTrue, TxnTrue, Postgres
      <3>3. TxnTrue(w)'
        BY <2>1, <3>1, Zenon DEF WorkerTrue, TxnTrue
      <3>4. PendTrue(w)'
        BY <2>1, <3>1, <3>2, Zenon DEF WorkerTrue, TxnTrue, PendTrue
      <3> QED
        BY <2>1, <2>2, <3>1, <3>3, <3>4, Zenon
        DEF WorkerTrue, RunTrue, CountTrue, AnswerTrue, SameAddress, Statements
    <2> QED
      BY <1>2, <2>3, <2>4, Zenon
  <1> QED
    BY <1>1, <1>2, Zenon

LEMMA StatementTrue ==
  ASSUME TypeOK, NEW w \in Workers, WorkerTrue(w), UNCHANGED kind,
         Prepare(w) \/ UnknownStatement(w) \/ StatementUnanswered(w) \/ StatementRefused(w)
  PROVE  WorkerTrue(w)'
  <1>1. /\ pc[w] \in Statements /\ pc[w] \in Places /\ UNCHANGED <<draw, stored, critical>>
        /\ txn[w] \in {"none", "open", "aborted"}
    BY OwnTypes, Zenon DEF Prepare, UnknownStatement, StatementUnanswered, StatementRefused, TypeOK
  <1>2. pc[w] \notin {"again", "idle"}
    BY <1>1, Zenon DEF Statements
  \* The worker stays where it is: a statement was prepared, or is prepared again.
  <1>3. ASSUME UNCHANGED <<pc, unit, rerun, collided, link>>, TxnTrue(w)',
               txn'[w] = txn[w] /\ pend'[w] = pend[w]
        PROVE  WorkerTrue(w)'
    BY <1>1, <1>3, Zenon
    DEF WorkerTrue, RunTrue, CountTrue, PendTrue, AnswerTrue, SameAddress, UserRow, ContactRow, MainRow
  <1>4. CASE Prepare(w)
    <2>1. CASE Aborts(w) /\ WorkFails(w) /\ UNCHANGED <<table, known, link>>
      <3>1. /\ \/ txn'[w] = txn[w] /\ pend'[w] = pend[w]
               \/ txn'[w] = "aborted" /\ pend'[w] = {} /\ txn[w] # "none"
            /\ pc'[w] = "rollback" /\ unit'[w].access = unit[w].access
        BY <2>1, SessionEffect, ConcludesEffect DEF WorkFails
      <3>2. TxnTrue(w)'
        BY <1>1, <2>1, <3>1, Zenon DEF WorkerTrue, TxnTrue, Statements
      <3> QED
        BY <1>2, <2>1, <3>2, FailsTrue, Zenon
    <2>2. CASE /\ table' = [table EXCEPT ![w] = @ \union {pc[w]}]
               /\ known' = [known EXCEPT ![w] = @ \union {pc[w]}]
               /\ UNCHANGED <<pc, unit, txn, pend, collided>>
      <3>1. known'[w] = known[w] \union {pc[w]} /\ table'[w] = table[w] \union {pc[w]}
        BY <2>2, Zenon DEF TypeOK
      <3>2. UNCHANGED <<link, rerun>>
        BY <1>4, Zenon DEF Prepare
      <3>3. TxnTrue(w)'
        BY <1>1, <2>2, <3>1, <3>2, Zenon DEF WorkerTrue, TxnTrue
      <3> QED
        BY <1>3, <2>2, <3>2, <3>3, Zenon
    <2> QED
      BY <1>4, <2>1, <2>2, Zenon DEF Prepare
  <1>5. CASE UnknownStatement(w)
    <2>1. /\ known'[w] = known[w] /\ table'[w] = table[w] \ {pc[w]} /\ pc[w] \notin known[w]
          /\ UNCHANGED link
      BY <1>5, Zenon DEF UnknownStatement, Forget, TypeOK
    <2>2. \/ txn'[w] = txn[w] /\ pend'[w] = pend[w]
          \/ txn'[w] = "aborted" /\ pend'[w] = {} /\ txn[w] # "none"
      BY <1>5, SessionEffect, Zenon DEF UnknownStatement
    <2>3. CASE MayRetry(w)
      <3>1. UNCHANGED <<pc, unit, rerun, collided>> /\ txn'[w] = txn[w] /\ pend'[w] = pend[w]
        BY <1>5, <2>2, <2>3, Zenon DEF UnknownStatement, MayRetry
      <3>2. TxnTrue(w)'
        BY <1>1, <2>1, <3>1, Zenon DEF WorkerTrue, TxnTrue
      <3> QED
        BY <1>3, <2>1, <3>1, <3>2, Zenon
    <2>4. CASE ~MayRetry(w)
      <3>1. WorkFails(w)
        BY <1>5, <2>4, Zenon DEF UnknownStatement
      <3>2. pc'[w] = "rollback" /\ unit'[w].access = unit[w].access
        BY <3>1, ConcludesEffect, Zenon DEF WorkFails
      <3>3. TxnTrue(w)'
        BY <1>1, <2>1, <2>2, <3>2, Zenon DEF WorkerTrue, TxnTrue, Statements
      <3> QED
        BY <1>2, <3>1, <3>3, FailsTrue, Zenon
    <2> QED
      BY <2>3, <2>4, Zenon
  <1>6. CASE StatementUnanswered(w)
    <2>1. /\ WorkFails(w) /\ link[w] # "ok" /\ link'[w] = "bad" /\ UNCHANGED <<table, known, txn, pend>>
      BY <1>6, Zenon DEF StatementUnanswered, TypeOK
    <2>2. pc'[w] = "rollback" /\ unit'[w].access = unit[w].access
      BY <2>1, ConcludesEffect, Zenon DEF WorkFails
    <2>3. TxnTrue(w)'
      BY <1>1, <2>1, <2>2, Zenon DEF WorkerTrue, TxnTrue, Statements
    <2> QED
      BY <1>2, <2>1, <2>3, FailsTrue, Zenon
  <1>7. CASE StatementRefused(w)
    <2>1. /\ WorkFails(w) /\ link[w] = "ok" /\ UNCHANGED <<table, known, link>>
          /\ \/ txn'[w] = txn[w] /\ pend'[w] = pend[w]
             \/ txn'[w] = "aborted" /\ pend'[w] = {} /\ txn[w] # "none"
             \/ txn'[w] = "none" /\ pend'[w] = {}
      BY <1>7, SessionEffect, Zenon DEF StatementRefused, TypeOK
    <2>2. pc'[w] = "rollback" /\ unit'[w].access = unit[w].access
      BY <2>1, ConcludesEffect, Zenon DEF WorkFails
    <2>3. TxnTrue(w)'
      BY <1>1, <2>1, <2>2, Zenon DEF WorkerTrue, TxnTrue, Statements
    <2> QED
      BY <1>2, <2>1, <2>3, FailsTrue, Zenon
  <1> QED
    BY <1>4, <1>5, <1>6, <1>7, Zenon

\* A statement of a registration that runs does so inside its transaction.
LEMMA ExecuteEffect ==
  ASSUME TypeOK, NEW w \in Workers, WorkerTrue(w), Execute(w)
  PROVE  /\ pc[w] \in Statements /\ link[w] = "ok" /\ ~Waits(w) /\ Runs(w)
         /\ UNCHANGED <<draw, rerun, table, link, known, critical>>
         /\ pc[w] # "find" => txn[w] = "open"
         /\ pc[w] = "find" <=> unit[w].access = "read"
         /\ ~rerun[w] /\ unit[w].outcome # "created"
  <1>1. /\ pc[w] \in Statements /\ link[w] = "ok" /\ ~Waits(w) /\ Runs(w) /\ txn[w] # "aborted"
        /\ UNCHANGED <<draw, rerun, table, link, known, critical>>
    BY Zenon DEF Execute, TypeOK
  <1>2. txn[w] \in {"none", "open", "aborted"}
    BY OwnTypes, Zenon
  <1>3. pc[w] \notin {"commit", "idle"}
    BY <1>1, Zenon DEF Statements
  <1> QED
    BY <1>1, <1>2, <1>3, Zenon DEF WorkerTrue, TxnTrue, RunTrue

LEMMA WritesEffect ==
  ASSUME TypeOK, NEW w \in Workers, NEW r, Writes(w, r), txn[w] = "open"
  PROVE  pend'[w] = pend[w] \union {r} /\ txn'[w] = "open" /\ UNCHANGED <<stored, collided>>
  BY Zenon DEF Writes, TypeOK

LEMMA ExecuteTrue ==
  ASSUME TypeOK, NEW w \in Workers, WorkerTrue(w), Execute(w), UNCHANGED kind
  PROVE  WorkerTrue(w)'
  <1>1. /\ pc[w] \in Statements /\ link[w] = "ok" /\ Runs(w)
        /\ UNCHANGED <<draw, rerun, table, link, known, critical>>
        /\ pc[w] # "find" => txn[w] = "open"
        /\ pc[w] = "find" <=> unit[w].access = "read"
        /\ ~rerun[w] /\ unit[w].outcome # "created"
    BY ExecuteEffect, Zenon
  <1>2. CASE pc[w] = "find" /\ Concludes(w, "rollback", "pending") /\ UNCHANGED <<txn, pend, stored, collided>>
    <2>1. /\ pc'[w] = "rollback" /\ unit'[w].outcome = "pending" /\ unit'[w].access = "read"
          /\ unit'[w].attempt = unit[w].attempt
      BY <1>1, <1>2, ConcludesEffect
    <2> QED
      BY <1>1, <1>2, <2>1, Zenon
      DEF WorkerTrue, RunTrue, CountTrue, TxnTrue, PendTrue, AnswerTrue, Statements
  <1>3. CASE /\ pc[w] = "insert_user" /\ Writes(w, UserRow(w))
             /\ pc' = [pc EXCEPT ![w] = "insert_contact"] /\ UNCHANGED unit
    <2>1. /\ pend'[w] = {UserRow(w)} /\ txn'[w] = "open" /\ UNCHANGED <<stored, collided>>
          /\ pc'[w] = "insert_contact"
      BY <1>1, <1>3, WritesEffect, Zenon DEF WorkerTrue, PendTrue, TypeOK
    <2>2. RunTrue(w)' /\ TxnTrue(w)'
      BY <1>1, <1>3, <2>1, Zenon DEF WorkerTrue, RunTrue, TxnTrue, Statements
    <2>3. PendTrue(w)'
      BY <1>1, <1>3, <2>1, Zenon DEF PendTrue, UserRow
    <2> QED
      BY <1>1, <1>3, <2>1, <2>2, <2>3, NextPlaceTrue, Zenon
  <1>4. CASE /\ pc[w] = "insert_contact" /\ SameAddress(w, Visible(w))
             /\ pc' = [pc EXCEPT ![w] = "owner_of"] /\ UNCHANGED <<unit, txn, pend, stored, collided>>
    <2>1. pend[w] = {UserRow(w)} /\ pc'[w] = "owner_of"
      BY <1>1, <1>4, Zenon DEF WorkerTrue, PendTrue, TypeOK
    <2>2. UserRow(w).table # "contact"
      BY Zenon DEF UserRow
    <2>3. SameAddress(w, stored)
      BY <1>4, <2>1, <2>2, Zenon DEF SameAddress, Visible
    <2>4. RunTrue(w)' /\ TxnTrue(w)'
      BY <1>1, <1>4, <2>1, Zenon DEF WorkerTrue, RunTrue, TxnTrue, Statements
    <2>5. PendTrue(w)'
      BY <1>1, <1>4, <2>1, Zenon DEF PendTrue, UserRow
    <2> QED
      BY <1>1, <1>4, <2>1, <2>3, <2>4, <2>5, NextPlaceTrue, Zenon
  <1>5. CASE /\ pc[w] = "insert_contact" /\ Writes(w, ContactRow(w))
             /\ pc' = [pc EXCEPT ![w] = "set_main"] /\ UNCHANGED unit
    <2>1. /\ pend'[w] = {UserRow(w), ContactRow(w)} /\ txn'[w] = "open" /\ UNCHANGED <<stored, collided>>
          /\ pc'[w] = "set_main"
      BY <1>1, <1>5, WritesEffect DEF WorkerTrue, PendTrue, TypeOK
    <2>2. RunTrue(w)' /\ TxnTrue(w)'
      BY <1>1, <1>5, <2>1, Zenon DEF WorkerTrue, RunTrue, TxnTrue, Statements
    <2>3. PendTrue(w)'
      BY <1>1, <1>5, <2>1, Zenon DEF PendTrue, UserRow, ContactRow
    <2> QED
      BY <1>1, <1>5, <2>1, <2>2, <2>3, NextPlaceTrue, Zenon
  <1>6. CASE /\ pc[w] \in {"insert_user", "insert_contact"} /\ Aborts(w) /\ Collides(w)
             /\ UNCHANGED stored
    <2>1. /\ \/ txn'[w] = txn[w] /\ pend'[w] = pend[w]
             \/ txn'[w] = "aborted" /\ pend'[w] = {} /\ txn[w] # "none"
          /\ collided'[w] = IF collided[w] < RegisterMax THEN collided[w] + 1 ELSE collided[w]
      BY <1>6, SessionEffect, Zenon DEF Collides, TypeOK
    <2>2. \/ unit[w].attempt < RegisterMax /\ Concludes(w, "again", unit[w].outcome)
          \/ ~(unit[w].attempt < RegisterMax) /\ Concludes(w, "rollback", "exhausted")
      BY <1>6, Zenon DEF Collides
    <2>3. /\ pc'[w] \in {"again", "rollback"} /\ unit'[w].access = unit[w].access
          /\ unit'[w].email = unit[w].email /\ unit'[w].attempt = unit[w].attempt
          /\ pc'[w] = "again" => unit'[w].outcome = unit[w].outcome /\ unit[w].attempt < RegisterMax
          /\ pc'[w] = "rollback" => /\ unit'[w].outcome = "exhausted"
                                    /\ ~(unit[w].attempt < RegisterMax)
      BY <2>2, ConcludesEffect
    <2> unit[w].access = "write"
      BY <1>1, <1>6, OwnTypes, Zenon
    <2>4. RunTrue(w)' /\ TxnTrue(w)'
      BY <1>1, <1>6, <2>1, <2>3, Zenon DEF WorkerTrue, RunTrue, TxnTrue, Statements
    <2>5. CountTrue(w)'
      BY <1>6, <2>1, <2>3, OwnTypes DEF WorkerTrue, CountTrue
    <2>6. AnswerTrue(w)' /\ PendTrue(w)'
      BY <1>1, <1>6, <2>3, Zenon DEF WorkerTrue, AnswerTrue, PendTrue, SameAddress
    <2> QED
      BY <2>4, <2>5, <2>6, Zenon DEF WorkerTrue
  <1>7. CASE pc[w] = "owner_of" /\ Concludes(w, "rollback", "taken") /\ UNCHANGED <<txn, pend, stored, collided>>
    <2>1. /\ pc'[w] = "rollback" /\ unit'[w].outcome = "taken" /\ unit'[w].access = unit[w].access
          /\ unit'[w].email = unit[w].email /\ unit'[w].attempt = unit[w].attempt
      BY <1>1, <1>7, ConcludesEffect
    <2>2. RunTrue(w)' /\ TxnTrue(w)' /\ CountTrue(w)' /\ PendTrue(w)'
      BY <1>1, <1>7, <2>1, Zenon DEF WorkerTrue, RunTrue, CountTrue, TxnTrue, PendTrue, Statements
    <2>3. AnswerTrue(w)'
      BY <1>7, <2>1, Zenon DEF WorkerTrue, AnswerTrue, SameAddress
    <2> QED
      BY <2>2, <2>3, Zenon DEF WorkerTrue
  <1>8. CASE pc[w] = "set_main" /\ Writes(w, MainRow(w)) /\ Concludes(w, "commit", "created")
    <2>1. /\ pend'[w] = {UserRow(w), ContactRow(w), MainRow(w)} /\ txn'[w] = "open"
          /\ UNCHANGED <<stored, collided>>
      BY <1>1, <1>8, WritesEffect DEF WorkerTrue, PendTrue, TypeOK
    <2>2. /\ pc'[w] = "commit" /\ unit'[w].outcome = "created" /\ unit'[w].access = unit[w].access
          /\ unit'[w].email = unit[w].email /\ unit'[w].attempt = unit[w].attempt
      BY <1>8, ConcludesEffect
    <2>3. unit[w].access = "write"
      BY <1>1, <1>8, OwnTypes, Zenon
    <2>4. RunTrue(w)' /\ TxnTrue(w)' /\ CountTrue(w)' /\ AnswerTrue(w)'
      BY <1>1, <1>8, <2>1, <2>2, <2>3, Zenon
      DEF WorkerTrue, RunTrue, CountTrue, TxnTrue, AnswerTrue, Statements
    <2>5. PendTrue(w)'
      <3>1. UserRow(w)' = UserRow(w) /\ ContactRow(w)' = ContactRow(w) /\ MainRow(w)' = MainRow(w)
        BY <1>1, <2>2, RowsStay, Zenon
      <3> QED
        BY <2>1, <2>2, <3>1, Zenon DEF PendTrue
    <2> QED
      BY <2>4, <2>5, Zenon DEF WorkerTrue
  <1> QED
    BY <1>1, <1>2, <1>3, <1>4, <1>5, <1>6, <1>7, <1>8, Zenon DEF Runs

LEMMA GoesOnTrue ==
  ASSUME TypeOK, NEW w \in Workers, WorkerTrue(w), GoesOn(w), pc[w] \in {"rollback", "again"},
         UNCHANGED <<draw, stored, collided>>, TxnTrue(w)'
  PROVE  WorkerTrue(w)'
  <1>1. /\ unit'[w].access = unit[w].access /\ unit'[w].email = unit[w].email
        /\ unit'[w].outcome = unit[w].outcome /\ unit[w].outcome # "created"
        /\ pc'[w] \in {"begin", "idle"}
        /\ \/ unit'[w].attempt = unit[w].attempt
           \/ pc[w] = "again" /\ unit'[w].attempt = unit[w].attempt + 1
    BY GoesOnEffect, Zenon DEF WorkerTrue, RunTrue
  <1>2. RunTrue(w)' /\ PendTrue(w)' /\ AnswerTrue(w)'
    BY <1>1, Zenon DEF WorkerTrue, RunTrue, PendTrue, AnswerTrue, SameAddress, Statements
  <1>3. CountTrue(w)'
    BY <1>1, OwnTypes DEF WorkerTrue, CountTrue
  <1> QED
    BY <1>2, <1>3, Zenon DEF WorkerTrue

LEMMA EndsTrue ==
  ASSUME TypeOK, NEW w \in Workers, WorkerTrue(w), UNCHANGED kind,
         EndRead(w) \/ RollBack(w) \/ RollBackStuck(w) \/ Commit(w) \/ CommitFails(w) \/ CommitBusy(w)
  PROVE  WorkerTrue(w)'
  <1>1. CASE EndRead(w)
    <2>1. /\ pc[w] \in {"rollback", "again"} /\ unit[w].access = "read" /\ GoesOn(w)
          /\ UNCHANGED <<draw, stored, collided, table, link, known, txn, pend, critical>>
      BY <1>1, Zenon DEF EndRead, WorkerTrue, RunTrue, Ends, connVars
    <2>2. unit'[w].access = "read" /\ pc'[w] \in {"begin", "idle"}
      BY <2>1, GoesOnEffect, Zenon
    <2>3. TxnTrue(w)'
      BY <2>1, <2>2, Zenon DEF WorkerTrue, TxnTrue, Statements
    <2> QED
      BY <2>1, <2>3, GoesOnTrue, Zenon
  <1>2. CASE RollBack(w)
    <2>1. /\ pc[w] \in {"rollback", "again"} /\ GoesOn(w)
          /\ UNCHANGED <<draw, stored, collided, critical>>
      BY <1>2, Zenon DEF RollBack, WorkerTrue, RunTrue, Ends
    <2>2. pc'[w] \in {"begin", "idle"}
      BY <2>1, GoesOnEffect, Zenon
    <2>3. TxnTrue(w)'
      <3>1. CASE link[w] = "ok"
        <4>1. txn'[w] = "none" /\ pend'[w] = {} /\ UNCHANGED <<table, link, known>>
          BY <1>2, <3>1, SessionEffect, Zenon DEF RollBack
        <4> QED
          BY <2>2, <4>1, <3>1, Zenon DEF WorkerTrue, TxnTrue, Statements
      <3>2. CASE link[w] # "ok"
        <4>1. \/ link'[w] = "ok" /\ txn'[w] = "none" /\ pend'[w] = {} /\ known'[w] = {}
              \/ /\ link'[w] = "bad" /\ txn'[w] = txn[w] /\ pend'[w] = pend[w]
                 /\ known'[w] = known[w] /\ table'[w] = table[w]
          BY <1>2, <3>2, SessionEffect, Zenon DEF RollBack
        <4> QED
          BY <2>2, <3>2, <4>1, Zenon DEF WorkerTrue, TxnTrue, Statements
      <3> QED
        BY <3>1, <3>2, Zenon
    <2> QED
      BY <2>1, <2>3, GoesOnTrue, Zenon
  <1>3. CASE RollBackStuck(w)
    <2>1. /\ Return(w, "refused") /\ critical'
          /\ UNCHANGED <<draw, table, link, known, txn, pend, stored, collided>>
      BY <1>3, Zenon DEF RollBackStuck, StopsTheProcess, connVars
    <2>2. TxnTrue(w)'
      BY <2>1, ReturnEffect, Zenon DEF WorkerTrue, TxnTrue, Statements
    <2> QED
      BY <2>1, <2>2, ReturnTrue, Zenon
  <1>4. CASE Commit(w)
    <2>1. /\ pc[w] = "commit" /\ link[w] = "ok" /\ stored' = stored \union pend[w] /\ Return(w, "ok")
          /\ txn'[w] = "none" /\ pend'[w] = {} /\ UNCHANGED <<draw, table, link, known, critical, collided>>
      BY <1>4, SessionEffect, Zenon DEF Commit
    <2>2. TxnTrue(w)'
      BY <2>1, ReturnEffect, Zenon DEF WorkerTrue, TxnTrue, Statements
    <2>3. pend[w] = {UserRow(w), ContactRow(w), MainRow(w)}
      BY <2>1, Zenon DEF WorkerTrue, TxnTrue, PendTrue
    <2> QED
      BY <2>1, <2>2, <2>3, ReturnTrue, Zenon
  <1>5. CASE CommitFails(w)
    <2>1. /\ stored \subseteq stored' /\ UNCHANGED <<draw, table, critical, collided>>
          /\ \/ txn'[w] = "none" /\ pend'[w] = {} /\ UNCHANGED <<known, link>>
             \/ link[w] # "ok" /\ link'[w] = "bad" /\ UNCHANGED <<known, txn, pend>>
             \/ txn'[w] = "none" /\ pend'[w] = {} /\ known'[w] = {}
      <3>1. UNCHANGED <<draw, table, critical, collided>>
        BY <1>5, Zenon DEF CommitFails
      <3>2. CASE EndsTransaction(w) /\ UNCHANGED <<known, link, stored>>
        BY <3>1, <3>2, SessionEffect, Zenon
      <3>3. CASE /\ link[w] # "ok" /\ link' = [link EXCEPT ![w] = "bad"]
                 /\ UNCHANGED <<known, txn, pend, stored>>
        BY <3>1, <3>3, Zenon DEF TypeOK
      <3>4. CASE stored' = stored \union pend[w] /\ SessionEnds(w)
        BY <3>1, <3>4, SessionEffect, Zenon
      <3> QED
        BY <1>5, <3>2, <3>3, <3>4, Zenon DEF CommitFails
    <2>2. PICK s \in {"network", "refused"} : Return(w, s)
      BY <1>5, Zenon DEF CommitFails, CommitStatus
    <2>3. TxnTrue(w)'
      BY <2>1, <2>2, ReturnEffect, Zenon DEF WorkerTrue, TxnTrue, Statements
    <2> QED
      BY <2>1, <2>2, <2>3, ReturnTrue, Zenon
  <1>6. CASE CommitBusy(w)
    <2>1. /\ Return(w, "refused") /\ kind = "journal"
          /\ UNCHANGED <<draw, table, link, known, txn, pend, stored, critical, collided>>
      BY <1>6, Zenon DEF CommitBusy, CommitStatus, connVars
    <2>2. TxnTrue(w)'
      BY <2>1, ReturnEffect, Zenon DEF WorkerTrue, TxnTrue, Statements
    <2> QED
      BY <2>1, <2>2, ReturnTrue, Zenon
  <1> QED
    BY <1>1, <1>2, <1>3, <1>4, <1>5, <1>6, Zenon

-----------------------------------------------------------------------------
(* What is written clashes with nothing, so what is committed fits.          *)

LEMMA ClashIsMutual ==
  ASSUME NEW r, NEW s
  PROVE  Clash(r, s) => Clash(s, r)
  BY Zenon DEF Clash

\* Every step but a write and a commit only takes pending rows away.
LEMMA RowsOfAStep ==
  ASSUME TypeOK, NEW w \in Workers, WorkerTrue(w), Acts(w)
  PROVE  \/ stored' = stored /\ pend'[w] \subseteq pend[w]
         \/ /\ stored' = stored /\ ~Waits(w) /\ pend'[w] = pend[w] \union {UserRow(w)}
            /\ pc[w] = "insert_user" /\ ~SameValue(w, Visible(w))
         \/ /\ stored' = stored /\ ~Waits(w) /\ pend'[w] = pend[w] \union {ContactRow(w)}
            /\ pc[w] = "insert_contact" /\ ~SameValue(w, Visible(w)) /\ ~SameAddress(w, Visible(w))
         \/ stored' = stored /\ pend'[w] = pend[w] \union {MainRow(w)}
         \/ /\ stored' = stored \union pend[w] /\ pend'[w] = {}
            /\ pend[w] = {UserRow(w), ContactRow(w), MainRow(w)}
  <1>1. CASE Submit(w) \/ LoseLink(w) \/ Discard(w)
    BY <1>1, SessionEffect, Zenon DEF Submit, Take, LoseLink, Discard, connVars
  <1>2. CASE Usable(w) \/ Revive(w) \/ BeginRead(w) \/ BeginWrite(w) \/ BeginFails(w)
    BY <1>2, SessionEffect, Zenon DEF Usable, Revive, BeginRead, BeginWrite, BeginFails, connVars
  <1>3. CASE Prepare(w) \/ UnknownStatement(w) \/ StatementUnanswered(w)
    BY <1>3, SessionEffect, Zenon DEF Prepare, UnknownStatement, StatementUnanswered
  <1>4. CASE StatementRefused(w)
    BY <1>4, SessionEffect, Zenon DEF StatementRefused, TypeOK
  <1>5. CASE Execute(w)
    <2>1. Runs(w) /\ ~Waits(w) /\ (pc[w] # "find" => txn[w] = "open")
      BY <1>5, ExecuteEffect, Zenon
    <2>2. CASE pc[w] \in {"find", "owner_of"}
      BY <2>1, <2>2, Zenon DEF Runs
    <2>3. CASE pc[w] = "insert_user"
      BY <2>1, <2>3, WritesEffect, SessionEffect, Zenon DEF Runs
    <2>4. CASE pc[w] = "insert_contact"
      BY <2>1, <2>4, WritesEffect, SessionEffect, Zenon DEF Runs
    <2>5. CASE pc[w] = "set_main"
      BY <2>1, <2>5, WritesEffect, Zenon DEF Runs
    <2> QED
      BY <2>1, <2>2, <2>3, <2>4, <2>5, Zenon DEF Runs
  <1>6. CASE EndRead(w) \/ RollBack(w) \/ RollBackStuck(w) \/ CommitBusy(w)
    BY <1>6, SessionEffect, Zenon DEF EndRead, RollBack, RollBackStuck, CommitBusy, connVars
  <1>7. CASE Commit(w)
    BY <1>7, SessionEffect, Zenon DEF Commit, WorkerTrue, TxnTrue, PendTrue
  <1>8. CASE CommitFails(w)
    <2>1. CASE stored' = stored /\ (EndsTransaction(w) \/ UNCHANGED pend)
      BY <2>1, SessionEffect, Zenon
    <2>2. CASE pc[w] = "commit" /\ link[w] = "ok" /\ stored' = stored \union pend[w] /\ SessionEnds(w)
      BY <2>2, SessionEffect, Zenon DEF WorkerTrue, TxnTrue, PendTrue
    <2> QED
      BY <1>8, <2>1, <2>2, Zenon DEF CommitFails
  <1> QED
    BY <1>1, <1>2, <1>3, <1>4, <1>5, <1>6, <1>7, <1>8, Zenon DEF Acts, Work

\* A row no unique index objects to joins the pending ones.
LEMMA NoClashWith ==
  ASSUME NoClash, NEW w \in Workers, NEW r, pend'[w] = pend[w] \union {r}, stored' = stored,
         \A v \in Workers \ {w} : pend'[v] = pend[v],
         \A s \in stored \union Others(w) : ~Clash(r, s)
  PROVE  NoClash'
  <1>1. \A v \in Workers \ {w} : \A s \in pend[v] : ~Clash(r, s) /\ ~Clash(s, r)
    BY ClashIsMutual, Zenon DEF Others
  <1> SUFFICES ASSUME NEW v \in Workers, NEW x \in pend'[v]
               PROVE  /\ \A s \in stored : ~Clash(x, s)
                      /\ \A y \in Workers \ {v} : \A s \in pend'[y] : ~Clash(x, s)
    BY Zenon DEF NoClash
  <1>2. CASE v = w /\ x = r
    BY <1>1, <1>2, Zenon
  <1>3. CASE v = w /\ x \in pend[w]
    BY <1>3, Zenon DEF NoClash
  <1>4. CASE v # w
    BY <1>1, <1>4 DEF NoClash
  <1> QED
    BY <1>2, <1>3, <1>4, Zenon

LEMMA NoClashStep ==
  ASSUME TypeOK, TransactionInv, NEW w \in Workers, Acts(w)
  PROVE  NoClash' /\ WholeAccounts'
  <1>0. /\ NoClash /\ WholeAccounts /\ WorkerTrue(w)
        /\ \A v \in Workers \ {w} : pend'[v] = pend[v]
    BY OthersStay, Zenon DEF TransactionInv, Mine
  <1>1. CASE stored' = stored /\ pend'[w] \subseteq pend[w]
    <2>1. \A v \in Workers : pend'[v] \subseteq pend[v]
      BY <1>0, <1>1
    <2> QED
      BY <1>0, <1>1, <2>1, Zenon DEF NoClash, WholeAccounts
  <1>2. CASE /\ stored' = stored /\ ~Waits(w) /\ pend'[w] = pend[w] \union {UserRow(w)}
             /\ pc[w] = "insert_user" /\ ~SameValue(w, Visible(w))
    <2>1. UserRow(w) \notin stored \union Others(w) /\ UserRow(w).table = "user"
      BY <1>2, Zenon DEF Waits, SameValue, Visible, UserRow
    <2>2. \A s \in stored \union Others(w) : ~Clash(UserRow(w), s)
      BY <2>1, Zenon DEF Clash
    <2> QED
      BY <1>0, <1>2, <2>2, NoClashWith, Zenon DEF WholeAccounts
  <1>3. CASE /\ stored' = stored /\ ~Waits(w) /\ pend'[w] = pend[w] \union {ContactRow(w)}
             /\ pc[w] = "insert_contact" /\ ~SameValue(w, Visible(w)) /\ ~SameAddress(w, Visible(w))
    <2>1. \A s \in stored \union Others(w) :
            s.table = "contact" => s.email # unit[w].email /\ s.code # draw[w].code
      BY <1>3, Zenon DEF Waits, SameValue, SameAddress, Visible
    <2>2. /\ ContactRow(w).table = "contact" /\ ContactRow(w).email = unit[w].email
          /\ ContactRow(w).code = draw[w].code
      BY Zenon DEF ContactRow
    <2>3. \A s \in stored \union Others(w) : ~Clash(ContactRow(w), s)
      BY <2>1, <2>2, Zenon DEF Clash
    <2> QED
      BY <1>0, <1>3, <2>3, NoClashWith, Zenon DEF WholeAccounts
  <1>4. CASE stored' = stored /\ pend'[w] = pend[w] \union {MainRow(w)}
    <2>1. MainRow(w).table = "main"
      BY Zenon DEF MainRow
    <2>2. \A s \in stored \union Others(w) : ~Clash(MainRow(w), s)
      BY <2>1, Zenon DEF Clash
    <2> QED
      BY <1>0, <1>4, <2>2, NoClashWith, Zenon DEF WholeAccounts
  <1>5. CASE /\ stored' = stored \union pend[w] /\ pend'[w] = {}
             /\ pend[w] = {UserRow(w), ContactRow(w), MainRow(w)}
    <2>1. NoClash'
      <3> SUFFICES ASSUME NEW v \in Workers, NEW x \in pend'[v]
                   PROVE  /\ \A s \in stored' : ~Clash(x, s)
                          /\ \A y \in Workers \ {v} : \A s \in pend'[y] : ~Clash(x, s)
        BY Zenon DEF NoClash
      <3>1. v # w /\ x \in pend[v]
        BY <1>0, <1>5, Zenon
      <3> QED
        BY <1>0, <1>5, <3>1, Zenon DEF NoClash
    <2> DEFINE u == UserRow(w)
               c == ContactRow(w)
               m == MainRow(w)
               d == draw[w].id
    <2>2. /\ u = [table |-> "user", id |-> d] /\ m = [table |-> "main", id |-> d]
          /\ u.id = d /\ m.id = d /\ c.id = d
          /\ u.table = "user" /\ c.table = "contact" /\ m.table = "main"
      BY Zenon DEF UserRow, ContactRow, MainRow
    <2>3. \A s \in stored : ~Clash(u, s) /\ ~Clash(c, s)
      BY <1>0, <1>5, Zenon DEF NoClash
    <2>4. u \notin stored
      BY <2>2, <2>3, Zenon DEF Clash
    <2>5. \A s \in stored : s.id # d
      <3> SUFFICES ASSUME NEW s \in stored, s.id = d PROVE FALSE
        BY Zenon
      <3>1. [table |-> "user", id |-> s.id] \in stored
        BY <1>0, Zenon DEF WholeAccounts
      <3> QED
        BY <2>2, <2>4, <3>1, Zenon
    <2>6. \A s \in stored : s.table = "contact" => s.email # c.email /\ s.code # c.code
      BY <2>2, <2>3, Zenon DEF Clash
    <2> HIDE DEF u, c, m, d
    <2>7. stored' = stored \union {u, c, m}
      BY <1>5, Zenon DEF u, c, m
    <2>8. ASSUME NEW r \in stored'
          PROVE  /\ \E x \in stored' : x.table = "contact" /\ x.id = r.id
                 /\ \A t \in {"user", "main"} : [table |-> t, id |-> r.id] \in stored'
      <3>1. CASE r \in stored
        BY <1>0, <2>7, <3>1, Zenon DEF WholeAccounts
      <3>2. CASE r \in {u, c, m}
        BY <2>2, <2>7, <3>2, Zenon
      <3> QED
        BY <2>7, <2>8, <3>1, <3>2, Zenon
    <2>9. ASSUME NEW r \in stored', NEW x \in stored', r.table = "contact", x.table = "contact",
                 r.id = x.id \/ r.email = x.email \/ r.code = x.code
          PROVE  r = x
      <3>1. r \in stored \union {c} /\ x \in stored \union {c}
        BY <2>2, <2>7, <2>9, Zenon
      <3>2. CASE r \in stored /\ x \in stored
        BY <1>0, <2>9, <3>2, Zenon DEF WholeAccounts
      <3> QED
        BY <2>2, <2>5, <2>6, <2>9, <3>1, <3>2, Zenon
    <2>10. WholeAccounts'
      BY <2>8, <2>9, Zenon DEF WholeAccounts
    <2> QED
      BY <2>1, <2>10, Zenon
  <1> QED
    BY <1>0, <1>1, <1>2, <1>3, <1>4, <1>5, RowsOfAStep, Zenon

-----------------------------------------------------------------------------

LEMMA InvInit == Init => TransactionInv
  <1> SUFFICES ASSUME Init PROVE TransactionInv
    BY Zenon
  <1>1. NoClash /\ WholeAccounts /\ ~critical
    BY Zenon DEF Init, NoClash, WholeAccounts
  <1> SUFFICES ASSUME NEW w \in Workers PROVE WorkerTrue(w)
    BY <1>1, Zenon DEF TransactionInv
  <1>2. /\ pc[w] = "idle" /\ unit[w].outcome = "pending" /\ unit[w].attempt = 1 /\ collided[w] = 0
        /\ known[w] = {} /\ txn[w] = "none" /\ pend[w] = {} /\ link[w] = "ok"
    BY Zenon DEF Init, NewUnit
  <1> QED
    BY <1>2, LimitsAssumption
    DEF WorkerTrue, RunTrue, CountTrue, TxnTrue, PendTrue, AnswerTrue, Statements

LEMMA InvStep ==
  ASSUME TypeOK, TransactionInv, [Next]_vars
  PROVE  TransactionInv'
  <1>1. CASE UNCHANGED vars
    <2>1. \A w \in Workers : Mine(w)' = Mine(w)
      BY <1>1, Zenon DEF vars, connVars, Mine
    <2>2. \A w \in Workers : WorkerTrue(w)'
      BY <1>1, <2>1, OthersTrue, Zenon DEF vars, TransactionInv
    <2> QED
      BY <1>1, <2>2, Zenon DEF vars, connVars, TransactionInv, NoClash, WholeAccounts, Postgres
  <1>2. ASSUME NEW w \in Workers, Acts(w)
        PROVE  TransactionInv'
    <2>1. WorkerTrue(w) /\ (Postgres => ~critical) /\ UNCHANGED kind
      BY <1>2, Zenon DEF TransactionInv, Acts
    <2>2. WorkerTrue(w)'
      BY <1>2, <2>1, LossesTrue, SubmitTrue, UsableTrue, BeginTrue, StatementTrue, ExecuteTrue,
         EndsTrue, Zenon DEF Acts, Work
    <2>3. stored \subseteq stored'
      BY <1>2, <2>1, RowsOfAStep, Zenon
    <2>4. critical' = critical \/ (~Postgres /\ critical')
      BY <1>2, Zenon
      DEF Acts, Submit, Take, LoseLink, Discard, Work, Usable, Revive, BeginRead, BeginWrite,
          BeginFails, Prepare, UnknownStatement, StatementUnanswered, StatementRefused, Execute,
          EndRead, RollBack, RollBackStuck, StopsTheProcess, Commit, CommitFails, CommitBusy
    <2>5. \A v \in Workers : WorkerTrue(v)'
      <3> SUFFICES ASSUME NEW v \in Workers, v # w PROVE WorkerTrue(v)'
        BY <2>2, Zenon
      <3>1. Mine(v)' = Mine(v) /\ WorkerTrue(v)
        BY <1>2, OthersStay, Zenon DEF TransactionInv
      <3> QED
        BY <2>1, <2>3, <2>4, <3>1, OthersTrue
    <2> QED
      BY <1>2, <2>1, <2>4, <2>5, NoClashStep DEF TransactionInv, Postgres
  <1> QED
    BY <1>1, <1>2, Zenon DEF Next, Acts

\* Whatever is lost, refused or left unanswered, and whenever: a connection goes to its next unit
\* with no transaction open and with no name that it could never prepare again.
THEOREM ConnectionsStayUsable == Spec => []StaysUsable
  <1>1. TypeOK /\ TransactionInv => StaysUsable
    BY Zenon DEF TransactionInv, WorkerTrue, TxnTrue, StaysUsable, NothingLeftOpen, NamesTrue
  <1>2. TypeOK /\ TransactionInv /\ [Next]_vars => (TypeOK /\ TransactionInv)'
    BY TypeStep, InvStep, Zenon
  <1> QED
    BY <1>1, <1>2, TypeInit, InvInit, PTL DEF Spec

\* Accounts are stored whole and apart from each other, and what a registration is answered is what
\* the database holds, for any number of connections, addresses and drawn values.
THEOREM RegistrationHolds == Spec => []RegistrationIsTrue
  <1>1. TypeOK /\ TransactionInv => RegistrationIsTrue
    BY Zenon DEF TransactionInv, WorkerTrue, AnswerTrue, CountTrue, RegistrationIsTrue, AnswersAreTrue,
           ExhaustedIsTrue
  <1>2. TypeOK /\ TransactionInv /\ [Next]_vars => (TypeOK /\ TransactionInv)'
    BY TypeStep, InvStep, Zenon
  <1> QED
    BY <1>1, <1>2, TypeInit, InvInit, PTL DEF Spec
=============================================================================
