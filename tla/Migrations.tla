----------------------------- MODULE Migrations -----------------------------
(***************************************************************************)
(* Bringing a database up to the schema of a build, and one step down:     *)
(* backend-core/src/database/migrations.c and its counterpart              *)
(* packages/backend-core/src/database/migrate/.                            *)
(*                                                                         *)
(* The operators here decide; the module Installation takes the steps they *)
(* decide on.  A step is a pair <<what it does, its argument>>.  A         *)
(* migration is a record [version, name, up, down]: up and down are the    *)
(* statements of its two files, each naming the objects it makes or drops, *)
(* and down is NONE where the contract says "down": false.                 *)
(***************************************************************************)
EXTENDS Naturals, Sequences, SequencesExt

CONSTANTS
    NONE,
    EMPTY_TARGET        \* what DB_MIGRATE_DOWN names when the first migration is undone

Refused(why) == [refused |-> why, steps |-> <<>>]
Goes(steps) == [refused |-> NONE, steps |-> steps]

-----------------------------------------------------------------------------
(* What has been applied, against what the build carries.                    *)

\* The migrations table has version as its primary key, so a row is found by it.
RowOf(m) == [version |-> m.version, name |-> m.name]

\* find_divergence: the first position at which the two stop telling the same story, 0 for none.
find_divergence(applied, carried) ==
    LET Differs(i) == i > Len(carried) \/ RowOf(carried[i]) # applied[i]
        at == {i \in 1..Len(applied) : Differs(i)}
    IN  IF at = {} THEN 0 ELSE CHOOSE i \in at : \A j \in at : i <= j

\* findSchemaDivergence: the same walk, answered as the row where it stops.
findSchemaDivergence(applied, migrations) ==
    LET Known(i) == i <= Len(migrations) /\ migrations[i].version = applied[i].version
                                         /\ migrations[i].name = applied[i].name
    IN  {i \in 1..Len(applied) : ~Known(i) /\ \A j \in 1..(i - 1) : Known(j)}

\* bc_migrations_schema_version
schema_version(carried) ==
    IF carried = <<>> THEN 0
    ELSE LET of == {carried[i].version : i \in 1..Len(carried)}
         IN  CHOOSE v \in of : \A w \in of : w <= v

LastVersion(applied) == IF applied = <<>> THEN 0 ELSE Last(applied).version

-----------------------------------------------------------------------------
(* One migration: its statements and its row in one transaction.             *)

Statements(texts) == [i \in 1..Len(texts) |-> <<"statement", texts[i]>>]

\* A step without an argument.
Do(names) == [i \in 1..Len(names) |-> <<names[i], NONE>>]

\* Mutant: the statements are sent on their own, and the row after them.
applyBare(m, texts, isDown) ==
    Statements(texts) \o <<<<IF isDown THEN "forget" ELSE "record", RowOf(m)>>>>

\* apply of migrations.c: BEGIN, the statements one by one, the row, COMMIT.
apply(m, texts, isDown) ==
    Do(<<"begin">>) \o Statements(texts)
        \o <<<<IF isDown THEN "forget" ELSE "record", RowOf(m)>>>> \o Do(<<"commit">>)

\* apply of runMigrations.ts: the same, in a transaction the driver opens and ends.
applyUp(m) ==
    Do(<<"begin">>) \o Statements(m.up) \o <<<<"record", RowOf(m)>>>> \o Do(<<"commit">>)

-----------------------------------------------------------------------------
(* Up: everything carried above the last applied version.                    *)

Above(carried, from) == SelectSeq(carried, LAMBDA m : m.version > from)

\* Mutant: the applied list is not compared with what the build carries.
bc_migrations_runUnasked(applied, carried) ==
    LET due == Above(carried, LastVersion(applied))
    IN  Goes(FlattenSeq([i \in 1..Len(due) |-> apply(due[i], due[i].up, FALSE)]))

\* bc_migrations_run
bc_migrations_run(applied, carried) ==
    IF find_divergence(applied, carried) # 0 THEN Refused("diverged")
    ELSE LET due == Above(carried, LastVersion(applied))
         IN  Goes(FlattenSeq([i \in 1..Len(due) |-> apply(due[i], due[i].up, FALSE)]))

\* runMigrations
runMigrations(applied, migrations) ==
    IF findSchemaDivergence(applied, migrations) # {} THEN Refused("diverged")
    ELSE LET from == IF applied = <<>> THEN 0 ELSE Last(applied).version
             due == SelectSeq(migrations, LAMBDA m : m.version > from)
         IN  Goes(FlattenSeq([i \in 1..Len(due) |-> applyUp(due[i])]))

-----------------------------------------------------------------------------
(* Down: the migration at the head, and only that one.                       *)

\* One below the head, or the empty target when the head is the first.
Reached(applied, carried) ==
    IF Len(applied) >= 2 THEN carried[Len(applied) - 1].name ELSE EMPTY_TARGET

\* Mutant: the confirmation is not held against what the step reaches.
bc_migrations_downAny(applied, carried, target) ==
    IF find_divergence(applied, carried) # 0 \/ applied = <<>> THEN Refused("nothing to undo")
    ELSE LET head == carried[Len(applied)]
         IN  IF head.down = NONE THEN Refused("no down step")
             ELSE Goes(apply(head, head.down, TRUE))

\* bc_migrations_down; target is NONE where development confirms nothing.
bc_migrations_down(applied, carried, target) ==
    IF find_divergence(applied, carried) # 0 THEN Refused("diverged")
    ELSE IF applied = <<>> THEN Refused("nothing to undo")
    ELSE LET head == carried[Len(applied)]
         IN  IF target \notin {NONE, Reached(applied, carried)} THEN Refused("target")
             ELSE IF head.down = NONE THEN Refused("no down step")
             ELSE Goes(apply(head, head.down, TRUE))

\* migrateDown
migrateDown(applied, migrations, target) ==
    IF findSchemaDivergence(applied, migrations) # {} THEN Refused("diverged")
    ELSE IF Len(applied) = 0 THEN Refused("nothing to undo")
    ELSE LET head == migrations[Len(applied)]
             reached == IF Len(applied) > 1 THEN migrations[Len(applied) - 1].name
                        ELSE EMPTY_TARGET
         IN  IF target # NONE /\ target # reached THEN Refused("target")
             ELSE IF head.down = NONE THEN Refused("no down step")
             ELSE Goes(Do(<<"begin">>) \o Statements(head.down)
                         \o <<<<"forget", RowOf(head)>>>> \o Do(<<"commit">>))
=============================================================================
