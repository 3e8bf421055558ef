------------------------- MODULE MigrationContract -------------------------
(***************************************************************************)
(* Which migrations a build carries, read from contracts/migrations:       *)
(* bc_migrations_load of backend-core/src/database/migrations.c and        *)
(* migrations.ts of packages/backend-core.                                 *)
(*                                                                         *)
(* A contract is its index and the files the build embeds.  An entry of    *)
(* the index has a version, a name, and `sql` and `down`, which are TRUE   *)
(* unless the index says otherwise; a version that is no number from 1 on  *)
(* is 0.  A file is named by its migration, its direction and its dialect. *)
(***************************************************************************)
EXTENDS Naturals, Sequences

CONSTANT BC_MIGRATIONS_MAX

Kinds == {"sqlite", "postgresql"}
NotLoaded == [loaded |-> FALSE, list |-> <<>>]
Loaded(list) == [loaded |-> TRUE, list |-> list]
NoFile == <<>>

File(entry, direction, kind) == <<entry.name, direction, kind>>

-----------------------------------------------------------------------------
(* migrations.c: one dialect, the one this process runs with.                *)

\* Whether the up file is there, and the down file of a migration that has one.
embedded(contract, kind, entry) ==
    /\ File(entry, "up", kind) \in contract.files
    /\ entry.down => File(entry, "down", kind) \in contract.files

\* One unusable entry, or one more than there is room for, and nothing is loaded.
bc_migrations_load(contract, kind) ==
    IF \/ Len(contract.entries) > BC_MIGRATIONS_MAX
       \/ \E i \in DOMAIN contract.entries : LET entry == contract.entries[i] IN
            entry.version = 0 \/ ~entry.sql \/ ~embedded(contract, kind, entry)
    THEN NotLoaded
    ELSE Loaded([i \in DOMAIN contract.entries |-> LET entry == contract.entries[i] IN
            [version |-> entry.version, name |-> entry.name, up |-> File(entry, "up", kind),
             down |-> IF entry.down THEN File(entry, "down", kind) ELSE NoFile]])

-----------------------------------------------------------------------------
(* migrations.ts: both dialects, imported by name.                           *)

statements(entry, direction) == [kind \in Kinds |-> File(entry, direction, kind)]
Imported(contract, entry, direction) ==
    \A kind \in Kinds : statements(entry, direction)[kind] \in contract.files

toMigration(entry) ==
    [version |-> entry.version, name |-> entry.name, up |-> statements(entry, "up"),
     down |-> IF entry.down THEN statements(entry, "down") ELSE [kind \in Kinds |-> NoFile]]

MIGRATIONS(contract) ==
    IF \E i \in DOMAIN contract.entries : LET entry == contract.entries[i] IN
           \/ ~entry.sql \/ ~Imported(contract, entry, "up")
           \/ entry.down /\ ~Imported(contract, entry, "down")
    THEN NotLoaded ELSE Loaded([i \in DOMAIN contract.entries |-> toMigration(contract.entries[i])])

-----------------------------------------------------------------------------
\* Both builds carry the same migrations or refuse the contract: all of the index, in its order,
\* never a part of it that would leave a database half way (bc_migrations_load, migrations.ts).
\* The compiled build reads one dialect at a time, and alone refuses a version that is no number
\* and an index with more entries than it has room for.
LoadsAlike(contract) ==
    LET ts == MIGRATIONS(contract)
        fits == Len(contract.entries) <= BC_MIGRATIONS_MAX
                /\ \A i \in DOMAIN contract.entries : contract.entries[i].version # 0
        Of(kind) == Loaded([i \in DOMAIN ts.list |-> [ts.list[i] EXCEPT !.up = @[kind], !.down = @[kind]]])
    IN  /\ ts.loaded => \A kind \in Kinds :
               bc_migrations_load(contract, kind) = IF fits THEN Of(kind) ELSE NotLoaded
        /\ (\A kind \in Kinds : bc_migrations_load(contract, kind).loaded) => ts.loaded
=============================================================================
