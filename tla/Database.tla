------------------------------ MODULE Database ------------------------------
(***************************************************************************)
(* How the registry opens its database (mr-registry/app/db.py, init_db):   *)
(* it resets, creates and migrates the table, and only then serves.  The   *)
(* process may be killed at any time and started again on what is there.   *)
(*                                                                         *)
(* sqlite3 opens a transaction for INSERT and UPDATE, not for DDL: every   *)
(* ALTER and CREATE TABLE before the copy is committed at once, and the    *)
(* copy, the drop, the rename and the indexes after it are committed       *)
(* together.                                                               *)
(***************************************************************************)
EXTENDS Semantics

CONSTANTS
    Names,       \* function names
    MaxRows,     \* bound: row ids
    MaxCrashes   \* bound: how often the process is killed

ASSUME DatabaseAssumption ==
    /\ \A n \in Names : n \in Seq(Chars)
    /\ MaxRows \in Nat
    /\ MaxCrashes \in Nat

VARIABLES
    pc,           \* where the process is
    table,        \* function_records
    columns,      \* the columns it has of those that were added later
    rows,         \* its rows: id -> row
    leftover,     \* does function_records_new exist?
    copy,         \* what the open transaction has put there
    crashes,      \* kills so far
    interrupted   \* history: one of them fell into a migration

store == <<table, columns, rows, leftover>>
vars == <<pc, store, copy, crashes, interrupted>>

\* The table is absent, has the unique index on name of the first schema, or
\* has the schema of today.
Tables == {"none", "unique", "current"}

\* In the order in which they are added.
AddedColumns == <<"mesh_id", "semantic_name", "heartbeat_interval_s",
                  "last_heartbeat_at", "expires_at">>
AllColumns == {AddedColumns[i] : i \in DOMAIN AddedColumns}

\* mesh_id is NULL, the name of the service, or a worker's own.
Meshes == {"null", "service", "worker"}
NoSemantic == <<>>
Semantic == [n \in Names |-> Semanticize(n)]

NoRows == [i \in {} |-> <<>>]
OldRow(n) == [name |-> n, mesh |-> "null", semantic |-> NoSemantic]

\* A database of the first schema, or none; there, names are unique.
Init ==
    /\ pc = "down"
    /\ columns = {}
    /\ leftover = FALSE
    /\ copy = NoRows
    /\ crashes = 0
    /\ interrupted = FALSE
    /\ \/ table = "none" /\ rows = NoRows
       \/ /\ table = "unique"
          /\ \E ids \in SUBSET (1..MaxRows) : \E old \in [ids -> Names] :
                /\ \A i, j \in ids : old[i] = old[j] => i = j
                /\ rows = [i \in ids |-> OldRow(old[i])]

----------------------------------------------------------------------------
(* init_db, one action per commit.                                         *)

\* MCPRPC_REGISTRY_RESET_DB_ON_START may be set or not.
Start ==
    /\ pc \in {"down", "failed"}
    /\ pc' \in {"reset", "create"}
    /\ UNCHANGED <<store, copy, crashes, interrupted>>

\* drop_all knows function_records only.
DropAll ==
    /\ pc = "reset"
    /\ pc' = "create"
    /\ table' = "none"
    /\ columns' = {}
    /\ rows' = NoRows
    /\ UNCHANGED <<leftover, copy, crashes, interrupted>>

\* The indexes of the columns, each a commit after that of the table, are left
\* out: none is unique, so they bear on no row.
CreateAll ==
    /\ pc = "create"
    /\ pc' = "columns"
    /\ IF table = "none"
       THEN table' = "current" /\ columns' = AllColumns
       ELSE UNCHANGED <<table, columns>>
    /\ UNCHANGED <<rows, leftover, copy, crashes, interrupted>>

AddColumn(i) ==
    /\ pc = "columns"
    /\ AddedColumns[i] \notin columns
    /\ \A j \in 1..(i - 1) : AddedColumns[j] \in columns
    /\ columns' = columns \cup {AddedColumns[i]}
    /\ UNCHANGED <<pc, table, rows, leftover, copy, crashes, interrupted>>

\* Mutated form: a migration that has begun is taken for one that has ended.
IsUnbegun == table = "unique" /\ ~leftover
HasUniqueName == table = "unique"

CheckIndexes ==
    /\ pc = "columns"
    /\ AllColumns \subseteq columns
    /\ pc' = IF HasUniqueName THEN "newtable" ELSE "backfill"
    /\ UNCHANGED <<store, copy, crashes, interrupted>>

\* There is no IF NOT EXISTS: what an interrupted migration has left makes
\* this one fail, and with it the start.
CreateNew ==
    /\ pc = "newtable"
    /\ pc' = IF leftover THEN "failed" ELSE "copy"
    /\ leftover' = TRUE
    /\ UNCHANGED <<table, columns, rows, copy, crashes, interrupted>>

\* Mutated form: only the rows of a mesh are copied.
CopiedRows == {i \in DOMAIN rows : rows[i].mesh # "null"}
RowsToCopy == DOMAIN rows

\* COALESCE(mesh_id, service_name).
Coalesced(row) == IF row.mesh = "null" THEN [row EXCEPT !.mesh = "service"] ELSE row

CopyRows ==
    /\ pc = "copy"
    /\ pc' = "swap"
    /\ copy' = [i \in RowsToCopy |-> Coalesced(rows[i])]
    /\ UNCHANGED <<store, crashes, interrupted>>

\* Mutated form: the new table is not renamed, and the old one stays.
NotRenamed == UNCHANGED <<table, leftover>>
Renamed == table' = "current" /\ leftover' = FALSE

Swap ==
    /\ pc = "swap"
    /\ pc' = "backfill"
    /\ rows' = copy
    /\ Renamed
    /\ copy' = NoRows
    /\ UNCHANGED <<columns, crashes, interrupted>>

Filled(row) ==
    IF row.semantic = NoSemantic THEN [row EXCEPT !.semantic = Semantic[row.name]] ELSE row

Backfill ==
    /\ pc = "backfill"
    /\ pc' = "serving"
    /\ rows' = [i \in DOMAIN rows |-> Filled(rows[i])]
    /\ UNCHANGED <<table, columns, leftover, copy, crashes, interrupted>>

----------------------------------------------------------------------------
(* Serving; what requests do in detail is in Registry.                     *)

InsertRow(i, n) ==
    /\ pc = "serving"
    /\ i \notin DOMAIN rows
    /\ rows' = [j \in DOMAIN rows \cup {i} |->
                   IF j = i THEN [name |-> n, mesh |-> "worker", semantic |-> Semantic[n]]
                   ELSE rows[j]]
    /\ UNCHANGED <<pc, table, columns, leftover, copy, crashes, interrupted>>

RemoveRow(i) ==
    /\ pc = "serving"
    /\ i \in DOMAIN rows
    /\ rows' = [j \in DOMAIN rows \ {i} |-> rows[j]]
    /\ UNCHANGED <<pc, table, columns, leftover, copy, crashes, interrupted>>

Stop ==
    /\ pc = "serving"
    /\ pc' = "down"
    /\ UNCHANGED <<store, copy, crashes, interrupted>>

\* The open transaction is rolled back.
Kill ==
    /\ pc \notin {"down", "failed"}
    /\ crashes < MaxCrashes
    /\ crashes' = crashes + 1
    /\ pc' = "down"
    /\ copy' = NoRows
    /\ interrupted' = (interrupted \/ pc \in {"copy", "swap"})
    /\ UNCHANGED store

StartStep ==
    \/ Start \/ DropAll \/ CreateAll \/ CheckIndexes \/ CreateNew \/ CopyRows \/ Swap \/ Backfill
    \/ \E i \in DOMAIN AddedColumns : AddColumn(i)

Next ==
    \/ StartStep
    \/ \E i \in 1..MaxRows : RemoveRow(i) \/ \E n \in Names : InsertRow(i, n)
    \/ Stop
    \/ Kill

Spec == Init /\ [][Next]_vars

\* A start goes on, and a registry that is down is started again.
FairSpec == Spec /\ WF_vars(StartStep)

----------------------------------------------------------------------------
TypeOK ==
    /\ pc \in {"down", "reset", "create", "columns", "newtable", "copy", "swap",
               "backfill", "serving", "failed"}
    /\ table \in Tables
    /\ columns \subseteq AllColumns
    /\ leftover \in BOOLEAN
    /\ DOMAIN rows \subseteq 1..MaxRows
    /\ DOMAIN copy \subseteq 1..MaxRows
    /\ \A i \in DOMAIN rows : rows[i].name \in Names /\ rows[i].mesh \in Meshes
    /\ pc \in {"newtable", "copy", "swap"} => table = "unique"
    /\ crashes \in 0..MaxCrashes
    /\ interrupted \in BOOLEAN

\* Whatever is there and wherever the process is killed, opening the database
\* keeps every row and its name, but for the reset that was asked for.
RowsSurvive ==
    [][ pc \notin {"reset", "serving"} =>
            \A i \in DOMAIN rows : i \in DOMAIN rows' /\ rows'[i].name = rows[i].name ]_vars

\* A registry that serves has today's schema, a mesh in every row, and the
\* canonical name by which /resolve will ask for it.
ReadyIsMigrated ==
    pc = "serving" =>
        /\ table = "current"
        /\ columns = AllColumns
        /\ \A i \in DOMAIN rows :
              rows[i].mesh # "null" /\ rows[i].semantic = Semantic[rows[i].name]

\* The spellings of one name are one function to the registry, and no other
\* name is: what is stored by one spelling is found by every other one, and by
\* the canonical name itself.
SpellingsMeet ==
    pc = "serving" =>
        \A i, j \in DOMAIN rows :
            /\ Letters(rows[i].name) # {} =>
                 (rows[i].semantic = rows[j].semantic
                    <=> SameWords(rows[i].name, rows[j].name))
            /\ Semanticize(rows[i].semantic) = rows[i].semantic

\* A start fails only on what a kill during a migration has left behind, and
\* then every row is still there: whatever ended well is no obstacle.
FailureIsInterruption ==
    /\ pc = "failed" => interrupted /\ table = "unique"
    /\ leftover => interrupted \/ pc \in {"copy", "swap"}

\* Only a kill during a migration keeps a registry from serving again.
StartsAgain == [](pc # "serving" => <>(pc = "serving" \/ interrupted))
=============================================================================
