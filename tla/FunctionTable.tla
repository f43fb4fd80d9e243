--------------------------- MODULE FunctionTable ----------------------------
(***************************************************************************)
(* What a reader of the registry's table may rely on, whatever the write   *)
(* side does: one commit adds one row, or rewrites the health and leases   *)
(* of some rows, or removes some.  A row keeps its name and its mesh, a    *)
(* new row has no lease, and a lease never reaches further than TTL from   *)
(* now.  Registry implements this specification; Resolver reads from it.   *)
(***************************************************************************)
EXTENDS Integers, FiniteSets

CONSTANTS
    Meshes,    \* mesh ids
    Names,     \* function names as registered
    Semantic,  \* semanticize: the canonical name of a name
    Healths,   \* values of the health column
    TTL,       \* longest lease, in ticks
    MaxTime,   \* bound: the clock stops here
    MaxId      \* bound: largest row id

ASSUME TableAssumption ==
    /\ DOMAIN Semantic = Names
    /\ TTL \in Nat /\ MaxTime \in Nat /\ MaxId \in Nat

VARIABLES
    db,        \* table function_records: row id -> row
    now        \* the clock

tableVars == <<db, now>>

Ids == 1..MaxId
NoLease == -1                \* expires_at IS NULL
Unavailable == "unavailable"

TableInit ==
    /\ db = [i \in {} |-> 0]
    /\ now = 0

\* SQLite gives a new row the id 1 + the largest id present, so the id of a
\* deleted last row is given out again.
IsNextId(i) == /\ \A j \in DOMAIN db : j < i
               /\ i = 1 \/ i - 1 \in DOMAIN db

AddRow(i, n, m, h) ==
    /\ IsNextId(i)
    /\ db' = [j \in DOMAIN db \cup {i} |->
                 IF j = i THEN [name |-> n, mesh |-> m, health |-> h, expires |-> NoLease]
                 ELSE db[j]]
    /\ UNCHANGED now

\* The health column is written where the writer read another value.
SetHealth(i, h) ==
    /\ i \in DOMAIN db
    /\ db' = [db EXCEPT ![i].health = h]
    /\ UNCHANGED now

RenewRows(ids, healthIds, h, lease) ==
    /\ db' = [i \in DOMAIN db |->
                 [db[i] EXCEPT !.health = IF i \in healthIds THEN h ELSE @,
                               !.expires = IF i \in ids THEN lease ELSE @]]
    /\ UNCHANGED now

RemoveRows(ids) ==
    /\ db' = [i \in DOMAIN db \ ids |-> db[i]]
    /\ UNCHANGED now

TimePasses ==
    /\ now < MaxTime
    /\ now' = now + 1
    /\ UNCHANGED db

TableNext ==
    \/ \E i \in Ids, n \in Names, m \in Meshes, h \in Healths : AddRow(i, n, m, h)
    \/ \E i \in Ids, h \in Healths : SetHealth(i, h)
    \/ \E ids \in SUBSET DOMAIN db, h \in Healths, lease \in 0..(now + TTL) :
          \E healthIds \in SUBSET ids : RenewRows(ids, healthIds, h, lease)
    \/ \E ids \in SUBSET DOMAIN db : RemoveRows(ids)
    \/ TimePasses

TableSpec == TableInit /\ [][TableNext]_tableVars
=============================================================================
