------------------------------ MODULE Registry ------------------------------
(***************************************************************************)
(* The write side of the registry (mr-registry/app/main.py, repository.py): *)
(* /register, /heartbeat and DELETE run in threads of a pool, each with a   *)
(* database session of its own; the expiry loop runs on the event loop.     *)
(* A SELECT is one atomic read, a commit one atomic write, and nothing is   *)
(* held in between: every handler is a sequence of such steps, and between  *)
(* two of them any other handler may run.                                   *)
(*                                                                          *)
(* SQLite gives a new row the id 1 + the largest id present, so the id of a *)
(* deleted last row is given out again.  The ORM writes rows back by id and *)
(* only the columns whose value it changed.                                 *)
(*                                                                          *)
(* Abstracted: the descriptive columns; the service name, which a mesh id   *)
(* determines ("Unique id for a mesh instance", models.py line 11); which   *)
(* of several rows of one name is the most recently updated.                *)
(***************************************************************************)
EXTENDS Integers, Sequences, FiniteSets

CONSTANTS
    Threads,     \* threads of the pool that serve requests
    Meshes,      \* mesh ids, one per worker process
    Names,       \* function names as registered
    Semantic,    \* semanticize: the canonical name of a name
    RegLists,    \* the lists of registrations that heartbeats carry
    Healths,     \* health values that requests carry
    Kinds,       \* requests made: "register", "heartbeat", "delete"
    Overlap,     \* may two requests of one mesh be in flight at once?
    TTL,         \* int(heartbeat_interval_s * grace multiplier), in ticks
    MaxTime,     \* bound: the clock stops here
    MaxId,       \* bound: largest row id
    MaxRestarts  \* bound: crashes of the registry process

None == "none"     \* no value in a request

ASSUME RegistryAssumption ==
    /\ DOMAIN Semantic = Names
    /\ RegLists \subseteq Seq(Names)
    /\ None \notin Meshes /\ None \notin Healths
    /\ Overlap \in BOOLEAN
    /\ TTL \in Nat /\ MaxTime \in Nat /\ MaxId \in Nat /\ MaxRestarts \in Nat

VARIABLES
    db,          \* table function_records: row id -> row
    heartbeats,  \* the meshes with an entry in HEARTBEATS
    pc,          \* next step of the handler each thread runs
    req,         \* the request each thread serves
    loaded,      \* the rows its session has read: row id -> health column
    loopPc, loopMeshes, loopRows,   \* the expiry loop
    now,         \* the clock
    alive,       \* the meshes whose worker still sends requests
    restarts,    \* crashes so far
    freed        \* history: row ids that have been deleted at least once

threadVars == <<pc, req, loaded>>
loopVars == <<loopPc, loopMeshes, loopRows>>
envVars == <<now, alive, restarts>>
vars == <<db, heartbeats, threadVars, loopVars, envVars, freed>>

Ids == 1..MaxId
NoLease == -1      \* expires_at IS NULL
Unavailable == "unavailable"

Rows == [name : Names, mesh : Meshes, health : Healths, expires : Int]

Busy(t) == pc[t] # "idle"
Mesh(t) == req[t].mesh

NoRequest == [kind |-> None, mesh |-> None, todo |-> <<>>,
              health |-> None, lease |-> NoLease]
Empty == [i \in {} |-> None]

Init ==
    /\ db = Empty
    /\ heartbeats = {}
    /\ pc = [t \in Threads |-> "idle"]
    /\ req = [t \in Threads |-> NoRequest]
    /\ loaded = [t \in Threads |-> Empty]
    /\ loopPc = "scan" /\ loopMeshes = {} /\ loopRows = {}
    /\ now = 0
    /\ alive = Meshes
    /\ restarts = 0
    /\ freed = {}

----------------------------------------------------------------------------
(* Steps shared by the handlers.                                           *)

Goto(t, step) == pc' = [pc EXCEPT ![t] = step]
Load(t, rows) == loaded' = [loaded EXCEPT ![t] = rows]

\* The handler returns, or an exception ends it; its session is closed.
Finish(t) ==
    /\ Goto(t, "idle")
    /\ req' = [req EXCEPT ![t] = NoRequest]
    /\ Load(t, Empty)

\* The health column is part of an UPDATE only if it differs from the value
\* the session has read.
\* Mutated form: the health of the request is not passed on.
HealthForgotten(t, i) == None
HealthAfter(t, i) ==
    IF req[t].health # loaded[t][i] THEN req[t].health ELSE db[i].health

\* SQLite: the largest id present plus one; MaxId bounds the table.
IsNextId(i) == /\ \A j \in DOMAIN db : j < i
               /\ i = 1 \/ i - 1 \in DOMAIN db

Removed(ids) == [i \in DOMAIN db \ ids |-> db[i]]

----------------------------------------------------------------------------
(* Requests arrive.                                                        *)

MayStart(m) ==
    /\ m \in alive
    /\ Overlap \/ \A t \in Threads : Busy(t) => Mesh(t) # m

Begin(t, r, step) ==
    /\ ~Busy(t)
    /\ Goto(t, step)
    /\ req' = [req EXCEPT ![t] = r]
    /\ UNCHANGED <<db, heartbeats, loaded, loopVars, envVars, freed>>

BeginRegister(t, m, n, h) ==
    /\ "register" \in Kinds /\ MayStart(m)
    /\ Begin(t, [kind |-> "register", mesh |-> m, todo |-> <<n>>,
                 health |-> h, lease |-> NoLease], "reg_read")

\* heartbeat computes expires_at first.  With registrations, each is
\* registered before the health update.  tool_names is passed on and not used.
LeaseFrom(time) == time + TTL
BeginHeartbeat(t, m, regs, h) ==
    /\ "heartbeat" \in Kinds /\ MayStart(m) /\ LeaseFrom(now) < MaxTime
    /\ Begin(t, [kind |-> "heartbeat", mesh |-> m, todo |-> regs,
                 health |-> h, lease |-> LeaseFrom(now)],
             IF regs = <<>> THEN "hb_read" ELSE "reg_read")

BeginDelete(t, n) ==
    /\ "delete" \in Kinds
    /\ Begin(t, [kind |-> "delete", mesh |-> None, todo |-> <<n>>,
                 health |-> None, lease |-> NoLease], "del_read")

----------------------------------------------------------------------------
(* register_or_update, called by /register and for each registration of a  *)
(* heartbeat: SELECT, then INSERT or UPDATE, then refresh.                  *)

\* Mutated form: the lookup goes by the name as given.
MatchesByName(row, n, m) == row.name = n /\ row.mesh = m
Matches(row, n, m) == Semantic[row.name] = Semantic[n] /\ row.mesh = m

RegRead(t) ==
    /\ pc[t] = "reg_read"
    /\ LET found == {i \in DOMAIN db : Matches(db[i], Head(req[t].todo), Mesh(t))} IN
       \/ /\ found = {}
          /\ Load(t, Empty)
       \/ \E i \in found : Load(t, [j \in {i} |-> db[i].health])
    /\ Goto(t, "reg_write")
    /\ UNCHANGED <<db, heartbeats, req, loopVars, envVars, freed>>

Insert(t) ==
    /\ pc[t] = "reg_write"
    /\ DOMAIN loaded[t] = {}
    /\ \E i \in Ids :
          /\ IsNextId(i)
          /\ db' = [j \in DOMAIN db \cup {i} |->
                       IF j = i
                       THEN [name |-> Head(req[t].todo), mesh |-> Mesh(t),
                             health |-> req[t].health, expires |-> NoLease]
                       ELSE db[j]]
          /\ Load(t, [j \in {i} |-> req[t].health])
    /\ Goto(t, "reg_refresh")
    /\ UNCHANGED <<heartbeats, req, loopVars, envVars, freed>>

\* name and expires_at are not assigned.  Mutated forms: the name is, the
\* lease is reset.
ReregisteredRenamed(t, i) == [db[i] EXCEPT !.health = HealthAfter(t, i),
                                           !.name = Head(req[t].todo)]
ReregisteredAfresh(t, i) == [db[i] EXCEPT !.health = HealthAfter(t, i),
                                          !.expires = NoLease]
Reregistered(t, i) == [db[i] EXCEPT !.health = HealthAfter(t, i)]

\* updated_at changes, so there always is an UPDATE to fail or to succeed.
Update(t) ==
    /\ pc[t] = "reg_write"
    /\ \E i \in DOMAIN loaded[t] :
          /\ i \in DOMAIN db
          /\ db' = [db EXCEPT ![i] = Reregistered(t, i)]
    /\ Goto(t, "reg_refresh")
    /\ UNCHANGED <<heartbeats, req, loaded, loopVars, envVars, freed>>

\* UPDATE or refresh of a row that has gone raises: the request fails, what
\* it committed before stays.
RegFails(t) ==
    /\ pc[t] \in {"reg_write", "reg_refresh"}
    /\ \E i \in DOMAIN loaded[t] : i \notin DOMAIN db
    /\ Finish(t)
    /\ UNCHANGED <<db, heartbeats, loopVars, envVars, freed>>

\* refresh succeeds: the next registration, the health update or the answer.
RegNext(t) ==
    /\ pc[t] = "reg_refresh"
    /\ DOMAIN loaded[t] \subseteq DOMAIN db
    /\ \/ /\ req[t].kind = "register"
          /\ Finish(t)
       \/ /\ req[t].kind = "heartbeat"
          /\ req' = [req EXCEPT ![t].todo = Tail(@)]
          /\ Goto(t, IF Len(req[t].todo) > 1 THEN "reg_read" ELSE "hb_read")
          /\ Load(t, Empty)
    /\ UNCHANGED <<db, heartbeats, loopVars, envVars, freed>>

----------------------------------------------------------------------------
(* update_health_for_service, then the entry in HEARTBEATS.                *)

\* The tool names are an argument of the code too; it does not use them.
\* Mutated form: the rows of all meshes of the service are selected.
MineByService(t) == DOMAIN db
Mine(t) == {i \in DOMAIN db : db[i].mesh = Mesh(t)}

HbRead(t) ==
    /\ pc[t] = "hb_read"
    /\ Load(t, [i \in Mine(t) |-> db[i].health])
    /\ Goto(t, "hb_write")
    /\ UNCHANGED <<db, heartbeats, req, loopVars, envVars, freed>>

\* Mutated form: the health is written, the lease is not.
RenewedHealthOnly(t, i) == [db[i] EXCEPT !.health = HealthAfter(t, i)]
Renewed(t, i) == [db[i] EXCEPT !.health = HealthAfter(t, i),
                               !.expires = req[t].lease]

HbWrite(t) ==
    /\ pc[t] = "hb_write"
    /\ DOMAIN loaded[t] \subseteq DOMAIN db
    /\ db' = [i \in DOMAIN db |->
                 IF i \in DOMAIN loaded[t] THEN Renewed(t, i) ELSE db[i]]
    /\ Goto(t, "hb_note")
    /\ UNCHANGED <<heartbeats, req, loaded, loopVars, envVars, freed>>

\* One vanished row fails the whole commit.
HbFails(t) ==
    /\ pc[t] = "hb_write"
    /\ ~(DOMAIN loaded[t] \subseteq DOMAIN db)
    /\ Finish(t)
    /\ UNCHANGED <<db, heartbeats, loopVars, envVars, freed>>

HbNote(t) ==
    /\ pc[t] = "hb_note"
    /\ heartbeats' = heartbeats \cup {Mesh(t)}
    /\ Finish(t)
    /\ UNCHANGED <<db, loopVars, envVars, freed>>

----------------------------------------------------------------------------
(* DELETE /functions/{name}: one row with this name, read then removed.     *)

DelRead(t) ==
    /\ pc[t] = "del_read"
    /\ LET found == {i \in DOMAIN db : db[i].name = Head(req[t].todo)} IN
       \/ /\ found = {}                  \* 404
          /\ Finish(t)
       \/ \E i \in found :
             /\ Load(t, [j \in {i} |-> db[i].health])
             /\ Goto(t, "del_write")
             /\ UNCHANGED req
    /\ UNCHANGED <<db, heartbeats, loopVars, envVars, freed>>

\* Deleting a row that has gone is no error.
DelWrite(t) ==
    /\ pc[t] = "del_write"
    /\ db' = Removed(DOMAIN loaded[t])
    /\ freed' = freed \cup (DOMAIN loaded[t] \cap DOMAIN db)
    /\ Finish(t)
    /\ UNCHANGED <<heartbeats, loopVars, envVars>>

----------------------------------------------------------------------------
(* The expiry loop: expire_services, then HEARTBEATS.pop.                   *)

LeaseOver(row) == row.expires # NoLease /\ row.expires < now
Due(row) == row.health = Unavailable \/ LeaseOver(row)
\* Mutated form: the loop looks at the meshes in HEARTBEATS only.
DueTrackedMeshes == {db[i].mesh : i \in {j \in DOMAIN db : Due(db[j])}} \cap heartbeats
DueMeshes == {db[i].mesh : i \in {j \in DOMAIN db : Due(db[j])}}

\* The SELECT for the log (get_expired_records) is one with that of
\* expire_services: it is the same session, in which a row keeps the lease it was
\* first read with, and a mesh that only the second one finds due is taken by the
\* next round.
LoopScan ==
    /\ loopPc = "scan"
    /\ loopMeshes' = DueMeshes
    /\ loopPc' = IF DueMeshes = {} THEN "scan" ELSE "select"
    /\ UNCHANGED <<db, heartbeats, threadVars, loopRows, envVars, freed>>

\* Mutated form: every row with a lease is taken, whatever its mesh.
InScopeAll(row) == row.mesh \in loopMeshes \/ row.expires # NoLease
InScope(row) == row.mesh \in loopMeshes

LoopSelect ==
    /\ loopPc = "select"
    /\ loopRows' = {i \in DOMAIN db : InScope(db[i])}
    /\ loopPc' = "delete"
    /\ UNCHANGED <<db, heartbeats, threadVars, loopMeshes, envVars, freed>>

LoopDelete ==
    /\ loopPc = "delete"
    /\ db' = Removed(loopRows)
    /\ freed' = freed \cup (loopRows \cap DOMAIN db)
    /\ loopPc' = "pop"
    /\ UNCHANGED <<heartbeats, threadVars, loopMeshes, loopRows, envVars>>

LoopPop ==
    /\ loopPc = "pop"
    /\ heartbeats' = heartbeats \ loopMeshes
    /\ loopPc' = "scan" /\ loopMeshes' = {} /\ loopRows' = {}
    /\ UNCHANGED <<db, threadVars, envVars, freed>>

----------------------------------------------------------------------------
(* The clock, workers that stop, and crashes of the registry.               *)

Tick ==
    /\ now < MaxTime
    /\ now' = now + 1
    /\ UNCHANGED <<db, heartbeats, threadVars, loopVars, alive, restarts, freed>>

WorkerStops(m) ==
    /\ m \in alive
    /\ alive' = alive \ {m}
    /\ UNCHANGED <<db, heartbeats, threadVars, loopVars, now, restarts, freed>>

\* The database file survives; HEARTBEATS and the handlers do not.
Restart ==
    /\ restarts < MaxRestarts
    /\ restarts' = restarts + 1
    /\ heartbeats' = {}
    /\ pc' = [t \in Threads |-> "idle"]
    /\ req' = [t \in Threads |-> NoRequest]
    /\ loaded' = [t \in Threads |-> Empty]
    /\ loopPc' = "scan" /\ loopMeshes' = {} /\ loopRows' = {}
    /\ UNCHANGED <<db, now, alive, freed>>

----------------------------------------------------------------------------
RegStep(t) == RegRead(t) \/ Insert(t) \/ Update(t) \/ RegFails(t) \/ RegNext(t)
HbStep(t) == HbRead(t) \/ HbWrite(t) \/ HbFails(t) \/ HbNote(t)
DelStep(t) == DelRead(t) \/ DelWrite(t)
HandlerStep(t) == RegStep(t) \/ HbStep(t) \/ DelStep(t)
LoopStep == LoopScan \/ LoopSelect \/ LoopDelete \/ LoopPop

BeginSome(t) ==
    \/ \E m \in Meshes, h \in Healths :
          \/ \E n \in Names : BeginRegister(t, m, n, h)
          \/ \E regs \in RegLists : BeginHeartbeat(t, m, regs, h)
    \/ \E n \in Names : BeginDelete(t, n)

Next ==
    \/ \E t \in Threads : BeginSome(t) \/ HandlerStep(t)
    \/ LoopStep
    \/ Tick
    \/ \E m \in Meshes : WorkerStops(m)
    \/ Restart

Spec == Init /\ [][Next]_vars

\* The pool runs its threads, the loop wakes every second, and time passes.
\* Nothing obliges a worker to send a request, or to stop.
Fairness ==
    /\ \A t \in Threads : WF_vars(HandlerStep(t))
    /\ WF_vars(LoopStep)
    /\ WF_vars(Tick)

FairSpec == Spec /\ Fairness

----------------------------------------------------------------------------
Steps == {"idle", "reg_read", "reg_write", "reg_refresh",
          "hb_read", "hb_write", "hb_note", "del_read", "del_write"}

Requests == [kind : {"register", "heartbeat", "delete", None},
             mesh : Meshes \cup {None}, todo : Seq(Names),
             health : Healths \cup {None}, lease : Int]

TypeOK ==
    /\ DOMAIN db \subseteq Ids
    /\ \A i \in DOMAIN db : db[i] \in Rows
    /\ heartbeats \subseteq Meshes
    /\ pc \in [Threads -> Steps]
    /\ req \in [Threads -> Requests]
    /\ DOMAIN loaded = Threads
    /\ \A t \in Threads : DOMAIN loaded[t] \subseteq Ids
    /\ loopPc \in {"scan", "select", "delete", "pop"}
    /\ loopMeshes \subseteq Meshes
    /\ loopRows \subseteq Ids
    /\ now \in 0..MaxTime
    /\ alive \subseteq Meshes
    /\ restarts \in 0..MaxRestarts
    /\ freed \subseteq Ids

\* As long as the requests of one mesh do not overlap, a mesh has one row per
\* canonical name: the SELECT of register_or_update and its INSERT are not
\* atomic, the table has no unique constraint, and another mesh, the expiry
\* loop, DELETE or a crash may come between.
SameKey(r, s) == Semantic[r.name] = Semantic[s.name] /\ r.mesh = s.mesh
OneRowPerKey == \A i, j \in DOMAIN db : SameKey(db[i], db[j]) => i = j

\* A request changes rows of its own mesh only, unless the id of the row was
\* given out before: handlers write rows back by an id they read earlier.
Writes(t) == pc[t] \in {"reg_write", "hb_write"} /\ pc'[t] # pc[t]
OwnRowsOnly ==
    [][ \A i \in DOMAIN db \cap DOMAIN db' :
            db'[i] # db[i] /\ i \notin freed =>
                \E t \in Threads : Writes(t) /\ Mesh(t) = db[i].mesh ]_vars

\* The expiry loop takes no row of a mesh it did not find due, unless the id
\* was given out before, though registrations go on between its two SELECTs
\* and its DELETE.
LoopSparesOthers ==
    [][ loopPc = "delete" /\ loopPc' = "pop" =>
            \A i \in DOMAIN db \ DOMAIN db' :
                i \in freed \/ db[i].mesh \in loopMeshes ]_vars

\* As long as the requests of one mesh do not overlap, the lease of a row is
\* never shortened, unless the id was given out before.
LeasesGrow ==
    [][ \A i \in DOMAIN db \cap DOMAIN db' :
            i \in freed \/ db'[i].expires >= db[i].expires ]_vars

\* A row that a heartbeat has inserted has no lease yet, but it will have one:
\* a handler of its mesh is on its way to the commit that gives it.  The lease
\* is given up only if a handler of the mesh fails or the registry crashes,
\* however many functions a heartbeat carries and whoever else writes.
WillRenew(t, i) ==
    /\ req[t].kind = "heartbeat"
    /\ Mesh(t) = db[i].mesh
    /\ pc[t] = "hb_write" => i \in DOMAIN loaded[t]
    /\ pc[t] # "hb_note"
LeaseComes(i) == db[i].expires # NoLease \/ \E t \in Threads : WillRenew(t, i)
HandlerFails(m) ==
    \E t \in Threads :
        /\ req[t].kind = "heartbeat" /\ Mesh(t) = m
        /\ pc[t] \in {"reg_write", "reg_refresh", "hb_write"} /\ pc'[t] = "idle"
RegisterInserts(m) ==
    \E t \in Threads : req[t].kind = "register" /\ Mesh(t) = m /\ Writes(t)
LeasesAreGiven ==
    [][ \A i \in DOMAIN db' :
            \/ LeaseComes(i)'
            \/ i \in DOMAIN db /\ ~LeaseComes(i)
            \/ HandlerFails(db'[i].mesh) \/ RegisterInserts(db'[i].mesh)
            \/ restarts' # restarts ]_vars

\* The handlers, the loop and the crashes together do to the table what
\* FunctionTable lets its readers rely on: rows come one by one and without a
\* lease, keep their name and mesh, and have no lease beyond TTL from now.
Table == INSTANCE FunctionTable
ImplementsTable == Table!TableSpec

\* A row whose lease is over, or that is unavailable, does not stay so: the
\* loop removes it or a heartbeat renews it, whatever else runs.
DueIsCleared ==
    \A i \in Ids : i \in DOMAIN db /\ Due(db[i])
                    ~> ~(i \in DOMAIN db /\ Due(db[i]))

\* When the worker of a mesh has stopped, no row of the mesh is left behind,
\* even when its last heartbeat failed half way, unless the registry crashed.
\* It holds when a worker registers one function through its heartbeats and its
\* requests do not overlap: heartbeat commits each new row without a lease and
\* gives it one only in its last commit, which a crash may keep from coming.
DeadMeshIsForgotten ==
    \A m \in Meshes :
        m \notin alive ~> restarts > 0 \/ \A i \in DOMAIN db : db[i].mesh # m

----------------------------------------------------------------------------
(* What the documentation and the tests say, and the code does not do.      *)

RowsChanged == {i \in DOMAIN db \cap DOMAIN db' : db'[i] # db[i]}
HeartbeatCommits(t) == pc[t] = "hb_write" /\ pc'[t] = "hb_note"

\* mr-registry/README.md line 25: a heartbeat updates the functions of its
\* own service.
HeartbeatUpdatesOwnFunctions ==
    [][ \A t \in Threads : HeartbeatCommits(t) =>
            \A i \in RowsChanged : db[i].mesh = Mesh(t) ]_vars

\* PROJECT.md line 161: the loop deletes records whose TTL is exceeded; here
\* with the mesh as the unit, as the tests have it: at the time of the
\* deletion, some record of the mesh is due.
LoopDeletesDueMeshes ==
    [][ loopPc = "delete" /\ loopPc' = "pop" =>
            \A i \in DOMAIN db \ DOMAIN db' :
                \E j \in DOMAIN db : db[j].mesh = db[i].mesh /\ Due(db[j]) ]_vars

\* mr-registry/tests/test_main.py line 77: registering a function that is
\* there already answers "updated", it creates no second row.
RegisteringAgainUpdates ==
    [][ \A i \in DOMAIN db' \ DOMAIN db :
            \A j \in DOMAIN db : ~SameKey(db'[i], db[j]) ]_vars
=============================================================================
