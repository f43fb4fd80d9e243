# Verification of mcprpc

TLA+ modules for the mesh of this repository: workers publish functions to a
registry, the router resolves a function by name and calls the tool at the
worker. TLC checks the modules on small instances; TLAPS proves the most
important of their properties for every value of the constants.

Each module is translated from the source. `PROJECT.json` names the lines of
every definition (`map`), the property of every run with a mutation of the code
that breaks it (`mutants`), and the hazards the properties are for.

## 1. The system

### Parts, state and operations

| Part | State | Operations |
|---|---|---|
| Registry, write side (`src/mr-registry/app/main.py`, `repository.py`) | the SQLite table `function_records`, the dictionary `HEARTBEATS`, and what a session has read | `POST /register`, `POST /heartbeat`, `DELETE /functions/{name}`, the expiry loop |
| Registry, resolve side (same files) | `RR_INDEX` under `RR_LOCK`, and what a handler has read | `POST /resolve` |
| Registry, read-only endpoints | none | `GET /functions`, `/heartbeats`, `/services`, `/health` |
| Router, circuit breaker (`src/mr-router/app/resilience.py`) | `_state`, `_failures`, `_half_open_successes`, `_opened_at`, one breaker per endpoint and one for the registry | `call`: `_before_call`, then `on_success` or `on_failure` |
| Router, tool execution (`resilience.py`, `mcp_executor.py`) | the attempt a call is in | `retry_async` around the breaker, `wait_for` around each attempt |
| Router, `/call` (`src/mr-router/app/main.py`, `acl.py`) | the locals of a handler, `STATS_*` under `STATS_LOCK` | resolve, avoid stdio, check roles, execute, and all of it once more when the execution fails |
| Router, registry client (`src/mr-router/app/registry_client.py`) | the attempt a resolution is in, the registry's breaker | `resolve_function`: `retry_async` around the breaker, the timeout inside |
| Registry, set-up (`src/mr-registry/app/db.py`) | the schema and rows of the database file, an open transaction | `init_db`: reset, create, add columns, migrate, backfill |
| Registry, names (`repository.py:12`) | none | `semanticize` |
| Workers, heartbeat (`src/mc-automesh/`, `src/mc-java-automesh/`, `src/mc-node-automesh/`) | a thread, a schedule or a timer; sends under way | `start_heartbeat`, `heartbeatOnce`, `setInterval` |
| Java worker, MCP server (`HttpMcpServer.java`) | the map of SSE sessions, each with a flag, a queue and the thread of its GET | connect, POST of a message, POST of the endpoint, keepalive, `stop` |
| Example supervisor (`src/mc-automesh/example/main.py`) | the list of services with process, module file and modification time, a stop flag | start, respawn of what died, respawn of what was edited, second stamp, stop |
| GUI, proxy, sniffer, scripts | none that the mesh depends on | forwarding, rendering, tracing |

### How they interact

A worker sends `/register` and `/heartbeat` requests over HTTP. The registry
runs each request in a thread of a pool with a database session of its own; the
expiry loop is one more writer of the same table. Each `commit` is atomic, a
handler is not. The router's handlers are coroutines of one event loop: they
interleave only where they await. `/call` awaits `resolve_function`, which asks
`/resolve` of the registry, and `execute_mcp_tool`, which opens a session to the
worker. A breaker is consulted before, and told the outcome after, an await
during which other calls may have changed its mode.

The registry serves only after `init_db`, which may be killed and started again
on what it left. The supervisor starts one Python process per service; a process
that has imported its module starts its heartbeat. The Java worker answers the
router's MCP session from two threads: one that reads POSTs, one that writes the
events of the session.

### What is hard, and what makes each part correct

* **Registry, write side.** SELECT and INSERT are not atomic and no constraint
  makes a key unique; rows are written back by ids read earlier, and SQLite gives
  the id of a deleted last row out again; the expiry loop selects before it
  deletes; a heartbeat commits several times; the process may crash between any
  two steps and keeps the table but not `HEARTBEATS`. Correct means: one row per
  canonical name and mesh, no request or loop touches what belongs to another
  mesh, leases do not go back, what is due goes, what is dead is forgotten.
* **Registry, resolve.** Candidates are read before the lock of the index is
  taken, from a table that changes meanwhile. Correct means: what is available
  throughout is found, replicas take turns, and the index is never used with an
  empty list.
* **Circuit breaker.** Outcomes arrive in a mode other than the one the call was
  admitted in. Correct means: the counters agree with the outcomes, the mode
  changes only when these earn it, an open period lasts, the breaker is probed
  and closes when the dependency is well.
* **Tool execution.** An attempt ends by a result, an error, a cancellation or a
  rejection. Correct means: it enters and leaves the breaker once on every path,
  the number of starts is bounded, an execution ends.
* **`/call`.** The second round works with another reply while the first one is
  still in the handler's locals. Correct means: roles are checked against the acl
  of the endpoint that is used, answers are counted once and for the right mesh,
  the starts of tools are bounded, every call is answered.

* **Registry client.** Correct means, beyond what holds of tool calls: every
  attempt that is lost is counted, timeouts included.
* **Database set-up.** DDL is committed at once, the copy of the rows with the swap
  of the tables; the process may be killed between any two commits. Correct means:
  no row is lost, what serves is migrated, a start ends in serving.
* **Names.** Correct means: the spellings of one name meet in one canonical name,
  other names do not, and a canonical name is its own.
* **Heartbeat.** Sends are slow, lost, or overtaken by the next; the process may
  crash while one is under way. Correct means: while no send is lost the lease
  never runs out, and after losses it is held again.
* **Java sessions.** A response is put into a queue whose session its thread or
  `stop` may be closing; a client may go without a word. Correct means: an accepted
  response reaches a client that stays, and a session whose client has gone goes.
* **Supervisor.** A service may die and be edited within one turn of the loop, its
  file may be away for a while, a record is made after the process it is about has
  begun to import, a start may fail, a process may outlive `_stop_process`, a stop may
  be asked for at any time. Correct means: one process per service, none after the
  stop, and edited code is run, but for what the code itself gives up.

## 2. Modules

| Module | Models | Stands beside |
|---|---|---|
| `CircuitBreaker` | `CircuitBreaker.call` as two atomic segments | `ExecutorProofs` |
| `Registry` | the write side, one step per SELECT or commit | `RegistryProofs`, `MCRegistry` |
| `FunctionTable` | abstract: what a reader of the table may rely on | implemented by `Registry`, used by `Resolver` |
| `Resolver` | `/resolve` over a `FunctionTable` | `ResolverProofs`, `MCResolver` |
| `Discovery` | `Registry` and `Resolver` as one process | `DiscoveryProofs`, `MCDiscovery` |
| `ToolCall` | abstract: what `execute_mcp_tool` promises | implemented by `Executor`, used by `Router` |
| `Executor` | the retry loop around a `CircuitBreaker` | `ExecutorProofs`, `MCExecutor` |
| `RegistryClient` | the retry loop as `resolve_function` and as `execute_mcp_tool` use it | `ExecutorProofs`, `MCRegistryClient` |
| `Router` | `/call` over a `ToolCall` | `RouterProofs`, `MCRouter` |
| `Sessions` | the SSE server of the Java worker | `SessionsProofs`, `MCSessions` |
| `Heartbeat` | the heartbeat and the lease, with time, for the three SDKs | `FleetProofs` |
| `Supervisor` | the supervisor of the example | `FleetProofs` |
| `Fleet` | `Heartbeat` and `Supervisor` together | `FleetProofs`, `MCFleet` |
| `Semantics` | `semanticize`, and what it is for | `DatabaseProofs`, `MCDatabase` |
| `Database` | `init_db`, one step per commit | `DatabaseProofs`, `MCDatabase` |

`RegistryClient` extends `Executor`, `Executor` extends `CircuitBreaker`, `Router`
extends `ToolCall`, and `Fleet` extends `Heartbeat` and `Supervisor`, so a step of the
composed module contains the step of the other. `Registry` and `Executor` are
checked, and proved, to implement `FunctionTable` and `ToolCall`: the two seams at
which the system is cut so that each side can be explored on its own. `Discovery`
closes the first one again: it extends `Registry` and takes the steps of `Resolver`
over the same table and clock.

### CircuitBreaker

`state`, `failures` and `halfOpenSuccesses` are the fields of the class; `openFor`
is the time since `_opened_at`, counted up to `RecoveryTimeout`, since the code
only compares it with that. `Admit`, `Probe` and `Reject` are the outcomes of
`_before_call`; `Succeed` and `Fail` end the call and record; `TimeOut` is
`wait_for` cancelling it: `CancelledError` is not an `Exception`, so nothing is
recorded. As the code has it, a success that arrives while the breaker is open
resets `failures`, a failure that does renews `_opened_at`, and `half_open` admits
every call. `healthy` is the environment; `failRun` and `okRun` are histories of
outcomes that the properties compare the counters with. The clock is
`time.time()`, assumed not to go back. A call times out only while the dependency
is not healthy: a dependency that answers too late counts as unhealthy.

### Registry

`db` maps row ids to rows, `pc`, `req` and `loaded` are the handler of each thread
(its step, its request, the rows its session has read), `loopPc`, `loopMeshes` and
`loopRows` are the expiry loop between its two SELECTs, its DELETE and its pop of
`HEARTBEATS`. The round begins with one more SELECT, for the log (`main.py:49`); its rows
stay in the session, and a row that is read again keeps the lease it was first read
with, so the two SELECTs are one `LoopScan`: what only the second one would find due
is found by the next round. `register_or_update` is `RegRead`, then `Insert` or `Update`, then the
refresh (`RegNext`), or `RegFails` when the row has gone. A heartbeat runs these for
each of its registrations, then `HbRead` and `HbWrite` (`HbFails` when one row of the
commit has vanished), then `HbNote`. The ORM writes a column only if it differs
from the value read, which is `HealthAfter`; `tool_names` is passed to
`update_health_for_service` and not used there, so it is not in the model. An id is
the largest one present plus one (`IsNextId`); `freed` remembers the ids deleted so
far. `Restart` drops handlers, loop and `HEARTBEATS` and keeps the table.

`Overlap` says whether two requests of one mesh may be in flight together. The
Python worker sends one at a time, except that its client gives up after five
seconds while the registry's thread goes on, and that `system.heartbeat` is a tool
too; the Node worker's `setInterval` overlaps whenever a request is slower than
its period. Properties that need `~Overlap` say so, in the theorem too.

A mesh id belongs to one worker process and so to one service (`models.py:11`);
the model has no service column. Which of several rows of one name DELETE takes is
any of them. The names of functions enter through `Semantic`, a constant function
that stands for `semanticize`; nothing here depends on which function it is.

### Resolver

A handler takes the time, reads the candidates (`list_candidates`: health neither
`unavailable` nor NULL, since SQL's `!=` is not true of NULL; lease absent or not over),
and picks `rrIndex` modulo their number, in the order of mesh ids. With no
candidate a second SELECT decides between 410 and 404. The table moves by
`TableNext` only, and `RR_INDEX` is lost by a restart. The index counts without
bound in the code; it is kept modulo `Cycle`, a multiple of every possible number
of candidates, which changes none of the picks.

### Discovery

`Write` is any step of `Registry` but a crash, `Resolve` any step of a handler of
`/resolve`, and `Crash` takes both sides at once, as they are one process. Handlers of
both sides run in one pool; no lock is common to them, so any step of one may fall
between two of the other.

### Executor and ToolCall

`Execute` enters `execute_mcp_tool`; `Enter` or `Blocked` asks the breaker, `StartTool`
sends `call_tool`, `Answered`, `Breaks` and `Expires` end the attempt, `TryAgain` and
`PauseEnds` are the loop of `retry_async`. A rejection by the breaker is not in
`retry_on` and ends the execution. An attempt that expires may leave the tool
running at the worker, which is why `starts` counts and is not reset by it.
`ToolCall` keeps what `/call` can see: at most `Attempts` starts per execution, no
result without a start, every execution ends.

### RegistryClient

The two clients share the class of the breaker and the retry loop and nothing
else, so `client` says, once and for all, whose breaker and calls a behaviour is
about. The registry's client passes no `timeout_s` to `retry_async`: httpx raises
its timeout inside the breaker, which counts it, and `Expires` is none of its
steps. 404 and 410 are answers like 200.

### Router

`pc` is where the handler awaits: `resolve`, `avoid` (up to three further
resolutions while the reply speaks stdio only), `exec`, `again`, `exec_again`.
Between two awaits a handler is one atomic step, so `STATS_LOCK` is never waited
for. A reply is a mesh, a transport and an acl, and the registry may answer each
request with any member of `Replies`. An acl is a set of role lists: none, or one,
which may be empty and then admits nobody. Of the statistics, the totals and the
count by mesh are kept. Two returns of the second round record nothing
(`main.py:293` and `main.py:301`); `AnswersAreCounted` therefore says that ok answers are
counted exactly and errors at most once each.

### Sessions

`at` is where the thread of a session is in `handleSseConnect` and `Session.start`;
`sessions`, `open` and `queue` are the fields, `held` the message the thread has taken,
`quiet` the polls since its last write, which stand for the seconds. A request is
looked up (`Post`), handled, reads the flag (`EnqueueMessage`) and is put into the
queue (`Offer`) in separate steps; 202 follows whether the flag was set or not.
`SendHeaders` is outside the `try`, so its failure leaves the session in the map with
no thread (`leaked`). `line` is the connection: a client that has `gone` is noticed by
a write once its `reset` has arrived, and `stop` resets all lines before it copies the
map. A session identifier is a new UUID and is used once, as is a request.

### Heartbeat, Supervisor and Fleet

`timer`, `lease` and the age of a send count ticks; `MaxDelay` is how long a send
takes at most: the clients' timeouts (5 s in Python, 10 s in Java), and for Node,
whose `fetch` is given none, an assumption. `MaySend` has the three clocks: `_loop`
waits after a send has ended, the Java schedule runs on and makes up for late sends
one after the other, `setInterval` sends beside the last one. `Receive` grants
`int(interval * grace)` seconds from the receipt on; the grace is a float, taken as the
fraction `Grace / GraceParts`, so that `int` has something to cut off. `Crash` leaves what was under way
as a stray, which may still arrive; `Start` either goes on with the same mesh id
(`MCPRPC_MESH_ID`) or drops lease and strays with the old one. The registry's answer
is part of `Receive`: a receipt whose answer is lost is not modelled, as the SDKs
do nothing with an answer. `calm` is the environment, `fresh` a history.

`boss` is the program counter of `main()`, `cur` the service of the turn, `seen` the
modification time in the record with which the turn began: after the first
respawn the file is still compared with that one, and a second respawn may
follow, which stops the process that the list holds then. A modification time is
a number, later for every edit; `loaded` is that of the code the held process has
imported. Starting a process (`Popen`) and making its record (`RecordStarted`,
`RecordRespawned`) are two steps, and the second stamp (`StampAgain`) a third; the process
may import, and an edit may fall, between any two of them. `missed` records that a
stamp was taken after an edit that the process had not imported; at the initial
start, which has no second stamp, as at `main.py:255`. A file that was removed has no
time (`None`), and an import of it fails: a stamp of it is `None`, or the record gets no
`module_file` at all (`NoFile`), and `HasChanged` then compares nothing, so that the
service is not reloaded until a respawn stamps it anew. `GiveUp` is `_stop_process` when
a signal cannot be sent or a killed process does not go in time: the caller goes on,
and the process is one of those `left`, which may end later or never. Ports and
arguments are left out, and nothing is assumed to raise between `Popen` and the
record: `_module_file_for` may in theory (`resolve` of a loop of links), and would lose
the process.

In `Fleet` the heartbeat of one service is followed: its process starts it when it
has imported its module (`Serves`), and its end is the crash of the heartbeat. A
lone Java or Node worker is started and killed by hand. `beats` says whether the
fleet has its heartbeat on at all; with an interval of 0 it has not
(`core.py:194`), and then the supervisor is followed with every disturbance of
every service, while with it only the services of `Disturbed` die, are edited or
lose their file.

### Semantics and Database

`Semanticize` works on sequences of characters: `Spelled` is the loop over the
characters, `Joined` the split and join by one separator, `Stripped` the fallback for
a name of which nothing is left. The alphabet is any set of capitals with their small
letters (`LowerOf`), of small letters and digits (`Others`) and of other characters
(`Marks`), among them `_`, `.` and the blank.

`SameWords` says without that algorithm when two names should be one: their letters
can be read as each other, in order, small or capital, and between two that follow
each other there is a dot in both or in neither, and the end of a word in both or in
neither (`Parted`: something stands between them, or the second one is a capital).

`Database` knows a table as absent, of the first schema (a unique index on `name`) or
of today's, with the columns added so far. sqlite3 opens no transaction for DDL:
each `AddColumn`, and `CreateNew`, is a commit of its own, while `CopyRows` stays in an
open transaction until `Swap`. `Kill` rolls that back and leaves the rest. The indexes
that `create_all` makes after the table, each in a commit of its own, are left out: none
is unique, and one that a kill prevents is missing for good and slows queries. There is
no `IF NOT EXISTS` in `CreateNew`: after a kill in between the next start fails, for
ever, and `StartsAgain` says that nothing else keeps a registry from serving. Pragmas
and databases other than SQLite, for which `init_db` returns early, are left out.
`Database` extends `Semantics`: a row gets the canonical name that `Semanticize` computes.

## 3. What is checked

| Run | Instance | Shows |
|---|---|---|
| `registry` | 2 threads, 2 meshes, 2 spellings of one name, ids to 2, time to 3 | `TypeOK`, `OneRowPerKey`, `OwnRowsOnly`, `LoopSparesOthers`, `LeasesGrow`, `LeasesAreGiven`, `ImplementsTable` |
| `registry_live` | 1 mesh, at most 1 function per heartbeat, DELETE, unavailable health, 1 crash | `DueIsCleared`, `DeadMeshIsForgotten` |
| `resolver` | 2 resolvers, 2 meshes, 2 spellings, 2 rows, 1 restart | `TypeOK` (a resolver that picks has candidates), `SteadyIsFound`, `RoundRobinTurns` |
| `clients` | 2 calls, 2 attempts, threshold 3, recovery 2 ticks, 2 probes, both clients | `ModesAreConsistent` (with the assertion of `resilience.py:48`), `ChangesAreEarned`, `OpenLastsRecoveryTimeout`, `OpenIsProbed`, `HealthyCloses`, `AttemptsMatchBreaker`, `ImplementsToolCall`, `ExecutionsAdvance`, `ExecutionsEnd`, `RegistryFailuresOpen` |
| `router` | 2 calls, 2 attempts, 1 role, 2 meshes, 5 replies, 3 answers | `RolesChecked`, `AnswersAreCounted`, `CallsAdvance`, `EveryCallIsAnswered` |
| `sessions` | 2 clients, 2 requests, keepalive after 2 polls, a stop | `AcceptedIsKept`, `NothingTwice`, `AcceptedIsDelivered`, `GoneIsForgotten` |
| `fleet` | 2 services, 1 edit, 1 removal at a time, 1 process given up per service, a worker of each SDK, ticks of half a second, 2 sends under way | `LeaseHeld`, `NoStrayProcess`, `StaleIsReloaded`, `WorkerComesBack`, `EditsAreRun` |
| `database` | 8 names: 4 spellings of one, 2 of one without letters, 2 others; 2 rows, 2 kills | `ReadyIsMigrated`, `SpellingsMeet`, `RowsSurvive`, `FailureIsInterruption`, `StartsAgain` |

`Discovery` is proved and is no run of its own: races among writers are the business
of `registry`, races among resolvers that of `resolver`, and that the two sides fit is
a theorem. `MCDiscovery.cfg` (1 thread and 1 resolver, 2 meshes, 2 rows, a lease that
is given, runs out and is renewed, 1 crash) lets TLC look at `ImplementsResolver` by
hand: it holds in the 1.6 million distinct states of that instance.

Four runs check what a document or a test says and find that the code does
something else:

| Run | Claim | What the code does |
|---|---|---|
| `claim_register_again` | a second registration answers `updated` (`mr-registry/tests/test_main.py:77`) | two that overlap both insert a row |
| `claim_loop_due` | the loop deletes records whose TTL is exceeded (`PROJECT.md:161`) | it deletes a mesh that a heartbeat renewed after the loop's SELECT |
| `claim_own_functions` | a heartbeat updates the functions of its service (`mr-registry/README.md:25`) | it can write its lease into a row that got the id of a deleted one |
| `claim_lost_attempts` | MCP invocations are under a circuit breaker (`mr-router/README.md:12`) | attempts that end by their timeout are not counted, so a worker that hangs is never cut off |

Three more divergences are plain from the text and have no run: `tools` of a
heartbeat does not limit which tools are updated (`mr-registry/README.md:43`,
`repository.py:169`), DELETE of a name that two meshes registered leaves one row, and
the calls answered at `main.py:293` and `main.py:301` of the router are missing from
`/stats`.

### Bounds, and why they are enough

* Two threads, and the loop, give every pair of steps in either order; the races
  of the table (lost row, reused id, double insert) each take two actors. `MaxId` 2
  lets an id be freed and given out again beside a second row. Two meshes are
  needed where ownership is the question, two spellings where the key is.
* `TTL` 1 with `MaxTime` 3 lets a lease be given, run out, be found due, and be
  renewed at another time. A heartbeat begins only while its lease ends before
  `MaxTime`, so that every lease that is given can run out in the model.
* `registry` has no crash and one health. DELETE, unavailable health and a crash
  between any two steps are in `registry_live`; that the safety properties hold with
  them is proved (section 4).
* In `resolver`, `TTL` and `MaxTime` are 0, so that no clock is explored and no lease
  runs out: a row is available from its insertion to its removal, both of which happen
  under the resolvers. With `MaxTime` 1 TLC needs more than the five minutes a run is
  given; leases that run out are covered by the proof of `SteadyIsFound`. One restart loses the index while a resolver works.
* Two calls let a late outcome meet a breaker that the other one has moved, and two
  attempts contain the first and the last. The threshold is 3, so a reset count
  differs from a shifted one; two probes, so that the first does not already close
  the breaker. All but the liveness properties of this run are proved for any
  number of calls and attempts.
* Five replies: two meshes, both supported transports, stdio, an unsupported
  transport, and the acls "none", "admits" and "admits nobody". `MaxAnswers` 3 lets
  the two handlers overlap and one of them serve again.
* Two sessions and two requests: two responses in one queue, one in each, and a
  request that names a session that is over. Two polls before a keepalive keep a
  quiet one apart from a due one.
* `fleet` is at the limit of the lease: Python sends every 1 s and takes 0.5 s,
  Java sends every 1 s and takes 1 s, Node sends every 1.5 s, announces 2 s, and
  takes 2.5 s, so that its sends overlap; a grace of 2.25 grants 2 s for 1 s and 4 s
  for 2 s, as the default of 2 would, after `int` has cut off the rest. For each,
  `Lasts` holds with nothing to spare. One edit (`MaxEdits`) can fall before, between and
  after the steps of a start; a file goes away while that edit is left to bring it
  back. One process of each service may be given up (`MaxLeft`); a second one adds
  another to a number nothing but `NoStrayProcess` reads, and that is proved for any
  number. Two services are one beside the followed one: with the heartbeat on, only
  that one is in `Disturbed`; with it off, both are disturbed at every step.
* Two kills: the second can hit the start that follows the first. Two rows
  are enough for a pair of names. The names have two capitals in a row, one after a
  small letter, the separators, a dot, and no letter at all.

Deadlock is checked everywhere but in `router`, where the model stops after
`MaxAnswers` answers, and `sessions`, where a stopped server and its clients have
nothing left to do. Symmetry of threads, meshes or resolvers is used only in runs
without liveness properties.

### Fairness

* `RegistryClient!CFairSpec`: time passes; an attempt ends, since httpx or `wait_for`
  bounds it, and a pause ends; callers keep calling, since a breaker leaves the open
  mode only when asked, and `OpenIsProbed` is a statement about a dependency in use.
* `Registry!FairSpec`: the pool runs its threads, the loop wakes up every second,
  time passes. No worker has to send anything or to stop.
* `Router!FairSpec`: a handler that waits is answered: `resolve_function` ends by its
  client's timeout, an execution by `ExecutionsEnd`, which `clients` checks.
* `Sessions!FairSpec`: threads run, a handler ends, and the reset of a client that has
  gone arrives. Nobody has to connect, to post or to stop the server.
* `Fleet!FFairSpec`: `main()` goes on, a process gets to import its module, time
  passes, what is due is done, a send is received or lost. Nothing has to start, to
  die, to be edited or to come back after a removal, and the network may stay bad:
  `WorkerComesBack` and `EditsAreRun` assume in their premise that the network gets
  well and the file is there (`Runs`).
* `Database!FairSpec`: a start goes on, and a registry that is down is started again,
  as its operator would do. Kills are bounded.

All fairness is weak: each of these steps stays possible until it is taken.

### Limits of what holds

`DeadMeshIsForgotten` holds when a worker registers one function per heartbeat, its
requests do not overlap, and the registry has not crashed. A heartbeat commits each
new row without a lease and gives leases only in its last commit; a row whose
heartbeat never gets there (a crash, a vanished row beside it, an overlapping
heartbeat) has no lease, never is due, and stays if the worker stops.

`OwnRowsOnly`, `LoopSparesOthers` and `LeasesGrow` make an exception of rows whose id was
freed before. `claim_own_functions` shows that the exception is needed.

`LeaseHeld` holds while `Lasts` does: the gap from the receipt of one send to the end
of the next, which `LongestGap` gives for each clock, fits into the lease. With the
defaults of the Python SDK (3 s, grace 2, a timeout of 5 s) it does not: two sends
that take 5 s each leave 13 s between receipts, and a lease of 6 s runs out under a
worker that loses nothing. The precondition is what an operator has to grant.

`GoneIsForgotten` makes an exception of the session whose headers could not be sent,
`StartsAgain` of the migration that was killed, and `NoStrayProcess` of the start that
failed and of the processes that `_stop_process` gave up. `StaleIsReloaded` and
`EditsAreRun` name what the supervisor cannot see: an edit between the import of a
process and the stamp of its record, at the initial start (`main.py:135` to `149`) or
at the second stamp (`main.py:255`); and a record whose stamp is `None`, with which
line 245 compares nothing. In both cases the old code runs until the next edit, or
until the service dies. In `StaleIsReloaded` the stamp is that of the record the turn
began with, so a process that was started in the turn itself is covered whatever
its own record missed. `LeasesAreGiven` makes one of a row that `/register` inserts without a heartbeat,
which has no lease until its worker sends one.

## 4. What is proved

TLAPS checks the following for all values of the constants that satisfy the
named assumptions (`ConfigAssumption`, `RegistryAssumption`, `TableAssumption`,
`ResolverAssumption`, `RetryAssumption`, `AttemptsAssumption`, `RouterAssumption`,
`SessionAssumption`, `IntervalAssumption`, `SupervisorAssumption`, `FleetAssumption`,
`DatabaseAssumption`, `AlphabetAssumption`: types of the constants, positive thresholds,
intervals and sizes, and an alphabet whose kinds of characters are disjoint), and from
nothing else.

* **ExecutorProofs**, the breaker. `Consistent` is inductive: well typed, stamped when
  open, counters equal to the histories in the modes in which the code acts on
  them. The two counting invariants alone are not: a late outcome changes the
  counters of a mode that is not current. `BreakerConsistent`, `BreakerEarnsChanges`
  and `BreakerStaysOpen` follow.
* **RegistryProofs.** `Typed` adds to `TypeOK` that the step a handler has reached
  fits its request. `Owned` adds that the rows a handler or the loop holds are still
  of its mesh or have a freed id; it gives `RegistryOwnRows` and `RegistryLoopSpares`,
  with overlap and crashes. `SerialInv` adds, when requests of a mesh do not
  overlap, that a handler about to insert finds its key still missing, and that no
  row of a mesh has a lease beyond the one its heartbeat is about to give; it gives
  `RegistryOneRowPerKey` and `RegistryLeasesGrow`. `RegistryImplementsTable` maps every
  commit to one of `FunctionTable`. `RegistryGivesLeases` needs no such restriction: a
  new row is promised a lease by the handler that inserts it (`NewRowIsPromised`), the
  promise stands through every step of every other handler (`PromiseStands`), and its
  handler keeps it or fails in view (`PromiseIsKept`). It needs `IdleIsFree`, that a
  thread without a step has no request: a promise cannot be held by nobody.
* **ResolverProofs.** `SteadyInv`: before its SELECT, what is steady is a candidate
  in the table; after it, it is among what was read. `ResolverFindsSteady` follows,
  and with `RegistryImplementsTable` it holds over the registry. `ResolverTyped` has its
  own invariant, of which the part that matters is that a handler that picks has read
  something: the index is never taken modulo zero. `RoundRobinTurns` speaks of two
  picks and what lies between; `TurnsInv` turns it into one state: the index of a name
  is congruent, modulo the length of the list last picked from, to the place after
  the last pick. No step but a pick or the restart touches index and history, and a
  pick restores it by `SuccessorModulo`. `WrapIsInvisible` is the lemma that keeping the
  index modulo `Cycle` changes no pick, which the model relies on.
* **DiscoveryProofs.** A step of the write side is, to a resolver, a change of the table
  that `FunctionTable` allows, by `TableSteps` of RegistryProofs, or the removal of no
  row; a step of a resolver is a stutter of `Registry`. So `DiscoveryImplementsResolver`
  and `DiscoveryImplementsRegistry`: everything proved of either side on its own holds of
  the registry as one process, `SteadyIsFound` and `RoundRobinTurns` among it.
* **ExecutorProofs**, its clients. `EInv` adds to the two invariants that a call that waits for
  the tool has started it. Every step of the executor is a step of the breaker or
  leaves it alone (`EStepIsBreakerStep`), so the breaker's action properties carry
  over; `ExecutorImplementsToolCall` is the step simulation. For `RegistryClient`, a
  step of either client is one of the executor, which carries the invariants over;
  `ClientCountsFailures` adds that for the registry's client no attempt is lost
  unseen, so that the run of lost attempts never exceeds the breaker's count while
  it is closed. `ExecutorAdvances` and `ClientAdvances` are the part of termination that
  needs no fairness: `StepsLeft`, four for each attempt still to come and up to three
  for the one that runs, falls with every step of an execution, so none has more
  than `4 * Attempts` of them. Only that a step is taken at all is left to `ExecutionsEnd`.
* **RouterProofs.** `HandlerInv` says what a handler knows where it waits (its reply,
  its starts, where the tool ran), `CountInv` relates statistics and histories.
  `RouterTyped`, `RouterChecksRoles`, `RouterCounts` and `RouterBoundsStarts` follow.
  `RouterAdvances` is the measure of `/call`, as above: every place of the handler has a
  number of steps, the search for another endpoint and the starts count down within
  it, and the second round is below the first. The steps of other calls leave it alone.
* **SessionsProofs.** `SessionInv` adds to `AcceptedIsKept` why a flag may be down: a
  session is only closed once its connection is, by its thread or by `stop`, one that
  was never connected is open and in no map, a request names a connected one, and a
  thread holds a message only while it is about to write it. `SessionsDeliverOnce` is
  inductive together with it: a request that has not been answered is in no queue and
  in no hands (`MessagesAreRequests`), so an offer adds a new one (`OfferOnce`), and
  taking one moves the head of a queue without repetitions (`TakeOnce`).
* **FleetProofs.** A step of the fleet is one of the supervisor and one of the
  heartbeat, or leaves them alone, so what is proved of each holds of both. `SInv`
  adds to `OneProcess`, the part of `NoStrayProcess` about a running supervisor, which
  services are not yet started or already stopped. `BeatInv`
  has two parts beside the types: `Shape` (Python and Java have one send under way at
  most, the clocks of Java and Node never stand still) and `LeaseLeft`, which says of
  each place the worker can be in (a send on its way, one coming back, the clock
  running, the next one late) how much of the lease is left at least. Every step
  keeps it, and with `Lasts` each of its cases leaves a lease. `FleetReloadsStale` adds
  `Stamped`. Wherever the two are times, and not marks for a file that is away
  (`NotAfter`): stamp, imported code and file of a service are in that order of age
  unless an edit was missed (`StampsOf`), and so are the stamp the turn began with, the
  code of a process started in the turn, and the file (`StampOfTurn`). A file that
  equals that stamp then has the age of the imported code, between the two.
* **DatabaseProofs.** `DInv`: what each stage of `init_db` may assume of table and
  columns, that the open transaction holds the old rows with a mesh each, and that
  rows of today's schema have one. It is kept by kills and restarts because it asks
  nothing of a process that is down but what the file says. `FailureIsInterruption` is
  inductive with it: `function_records_new` is only ever left by a kill between its `CREATE` and the swap.
* **DatabaseProofs**, the names. `CanonicalNames`: of two names, one of them with a
  letter, the canonical names are equal if and only if `SameWords`; `CanonicalNameIsOwn`:
  a canonical name is its own. With `DInv` they give `DatabaseSpellingsMeet`. This is an
  induction over the characters, of which the library's theorems, with an operator as
  parameter, are out of reach: `LeastNat` (from `WFMin`, which speaks of sets) and
  `NatInduct` replace them. `FlattenPieces` uses it to say where each piece of a
  sequence put together by `FlattenSeq` comes to lie. From there on a name is read by
  places: `WordsAreSame` and `JoinedIsSame` show that spelling and each join keep
  `SameWords`, which is an equivalence, and `JoinedBetween` that after a join its
  separator, and after the second one both, stand between two letters (`Canonical`).
  `CanonicalIsUnique` closes the argument: of two canonical sequences with the same
  words the first letter that has different places would follow one that has not, by
  one place or two, as `Parted` says of both.

Only model-checked: every liveness property (liveness under fairness and `ENABLED`
are out of the prover's reach), though `ExecutorAdvances` and `RouterAdvances` prove that
nothing turns back; and the four claims, which are counterexamples.

The types of the other modules are proved (`RouterTyped`, `SessionsTyped`, `FleetTyped`,
`DatabaseTyped`, `ExecutorTyped`, within each inductive invariant), as is `StartsAreBounded`,
and no run spends time on them: `registry` and `resolver` check theirs, the second one for
the part that is no type.

One seam is closed by reading two theorems together and not by a module:
`ExecutorProofs` proves that `Executor`, for the breaker of one endpoint, implements
`ToolCall`, and `RouterProofs` is about any `ToolCall`, whichever endpoints it goes to.

## 5. What is not modelled

* Read-only endpoints, the GUI, the proxy and the scripts answer or forward one
  request and decide nothing in the mesh. `run_with_sniffer.py` starts the registry
  behind a proxy that logs the bytes it passes on.
* The pool of stdio sessions in `mcp_executor.py`: the router rejects stdio before
  it could acquire one, so nothing but the shutdown hook reaches it.
* The percentiles and top lists of `/stats`, arguments and results of tools, URLs and
  schemas, and how the SDKs find the functions they publish: data that no property
  here tells apart.
* The MCP servers of Python and Node: the first is a library, the second answers
  each request from a constant list of tools; both are what `ToolCall` says of a tool.
* `/health` of the router iterates over the breakers in a thread of its own while
  the event loop may add one; the request may fail, and changes nothing.
* `HEARTBEATS` is kept because the loop and the handlers write it; only
  `GET /heartbeats` reads it.
* Letters that have no case, and characters whose small form is several: a name is a
  sequence over capitals, small letters, digits and marks.
* Compiled copies under `dist/`.
* Indexes of the table, an exception between `Popen` and the record of a service, and a
  stdio command that cannot be resolved: see the modules in section 2.

## 6. Plan

Done: every module of section 2, with its runs; proofs of every safety property
that a run checks.

Open, in this order:

1. `Router` over several `Executor`s, one breaker per endpoint, as `Discovery` is
   `Resolver` over `Registry`.
2. How long a stable replica can be skipped while others come and go.
3. `Registry` composed with `Heartbeat` directly: the first is explored with untimed
   requests, the second with a registry that only grants leases.
4. The percentiles of `/stats` against a reference definition over bounded inputs.
