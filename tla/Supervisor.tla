----------------------------- MODULE Supervisor -----------------------------
(***************************************************************************)
(* The supervisor of the Python example (mc-automesh/example/main.py): it  *)
(* starts one process per service, then goes round its list and starts     *)
(* again what has died or whose module file has changed, until a signal    *)
(* asks it to stop.                                                        *)
(*                                                                         *)
(* An edit of a module is a new modification time; a file that is removed, *)
(* as some editors do before they write it again, has none.  A process has *)
(* the code that was there when it imported its module.  A process is      *)
(* started first and its record is made later, from what the file system   *)
(* says then.  Stopping takes as long as it takes (terminate, five         *)
(* seconds, kill, five seconds); ports are left out.                       *)
(***************************************************************************)
EXTENDS Naturals

CONSTANTS
    N,          \* services, in the order of the list
    MaxEdits,   \* bound: edits of the module files
    MaxLeft     \* bound: processes of one service that could not be stopped

ASSUME SupervisorAssumption == N \in Nat \ {0} /\ MaxEdits \in Nat /\ MaxLeft \in Nat

VARIABLES
    boss,       \* where main() is
    cur,        \* i: the service it is at
    seen,       \* svc, the record the round began with: its stamp
    restarted,  \* restarted
    stop,       \* stop["requested"]
    held,       \* does the process that the supervisor has of a service run?
    live,       \* processes of each service that run
    left,       \* those among them on which _stop_process gave up
    stamp,      \* services[i].module_mtime_ns, and whether it has a module_file
    loaded,     \* modification time of the code the held process imported, or NotYet
    missed,     \* history: an edit fell between that import and the stamp
    mtime,      \* modification time of each module file, or None
    clock       \* the latest time of an edit

listVars == <<held, live, left, stamp, loaded, missed>>
loopVars == <<boss, cur, seen, restarted>>
fileVars == <<mtime, clock>>
svars == <<loopVars, stop, listVars, fileVars>>

Services == 1..N
Times == 0..MaxEdits
None == MaxEdits + 1     \* no time: the file is not there
NoFile == MaxEdits + 2   \* a record whose module_file is None, or no record
NotYet == MaxEdits + 1

SInit ==
    /\ boss = "start"
    /\ cur = 1
    /\ seen = NoFile
    /\ restarted = FALSE
    /\ stop = FALSE
    /\ held = [s \in Services |-> FALSE]
    /\ live = [s \in Services |-> 0]
    /\ left = [s \in Services |-> 0]
    /\ stamp = [s \in Services |-> NoFile]
    /\ loaded = [s \in Services |-> NotYet]
    /\ missed = [s \in Services |-> FALSE]
    /\ mtime = [s \in Services |-> 0]
    /\ clock = 0

----------------------------------------------------------------------------
(* _start_service and _stop_process.                                       *)

\* There is no process whose code counts, or it has imported none.
NothingLoaded(s) ==
    /\ loaded' = [loaded EXCEPT ![s] = NotYet]
    /\ missed' = [missed EXCEPT ![s] = FALSE]

\* _spawn_service: the process runs, the list still has the old record.
Popen(s) ==
    /\ held' = [held EXCEPT ![s] = TRUE]
    /\ live' = [live EXCEPT ![s] = @ + 1]
    /\ NothingLoaded(s)
    /\ UNCHANGED <<left, stamp>>

\* The stamp t is put into the record of the service.
PutStamp(s, t) ==
    /\ stamp' = [stamp EXCEPT ![s] = t]
    /\ missed' = [missed EXCEPT ![s] = t \in Times /\ loaded[s] \notin {NotYet, t}]
    /\ UNCHANGED <<held, live, left, loaded>>

\* _module_file_for and _mtime_ns: the file is not there when it is looked
\* for, or it goes away before the stat.
FirstStamps(s) == IF mtime[s] = None THEN {NoFile, None} ELSE {mtime[s]}

\* The process that the supervisor holds ends, on demand or by itself.
End(s) ==
    /\ held[s]
    /\ held' = [held EXCEPT ![s] = FALSE]
    /\ live' = [live EXCEPT ![s] = @ - 1]
    /\ NothingLoaded(s)
    /\ UNCHANGED <<left, stamp>>

\* A signal cannot be sent, or a killed process does not go away in time: the
\* caller goes on.
GiveUp(s) ==
    /\ held[s]
    /\ left[s] < MaxLeft
    /\ held' = [held EXCEPT ![s] = FALSE]
    /\ left' = [left EXCEPT ![s] = @ + 1]
    /\ NothingLoaded(s)
    /\ UNCHANGED <<live, stamp>>

StopProcess(s) == End(s) \/ GiveUp(s)

----------------------------------------------------------------------------
(* The list is built before the try: if a process cannot be started, the   *)
(* ones before it are left running.                                        *)

StartService ==
    /\ boss = "start"
    /\ Popen(cur)
    /\ boss' = "started"
    /\ UNCHANGED <<cur, seen, restarted, stop, fileVars>>

\* This record gets no second stamp.
RecordStarted ==
    /\ boss = "started"
    /\ \E t \in FirstStamps(cur) : PutStamp(cur, t)
    /\ IF cur = N THEN boss' = "round" /\ cur' = 1 ELSE boss' = "start" /\ cur' = cur + 1
    /\ UNCHANGED <<seen, restarted, stop, fileVars>>

StartFails ==
    /\ boss = "start"
    /\ boss' = "failed"
    /\ UNCHANGED <<cur, seen, restarted, stop, listVars, fileVars>>

----------------------------------------------------------------------------
(* The loop.  The flag is only read at the start of a round.               *)

BeginRound ==
    /\ boss = "round"
    /\ boss' = IF stop THEN "stop" ELSE "poll"
    /\ cur' = 1
    /\ UNCHANGED <<seen, restarted, stop, listVars, fileVars>>

\* Mutated form: the file is read at the start of the turn, too.
SeenInFile(s) == mtime[s]
SeenInRecord(s) == stamp[s]

Poll ==
    /\ boss = "poll"
    /\ seen' = SeenInRecord(cur)
    /\ restarted' = FALSE
    /\ boss' = IF held[cur] THEN "compare" ELSE "respawn"
    /\ UNCHANGED <<cur, stop, listVars, fileVars>>

\* Both respawns stop the process that the list holds now, before the new
\* one is started.
\* Mutated form: the second one stops that of the record the round began with.
StopsRecorded == held[cur] /\ ~restarted
StopsFirst == held[cur]

StopHeld ==
    /\ boss \in {"respawn", "reload"}
    /\ StopsFirst
    /\ StopProcess(cur)
    /\ UNCHANGED <<loopVars, stop, fileVars>>

Respawn ==
    /\ boss \in {"respawn", "reload"}
    /\ ~StopsFirst
    /\ Popen(cur)
    /\ boss' = IF boss = "respawn" THEN "respawned" ELSE "reloaded"
    /\ UNCHANGED <<cur, seen, restarted, stop, fileVars>>

RecordRespawned ==
    /\ boss \in {"respawned", "reloaded"}
    /\ \E t \in FirstStamps(cur) : PutStamp(cur, t)
    /\ restarted' = TRUE
    /\ boss' = IF boss = "respawned" THEN "compare" ELSE "stamp"
    /\ UNCHANGED <<cur, seen, stop, fileVars>>

\* An exception in the loop runs the finally.
RespawnFails ==
    /\ boss \in {"respawn", "reload"}
    /\ ~StopsFirst
    /\ boss' = "stop"
    /\ cur' = 1
    /\ UNCHANGED <<seen, restarted, stop, listVars, fileVars>>

\* The file is compared with the record the round began with, also after a
\* respawn, which may so be followed by another.  Without a time on either
\* side there is nothing to compare.
HasChanged == seen \in Times /\ mtime[cur] \notin {None, seen}

CompareFile ==
    /\ boss = "compare"
    /\ boss' = IF HasChanged THEN "reload" ELSE IF restarted THEN "stamp" ELSE "next"
    /\ UNCHANGED <<cur, seen, restarted, stop, listVars, fileVars>>

\* Mutated form: the stamp is that of the record the round began with.
StampOnce(s) == seen
StampNow(s) == IF stamp[s] = NoFile THEN NoFile ELSE mtime[s]

StampAgain ==
    /\ boss = "stamp"
    /\ PutStamp(cur, StampNow(cur))
    /\ boss' = "next"
    /\ UNCHANGED <<cur, seen, restarted, stop, fileVars>>

\* The locals of a turn mean nothing after it.
NextService ==
    /\ boss = "next"
    /\ IF cur = N THEN boss' = "round" /\ cur' = 1 ELSE boss' = "poll" /\ cur' = cur + 1
    /\ seen' = NoFile
    /\ restarted' = FALSE
    /\ UNCHANGED <<stop, listVars, fileVars>>

----------------------------------------------------------------------------
(* finally.                                                                *)

StopService ==
    /\ boss = "stop"
    /\ StopProcess(cur)
    /\ UNCHANGED <<loopVars, stop, fileVars>>

LastToStop == N

StopNext ==
    /\ boss = "stop"
    /\ ~held[cur]
    /\ IF cur >= LastToStop THEN boss' = "exited" /\ cur' = 1 ELSE boss' = boss /\ cur' = cur + 1
    /\ UNCHANGED <<seen, restarted, stop, listVars, fileVars>>

----------------------------------------------------------------------------
(* Signals, crashes and edits.                                             *)

RequestStop ==
    /\ ~stop
    /\ boss \notin {"failed", "exited"}
    /\ stop' = TRUE
    /\ UNCHANGED <<loopVars, listVars, fileVars>>

Die(s) ==
    /\ End(s)
    /\ UNCHANGED <<loopVars, stop, fileVars>>

ImportModule(s) ==
    /\ held[s]
    /\ loaded[s] = NotYet
    /\ mtime[s] # None
    /\ loaded' = [loaded EXCEPT ![s] = mtime[s]]
    /\ UNCHANGED <<loopVars, stop, held, live, left, stamp, missed, fileVars>>

ImportFails(s) ==
    /\ loaded[s] = NotYet
    /\ mtime[s] = None
    /\ End(s)
    /\ UNCHANGED <<loopVars, stop, fileVars>>

\* What the supervisor gave up on may end later.
LeftEnds(s) ==
    /\ left[s] > 0
    /\ left' = [left EXCEPT ![s] = @ - 1]
    /\ live' = [live EXCEPT ![s] = @ - 1]
    /\ UNCHANGED <<loopVars, stop, held, stamp, loaded, missed, fileVars>>

\* The files share a clock: an edit is later than all before it.
Edit(s) ==
    /\ clock < MaxEdits
    /\ clock' = clock + 1
    /\ mtime' = [mtime EXCEPT ![s] = clock + 1]
    /\ UNCHANGED <<loopVars, stop, listVars>>

\* Bound: one file at a time is away, while an edit is left to bring it back.
Remove(s) ==
    /\ clock < MaxEdits
    /\ \A o \in Services : mtime[o] # None
    /\ mtime' = [mtime EXCEPT ![s] = None]
    /\ UNCHANGED <<loopVars, stop, listVars, clock>>

BossStep ==
    \/ StartService \/ RecordStarted \/ StartFails \/ BeginRound \/ Poll \/ StopHeld
    \/ Respawn \/ RecordRespawned \/ RespawnFails \/ CompareFile \/ StampAgain
    \/ NextService \/ StopService \/ StopNext

\* What a process or its file does that is not a death of its own.
ProcessStep(s) == ImportModule(s) \/ ImportFails(s) \/ LeftEnds(s) \/ Edit(s) \/ Remove(s)

SNext ==
    \/ BossStep
    \/ RequestStop
    \/ \E s \in Services : Die(s) \/ ProcessStep(s)

SSpec == SInit /\ [][SNext]_svars

----------------------------------------------------------------------------
STypeOK ==
    /\ boss \in {"start", "started", "round", "poll", "respawn", "respawned", "compare",
                 "reload", "reloaded", "stamp", "next", "stop", "failed", "exited"}
    /\ cur \in Services
    /\ seen \in 0..NoFile
    /\ restarted \in BOOLEAN
    /\ stop \in BOOLEAN
    /\ held \in [Services -> BOOLEAN]
    /\ live \in [Services -> Nat]
    /\ left \in [Services -> 0..MaxLeft]
    /\ stamp \in [Services -> 0..NoFile]
    /\ loaded \in [Services -> 0..NotYet]
    /\ missed \in [Services -> BOOLEAN]
    /\ mtime \in [Services -> 0..None]
    /\ clock \in Times

\* A service never has two processes, though one round may respawn it twice:
\* the supervisor holds the only one, but for those on which it gave up.
OneProcess == \A s \in Services : live[s] = left[s] + IF held[s] THEN 1 ELSE 0

\* What a stopped supervisor leaves behind: nothing else, whatever died, changed
\* or failed before.  Only a start that failed leaves processes.
StopLeavesNone == boss = "exited" => \A s \in Services : live[s] = left[s]

\* No process is ever out of the supervisor's hands, while it runs or after it,
\* unless _stop_process itself gave up on it.
NoStrayProcess == OneProcess /\ StopLeavesNone

\* A turn never ends with a process that runs old code, however edits, imports,
\* deaths and the two respawns of a turn fall, unless the record that the turn
\* began with cannot tell: its stamp was taken after an edit that the process
\* did not import, or is None.
StaleIsReloaded ==
    [][ boss = "compare" /\ boss' \in {"stamp", "next"} =>
            \/ loaded[cur] \in {NotYet, mtime[cur]}
            \/ missed[cur] /\ ~restarted
            \/ seen \notin Times
            \/ mtime[cur] = None ]_svars
=============================================================================
