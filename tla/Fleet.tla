-------------------------------- MODULE Fleet --------------------------------
(***************************************************************************)
(* Workers as they are run: Python ones by the supervisor of the example,  *)
(* Java and Node ones by hand.  The heartbeat of one worker is followed:   *)
(* that of the process of service Watched, or that of the lone worker.  A  *)
(* fleet may also be run with the heartbeat off (an interval of 0): then   *)
(* nothing but the supervisor is followed.                                 *)
(***************************************************************************)
EXTENDS Heartbeat, Supervisor

CONSTANTS
    Watched,   \* the service whose heartbeat is followed
    Disturbed  \* bound: the services that die or are edited while it is

ASSUME FleetAssumption == Watched \in Services /\ Disturbed \subseteq Services

VARIABLE beats     \* is the heartbeat on?

fvars == <<vars, svars, beats>>

Supervised == runtime = "python"

FInit == Init /\ SInit /\ beats \in BOOLEAN /\ (~Supervised => beats)

\* The process has imported its module and serves, which starts its heartbeat.
Serves(s) == held[s] /\ loaded[s] # NotYet

\* What a step of the supervised processes does to the heartbeat.
HeartbeatFollows ==
    IF beats /\ Serves(Watched)' # alive
    THEN IF alive THEN Crash ELSE Start
    ELSE UNCHANGED vars

\* A process only dies by itself while the network is bad, too.
Disturbance(s) ==
    /\ ~beats \/ s \in Disturbed
    /\ ImportFails(s) \/ LeftEnds(s) \/ Edit(s) \/ Remove(s) \/ (~calm /\ Die(s))

Supervise ==
    /\ Supervised
    /\ BossStep \/ RequestStop \/ \E s \in Services : ImportModule(s) \/ Disturbance(s)
    /\ HeartbeatFollows
    /\ UNCHANGED beats

RunByHand == ~Supervised /\ (Start \/ Crash) /\ UNCHANGED <<svars, beats>>

Beat == (WorkerStep \/ NetworkStep \/ CalmChanges \/ Tick) /\ UNCHANGED <<svars, beats>>

FNext == Supervise \/ RunByHand \/ Beat

FSpec == FInit /\ [][FNext]_fvars

\* main() goes on, a process gets to import its module, time passes, what is due
\* is done and a send ends.  Nothing has to start, to die, to be edited or to
\* be stopped, and the network may stay bad.
FFairSpec ==
    /\ FSpec
    /\ WF_fvars(Supervised /\ BossStep /\ HeartbeatFollows /\ UNCHANGED beats)
    /\ \A s \in Services : WF_fvars(Supervised /\ ImportModule(s) /\ HeartbeatFollows /\ UNCHANGED beats)
    /\ WF_fvars(Tick /\ UNCHANGED <<svars, beats>>)
    /\ WF_fvars(WorkerStep /\ UNCHANGED <<svars, beats>>)
    /\ \A s \in Sends : WF_fvars((Receive(s) \/ Lose(s)) /\ UNCHANGED <<svars, beats>>)

----------------------------------------------------------------------------
Stopped == boss \in {"stop", "failed", "exited"}

FTypeOK == TypeOK /\ STypeOK /\ beats \in BOOLEAN

\* The supervisor goes on, no process dies of itself and the file is there.
Runs(s) == Supervised /\ calm /\ ~stop /\ ~Stopped /\ mtime[s] # None

\* A worker comes back: once no send fails and no process dies any more, a
\* Python service has a process that holds a lease, whatever died and was lost
\* before, unless the supervisor stops or the module is gone; so has a lone
\* worker that stays alive.
WorkerComesBack ==
    <>[](beats /\ (Runs(Watched) \/ (~Supervised /\ calm /\ alive))) => <>[](lease # Over)

\* An edited module is run by a new process, unless the stamp of the service
\* was taken after an edit that the process did not import, or is None.
EditsAreRun ==
    <>[](\A s \in Services : Runs(s)) =>
        <>[](\A s \in Services : loaded[s] = mtime[s] \/ missed[s] \/ stamp[s] \notin Times)
=============================================================================
