----------------------------- MODULE FleetProofs -----------------------------
(***************************************************************************)
(* The supervisor for any number of services and edits, and the heartbeat  *)
(* for any intervals, delays, grace and number of sends under way.  A      *)
(* fleet is both at once, so what is proved of each holds of it.           *)
(***************************************************************************)
EXTENDS Fleet, TLAPS

----------------------------------------------------------------------------
(* The supervisor.                                                         *)

\* Services that are not yet started have no process, and those that main()
\* has stopped have none any more.
Started ==
    /\ boss = "start" => \A s \in cur..N : ~held[s]
    /\ boss = "started" => \A s \in (cur + 1)..N : ~held[s]
    /\ boss = "stop" => \A s \in 1..(cur - 1) : ~held[s]
    /\ boss = "exited" => \A s \in Services : ~held[s]

SInv == STypeOK /\ OneProcess /\ Started

\* The types of main(), of its list, and of the files.
LoopTyped ==
    /\ boss \in {"start", "started", "round", "poll", "respawn", "respawned", "compare",
                 "reload", "reloaded", "stamp", "next", "stop", "failed", "exited"}
    /\ cur \in Services
    /\ seen \in 0..NoFile
    /\ restarted \in BOOLEAN

ListTyped ==
    /\ held \in [Services -> BOOLEAN]
    /\ live \in [Services -> Nat]
    /\ left \in [Services -> 0..MaxLeft]
    /\ stamp \in [Services -> 0..NoFile]
    /\ loaded \in [Services -> 0..NotYet]
    /\ missed \in [Services -> BOOLEAN]

FileTyped == mtime \in [Services -> 0..None] /\ clock \in Times

LEMMA TypeParts == STypeOK <=> LoopTyped /\ stop \in BOOLEAN /\ ListTyped /\ FileTyped
  BY DEF STypeOK, LoopTyped, ListTyped, FileTyped

LEMMA TypePartsNext ==
    STypeOK' <=> LoopTyped' /\ stop' \in BOOLEAN /\ ListTyped' /\ FileTyped'
  BY DEF STypeOK, LoopTyped, ListTyped, FileTyped

\* The values that are no times are told from those that are.
LEMMA Marks ==
    /\ None \in Nat /\ NoFile \in Nat /\ NotYet \in Nat /\ NotYet = None
    /\ Times \subseteq Nat /\ Times \subseteq 0..None /\ Times \subseteq 0..NoFile
    /\ 0..None \subseteq 0..NoFile /\ None \in 0..NoFile /\ NoFile \in 0..NoFile
    /\ NotYet \in 0..NotYet /\ 0 \in Times
    /\ None \notin Times /\ NoFile \notin Times
    /\ \A t \in 0..None : t # None => t \in Times
  BY SupervisorAssumption DEF None, NoFile, NotYet, Times

LEMMA SInitInv == SInit => SInv
<1> SUFFICES ASSUME SInit PROVE SInv
  OBVIOUS
<1> USE SupervisorAssumption DEF SInit, Services
<1>1. STypeOK
  <2>1. 1 \in 1..N /\ 0 \in 0..MaxLeft /\ 0 \in 0..None /\ 0 \in Times
    BY Marks
  <2> QED
    BY <2>1, Marks DEF STypeOK
<1>2. OneProcess
  BY DEF OneProcess
<1>3. Started
  BY DEF Started
<1> QED
  BY <1>1, <1>2, <1>3 DEF SInv

\* A process is only started where there is none.
LEMMA PopenKeeps ==
    ASSUME SInv, NEW s \in Services, ~held[s], Popen(s)
    PROVE  /\ OneProcess' /\ ListTyped'
           /\ \A o \in Services \ {s} : held'[o] = held[o]
<1>1. ListTyped
  BY TypeParts DEF SInv
<1>2. /\ held' = [held EXCEPT ![s] = TRUE] /\ live' = [live EXCEPT ![s] = @ + 1]
      /\ loaded' = [loaded EXCEPT ![s] = NotYet] /\ missed' = [missed EXCEPT ![s] = FALSE]
      /\ left' = left /\ stamp' = stamp
  BY DEF Popen, NothingLoaded
<1>3. ListTyped'
  BY <1>1, <1>2, Marks DEF ListTyped
<1>4. OneProcess'
  BY <1>1, <1>2, SupervisorAssumption DEF SInv, OneProcess, ListTyped
<1> QED
  BY <1>1, <1>2, <1>3, <1>4 DEF ListTyped

\* A process that ends, or that is given up, is no longer held.
LEMMA EndKeeps ==
    ASSUME SInv, NEW s \in Services, StopProcess(s)
    PROVE  /\ OneProcess' /\ ListTyped'
           /\ \A o \in Services : held'[o] => held[o]
<1>1. ListTyped /\ held[s]
  BY TypeParts DEF SInv, StopProcess, End, GiveUp
<1>2. /\ held' = [held EXCEPT ![s] = FALSE] /\ stamp' = stamp
      /\ loaded' = [loaded EXCEPT ![s] = NotYet] /\ missed' = [missed EXCEPT ![s] = FALSE]
  BY DEF StopProcess, End, GiveUp, NothingLoaded
<1>3. live[s] = left[s] + 1 /\ live[s] \in Nat /\ left[s] \in 0..MaxLeft
  BY <1>1 DEF SInv, OneProcess, ListTyped
<1>4. CASE End(s)
  <2>1. live' = [live EXCEPT ![s] = left[s]] /\ left' = left
    <3>1. live[s] - 1 = left[s]
      BY <1>3, SupervisorAssumption
    <3> QED
      BY <1>4, <3>1 DEF End
  <2>2. ListTyped'
    BY <1>1, <1>2, <1>3, <2>1, Marks, SupervisorAssumption DEF ListTyped
  <2>3. OneProcess'
    BY <1>1, <1>2, <1>3, <2>1, SupervisorAssumption DEF SInv, OneProcess, ListTyped
  <2> QED
    BY <1>1, <1>2, <2>2, <2>3 DEF ListTyped
<1>5. CASE GiveUp(s)
  <2>1. live' = live /\ left' = [left EXCEPT ![s] = @ + 1] /\ left[s] < MaxLeft
    BY <1>5 DEF GiveUp
  <2>2. left[s] + 1 \in 0..MaxLeft
    BY <1>3, <2>1, SupervisorAssumption
  <2>3. ListTyped'
    BY <1>1, <1>2, <2>1, <2>2, Marks DEF ListTyped
  <2>4. OneProcess'
    BY <1>1, <1>2, <1>3, <2>1, SupervisorAssumption DEF SInv, OneProcess, ListTyped
  <2> QED
    BY <1>1, <1>2, <2>3, <2>4 DEF ListTyped
<1> QED
  BY <1>4, <1>5 DEF StopProcess

LEMMA PutStampKeeps ==
    ASSUME SInv, NEW s \in Services, NEW t \in 0..NoFile, PutStamp(s, t)
    PROVE  OneProcess' /\ ListTyped' /\ held' = held
  BY TypeParts DEF SInv, ListTyped, PutStamp, OneProcess

\* Every stamp is a time or a mark.
LEMMA StampTypes ==
    ASSUME SInv, NEW s \in Services
    PROVE  FirstStamps(s) \subseteq 0..NoFile /\ StampNow(s) \in 0..NoFile
<1>1. mtime[s] \in 0..NoFile
  BY Marks DEF SInv, STypeOK
<1> QED
  BY <1>1, Marks DEF FirstStamps, StampNow

\* The service after cur, if there is one.
LEMMA NextOne ==
    ASSUME cur \in Services, (cur = N /\ cur' = 1) \/ (cur < N /\ cur' = cur + 1)
    PROVE  cur' \in Services
  BY SupervisorAssumption DEF Services

\* A step that leaves the processes alone.
LEMMA ListStays ==
    ASSUME SInv, UNCHANGED <<stop, listVars, fileVars>>, LoopTyped', Started'
    PROVE  SInv'
<1>1. OneProcess' /\ ListTyped' /\ FileTyped' /\ stop' \in BOOLEAN
  BY TypeParts DEF SInv, listVars, fileVars, OneProcess, ListTyped, FileTyped
<1> QED
  BY <1>1, TypePartsNext DEF SInv

LEMMA SNextInv == SInv /\ [SNext]_svars => SInv'
<1> SUFFICES ASSUME SInv, [SNext]_svars PROVE SInv'
  OBVIOUS
<1>0. /\ LoopTyped /\ ListTyped /\ FileTyped /\ stop \in BOOLEAN /\ Started
      /\ cur \in Services /\ 1 \in Services
  BY TypeParts, SupervisorAssumption DEF SInv, LoopTyped, Services
<1>1. CASE StartService
  <2>1. UNCHANGED <<cur, seen, restarted, stop, fileVars>> /\ boss = "start" /\ boss' = "started"
    BY <1>1 DEF StartService
  <2>2. ~held[cur] /\ Popen(cur)
    BY <1>0, <1>1, SupervisorAssumption DEF StartService, Started, Services
  <2>3. OneProcess' /\ ListTyped' /\ \A o \in Services \ {cur} : held'[o] = held[o]
    BY <1>0, <2>2, PopenKeeps
  <2>4. Started'
    <3>1. \A o \in (cur + 1)..N : o \in Services \ {cur} /\ o \in cur..N
      BY <1>0, SupervisorAssumption DEF Services
    <3> QED
      BY <1>0, <2>1, <2>3, <3>1 DEF Started
  <2>5. LoopTyped' /\ FileTyped' /\ stop' \in BOOLEAN
    BY <1>0, <2>1 DEF LoopTyped, FileTyped, fileVars
  <2> QED
    BY <2>3, <2>4, <2>5, TypePartsNext DEF SInv
<1>2. CASE RecordStarted
  <2>1. UNCHANGED <<seen, restarted, stop, fileVars>> /\ boss = "started"
    BY <1>2 DEF RecordStarted
  <2>2. PICK t \in FirstStamps(cur) : PutStamp(cur, t)
    BY <1>2 DEF RecordStarted
  <2>3. OneProcess' /\ ListTyped' /\ held' = held
    BY <1>0, <2>2, PutStampKeeps, StampTypes
  <2>4. \/ cur = N /\ boss' = "round" /\ cur' = 1
        \/ cur < N /\ boss' = "start" /\ cur' = cur + 1
    BY <1>0, <1>2, SupervisorAssumption DEF RecordStarted, Services
  <2>5. cur' \in Services
    BY <1>0, <2>4, NextOne
  <2>6. Started'
    BY <1>0, <2>1, <2>3, <2>4 DEF Started
  <2>7. LoopTyped' /\ FileTyped' /\ stop' \in BOOLEAN
    BY <1>0, <2>1, <2>4, <2>5 DEF LoopTyped, FileTyped, fileVars
  <2> QED
    BY <2>3, <2>6, <2>7, TypePartsNext DEF SInv
<1>3. CASE Respawn
  <2>1. /\ UNCHANGED <<cur, seen, restarted, stop, fileVars>>
        /\ boss' \in {"respawned", "reloaded"}
    BY <1>3 DEF Respawn
  <2>2. OneProcess' /\ ListTyped'
    BY <1>0, <1>3, PopenKeeps DEF Respawn, StopsFirst
  <2>3. LoopTyped' /\ FileTyped' /\ stop' \in BOOLEAN /\ Started'
    BY <1>0, <2>1 DEF LoopTyped, FileTyped, fileVars, Started
  <2> QED
    BY <2>2, <2>3, TypePartsNext DEF SInv
<1>4. CASE RecordRespawned \/ StampAgain
  <2>1. PICK t \in 0..NoFile : PutStamp(cur, t)
    BY <1>0, <1>4, StampTypes DEF RecordRespawned, StampAgain
  <2>2. OneProcess' /\ ListTyped' /\ held' = held
    BY <1>0, <2>1, PutStampKeeps
  <2>3. /\ UNCHANGED <<cur, seen, stop, fileVars>>
        /\ boss' \in {"compare", "stamp", "next"} /\ restarted' \in {TRUE, restarted}
    BY <1>4 DEF RecordRespawned, StampAgain
  <2>4. LoopTyped' /\ FileTyped' /\ stop' \in BOOLEAN /\ Started'
    BY <1>0, <2>3 DEF LoopTyped, FileTyped, fileVars, Started
  <2> QED
    BY <2>2, <2>4, TypePartsNext DEF SInv
<1>5. ASSUME NEW s \in Services, StopProcess(s), UNCHANGED <<loopVars, stop, fileVars>>
      PROVE  SInv'
  <2>1. OneProcess' /\ ListTyped' /\ \A o \in Services : held'[o] => held[o]
    BY <1>5, EndKeeps
  <2>2. UNCHANGED <<boss, cur, seen, restarted, stop, fileVars>>
    BY <1>5 DEF loopVars
  <2>3. LoopTyped' /\ FileTyped' /\ stop' \in BOOLEAN
    BY <1>0, <2>2 DEF LoopTyped, FileTyped, fileVars
  <2>4. Started'
    <3>1. /\ cur..N \subseteq Services /\ (cur + 1)..N \subseteq Services
          /\ 1..(cur - 1) \subseteq Services
      BY <1>0, SupervisorAssumption DEF Services
    <3>2. \A S \in SUBSET Services : (\A o \in S : ~held[o]) => \A o \in S : ~held'[o]
      BY <2>1
    <3> QED
      BY <1>0, <2>2, <3>1, <3>2 DEF Started
  <2> QED
    BY <2>1, <2>3, <2>4, TypePartsNext DEF SInv
<1>6. CASE StopHeld \/ StopService \/ \E s \in Services : Die(s) \/ ImportFails(s)
  BY <1>0, <1>5, <1>6 DEF StopHeld, StopService, Die, ImportFails, StopProcess
<1>7. CASE StartFails \/ BeginRound \/ RespawnFails
  <2>1. /\ UNCHANGED <<seen, restarted, stop, listVars, fileVars>>
        /\ \/ boss' = "failed"
           \/ boss' \in {"stop", "poll"} /\ cur' = 1
        /\ cur' \in Services
    BY <1>0, <1>7 DEF StartFails, BeginRound, RespawnFails
  <2>2. LoopTyped'
    BY <1>0, <2>1 DEF LoopTyped
  <2>3. Started'
    BY <2>1 DEF Started
  <2> QED
    BY <2>1, <2>2, <2>3, ListStays
<1>8. CASE Poll \/ CompareFile
  <2>1. /\ UNCHANGED <<cur, stop, listVars, fileVars>>
        /\ boss' \in {"compare", "respawn", "reload", "stamp", "next"}
        /\ seen' \in 0..NoFile /\ restarted' \in BOOLEAN
    BY <1>0, <1>8 DEF Poll, SeenInRecord, CompareFile, LoopTyped, ListTyped
  <2>2. LoopTyped' /\ Started'
    BY <1>0, <2>1 DEF LoopTyped, Started
  <2> QED
    BY <2>1, <2>2, ListStays
<1>9. CASE NextService
  <2>1. /\ UNCHANGED <<stop, listVars, fileVars>>
        /\ seen' = NoFile /\ restarted' = FALSE /\ boss' \in {"round", "poll"}
        /\ (cur = N /\ cur' = 1) \/ (cur < N /\ cur' = cur + 1)
    BY <1>0, <1>9, SupervisorAssumption DEF NextService, Services
  <2>2. cur' \in Services
    BY <1>0, <2>1, NextOne
  <2>3. LoopTyped' /\ Started'
    BY <2>1, <2>2, Marks DEF LoopTyped, Started
  <2> QED
    BY <2>1, <2>3, ListStays
<1>10. CASE StopNext
  <2>1. /\ UNCHANGED <<seen, restarted, stop, listVars, fileVars>> /\ boss = "stop" /\ ~held[cur]
        /\ \/ cur = N /\ boss' = "exited" /\ cur' = 1
           \/ cur < N /\ boss' = "stop" /\ cur' = cur + 1
    BY <1>0, <1>10, SupervisorAssumption DEF StopNext, LastToStop, Services
  <2>2. cur' \in Services
    BY <1>0, <2>1, NextOne
  <2>3. LoopTyped'
    BY <1>0, <2>1, <2>2 DEF LoopTyped
  <2>4. \A s \in 1..cur : ~held[s]
    <3>1. \A s \in 1..cur : s = cur \/ s \in 1..(cur - 1)
      BY <1>0 DEF Services
    <3> QED
      BY <1>0, <2>1, <3>1 DEF Started
  <2>5. Started'
    <3>1. held' = held
      BY <2>1 DEF listVars
    <3>2. CASE cur = N
      <4>1. boss' = "exited" /\ \A s \in Services : ~held'[s]
        BY <2>1, <2>4, <3>1, <3>2, SupervisorAssumption DEF Services
      <4> QED
        BY <4>1 DEF Started, Services
    <3>3. CASE cur < N
      <4>1. cur' - 1 = cur
        BY <1>0, <2>1, <3>3 DEF Services
      <4> QED
        BY <2>1, <2>4, <3>1, <3>3, <4>1 DEF Started
    <3> QED
      BY <2>1, <3>2, <3>3
  <2> QED
    BY <2>1, <2>3, <2>5, ListStays
<1>11. CASE RequestStop
  <2>1. STypeOK' /\ Started' /\ OneProcess'
    BY <1>0, <1>11, TypePartsNext
    DEF RequestStop, listVars, loopVars, fileVars, LoopTyped, ListTyped, FileTyped, Started,
        SInv, OneProcess
  <2> QED
    BY <2>1 DEF SInv
<1>12. ASSUME NEW s \in Services, ImportModule(s) PROVE SInv'
  <2>1. /\ UNCHANGED <<boss, cur, seen, restarted, stop, held, live, left, stamp, missed,
                       mtime, clock>>
        /\ loaded' = [loaded EXCEPT ![s] = mtime[s]]
    BY <1>12 DEF ImportModule, loopVars, fileVars
  <2>2. mtime[s] \in 0..NotYet
    BY <1>0, Marks DEF FileTyped
  <2>3. ListTyped'
    BY <1>0, <2>1, <2>2 DEF ListTyped
  <2>4. LoopTyped' /\ FileTyped' /\ stop' \in BOOLEAN /\ Started' /\ OneProcess'
    BY <1>0, <2>1 DEF LoopTyped, FileTyped, Started, SInv, OneProcess
  <2> QED
    BY <2>3, <2>4, TypePartsNext DEF SInv
<1>13. ASSUME NEW s \in Services, LeftEnds(s) PROVE SInv'
  <2>1. /\ UNCHANGED <<boss, cur, seen, restarted, stop, held, stamp, loaded, missed,
                       mtime, clock>>
        /\ left' = [left EXCEPT ![s] = @ - 1] /\ live' = [live EXCEPT ![s] = @ - 1]
        /\ left[s] > 0
    BY <1>13 DEF LeftEnds, loopVars, fileVars
  <2>2. live[s] = left[s] + (IF held[s] THEN 1 ELSE 0) /\ live[s] \in Nat /\ left[s] \in 0..MaxLeft
    BY <1>0 DEF SInv, OneProcess, ListTyped
  <2>3. left[s] - 1 \in 0..MaxLeft /\ live[s] - 1 \in Nat
    BY <2>1, <2>2, SupervisorAssumption
  <2>4. ListTyped'
    BY <1>0, <2>1, <2>3 DEF ListTyped
  <2>5. OneProcess'
    BY <1>0, <2>1, <2>2 DEF SInv, OneProcess, ListTyped
  <2>6. LoopTyped' /\ FileTyped' /\ stop' \in BOOLEAN /\ Started'
    BY <1>0, <2>1 DEF LoopTyped, FileTyped, Started
  <2> QED
    BY <2>4, <2>5, <2>6, TypePartsNext DEF SInv
<1>14. ASSUME NEW s \in Services, Edit(s) \/ Remove(s) PROVE SInv'
  <2>1. UNCHANGED <<boss, cur, seen, restarted, stop, listVars>>
    BY <1>14 DEF Edit, Remove, loopVars
  <2>2. FileTyped'
    <3>1. CASE Edit(s)
      <4>1. clock' = clock + 1 /\ mtime' = [mtime EXCEPT ![s] = clock + 1] /\ clock < MaxEdits
        BY <3>1 DEF Edit
      <4>2. clock + 1 \in Times
        BY <1>0, <4>1, SupervisorAssumption DEF FileTyped, Times
      <4> QED
        BY <1>0, <4>1, <4>2, Marks DEF FileTyped
    <3>2. CASE Remove(s)
      <4>1. None \in 0..None
        BY Marks
      <4> QED
        BY <1>0, <3>2, <4>1 DEF FileTyped, Remove
    <3> QED
      BY <1>14, <3>1, <3>2
  <2>3. LoopTyped' /\ ListTyped' /\ stop' \in BOOLEAN /\ Started' /\ OneProcess'
    BY <1>0, <2>1 DEF LoopTyped, ListTyped, listVars, Started, SInv, OneProcess
  <2> QED
    BY <2>2, <2>3, TypePartsNext DEF SInv
<1>15. CASE UNCHANGED svars
  <2>1. LoopTyped' /\ Started' /\ UNCHANGED <<stop, listVars, fileVars>>
    BY <1>0, <1>15 DEF svars, listVars, loopVars, LoopTyped, Started
  <2> QED
    BY <2>1, ListStays
<1> QED
  BY <1>1, <1>2, <1>3, <1>4, <1>6, <1>7, <1>8, <1>9, <1>10, <1>11, <1>12, <1>13, <1>14, <1>15
  DEF SNext, BossStep, ProcessStep

----------------------------------------------------------------------------
\* A supervised fleet and a worker by itself are each what their modules say.
LEMMA FleetIsSupervised == FSpec => SSpec
<1>1. FInit => SInit
  BY DEF FInit
<1>2. [FNext]_fvars => [SNext]_svars
  BY DEF FNext, Supervise, Disturbance, RunByHand, Beat, SNext, ProcessStep, fvars
<1> QED
  BY <1>1, <1>2, PTL DEF FSpec, SSpec

LEMMA FleetBeats == FSpec => Spec
<1>1. FInit => Init
  BY DEF FInit
<1>2. [FNext]_fvars => [Next]_vars
  BY DEF FNext, Supervise, HeartbeatFollows, RunByHand, Beat, Next, fvars
<1> QED
  BY <1>1, <1>2, PTL DEF FSpec, Spec

\* The supervisor holds the only process of each service but for those it gave
\* up, however processes die, files change and rounds respawn twice, and leaves
\* no other when it stops.
THEOREM FleetLeavesNoStray == FSpec => []NoStrayProcess
<1>1. SInv => NoStrayProcess
  <2> SUFFICES ASSUME SInv PROVE NoStrayProcess
    OBVIOUS
  <2>1. \A s \in Services : left[s] \in Nat
    BY SupervisorAssumption DEF SInv, STypeOK
  <2> QED
    BY <2>1 DEF SInv, Started, OneProcess, StopLeavesNone, NoStrayProcess
<1> QED
  BY FleetIsSupervised, SInitInv, SNextInv, <1>1, PTL DEF SSpec

\* Where both are times, t is not after u.
NotAfter(t, u) == t \in Times /\ u \in Times => t <= u

\* What the stamp of a service says of its file and of its process.
StampsOf(s) ==
    /\ NotAfter(mtime[s], clock) /\ NotAfter(stamp[s], clock) /\ NotAfter(loaded[s], clock)
    /\ NotAfter(stamp[s], mtime[s]) /\ NotAfter(loaded[s], mtime[s])
    /\ ~missed[s] => NotAfter(stamp[s], loaded[s])

\* What the stamp a turn began with says of them.  A process that was started in
\* the turn imported what was there after that stamp.
StampOfTurn ==
    /\ boss \in {"respawn", "respawned", "compare"} =>
           NotAfter(seen, clock) /\ NotAfter(seen, mtime[cur])
    /\ boss \in {"respawn", "respawned"} => ~restarted
    /\ boss = "respawned" \/ (boss = "compare" /\ restarted) => NotAfter(seen, loaded[cur])
    /\ boss = "compare" /\ ~restarted => seen = stamp[cur]

Stamped == (\A s \in Services : StampsOf(s)) /\ StampOfTurn

\* What has no code has none from before a time.
LEMMA NotYetIsNoTime == \A t : NotAfter(t, NotYet) /\ NotAfter(NotYet, t)
  BY Marks DEF NotAfter

LEMMA NoneIsNoTime == \A t : NotAfter(t, None) /\ NotAfter(None, t)
  BY Marks DEF NotAfter

\* Starting a process, ending one and giving one up leave no code.
LEMMA NothingStamps ==
    ASSUME SInv, Stamped, NEW s \in Services, NothingLoaded(s), UNCHANGED <<stamp, fileVars>>
    PROVE  /\ \A o \in Services : StampsOf(o)'
           /\ loaded'[s] = NotYet
           /\ \A o \in Services \ {s} : loaded'[o] = loaded[o]
<1>1. /\ UNCHANGED <<stamp, mtime, clock>>
      /\ loaded'[s] = NotYet
      /\ \A o \in Services \ {s} : loaded'[o] = loaded[o] /\ missed'[o] = missed[o]
  BY DEF NothingLoaded, fileVars, SInv, STypeOK
<1>2. ASSUME NEW o \in Services PROVE StampsOf(o)'
  <2>1. CASE o = s
    BY <1>1, <2>1, NotYetIsNoTime DEF Stamped, StampsOf, NotAfter
  <2>2. CASE o # s
    BY <1>1, <2>2 DEF Stamped, StampsOf, NotAfter
  <2> QED
    BY <2>1, <2>2
<1> QED
  BY <1>1, <1>2

\* A stamp is put into a record: it is the file's, or no time.
LEMMA PutStamps ==
    ASSUME SInv, Stamped, NEW s \in Services, NEW t \in 0..NoFile, PutStamp(s, t),
           t \in Times => t = mtime[s], UNCHANGED fileVars
    PROVE  /\ \A o \in Services : StampsOf(o)'
           /\ loaded' = loaded
<1>1. /\ UNCHANGED <<loaded, mtime, clock>> /\ stamp'[s] = t
      /\ missed'[s] = (t \in Times /\ loaded[s] \notin {NotYet, t})
      /\ \A o \in Services \ {s} : stamp'[o] = stamp[o] /\ missed'[o] = missed[o]
  BY DEF PutStamp, fileVars, SInv, STypeOK
<1>2. ASSUME NEW o \in Services PROVE StampsOf(o)'
  <2>1. CASE o = s
    <3>1. NotAfter(t, clock) /\ NotAfter(t, mtime[s])
      BY Marks DEF Stamped, StampsOf, NotAfter
    <3>2. ASSUME ~missed'[s] PROVE NotAfter(t, loaded[s])
      <4>1. t \notin Times \/ loaded[s] = NotYet \/ loaded[s] = t
        BY <1>1, <3>2
      <4> QED
        BY <4>1, Marks DEF NotAfter
    <3> QED
      BY <1>1, <2>1, <3>1, <3>2 DEF Stamped, StampsOf, NotAfter
  <2>2. CASE o # s
    BY <1>1, <2>2 DEF Stamped, StampsOf, NotAfter
  <2> QED
    BY <2>1, <2>2
<1> QED
  BY <1>1, <1>2

LEMMA SNextStamped == SInv /\ Stamped /\ [SNext]_svars => Stamped'
<1> SUFFICES ASSUME SInv, Stamped, [SNext]_svars PROVE Stamped'
  OBVIOUS
<1>0. cur \in Services /\ clock \in Times /\ restarted \in BOOLEAN
      /\ \A o \in Services : mtime[o] \in 0..None
  BY DEF SInv, STypeOK
<1>1. CASE StartService
  <2>1. NothingLoaded(cur) /\ UNCHANGED <<stamp, fileVars>> /\ boss' = "started"
    BY <1>1 DEF StartService, Popen
  <2> QED
    BY <1>0, <2>1, NothingStamps DEF Stamped, StampOfTurn
<1>2. CASE Respawn
  <2>1. /\ NothingLoaded(cur) /\ UNCHANGED <<stamp, fileVars, cur, seen, restarted>>
        /\ boss' \in {"respawned", "reloaded"} /\ (boss' = "respawned" => boss = "respawn")
    BY <1>2 DEF Respawn, Popen
  <2>2. (\A o \in Services : StampsOf(o)') /\ loaded'[cur] = NotYet
    BY <1>0, <2>1, NothingStamps
  <2>3. StampOfTurn'
    BY <2>1, <2>2, NotYetIsNoTime DEF Stamped, StampOfTurn, NotAfter, fileVars
  <2> QED
    BY <2>2, <2>3 DEF Stamped
<1>3. CASE RecordStarted \/ RecordRespawned \/ StampAgain
  <2>1. PICK t \in 0..NoFile : PutStamp(cur, t) /\ (t \in Times => t = mtime[cur])
    BY <1>0, <1>3, Marks, StampTypes
    DEF RecordStarted, RecordRespawned, StampAgain, FirstStamps, StampNow
  <2>2. UNCHANGED fileVars
    BY <1>3 DEF RecordStarted, RecordRespawned, StampAgain
  <2>3. (\A o \in Services : StampsOf(o)') /\ loaded' = loaded
    BY <1>0, <2>1, <2>2, PutStamps
  <2>4. StampOfTurn'
    <3>1. CASE RecordStarted
      BY <3>1 DEF RecordStarted, StampOfTurn
    <3>2. CASE StampAgain
      BY <3>2 DEF StampAgain, StampOfTurn
    <3>3. CASE RecordRespawned
      BY <2>2, <2>3, <3>3 DEF RecordRespawned, Stamped, StampOfTurn, NotAfter, fileVars
    <3> QED
      BY <1>3, <3>1, <3>2, <3>3
  <2> QED
    BY <2>3, <2>4 DEF Stamped
<1>4. ASSUME NEW s \in Services, StopProcess(s), UNCHANGED <<loopVars, fileVars>>
      PROVE  Stamped'
  <2>1. NothingLoaded(s) /\ UNCHANGED stamp
    BY <1>4 DEF StopProcess, End, GiveUp
  <2>2. /\ \A o \in Services : StampsOf(o)'
        /\ loaded'[s] = NotYet /\ \A o \in Services \ {s} : loaded'[o] = loaded[o]
    BY <1>4, <2>1, NothingStamps
  <2>3. UNCHANGED <<boss, cur, seen, restarted, stamp, mtime, clock>>
    BY <1>4, <2>1 DEF loopVars, fileVars
  <2>4. NotAfter(seen, loaded'[cur]) \/ loaded'[cur] = loaded[cur]
    BY <1>0, <2>2, NotYetIsNoTime
  <2>5. StampOfTurn'
    BY <2>3, <2>4 DEF Stamped, StampOfTurn, NotAfter
  <2> QED
    BY <2>2, <2>5 DEF Stamped
<1>5. CASE StopHeld \/ StopService \/ \E s \in Services : Die(s) \/ ImportFails(s)
  BY <1>0, <1>4, <1>5 DEF StopHeld, StopService, Die, ImportFails, StopProcess
<1>6. ASSUME UNCHANGED <<stamp, loaded, missed, mtime, clock>>, StampOfTurn' PROVE Stamped'
  BY <1>6 DEF Stamped, StampsOf, NotAfter
<1>7. CASE \/ StartFails \/ BeginRound \/ RespawnFails \/ CompareFile \/ NextService \/ StopNext
  <2>1. UNCHANGED <<stamp, loaded, missed, mtime, clock>>
    BY <1>7
    DEF StartFails, BeginRound, RespawnFails, CompareFile, NextService, StopNext, listVars,
        fileVars
  <2>2. boss' \notin {"respawn", "respawned", "compare"}
    BY <1>7 DEF StartFails, BeginRound, RespawnFails, CompareFile, NextService, StopNext
  <2> QED
    BY <1>6, <2>1, <2>2 DEF StampOfTurn
<1>8. CASE Poll
  <2>1. /\ UNCHANGED <<cur, stamp, loaded, missed, mtime, clock>>
        /\ seen' = stamp[cur] /\ ~restarted' /\ boss' \in {"compare", "respawn"}
    BY <1>8 DEF Poll, SeenInRecord, listVars, fileVars
  <2>2. NotAfter(stamp[cur], clock) /\ NotAfter(stamp[cur], mtime[cur])
    BY <1>0 DEF Stamped, StampsOf
  <2>3. StampOfTurn'
    BY <2>1, <2>2 DEF StampOfTurn, NotAfter
  <2> QED
    BY <1>6, <2>1, <2>3
<1>9. CASE RequestStop \/ UNCHANGED svars \/ \E s \in Services : LeftEnds(s)
  <2>1. UNCHANGED <<boss, cur, seen, restarted, stamp, loaded, missed, mtime, clock>>
    BY <1>9 DEF RequestStop, LeftEnds, svars, loopVars, listVars, fileVars
  <2>2. StampOfTurn'
    BY <2>1 DEF Stamped, StampOfTurn, NotAfter
  <2> QED
    BY <1>6, <2>1, <2>2
<1>10. ASSUME NEW s \in Services, ImportModule(s) PROVE Stamped'
  <2>1. /\ UNCHANGED <<boss, cur, seen, restarted, stamp, missed, mtime, clock>>
        /\ loaded'[s] = mtime[s] /\ \A o \in Services \ {s} : loaded'[o] = loaded[o]
    BY <1>10 DEF ImportModule, loopVars, fileVars, SInv, STypeOK
  <2>2. mtime[s] \in Times
    BY <1>0, <1>10, Marks DEF ImportModule
  <2>3. ASSUME NEW o \in Services PROVE StampsOf(o)'
    <3>1. CASE o = s
      <4>1. NotAfter(mtime[s], mtime[s])
        <5>1. mtime[s] \in Nat
          BY <2>2, Marks
        <5> QED
          BY <5>1 DEF NotAfter
      <4>2. NotAfter(mtime[s], clock) /\ NotAfter(stamp[s], clock) /\ NotAfter(stamp[s], mtime[s])
        BY DEF Stamped, StampsOf
      <4> QED
        BY <2>1, <3>1, <4>1, <4>2 DEF StampsOf, NotAfter
    <3>2. CASE o # s
      BY <2>1, <3>2 DEF Stamped, StampsOf, NotAfter
    <3> QED
      BY <3>1, <3>2
  <2>4. StampOfTurn'
    <3>1. CASE cur = s
      BY <2>1, <3>1 DEF Stamped, StampOfTurn, NotAfter
    <3>2. CASE cur # s
      BY <1>0, <2>1, <3>2 DEF Stamped, StampOfTurn, NotAfter
    <3> QED
      BY <3>1, <3>2
  <2> QED
    BY <2>3, <2>4 DEF Stamped
<1>11. ASSUME NEW s \in Services, Edit(s) PROVE Stamped'
  <2>1. /\ UNCHANGED <<boss, cur, seen, restarted, stamp, loaded, missed>>
        /\ clock' = clock + 1 /\ mtime'[s] = clock + 1
        /\ \A o \in Services \ {s} : mtime'[o] = mtime[o]
    BY <1>11 DEF Edit, loopVars, listVars, SInv, STypeOK
  <2>2. \A t : NotAfter(t, clock) => NotAfter(t, clock + 1)
    BY <1>0, SupervisorAssumption DEF NotAfter, Times
  <2>3. ASSUME NEW o \in Services PROVE StampsOf(o)'
    <3>1. /\ NotAfter(mtime[o], clock + 1) /\ NotAfter(stamp[o], clock + 1)
          /\ NotAfter(loaded[o], clock + 1)
      BY <2>2 DEF Stamped, StampsOf
    <3>2. NotAfter(clock + 1, clock + 1)
      BY <1>0, Marks DEF NotAfter
    <3>3. CASE o = s
      BY <2>1, <3>1, <3>2, <3>3 DEF Stamped, StampsOf, NotAfter
    <3>4. CASE o # s
      BY <2>1, <3>1, <3>4 DEF Stamped, StampsOf, NotAfter
    <3> QED
      BY <3>3, <3>4
  <2>4. StampOfTurn'
    <3>1. boss \in {"respawn", "respawned", "compare"} =>
              NotAfter(seen, clock + 1) /\ NotAfter(seen, mtime'[cur])
      <4>1. ASSUME boss \in {"respawn", "respawned", "compare"}
            PROVE  NotAfter(seen, clock + 1) /\ NotAfter(seen, mtime[cur])
        BY <2>2, <4>1 DEF Stamped, StampOfTurn
      <4>2. mtime'[cur] \in {clock + 1, mtime[cur]}
        BY <1>0, <2>1
      <4> QED
        BY <4>1, <4>2
    <3> QED
      BY <2>1, <3>1 DEF Stamped, StampOfTurn, NotAfter
  <2> QED
    BY <2>3, <2>4 DEF Stamped
<1>12. ASSUME NEW s \in Services, Remove(s) PROVE Stamped'
  <2>1. /\ UNCHANGED <<boss, cur, seen, restarted, stamp, loaded, missed, clock>>
        /\ mtime'[s] = None /\ \A o \in Services \ {s} : mtime'[o] = mtime[o]
    BY <1>12 DEF Remove, loopVars, listVars, SInv, STypeOK
  <2>2. ASSUME NEW o \in Services PROVE StampsOf(o)'
    <3>1. CASE o = s
      BY <2>1, <3>1, NoneIsNoTime DEF Stamped, StampsOf, NotAfter
    <3>2. CASE o # s
      BY <2>1, <3>2 DEF Stamped, StampsOf, NotAfter
    <3> QED
      BY <3>1, <3>2
  <2>3. StampOfTurn'
    <3>1. NotAfter(seen, mtime'[cur]) \/ mtime'[cur] = mtime[cur]
      BY <1>0, <2>1, NoneIsNoTime
    <3> QED
      BY <2>1, <3>1 DEF Stamped, StampOfTurn, NotAfter
  <2> QED
    BY <2>2, <2>3 DEF Stamped
<1> QED
  BY <1>1, <1>2, <1>3, <1>5, <1>7, <1>8, <1>9, <1>10, <1>11, <1>12
  DEF SNext, BossStep, ProcessStep

\* Where a turn finds its file unchanged, the process has the code of the file:
\* the stamp and the file's time enclose what the process has imported.
LEMMA SStepReloads ==
    ASSUME SInv, Stamped, [SNext]_svars, boss = "compare", boss' \in {"stamp", "next"}
    PROVE  \/ loaded[cur] \in {NotYet, mtime[cur]}
           \/ missed[cur] /\ ~restarted
           \/ seen \notin Times
           \/ mtime[cur] = None
<1>1. CompareFile
  BY DEF SNext, BossStep, StartService, RecordStarted, StartFails, BeginRound, Poll, StopHeld,
         Respawn, RecordRespawned, RespawnFails, StampAgain, NextService, StopService,
         StopNext, RequestStop, Die, ProcessStep, ImportModule, ImportFails, LeftEnds, Edit,
         Remove, loopVars, svars
<1>2. cur \in Services /\ mtime[cur] \in 0..None /\ loaded[cur] \in 0..NotYet
  BY DEF SInv, STypeOK
<1>3. ASSUME ~(missed[cur] /\ ~restarted), seen \in Times, mtime[cur] # None,
             loaded[cur] # NotYet
      PROVE  loaded[cur] = mtime[cur]
  <2>1. seen = mtime[cur]
    BY <1>1, <1>3 DEF CompareFile, HasChanged
  <2>2. loaded[cur] \in Times /\ loaded[cur] <= mtime[cur]
    BY <1>2, <1>3, <2>1, Marks DEF Stamped, StampsOf, NotAfter
  <2>3. seen <= loaded[cur]
    <3>1. CASE restarted
      BY <1>3, <2>2, <3>1 DEF Stamped, StampOfTurn, NotAfter
    <3>2. CASE ~restarted
      <4>1. seen = stamp[cur]
        BY <3>2 DEF Stamped, StampOfTurn
      <4> QED
        BY <1>2, <1>3, <2>2, <3>2, <4>1 DEF Stamped, StampsOf, NotAfter
    <3> QED
      BY <3>1, <3>2
  <2>4. mtime[cur] \in Nat /\ loaded[cur] \in Nat
    BY <1>2, Marks
  <2> QED
    BY <2>1, <2>2, <2>3, <2>4
<1> QED
  BY <1>3

\* A turn never ends with a process that runs old code, however edits, imports,
\* deaths and the two respawns of a turn fall, unless the record it began with
\* cannot tell: an edit fell between the import and the stamp, or it has none.
THEOREM FleetReloadsStale == FSpec => StaleIsReloaded
<1>1. SInit => Stamped
  <2> SUFFICES ASSUME SInit PROVE Stamped
    OBVIOUS
  <2>1. StampOfTurn
    BY DEF SInit, StampOfTurn
  <2>2. ASSUME NEW s \in Services PROVE StampsOf(s)
    BY <2>2, Marks, NotYetIsNoTime DEF SInit, StampsOf, NotAfter
  <2> QED
    BY <2>1, <2>2 DEF Stamped
<1>2. SSpec => [](SInv /\ Stamped)
  BY SInitInv, SNextInv, <1>1, SNextStamped, PTL DEF SSpec
<1>3. SInv /\ Stamped /\ [SNext]_svars =>
          [ boss = "compare" /\ boss' \in {"stamp", "next"} =>
                \/ loaded[cur] \in {NotYet, mtime[cur]}
                \/ missed[cur] /\ ~restarted
                \/ seen \notin Times
                \/ mtime[cur] = None ]_svars
  BY SStepReloads
<1>4. SSpec => StaleIsReloaded
  BY <1>2, <1>3, PTL DEF SSpec, StaleIsReloaded
<1> QED
  BY FleetIsSupervised, <1>4, PTL

----------------------------------------------------------------------------
(* The heartbeat.                                                          *)

\* What the constants give for the runtime of the worker.
LEMMA RuntimeTypes ==
    ASSUME runtime \in Runtimes
    PROVE  /\ Interval[runtime] \in Nat \ {0} /\ MaxDelay[runtime] \in Nat
           /\ runtime \in {"python", "java", "node"}
           /\ Announced \in Nat /\ Lease \in Nat
<1> USE IntervalAssumption
<1>1. Interval[runtime] \in Nat \ {0} /\ MaxDelay[runtime] \in Nat
  OBVIOUS
<1>2. \A a \in Nat, b \in Nat \ {0} : a \div b \in Nat
  OBVIOUS
<1>3. Announced \in Nat
  <2>1. Second \div 2 \in Nat
    OBVIOUS
  <2> DEFINE whole == (Interval[runtime] + Second \div 2) \div Second
  <2>2. whole \in Nat
    <3>1. Interval[runtime] + Second \div 2 \in Nat
      BY <1>1, <2>1
    <3> QED
      BY <1>2, <3>1
  <2> HIDE DEF whole
  <2>3. whole * Second \in Nat
    BY <2>2
  <2> QED
    BY <2>3 DEF Announced, whole
<1>4. Lease \in Nat
  <2> DEFINE told == Announced \div Second
  <2>1. told \in Nat
    BY <1>2, <1>3
  <2> HIDE DEF told
  <2> DEFINE granted == (told * Grace) \div GraceParts
  <2>2. granted \in Nat
    <3>1. told * Grace \in Nat
      BY <2>1
    <3> QED
      BY <1>2, <3>1
  <2> HIDE DEF granted
  <2>3. granted * Second \in Nat
    BY <2>2
  <2> QED
    BY <2>3 DEF Lease, GracePeriod, granted, told
<1> QED
  BY <1>1, <1>3, <1>4

\* The types, and what a process that does not run has: no clock, no debt, no
\* send of its own.
BeatTyped ==
    /\ TypeOK
    /\ ~alive => timer = Off /\ due = 0 /\ Own = {} /\ ~fresh

LEMMA InitBeatTyped == Init => BeatTyped
<1> SUFFICES ASSUME Init PROVE BeatTyped
  OBVIOUS
<1>1. Lease \in Nat /\ Interval[runtime] \in Nat /\ MaxDelay[runtime] \in Nat
  BY RuntimeTypes DEF Init
<1>2. TypeOK
  <2>1. Idle \in [at : SendStates, age : 0..MaxDelay[runtime]]
    BY <1>1 DEF Idle, SendStates
  <2>2. Off \in Off..Interval[runtime] /\ Over \in Over..Lease
    BY <1>1 DEF Off, Over
  <2> QED
    BY <2>1, <2>2 DEF Init, TypeOK
<1>3. Own = {}
  BY DEF Init, Own, Idle
<1> QED
  BY <1>2, <1>3 DEF Init, BeatTyped

\* One send changes.
LEMMA OneSend ==
    ASSUME TypeOK, NEW s \in Sends, NEW r \in [at : SendStates, age : 0..MaxDelay[runtime]],
           send' = [send EXCEPT ![s] = r]
    PROVE  /\ send' \in [Sends -> [at : SendStates, age : 0..MaxDelay[runtime]]]
           /\ send'[s] = r /\ \A t \in Sends \ {s} : send'[t] = send[t]
  BY DEF TypeOK

LEMMA NextBeatTyped == BeatTyped /\ [Next]_vars => BeatTyped'
<1> SUFFICES ASSUME BeatTyped, [Next]_vars PROVE BeatTyped'
  OBVIOUS
<1>1. /\ Interval[runtime] \in Nat \ {0} /\ MaxDelay[runtime] \in Nat /\ Lease \in Nat
      /\ TypeOK /\ runtime \in Runtimes /\ 0 \in 0..MaxDelay[runtime]
      /\ runtime \in {"python", "java", "node"}
  BY RuntimeTypes DEF BeatTyped, TypeOK
<1>2. runtime' = runtime
  BY DEF Next, Start, Crash, WorkerStep, BecomesDue, SendHeartbeat, ReturnOf, NetworkStep,
         Receive, Lose, CalmChanges, Tick, vars
<1>3. Lease' = Lease
  BY <1>2 DEF Lease, GracePeriod, Announced
<1>4. Idle \in [at : SendStates, age : 0..MaxDelay[runtime]]
      /\ Out \in [at : SendStates, age : 0..MaxDelay[runtime]]
  BY <1>1 DEF Idle, Out, SendStates
<1> USE <1>1, <1>2, <1>3 DEF BeatTyped
<1>5. CASE Start
  <2>1. send' \in [Sends -> [at : SendStates, age : 0..MaxDelay[runtime]]]
    BY <1>4, <1>5 DEF Start, TypeOK
  <2>2. timer' \in Off..Interval[runtime] /\ lease' \in Over..Lease
    BY <1>5 DEF Start, TypeOK, Off, Over
  <2> QED
    BY <1>5, <2>1, <2>2 DEF Start, TypeOK
<1>6. CASE Crash
  <2>1. send' \in [Sends -> [at : SendStates, age : 0..MaxDelay[runtime]]]
    BY <1>4, <1>6 DEF Crash, Stray, TypeOK, SendStates
  <2>2. Own' = {}
    BY <1>6 DEF Crash, Stray, Own, Idle, TypeOK
  <2>3. timer' \in Off..Interval[runtime]
    BY <1>6 DEF Crash, Off
  <2> QED
    BY <1>6, <2>1, <2>2, <2>3 DEF Crash, TypeOK
<1>7. CASE BecomesDue
  <2>1. alive
    BY <1>7 DEF BecomesDue, Off
  <2>2. timer' \in Off..Interval[runtime] /\ due' \in Nat
    BY <1>7 DEF BecomesDue, TypeOK, Off
  <2> QED
    BY <1>7, <2>1, <2>2 DEF BecomesDue, TypeOK
<1>8. ASSUME NEW s \in Sends, SendHeartbeat(s) PROVE BeatTyped'
  <2>1. send' \in [Sends -> [at : SendStates, age : 0..MaxDelay[runtime]]]
    BY <1>4, <1>8 DEF SendHeartbeat, TypeOK
  <2>2. timer' \in Off..Interval[runtime]
    BY <1>8 DEF SendHeartbeat, TypeOK, Off
  <2>3. due' \in Nat
    BY <1>8 DEF SendHeartbeat, MaySend, TypeOK
  <2> QED
    BY <1>8, <2>1, <2>2, <2>3 DEF SendHeartbeat, TypeOK
<1>9. ASSUME NEW s \in Sends, ReturnOf(s) PROVE BeatTyped'
  <2>1. alive
    BY <1>9 DEF ReturnOf, Own
  <2>2. send' \in [Sends -> [at : SendStates, age : 0..MaxDelay[runtime]]]
    BY <1>4, <1>9 DEF ReturnOf, TypeOK
  <2>3. timer' \in Off..Interval[runtime]
    BY <1>9 DEF ReturnOf, AfterSend, TypeOK, Off
  <2> QED
    BY <1>9, <2>1, <2>2, <2>3 DEF ReturnOf, TypeOK
<1>10. ASSUME NEW s \in Sends, Receive(s) PROVE BeatTyped'
  <2>1. lease' \in Over..Lease
    BY <1>10 DEF Receive, Over
  <2>2. CASE send[s].at = "out"
    <3>1. alive
      BY <2>2 DEF Own
    <3>2. [send[s] EXCEPT !.at = "back"] \in [at : SendStates, age : 0..MaxDelay[runtime]]
      BY DEF TypeOK, SendStates
    <3>3. send' \in [Sends -> [at : SendStates, age : 0..MaxDelay[runtime]]]
      BY <1>10, <2>2, <3>2 DEF Receive, TypeOK
    <3> QED
      BY <1>10, <2>1, <2>2, <3>1, <3>3 DEF Receive, TypeOK
  <2>3. CASE send[s].at # "out"
    <3>1. send' \in [Sends -> [at : SendStates, age : 0..MaxDelay[runtime]]]
          /\ send' = [send EXCEPT ![s] = Idle]
      BY <1>4, <1>10, <2>3 DEF Receive, TypeOK
    <3>2. Own = {} => Own' = {}
      BY <3>1 DEF Own, Idle, TypeOK
    <3> QED
      BY <1>10, <2>1, <2>3, <3>1, <3>2 DEF Receive, TypeOK
  <2> QED
    BY <2>2, <2>3
<1>11. ASSUME NEW s \in Sends, Lose(s) PROVE BeatTyped'
  <2>1. send' \in [Sends -> [at : SendStates, age : 0..MaxDelay[runtime]]]
        /\ send' = [send EXCEPT ![s] = Idle]
    BY <1>4, <1>11 DEF Lose, TypeOK
  <2>2. Own = {} => Own' = {}
    BY <2>1 DEF Own, Idle, TypeOK
  <2>3. send[s].at = "out" => alive
    BY DEF Own
  <2>4. timer' \in Off..Interval[runtime]
    BY <1>11 DEF Lose, AfterFailure, AfterSend, TypeOK, Off
  <2> QED
    BY <1>11, <2>1, <2>2, <2>3, <2>4 DEF Lose, TypeOK
<1>12. CASE Tick
  <2>1. \A s \in Sends : Older(s) \in [at : SendStates, age : 0..MaxDelay[runtime]]
    BY <1>4, <1>12 DEF Tick, Urgent, TimedOut, Older, TypeOK
  <2>2. send' \in [Sends -> [at : SendStates, age : 0..MaxDelay[runtime]]]
    BY <1>12, <2>1 DEF Tick
  <2>3. timer' \in Off..Interval[runtime] /\ lease' \in Over..Lease
    BY <1>12 DEF Tick, Urgent, TypeOK, Off, Over
  <2>4. Own = {} => Own' = {}
    BY <1>12 DEF Tick, Older, Own, Idle, TypeOK
  <2> QED
    BY <1>12, <2>2, <2>3, <2>4 DEF Tick, TypeOK, Off
<1>13. CASE CalmChanges
  BY <1>13 DEF CalmChanges, TypeOK, Own
<1>14. CASE UNCHANGED vars
  BY <1>14 DEF vars, TypeOK, Own
<1> QED
  BY <1>5, <1>6, <1>7, <1>8, <1>9, <1>10, <1>11, <1>12, <1>13, <1>14
  DEF Next, WorkerStep, NetworkStep

----------------------------------------------------------------------------
(* How much of the lease is left, by what the worker is doing.             *)

\* Python and Java have one send under way at most, Python only while its clock
\* stands still; the clocks of Java and Node never do.
Shape ==
    /\ runtime \in {"python", "java"} => \A s, t \in Own : s = t
    /\ runtime = "python" /\ timer # Off => Own = {}
    /\ runtime \in {"java", "node"} /\ alive => timer # Off

\* From a receipt to the start of the next send.
LongestWait ==
    CASE runtime = "python" -> MaxDelay[runtime] + Interval[runtime]
      [] runtime = "java" -> IF Interval[runtime] < MaxDelay[runtime]
                             THEN MaxDelay[runtime] ELSE Interval[runtime]
      [] runtime = "node" -> Interval[runtime]

\* The next send is on its way, ...
LeftOut(s) == send[s].at = "out" /\ lease >= Lease - LongestWait - send[s].age
\* ... the last one is coming back, ...
LeftBack(s) == send[s].at = "back" /\ lease >= Lease - send[s].age
\* ... the clock runs to the next one, ...
LeftOnClock ==
    timer # Off /\ lease >= Lease - LongestWait + timer
\* ... or it is late.
LeftLate == due > 0 /\ Own = {} /\ lease >= Lease - LongestWait

LeaseLeft ==
    fresh =>
        \/ \E s \in Sends : LeftOut(s)
        \/ runtime = "python" /\ (LeftOnClock \/ \E s \in Sends : LeftBack(s))
        \/ /\ runtime = "java"
           /\ \/ \E s \in Sends : LeftBack(s) /\ (due = 0 => LeftOnClock)
              \/ Own = {} /\ due = 0 /\ LeftOnClock
              \/ LeftLate
        \/ runtime = "node" /\ LeftOnClock

BeatInv == BeatTyped /\ Shape /\ LeaseLeft

\* The types hold in every behaviour of the fleet.
THEOREM FleetTyped == FSpec => []FTypeOK
<1>1. BeatTyped => TypeOK
  BY DEF BeatTyped
<1>2. SInv => STypeOK
  BY DEF SInv
<1> DEFINE OnOrOff == beats \in BOOLEAN
<1>3. TypeOK /\ STypeOK /\ OnOrOff => FTypeOK
  BY DEF FTypeOK
<1>4. FInit => OnOrOff
  BY DEF FInit
<1>5. OnOrOff /\ [FNext]_fvars => OnOrOff'
  BY DEF FNext, Supervise, RunByHand, Beat, fvars
<1> HIDE DEF OnOrOff
<1>6. FSpec => []OnOrOff
  BY <1>4, <1>5, PTL DEF FSpec
<1> QED
  BY FleetIsSupervised, FleetBeats, InitBeatTyped, NextBeatTyped, SInitInv, SNextInv,
     <1>1, <1>2, <1>3, <1>6, PTL DEF Spec, SSpec

LEMMA NextShape == BeatTyped /\ Shape /\ [Next]_vars => Shape'
<1> SUFFICES ASSUME BeatTyped, Shape, [Next]_vars PROVE Shape'
  OBVIOUS
<1>1. /\ Interval[runtime] \in Nat \ {0} /\ TypeOK
      /\ runtime \in {"python", "java", "node"}
  BY RuntimeTypes DEF BeatTyped, TypeOK
<1>2. runtime' = runtime
  BY DEF Next, Start, Crash, WorkerStep, BecomesDue, SendHeartbeat, ReturnOf, NetworkStep,
         Receive, Lose, CalmChanges, Tick, vars
<1> USE <1>1, <1>2
<1>3. CASE Start
  <2>1. Own' = {}
    BY <1>3 DEF Start, Own, Idle, BeatTyped
  <2> QED
    BY <1>3, <2>1 DEF Start, Shape, Off
<1>4. CASE Crash
  <2>1. Own' = {}
    BY <1>4 DEF Crash, Stray, Own, Idle
  <2> QED
    BY <1>4, <2>1 DEF Crash, Shape, Off
<1>5. CASE BecomesDue
  <2>1. Own' = Own
    BY <1>5 DEF BecomesDue, Own
  <2>2. timer' # Off
    BY <1>5 DEF BecomesDue, Off
  <2> QED
    BY <1>5, <2>1, <2>2 DEF BecomesDue, Shape
<1>6. ASSUME NEW s \in Sends, SendHeartbeat(s) PROVE Shape'
  <2>1. \A t \in Sends : t \in Own' <=> t = s \/ t \in Own
    BY <1>6 DEF SendHeartbeat, Own, Out, TypeOK
  <2>2. runtime \in {"python", "java"} => Own = {}
    BY <1>6 DEF SendHeartbeat, MaySend, Shape, Off
  <2>3. runtime \in {"python", "java"} => \A t, u \in Own' : t = u
    BY <2>1, <2>2 DEF Own
  <2>4. runtime = "python" => timer' = Off
    BY <1>6 DEF SendHeartbeat
  <2>5. runtime \in {"java", "node"} => timer' # Off
    BY <1>6 DEF SendHeartbeat, Shape, Off
  <2> QED
    BY <2>3, <2>4, <2>5 DEF Shape
<1>7. ASSUME NEW s \in Sends, \A t \in Sends : t \in Own' => t \in Own,
             timer' = timer, alive' = alive
      PROVE  Shape'
  BY <1>7 DEF Shape, Own
<1>8. ASSUME NEW s \in Sends, s \in Own, send' = [send EXCEPT ![s] = Idle],
             timer' = AfterSend, alive' = alive
      PROVE  Shape'
  <2>1. \A t \in Sends : t \in Own' <=> t \in Own /\ t # s
    BY <1>8 DEF Own, Idle, TypeOK
  <2>2. runtime = "python" => Own' = {}
    BY <1>8, <2>1 DEF Shape, Own
  <2> QED
    BY <1>8, <2>1, <2>2 DEF Shape, AfterSend, Own
<1>9. ASSUME NEW s \in Sends, ReturnOf(s) PROVE Shape'
  <2>1. s \in Own
    BY <1>9 DEF ReturnOf, Own
  <2> QED
    BY <1>8, <1>9, <2>1 DEF ReturnOf
<1>10. ASSUME NEW s \in Sends, Receive(s) PROVE Shape'
  <2>1. \A t \in Sends : t \in Own' => t \in Own
    BY <1>10 DEF Receive, Own, Idle, TypeOK
  <2> QED
    BY <1>7, <1>10, <2>1 DEF Receive
<1>11. ASSUME NEW s \in Sends, Lose(s) PROVE Shape'
  <2>1. CASE send[s].at = "out"
    <3>1. s \in Own
      BY <2>1 DEF Own
    <3> QED
      BY <1>8, <1>11, <2>1, <3>1 DEF Lose, AfterFailure
  <2>2. CASE send[s].at # "out"
    <3>1. \A t \in Sends : t \in Own' => t \in Own
      BY <1>11 DEF Lose, Own, Idle, TypeOK
    <3> QED
      BY <1>7, <1>11, <2>2, <3>1 DEF Lose
  <2> QED
    BY <2>1, <2>2
<1>12. CASE Tick
  <2>1. \A t \in Sends : t \in Own' <=> t \in Own
    BY <1>12 DEF Tick, Older, Own, Idle
  <2>2. timer' = Off <=> timer = Off
    BY <1>12 DEF Tick, Urgent, TypeOK, Off
  <2> QED
    BY <1>12, <2>1, <2>2 DEF Tick, Shape, Own
<1>13. CASE CalmChanges \/ UNCHANGED vars
  BY <1>13 DEF CalmChanges, vars, Shape, Own
<1> QED
  BY <1>3, <1>4, <1>5, <1>6, <1>9, <1>10, <1>11, <1>12, <1>13
  DEF Next, WorkerStep, NetworkStep

LEMMA WaitTypes ==
    ASSUME runtime \in Runtimes
    PROVE  /\ LongestWait \in Nat
           /\ LongestWait >= Interval[runtime]
           /\ runtime # "node" => LongestWait >= MaxDelay[runtime]
           /\ runtime = "python" => LongestWait = MaxDelay[runtime] + Interval[runtime]
  BY RuntimeTypes DEF LongestWait

\* The lease is renewed, and what the worker does next is as it was.
LEMMA ReceiveLeaves ==
    ASSUME BeatTyped, Shape, LeaseLeft, NEW s \in Sends, Receive(s), Shape', BeatTyped'
    PROVE  LeaseLeft'
<1> DEFINE wait == LongestWait
<1>1. /\ wait \in Nat /\ wait >= Interval[runtime] /\ Lease \in Nat
      /\ Interval[runtime] \in Nat /\ MaxDelay[runtime] \in Nat
      /\ runtime \in {"python", "java", "node"}
  BY WaitTypes, RuntimeTypes DEF BeatTyped, TypeOK
<1>2. runtime' = runtime /\ LongestWait' = wait /\ Lease' = Lease
  BY DEF Receive, LongestWait, Lease, GracePeriod, Announced
<1>3. /\ lease' = Lease /\ timer' = timer /\ due' = due /\ alive' = alive
      /\ timer \in Off..Interval[runtime] /\ due \in Nat
  BY DEF Receive, BeatTyped, TypeOK
<1>4. \A t \in Sends : send'[t].age \in Nat
  BY <1>1, <1>2 DEF BeatTyped, TypeOK
<1> HIDE DEF wait
<1>5. timer # Off => LeftOnClock'
  BY <1>1, <1>2, <1>3 DEF LeftOnClock, Off
<1>6. CASE send[s].at = "out"
  <2>1. send'[s].at = "back" /\ alive
    BY <1>6 DEF Receive, BeatTyped, TypeOK, Own
  <2>2. LeftBack(s)'
    BY <1>1, <1>2, <1>3, <1>4, <2>1 DEF LeftBack
  <2>3. runtime \in {"java", "node"} => LeftOnClock'
    BY <1>5, <2>1 DEF Shape
  <2> QED
    BY <1>1, <1>2, <2>2, <2>3 DEF LeaseLeft
<1>7. CASE send[s].at # "out"
  <2>1. send' = [send EXCEPT ![s] = Idle] /\ send[s].at = "stray" /\ fresh' = fresh
    BY <1>7 DEF Receive
  <2>2. \A t \in Sends : send[t].at \in {"out", "back"} => send'[t] = send[t]
    BY <2>1 DEF BeatTyped, TypeOK
  <2>3. Own' = Own
    BY <2>1 DEF BeatTyped, TypeOK, Own, Idle
  <2>4. \A t \in Sends : LeftOut(t) => LeftOut(t)'
    BY <1>1, <1>2, <1>3, <1>4, <2>2 DEF LeftOut
  <2>5. \A t \in Sends : LeftBack(t) => LeftBack(t)'
    BY <1>1, <1>2, <1>3, <1>4, <2>2 DEF LeftBack
  <2>6. LeftLate => LeftLate'
    BY <1>1, <1>2, <1>3, <2>3 DEF LeftLate
  <2>7. LeftOnClock => LeftOnClock'
    BY <1>5 DEF LeftOnClock
  <2> QED
    BY <1>2, <1>3, <2>1, <2>3, <2>4, <2>5, <2>6, <2>7 DEF LeaseLeft
<1> QED
  BY <1>6, <1>7

\* What is left of the lease shrinks with time, and so does what is left to wait.
LEMMA TickLeaves ==
    ASSUME BeatTyped, Shape, LeaseLeft, Tick, BeatTyped'
    PROVE  LeaseLeft'
<1> DEFINE wait == LongestWait
<1>1. wait \in Nat /\ Lease \in Nat /\ Interval[runtime] \in Nat
  BY WaitTypes, RuntimeTypes DEF BeatTyped, TypeOK
<1>2. /\ runtime' = runtime /\ LongestWait' = wait /\ Lease' = Lease
      /\ fresh' = fresh /\ due' = due
  BY DEF Tick, LongestWait, Lease, GracePeriod, Announced
<1>3. /\ lease \in Int /\ lease' \in Int /\ lease' >= lease - 1
      /\ timer \in Int /\ timer # 0
      /\ timer' = IF timer = Off THEN Off ELSE timer - 1
      /\ timer >= Off
  BY <1>1, <1>2 DEF Tick, Urgent, BeatTyped, TypeOK, Over, Off
<1>4. \A t \in Sends : send[t].at # "idle" =>
          /\ send'[t].at = send[t].at /\ send'[t].age = send[t].age + 1
          /\ send[t].age \in Nat
  BY <1>1, RuntimeTypes DEF Tick, Older, BeatTyped, TypeOK
<1>5. \A t \in Sends : t \in Own' <=> t \in Own
  BY DEF Tick, Older, Own, Idle
<1> HIDE DEF wait
<1>6. \A t \in Sends : LeftOut(t) => LeftOut(t)'
  BY <1>1, <1>2, <1>3, <1>4 DEF LeftOut, wait
<1>7. \A t \in Sends : LeftBack(t) => LeftBack(t)'
  BY <1>1, <1>2, <1>3, <1>4 DEF LeftBack, wait
<1>8. LeftOnClock => LeftOnClock'
  BY <1>1, <1>2, <1>3 DEF LeftOnClock, Off, wait
<1>9. runtime = "java" => ~LeftLate
  BY DEF Tick, Urgent, LeftLate
<1>10. Own = {} => Own' = {}
  BY <1>5 DEF Own
<1> QED
  BY <1>2, <1>6, <1>7, <1>8, <1>9, <1>10 DEF LeaseLeft

\* A late or due heartbeat becomes a send on its way.
LEMMA SendLeaves ==
    ASSUME BeatTyped, Shape, LeaseLeft, NEW s \in Sends, SendHeartbeat(s)
    PROVE  LeaseLeft'
<1> DEFINE wait == LongestWait
<1>1. /\ wait \in Nat /\ Lease \in Nat /\ lease \in Int
      /\ runtime \in {"python", "java", "node"}
  BY WaitTypes, RuntimeTypes DEF BeatTyped, TypeOK, Over
<1>2. /\ runtime' = runtime /\ LongestWait' = wait /\ Lease' = Lease
      /\ fresh' = fresh /\ lease' = lease
  BY DEF SendHeartbeat, LongestWait, Lease, GracePeriod, Announced
<1> HIDE DEF wait
<1>3. send'[s] = Out /\ \A t \in Sends \ {s} : send'[t] = send[t]
  BY DEF SendHeartbeat, BeatTyped, TypeOK
<1>4. lease >= Lease - wait => LeftOut(s)'
  BY <1>1, <1>2, <1>3 DEF LeftOut, Out
<1>5. \A t \in Sends : LeftOut(t) => LeftOut(t)'
  BY <1>2, <1>3 DEF LeftOut, SendHeartbeat, Free, wait
<1>6. timer = 0 /\ LeftOnClock => lease >= Lease - wait
  BY <1>1 DEF LeftOnClock, wait
<1>7. LeftLate => lease >= Lease - wait
  BY <1>1 DEF LeftLate, wait
<1>8. CASE runtime = "java"
  <2>1. due > 0 /\ Own = {}
    BY <1>8 DEF SendHeartbeat, MaySend
  <2>2. \A t \in Sends : ~LeftOut(t) /\ ~LeftBack(t)
    BY <2>1 DEF Own, LeftOut, LeftBack
  <2>3. fresh => LeftLate
    BY <1>8, <2>1, <2>2 DEF LeaseLeft
  <2> QED
    BY <1>2, <1>4, <1>7, <2>3 DEF LeaseLeft
<1>9. CASE runtime # "java"
  <2>1. timer = 0
    BY <1>9 DEF SendHeartbeat, MaySend
  <2>2. runtime = "python" => \A t \in Sends : ~LeftBack(t)
    BY <2>1 DEF Shape, Own, LeftBack, Off
  <2>3. fresh => LeftOnClock \/ \E t \in Sends : LeftOut(t)
    BY <1>9, <2>2 DEF LeaseLeft
  <2> QED
    BY <1>2, <1>4, <1>5, <1>6, <2>1, <2>3 DEF LeaseLeft
<1> QED
  BY <1>8, <1>9

\* When a send has come back the clock runs, or the next one is late.
LEMMA ReturnLeaves ==
    ASSUME BeatTyped, Shape, LeaseLeft, NEW s \in Sends, ReturnOf(s)
    PROVE  LeaseLeft'
<1> DEFINE wait == LongestWait
<1>1. /\ wait \in Nat /\ Lease \in Nat /\ lease \in Int /\ wait >= Interval[runtime]
      /\ runtime # "node" => wait >= MaxDelay[runtime]
      /\ runtime = "python" => wait = MaxDelay[runtime] + Interval[runtime]
      /\ Interval[runtime] \in Nat \ {0} /\ MaxDelay[runtime] \in Nat
      /\ runtime \in {"python", "java", "node"} /\ due \in Nat
      /\ send[s].age \in 0..MaxDelay[runtime]
  BY WaitTypes, RuntimeTypes DEF BeatTyped, TypeOK, Over
<1>2. /\ runtime' = runtime /\ LongestWait' = wait /\ Lease' = Lease
      /\ fresh' = fresh /\ lease' = lease /\ due' = due
  BY DEF ReturnOf, LongestWait, Lease, GracePeriod, Announced
<1> HIDE DEF wait
<1>3. send'[s] = Idle /\ \A t \in Sends \ {s} : send'[t] = send[t]
  BY DEF ReturnOf, BeatTyped, TypeOK
<1>4. \A t \in Sends : LeftOut(t) => LeftOut(t)'
  BY <1>2, <1>3 DEF LeftOut, ReturnOf, wait
<1>5. CASE runtime = "node"
  <2>1. timer' = timer
    BY <1>5 DEF ReturnOf, AfterSend
  <2>2. LeftOnClock => LeftOnClock'
    BY <1>2, <2>1 DEF LeftOnClock, wait
  <2> QED
    BY <1>2, <1>4, <1>5, <2>2 DEF LeaseLeft
<1>6. CASE runtime # "node"
  <2>1. s \in Own /\ \A t \in Own : t = s
    BY <1>1, <1>6 DEF Shape, ReturnOf, Own
  <2>2. Own' = {}
    BY <1>3, <2>1 DEF Own, Idle
  <2>3. \A t \in Sends : ~LeftOut(t)
    BY <2>1 DEF Own, LeftOut, ReturnOf
  <2>4. \A t \in Sends : LeftBack(t) => t = s
    BY <2>1 DEF Own, LeftBack
  <2>5. LeftBack(s) => lease >= Lease - send[s].age
    BY DEF LeftBack
  <2>6. CASE runtime = "python"
    <3>1. timer' = Interval[runtime] /\ timer = Off
      BY <2>1, <2>6 DEF ReturnOf, AfterSend, Shape
    <3>2. fresh => LeftBack(s)
      BY <2>3, <2>4, <2>6, <3>1 DEF LeaseLeft, LeftOnClock
    <3>3. LeftBack(s) => LeftOnClock'
      BY <1>1, <1>2, <2>5, <2>6, <3>1 DEF LeftOnClock, Off
    <3> QED
      BY <1>2, <2>6, <3>2, <3>3 DEF LeaseLeft
  <2>7. CASE runtime = "java"
    <3>1. fresh => LeftBack(s) /\ (due = 0 => LeftOnClock)
      BY <2>1, <2>3, <2>4, <2>7 DEF LeaseLeft, LeftLate
    <3>2. timer' = timer
      BY <2>7 DEF ReturnOf, AfterSend
    <3>3. LeftOnClock => LeftOnClock'
      BY <1>2, <3>2 DEF LeftOnClock, wait
    <3>4. due > 0 /\ LeftBack(s) => LeftLate'
      <4>1. LeftBack(s) => lease >= Lease - wait
        BY <1>1, <2>5, <2>7
      <4> QED
        BY <1>2, <2>2, <4>1 DEF LeftLate
    <3> QED
      BY <1>1, <1>2, <2>2, <2>7, <3>1, <3>3, <3>4 DEF LeaseLeft
  <2> QED
    BY <1>1, <1>6, <2>6, <2>7
<1> QED
  BY <1>5, <1>6

\* The schedule of Java finds its thread free or makes the next send late.
LEMMA DueLeaves ==
    ASSUME BeatTyped, Shape, LeaseLeft, BecomesDue
    PROVE  LeaseLeft'
<1> DEFINE wait == LongestWait
<1>1. wait \in Nat /\ Lease \in Nat /\ lease \in Int /\ due \in Nat
  BY WaitTypes, RuntimeTypes DEF BeatTyped, TypeOK, Over
<1>2. /\ runtime' = runtime /\ LongestWait' = wait /\ Lease' = Lease /\ runtime = "java"
      /\ fresh' = fresh /\ lease' = lease /\ send' = send /\ timer = 0 /\ due' = due + 1
  BY DEF BecomesDue, LongestWait, Lease, GracePeriod, Announced
<1> HIDE DEF wait
<1>3. \A t \in Sends : (LeftOut(t) => LeftOut(t)') /\ (LeftBack(t) => LeftBack(t)')
  BY <1>2 DEF LeftOut, LeftBack, wait
<1>4. Own' = Own /\ due' > 0
  BY <1>1, <1>2 DEF Own
<1>5. LeftLate \/ (Own = {} /\ LeftOnClock) => LeftLate'
  <2>1. LeftLate \/ LeftOnClock => lease >= Lease - wait
    BY <1>1, <1>2 DEF LeftLate, LeftOnClock, wait
  <2> QED
    BY <1>2, <1>4, <2>1 DEF LeftLate
<1> QED
  BY <1>1, <1>2, <1>3, <1>4, <1>5 DEF LeaseLeft

LEMMA NextLeaseLeft == BeatInv /\ [Next]_vars => LeaseLeft'
<1> SUFFICES ASSUME BeatInv, [Next]_vars PROVE LeaseLeft'
  OBVIOUS
<1>1. Shape' /\ BeatTyped'
  BY NextShape, NextBeatTyped DEF BeatInv
<1> USE DEF BeatInv
<1>2. CASE Start \/ Crash
  BY <1>2 DEF Start, Crash, LeaseLeft, BeatTyped
<1>3. ASSUME NEW s \in Sends, Lose(s) PROVE LeaseLeft'
  <2>1. CASE send[s].at = "out"
    BY <1>3, <2>1 DEF Lose, LeaseLeft
  <2>2. CASE send[s].at # "out"
    <3>1. /\ send' = [send EXCEPT ![s] = Idle] /\ send[s].at = "stray"
          /\ UNCHANGED <<runtime, alive, timer, due, lease, fresh>>
      BY <1>3, <2>2 DEF Lose
    <3>2. \A t \in Sends : send[t].at \in {"out", "back"} => send'[t] = send[t]
      BY <3>1 DEF BeatTyped, TypeOK
    <3>3. Own' = Own
      BY <3>1 DEF BeatTyped, TypeOK, Own, Idle
    <3>4. LongestWait' = LongestWait /\ Lease' = Lease
      BY <3>1 DEF LongestWait, Lease, GracePeriod, Announced
    <3>5. \A t \in Sends : (LeftOut(t) => LeftOut(t)') /\ (LeftBack(t) => LeftBack(t)')
      BY <3>1, <3>2, <3>4 DEF LeftOut, LeftBack
    <3>6. (LeftOnClock => LeftOnClock') /\ (LeftLate => LeftLate')
      BY <3>1, <3>3, <3>4 DEF LeftOnClock, LeftLate
    <3> QED
      BY <3>1, <3>3, <3>5, <3>6 DEF LeaseLeft
  <2> QED
    BY <2>1, <2>2
<1>4. CASE CalmChanges \/ UNCHANGED vars
  <2>1. UNCHANGED <<runtime, alive, timer, due, send, lease, fresh>>
    BY <1>4 DEF CalmChanges, vars
  <2> QED
    BY <2>1 DEF LeaseLeft, LeftOut, LeftBack, LeftOnClock, LeftLate, Own, LongestWait, Lease,
                GracePeriod, Announced
<1> QED
  BY <1>1, <1>2, <1>3, <1>4, ReceiveLeaves, TickLeaves, SendLeaves, ReturnLeaves, DueLeaves
  DEF Next, WorkerStep, NetworkStep

\* While an operator grants what LongestGap needs, a worker that lives and loses
\* no heartbeat holds its lease, whichever of the three clocks it has.
THEOREM FleetHoldsLease == FSpec => []LeaseHeld
<1>1. Init => Shape /\ LeaseLeft
  BY DEF Init, Shape, LeaseLeft, Off, Own, Idle
<1>2. BeatTyped /\ LeaseLeft => LeaseHeld
  <2> SUFFICES ASSUME BeatTyped, LeaseLeft, Lasts, alive, fresh PROVE lease # Over
    BY DEF LeaseHeld
  <2> DEFINE wait == LongestWait
  <2>1. /\ wait \in Nat /\ Lease \in Nat /\ lease \in Int /\ MaxDelay[runtime] \in Nat
        /\ timer \in Int /\ timer >= Off /\ Interval[runtime] \in Nat
        /\ runtime \in {"python", "java", "node"}
    BY WaitTypes, RuntimeTypes DEF BeatTyped, TypeOK, Over, Off
  <2>2. \A s \in Sends : send[s].age \in 0..MaxDelay[runtime]
    BY DEF BeatTyped, TypeOK
  <2>3. LongestGap = wait + MaxDelay[runtime]
    BY <2>1 DEF LongestGap, LongestWait
  <2>4. Lease >= wait + MaxDelay[runtime]
    BY <2>3 DEF Lasts, Lease
  <2> HIDE DEF wait
  <2>5. \A s \in Sends : LeftOut(s) \/ LeftBack(s) => lease >= 0
    BY <2>1, <2>2, <2>4 DEF LeftOut, LeftBack, wait
  <2>6. LeftOnClock \/ LeftLate => lease >= 0
    BY <2>1, <2>4 DEF LeftOnClock, LeftLate, Off, wait
  <2>7. lease >= 0
    BY <2>5, <2>6 DEF LeaseLeft
  <2> QED
    BY <2>1, <2>7 DEF Over
<1>3. BeatInv /\ [Next]_vars => BeatInv'
  BY NextBeatTyped, NextShape, NextLeaseLeft DEF BeatInv
<1>4. Init => BeatInv
  BY InitBeatTyped, <1>1 DEF BeatInv
<1>5. BeatInv => LeaseHeld
  BY <1>2 DEF BeatInv
<1> QED
  BY FleetBeats, <1>3, <1>4, <1>5, PTL DEF Spec
=============================================================================
