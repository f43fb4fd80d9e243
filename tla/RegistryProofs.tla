--------------------------- MODULE RegistryProofs ---------------------------
(***************************************************************************)
(* The safety of the registry's table for any number of threads, meshes,   *)
(* names and rows, and for crashes at any point.                           *)
(***************************************************************************)
EXTENDS Registry, SequenceTheorems, TLAPS

RegPcs == {"reg_read", "reg_write", "reg_refresh"}
HbPcs == {"hb_read", "hb_write", "hb_note"}
DelPcs == {"del_read", "del_write"}

\* What the step a handler has reached says about the request it serves.
RequestMatchesPc(t) ==
    /\ pc[t] \in RegPcs \cup HbPcs => Mesh(t) \in Meshes /\ req[t].health \in Healths
    /\ pc[t] \in RegPcs => req[t].todo # <<>> /\ req[t].kind \in {"register", "heartbeat"}
    /\ pc[t] \in HbPcs => req[t].kind = "heartbeat"
    /\ pc[t] \in DelPcs => Mesh(t) = None
    /\ req[t].kind = "heartbeat" => req[t].lease \in 0..(now + TTL)

Typed == TypeOK /\ \A t \in Threads : RequestMatchesPc(t)

LEMMA InitTyped == Init => Typed
  BY RegistryAssumption
  DEF Init, Typed, TypeOK, RequestMatchesPc, Mesh, Empty, NoRequest, Requests, Steps,
      RegPcs, HbPcs, DelPcs, None, NoLease, Ids

LEMMA FinishTyped ==
    ASSUME Typed, NEW t \in Threads, Finish(t), now' = now
    PROVE  /\ pc' \in [Threads -> Steps]
           /\ req' \in [Threads -> Requests]
           /\ DOMAIN loaded' = Threads
           /\ \A u \in Threads : DOMAIN loaded'[u] \subseteq Ids
           /\ \A u \in Threads : RequestMatchesPc(u)'
<1>1. NoRequest \in Requests
  BY DEF NoRequest, Requests, NoLease
<1>2. pc' = [pc EXCEPT ![t] = "idle"] /\ req' = [req EXCEPT ![t] = NoRequest]
      /\ loaded' = [loaded EXCEPT ![t] = Empty]
  BY DEF Finish, Goto, Load
<1>3. pc' \in [Threads -> Steps] /\ req' \in [Threads -> Requests]
  BY <1>1, <1>2 DEF Typed, TypeOK, Steps
<1>4. DOMAIN loaded' = Threads /\ \A u \in Threads : DOMAIN loaded'[u] \subseteq Ids
  BY <1>2 DEF Typed, TypeOK, Empty
<1>5. ASSUME NEW u \in Threads PROVE RequestMatchesPc(u)'
  <2>1. CASE u = t
    BY <2>1, <1>2 DEF Typed, TypeOK, RequestMatchesPc, Mesh, NoRequest, RegPcs, HbPcs, DelPcs, None
  <2>2. CASE u # t
    BY <2>2, <1>2 DEF Typed, TypeOK, RequestMatchesPc, Mesh
  <2> QED BY <2>1, <2>2
<1> QED BY <1>3, <1>4, <1>5

\* What is left of a list of several registrations is not empty.
LEMMA TailOfLonger ==
    ASSUME NEW S, NEW s \in Seq(S), Len(s) > 1
    PROVE  Tail(s) # <<>>
<1>1. s # <<>>
  BY EmptySeq
<1>2. Len(Tail(s)) = Len(s) - 1 /\ Len(s) \in Nat
  BY <1>1, HeadTailProperties, LenProperties
<1>3. \A n \in Nat : n > 1 => n - 1 # 0
  OBVIOUS
<1>4. Len(Tail(s)) # 0
  BY <1>2, <1>3, Zenon
<1> QED
  BY <1>4, EmptySeq

\* A request that begins is well formed.
LEMMA BeginTyped ==
    ASSUME Typed, NEW t \in Threads, BeginSome(t)
    PROVE  Typed'
<1> USE RegistryAssumption
<1>1. ASSUME NEW r \in Requests, NEW step \in Steps, Begin(t, r, step),
             step \in RegPcs \cup HbPcs => r.mesh \in Meshes /\ r.health \in Healths,
             step \in RegPcs => r.todo # <<>> /\ r.kind \in {"register", "heartbeat"},
             step \in HbPcs => r.kind = "heartbeat",
             step \in DelPcs => r.mesh = None,
             r.kind = "heartbeat" => r.lease \in 0..(now + TTL)
      PROVE  Typed'
  <2>1. pc' = [pc EXCEPT ![t] = step] /\ req' = [req EXCEPT ![t] = r]
        /\ UNCHANGED <<db, heartbeats, loaded, loopVars, envVars, freed>>
    BY <1>1 DEF Begin, Goto
  <2>2. TypeOK'
    BY <2>1 DEF Typed, TypeOK, loopVars, envVars, Ids
  <2>3. ASSUME NEW u \in Threads PROVE RequestMatchesPc(u)'
    <3>1. CASE u = t
      BY <1>1, <2>1, <3>1 DEF Typed, TypeOK, RequestMatchesPc, Mesh, envVars
    <3>2. CASE u # t
      BY <2>1, <3>2 DEF Typed, TypeOK, RequestMatchesPc, Mesh, envVars
    <3> QED BY <3>1, <3>2
  <2> QED BY <2>2, <2>3 DEF Typed
<1>2. ASSUME NEW m \in Meshes, NEW n \in Names, NEW h \in Healths,
             BeginRegister(t, m, n, h)
      PROVE  Typed'
  <2> DEFINE r == [kind |-> "register", mesh |-> m, todo |-> <<n>>,
                   health |-> h, lease |-> NoLease]
  <2>1. r \in Requests
    BY DEF Requests, NoLease
  <2>2. Begin(t, r, "reg_read") /\ "reg_read" \in Steps
    BY <1>2 DEF BeginRegister, Steps
  <2> QED
    BY <1>1, <2>1, <2>2 DEF RegPcs, HbPcs, DelPcs
<1>3. ASSUME NEW m \in Meshes, NEW regs \in RegLists, NEW h \in Healths,
             BeginHeartbeat(t, m, regs, h)
      PROVE  Typed'
  <2> DEFINE r == [kind |-> "heartbeat", mesh |-> m, todo |-> regs,
                   health |-> h, lease |-> LeaseFrom(now)]
             step == IF regs = <<>> THEN "hb_read" ELSE "reg_read"
  <2>1. regs \in Seq(Names)
    OBVIOUS
  <2>2. LeaseFrom(now) \in 0..(now + TTL)
    BY DEF LeaseFrom, Typed, TypeOK
  <2>3. r \in Requests
    BY <2>1, <2>2 DEF Requests
  <2>4. Begin(t, r, step) /\ step \in Steps
    BY <1>3 DEF BeginHeartbeat, Steps
  <2> QED
    BY <1>1, <2>2, <2>3, <2>4 DEF RegPcs, HbPcs, DelPcs
<1>4. ASSUME NEW n \in Names, BeginDelete(t, n) PROVE Typed'
  <2> DEFINE r == [kind |-> "delete", mesh |-> None, todo |-> <<n>>,
                   health |-> None, lease |-> NoLease]
  <2>1. r \in Requests
    BY DEF Requests, NoLease
  <2>2. Begin(t, r, "del_read") /\ "del_read" \in Steps
    BY <1>4 DEF BeginDelete, Steps
  <2> QED
    BY <1>1, <2>1, <2>2 DEF RegPcs, HbPcs, DelPcs
<1> QED
  BY <1>2, <1>3, <1>4 DEF BeginSome

\* Handlers that only move on: the table and the clock stay.
LEMMA MoveTyped ==
    ASSUME Typed, NEW t \in Threads, NEW step \in Steps, NEW rows,
           DOMAIN rows \subseteq Ids,
           Goto(t, step), Load(t, rows),
           UNCHANGED <<db, heartbeats, req, loopVars, envVars, freed>>,
           step \in RegPcs => pc[t] \in RegPcs,
           step \in HbPcs => pc[t] \in HbPcs,
           step \in DelPcs => pc[t] \in DelPcs
    PROVE  Typed'
<1>1. TypeOK'
  BY DEF Typed, TypeOK, Goto, Load, loopVars, envVars, Ids
<1>2. ASSUME NEW u \in Threads PROVE RequestMatchesPc(u)'
  BY DEF Typed, TypeOK, Goto, RequestMatchesPc, Mesh, envVars
<1> QED
  BY <1>1, <1>2 DEF Typed

\* register_or_update keeps the table and the request well formed.
LEMMA RegTyped ==
    ASSUME Typed, NEW t \in Threads, RegStep(t)
    PROVE  Typed'
<1> USE DEF RegPcs, HbPcs, DelPcs
<1>1. CASE RegRead(t)
  <2>1. PICK rows : DOMAIN rows \subseteq Ids /\ Load(t, rows)
    <3>1. CASE Load(t, Empty)
      BY <3>1 DEF Empty
    <3>2. ASSUME NEW i \in DOMAIN db, Load(t, [j \in {i} |-> db[i].health])
          PROVE  \E rows : DOMAIN rows \subseteq Ids /\ Load(t, rows)
      <4>1. DOMAIN [j \in {i} |-> db[i].health] \subseteq Ids
        BY DEF Typed, TypeOK
      <4> QED BY <3>2, <4>1
    <3> QED BY <1>1, <3>1, <3>2 DEF RegRead
  <2> QED BY <1>1, <2>1, MoveTyped DEF RegRead, Steps
<1>2. CASE Insert(t)
  <2>1. PICK i \in Ids :
          /\ db' = [j \in DOMAIN db \cup {i} |->
                       IF j = i
                       THEN [name |-> Head(req[t].todo), mesh |-> Mesh(t),
                             health |-> req[t].health, expires |-> NoLease]
                       ELSE db[j]]
          /\ Load(t, [j \in {i} |-> req[t].health])
    BY <1>2 DEF Insert
  <2>2. pc[t] = "reg_write" /\ Goto(t, "reg_refresh")
        /\ UNCHANGED <<heartbeats, req, loopVars, envVars, freed>>
    BY <1>2 DEF Insert
  <2>3. Head(req[t].todo) \in Names /\ Mesh(t) \in Meshes /\ req[t].health \in Healths
    BY <2>2 DEF Typed, TypeOK, RequestMatchesPc, Requests
  <2>4. DOMAIN db' \subseteq Ids /\ \A j \in DOMAIN db' : db'[j] \in Rows
    BY <2>1, <2>3 DEF Typed, TypeOK, Rows, NoLease
  <2>5. TypeOK'
    BY <2>1, <2>2, <2>4 DEF Typed, TypeOK, Goto, Load, loopVars, envVars, Ids, Steps
  <2>6. \A u \in Threads : RequestMatchesPc(u)'
    BY <2>2 DEF Typed, TypeOK, Goto, RequestMatchesPc, Mesh, envVars
  <2> QED BY <2>5, <2>6 DEF Typed
<1>3. CASE Update(t)
  <2>1. PICK i \in DOMAIN db : db' = [db EXCEPT ![i] = Reregistered(t, i)]
    BY <1>3 DEF Update
  <2>2. pc[t] = "reg_write" /\ Goto(t, "reg_refresh")
        /\ UNCHANGED <<heartbeats, req, loaded, loopVars, envVars, freed>>
    BY <1>3 DEF Update
  <2>3. Reregistered(t, i) \in Rows
    BY <2>2 DEF Typed, TypeOK, RequestMatchesPc, Reregistered, HealthAfter, Rows
  <2>4. DOMAIN db' \subseteq Ids /\ \A j \in DOMAIN db' : db'[j] \in Rows
    BY <2>1, <2>3 DEF Typed, TypeOK
  <2>5. TypeOK'
    BY <2>2, <2>4 DEF Typed, TypeOK, Goto, loopVars, envVars, Ids, Steps
  <2>6. \A u \in Threads : RequestMatchesPc(u)'
    BY <2>2 DEF Typed, TypeOK, Goto, RequestMatchesPc, Mesh, envVars
  <2> QED BY <2>5, <2>6 DEF Typed
<1>4. ASSUME Finish(t), UNCHANGED <<db, heartbeats, loopVars, envVars, freed>>
      PROVE  Typed'
  BY <1>4, FinishTyped DEF Typed, TypeOK, loopVars, envVars, Ids
<1>5. CASE RegFails(t)
  BY <1>4, <1>5 DEF RegFails
<1>6. CASE RegNext(t)
  <2>1. CASE Finish(t)
    BY <1>4, <1>6, <2>1 DEF RegNext
  <2>2. CASE ~Finish(t)
    <3>1. /\ pc[t] = "reg_refresh" /\ req[t].kind = "heartbeat"
          /\ req' = [req EXCEPT ![t].todo = Tail(@)]
          /\ pc' = [pc EXCEPT ![t] = IF Len(req[t].todo) > 1 THEN "reg_read" ELSE "hb_read"]
          /\ loaded' = [loaded EXCEPT ![t] = Empty]
          /\ UNCHANGED <<db, heartbeats, loopVars, envVars, freed>>
      BY <1>6, <2>2 DEF RegNext, Goto, Load
    <3>2. req[t].todo \in Seq(Names) /\ req[t].todo # <<>> /\ req[t] \in Requests
      BY <3>1 DEF Typed, TypeOK, RequestMatchesPc, Requests
    <3>3. Tail(req[t].todo) \in Seq(Names)
          /\ (Len(req[t].todo) > 1 => Tail(req[t].todo) # <<>>)
      BY <3>2, HeadTailProperties, TailOfLonger
    <3>4. req'[t] \in Requests
      BY <3>1, <3>2, <3>3 DEF Typed, TypeOK, Requests
    <3>5. req' \in [Threads -> Requests] /\ pc' \in [Threads -> Steps]
      BY <3>1, <3>4 DEF Typed, TypeOK, Steps
    <3>6. DOMAIN loaded' = Threads /\ \A u \in Threads : DOMAIN loaded'[u] \subseteq Ids
      BY <3>1 DEF Typed, TypeOK, Empty
    <3>7. TypeOK'
      BY <3>1, <3>5, <3>6 DEF Typed, TypeOK, loopVars, envVars, Ids
    <3>8. ASSUME NEW u \in Threads PROVE RequestMatchesPc(u)'
      <4>1. CASE u = t
        BY <3>1, <3>3, <4>1 DEF Typed, TypeOK, RequestMatchesPc, Mesh, envVars
      <4>2. CASE u # t
        BY <3>1, <4>2 DEF Typed, TypeOK, RequestMatchesPc, Mesh, envVars
      <4> QED BY <4>1, <4>2
    <3> QED BY <3>7, <3>8 DEF Typed
  <2> QED BY <2>1, <2>2
<1> QED
  BY <1>1, <1>2, <1>3, <1>5, <1>6 DEF RegStep

\* So do the health update, DELETE and the expiry loop.
LEMMA HbTyped ==
    ASSUME Typed, NEW t \in Threads, HbStep(t)
    PROVE  Typed'
<1> USE DEF RegPcs, HbPcs, DelPcs
<1>1. CASE HbRead(t)
  <2> DEFINE rows == [i \in {i \in DOMAIN db : db[i].mesh = Mesh(t)} |-> db[i].health]
  <2>1. DOMAIN rows \subseteq Ids
    BY DEF Typed, TypeOK
  <2>2. Load(t, rows) /\ pc[t] = "hb_read" /\ Goto(t, "hb_write")
        /\ UNCHANGED <<db, heartbeats, req, loopVars, envVars, freed>>
    BY <1>1 DEF HbRead, Mine
  <2> HIDE DEF rows
  <2> QED BY <2>1, <2>2, MoveTyped DEF Steps
<1>2. CASE HbWrite(t)
  <2>1. /\ pc[t] = "hb_write" /\ Goto(t, "hb_note")
        /\ db' = [i \in DOMAIN db |->
                     IF i \in DOMAIN loaded[t] THEN Renewed(t, i) ELSE db[i]]
        /\ UNCHANGED <<heartbeats, req, loaded, loopVars, envVars, freed>>
    BY <1>2 DEF HbWrite
  <2>2. \A i \in DOMAIN db : Renewed(t, i) \in Rows
    BY <2>1 DEF Typed, TypeOK, RequestMatchesPc, Renewed, HealthAfter, Rows, Requests
  <2>3. DOMAIN db' \subseteq Ids /\ \A i \in DOMAIN db' : db'[i] \in Rows
    BY <2>1, <2>2 DEF Typed, TypeOK
  <2>4. TypeOK'
    BY <2>1, <2>3 DEF Typed, TypeOK, Goto, loopVars, envVars, Ids, Steps
  <2>5. \A u \in Threads : RequestMatchesPc(u)'
    BY <2>1 DEF Typed, TypeOK, Goto, RequestMatchesPc, Mesh, envVars
  <2> QED BY <2>4, <2>5 DEF Typed
<1>3. CASE HbFails(t)
  BY <1>3, FinishTyped DEF HbFails, Typed, TypeOK, loopVars, envVars, Ids
<1>4. CASE HbNote(t)
  <2>1. Mesh(t) \in Meshes
    BY <1>4 DEF HbNote, Typed, RequestMatchesPc
  <2> QED
    BY <1>4, <2>1, FinishTyped DEF HbNote, Typed, TypeOK, loopVars, envVars, Ids
<1> QED
  BY <1>1, <1>2, <1>3, <1>4 DEF HbStep

LEMMA DelTyped ==
    ASSUME Typed, NEW t \in Threads, DelStep(t)
    PROVE  Typed'
<1>1. CASE DelRead(t)
  <2>1. CASE Finish(t)
    BY <1>1, <2>1, FinishTyped DEF DelRead, Typed, TypeOK, loopVars, envVars, Ids
  <2>2. CASE ~Finish(t)
    <3>1. PICK i \in DOMAIN db : Load(t, [j \in {i} |-> db[i].health])
      BY <1>1, <2>2 DEF DelRead
    <3>2. pc[t] = "del_read" /\ Goto(t, "del_write")
          /\ UNCHANGED <<db, heartbeats, req, loopVars, envVars, freed>>
      BY <1>1, <2>2 DEF DelRead
    <3>3. DOMAIN [j \in {i} |-> db[i].health] \subseteq Ids
      BY DEF Typed, TypeOK
    <3> QED BY <3>1, <3>2, <3>3, MoveTyped DEF Steps, RegPcs, HbPcs, DelPcs
  <2> QED BY <2>1, <2>2
<1>2. CASE DelWrite(t)
  <2>1. /\ db' = [i \in DOMAIN db \ DOMAIN loaded[t] |-> db[i]]
        /\ freed' = freed \cup (DOMAIN loaded[t] \cap DOMAIN db)
        /\ Finish(t) /\ UNCHANGED <<heartbeats, loopVars, envVars>>
    BY <1>2 DEF DelWrite, Removed
  <2> QED
    BY <2>1, FinishTyped DEF Typed, TypeOK, loopVars, envVars, Ids
<1> QED
  BY <1>1, <1>2 DEF DelStep

LEMMA LoopTyped ==
    ASSUME Typed, LoopStep
    PROVE  Typed'
<1>1. UNCHANGED <<pc, req, loaded, now, alive, restarts>>
  BY DEF LoopStep, LoopScan, LoopSelect, LoopDelete, LoopPop, threadVars, envVars
<1>2. DueMeshes \subseteq Meshes
  BY DEF DueMeshes, Typed, TypeOK, Rows
<1>3. TypeOK'
  <2>1. CASE LoopScan
    BY <1>1, <1>2, <2>1 DEF LoopScan, Typed, TypeOK, Ids
  <2>2. CASE LoopSelect
    BY <1>1, <2>2 DEF LoopSelect, Typed, TypeOK, Ids
  <2>3. CASE LoopDelete
    BY <1>1, <2>3 DEF LoopDelete, Removed, Typed, TypeOK, Ids
  <2>4. CASE LoopPop
    BY <1>1, <2>4 DEF LoopPop, Typed, TypeOK, Ids
  <2> QED BY <2>1, <2>2, <2>3, <2>4 DEF LoopStep
<1> QED
  BY <1>1, <1>3 DEF Typed, RequestMatchesPc, Mesh

\* A crash drops every handler at once; the table stays as it is.
LEMMA RestartTyped ==
    ASSUME Typed, Restart
    PROVE  Typed'
<1>1. NoRequest \in Requests /\ DOMAIN Empty \subseteq Ids /\ "idle" \in Steps
  BY DEF NoRequest, Requests, NoLease, Empty, Steps
<1>2. TypeOK'
  BY <1>1, RegistryAssumption DEF Restart, Typed, TypeOK, Ids
<1>3. ASSUME NEW t \in Threads PROVE RequestMatchesPc(t)'
  BY DEF Restart, RequestMatchesPc, Mesh, NoRequest, RegPcs, HbPcs, DelPcs, None
<1> QED
  BY <1>2, <1>3 DEF Typed

LEMMA NextTyped == Typed /\ [Next]_vars => Typed'
<1> SUFFICES ASSUME Typed, [Next]_vars PROVE Typed'
  OBVIOUS
<1>1. ASSUME NEW t \in Threads, BeginSome(t) \/ HandlerStep(t) PROVE Typed'
  BY <1>1, BeginTyped, RegTyped, HbTyped, DelTyped DEF HandlerStep
<1>2. CASE LoopStep
  BY <1>2, LoopTyped
<1>3. CASE Tick
  <2>1. TypeOK'
    BY <1>3, RegistryAssumption DEF Tick, Typed, TypeOK, threadVars, loopVars, Ids
  <2>2. TTL \in Nat /\ now \in Nat /\ now' = now + 1
    BY <1>3, RegistryAssumption DEF Tick, Typed, TypeOK
  <2>3. 0..(now + TTL) \subseteq 0..(now' + TTL)
    BY <2>2
  <2>4. ASSUME NEW t \in Threads PROVE RequestMatchesPc(t)'
    BY <1>3, <2>3 DEF Tick, Typed, RequestMatchesPc, Mesh, threadVars
  <2> QED
    BY <2>1, <2>4 DEF Typed
<1>4. ASSUME NEW m \in Meshes, WorkerStops(m) PROVE Typed'
  BY <1>4 DEF WorkerStops, Typed, TypeOK, RequestMatchesPc, Mesh, threadVars, loopVars, Ids
<1>5. CASE Restart
  BY <1>5, RestartTyped
<1>6. CASE UNCHANGED vars
  BY <1>6 DEF vars, Typed, TypeOK, RequestMatchesPc, Mesh, threadVars, loopVars, envVars, Ids
<1> QED
  BY <1>1, <1>2, <1>3, <1>4, <1>5, <1>6 DEF Next

\* The registry is well typed in every reachable state.
THEOREM RegistryTyped == Spec => []TypeOK
<1>1. Typed => TypeOK
  BY DEF Typed
<1> QED
  BY InitTyped, NextTyped, <1>1, PTL DEF Spec

----------------------------------------------------------------------------
(* Whose rows a handler or the loop holds: rows it has read are still there *)
(* and still belong to its mesh, unless their id was freed.                 *)

StillOf(i, meshes) == i \in freed \/ (i \in DOMAIN db /\ db[i].mesh \in meshes)

HandlerOwns(t) ==
    pc[t] \in {"reg_write", "hb_write"} =>
        \A i \in DOMAIN loaded[t] : StillOf(i, {Mesh(t)})

LoopOwns == loopPc = "delete" => \A i \in loopRows : StillOf(i, loopMeshes)

Owned == Typed /\ LoopOwns /\ \A t \in Threads : HandlerOwns(t)

\* What a write may do to the table: a row that stays keeps its key, and one
\* that goes leaves a freed id.
RowsKeepKey ==
    /\ freed \subseteq freed'
    /\ \A i \in DOMAIN db :
          \/ i \in freed'
          \/ i \in DOMAIN db' /\ db'[i].mesh = db[i].mesh /\ db'[i].name = db[i].name

LEMMA StepKeepsKey == ASSUME Typed, [Next]_vars PROVE RowsKeepKey
<1>1. ASSUME UNCHANGED <<db, freed>> PROVE RowsKeepKey
  BY <1>1 DEF RowsKeepKey
<1>2. ASSUME NEW t \in Threads, Insert(t) PROVE RowsKeepKey
  BY <1>2 DEF Insert, IsNextId, RowsKeepKey, Typed, TypeOK, Ids
<1>3. ASSUME NEW t \in Threads, Update(t) PROVE RowsKeepKey
  BY <1>3 DEF Update, Reregistered, RowsKeepKey, Typed, TypeOK, Rows
<1>4. ASSUME NEW t \in Threads, HbWrite(t) PROVE RowsKeepKey
  BY <1>4 DEF HbWrite, Renewed, RowsKeepKey, Typed, TypeOK, Rows
<1>5. ASSUME NEW t \in Threads, DelWrite(t) PROVE RowsKeepKey
  BY <1>5 DEF DelWrite, Removed, RowsKeepKey
<1>6. CASE LoopDelete
  BY <1>6 DEF LoopDelete, Removed, RowsKeepKey
<1>7. ASSUME NEW t \in Threads, RegStep(t) \/ HbStep(t) \/ DelStep(t) PROVE RowsKeepKey
  <2>1. CASE RegRead(t) \/ RegFails(t) \/ RegNext(t) \/ HbRead(t) \/ HbFails(t)
             \/ HbNote(t) \/ DelRead(t)
    BY <2>1, <1>1 DEF RegRead, RegFails, RegNext, HbRead, HbFails, HbNote, DelRead
  <2> QED
    BY <2>1, <1>2, <1>3, <1>4, <1>5, <1>7 DEF RegStep, HbStep, DelStep
<1>8. ASSUME NEW t \in Threads, BeginSome(t) PROVE RowsKeepKey
  BY <1>8, <1>1 DEF BeginSome, BeginRegister, BeginHeartbeat, BeginDelete, Begin
<1>9. CASE LoopScan \/ LoopSelect \/ LoopPop
  BY <1>9, <1>1 DEF LoopScan, LoopSelect, LoopPop
<1>10. CASE Tick \/ Restart \/ \E m \in Meshes : WorkerStops(m)
  BY <1>10, <1>1 DEF Tick, Restart, WorkerStops
<1>11. CASE UNCHANGED vars
  BY <1>11, <1>1 DEF vars
<1> QED
  BY <1>6, <1>7, <1>8, <1>9, <1>10, <1>11 DEF Next, HandlerStep, LoopStep

\* A step of one thread leaves the others where they are.
LEMMA OthersStand ==
    ASSUME Typed, NEW t \in Threads, BeginSome(t) \/ HandlerStep(t),
           NEW u \in Threads, u # t
    PROVE  pc'[u] = pc[u] /\ req'[u] = req[u] /\ loaded'[u] = loaded[u]
<1>1. CASE BeginSome(t)
  BY <1>1 DEF BeginSome, BeginRegister, BeginHeartbeat, BeginDelete, Begin, Goto,
              Typed, TypeOK
<1>2. CASE RegStep(t)
  BY <1>2 DEF RegStep, RegRead, Insert, Update, RegFails, RegNext, Finish, Goto, Load,
              Typed, TypeOK
<1>3. CASE HbStep(t)
  BY <1>3 DEF HbStep, HbRead, HbWrite, HbFails, HbNote, Finish, Goto, Load, Typed, TypeOK
<1>4. CASE DelStep(t)
  BY <1>4 DEF DelStep, DelRead, DelWrite, Finish, Goto, Load, Typed, TypeOK
<1> QED
  BY <1>1, <1>2, <1>3, <1>4 DEF HandlerStep

\* The handlers and the loop do not touch each other's variables.
LEMMA LoopStands ==
    ASSUME NEW t \in Threads, BeginSome(t) \/ HandlerStep(t)
    PROVE  UNCHANGED <<loopPc, loopMeshes, loopRows>> /\ now' = now
  BY DEF BeginSome, BeginRegister, BeginHeartbeat, BeginDelete, Begin, HandlerStep,
         RegStep, RegRead, Insert, Update, RegFails, RegNext, HbStep, HbRead, HbWrite,
         HbFails, HbNote, DelStep, DelRead, DelWrite, loopVars, envVars

LEMMA InitOwned == Init => Owned
  BY InitTyped DEF Init, Owned, LoopOwns, HandlerOwns

LEMMA NextOwned == Owned /\ [Next]_vars => Owned'
<1> SUFFICES ASSUME Owned, [Next]_vars PROVE Owned'
  OBVIOUS
<1>1. Typed' /\ RowsKeepKey
  BY NextTyped, StepKeepsKey DEF Owned
<1>2. ASSUME NEW i, NEW meshes, StillOf(i, meshes)
      PROVE  i \in freed' \/ (i \in DOMAIN db' /\ db'[i].mesh \in meshes)
  BY <1>1, <1>2 DEF StillOf, RowsKeepKey
<1>3. ASSUME NEW t \in Threads, pc'[t] = pc[t], req'[t] = req[t], loaded'[t] = loaded[t]
      PROVE  HandlerOwns(t)'
  BY <1>2, <1>3 DEF Owned, HandlerOwns, StillOf, Mesh
<1>4. ASSUME UNCHANGED <<loopPc, loopMeshes, loopRows>> PROVE LoopOwns'
  BY <1>2, <1>4 DEF Owned, LoopOwns, StillOf
<1>5. ASSUME NEW t \in Threads, BeginSome(t) \/ HandlerStep(t) PROVE HandlerOwns(t)'
  <2>1. CASE pc'[t] \notin {"reg_write", "hb_write"}
    BY <2>1 DEF HandlerOwns
  <2>2. CASE RegRead(t)
    <3>1. UNCHANGED <<db, freed, req>> /\ t \in DOMAIN loaded
      BY <2>2 DEF RegRead, Owned, Typed, TypeOK
    <3>2. CASE Load(t, Empty)
      BY <3>1, <3>2 DEF Load, Empty, HandlerOwns
    <3>3. CASE ~Load(t, Empty)
      <4>1. PICK i \in DOMAIN db :
              /\ Matches(db[i], Head(req[t].todo), Mesh(t))
              /\ Load(t, [j \in {i} |-> db[i].health])
        BY <2>2, <3>3 DEF RegRead
      <4>2. db[i].mesh = Mesh(t) /\ DOMAIN loaded'[t] = {i}
        BY <3>1, <4>1 DEF Matches, Load
      <4> QED BY <3>1, <4>2 DEF HandlerOwns, StillOf, Mesh
    <3> QED BY <3>2, <3>3
  <2>3. CASE HbRead(t)
    BY <2>3 DEF HbRead, Mine, Goto, Load, HandlerOwns, StillOf, Mesh, Owned, Typed, TypeOK
  <2>4. CASE BeginSome(t)
    <3>1. pc'[t] \in {"reg_read", "hb_read", "del_read"}
      BY <2>4 DEF BeginSome, BeginRegister, BeginHeartbeat, BeginDelete, Begin, Goto,
                  Owned, Typed, TypeOK
    <3> QED BY <2>1, <3>1
  <2>5. CASE Insert(t) \/ Update(t) \/ RegFails(t) \/ RegNext(t)
    <3>1. pc'[t] \in {"reg_refresh", "idle", "reg_read", "hb_read"}
      BY <2>5 DEF Insert, Update, RegFails, RegNext, Finish, Goto, Owned, Typed, TypeOK
    <3> QED BY <2>1, <3>1
  <2>6. CASE HbWrite(t) \/ HbFails(t) \/ HbNote(t) \/ DelStep(t)
    BY <2>6 DEF HbWrite, HbFails, HbNote, DelStep, DelRead, DelWrite, Finish, Goto,
                HandlerOwns, Owned, Typed, TypeOK
  <2> QED
    BY <1>5, <2>2, <2>3, <2>4, <2>5, <2>6 DEF HandlerStep, RegStep, HbStep
<1>6. ASSUME NEW t \in Threads, BeginSome(t) \/ HandlerStep(t) PROVE Owned'
  <2>1. \A u \in Threads : HandlerOwns(u)'
    BY <1>3, <1>5, <1>6, OthersStand DEF Owned
  <2> QED
    BY <1>1, <1>4, <1>6, <2>1, LoopStands DEF Owned
<1>7. CASE LoopStep
  <2>1. \A u \in Threads : HandlerOwns(u)'
    BY <1>3, <1>7 DEF LoopStep, LoopScan, LoopSelect, LoopDelete, LoopPop, threadVars
  <2>2. LoopOwns'
    BY <1>7 DEF LoopStep, LoopScan, LoopSelect, LoopDelete, LoopPop, InScope, LoopOwns,
                StillOf
  <2> QED
    BY <1>1, <2>1, <2>2 DEF Owned
<1>8. CASE Tick \/ (\E m \in Meshes : WorkerStops(m)) \/ UNCHANGED vars
  BY <1>1, <1>3, <1>4, <1>8 DEF Tick, WorkerStops, vars, threadVars, loopVars, Owned
<1>9. CASE Restart
  BY <1>1, <1>9 DEF Restart, Owned, HandlerOwns, LoopOwns
<1> QED
  BY <1>6, <1>7, <1>8, <1>9 DEF Next

\* Only UPDATE and the health update rewrite rows that were there before.
LEMMA WhoWrites ==
    ASSUME Owned, [Next]_vars, NEW i \in DOMAIN db \cap DOMAIN db',
           db'[i] # db[i], i \notin freed
    PROVE  \E t \in Threads : Writes(t) /\ Mesh(t) = db[i].mesh
<1>1. \E t \in Threads : Update(t) \/ HbWrite(t)
  <2>1. UNCHANGED db => FALSE
    OBVIOUS
  <2>2. ASSUME NEW t \in Threads, Insert(t) PROVE FALSE
    BY <2>2 DEF Insert, IsNextId, Owned, Typed, TypeOK, Ids
  <2>3. ASSUME NEW t \in Threads, DelWrite(t) PROVE FALSE
    BY <2>3 DEF DelWrite, Removed
  <2>4. LoopDelete => FALSE
    BY DEF LoopDelete, Removed
  <2>5. ASSUME NEW t \in Threads, HandlerStep(t) PROVE Update(t) \/ HbWrite(t)
    BY <2>1, <2>2, <2>3, <2>5
    DEF HandlerStep, RegStep, HbStep, DelStep, RegRead, RegFails, RegNext, HbRead,
        HbFails, HbNote, DelRead
  <2>6. ASSUME NEW t \in Threads, BeginSome(t) PROVE FALSE
    BY <2>1, <2>6 DEF BeginSome, BeginRegister, BeginHeartbeat, BeginDelete, Begin
  <2>7. LoopStep => FALSE
    BY <2>1, <2>4 DEF LoopStep, LoopScan, LoopSelect, LoopPop
  <2>8. Tick \/ Restart \/ (\E m \in Meshes : WorkerStops(m)) \/ UNCHANGED vars => FALSE
    BY <2>1 DEF Tick, Restart, WorkerStops, vars
  <2> QED
    BY <2>5, <2>6, <2>7, <2>8 DEF Next
<1>2. PICK t \in Threads : Update(t) \/ HbWrite(t)
  BY <1>1
<1>3. Writes(t)
  BY <1>2 DEF Update, HbWrite, Goto, Writes, Owned, Typed, TypeOK
<1>4. i \in DOMAIN loaded[t]
  BY <1>2 DEF Update, HbWrite, Owned, Typed, TypeOK
<1>5. StillOf(i, {Mesh(t)})
  BY <1>3, <1>4 DEF Owned, HandlerOwns, Writes
<1> QED
  BY <1>3, <1>5 DEF StillOf

LEMMA LoopSpares ==
    ASSUME Owned, [Next]_vars, loopPc = "delete", loopPc' = "pop",
           NEW i \in DOMAIN db \ DOMAIN db'
    PROVE  i \in freed \/ db[i].mesh \in loopMeshes
<1>1. LoopDelete
  <2>1. ASSUME NEW t \in Threads, BeginSome(t) \/ HandlerStep(t) PROVE loopPc' = loopPc
    BY <2>1, LoopStands
  <2>2. Tick \/ (\E m \in Meshes : WorkerStops(m)) \/ UNCHANGED vars => loopPc' = loopPc
    BY DEF Tick, WorkerStops, vars, loopVars
  <2>3. Restart \/ LoopScan \/ LoopSelect \/ LoopPop => loopPc' # "pop"
    BY DEF Restart, LoopScan, LoopSelect, LoopPop
  <2> QED
    BY <2>1, <2>2, <2>3 DEF Next, LoopStep
<1> QED
  BY <1>1 DEF LoopDelete, Removed, Owned, LoopOwns, StillOf

\* A request changes rows of its own mesh only, unless the id was freed
\* before: for any number of threads, overlapping requests and crashes.
THEOREM RegistryOwnRows == Spec => OwnRowsOnly
<1>1. Spec => []Owned
  BY InitOwned, NextOwned, PTL DEF Spec
<1>2. Owned /\ [Next]_vars =>
        [ \A i \in DOMAIN db \cap DOMAIN db' :
            db'[i] # db[i] /\ i \notin freed =>
                \E t \in Threads : Writes(t) /\ Mesh(t) = db[i].mesh ]_vars
  BY WhoWrites
<1> QED
  BY <1>1, <1>2, PTL DEF Spec, OwnRowsOnly

\* The expiry loop deletes no row of a mesh it did not find due, unless the
\* id was freed before.
THEOREM RegistryLoopSpares == Spec => LoopSparesOthers
<1>1. Spec => []Owned
  BY InitOwned, NextOwned, PTL DEF Spec
<1>2. Owned /\ [Next]_vars =>
        [ loopPc = "delete" /\ loopPc' = "pop" =>
            \A i \in DOMAIN db \ DOMAIN db' :
                i \in freed \/ db[i].mesh \in loopMeshes ]_vars
  BY LoopSpares
<1> QED
  BY <1>1, <1>2, PTL DEF Spec, LoopSparesOthers

----------------------------------------------------------------------------
(* When the requests of one mesh do not overlap.                            *)

Serial ==
    \A t, u \in Threads :
        t # u /\ Busy(t) /\ Busy(u) => Mesh(t) # Mesh(u) \/ Mesh(t) = None

\* A handler about to insert has no rival: its key is still missing.
KeyIsMissing(t) ==
    pc[t] = "reg_write" /\ DOMAIN loaded[t] = {} =>
        \A i \in DOMAIN db : ~Matches(db[i], Head(req[t].todo), Mesh(t))

\* No row of its mesh has a lease beyond the one a heartbeat is about to give.
LeaseIsLatest(t) ==
    Busy(t) /\ req[t].kind = "heartbeat" =>
        \A i \in DOMAIN db :
            i \in freed \/ db[i].mesh # Mesh(t) \/ db[i].expires <= req[t].lease

LeasesBounded == \A i \in DOMAIN db : db[i].expires <= now + TTL

SerialInv ==
    /\ Owned
    /\ Serial
    /\ OneRowPerKey
    /\ LeasesBounded
    /\ \A t \in Threads : KeyIsMissing(t) /\ LeaseIsLatest(t)

\* Only INSERT adds a row; a row that stays keeps its key.
LEMMA OldRows ==
    ASSUME Typed, [Next]_vars
    PROVE  /\ \A i \in DOMAIN db \cap DOMAIN db' :
                 db'[i].mesh = db[i].mesh /\ db'[i].name = db[i].name
           /\ DOMAIN db' \subseteq DOMAIN db \/ \E t \in Threads : Insert(t)
<1> DEFINE Goal == /\ \A i \in DOMAIN db \cap DOMAIN db' :
                         db'[i].mesh = db[i].mesh /\ db'[i].name = db[i].name
                   /\ DOMAIN db' \subseteq DOMAIN db \/ \E t \in Threads : Insert(t)
<1>1. db' = db => Goal
  OBVIOUS
<1>2. ASSUME NEW t \in Threads, Insert(t) PROVE Goal
  <2>1. \A i \in DOMAIN db : db'[i] = db[i]
    BY <1>2 DEF Insert, IsNextId, Typed, TypeOK, Ids
  <2> QED BY <1>2, <2>1
<1>3. ASSUME NEW t \in Threads, Update(t) PROVE Goal
  BY <1>3 DEF Update, Reregistered, Typed, TypeOK, Rows
<1>4. ASSUME NEW t \in Threads, HbWrite(t) PROVE Goal
  BY <1>4 DEF HbWrite, Renewed, Typed, TypeOK, Rows
<1>5. ASSUME NEW t \in Threads, DelWrite(t) PROVE Goal
  BY <1>5 DEF DelWrite, Removed
<1>6. LoopDelete => Goal
  BY DEF LoopDelete, Removed
<1> HIDE DEF Goal
<1>7. ASSUME NEW t \in Threads, HandlerStep(t) PROVE Goal
  BY <1>1, <1>2, <1>3, <1>4, <1>5, <1>7
  DEF HandlerStep, RegStep, HbStep, DelStep, RegRead, RegFails, RegNext, HbRead,
      HbFails, HbNote, DelRead
<1>8. ASSUME NEW t \in Threads, BeginSome(t) PROVE Goal
  BY <1>1, <1>8 DEF BeginSome, BeginRegister, BeginHeartbeat, BeginDelete, Begin
<1>9. LoopStep => Goal
  BY <1>1, <1>6 DEF LoopStep, LoopScan, LoopSelect, LoopPop
<1>10. Tick \/ Restart \/ (\E m \in Meshes : WorkerStops(m)) \/ UNCHANGED vars => Goal
  BY <1>1 DEF Tick, Restart, WorkerStops, vars
<1>11. Goal
  BY <1>7, <1>8, <1>9, <1>10 DEF Next
<1> QED
  BY <1>11 DEF Goal

\* A row has the lease it had, or none, or the one of a heartbeat of its mesh
\* or of a heartbeat that holds a freed id.
LEMMA LeaseAfterStep ==
    ASSUME Owned, [Next]_vars, NEW i \in DOMAIN db'
    PROVE  \/ i \in DOMAIN db /\ db'[i].expires = db[i].expires
           \/ i \notin DOMAIN db /\ db'[i].expires = NoLease
           \/ \E t \in Threads :
                 /\ HbWrite(t)
                 /\ i \in DOMAIN db /\ i \in DOMAIN loaded[t]
                 /\ i \in freed \/ db[i].mesh = Mesh(t)
                 /\ req[t].kind = "heartbeat"
                 /\ db'[i].expires = req[t].lease
<1> DEFINE Goal == \/ i \in DOMAIN db /\ db'[i].expires = db[i].expires
                   \/ i \notin DOMAIN db /\ db'[i].expires = NoLease
                   \/ \E t \in Threads :
                         /\ HbWrite(t)
                         /\ i \in DOMAIN db /\ i \in DOMAIN loaded[t]
                         /\ i \in freed \/ db[i].mesh = Mesh(t)
                         /\ req[t].kind = "heartbeat"
                         /\ db'[i].expires = req[t].lease
<1>1. db' = db => Goal
  OBVIOUS
<1>2. ASSUME NEW t \in Threads, Insert(t) PROVE Goal
  BY <1>2 DEF Insert, IsNextId, Owned, Typed, TypeOK, Ids
<1>3. ASSUME NEW t \in Threads, Update(t) PROVE Goal
  BY <1>3 DEF Update, Reregistered, Owned, Typed, TypeOK, Rows
<1>4. ASSUME NEW t \in Threads, HbWrite(t) PROVE Goal
  <2>1. pc[t] = "hb_write" /\ req[t].kind = "heartbeat" /\ i \in DOMAIN db
    BY <1>4 DEF HbWrite, Owned, Typed, RequestMatchesPc, HbPcs
  <2>2. CASE i \in DOMAIN loaded[t]
    <3>1. i \in freed \/ db[i].mesh = Mesh(t)
      BY <2>1, <2>2 DEF Owned, HandlerOwns, StillOf
    <3>2. db'[i].expires = req[t].lease
      BY <1>4, <2>1, <2>2 DEF HbWrite, Renewed, Owned, Typed, TypeOK, Rows
    <3> QED BY <1>4, <2>1, <2>2, <3>1, <3>2
  <2>3. CASE i \notin DOMAIN loaded[t]
    BY <1>4, <2>1, <2>3 DEF HbWrite
  <2> QED BY <2>2, <2>3
<1>5. ASSUME NEW t \in Threads, DelWrite(t) PROVE Goal
  BY <1>5 DEF DelWrite, Removed
<1>6. LoopDelete => Goal
  BY DEF LoopDelete, Removed
<1> HIDE DEF Goal
<1>7. ASSUME NEW t \in Threads, HandlerStep(t) PROVE Goal
  BY <1>1, <1>2, <1>3, <1>4, <1>5, <1>7
  DEF HandlerStep, RegStep, HbStep, DelStep, RegRead, RegFails, RegNext, HbRead,
      HbFails, HbNote, DelRead
<1>8. ASSUME NEW t \in Threads, BeginSome(t) PROVE Goal
  BY <1>1, <1>8 DEF BeginSome, BeginRegister, BeginHeartbeat, BeginDelete, Begin
<1>9. LoopStep => Goal
  BY <1>1, <1>6 DEF LoopStep, LoopScan, LoopSelect, LoopPop
<1>10. Tick \/ Restart \/ (\E m \in Meshes : WorkerStops(m)) \/ UNCHANGED vars => Goal
  BY <1>1 DEF Tick, Restart, WorkerStops, vars
<1>11. Goal
  BY <1>7, <1>8, <1>9, <1>10 DEF Next
<1> QED
  BY <1>11 DEF Goal

\* INSERT adds one row, with the key of the handler.
LEMMA NewRow ==
    ASSUME Typed, NEW t \in Threads, Insert(t)
    PROVE  /\ \A i, j \in DOMAIN db' \ DOMAIN db : i = j
           /\ \A i \in DOMAIN db' \ DOMAIN db :
                 db'[i].mesh = Mesh(t) /\ db'[i].name = Head(req[t].todo)
           /\ Mesh(t) \in Meshes
           /\ Busy(t) /\ pc[t] = "reg_write" /\ DOMAIN loaded[t] = {}
<1>1. Mesh(t) \in Meshes
  BY DEF Insert, Typed, RequestMatchesPc, RegPcs
<1> QED
  BY <1>1 DEF Insert, Busy

\* A thread begins, takes a step of its handler, stays or is stopped.
LEMMA ThreadMoves ==
    ASSUME Typed, [Next]_vars, NEW t \in Threads
    PROVE  \/ BeginSome(t)
           \/ HandlerStep(t)
           \/ pc'[t] = pc[t] /\ req'[t] = req[t] /\ loaded'[t] = loaded[t]
           \/ pc'[t] = "idle"
<1>1. ASSUME NEW u \in Threads, BeginSome(u) \/ HandlerStep(u), u # t
      PROVE  pc'[t] = pc[t] /\ req'[t] = req[t] /\ loaded'[t] = loaded[t]
  BY <1>1, OthersStand
<1>2. CASE LoopStep
  BY <1>2 DEF LoopStep, LoopScan, LoopSelect, LoopDelete, LoopPop, threadVars
<1>3. CASE Tick \/ (\E m \in Meshes : WorkerStops(m)) \/ UNCHANGED vars
  BY <1>3 DEF Tick, WorkerStops, vars, threadVars
<1>4. CASE Restart
  BY <1>4 DEF Restart
<1> QED
  BY <1>1, <1>2, <1>3, <1>4 DEF Next

\* A step of a handler serves the request it was given, or ends it.
LEMMA RequestStays ==
    ASSUME Typed, NEW t \in Threads, HandlerStep(t), Busy(t)'
    PROVE  /\ Busy(t)
           /\ req'[t].mesh = req[t].mesh
           /\ req'[t].kind = req[t].kind
           /\ req'[t].lease = req[t].lease
<1>1. Busy(t)
  BY DEF HandlerStep, RegStep, RegRead, Insert, Update, RegFails, RegNext, HbStep,
         HbRead, HbWrite, HbFails, HbNote, DelStep, DelRead, DelWrite, Busy
<1>2. ~Finish(t)
  BY DEF Finish, Goto, Busy, Typed, TypeOK
<1>3. req' = req \/ req' = [req EXCEPT ![t].todo = Tail(@)]
  BY <1>2
  DEF HandlerStep, RegStep, RegRead, Insert, Update, RegFails, RegNext, HbStep,
      HbRead, HbWrite, HbFails, HbNote, DelStep, DelRead, DelWrite
<1>4. req \in [Threads -> Requests]
  BY DEF Typed, TypeOK
<1> QED
  BY <1>1, <1>3, <1>4 DEF Requests

\* What a thread that begins has been given.
LEMMA WhatBegins ==
    ASSUME Typed, NEW t \in Threads, BeginSome(t)
    PROVE  /\ UNCHANGED <<db, freed, now>>
           /\ pc'[t] # "reg_write"
           /\ \/ req'[t].mesh = None
              \/ req'[t].mesh \in Meshes /\ MayStart(req'[t].mesh)
           /\ req'[t].kind = "heartbeat" => req'[t].lease = now + TTL
<1>1. ASSUME NEW r, NEW step, Begin(t, r, step)
      PROVE  pc'[t] = step /\ req'[t] = r /\ UNCHANGED <<db, freed, now>>
  BY <1>1 DEF Begin, Goto, Typed, TypeOK, envVars
<1>2. ASSUME NEW m \in Meshes, NEW n \in Names, NEW h \in Healths, BeginRegister(t, m, n, h)
      PROVE  /\ UNCHANGED <<db, freed, now>> /\ pc'[t] = "reg_read"
             /\ req'[t].mesh = m /\ MayStart(m) /\ req'[t].kind = "register"
  BY <1>1, <1>2 DEF BeginRegister
<1>3. ASSUME NEW m \in Meshes, NEW regs, NEW h \in Healths, BeginHeartbeat(t, m, regs, h)
      PROVE  /\ UNCHANGED <<db, freed, now>> /\ pc'[t] \in {"hb_read", "reg_read"}
             /\ req'[t].mesh = m /\ MayStart(m) /\ req'[t].lease = now + TTL
  BY <1>1, <1>3 DEF BeginHeartbeat, LeaseFrom
<1>4. ASSUME NEW n \in Names, BeginDelete(t, n)
      PROVE  /\ UNCHANGED <<db, freed, now>> /\ pc'[t] = "del_read"
             /\ req'[t].mesh = None /\ req'[t].kind = "delete"
  BY <1>1, <1>4 DEF BeginDelete
<1> QED
  BY <1>2, <1>3, <1>4 DEF BeginSome

LEMMA ClockGoesOn == ASSUME Typed, [Next]_vars PROVE now' >= now /\ now \in Nat
<1>1. ASSUME NEW t \in Threads, BeginSome(t) \/ HandlerStep(t) PROVE now' = now
  BY <1>1, LoopStands
<1>2. LoopStep \/ Restart \/ (\E m \in Meshes : WorkerStops(m)) \/ UNCHANGED vars => now' = now
  BY DEF LoopStep, LoopScan, LoopSelect, LoopDelete, LoopPop, Restart, WorkerStops, vars,
         envVars
<1>3. Tick => now' = now + 1
  BY DEF Tick
<1>4. now \in Nat
  BY RegistryAssumption DEF Typed, TypeOK
<1> QED
  BY <1>1, <1>2, <1>3, <1>4 DEF Next

LEMMA InitSerial == Init => SerialInv
  BY InitOwned
  DEF Init, SerialInv, Serial, OneRowPerKey, LeasesBounded, KeyIsMissing, LeaseIsLatest,
      Busy, Empty

LEMMA NextSerial ==
    ASSUME ~Overlap, SerialInv, [Next]_vars
    PROVE  SerialInv'
<1>1. Typed /\ Owned /\ Owned' /\ Typed'
  BY NextOwned DEF SerialInv, Owned
<1>2. ASSUME NEW t \in Threads, Busy(t)'
      PROVE  \/ BeginSome(t)
             \/ /\ Busy(t)
                /\ Mesh(t)' = Mesh(t)
                /\ req'[t].kind = req[t].kind
                /\ req'[t].lease = req[t].lease
  BY <1>1, <1>2, ThreadMoves, RequestStays DEF Busy, Mesh
<1>3. Serial'
  <2> SUFFICES ASSUME NEW t \in Threads, NEW u \in Threads, t # u, Busy(t)', Busy(u)'
               PROVE  Mesh(t)' # Mesh(u)' \/ Mesh(t)' = None
    BY DEF Serial
  <2>1. ASSUME NEW v \in Threads, NEW w \in Threads, v # w, BeginSome(v), Busy(w)'
        PROVE  Mesh(v)' # Mesh(w)' \/ Mesh(v)' = None
    <3>1. Busy(w) /\ Mesh(w)' = Mesh(w)
      BY <1>1, <2>1, OthersStand DEF Busy, Mesh
    <3>2. Mesh(v)' = None \/ MayStart(Mesh(v)')
      BY <1>1, <2>1, WhatBegins DEF Mesh
    <3> QED
      BY <3>1, <3>2 DEF MayStart
  <2>2. CASE BeginSome(t)
    BY <2>1, <2>2
  <2>3. CASE BeginSome(u)
    BY <2>1, <2>3
  <2>4. CASE ~BeginSome(t) /\ ~BeginSome(u)
    BY <1>2, <2>4 DEF SerialInv, Serial
  <2> QED
    BY <2>2, <2>3, <2>4
<1>4. LeasesBounded'
  <2> SUFFICES ASSUME NEW i \in DOMAIN db' PROVE db'[i].expires <= now' + TTL
    BY DEF LeasesBounded
  <2>1. now' >= now /\ now \in Nat /\ now' \in Nat /\ TTL \in Nat
    BY <1>1, ClockGoesOn, RegistryAssumption DEF Typed, TypeOK
  <2>2. CASE i \in DOMAIN db /\ db'[i].expires = db[i].expires
    <3>1. db[i].expires <= now + TTL /\ db[i].expires \in Int
      BY <1>1, <2>2 DEF SerialInv, LeasesBounded, Typed, TypeOK, Rows
    <3> QED BY <2>1, <2>2, <3>1
  <2>3. CASE db'[i].expires = NoLease
    <3>1. \A n \in Nat : NoLease <= n + TTL
      BY <2>1 DEF NoLease
    <3> QED BY <2>1, <2>3, <3>1
  <2>4. ASSUME NEW t \in Threads, req[t].kind = "heartbeat", db'[i].expires = req[t].lease
        PROVE  db'[i].expires <= now' + TTL
    <3>1. req[t].lease \in 0..(now + TTL)
      BY <1>1, <2>4 DEF Typed, RequestMatchesPc
    <3> QED BY <2>1, <2>4, <3>1
  <2> QED
    BY <1>1, <2>2, <2>3, <2>4, LeaseAfterStep
<1>5. ASSUME NEW t \in Threads PROVE LeaseIsLatest(t)'
  <2> SUFFICES ASSUME Busy(t)', req'[t].kind = "heartbeat", NEW i \in DOMAIN db',
                      i \notin freed', db'[i].mesh = Mesh(t)'
               PROVE  db'[i].expires <= req'[t].lease
    BY DEF LeaseIsLatest
  <2>1. CASE BeginSome(t)
    <3>1. UNCHANGED <<db, now>> /\ req'[t].lease = now + TTL
      BY <1>1, <2>1, WhatBegins
    <3> QED
      BY <3>1 DEF SerialInv, LeasesBounded
  <2>2. CASE ~BeginSome(t)
    <3>1. /\ Busy(t) /\ Mesh(t)' = Mesh(t) /\ req[t].kind = "heartbeat"
          /\ req'[t].lease = req[t].lease
      BY <1>2, <2>2
    <3>2. i \notin freed /\ (i \in DOMAIN db => db[i].mesh = Mesh(t))
      BY <1>1, <3>1, StepKeepsKey, OldRows DEF RowsKeepKey
    <3>3. req[t].lease \in Nat
      BY <1>1, <3>1, RegistryAssumption DEF Typed, TypeOK, RequestMatchesPc
    <3>4. CASE i \in DOMAIN db /\ db'[i].expires = db[i].expires
      BY <3>1, <3>2, <3>4 DEF SerialInv, LeaseIsLatest
    <3>5. CASE db'[i].expires = NoLease
      BY <3>1, <3>3, <3>5 DEF NoLease
    <3>6. ASSUME NEW u \in Threads, HbWrite(u), i \in DOMAIN db,
                 db[i].mesh = Mesh(u), db'[i].expires = req[u].lease
          PROVE  db'[i].expires <= req'[t].lease
      <4>1. Busy(u) /\ Mesh(u) \in Meshes
        BY <1>1, <3>6 DEF HbWrite, Busy, Typed, RequestMatchesPc, HbPcs
      <4>2. u = t
        BY <3>1, <3>2, <3>6, <4>1, RegistryAssumption DEF SerialInv, Serial
      <4> QED
        BY <3>1, <3>3, <3>6, <4>2
    <3> QED
      BY <1>1, <3>2, <3>4, <3>5, <3>6, LeaseAfterStep
  <2> QED BY <2>1, <2>2
<1>6. ASSUME NEW t \in Threads PROVE KeyIsMissing(t)'
  <2> SUFFICES ASSUME pc'[t] = "reg_write", DOMAIN loaded'[t] = {}, NEW i \in DOMAIN db'
               PROVE  ~Matches(db'[i], Head(req'[t].todo), Mesh(t)')
    BY DEF KeyIsMissing
  <2>1. ~BeginSome(t)
    BY <1>1, WhatBegins
  <2>2. CASE HandlerStep(t)
    <3>1. RegRead(t)
      BY <1>1, <2>2
      DEF HandlerStep, RegStep, Insert, Update, RegFails, RegNext, HbStep, HbRead,
          HbWrite, HbFails, HbNote, DelStep, DelRead, DelWrite, Finish, Goto, Typed, TypeOK
    <3>2. UNCHANGED <<db, req>>
      BY <3>1 DEF RegRead
    <3>3. {j \in DOMAIN db : Matches(db[j], Head(req[t].todo), Mesh(t))} = {}
      <4>1. ASSUME NEW j, Load(t, [k \in {j} |-> db[j].health]) PROVE FALSE
        <5>1. loaded'[t] = [k \in {j} |-> db[j].health]
          BY <1>1, <4>1 DEF Load, Typed, TypeOK
        <5>2. DOMAIN loaded'[t] = {j}
          BY <5>1
        <5> QED BY <5>2
      <4> QED
        BY <3>1, <4>1 DEF RegRead
    <3> QED
      BY <3>2, <3>3 DEF Mesh, Matches
  <2>3. CASE ~HandlerStep(t)
    <3>1. pc[t] = "reg_write" /\ req'[t] = req[t] /\ DOMAIN loaded[t] = {}
      BY <1>1, <2>1, <2>3, ThreadMoves
    <3>2. CASE i \in DOMAIN db
      <4>1. ~Matches(db[i], Head(req[t].todo), Mesh(t))
        BY <3>1, <3>2 DEF SerialInv, KeyIsMissing
      <4>2. db'[i].mesh = db[i].mesh /\ db'[i].name = db[i].name
        BY <1>1, <3>2, OldRows
      <4> QED
        BY <3>1, <4>1, <4>2 DEF Matches, Mesh
    <3>3. CASE i \notin DOMAIN db
      <4>1. PICK u \in Threads : Insert(u)
        BY <1>1, <3>3, OldRows
      <4>2. db'[i].mesh = Mesh(u) /\ Mesh(u) \in Meshes /\ Busy(u)
        BY <1>1, <3>3, <4>1, NewRow
      <4>3. u # t
        BY <2>3, <4>1 DEF HandlerStep, RegStep
      <4>4. Mesh(u) # Mesh(t)
        BY <3>1, <4>2, <4>3, RegistryAssumption DEF SerialInv, Serial, Busy
      <4> QED
        BY <3>1, <4>2, <4>4 DEF Matches, Mesh
    <3> QED BY <3>2, <3>3
  <2> QED BY <2>2, <2>3
<1>7. OneRowPerKey'
  <2> SUFFICES ASSUME NEW i \in DOMAIN db', NEW j \in DOMAIN db',
                      Semantic[db'[i].name] = Semantic[db'[j].name],
                      db'[i].mesh = db'[j].mesh
               PROVE  i = j
    BY DEF OneRowPerKey, SameKey
  <2>1. CASE i \in DOMAIN db /\ j \in DOMAIN db
    BY <1>1, <2>1, OldRows DEF SerialInv, OneRowPerKey, SameKey
  <2>2. ASSUME NEW k \in DOMAIN db' \ DOMAIN db, NEW l \in DOMAIN db' \cap DOMAIN db,
               Semantic[db'[k].name] = Semantic[db'[l].name], db'[k].mesh = db'[l].mesh
        PROVE  FALSE
    <3>1. PICK t \in Threads : Insert(t)
      BY <1>1, <2>2, OldRows
    <3>2. /\ db'[k].mesh = Mesh(t) /\ db'[k].name = Head(req[t].todo)
          /\ pc[t] = "reg_write" /\ DOMAIN loaded[t] = {}
      BY <1>1, <2>2, <3>1, NewRow
    <3>3. ~Matches(db[l], Head(req[t].todo), Mesh(t))
      BY <3>2 DEF SerialInv, KeyIsMissing
    <3>4. db'[l].mesh = db[l].mesh /\ db'[l].name = db[l].name
      BY <1>1, OldRows
    <3> QED
      BY <2>2, <3>2, <3>3, <3>4 DEF Matches
  <2>3. CASE i \notin DOMAIN db /\ j \notin DOMAIN db
    BY <1>1, <2>3, OldRows, NewRow
  <2> QED
    BY <2>1, <2>2, <2>3
<1> QED
  BY <1>1, <1>3, <1>4, <1>5, <1>6, <1>7 DEF SerialInv

\* As long as the requests of one mesh do not overlap, the SELECT and the
\* INSERT of register_or_update leave one row per canonical name and mesh.
THEOREM RegistryOneRowPerKey == ASSUME ~Overlap PROVE Spec => []OneRowPerKey
<1>1. SerialInv /\ [Next]_vars => SerialInv'
  BY NextSerial
<1>2. SerialInv => OneRowPerKey
  BY DEF SerialInv
<1> QED
  BY InitSerial, <1>1, <1>2, PTL DEF Spec

\* As long as the requests of one mesh do not overlap, no lease is shortened,
\* unless the id of its row was freed before.
THEOREM RegistryLeasesGrow == ASSUME ~Overlap PROVE Spec => LeasesGrow
<1>1. SerialInv /\ [Next]_vars => SerialInv'
  BY NextSerial
<1>2. SerialInv /\ [Next]_vars =>
        [ \A i \in DOMAIN db \cap DOMAIN db' :
            i \in freed \/ db'[i].expires >= db[i].expires ]_vars
  <2> SUFFICES ASSUME SerialInv, [Next]_vars, NEW i \in DOMAIN db \cap DOMAIN db',
                      i \notin freed
               PROVE  db'[i].expires >= db[i].expires
    OBVIOUS
  <2>1. Owned /\ db[i].expires \in Int
    BY DEF SerialInv, Owned, Typed, TypeOK, Rows
  <2>2. CASE db'[i].expires = db[i].expires
    BY <2>1, <2>2
  <2>3. ASSUME NEW t \in Threads, HbWrite(t), db[i].mesh = Mesh(t),
               req[t].kind = "heartbeat", db'[i].expires = req[t].lease
        PROVE  db'[i].expires >= db[i].expires
    <3>1. db[i].expires <= req[t].lease
      BY <2>3 DEF SerialInv, LeaseIsLatest, HbWrite, Busy
    <3>2. req[t].lease \in Int
      BY <2>1 DEF Owned, Typed, TypeOK, Requests
    <3> QED BY <2>1, <2>3, <3>1, <3>2
  <2> QED
    BY <2>1, <2>2, <2>3, LeaseAfterStep
<1> QED
  BY InitSerial, <1>1, <1>2, PTL DEF Spec, LeasesGrow

----------------------------------------------------------------------------
(* The lease of a new row.                                                  *)

\* A thread that serves no request remembers none.
IdleIsFree == \A t \in Threads : ~Busy(t) => req[t].kind = None

LEMMA NextIdleIsFree == Typed /\ IdleIsFree /\ [Next]_vars => IdleIsFree'
<1> SUFFICES ASSUME Typed, IdleIsFree, [Next]_vars, NEW t \in Threads, ~Busy(t)'
             PROVE  req'[t].kind = None
  BY DEF IdleIsFree
<1> USE DEF IdleIsFree, Busy
<1>1. CASE Restart
  BY <1>1 DEF Restart, NoRequest
<1>2. CASE Finish(t)
  BY <1>2 DEF Finish, NoRequest, Typed, TypeOK
<1>3. CASE pc'[t] = pc[t] /\ req'[t] = req[t]
  BY <1>3
<1>4. CASE HandlerStep(t)
  <2>1. Finish(t) \/ pc'[t] # "idle"
    BY <1>4
    DEF HandlerStep, RegStep, RegRead, Insert, Update, RegFails, RegNext, HbStep, HbRead,
        HbWrite, HbFails, HbNote, DelStep, DelRead, DelWrite, Goto, Typed, TypeOK
  <2> QED
    BY <1>2, <2>1
<1>5. ~BeginSome(t)
  BY DEF BeginSome, BeginRegister, BeginHeartbeat, BeginDelete, Begin, Goto, Typed, TypeOK
<1>6. ASSUME NEW u \in Threads \ {t}, BeginSome(u) \/ HandlerStep(u)
      PROVE  pc'[t] = pc[t] /\ req'[t] = req[t]
  BY <1>6, OthersStand
<1>7. CASE LoopStep \/ Tick \/ (\E m \in Meshes : WorkerStops(m)) \/ UNCHANGED vars
  BY <1>3, <1>7 DEF LoopStep, LoopScan, LoopSelect, LoopDelete, LoopPop, Tick, WorkerStops,
                    vars, threadVars
<1> QED
  BY <1>1, <1>3, <1>4, <1>5, <1>6, <1>7 DEF Next

\* The heartbeat that inserts a row is on its way to give it a lease.
LEMMA NewRowIsPromised ==
    ASSUME Typed, [Next]_vars, NEW i \in DOMAIN db' \ DOMAIN db, ~RegisterInserts(db'[i].mesh)
    PROVE  LeaseComes(i)'
<1>1. PICK t \in Threads : Insert(t)
  BY OldRows
<1>2. /\ db'[i].mesh = Mesh(t) /\ pc[t] = "reg_write" /\ pc'[t] = "reg_refresh" /\ req' = req
  BY <1>1, NewRow DEF Insert, Goto, Typed, TypeOK
<1>3. req[t].kind \in {"register", "heartbeat"}
  BY <1>2 DEF Typed, RequestMatchesPc, RegPcs
<1>4. req[t].kind = "heartbeat"
  BY <1>2, <1>3 DEF RegisterInserts, Writes
<1> QED
  BY <1>2, <1>4 DEF LeaseComes, WillRenew, Mesh

\* The handler that has promised a lease gives it, keeps its promise, or fails.
LEMMA PromiseIsKept ==
    ASSUME Owned, NEW t \in Threads, HandlerStep(t), NEW i \in DOMAIN db \cap DOMAIN db',
           WillRenew(t, i), db'[i].mesh = db[i].mesh, ~HandlerFails(db[i].mesh)
    PROVE  LeaseComes(i)'
<1> USE DEF WillRenew
<1>0. /\ Typed /\ db[i].mesh \in Meshes /\ None \notin Meshes
      /\ t \in DOMAIN pc /\ t \in DOMAIN req /\ t \in DOMAIN loaded
      /\ req[t].lease \in 0..(now + TTL) /\ now \in Nat
  BY RegistryAssumption DEF Owned, Typed, TypeOK, Rows, RequestMatchesPc
<1>1. ~DelStep(t)
  BY <1>0 DEF DelStep, DelRead, DelWrite, Typed, RequestMatchesPc, DelPcs
<1>2. ~HbNote(t)
  BY DEF HbNote
<1>3. ~RegFails(t) /\ ~HbFails(t)
  BY <1>0 DEF RegFails, HbFails, Finish, Goto, HandlerFails
<1>4. CASE HbWrite(t)
  <2>1. i \in DOMAIN loaded[t]
    BY <1>4 DEF HbWrite
  <2>2. db'[i].expires = req[t].lease
    BY <1>0, <1>4, <2>1 DEF HbWrite, Renewed, Typed, TypeOK, Rows
  <2>3. req[t].lease # NoLease
    BY <1>0, RegistryAssumption DEF NoLease
  <2> QED
    BY <2>2, <2>3 DEF LeaseComes
<1>5. CASE HbRead(t)
  <2>1. /\ pc'[t] = "hb_write" /\ req' = req
        /\ loaded'[t] = [j \in Mine(t) |-> db[j].health]
    BY <1>0, <1>5 DEF HbRead, Goto, Load
  <2>2. i \in DOMAIN loaded'[t]
    BY <2>1 DEF Mine
  <2> QED
    BY <2>1, <2>2 DEF LeaseComes, Mesh
<1>6. CASE RegRead(t) \/ Insert(t) \/ Update(t) \/ RegNext(t)
  <2>1. pc'[t] \in {"reg_read", "reg_write", "reg_refresh", "hb_read"}
    BY <1>0, <1>6 DEF RegRead, Insert, Update, RegNext, Goto
  <2>2. req'[t].mesh = req[t].mesh /\ req'[t].kind = "heartbeat"
    BY <1>0, <2>1, RequestStays DEF Busy
  <2> QED
    BY <2>1, <2>2 DEF LeaseComes, Mesh
<1> QED
  BY <1>1, <1>2, <1>3, <1>4, <1>5, <1>6 DEF HandlerStep, RegStep, HbStep

\* What another thread, the loop or the clock does leaves a promise standing.
LEMMA PromiseStands ==
    ASSUME Typed, NEW t \in Threads, NEW i \in DOMAIN db \cap DOMAIN db',
           pc'[t] = pc[t], req'[t] = req[t], loaded'[t] = loaded[t],
           WillRenew(t, i), db'[i].mesh = db[i].mesh
    PROVE  LeaseComes(i)'
  BY DEF WillRenew, LeaseComes, Mesh

LEMMA StepGivesLeases ==
    ASSUME Owned, IdleIsFree, [Next]_vars, NEW i \in DOMAIN db'
    PROVE  \/ LeaseComes(i)'
           \/ i \in DOMAIN db /\ ~LeaseComes(i)
           \/ HandlerFails(db'[i].mesh) \/ RegisterInserts(db'[i].mesh)
           \/ restarts' # restarts
<1> SUFFICES ASSUME i \in DOMAIN db => LeaseComes(i), restarts' = restarts,
                    ~HandlerFails(db'[i].mesh), ~RegisterInserts(db'[i].mesh)
             PROVE  LeaseComes(i)'
  OBVIOUS
<1>1. Typed
  BY DEF Owned
<1>2. CASE i \notin DOMAIN db
  BY <1>1, <1>2, NewRowIsPromised
<1>3. CASE i \in DOMAIN db /\ db[i].expires # NoLease
  <2>1. db'[i].expires # NoLease
    <3>1. ASSUME NEW t \in Threads, req[t].kind = "heartbeat" PROVE req[t].lease # NoLease
      BY <1>1, <3>1, RegistryAssumption DEF Typed, TypeOK, RequestMatchesPc, NoLease
    <3> QED
      BY <1>3, <3>1, LeaseAfterStep
  <2> QED
    BY <2>1 DEF LeaseComes
<1>4. CASE i \in DOMAIN db /\ db[i].expires = NoLease
  <2>1. PICK t \in Threads : WillRenew(t, i)
    BY <1>4 DEF LeaseComes
  <2>2. db'[i].mesh = db[i].mesh
    BY <1>1, <1>4, OldRows
  <2>3. ~BeginSome(t)
    BY <2>1 DEF WillRenew, IdleIsFree, BeginSome, BeginRegister, BeginHeartbeat, BeginDelete,
                Begin, None
  <2>4. CASE HandlerStep(t)
    BY <1>4, <2>1, <2>2, <2>4, PromiseIsKept
  <2>5. ASSUME NEW u \in Threads \ {t}, BeginSome(u) \/ HandlerStep(u)
        PROVE  pc'[t] = pc[t] /\ req'[t] = req[t] /\ loaded'[t] = loaded[t]
    BY <1>1, <2>5, OthersStand
  <2>6. LoopStep \/ Tick \/ (\E m \in Meshes : WorkerStops(m)) \/ UNCHANGED vars =>
            UNCHANGED <<pc, req, loaded>>
    BY DEF LoopStep, LoopScan, LoopSelect, LoopDelete, LoopPop, Tick, WorkerStops, vars,
           threadVars
  <2>7. ~Restart
    BY <1>1, RegistryAssumption DEF Restart, Typed, TypeOK
  <2>8. HandlerStep(t) \/ (pc'[t] = pc[t] /\ req'[t] = req[t] /\ loaded'[t] = loaded[t])
    BY <2>3, <2>5, <2>6, <2>7 DEF Next
  <2> QED
    BY <1>1, <1>4, <2>1, <2>2, <2>4, <2>8, PromiseStands
<1> QED
  BY <1>2, <1>3, <1>4

\* A row that a heartbeat has inserted gets its lease, whatever other handlers,
\* the loop and DELETE do, unless a handler of its mesh fails or the registry
\* crashes.  It holds for overlapping requests, too.
THEOREM RegistryGivesLeases == Spec => LeasesAreGiven
<1>1. Init => IdleIsFree
  BY DEF Init, IdleIsFree, NoRequest
<1>2. Owned => Typed
  BY DEF Owned
<1>3. Spec => [](Owned /\ IdleIsFree)
  BY InitOwned, NextOwned, <1>1, <1>2, NextIdleIsFree, PTL DEF Spec
<1>4. Owned /\ IdleIsFree /\ [Next]_vars =>
        [ \A i \in DOMAIN db' :
            \/ LeaseComes(i)'
            \/ i \in DOMAIN db /\ ~LeaseComes(i)
            \/ HandlerFails(db'[i].mesh) \/ RegisterInserts(db'[i].mesh)
            \/ restarts' # restarts ]_vars
  BY StepGivesLeases
<1> QED
  BY <1>3, <1>4, PTL DEF Spec, LeasesAreGiven

----------------------------------------------------------------------------
(* What readers of the table rely on.                                       *)

LEMMA TableStarts == Init => Table!TableInit
<1> SUFFICES ASSUME Init PROVE db = [i \in {} |-> 0] /\ now = 0
  BY DEF Table!TableInit
<1> QED
  BY DEF Init, Empty

\* Every commit of a handler or of the loop is one of those of FunctionTable.
LEMMA TableSteps ==
    ASSUME Typed, [Next]_vars
    PROVE  [Table!TableNext]_<<db, now>>
<1> DEFINE Goal == [Table!TableNext]_<<db, now>>
<1>1. UNCHANGED <<db, now>> => Goal
  OBVIOUS
<1>2. ASSUME NEW t \in Threads, Insert(t) PROVE Goal
  <2>1. PICK i \in Ids :
          /\ IsNextId(i)
          /\ db' = [j \in DOMAIN db \cup {i} |->
                       IF j = i
                       THEN [name |-> Head(req[t].todo), mesh |-> Mesh(t),
                             health |-> req[t].health, expires |-> NoLease]
                       ELSE db[j]]
    BY <1>2 DEF Insert
  <2>2. Mesh(t) \in Meshes /\ req[t].health \in Healths
    BY <1>2 DEF Insert, Typed, RequestMatchesPc, RegPcs
  <2>3. Head(req[t].todo) \in Names
    <3>1. req[t].todo \in Seq(Names) /\ req[t].todo # <<>>
      BY <1>2 DEF Insert, Typed, TypeOK, RequestMatchesPc, RegPcs, Requests
    <3> QED BY <3>1, HeadTailProperties
  <2>4. now' = now
    BY <1>2 DEF Insert, envVars
  <2>5. Table!AddRow(i, Head(req[t].todo), Mesh(t), req[t].health)
    BY <2>1, <2>4 DEF Table!AddRow, Table!IsNextId, Table!NoLease, IsNextId, NoLease
  <2>6. i \in Table!Ids
    BY <2>1 DEF Table!Ids, Ids
  <2> QED BY <2>2, <2>3, <2>5, <2>6 DEF Table!TableNext
<1>3. ASSUME NEW t \in Threads, Update(t) PROVE Goal
  <2>1. PICK i \in DOMAIN loaded[t] :
          i \in DOMAIN db /\ db' = [db EXCEPT ![i] = Reregistered(t, i)]
    BY <1>3 DEF Update
  <2>2. HealthAfter(t, i) \in Healths
    BY <1>3, <2>1 DEF HealthAfter, Update, Typed, TypeOK, Rows, RequestMatchesPc, RegPcs
  <2>3. db' = [db EXCEPT ![i].health = HealthAfter(t, i)]
    BY <2>1 DEF Reregistered
  <2>4. Table!SetHealth(i, HealthAfter(t, i))
    BY <1>3, <2>1, <2>3 DEF Table!SetHealth, Update, envVars
  <2>5. i \in Table!Ids
    BY <2>1 DEF Table!Ids, Ids, Typed, TypeOK
  <2> QED BY <2>2, <2>4, <2>5 DEF Table!TableNext
<1>4. ASSUME NEW t \in Threads, HbWrite(t) PROVE Goal
  <2> DEFINE ids == DOMAIN loaded[t]
             healthIds == {i \in ids : req[t].health # loaded[t][i]}
             h == req[t].health
             lease == req[t].lease
  <2>1. ids \in SUBSET DOMAIN db /\ healthIds \in SUBSET ids
    BY <1>4 DEF HbWrite
  <2>2. h \in Healths /\ lease \in 0..(now + TTL)
    BY <1>4 DEF HbWrite, Typed, RequestMatchesPc, RegPcs, HbPcs
  <2>3. now' = now
    BY <1>4 DEF HbWrite, envVars
  <2>4. ASSUME NEW i \in DOMAIN db
        PROVE  (IF i \in ids THEN Renewed(t, i) ELSE db[i])
                 = [db[i] EXCEPT !.health = IF i \in healthIds THEN h ELSE @,
                                 !.expires = IF i \in ids THEN lease ELSE @]
    <3>1. db[i] \in Rows
      BY DEF Typed, TypeOK
    <3> QED BY <3>1 DEF Renewed, HealthAfter, Rows
  <2>5. Table!RenewRows(ids, healthIds, h, lease)
    BY <1>4, <2>3, <2>4 DEF Table!RenewRows, HbWrite
  <2> QED BY <2>1, <2>2, <2>5 DEF Table!TableNext
<1>5. ASSUME NEW ids, db' = Removed(ids), now' = now PROVE Goal
  <2>1. db' = [i \in DOMAIN db \ (ids \cap DOMAIN db) |-> db[i]]
    BY <1>5 DEF Removed
  <2>2. Table!RemoveRows(ids \cap DOMAIN db)
    BY <1>5, <2>1 DEF Table!RemoveRows
  <2> QED BY <2>2 DEF Table!TableNext
<1>6. Tick => Goal
  BY DEF Tick, Table!TableNext, Table!TimePasses
<1> HIDE DEF Goal
<1>7. ASSUME NEW t \in Threads, HandlerStep(t) PROVE Goal
  <2>1. DelWrite(t) => Goal
    BY <1>5 DEF DelWrite, envVars
  <2> QED
    BY <1>1, <1>2, <1>3, <1>4, <1>7, <2>1
    DEF HandlerStep, RegStep, HbStep, DelStep, RegRead, RegFails, RegNext, HbRead,
        HbFails, HbNote, DelRead, envVars
<1>8. ASSUME NEW t \in Threads, BeginSome(t) PROVE Goal
  BY <1>1, <1>8 DEF BeginSome, BeginRegister, BeginHeartbeat, BeginDelete, Begin, envVars
<1>9. LoopStep => Goal
  BY <1>1, <1>5 DEF LoopStep, LoopScan, LoopSelect, LoopDelete, LoopPop, envVars
<1>10. Restart \/ (\E m \in Meshes : WorkerStops(m)) \/ UNCHANGED vars => Goal
  BY <1>1 DEF Restart, WorkerStops, vars, envVars
<1>11. Goal
  BY <1>6, <1>7, <1>8, <1>9, <1>10 DEF Next
<1> QED
  BY <1>11 DEF Goal

\* The write side, with all its handlers, the loop and the crashes, implements
\* the table that FunctionTable describes.
THEOREM RegistryImplementsTable == Spec => ImplementsTable
<1>1. Spec => []Typed
  BY InitTyped, NextTyped, PTL DEF Spec
<1>2. Typed /\ [Next]_vars => [Table!TableNext]_<<db, now>>
  BY TableSteps
<1> QED
  BY TableStarts, <1>1, <1>2, PTL DEF Spec, ImplementsTable, Table!TableSpec, Table!tableVars
=============================================================================
