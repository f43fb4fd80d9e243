-------------------------- MODULE DiscoveryProofs ---------------------------
(***************************************************************************)
(* The two sides of the registry fit together: over the table that the     *)
(* write side really keeps, /resolve is what Resolver says of it, for any  *)
(* threads, meshes, names, rows and crashes.                               *)
(***************************************************************************)
EXTENDS Discovery, RegistryProofs

\* The table is a function of the row ids, also where no row is touched.
IsTable == db = [i \in DOMAIN db |-> db[i]]

\* No step of one side belongs to the other: the write side goes on as in
\* Registry.
LEMMA WriteSide == [DNext]_dvars => [Next]_vars
<1>1. Write => Next
  BY DEF Write, Next
<1>2. Crash => Next
  BY DEF Crash, Next
<1>3. Resolve => UNCHANGED vars
  <2>1. ASSUME NEW r \in Resolvers, Res!ResolveStep(r)
        PROVE  UNCHANGED <<db, now, restarts>>
    BY <2>1 DEF Res!ResolveStep, Res!SelectCandidates, Res!CheckRecords, Res!Pick, Res!tableVars
  <2>2. ASSUME NEW r \in Resolvers, NEW n \in Names, Res!BeginResolve(r, n)
        PROVE  UNCHANGED <<db, now, restarts>>
    BY <2>2 DEF Res!BeginResolve, Res!tableVars
  <2> QED
    BY <2>1, <2>2 DEF Resolve, vars, envVars
<1> QED
  BY <1>1, <1>2, <1>3 DEF DNext, dvars

\* The tables of the two instances of FunctionTable are one.
LEMMA OneTable == Table!TableNext => Res!TableNext
  BY DEF Table!TableNext, Res!TableNext, Table!AddRow, Res!AddRow, Table!IsNextId, Res!IsNextId,
         Table!SetHealth, Res!SetHealth, Table!RenewRows, Res!RenewRows,
         Table!RemoveRows, Res!RemoveRows, Table!TimePasses, Res!TimePasses,
         Table!Ids, Res!Ids, Table!NoLease, Res!NoLease

\* A step that leaves the table alone is, to its readers, the removal of no row.
LEMMA NothingRemoved ==
    ASSUME IsTable, UNCHANGED <<db, now>>
    PROVE  Res!TableNext
<1>1. db' = [i \in DOMAIN db \ {} |-> db[i]]
  BY DEF IsTable
<1>2. Res!RemoveRows({})
  BY <1>1 DEF Res!RemoveRows
<1> QED
  BY <1>2 DEF Res!TableNext

\* Every commit writes a table.
LEMMA TableStays ==
    ASSUME IsTable, [Res!TableNext]_<<db, now>>
    PROVE  IsTable'
<1>1. ASSUME NEW i, NEW n, NEW m, NEW h, Res!AddRow(i, n, m, h) PROVE IsTable'
  BY <1>1 DEF Res!AddRow, IsTable
<1>2. ASSUME NEW i, NEW h, Res!SetHealth(i, h) PROVE IsTable'
  BY <1>2 DEF Res!SetHealth, IsTable
<1>3. ASSUME NEW ids, NEW healthIds, NEW h, NEW lease, Res!RenewRows(ids, healthIds, h, lease)
      PROVE  IsTable'
  BY <1>3 DEF Res!RenewRows, IsTable
<1>4. ASSUME NEW ids, Res!RemoveRows(ids) PROVE IsTable'
  BY <1>4 DEF Res!RemoveRows, IsTable
<1>5. ASSUME UNCHANGED db PROVE IsTable'
  BY <1>5 DEF IsTable
<1> QED
  BY <1>1, <1>2, <1>3, <1>4, <1>5 DEF Res!TableNext, Res!TimePasses

\* A step of the write side other than a crash.
LEMMA WriteIsTableChange ==
    ASSUME Typed, IsTable, Write
    PROVE  Res!TableChanges
<1>1. [Table!TableNext]_<<db, now>>
  BY WriteSide, TableSteps DEF DNext
<1>2. Res!TableNext
  BY <1>1, OneTable, NothingRemoved
<1>3. restarts' = restarts
  <2>1. ASSUME NEW t \in Threads, BeginSome(t) PROVE restarts' = restarts
    BY <2>1 DEF BeginSome, BeginRegister, BeginHeartbeat, BeginDelete, Begin, envVars
  <2>2. ASSUME NEW t \in Threads, RegStep(t) PROVE restarts' = restarts
    BY <2>2 DEF RegStep, RegRead, Insert, Update, RegFails, RegNext, envVars
  <2>3. ASSUME NEW t \in Threads, HbStep(t) \/ DelStep(t) PROVE restarts' = restarts
    BY <2>3 DEF HbStep, HbRead, HbWrite, HbFails, HbNote, DelStep, DelRead, DelWrite, envVars
  <2>4. LoopStep \/ Tick \/ (\E m \in Meshes : WorkerStops(m)) => restarts' = restarts
    BY DEF LoopStep, LoopScan, LoopSelect, LoopDelete, LoopPop, Tick, WorkerStops, envVars
  <2> QED
    BY <2>1, <2>2, <2>3, <2>4 DEF Write, HandlerStep
<1> QED
  BY <1>2, <1>3 DEF Write, readVars, Res!TableChanges, Res!indexVars

\* What both sides know of the table.
DInv == Typed /\ IsTable

LEMMA InitDInv == DInit => DInv
  BY InitTyped DEF DInit, DInv, Init, IsTable, Empty

LEMMA NextDInv == DInv /\ [DNext]_dvars => DInv'
<1> SUFFICES ASSUME DInv, [DNext]_dvars PROVE DInv'
  OBVIOUS
<1>1. [Next]_vars
  BY WriteSide
<1>2. Typed'
  BY <1>1, NextTyped DEF DInv
<1>3. [Table!TableNext]_<<db, now>>
  BY <1>1, TableSteps DEF DInv
<1>4. IsTable'
  BY <1>3, OneTable, TableStays DEF DInv
<1> QED
  BY <1>2, <1>4 DEF DInv

\* Every step of the process is one of Resolver's.
LEMMA ReadSide ==
    ASSUME DInv, [DNext]_dvars
    PROVE  [Res!Next]_(Res!vars)
<1>1. Write => Res!Next
  BY WriteIsTableChange DEF DInv, Res!Next
<1>2. Resolve => Res!Next
  BY DEF Resolve, Res!Next
<1>3. Crash => Res!Next
  BY DEF Crash, Res!Next
<1>4. UNCHANGED dvars => UNCHANGED Res!vars
  BY DEF dvars, vars, envVars, readVars, Res!vars, Res!tableVars, Res!resolverVars, Res!indexVars
<1> QED
  BY <1>1, <1>2, <1>3, <1>4 DEF DNext

\* The write side is Registry still: what is proved of it holds here.
THEOREM DiscoveryImplementsRegistry == DSpec => Spec
<1>1. DInit => Init
  BY DEF DInit
<1> QED
  BY <1>1, WriteSide, PTL DEF DSpec, Spec

\* Over the table that the handlers, the loop and the crashes really write,
\* /resolve is what Resolver says: a function that stays available is found and
\* replicas take turns, since ResolverProofs shows both of Resolver.
THEOREM DiscoveryImplementsResolver == DSpec => ImplementsResolver
<1>1. DInit => Res!Init
  BY DEF DInit
<1>2. DSpec => []DInv
  BY InitDInv, NextDInv, PTL DEF DSpec
<1> QED
  BY <1>1, <1>2, ReadSide, PTL DEF DSpec, ImplementsResolver, Res!Spec
=============================================================================
