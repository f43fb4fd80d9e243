----------------------------- MODULE Discovery ------------------------------
(***************************************************************************)
(* The registry as one process (mr-registry/app/main.py): /register,       *)
(* /heartbeat, DELETE and the expiry loop write the table that /resolve    *)
(* reads, in threads of one pool, by one clock.  A crash takes the         *)
(* handlers of both sides, HEARTBEATS and RR_INDEX, and leaves the table.  *)
(*                                                                         *)
(* Registry and Resolver are the two sides; each was cut off from the      *)
(* other at FunctionTable, and here they meet.                             *)
(***************************************************************************)
EXTENDS Registry

CONSTANTS
    Resolvers,   \* threads of the pool that serve /resolve
    MeshOrder,   \* the order of mesh ids as strings: mesh -> Nat
    NoHealth,    \* a health column that is NULL
    Cycle        \* the index of a name is kept modulo Cycle

VARIABLES rpc, asked, asOf, read, rrIndex, steady, lastPick   \* as in Resolver

Res == INSTANCE Resolver

readVars == <<rpc, asked, asOf, read, rrIndex, lastPick>>
dvars == <<vars, readVars, steady>>

DInit == Init /\ Res!Init

\* A step of the write side: handlers of /resolve notice it at their next
\* SELECT; until then, rows may stop being what they were.
Write ==
    /\ \/ \E t \in Threads : BeginSome(t) \/ HandlerStep(t)
       \/ LoopStep
       \/ Tick
       \/ \E m \in Meshes : WorkerStops(m)
    /\ UNCHANGED readVars
    /\ steady' = [r \in Resolvers |->
                     {i \in steady[r] : Res!IsCandidate(i, asked[r], asOf[r])'}]

\* A step of a handler of /resolve.
Resolve ==
    /\ \E r \in Resolvers :
          Res!ResolveStep(r) \/ \E n \in Names : Res!BeginResolve(r, n)
    /\ UNCHANGED <<heartbeats, threadVars, loopVars, alive, freed>>

\* Both sides are one process and crash together.
Crash == Restart /\ Res!Restart

DNext == Write \/ Resolve \/ Crash
DSpec == DInit /\ [][DNext]_dvars

----------------------------------------------------------------------------
\* What is checked, and proved, of /resolve over any table that FunctionTable
\* allows holds over the table the registry really writes: the handlers, the
\* loop and the crashes do nothing that the reader was not prepared for.
ImplementsResolver == Res!Spec
=============================================================================
