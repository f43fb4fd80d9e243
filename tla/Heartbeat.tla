------------------------------ MODULE Heartbeat ------------------------------
(***************************************************************************)
(* The heartbeat of a worker and the lease it renews, with time.  The      *)
(* three SDKs send the same request on different clocks: Python waits for  *)
(* the interval after each send has ended, Java schedules at a fixed rate  *)
(* on one thread, Node sends on a timer whether or not the last send has   *)
(* ended.  The registry grants a lease that counts from its receipt.       *)
(*                                                                         *)
(* Clocks count down (timer, lease) or up (age) in ticks.  The content of  *)
(* the request is in Registry: it registers every function of the worker,  *)
(* so that one receipt suffices.  The heartbeat is enabled: its interval   *)
(* is not 0.                                                               *)
(***************************************************************************)
EXTENDS Integers, FiniteSets

CONSTANTS
    Runtimes,   \* a subset of {"python", "java", "node"}
    Interval,   \* runtime -> ticks between heartbeats, as configured
    MaxDelay,   \* runtime -> ticks a send takes at most
    Second,     \* ticks in a second: the registry is told whole seconds
    Grace,      \* HEARTBEAT_GRACE_MULTIPLIER, a float: the fraction
    GraceParts, \*   Grace / GraceParts
    Sends       \* slots for sends under way

ASSUME IntervalAssumption ==
    /\ Runtimes \subseteq {"python", "java", "node"}
    /\ Interval \in [Runtimes -> Nat \ {0}]
    /\ MaxDelay \in [Runtimes -> Nat]
    /\ Second \in Nat \ {0}
    /\ \A r \in Runtimes \ {"node"} : Interval[r] % Second = 0
    /\ Grace \in Nat /\ GraceParts \in Nat \ {0}

VARIABLES
    runtime,   \* of the worker
    alive,     \* is its process running?
    timer,     \* ticks until the next heartbeat is due, or Off
    due,       \* Java: heartbeats the schedule owes
    send,      \* the sends: where each is, and its age
    lease,     \* ticks until expires_at, or Over
    calm,      \* environment: no send fails
    fresh      \* history: a send of this process was received, and none lost since

vars == <<runtime, alive, timer, due, send, lease, calm, fresh>>

Off == -1
Over == -1

\* Node: Math.round(intervalMs / 1000).
Announced == ((Interval[runtime] + Second \div 2) \div Second) * Second

\* heartbeat(): int(interval_s * grace) seconds.
GracePeriod == (((Announced \div Second) * Grace) \div GraceParts) * Second

\* Mutated form: the lease is as long as the interval.
LeaseOfInterval == Announced
Lease == GracePeriod

Idle == [at |-> "idle", age |-> 0]
Out == [at |-> "out", age |-> 0]
SendStates == {"idle", "out", "back", "stray"}

Init ==
    /\ runtime \in Runtimes
    /\ alive = FALSE
    /\ timer = Off
    /\ due = 0
    /\ send = [s \in Sends |-> Idle]
    /\ lease = Over
    /\ calm \in BOOLEAN
    /\ fresh = FALSE

Own == {s \in Sends : send[s].at \in {"out", "back"}}
Free == {s \in Sends : send[s].at = "idle"}

----------------------------------------------------------------------------
(* The process.  It sends its first heartbeat when it starts.              *)

\* The new process has a new mesh id and another lease, unless
\* MCPRPC_MESH_ID gives it the same.
Start ==
    /\ ~alive
    /\ alive' = TRUE
    /\ timer' = 0
    /\ \/ UNCHANGED <<send, lease>>
       \/ send' = [s \in Sends |-> Idle] /\ lease' = Over
    /\ UNCHANGED <<runtime, due, calm, fresh>>

\* A request that has left the process may still arrive.
Stray(s) ==
    IF send[s].at \in {"out", "stray"} THEN [send[s] EXCEPT !.at = "stray"] ELSE Idle

Crash ==
    /\ alive
    /\ alive' = FALSE
    /\ timer' = Off
    /\ due' = 0
    /\ send' = [s \in Sends |-> Stray(s)]
    /\ fresh' = FALSE
    /\ UNCHANGED <<runtime, lease, calm>>

----------------------------------------------------------------------------
(* The clocks of the three SDKs.                                           *)

\* scheduleAtFixedRate: the schedule goes on while its thread is busy.
BecomesDue ==
    /\ runtime = "java"
    /\ timer = 0
    /\ timer' = Interval[runtime]
    /\ due' = due + 1
    /\ UNCHANGED <<runtime, alive, send, lease, calm, fresh>>

\* _loop waits after the send, setInterval beside it.
MaySend == IF runtime = "java" THEN due > 0 /\ Own = {} ELSE timer = 0

SendHeartbeat(s) ==
    /\ alive
    /\ MaySend
    /\ s \in Free
    /\ send' = [send EXCEPT ![s] = Out]
    /\ timer' = CASE runtime = "python" -> Off
                  [] runtime = "java" -> timer
                  [] runtime = "node" -> Interval[runtime]
    /\ due' = IF runtime = "java" THEN due - 1 ELSE due
    /\ UNCHANGED <<runtime, alive, lease, calm, fresh>>

\* The send has ended, well or not: failures are logged and swallowed.
\* Mutated form: a failure ends the loop.
AfterLoss == Off
AfterSend == IF runtime = "python" THEN Interval[runtime] ELSE timer
AfterFailure == AfterSend

ReturnOf(s) ==
    /\ send[s].at = "back"
    /\ send' = [send EXCEPT ![s] = Idle]
    /\ timer' = AfterSend
    /\ UNCHANGED <<runtime, alive, due, lease, calm, fresh>>

----------------------------------------------------------------------------
(* The network and the registry.                                           *)

Receive(s) ==
    /\ send[s].at \in {"out", "stray"}
    /\ lease' = Lease
    /\ IF send[s].at = "out"
       THEN /\ send' = [send EXCEPT ![s].at = "back"]
            /\ fresh' = TRUE
       ELSE /\ send' = [send EXCEPT ![s] = Idle]
            /\ UNCHANGED fresh
    /\ UNCHANGED <<runtime, alive, timer, due, calm>>

\* The registry is down, too slow, or answers with an error.
Lose(s) ==
    /\ ~calm
    /\ send[s].at \in {"out", "stray"}
    /\ send' = [send EXCEPT ![s] = Idle]
    /\ IF send[s].at = "out"
       THEN timer' = AfterFailure /\ fresh' = FALSE
       ELSE UNCHANGED <<timer, fresh>>
    /\ UNCHANGED <<runtime, alive, due, lease, calm>>

CalmChanges ==
    /\ calm' = ~calm
    /\ UNCHANGED <<runtime, alive, timer, due, send, lease, fresh>>

----------------------------------------------------------------------------
(* Time.  What is due is done first; what that takes is part of MaxDelay.  *)

TimedOut(s) == send[s].at # "idle" /\ send[s].age >= MaxDelay[runtime]

Urgent ==
    \/ timer = 0
    \/ runtime = "java" /\ due > 0 /\ Own = {}
    \/ \E s \in Sends : TimedOut(s)

Older(s) == IF send[s].at = "idle" THEN Idle ELSE [send[s] EXCEPT !.age = @ + 1]

Tick ==
    /\ ~Urgent
    /\ timer' = IF timer = Off THEN Off ELSE timer - 1
    /\ lease' = IF lease = Over THEN Over ELSE lease - 1
    /\ send' = [s \in Sends |-> Older(s)]
    /\ UNCHANGED <<runtime, alive, due, calm, fresh>>

WorkerStep == BecomesDue \/ \E s \in Sends : SendHeartbeat(s) \/ ReturnOf(s)
NetworkStep == \E s \in Sends : Receive(s) \/ Lose(s)

Next == Start \/ Crash \/ WorkerStep \/ NetworkStep \/ CalmChanges \/ Tick

Spec == Init /\ [][Next]_vars

----------------------------------------------------------------------------
TypeOK ==
    /\ runtime \in Runtimes
    /\ alive \in BOOLEAN
    /\ timer \in Off..Interval[runtime]
    /\ due \in Nat
    /\ send \in [Sends -> [at : SendStates, age : 0..MaxDelay[runtime]]]
    /\ lease \in Over..Lease
    /\ calm \in BOOLEAN
    /\ fresh \in BOOLEAN

\* From the receipt of one send to the end of the next: Python waits the interval
\* after a send has ended, Java sends at once when it is late, Node on time.
LongestGap ==
    LET interval == Interval[runtime]
        delay == MaxDelay[runtime]
    IN  CASE runtime = "python" -> delay + interval + delay
          [] runtime = "java" -> (IF interval < delay THEN delay ELSE interval) + delay
          [] runtime = "node" -> interval + delay

\* What an operator must grant for a lease to last from receipt to receipt.
Lasts == LongestGap <= GracePeriod

\* A worker that lives and loses no heartbeat keeps its lease: its functions
\* are never taken for dead between two heartbeats.
LeaseHeld == Lasts /\ alive /\ fresh => lease # Over
=============================================================================
