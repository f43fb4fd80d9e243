------------------------------ MODULE ToolCall ------------------------------
(***************************************************************************)
(* What execute_mcp_tool (mr-router/app/mcp_executor.py) promises /call:   *)
(* it returns a result or raises; while it works, the tool may be started  *)
(* up to Attempts times, and a result means that it was started.  Executor *)
(* implements this specification; Router builds on it.                     *)
(***************************************************************************)
EXTENDS Naturals

CONSTANTS
    Calls,      \* slots for concurrent calls
    Attempts    \* max(1, settings.retry_attempts)

ASSUME AttemptsAssumption == Attempts \in Nat \ {0}

VARIABLES
    working,    \* calls for which execute_mcp_tool runs
    starts,     \* how often each of them has started the tool
    outcome     \* how the last execution ended: None, "ok" or "error"

toolVars == <<working, starts, outcome>>

NoOutcome == "none"

ToolInit ==
    /\ working = {}
    /\ starts = [c \in Calls |-> 0]
    /\ outcome = [c \in Calls |-> NoOutcome]

Execute(c) ==
    /\ c \notin working
    /\ working' = working \cup {c}
    /\ starts' = [starts EXCEPT ![c] = 0]
    /\ outcome' = [outcome EXCEPT ![c] = NoOutcome]

StartTool(c) ==
    /\ c \in working
    /\ starts[c] < Attempts
    /\ starts' = [starts EXCEPT ![c] = @ + 1]
    /\ UNCHANGED <<working, outcome>>

Return(c) ==
    /\ c \in working
    /\ starts[c] > 0
    /\ working' = working \ {c}
    /\ outcome' = [outcome EXCEPT ![c] = "ok"]
    /\ UNCHANGED starts

\* The tool may have been started all the same, and may even have finished.
Raise(c) ==
    /\ c \in working
    /\ working' = working \ {c}
    /\ outcome' = [outcome EXCEPT ![c] = "error"]
    /\ UNCHANGED starts

ToolStep(c) == Execute(c) \/ StartTool(c) \/ Return(c) \/ Raise(c)
ToolNext == \E c \in Calls : ToolStep(c)

ToolSpec == ToolInit /\ [][ToolNext]_toolVars

\* Every execution ends.
ExecutionsEnd == \A c \in Calls : c \in working ~> c \notin working
=============================================================================
