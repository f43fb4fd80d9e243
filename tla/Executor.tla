------------------------------ MODULE Executor ------------------------------
(***************************************************************************)
(* execute_mcp_tool (mr-router/app/mcp_executor.py) for one endpoint: up   *)
(* to Attempts attempts of retry_async, each a call through the endpoint's *)
(* circuit breaker that opens a session and calls the tool, each bounded   *)
(* by router_timeout_s, with a pause between two of them.  Every step      *)
(* that meets the breaker is a step of CircuitBreaker.                     *)
(*                                                                         *)
(* Abstracted: the delays (a pause ends at some time), the arguments and   *)
(* the result, and the key under which the breaker of the endpoint is      *)
(* found.                                                                  *)
(***************************************************************************)
EXTENDS CircuitBreaker

CONSTANT Attempts   \* max(1, settings.retry_attempts)

ASSUME RetryAssumption == Attempts \in Nat \ {0}

VARIABLES
    at,        \* where each call is
    tries,     \* number of the current attempt, from 1
    starts,    \* how often it has started the tool
    outcome,   \* how its last execution ended
    lostRun    \* history: attempts that ended otherwise than in success,
               \* since the last success

callVars == <<at, tries, starts, outcome>>
evars == <<vars, callVars, lostRun>>

NoOutcome == "none"
Places == {"idle", "try", "connecting", "running", "pause"}

EInit ==
    /\ Init
    /\ at = [c \in Calls |-> "idle"]
    /\ tries = [c \in Calls |-> 0]
    /\ starts = [c \in Calls |-> 0]
    /\ outcome = [c \in Calls |-> NoOutcome]
    /\ lostRun = 0

Goto(c, place) == at' = [at EXCEPT ![c] = place]

\* Attempts end; UpTo caps the history.
Lost == lostRun' = UpTo(lostRun + 1, FailureThreshold)

----------------------------------------------------------------------------
\* The endpoint is one that /call lets through: a stdio command, of which
\* _resolve_command may find none, is rejected before.
Execute(c) ==
    /\ at[c] = "idle"
    /\ Goto(c, "try")
    /\ tries' = [tries EXCEPT ![c] = 1]
    /\ starts' = [starts EXCEPT ![c] = 0]
    /\ outcome' = [outcome EXCEPT ![c] = NoOutcome]
    /\ UNCHANGED <<vars, lostRun>>

\* execute_mcp_tool is left with a result or with MCPExecutorError.
Leave(c, o) ==
    /\ Goto(c, "idle")
    /\ outcome' = [outcome EXCEPT ![c] = o]
    /\ UNCHANGED <<tries, starts>>

\* cb.call, first segment.
Enter(c) ==
    /\ at[c] = "try"
    /\ Admit(c) \/ Probe(c)
    /\ Goto(c, "connecting")
    /\ UNCHANGED <<tries, starts, outcome, lostRun>>

\* CircuitBreakerOpenError is not in retry_on: no further attempt.
Blocked(c) ==
    /\ at[c] = "try"
    /\ Reject(c)
    /\ Leave(c, "error")
    /\ UNCHANGED lostRun

\* sse_client and initialize succeeded, call_tool is sent.
StartTool(c) ==
    /\ at[c] = "connecting"
    /\ Goto(c, "running")
    /\ starts' = [starts EXCEPT ![c] = @ + 1]
    /\ UNCHANGED <<vars, tries, outcome, lostRun>>

Answered(c) ==
    /\ at[c] = "running"
    /\ Succeed(c)
    /\ Leave(c, "ok")
    /\ lostRun' = 0

\* Mutated form: one attempt too many.
LastAttemptLate(c) == tries[c] = Attempts + 1
LastAttempt(c) == tries[c] = Attempts

\* The attempt is over; after the last one its error is raised.
TryAgain(c) ==
    \/ /\ LastAttempt(c)
       /\ Leave(c, "error")
    \/ /\ ~LastAttempt(c)
       /\ Goto(c, "pause")
       /\ UNCHANGED <<tries, starts, outcome>>

\* An error that is counted by the breaker, and tried again only if it is in
\* retry_on.
Breaks(c) ==
    /\ at[c] \in {"connecting", "running"}
    /\ Fail(c)
    /\ TryAgain(c) \/ Leave(c, "error")
    /\ Lost

\* wait_for cancels the attempt; the tool may go on at the worker.
Expires(c) ==
    /\ at[c] \in {"connecting", "running"}
    /\ TimeOut(c)
    /\ TryAgain(c)
    /\ Lost

\* Mutated forms: the loop retries inside the breaker, not around it; it does
\* not count.
RetryInside == "connecting"
Retry == "try"
SameTry(c) == tries[c]
NextTry(c) == tries[c] + 1

PauseEnds(c) ==
    /\ at[c] = "pause"
    /\ Goto(c, Retry)
    /\ tries' = [tries EXCEPT ![c] = NextTry(c)]
    /\ UNCHANGED <<vars, starts, outcome, lostRun>>

Environment == (Tick \/ HealthChanges) /\ UNCHANGED <<callVars, lostRun>>

CallStep(c) == Enter(c) \/ Blocked(c) \/ StartTool(c) \/ Answered(c) \/ Breaks(c)
                 \/ Expires(c) \/ PauseEnds(c)

ENext == (\E c \in Calls : Execute(c) \/ CallStep(c)) \/ Environment

ESpec == EInit /\ [][ENext]_evars

\* An attempt ends, by its timeout if not before; time passes and pauses end.
\* Nobody has to call.
EFairSpec ==
    /\ ESpec
    /\ \A c \in Calls : WF_evars(CallStep(c))
    /\ WF_evars(Tick /\ UNCHANGED <<callVars, lostRun>>)

----------------------------------------------------------------------------
ETypeOK ==
    /\ at \in [Calls -> Places]
    /\ tries \in [Calls -> 0..Attempts]
    /\ starts \in [Calls -> 0..Attempts]
    /\ outcome \in [Calls -> {NoOutcome, "ok", "error"}]
    /\ lostRun \in 0..FailureThreshold
    /\ \A c \in Calls : at[c] = "pause" => tries[c] < Attempts

\* A call is inside the breaker exactly while its attempt runs: no path out of
\* an attempt (result, error, timeout, rejection) leaves the breaker waiting
\* for an outcome or reports one twice, and no attempt starts the tool twice.
AttemptsMatchBreaker ==
    \A c \in Calls :
        /\ c \in running <=> at[c] \in {"connecting", "running"}
        /\ starts[c] <= tries[c]
        /\ at[c] \in {"try", "connecting"} => starts[c] < tries[c]

\* An execution never turns back: whatever the breaker and the other calls do,
\* each step of its own brings it nearer to its end, of which it is at most
\* 4 * Attempts steps away.
StepsInAttempt(place) ==
    CASE place = "try" -> 3 [] place = "connecting" -> 2 [] place = "running" -> 1 [] OTHER -> 0
StepsLeft(c) == 4 * (Attempts - tries[c]) + StepsInAttempt(at[c])
ExecutionsAdvance ==
    [][ \A c \in Calls :
            at[c] # "idle" /\ at'[c] # "idle" =>
                \/ at'[c] = at[c] /\ tries'[c] = tries[c]
                \/ StepsLeft(c)' < StepsLeft(c) ]_evars

\* What /call relies on, with its liveness.
Tool == INSTANCE ToolCall WITH working <- {c \in Calls : at[c] # "idle"}
ImplementsToolCall == Tool!ToolSpec
ExecutionsEnd == Tool!ExecutionsEnd

----------------------------------------------------------------------------
\* mr-router/README.md line 12: MCP invocations are under a circuit breaker.
\* Then FailureThreshold attempts in a row that end without success find it
\* no longer closed.
LostAttemptsOpen == lostRun = FailureThreshold => state # "closed"
=============================================================================
