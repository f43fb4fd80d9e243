--------------------------- MODULE RegistryClient ---------------------------
(***************************************************************************)
(* resolve_function (mr-router/app/registry_client.py): the router's call  *)
(* of /resolve.  It goes through the same retry loop and the same class of *)
(* breaker as a tool call (Executor), with a breaker of its own and        *)
(* without a timeout around the attempt: httpx raises the timeout inside   *)
(* the breaker, which counts it.  The two clients share nothing: client    *)
(* says whose breaker and calls a behaviour is about.                      *)
(***************************************************************************)
EXTENDS Executor

VARIABLE client

cvars == <<evars, client>>

CInit == EInit /\ client \in {"registry", "tool"}

\* 200, 404 and 410 are answers; httpx errors and other codes are tried again,
\* a body that cannot be read is not.  Each of these passes the breaker.
\* Mutated form: the attempt is cancelled from outside, as a tool call is.
ResolveStepTimed(c) == CallStep(c)
ResolveStep(c) ==
    Enter(c) \/ Blocked(c) \/ StartTool(c) \/ Answered(c) \/ Breaks(c) \/ PauseEnds(c)

ClientStep(c) ==
    \/ client = "registry" /\ ResolveStep(c) /\ UNCHANGED client
    \/ client = "tool" /\ CallStep(c) /\ UNCHANGED client

CNext ==
    \/ \E c \in Calls : ClientStep(c) \/ (Execute(c) /\ UNCHANGED client)
    \/ Environment /\ UNCHANGED client

CSpec == CInit /\ [][CNext]_cvars

\* An attempt ends, time passes, and callers keep calling: a breaker only
\* leaves "open" when it is asked.
CFairSpec ==
    /\ CSpec
    /\ \A c \in Calls :
          /\ WF_cvars(ClientStep(c))
          /\ WF_cvars(Execute(c) /\ UNCHANGED client)
    /\ WF_cvars(Tick /\ UNCHANGED <<callVars, lostRun, client>>)

----------------------------------------------------------------------------
\* Every attempt at the registry that does not end in an answer counts: after
\* FailureThreshold of them in a row the breaker is no longer closed, timeouts
\* included.  For tool calls this does not hold (LostAttemptsOpen).
RegistryFailuresOpen ==
    client = "registry" /\ lostRun = FailureThreshold => state # "closed"
=============================================================================
