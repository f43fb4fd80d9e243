--------------------------- MODULE ExecutorProofs ---------------------------
(***************************************************************************)
(* The circuit breaker and its two clients, for any number of concurrent   *)
(* calls, any number of attempts and any configuration of the breaker.     *)
(* First the breaker alone, whatever its callers do.  Then                 *)
(* execute_mcp_tool: it uses the breaker as CircuitBreaker says, and it is *)
(* what ToolCall promises to /call.  The router's registry client is one   *)
(* more use of the same loop.                                              *)
(***************************************************************************)
EXTENDS RegistryClient, TLAPS

----------------------------------------------------------------------------
(* The breaker.                                                            *)

\* The inductive invariant: the counters of the code agree with the history
\* of outcomes in the modes in which the code acts on them.
Consistent ==
    /\ TypeOK
    /\ OpenHasTimestamp
    /\ ClosedCountsFailures
    /\ HalfOpenCountsSuccesses

\* A saturating counter stays in its range, grows by one below its limit, and
\* is positive after a step.
LEMMA UpToBounds ==
    ASSUME NEW limit \in Nat, NEW n \in 0..limit
    PROVE  /\ UpTo(n + 1, limit) \in 0..limit
           /\ n < limit => UpTo(n + 1, limit) = n + 1
           /\ limit # 0 => UpTo(n + 1, limit) > 0
  BY DEF UpTo

\* The breaker starts consistent: closed, nothing counted, no call in flight.
LEMMA InitConsistent == Init => Consistent
  BY ConfigAssumption
  DEF Init, Consistent, TypeOK, OpenHasTimestamp, ClosedCountsFailures,
      HalfOpenCountsSuccesses, Modes, None

\* Every step keeps the breaker consistent, whichever mode it is in when the
\* outcome of a call arrives.
LEMMA NextConsistent == Consistent /\ [Next]_vars => Consistent'
<1> SUFFICES ASSUME Consistent, [Next]_vars PROVE Consistent'
  OBVIOUS
<1> USE ConfigAssumption
     DEF Consistent, TypeOK, OpenHasTimestamp, ClosedCountsFailures,
         HalfOpenCountsSuccesses, Modes, None, breaker
<1>1. ASSUME NEW c \in Calls, Admit(c) PROVE Consistent'
  BY <1>1 DEF Admit
<1>2. ASSUME NEW c \in Calls, Probe(c) PROVE Consistent'
  BY <1>2 DEF Probe
<1>3. ASSUME NEW c \in Calls, Reject(c) PROVE Consistent'
  BY <1>3 DEF Reject, vars
<1>4. ASSUME NEW c \in Calls, Succeed(c) PROVE Consistent'
  <2>1. okRun' \in 0..HalfOpenSuccesses
        /\ (okRun < HalfOpenSuccesses => okRun' = okRun + 1)
    BY <1>4, UpToBounds DEF Succeed
  <2>2. failRun' = 0 /\ running' \subseteq Calls /\ healthy' \in BOOLEAN
    BY <1>4 DEF Succeed
  <2>3. CASE CountsAsProbe /\ EnoughProbes(halfOpenSuccesses + 1)
    BY <1>4, <2>1, <2>2, <2>3 DEF Succeed, OnSuccess, CountsAsProbe, EnoughProbes
  <2>4. CASE CountsAsProbe /\ ~EnoughProbes(halfOpenSuccesses + 1)
    BY <1>4, <2>1, <2>2, <2>4 DEF Succeed, OnSuccess, CountsAsProbe, EnoughProbes
  <2>5. CASE ~CountsAsProbe
    BY <1>4, <2>1, <2>2, <2>5
    DEF Succeed, OnSuccess, CountsAsProbe, FailuresAfterSuccess
  <2> QED
    BY <2>3, <2>4, <2>5
<1>5. ASSUME NEW c \in Calls, Fail(c) PROVE Consistent'
  <2>1. failRun' \in 0..FailureThreshold
        /\ (failRun < FailureThreshold => failRun' = failRun + 1)
    BY <1>5, UpToBounds DEF Fail
  <2>2. okRun' = 0 /\ running' \subseteq Calls /\ healthy' \in BOOLEAN
    BY <1>5 DEF Fail
  <2>3. CASE state = "half_open"
    BY <1>5, <2>1, <2>2, <2>3 DEF Fail, OnFailure
  <2>4. CASE state # "half_open" /\ Trips(failures + 1)
    BY <1>5, <2>1, <2>2, <2>4 DEF Fail, OnFailure
  <2>5. CASE state # "half_open" /\ ~Trips(failures + 1)
    BY <1>5, <2>1, <2>2, <2>5 DEF Fail, OnFailure, Trips
  <2> QED
    BY <2>3, <2>4, <2>5
<1>6. ASSUME NEW c \in Calls, TimeOut(c) PROVE Consistent'
  BY <1>6 DEF TimeOut
<1>7. CASE Tick
  BY <1>7 DEF Tick
<1>8. CASE HealthChanges
  BY <1>8 DEF HealthChanges
<1>9. CASE UNCHANGED vars
  BY <1>9 DEF vars
<1> QED
  BY <1>1, <1>2, <1>3, <1>4, <1>5, <1>6, <1>7, <1>8, <1>9 DEF Next

\* Every reachable breaker is well typed, has the time stamp line 48 of
\* resilience.py asserts, and its counters agree with the outcomes recorded.
THEOREM BreakerConsistent == Spec => [](TypeOK /\ ModesAreConsistent)
<1>1. Consistent => TypeOK /\ ModesAreConsistent
  BY DEF Consistent, ModesAreConsistent
<1> QED
  BY InitConsistent, NextConsistent, <1>1, PTL DEF Spec

\* A step from a consistent state changes the mode only as the outcomes since
\* the last change of mode justify: see ChangesAreEarned.
LEMMA StepEarned ==
    ASSUME Consistent, [Next]_vars
    PROVE  [ /\ state = "closed" /\ state' # "closed" =>
                    state' = "open" /\ failRun' = FailureThreshold
             /\ state = "half_open" /\ state' = "open" =>
                    okRun' = 0 /\ failRun' > 0
             /\ state # "closed" /\ state' = "closed" =>
                    state = "half_open" /\ okRun' = HalfOpenSuccesses ]_vars
<1> USE ConfigAssumption
     DEF Consistent, TypeOK, ClosedCountsFailures, HalfOpenCountsSuccesses,
         Modes, breaker
<1>1. ASSUME NEW c \in Calls, Succeed(c) PROVE state = "half_open" \/ state' = state
  BY <1>1 DEF Succeed, OnSuccess, CountsAsProbe
<1>2. ASSUME NEW c \in Calls, Succeed(c), state = "half_open", state' # state
      PROVE  state' = "closed" /\ okRun' = HalfOpenSuccesses
  <2>1. halfOpenSuccesses = okRun /\ EnoughProbes(halfOpenSuccesses + 1)
        /\ state' = "closed"
    BY <1>2 DEF Succeed, OnSuccess, CountsAsProbe
  <2>2. okRun' = UpTo(okRun + 1, HalfOpenSuccesses)
    BY <1>2 DEF Succeed
  <2> QED
    BY <2>1, <2>2 DEF EnoughProbes, UpTo
<1>3. ASSUME NEW c \in Calls, Fail(c), state = "closed", state' # state
      PROVE  state' = "open" /\ failRun' = FailureThreshold
  <2>1. failures = failRun /\ Trips(failures + 1) /\ state' = "open"
    BY <1>3 DEF Fail, OnFailure
  <2>2. failRun' = UpTo(failRun + 1, FailureThreshold)
    BY <1>3 DEF Fail
  <2> QED
    BY <2>1, <2>2 DEF Trips, UpTo
<1>4. ASSUME NEW c \in Calls, Fail(c), state = "half_open"
      PROVE  state' = "open" /\ okRun' = 0 /\ failRun' > 0
  <2>1. failRun' = UpTo(failRun + 1, FailureThreshold) /\ okRun' = 0
        /\ state' = "open"
    BY <1>4 DEF Fail, OnFailure
  <2> QED
    BY <2>1, UpToBounds
<1>5. ASSUME NEW c \in Calls, Fail(c), state = "open" PROVE state' = "open"
  BY <1>5 DEF Fail, OnFailure
<1>6. ASSUME NEW c \in Calls, Probe(c) PROVE state = "open" /\ state' = "half_open"
  BY <1>6 DEF Probe
<1>7. ASSUME NEW c \in Calls, Admit(c) \/ Reject(c) \/ TimeOut(c)
      PROVE  state' = state
  BY <1>7 DEF Admit, Reject, TimeOut, vars
<1>8. CASE Tick \/ HealthChanges \/ UNCHANGED vars
  BY <1>8 DEF Tick, HealthChanges, vars
<1>9. ASSUME NEW c \in Calls, Fail(c), state = "closed"
      PROVE  state' \in {"closed", "open"}
  BY <1>9 DEF Fail, OnFailure
<1> QED
  BY <1>1, <1>2, <1>3, <1>4, <1>5, <1>6, <1>7, <1>8, <1>9 DEF Next

\* Only a probe leaves the open mode, and only after the recovery timeout.
LEMMA StepLeavesOpen ==
    ASSUME Consistent, [Next]_vars
    PROVE  [ state = "open" /\ state' # "open" =>
                 state' = "half_open" /\ openFor >= RecoveryTimeout ]_vars
<1>1. ASSUME NEW c \in Calls, Probe(c)
      PROVE  state' = "half_open" /\ openFor >= RecoveryTimeout
  BY <1>1 DEF Probe, RecoveryElapsed
<1>2. ASSUME NEW c \in Calls, state = "open", Succeed(c) \/ Fail(c)
      PROVE  state' = "open"
  BY <1>2 DEF Succeed, OnSuccess, CountsAsProbe, Fail, OnFailure
<1>3. ASSUME NEW c \in Calls, Admit(c) \/ Reject(c) \/ TimeOut(c)
      PROVE  state' = state
  BY <1>3 DEF Admit, Reject, TimeOut, vars, breaker
<1>4. CASE Tick \/ HealthChanges \/ UNCHANGED vars
  BY <1>4 DEF Tick, HealthChanges, vars, breaker
<1> QED
  BY <1>1, <1>2, <1>3, <1>4 DEF Next

\* The breaker opens and closes only when the outcomes earn it, for every
\* interleaving of calls that started in any earlier mode.
THEOREM BreakerEarnsChanges == Spec => ChangesAreEarned
<1>1. Spec => []Consistent
  BY InitConsistent, NextConsistent, PTL DEF Spec
<1> QED
  BY <1>1, StepEarned, PTL DEF Spec, ChangesAreEarned

\* No late success and no early probe shortens the open period.
THEOREM BreakerStaysOpen == Spec => OpenLastsRecoveryTimeout
<1>1. Spec => []Consistent
  BY InitConsistent, NextConsistent, PTL DEF Spec
<1> QED
  BY <1>1, StepLeavesOpen, PTL DEF Spec, OpenLastsRecoveryTimeout

----------------------------------------------------------------------------
(* execute_mcp_tool.                                                       *)

\* The inductive invariant: besides the two invariants, a call that waits for
\* the tool's answer has started it.
EInv ==
    /\ ETypeOK
    /\ AttemptsMatchBreaker
    /\ \A c \in Calls : at[c] = "running" => starts[c] > 0

LEMMA EInitInv == EInit => EInv
  BY ConfigAssumption, RetryAssumption
  DEF EInit, Init, EInv, ETypeOK, AttemptsMatchBreaker, Places

\* What a call's step does to the other calls: nothing.
LEMMA ENextInv == EInv /\ [ENext]_evars => EInv'
<1> SUFFICES ASSUME EInv, [ENext]_evars PROVE EInv'
  OBVIOUS
<1> USE ConfigAssumption, RetryAssumption
     DEF EInv, ETypeOK, AttemptsMatchBreaker, Places, Goto
<1>1. ASSUME NEW c \in Calls, Execute(c) PROVE EInv'
  BY <1>1 DEF Execute, vars
<1>2. ASSUME NEW c \in Calls, Enter(c) PROVE EInv'
  <2>1. running' = running \cup {c}
    BY <1>2 DEF Enter, Admit, Probe
  <2> QED
    BY <1>2, <2>1 DEF Enter
<1>3. ASSUME NEW c \in Calls, Blocked(c) PROVE EInv'
  BY <1>3 DEF Blocked, Reject, Leave, vars
<1>4. ASSUME NEW c \in Calls, StartTool(c) PROVE EInv'
  BY <1>4 DEF StartTool, vars
<1>5. ASSUME NEW c \in Calls, Answered(c) PROVE EInv'
  <2>1. running' = running \ {c}
    BY <1>5 DEF Answered, Succeed
  <2> QED
    BY <1>5, <2>1 DEF Answered, Leave
<1>6. ASSUME NEW c \in Calls, Breaks(c) \/ Expires(c) PROVE EInv'
  <2>1. running' = running \ {c}
    BY <1>6 DEF Breaks, Expires, Fail, TimeOut
  <2>2. lostRun' \in 0..FailureThreshold
    BY <1>6, UpToBounds DEF Breaks, Expires, Lost
  <2>3. CASE Leave(c, "error")
    BY <2>1, <2>2, <2>3 DEF Leave
  <2>4. CASE TryAgain(c)
    BY <2>1, <2>2, <2>3, <2>4 DEF TryAgain, LastAttempt
  <2> QED
    BY <1>6, <2>3, <2>4 DEF Breaks, Expires
<1>7. ASSUME NEW c \in Calls, PauseEnds(c) PROVE EInv'
  BY <1>7 DEF PauseEnds, Retry, NextTry, vars
<1>8. CASE Environment
  BY <1>8 DEF Environment, Tick, HealthChanges, callVars
<1>9. CASE UNCHANGED evars
  BY <1>9 DEF evars, vars, callVars
<1> QED
  BY <1>1, <1>2, <1>3, <1>4, <1>5, <1>6, <1>7, <1>8, <1>9 DEF ENext, CallStep

\* The variables of the executor are well typed in every reachable state.
THEOREM ExecutorTyped == ESpec => []ETypeOK
<1>1. EInv => ETypeOK
  BY DEF EInv
<1> QED
  BY EInitInv, ENextInv, <1>1, PTL DEF ESpec

\* An attempt is inside the breaker exactly while it runs and starts the tool
\* at most once, on every path out of it.
THEOREM ExecutorAttempts == ESpec => []AttemptsMatchBreaker
<1>1. EInv => AttemptsMatchBreaker
  BY DEF EInv
<1> QED
  BY EInitInv, ENextInv, <1>1, PTL DEF ESpec

\* A step of the executor is a step of the breaker or leaves it alone.
LEMMA EStepIsBreakerStep == [ENext]_evars => [Next]_vars
<1> SUFFICES ASSUME [ENext]_evars PROVE [Next]_vars
  OBVIOUS
<1>1. ASSUME NEW c \in Calls, Execute(c) \/ StartTool(c) \/ PauseEnds(c)
      PROVE  UNCHANGED vars
  BY <1>1 DEF Execute, StartTool, PauseEnds
<1>2. ASSUME NEW c \in Calls,
             Enter(c) \/ Blocked(c) \/ Answered(c) \/ Breaks(c) \/ Expires(c)
      PROVE  Admit(c) \/ Probe(c) \/ Reject(c) \/ Succeed(c) \/ Fail(c) \/ TimeOut(c)
  BY <1>2 DEF Enter, Blocked, Answered, Breaks, Expires
<1>3. CASE Environment
  BY <1>3 DEF Environment, Next
<1>4. CASE UNCHANGED evars
  BY <1>4 DEF evars
<1> QED
  BY <1>1, <1>2, <1>3, <1>4 DEF ENext, CallStep, Next

\* The executor uses the breaker as CircuitBreaker allows, so a breaker that
\* serves it changes its mode only when the outcomes earn it.
THEOREM ExecutorEarnsChanges == ESpec => ChangesAreEarned
<1>1. EInit => Init
  BY DEF EInit
<1>2. ESpec => Spec
  BY <1>1, EStepIsBreakerStep, PTL DEF ESpec, Spec
<1> QED
  BY <1>2, BreakerEarnsChanges, PTL

\* A step of the executor is a step of ToolCall or changes nothing of it.
LEMMA EStepIsToolStep ==
    ASSUME EInv, [ENext]_evars
    PROVE  [Tool!ToolNext]_(Tool!toolVars)
<1> DEFINE W == {c \in Calls : at[c] # "idle"}
<1> USE DEF EInv, ETypeOK, AttemptsMatchBreaker, Places, Goto
<1>1. ASSUME NEW c \in Calls, Execute(c) PROVE Tool!Execute(c)
  <2>1. c \notin W /\ W' = W \cup {c}
    BY <1>1 DEF Execute
  <2> QED
    BY <1>1, <2>1 DEF Execute, Tool!Execute, NoOutcome, Tool!NoOutcome
<1>2. ASSUME NEW c \in Calls, at[c] # "idle", NEW place \in Places \ {"idle"},
             Goto(c, place)
      PROVE  W' = W
  BY <1>2
<1>3. ASSUME NEW c \in Calls, at[c] # "idle", NEW o, Leave(c, o)
      PROVE  c \in W /\ W' = W \ {c}
  BY <1>3 DEF Leave
<1>4. ASSUME NEW c \in Calls, Enter(c) \/ PauseEnds(c) PROVE UNCHANGED Tool!toolVars
  <2>1. W' = W /\ UNCHANGED <<starts, outcome>>
    BY <1>2, <1>4 DEF Enter, PauseEnds, Retry
  <2> QED
    BY <2>1 DEF Tool!toolVars
<1>5. ASSUME NEW c \in Calls, StartTool(c) PROVE Tool!StartTool(c)
  <2>1. c \in W /\ W' = W
    BY <1>2, <1>5 DEF StartTool
  <2>2. starts[c] < Attempts
    BY <1>5, RetryAssumption DEF StartTool
  <2> QED
    BY <1>5, <2>1, <2>2 DEF StartTool, Tool!StartTool
<1>6. ASSUME NEW c \in Calls, Answered(c) PROVE Tool!Return(c)
  <2>1. c \in W /\ W' = W \ {c}
    BY <1>3, <1>6 DEF Answered
  <2> QED
    BY <1>6, <2>1 DEF Answered, Leave, Tool!Return
<1>7. ASSUME NEW c \in Calls, at[c] # "idle", Leave(c, "error") PROVE Tool!Raise(c)
  BY <1>3, <1>7 DEF Leave, Tool!Raise
<1>8. ASSUME NEW c \in Calls, at[c] # "idle", TryAgain(c)
      PROVE  Tool!Raise(c) \/ UNCHANGED Tool!toolVars
  <2>1. CASE ~LastAttempt(c)
    BY <1>2, <1>8, <2>1 DEF TryAgain, Tool!toolVars
  <2>2. CASE LastAttempt(c)
    BY <1>7, <1>8, <2>2 DEF TryAgain
  <2> QED
    BY <2>1, <2>2
<1>9. ASSUME NEW c \in Calls, Blocked(c) \/ Breaks(c) \/ Expires(c)
      PROVE  Tool!Raise(c) \/ UNCHANGED Tool!toolVars
  BY <1>7, <1>8, <1>9 DEF Blocked, Breaks, Expires
<1>10. CASE Environment \/ UNCHANGED evars
  BY <1>10 DEF Environment, callVars, evars, Tool!toolVars
<1> QED
  BY <1>1, <1>4, <1>5, <1>6, <1>9, <1>10
  DEF ENext, CallStep, Tool!ToolNext, Tool!ToolStep

\* What /call relies on: the tool is started at most Attempts times, a result
\* means that it was started, and every step of the retry loop and of the
\* breaker is otherwise invisible.
THEOREM ExecutorImplementsToolCall == ESpec => ImplementsToolCall
<1>1. EInit => Tool!ToolInit
  BY DEF EInit, Tool!ToolInit, NoOutcome, Tool!NoOutcome
<1> QED
  BY EInitInv, ENextInv, <1>1, EStepIsToolStep, PTL
  DEF ESpec, ImplementsToolCall, Tool!ToolSpec

\* The values of StepsInAttempt.
LEMMA StepsByPlace ==
    /\ StepsInAttempt("try") = 3
    /\ StepsInAttempt("connecting") = 2
    /\ StepsInAttempt("running") = 1
    /\ StepsInAttempt("pause") = 0
  BY Zenon DEF StepsInAttempt

\* A step of another call, or of the environment, leaves an execution where it
\* is; a step of its own brings it nearer to its end.
LEMMA EStepAdvances ==
    ASSUME EInv, [ENext]_evars, NEW c \in Calls, at[c] # "idle", at'[c] # "idle"
    PROVE  \/ at'[c] = at[c] /\ tries'[c] = tries[c]
           \/ StepsLeft(c)' < StepsLeft(c)
<1> USE RetryAssumption DEF EInv, ETypeOK, Places, Goto
<1>1. ASSUME NEW d \in Calls, Execute(d) \/ CallStep(d), d # c
      PROVE  at'[c] = at[c] /\ tries'[c] = tries[c]
  BY <1>1 DEF Execute, CallStep, Enter, Blocked, StartTool, Answered, Breaks, Expires,
              PauseEnds, Leave, TryAgain
<1>2. CASE Environment \/ UNCHANGED evars
  BY <1>2 DEF Environment, callVars, evars
<1>3. CASE Enter(c)
  BY <1>3, StepsByPlace DEF Enter, StepsLeft
<1>4. CASE StartTool(c)
  BY <1>4, StepsByPlace DEF StartTool, StepsLeft
<1>5. CASE Breaks(c) \/ Expires(c)
  <2>1. at[c] \in {"connecting", "running"} /\ at'[c] = "pause" /\ tries'[c] = tries[c]
    BY <1>5 DEF Breaks, Expires, Leave, TryAgain
  <2> QED
    BY <2>1, StepsByPlace DEF StepsLeft
<1>6. CASE PauseEnds(c)
  <2>1. /\ at[c] = "pause" /\ tries[c] \in 0..(Attempts - 1)
        /\ at'[c] = "try" /\ tries'[c] = tries[c] + 1
    BY <1>6 DEF PauseEnds, Retry, NextTry
  <2> QED
    BY <2>1, StepsByPlace DEF StepsLeft
<1>7. ~Execute(c) /\ ~Blocked(c) /\ ~Answered(c)
  BY DEF Execute, Blocked, Answered, Leave
<1> QED
  BY <1>1, <1>2, <1>3, <1>4, <1>5, <1>6, <1>7 DEF ENext, CallStep

\* No execution turns back: the retry loop ends after at most Attempts
\* attempts, whatever the breaker and the other calls do in between.
THEOREM ExecutorAdvances == ESpec => ExecutionsAdvance
<1> DEFINE Advance ==
      \A c \in Calls :
          at[c] # "idle" /\ at'[c] # "idle" =>
              \/ at'[c] = at[c] /\ tries'[c] = tries[c]
              \/ StepsLeft(c)' < StepsLeft(c)
<1>1. EInv /\ [ENext]_evars => [Advance]_evars
  BY EStepAdvances
<1> QED
  BY EInitInv, ENextInv, <1>1, PTL DEF ESpec, ExecutionsAdvance

----------------------------------------------------------------------------
\* Either client only does what an execution does.
LEMMA ClientIsExecutor == CSpec => ESpec
<1>1. CInit => EInit
  BY DEF CInit
<1>2. [CNext]_cvars => [ENext]_evars
  <2>1. ASSUME NEW c \in Calls, ClientStep(c) \/ Execute(c) PROVE ENext
    BY <2>1 DEF ClientStep, ResolveStep, CallStep, ENext
  <2>2. CASE Environment
    BY <2>2 DEF ENext
  <2>3. CASE UNCHANGED cvars
    BY <2>3 DEF cvars
  <2> QED
    BY <2>1, <2>2, <2>3 DEF CNext
<1> QED
  BY <1>1, <1>2, PTL DEF CSpec, ESpec

\* The breakers of both clients keep their counters and modes in step with the
\* outcomes they were told.
THEOREM ClientModes == CSpec => []ModesAreConsistent
<1>1. ESpec => Spec
  <2>1. EInit => Init
    BY DEF EInit
  <2> QED
    BY <2>1, EStepIsBreakerStep, PTL DEF ESpec, Spec
<1> QED
  BY <1>1, ClientIsExecutor, BreakerConsistent, PTL

\* They change their modes only when the outcomes earn it.
THEOREM ClientEarnsChanges == CSpec => ChangesAreEarned
  BY ClientIsExecutor, ExecutorEarnsChanges, PTL

\* An open breaker of either client stays open for its recovery timeout.
THEOREM ClientStaysOpen == CSpec => OpenLastsRecoveryTimeout
<1>1. ESpec => Spec
  <2>1. EInit => Init
    BY DEF EInit
  <2> QED
    BY <2>1, EStepIsBreakerStep, PTL DEF ESpec, Spec
<1> QED
  BY <1>1, ClientIsExecutor, BreakerStaysOpen, PTL

\* The registry client uses its breaker like the executor: an attempt is inside
\* it exactly while it runs, whichever client it belongs to.
THEOREM ClientAttempts == CSpec => []AttemptsMatchBreaker
  BY ClientIsExecutor, ExecutorAttempts, PTL

\* Neither client turns back.
THEOREM ClientAdvances == CSpec => ExecutionsAdvance
  BY ClientIsExecutor, ExecutorAdvances, PTL

\* Resolving a function is what calling a tool is: at most Attempts requests,
\* and an answer only to a request that was sent.
THEOREM ClientImplementsToolCall == CSpec => ImplementsToolCall
  BY ClientIsExecutor, ExecutorImplementsToolCall, PTL

\* The history of what the registry failed at is that of its breaker.
ClientInv ==
    /\ Consistent
    /\ client \in {"registry", "tool"}
    /\ client = "registry" => lostRun = failRun

\* Every path on which an attempt at the registry fails passes the breaker.
LEMMA ClientNextInv == ClientInv /\ [CNext]_cvars => ClientInv'
<1> SUFFICES ASSUME ClientInv, [CNext]_cvars PROVE ClientInv'
  OBVIOUS
<1>1. Consistent'
  <2>1. [ENext]_evars
    <3>1. ASSUME NEW c \in Calls, ClientStep(c) \/ Execute(c) PROVE ENext
      BY <3>1 DEF ClientStep, ResolveStep, CallStep, ENext
    <3> QED
      BY <3>1 DEF CNext, ENext, cvars
  <2> QED
    BY <2>1, EStepIsBreakerStep, NextConsistent DEF ClientInv
<1>2. UNCHANGED client
  BY DEF CNext, ClientStep, cvars
<1>3. ASSUME client = "registry" PROVE lostRun' = failRun'
  <2> USE <1>3 DEF ClientInv
  <2>1. ASSUME NEW c \in Calls,
               Execute(c) \/ Enter(c) \/ Blocked(c) \/ StartTool(c) \/ PauseEnds(c)
        PROVE  UNCHANGED <<lostRun, failRun>>
    BY <2>1 DEF Execute, Enter, Admit, Probe, Blocked, Reject, StartTool, PauseEnds, vars
  <2>2. ASSUME NEW c \in Calls, Answered(c) PROVE lostRun' = 0 /\ failRun' = 0
    BY <2>2 DEF Answered, Succeed
  <2>3. ASSUME NEW c \in Calls, Breaks(c) PROVE lostRun' = failRun'
    BY <2>3 DEF Breaks, Fail, Lost
  <2>4. CASE Environment \/ UNCHANGED cvars
    BY <2>4 DEF Environment, Tick, HealthChanges, cvars, evars, vars
  <2> QED
    BY <2>1, <2>2, <2>3, <2>4 DEF CNext, ClientStep, ResolveStep
<1> QED
  BY <1>1, <1>2, <1>3 DEF ClientInv

\* The breaker of the registry counts every attempt that fails, timeouts
\* included.
THEOREM ClientCountsFailures == CSpec => []RegistryFailuresOpen
<1>1. CInit => ClientInv
  BY InitConsistent DEF CInit, EInit, Init, ClientInv
<1>2. ClientInv => RegistryFailuresOpen
  BY ConfigAssumption
  DEF ClientInv, Consistent, ClosedCountsFailures, RegistryFailuresOpen
<1> QED
  BY <1>1, ClientNextInv, <1>2, PTL DEF CSpec
=============================================================================
