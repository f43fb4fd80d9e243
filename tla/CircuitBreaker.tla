--------------------------- MODULE CircuitBreaker ---------------------------
(***************************************************************************)
(* The circuit breaker of the router (mr-router/app/resilience.py).  One   *)
(* breaker is shared by all concurrent calls to one dependency: the        *)
(* registry, or one tool endpoint.  A call consults the breaker, runs      *)
(* without the lock, and records its outcome later, when the breaker may   *)
(* be in another mode.  The lock is only held over code that never         *)
(* suspends, so each of the two segments is one atomic step.               *)
(*                                                                         *)
(* The time stamp _opened_at is kept as the time elapsed since it was      *)
(* taken, counted up to RecoveryTimeout: the code only ever compares       *)
(* now - _opened_at with the recovery timeout.                             *)
(***************************************************************************)
EXTENDS Integers, FiniteSets

CONSTANTS
    Calls,              \* slots for concurrent calls through the breaker
    FailureThreshold,   \* CircuitBreakerConfig.failure_threshold
    RecoveryTimeout,    \* CircuitBreakerConfig.recovery_timeout_s, in ticks
    HalfOpenSuccesses   \* CircuitBreakerConfig.half_open_successes

ASSUME ConfigAssumption ==
    /\ FailureThreshold \in Nat \ {0}
    /\ RecoveryTimeout \in Nat
    /\ HalfOpenSuccesses \in Nat \ {0}

VARIABLES
    state,              \* _state
    failures,           \* _failures
    halfOpenSuccesses,  \* _half_open_successes
    openFor,            \* time since _opened_at, or None
    running,            \* calls between _before_call and their outcome
    healthy,            \* environment: does the dependency answer?
    failRun,            \* history: failures recorded since the last success
    okRun               \* history: successes since the last failure or probe

breaker == <<state, failures, halfOpenSuccesses, openFor>>
vars == <<breaker, running, healthy, failRun, okRun>>

Modes == {"closed", "open", "half_open"}
None == -1   \* _opened_at is None

\* The two histories stop counting at the value the properties ask about.
UpTo(n, limit) == IF n < limit THEN n ELSE limit

Init ==
    /\ state = "closed"
    /\ failures = 0
    /\ halfOpenSuccesses = 0
    /\ openFor = None
    /\ running = {}
    /\ healthy = TRUE
    /\ failRun = 0
    /\ okRun = 0

----------------------------------------------------------------------------
(* call, first segment: _before_call under the lock.                       *)

\* Mutated form: off by one tick.
RecoveryElapsedEarly == openFor + 1 >= RecoveryTimeout
RecoveryElapsed == openFor >= RecoveryTimeout

\* Closed and half-open breakers admit every call; half_open has no limit.
Admit(c) ==
    /\ c \notin running
    /\ state # "open"
    /\ running' = running \cup {c}
    /\ UNCHANGED <<breaker, healthy, failRun, okRun>>

\* The first call after the recovery timeout makes the breaker half-open.
Probe(c) ==
    /\ c \notin running
    /\ state = "open"
    /\ RecoveryElapsed
    /\ state' = "half_open"
    /\ halfOpenSuccesses' = 0
    /\ running' = running \cup {c}
    /\ okRun' = 0
    /\ UNCHANGED <<failures, openFor, healthy, failRun>>

\* Before that, CircuitBreakerOpenError is raised and nothing changes.
\* Mutated form: the rejection renews the time stamp, as a failure would.
RejectRenews(c) ==
    /\ c \notin running
    /\ state = "open"
    /\ ~RecoveryElapsed
    /\ openFor' = 0
    /\ UNCHANGED <<state, failures, halfOpenSuccesses, running, healthy,
                   failRun, okRun>>
Reject(c) ==
    /\ c \notin running
    /\ state = "open"
    /\ ~RecoveryElapsed
    /\ UNCHANGED vars

----------------------------------------------------------------------------
(* call, second segment: the outcome is recorded under the lock.           *)

CountsAsProbe == state = "half_open"

\* Mutated form: no success resets the count.
FailuresAfterSuccessKept == failures
FailuresAfterSuccess == 0
EnoughProbes(n) == n >= HalfOpenSuccesses

OnSuccess ==
    \/ /\ CountsAsProbe
       /\ EnoughProbes(halfOpenSuccesses + 1)
       /\ state' = "closed"
       /\ failures' = 0
       /\ halfOpenSuccesses' = 0
       /\ openFor' = None
    \/ /\ CountsAsProbe
       /\ ~EnoughProbes(halfOpenSuccesses + 1)
       /\ halfOpenSuccesses' = halfOpenSuccesses + 1
       /\ UNCHANGED <<state, failures, openFor>>
    \/ /\ ~CountsAsProbe
       /\ failures' = FailuresAfterSuccess
       /\ UNCHANGED <<state, halfOpenSuccesses, openFor>>

\* Mutated form: the threshold is off by one.
TripsBelow(n) == n + 1 >= FailureThreshold
Trips(n) == n >= FailureThreshold

\* A late failure also counts, and renews openFor, while the breaker is open.
OnFailure ==
    \/ /\ state = "half_open"
       /\ state' = "open"
       /\ openFor' = 0
       /\ failures' = FailureThreshold
       /\ halfOpenSuccesses' = 0
    \/ /\ state # "half_open"
       /\ failures' = failures + 1
       /\ IF Trips(failures + 1)
          THEN state' = "open" /\ openFor' = 0
          ELSE UNCHANGED <<state, openFor>>
       /\ UNCHANGED halfOpenSuccesses

Succeed(c) ==
    /\ c \in running
    /\ OnSuccess
    /\ running' = running \ {c}
    /\ failRun' = 0
    /\ okRun' = UpTo(okRun + 1, HalfOpenSuccesses)
    /\ UNCHANGED healthy

Fail(c) ==
    /\ c \in running
    /\ ~healthy
    /\ OnFailure
    /\ running' = running \ {c}
    /\ failRun' = UpTo(failRun + 1, FailureThreshold)
    /\ okRun' = 0
    /\ UNCHANGED healthy

\* wait_for cancels the call: CancelledError is not an Exception, so neither
\* on_success nor on_failure runs.
TimeOut(c) ==
    /\ c \in running
    /\ ~healthy
    /\ running' = running \ {c}
    /\ UNCHANGED <<breaker, healthy, failRun, okRun>>

----------------------------------------------------------------------------
(* The clock and the environment.                                          *)

Tick ==
    /\ openFor # None
    /\ openFor < RecoveryTimeout
    /\ openFor' = openFor + 1
    /\ UNCHANGED <<state, failures, halfOpenSuccesses, running, healthy,
                   failRun, okRun>>

HealthChanges ==
    /\ healthy' = ~healthy
    /\ UNCHANGED <<breaker, running, failRun, okRun>>

Next ==
    \/ \E c \in Calls :
          \/ Admit(c) \/ Probe(c) \/ Reject(c)
          \/ Succeed(c) \/ Fail(c) \/ TimeOut(c)
    \/ Tick
    \/ HealthChanges

Spec == Init /\ [][Next]_vars

\* Time passes, a call ends (retry_async bounds it by a timeout), and callers
\* keep calling: a breaker only leaves "open" when it is asked.
Fairness ==
    /\ WF_vars(Tick)
    /\ \A c \in Calls :
          /\ WF_vars(Admit(c) \/ Probe(c))
          /\ WF_vars(Succeed(c) \/ Fail(c) \/ TimeOut(c))

FairSpec == Spec /\ Fairness

----------------------------------------------------------------------------
TypeOK ==
    /\ state \in Modes
    /\ failures \in Nat
    /\ halfOpenSuccesses \in 0..HalfOpenSuccesses
    /\ openFor \in Nat \cup {None}
    /\ running \subseteq Calls
    /\ healthy \in BOOLEAN
    /\ failRun \in 0..FailureThreshold
    /\ okRun \in 0..HalfOpenSuccesses

\* What _before_call asserts, resilience.py line 48: an open breaker has a
\* time stamp.  It must survive every order of late outcomes.
OpenHasTimestamp == state = "open" => openFor # None

\* A closed breaker has counted exactly the failures since the last success,
\* and fewer than the threshold, whatever late outcomes it saw while it was
\* open or half-open.
ClosedCountsFailures ==
    state = "closed" => failures = failRun /\ failures < FailureThreshold

\* A half-open breaker has counted exactly the successes since the probe
\* began, with no failure among them, and fewer than the target.
HalfOpenCountsSuccesses ==
    state = "half_open" =>
        halfOpenSuccesses = okRun /\ halfOpenSuccesses < HalfOpenSuccesses

\* All that the modes promise, whatever order late outcomes come in.
ModesAreConsistent == OpenHasTimestamp /\ ClosedCountsFailures /\ HalfOpenCountsSuccesses

\* A breaker opens only after FailureThreshold failures in a row or a failed
\* probe, and it closes only after HalfOpenSuccesses successes in a row of
\* which the first follows the start of the probe.  A call that was admitted
\* long ago and ends late cannot open or close it otherwise.
ChangesAreEarned ==
    [][ /\ state = "closed" /\ state' # "closed" =>
               state' = "open" /\ failRun' = FailureThreshold
        /\ state = "half_open" /\ state' = "open" => okRun' = 0 /\ failRun' > 0
        /\ state # "closed" /\ state' = "closed" =>
               state = "half_open" /\ okRun' = HalfOpenSuccesses ]_vars

\* An open breaker is left only for half-open, and never before the recovery
\* timeout has passed since the last failure that opened or re-opened it.
OpenLastsRecoveryTimeout ==
    [][ state = "open" /\ state' # "open" =>
            state' = "half_open" /\ openFor >= RecoveryTimeout ]_vars

\* Late failures renew the open period, but calls in flight run out: an open
\* breaker is eventually probed.
OpenIsProbed == state = "open" ~> state = "half_open"

\* Once the dependency stays healthy, the breaker closes and stays closed.
HealthyCloses == <>[]healthy => <>[](state = "closed")
=============================================================================
