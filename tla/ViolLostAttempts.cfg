CONSTANTS
    c1 = c1
    c2 = c2
    Calls <- MCCalls
    FailureThreshold = 2
    RecoveryTimeout = 1
    HalfOpenSuccesses = 1
    Attempts = 2
SPECIFICATION ESpec
INVARIANTS LostAttemptsOpen
