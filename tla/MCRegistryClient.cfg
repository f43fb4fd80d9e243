CONSTANTS
    c1 = c1
    c2 = c2
    Calls <- MCCalls
    FailureThreshold = 3
    RecoveryTimeout = 2
    HalfOpenSuccesses = 2
    Attempts = 2
SPECIFICATION CFairSpec
INVARIANTS ModesAreConsistent AttemptsMatchBreaker RegistryFailuresOpen
PROPERTIES ExecutionsAdvance ImplementsToolCall ExecutionsEnd ChangesAreEarned OpenLastsRecoveryTimeout OpenIsProbed HealthyCloses
