CONSTANTS
    Runtimes <- AllRuntimes
    Interval <- MCInterval
    MaxDelay <- MCMaxDelay
    Second = 2
    Grace = 9
    GraceParts = 4
    Sends = {1, 2}
    N = 2
    MaxEdits = 1
    MaxLeft = 1
    Watched = 1
    Disturbed = {1}
SPECIFICATION FFairSpec
INVARIANTS LeaseHeld NoStrayProcess
PROPERTIES StaleIsReloaded WorkerComesBack EditsAreRun
