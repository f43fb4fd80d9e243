CONSTANTS
    LowerOf <- Capitals
    Others = {"a", "b"}
    Marks = {"_", ".", "-", " "}
    Names <- MCNames
    MaxRows = 2
    MaxCrashes = 2
SPECIFICATION FairSpec
INVARIANTS ReadyIsMigrated FailureIsInterruption SpellingsMeet
PROPERTIES RowsSurvive StartsAgain
