CONSTANTS
    t1 = t1
    t2 = t2
    m1 = m1
    m2 = m2
    sum = sum
    plus = plus
    Threads = {t1, t2}
    Meshes = {m1}
    Names = {sum}
    Semantic <- OneName
    RegLists <- BareOrSum
    Healths = {"healthy", "unavailable"}
    Kinds = {"heartbeat", "delete"}
    Overlap = FALSE
    TTL = 1
    MaxTime = 3
    MaxId = 2
    MaxRestarts = 1
SPECIFICATION FairSpec
PROPERTIES DueIsCleared DeadMeshIsForgotten
