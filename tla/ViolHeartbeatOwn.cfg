CONSTANTS
    t1 = t1
    t2 = t2
    m1 = m1
    m2 = m2
    sum = sum
    plus = plus
    Threads = {t1, t2}
    Meshes = {m1, m2}
    Names = {sum}
    Semantic <- OneName
    RegLists <- JustSum
    Healths = {"healthy"}
    Kinds = {"heartbeat"}
    Overlap = FALSE
    TTL = 0
    MaxTime = 3
    MaxId = 2
    MaxRestarts = 0
SPECIFICATION Spec
PROPERTY HeartbeatUpdatesOwnFunctions
