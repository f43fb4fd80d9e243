CONSTANTS
    t1 = t1
    t2 = t2
    m1 = m1
    m2 = m2
    sum = sum
    plus = plus
    Threads = {t1, t2}
    Meshes = {m1, m2}
    Names = {sum, plus}
    Semantic <- TwoSpellings
    RegLists <- JustSum
    Healths = {"healthy"}
    Kinds = {"register", "heartbeat"}
    Overlap = FALSE
    TTL = 1
    MaxTime = 3
    MaxId = 2
    MaxRestarts = 0
SPECIFICATION Spec
SYMMETRY Symmetry
INVARIANTS TypeOK OneRowPerKey
PROPERTIES LeasesAreGiven OwnRowsOnly LoopSparesOthers LeasesGrow ImplementsTable
