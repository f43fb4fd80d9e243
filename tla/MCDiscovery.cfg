CONSTANTS
    m1 = m1
    m2 = m2
    sum = sum
    Threads = {t1}
    Resolvers = {r1}
    Meshes = {m1, m2}
    Names = {sum}
    Semantic <- OneName
    RegLists <- JustSum
    Healths = {"healthy"}
    NoHealth = "null"
    Kinds = {"register", "heartbeat"}
    Overlap = FALSE
    MeshOrder <- OrderOfTwo
    Cycle = 2
    TTL = 0
    MaxTime = 1
    MaxId = 2
    MaxRestarts = 1
SPECIFICATION DSpec
PROPERTIES ImplementsResolver
