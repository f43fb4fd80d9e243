CONSTANTS
    r1 = r1
    r2 = r2
    m1 = m1
    m2 = m2
    sum = sum
    plus = plus
    Resolvers = {r1, r2}
    Meshes = {m1, m2}
    Names = {sum, plus}
    Semantic <- TwoSpellings
    MeshOrder <- OrderOfTwo
    Healths = {"healthy"}
    NoHealth = "null"
    TTL = 0
    MaxTime = 0
    MaxId = 2
    Cycle = 2
    MaxRestarts = 1
SPECIFICATION Spec
SYMMETRY Symmetry
INVARIANTS TypeOK SteadyIsFound
PROPERTIES RoundRobinTurns
