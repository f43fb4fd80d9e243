CONSTANTS
    c1 = c1
    c2 = c2
    m1 = m1
    m2 = m2
    user = user
    Calls = {c1, c2}
    Attempts = 2
    Roles = {user}
    Meshes = {m1, m2}
    Replies <- Odd
    MaxAnswers = 3
SPECIFICATION FairSpec
CHECK_DEADLOCK FALSE
INVARIANTS RolesChecked AnswersAreCounted
PROPERTIES CallsAdvance EveryCallIsAnswered
