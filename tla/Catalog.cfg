SPECIFICATION Spec
CONSTANTS
    u1 = u1
    u2 = u2
    w1 = w1
    w2 = w2
    Workspaces = {w1, w2}
    Users = {u1, u2}
    Home <- MCHome
    Dishes = {d1, d2}
    Variants = {v1}
    Records = {m1}
    Requests = {r1, r2}
    Limit = 1
    RecentDays = 0
    MaxDay = 1
    None = None
INVARIANTS
    Isolation
    OneFeedbackEach
PROPERTIES
    ErrorsOnlyFromRaces
    NoRecentWhileOthers
    GoodNeverHurts
SYMMETRY Symmetry
