SPECIFICATION Spec
CONSTANT MaxChanges = 2
INVARIANTS
    LocksConsistent
    FreshRecommendations
CHECK_DEADLOCK FALSE
