SPECIFICATION Spec
CONSTANTS
    Accounts = {a, b}
    Nobody = Nobody
    Queries = {"history"}
    Changes = {"record", "variant"}
    Tabs = {"recommend", "history", "members"}
    Panels = {"variants"}
    MaxSid = 2
    MaxSlot = 1
    MaxOutage = 1
INVARIANTS
    StaleOnlyWhenJoined
    NothingLeft
    OwnData
PROPERTIES
    OnlyOldAnswersThrowOut
SYMMETRY Symmetry
CHECK_DEADLOCK FALSE
