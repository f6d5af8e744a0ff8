SPECIFICATION Spec
CONSTANTS
    MaxVersion = 3
    Broken = {2}
    MaxRuns = 3
    KeepImages = 1
    KeepDumps = 1
    MaxDumps = 2
    ByHand = TRUE
INVARIANTS
    RecordRestorable
    SuccessServesHead
PROPERTY
    OnlyRestoreOutdatesSchema
CHECK_DEADLOCK FALSE
