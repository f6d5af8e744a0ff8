SPECIFICATION Spec
CONSTANTS
    MaxVersion = 3
    Broken = {}
    MaxRuns = 2
    KeepImages = 1
    KeepDumps = 1
    MaxDumps = 2
    ByHand = FALSE
PROPERTY
    DumpsBeforeMigrating
CHECK_DEADLOCK FALSE
