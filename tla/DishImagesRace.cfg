SPECIFICATION Spec
CONSTANTS
    Requests = {r1, r2}
    Images = {i1, i2, i3, i4}
    MaxImages = 2
    FaultKinds = {"crash", "disk"}
    MaxFaults = 1
    None = None
SYMMETRY ImageSymmetry
INVARIANTS
    RowsHaveFiles
    FilesAccountedFor
    LimitWithinRace
PROPERTY
    OnlyDeleteLosesCovers
