SPECIFICATION Spec
CONSTANTS
    Slots = {s1, s2}
    NoSlot = NoSlot
    NoFile = NoFile
    MaxHanded = 3
INVARIANTS
    PipelineConsistent
PROPERTIES
    BusyEnds
CHECK_DEADLOCK FALSE
