SPECIFICATION Spec
CONSTANTS
    Names = {n1, n2}
    NoName = NoName
    Slots = {s1, s2}
    MaxForms = 2
    MaxSends = 2
    MaxChanges = 1
SYMMETRY FormSymmetry
INVARIANTS
    FormConsistent
PROPERTIES
    RecordsWhatWasPicked
    SendsListedVariant
    ClosedByOwnRecord
CHECK_DEADLOCK FALSE
