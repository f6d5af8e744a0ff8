SPECIFICATION Spec
CONSTANTS
    Ratings = {good, bad}
    NoRating = NoRating
    Notes = {n1}
    NoNote = NoNote
    Slots = {s1, s2}
    NoSlot = NoSlot
    MaxWrites = 2
    MaxEdits = 2
SYMMETRY Symmetry
INVARIANTS
    CardConsistent
PROPERTIES
    RatingAndNoteSurvive
    DraftKept
CHECK_DEADLOCK FALSE
