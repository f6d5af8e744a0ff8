SPECIFICATION Spec
CONSTANTS
    Ids <- MCIds
    Starts <- MCStarts
    PageSize = 1
    MaxPage = 2
    MaxCommits = 2
INVARIANTS
    PagesConsistent
    BlankOnlyIfKept
    OwnChangesShown
CHECK_DEADLOCK FALSE
