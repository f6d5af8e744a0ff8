SPECIFICATION Spec
CONSTANTS
    Requests = {r1}
    Images = {i1, i2, i3, i4, i5}
    MaxImages = 4
    FaultKinds = {}
    MaxFaults = 0
    None = None
PROPERTY PromotesOldest
