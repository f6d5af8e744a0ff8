SPECIFICATION Spec
CONSTANTS
    Requests = {r1, r2}
    Images = {i1, i2, i3}
    MaxImages = 2
    FaultKinds = {}
    MaxFaults = 0
    None = None
PROPERTY DeleteKeepsACover
