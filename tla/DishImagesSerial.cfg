SPECIFICATION Spec
CONSTANTS
    Requests = {r1}
    Images = {i1, i2, i3, i4}
    MaxImages = 3
    FaultKinds = {"crash", "disk", "ack"}
    MaxFaults = 2
    None = None
SYMMETRY ImageSymmetry
INVARIANTS
    OneCover
PROPERTY
    ImplementsGallery
