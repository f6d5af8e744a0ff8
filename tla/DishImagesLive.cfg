SPECIFICATION FairSpec
CONSTANTS
    Requests = {r1, r2}
    Images = {i1, i2}
    MaxImages = 2
    FaultKinds = {"crash", "disk", "ack"}
    MaxFaults = 2
    None = None
INVARIANT DanglingOnlyAfterLostAnswer
PROPERTY RequestsEnd
