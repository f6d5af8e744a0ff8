SPECIFICATION Spec
CONSTANTS
    Requests = {r1, r2}
    Invites = {i1, i2}
    Emails = {e0, e1}
    Founders = {e0}
    MaxPending = 1
    Ttl = 1
    MaxTime = 1
    None = None
PROPERTY RevokesOnlyUnused
