SPECIFICATION FairSpec
CONSTANTS
    Requests = {r1, r2}
    Invites = {i1, i2, i3}
    Emails = {e1, e2}
    Founders = {}
    MaxPending = 1
    Ttl = 1
    MaxTime = 2
    None = None
INVARIANTS
    OneAccountPerInvite
    UsedInTime
    PendingWithinRace
PROPERTIES
    NoEntryAfterRevoke
    ImplementsTokens
    NobodyWaitsForever
