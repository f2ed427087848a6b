SPECIFICATION FairSpec
CONSTANTS
    None = None
    NoClaim = NoClaim
    Crashed = Crashed
    Sessions = {s1}
    Creators = {c1}
    Workers = {w1, w2}
    Calls = {}
    MaxAccounts = 1
    MaxGeneration = 1
    MaxCrashes = 1
INVARIANT TypeOK
INVARIANT DeletesAreExact
PROPERTY TombstoneStays
CHECK_DEADLOCK FALSE
PROPERTY RevokedIsDeleted
