SPECIFICATION Spec
CONSTANTS
    None = None
    NoClaim = NoClaim
    Crashed = Crashed
    Sessions = {s1, s2}
    Creators = {c1}
    Workers = {}
    Calls = {u1}
    MaxAccounts = 2
    MaxGeneration = 2
    MaxCrashes = 0
INVARIANT KeyIsCurrent
PROPERTY ReplyIsCurrent
CHECK_DEADLOCK FALSE
