\* Two accounts, logins and requests; two jobs of an older database.
SPECIFICATION SuiteSpec
CONSTANTS
    u1 = u1
    u2 = u2
    Bootstrap = boss
    a1 = a1
    a2 = a2
    r1 = r1
    r2 = r2
    Users <- TwoUsers
    Attempts <- TwoAttempts
    Requests <- TwoRequests
    Threshold = 2
    RequireApproval = TRUE
    FirstAccounts <- AdminAndOther
    MaxKeys = 2
    Jobs <- TwoRequests
    MaxStarts = 3
    Spellings = {"bob", "Bob", "BOB"}
    Lower = "bob"
    Comments = {1}
    Ranks = {0, 1}
CHECK_DEADLOCK FALSE
SYMMETRY Symmetry
INVARIANTS
    TypesOK
    
    UpgradeKeeps
PROPERTY AdminsReachable
