\* Two jobs everywhere; see MCReview for the other sets.
SPECIFICATION SuiteSpec
CONSTANTS
    j1 = j1
    j2 = j2
    NoJob = NoJob
    d1 = d1
    d2 = d2
    w1 = w1
    t1 = t1
    t2 = t2
    q1 = q1
    p1 = p1
    Top = Top
    Jobs <- TwoJobs
    Deletions <- TwoDeletions
    Writers <- OneWriter
    Tests <- TwoTests
    Builds = {1}
    Classes = {"code", "product"}
    Patterns = {"flaky"}
    MaxRows = 1
    MaxReanalysed = 1
    Scopes <- JobAndChild
    Signatures = {"timeout", "assert"}
    Outcomes <- SameOrAnother
    MaxReviews = 2
    MaxClears = 1
    OverrideRequests <- OneRequest
    Pushes <- OnePush
CHECK_DEADLOCK FALSE
SYMMETRY Symmetry
INVARIANTS
    TypesOK
    
    ReviewsStand
