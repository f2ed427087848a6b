\* One group with three peers and two rounds, or two groups without peers;
\* two requests to re-analyse two failures.
SPECIFICATION SuiteSpec
CONSTANTS
    g1 = g1
    g2 = g2
    p1 = p1
    p2 = p2
    p3 = p3
    infra = infra
    product = product
    NoClass = NoClass
    f1 = f1
    f2 = f2
    q1 = q1
    q2 = q2
    repo = repo
    TestsRepo = tests
    First = First
    NoFailure = NoFailure
    Groups <- TwoGroups
    Peers <- ThreePeers
    Classes <- TwoClasses
    MaxCalls = 2
    MaxRounds = 2
    Shapes <- OneOrTwoGroups
    Failures <- TwoFailures
    Requests <- TwoRequests
    Additional <- OneRepo
    MaxClones = 1
CHECK_DEADLOCK FALSE
INVARIANTS
    TypesOK
    
    ResultIsTrue
PROPERTIES
    AnalysisEnds
