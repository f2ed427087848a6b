SPECIFICATION Spec
CONSTANTS
    t1 = t1
    t2 = t2
    t3 = t3
    r1 = r1
    r2 = r2
    NoTask = NoTask
    Tasks <- TwoTasks
    Analyzers <- NoAnalyzers
    MaxRestarts = 1
CHECK_DEADLOCK FALSE
SYMMETRY Symmetry2
INVARIANTS
    SubmitDoesNotAnalyze
