SPECIFICATION Spec
CONSTANTS
    t1 = t1
    t2 = t2
    t3 = t3
    r1 = r1
    r2 = r2
    NoTask = NoTask
    Tasks <- ThreeTasks
    Analyzers <- TwoAnalyzers
    MaxRestarts = 2
CHECK_DEADLOCK FALSE
CONSTRAINT NoAbortRaced
SYMMETRY Symmetry3
INVARIANTS
    TypeOK
    ActiveJobIsOwned
    OneAnalysisAtATime
    FinishedJobIsQuiet
PROPERTIES
    AnalyzedStaysAnalyzed
    OutcomeIsFinal
