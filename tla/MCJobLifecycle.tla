--------------------------- MODULE MCJobLifecycle ---------------------------
(* A small instance of JobLifecycle for TLC.                               *)
EXTENDS JobLifecycle, TLC

CONSTANTS t1, t2, t3, r1, r2

TwoTasks == {t1, t2}
ThreeTasks == {t1, t2, t3}
NoAnalyzers == {}
OneAnalyzer == {r1}
TwoAnalyzers == {r1, r2}

Symmetry2 == Permutations(TwoTasks) \union Permutations(TwoAnalyzers)
Symmetry3 == Permutations(ThreeTasks) \union Permutations(TwoAnalyzers)

(* Where an abort raced, the conditional properties say nothing more.      *)
NoAbortRaced == ~raced
=============================================================================
