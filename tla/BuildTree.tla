----------------------------- MODULE BuildTree -----------------------------
(***************************************************************************)
(* The analysis of a Jenkins pipeline: the build that was submitted and,   *)
(* recursively, the failed builds it started.  Each build of the tree is   *)
(* fetched, then either its own failed builds are analysed, a few at a     *)
(* time, or its failures; what a build downloaded is its builds' working   *)
(* directory until it is over.                                             *)
(*                                                                         *)
(* A build is named by the path to it from the one submitted: one that was *)
(* started twice is analysed twice, and only the depth of the tree ends a  *)
(* cycle.  The failures of a build are one group (GroupAnalysis).          *)
(***************************************************************************)
EXTENDS Naturals, Sequences, SequencesExt, FiniteSets

CONSTANTS
    Builds, Submitted,
    Downstream,     \* the failed builds each build started
    MaxDepth,       \* of the builds analysed below the one submitted
    Limit,          \* max_concurrent_ai_calls
    Modes           \* "analyze", "ingest"

TreeAssumption ==
    /\ Submitted \in Builds /\ Downstream \in [Builds -> SUBSET Builds]
    /\ MaxDepth \in Nat /\ Limit \in Nat \ {0} /\ Modes \subseteq {"analyze", "ingest"}

(* The paths of the tree, those of the stubs below the last level too.     *)
Root == <<Submitted>>
Below(p) == {Append(p, b) : b \in Downstream[Last(p)]}
Level[n \in 0..MaxDepth + 1] ==
    IF n = 0 THEN {Root} ELSE UNION {Below(p) : p \in Level[n - 1]}
Paths == UNION {Level[n] : n \in 0..MaxDepth + 1}
Depth(p) == Len(p) - 2      \* of a child of the one submitted: 0
Children(p) == Below(p) \cap Paths

VARIABLES
    mode,       \* what was asked for
    failing,    \* the tests of the build that was submitted failed
    step,       \* where the coroutine of each build is
    found,      \* the failed builds each one was found to have started
    artifacts,  \* builds whose downloaded artifacts are on disk
    result,     \* what is reported of each build
    job         \* the outcome of the job

vars == <<mode, failing, step, found, artifacts, result, job>>

Results == {"none", "deep", "unfetched", "raised", "allFailed", "analyzed", "ingested", "pipeline"}
Noted == {"deep", "unfetched", "raised", "allFailed"}

TypeOK ==
    /\ mode \in Modes /\ failing \in BOOLEAN
    /\ step \in [Paths -> {"idle", "queued", "fetch", "console", "children", "analysis", "over"}]
    /\ found \in [Paths -> SUBSET Paths]
    /\ artifacts \subseteq Paths
    /\ result \in [Paths -> Results]
    /\ job \in {"running", "completed", "failed", "cancelled"}

Init ==
    /\ mode \in Modes /\ failing \in BOOLEAN
    /\ step = [p \in Paths |-> IF p = Root THEN "fetch" ELSE "idle"]
    /\ found = [p \in Paths |-> {}]
    /\ artifacts = {} /\ result = [p \in Paths |-> "none"] /\ job = "running"

----------------------------------------------------------------------------
Running == {"fetch", "console", "children", "analysis"}
Go(p, s) == step' = [step EXCEPT ![p] = s]
Report(p, r) == result' = [result EXCEPT ![p] = r]

(* source.cleanup                                                          *)
Over(p, r) == Go(p, "over") /\ Report(p, r) /\ artifacts' = artifacts \ {p}

(* Fault: everything is started at once.                                   *)
Unlimited(p) == TRUE

(* run_parallel_with_limit of its parent                                   *)
Turn(p) == Cardinality({q \in found[Front(p)] : step[q] \in Running}) < Limit

(* A build starts; one too deep is a stub.                                 *)
Start(p) ==
    /\ job = "running" /\ step[p] = "queued" /\ Turn(p)
    /\ IF Depth(p) >= MaxDepth
       THEN Go(p, "over") /\ Report(p, "deep")
       ELSE Go(p, "fetch") /\ UNCHANGED result
    /\ UNCHANGED <<mode, failing, found, artifacts, job>>

(* Build information, then the artifacts, whose loss is tolerated.         *)
FetchInfo(p) ==
    /\ job = "running" /\ step[p] = "fetch"
    /\ Go(p, "console")
    /\ artifacts' \in {artifacts, artifacts \union {p}}
    /\ UNCHANGED <<mode, failing, found, result, job>>

(* Console and test report; then the builds it started are queued.         *)
FetchRest(p) ==
    /\ job = "running" /\ step[p] = "console"
    /\ found' = [found EXCEPT ![p] = Children(p)]
    /\ step' = [q \in Paths |-> IF q = p THEN IF Children(p) = {} THEN "analysis" ELSE "children"
                                ELSE IF q \in Children(p) THEN "queued" ELSE step[q]]
    /\ UNCHANGED <<mode, failing, artifacts, result, job>>

(* A build that cannot be read has a note.                                 *)
Unreadable(p) ==
    /\ job = "running" /\ p # Root /\ step[p] \in {"fetch", "console"}
    /\ Over(p, "unfetched")
    /\ UNCHANGED <<mode, failing, found, job>>

(* Its builds are over: so is the pipeline, without failures of its own.   *)
Gather(p) ==
    /\ job = "running" /\ p # Root /\ step[p] = "children"
    /\ \A q \in found[p] : step[q] = "over"
    /\ Over(p, "pipeline")
    /\ UNCHANGED <<mode, failing, found, job>>

(* The failures or the console are analysed; an exception is a stub.       *)
Analyze(p) ==
    /\ job = "running" /\ p # Root /\ step[p] = "analysis"
    /\ IF mode = "ingest" THEN Over(p, "ingested")
       ELSE \E r \in {"analyzed", "allFailed", "raised"} : Over(p, r)
    /\ UNCHANGED <<mode, failing, found, job>>

----------------------------------------------------------------------------
(* The build that was submitted. *)

(* Fault: a pipeline counts as analysed.                                   *)
AnyReport(p) == result[p] \in {"analyzed", "pipeline"}

HasFailures(p) == result[p] = "analyzed"

(* child_has_successful_analysis                                           *)
Successful[p \in Paths] ==
    result[p] \notin Noted /\ (HasFailures(p) \/ \E q \in found[p] : Successful[q])

End(outcome) ==
    /\ job' = outcome /\ artifacts' = artifacts \ {Root}
    /\ step' = [step EXCEPT ![Root] = "over"]
    /\ UNCHANGED <<mode, failing, found>>

(* Only its builds failed: the job failed if none of them was analysed.    *)
EndPipeline ==
    /\ job = "running" /\ mode = "analyze" /\ step[Root] = "children" /\ ~failing
    /\ \A q \in found[Root] : step[q] = "over"
    /\ End(IF \E q \in found[Root] : Successful[q] THEN "completed" ELSE "failed")
    /\ Report(Root, "pipeline")

(* Its own failures, or its console, are analysed last.                    *)
EndAnalysis ==
    /\ job = "running" /\ mode = "analyze"
    /\ step[Root] = "analysis" \/ (step[Root] = "children" /\ failing)
    /\ \A q \in found[Root] : step[q] = "over"
    /\ \E r \in {"analyzed", "allFailed"} :
         /\ Report(Root, r)
         /\ End(IF r = "analyzed" \/ \E q \in found[Root] : Successful[q]
                THEN "completed" ELSE "failed")

EndIngest ==
    /\ job = "running" /\ mode = "ingest" /\ step[Root] \in {"analysis", "children"}
    /\ \A q \in found[Root] : step[q] = "over"
    /\ Report(Root, "ingested") /\ End("completed")

EndUnreadable ==
    /\ job = "running" /\ step[Root] \in {"fetch", "console"}
    /\ Report(Root, "unfetched") /\ End("failed")

(* What a coroutine that is cancelled removes: the task of the job in any  *)
(* case, that of a child once it was fetched.                              *)
Unwound == {p \in artifacts : p = Root \/ step[p] \notin {"fetch", "console"}}

Cancel ==
    /\ job = "running" /\ job' = "cancelled"
    /\ step' = [p \in Paths |-> IF step[p] = "idle" THEN "idle" ELSE "over"]
    /\ artifacts' = artifacts \ Unwound
    /\ UNCHANGED <<mode, failing, found, result>>

Done == job # "running" /\ UNCHANGED vars

Next ==
    \/ \E p \in Paths : \/ Start(p) \/ FetchInfo(p) \/ FetchRest(p)
                        \/ Unreadable(p) \/ Gather(p) \/ Analyze(p)
    \/ EndPipeline \/ EndAnalysis \/ EndIngest \/ EndUnreadable
    \/ Cancel \/ Done

Spec == Init /\ [][Next]_vars
----------------------------------------------------------------------------
(* A job that completed was analysed somewhere: there is a build with an   *)
(* analysis, and nothing above it failed; a job that failed has none.  And *)
(* every failed build that was found has its own entry.                    *)
Upwards(p) == Prefixes(p) \cap Paths
Reached(p) == result[p] = "analyzed" /\ \A q \in Upwards(p) \ {Root} : result[q] \notin Noted
OutcomeIsEarned ==
    job \in {"completed", "failed"} =>
        /\ \A p \in Paths : \A q \in found[p] : result[q] # "none"
        /\ mode = "analyze" => (job = "completed" <=> \E p \in Paths : Reached(p))

(* The directory a build reads is there while it runs: its own or the one  *)
(* it got from the build that started it.  No more builds of one pipeline  *)
(* run at a time than allowed.                                             *)
RunsInPlace ==
    \A p \in Paths :
        /\ step[p] \in Running \ {"fetch"} /\ job = "running" =>
             \A q \in Upwards(p) : step[q] \in Running
        /\ Cardinality({q \in found[p] : step[q] \in Running}) <= Limit
        /\ p \in artifacts /\ job = "running" => step[p] \in Running
=============================================================================
