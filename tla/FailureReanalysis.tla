------------------------- MODULE FailureReanalysis -------------------------
(***************************************************************************)
(* The re-analysis of single failures inside one analysed job: the request *)
(* (`re_analyze_failure`), its background task                             *)
(* (`_reanalyze_failure_background`), the clones it makes and the progress *)
(* it writes of them (`clone_additional_repos`, `update_clone_progress`),  *)
(* all of it patched into the one result the failures share.               *)
(*                                                                         *)
(* The parent is analysed and no task of its own is at work.  Writes of    *)
(* progress and of the outcome reach the database, a clone ends, and       *)
(* prompts, artifacts and usage are left out.                              *)
(***************************************************************************)
EXTENDS Naturals, Sequences, FiniteSets

CONSTANTS
    Failures,     \* failures of the parent's result, children included
    Requests,     \* requests; each may become one background task
    TestsRepo,    \* name the tests repository is cloned under
    Additional,   \* names of the additional repositories
    MaxClones,    \* max_concurrent_repo_clones
    First,        \* the analysis a failure has to begin with
    NoFailure

RepoAssumption == TestsRepo \notin Additional
ClonesAssumption == MaxClones \in Nat \ {0}
AnalysisAssumption == First \notin Requests /\ NoFailure \notin Failures

VARIABLES
    parent,     \* status of the job's row
    kept,       \* the result still has its failures
    status,     \* reanalysis_status of each failure
    analysis,   \* whose analysis each failure shows
    previous,   \* previous_analyses, most recent first
    active,     \* progress_log: identified operations that started and did not end
    names,      \* cloning_repos
    step,       \* where each request or its task is
    target,     \* failure of each request
    adding,     \* additional clones of each task
    other,      \* a clone of another job, whose task may be cancelled
    restarted

resultVars == <<parent, kept, status, analysis, previous>>
cloneVars  == <<active, names>>
vars == <<resultVars, cloneVars, step, target, adding, other, restarted>>

AtWork == {"tests", "cloningTests", "resolving", "additional", "analyzing", "patching", "failing"}
Over   == {"done", "lost"}

Init ==
    /\ parent = "completed" /\ kept = TRUE
    /\ status = [f \in Failures |-> "none"]
    /\ analysis = [f \in Failures |-> First]
    /\ previous = [f \in Failures |-> <<>>]
    /\ active = {} /\ names = {}
    /\ step = [q \in Requests |-> "idle"]
    /\ target = [q \in Requests |-> NoFailure]
    /\ adding = [q \in Requests |-> [r \in Additional |-> "no"]]
    /\ other = "idle" /\ restarted = FALSE

(* _find_failure_by_uuid_in_result.                                        *)
Found(f) == parent # "absent" /\ kept /\ f \in Failures

(* A place at the process-wide clone counter is held from its admission    *)
(* until the clone's thread ends, not until its task does.                 *)
Holding  == {x \in Requests \X Additional : adding[x[1]][x[2]] \in {"slot", "cloning"}}
OtherHolds == other \in {"cloning", "orphaned"}

(* Fault: the place of a cancelled clone is never given back.              *)
ActiveLeaked == Cardinality(Holding) + (IF other \in {"cloning", "orphaned", "ended"} THEN 1 ELSE 0)
Active == Cardinality(Holding) + (IF OtherHolds THEN 1 ELSE 0)
SlotFree == Active < MaxClones

----------------------------------------------------------------------------
(* The request. *)

(* The failure is looked up; its parent has parameters that decrypt.       *)
Request(q, f) ==
    /\ step[q] = "idle" /\ Found(f)
    /\ step' = [step EXCEPT ![q] = "checking"]
    /\ target' = [target EXCEPT ![q] = f]
    /\ UNCHANGED <<resultVars, cloneVars, adding, other, restarted>>

(* Body, parameters, provider, model or peers are refused.                 *)
Refuse(q) ==
    /\ step[q] = "checking"
    /\ step' = [step EXCEPT ![q] = "done"]
    /\ UNCHANGED <<resultVars, cloneVars, target, adding, other, restarted>>

(* Fault: a failure that is being re-analysed is not refused.              *)
NeverRunning(f) == FALSE
AlreadyRunning(f) == Found(f) /\ status[f] = "running"

(* _patch_running, and the background task.  A job deleted meanwhile is    *)
(* not patched, and the task starts all the same.                          *)
Accept(q) ==
    LET f == target[q] IN
    /\ step[q] = "checking"
    /\ IF AlreadyRunning(f)
       THEN step' = [step EXCEPT ![q] = "done"] /\ UNCHANGED status
       ELSE /\ step' = [step EXCEPT ![q] = "tests"]
            /\ status' = IF Found(f) THEN [status EXCEPT ![f] = "running"] ELSE status
    /\ UNCHANGED <<parent, kept, analysis, previous, cloneVars, target, adding, other, restarted>>

----------------------------------------------------------------------------
(* Progress of the clones (update_clone_progress with an operation id, and *)
(* patch_result_json with active_reanalysis_failure_id).                   *)

Patchable(f) == Found(f) /\ status[f] = "running"

CloneStarts(f, r) ==
    IF Patchable(f) /\ <<f, r>> \notin active
    THEN active' = active \union {<<f, r>>} /\ names' = names \union {r}
    ELSE UNCHANGED cloneVars

(* Fault: the end of one operation takes the name from all.                *)
NamesCleared(f, r) == names \ {r}

(* A name stays listed while another operation clones under it.            *)
NamesWithout(f, r) ==
    IF \E op \in active \ {<<f, r>>} : op[2] = r THEN names ELSE names \ {r}

CloneEnds(f, r) ==
    IF Patchable(f) /\ <<f, r>> \in active
    THEN active' = active \ {<<f, r>>} /\ names' = NamesWithout(f, r)
    ELSE UNCHANGED cloneVars

----------------------------------------------------------------------------
(* The background task. *)

(* The tests repository starts to be cloned, or there is none.             *)
CloneTests(q) ==
    /\ step[q] = "tests"
    /\ \/ /\ step' = [step EXCEPT ![q] = "cloningTests"]
          /\ CloneStarts(target[q], TestsRepo)
       \/ step' = [step EXCEPT ![q] = "resolving"] /\ UNCHANGED cloneVars
    /\ UNCHANGED <<resultVars, target, adding, other, restarted>>

(* It was cloned, or could not be; either way the task goes on.            *)
TestsEnd(q) ==
    /\ step[q] = "cloningTests"
    /\ step' = [step EXCEPT ![q] = "resolving"]
    /\ CloneEnds(target[q], TestsRepo)
    /\ UNCHANGED <<resultVars, target, adding, other, restarted>>

Resolved(q) ==
    /\ step[q] = "resolving"
    /\ \E rs \in SUBSET Additional :
         /\ adding' = [adding EXCEPT ![q] = [r \in Additional |->
                          IF r \in rs THEN "waiting" ELSE "no"]]
         /\ step' = [step EXCEPT ![q] = IF rs = {} THEN "analyzing" ELSE "additional"]
    /\ UNCHANGED <<resultVars, cloneVars, target, other, restarted>>

(* update_status(job_id, "failed", {"error": ...}) replaces the whole      *)
(* result, the failures with it, and ends every clone in progress.         *)
FailParent ==
    IF parent = "absent" THEN UNCHANGED <<parent, kept, cloneVars>>
    ELSE parent' = "failed" /\ kept' = FALSE /\ active' = {} /\ names' = {}

(* settings.json is invalid, two repositories have one name, or there is   *)
(* no AI.                                                                  *)
SettingsError(q) ==
    /\ step[q] = "resolving"
    /\ step' = [step EXCEPT ![q] = "done"]
    /\ FailParent
    /\ UNCHANGED <<status, analysis, previous, target, adding, other, restarted>>

(* clone_additional_repos: a place, the progress, the thread, its end.     *)
TakeSlot(q, r) ==
    /\ step[q] = "additional" /\ adding[q][r] = "waiting" /\ SlotFree
    /\ adding' = [adding EXCEPT ![q][r] = "slot"]
    /\ UNCHANGED <<resultVars, cloneVars, step, target, other, restarted>>

CloneAdditional(q, r) ==
    /\ adding[q][r] = "slot"
    /\ adding' = [adding EXCEPT ![q][r] = "cloning"]
    /\ CloneStarts(target[q], r)
    /\ UNCHANGED <<resultVars, step, target, other, restarted>>

(* The thread ends: release_slot.                                          *)
AdditionalEnds(q, r) ==
    /\ adding[q][r] = "cloning"
    /\ adding' = [adding EXCEPT ![q][r] = "ended"]
    /\ UNCHANGED <<resultVars, cloneVars, step, target, other, restarted>>

AdditionalDone(q, r) ==
    /\ adding[q][r] = "ended"
    /\ adding' = [adding EXCEPT ![q][r] = "no"]
    /\ CloneEnds(target[q], r)
    /\ UNCHANGED <<resultVars, step, target, other, restarted>>

Gathered(q) ==
    /\ step[q] = "additional" /\ \A r \in Additional : adding[q][r] = "no"
    /\ step' = [step EXCEPT ![q] = "analyzing"]
    /\ UNCHANGED <<resultVars, cloneVars, target, adding, other, restarted>>

(* analyze_failure_group answers; or anything raises, up to here.          *)
Analyzed(q) ==
    /\ step[q] = "analyzing"
    /\ step' = [step EXCEPT ![q] = "patching"]
    /\ UNCHANGED <<resultVars, cloneVars, target, adding, other, restarted>>

TaskRaises(q) ==
    /\ step[q] \in {"tests", "resolving", "analyzing", "patching"}
    /\ step' = [step EXCEPT ![q] = "failing"]
    /\ UNCHANGED <<resultVars, cloneVars, target, adding, other, restarted>>

(* previous_analyses with the analysis that is replaced.                   *)
Archived(f) == <<analysis[f]>> \o previous[f]

(* _patch_success, if the failure is still there.                          *)
PatchSuccess(q) ==
    LET f == target[q] IN
    /\ step[q] = "patching"
    /\ step' = [step EXCEPT ![q] = "done"]
    /\ IF Found(f)
       THEN /\ previous' = [previous EXCEPT ![f] = Archived(f)]
            /\ analysis' = [analysis EXCEPT ![f] = q]
            /\ status' = [status EXCEPT ![f] = "none"]
       ELSE UNCHANGED <<previous, analysis, status>>
    /\ UNCHANGED <<parent, kept, cloneVars, target, adding, other, restarted>>

(* _patch_error.                                                           *)
PatchError(q) ==
    LET f == target[q] IN
    /\ step[q] = "failing"
    /\ step' = [step EXCEPT ![q] = "done"]
    /\ status' = IF Found(f) THEN [status EXCEPT ![f] = "failed"] ELSE status
    /\ UNCHANGED <<parent, kept, analysis, previous, cloneVars, target, adding, other, restarted>>

----------------------------------------------------------------------------
(* A clone of some other job takes a place; when that job is aborted its   *)
(* thread runs on, and gives the place back when it ends.                  *)
OtherClone ==
    \/ other = "idle" /\ SlotFree /\ other' = "cloning"
    \/ other = "cloning" /\ other' = "orphaned"

OtherEnds == OtherHolds /\ other' = "ended"

OtherJob == OtherClone /\ UNCHANGED <<resultVars, cloneVars, step, target, adding, restarted>>
OtherJobEnds == OtherEnds /\ UNCHANGED <<resultVars, cloneVars, step, target, adding, restarted>>

DeleteParent ==
    /\ parent # "absent" /\ parent' = "absent"
    /\ active' = {} /\ names' = {}
    /\ UNCHANGED <<kept, status, analysis, previous, step, target, adding, other, restarted>>

(* The process ends and starts: its tasks and its counter are gone, and    *)
(* nothing looks at a re-analysis that was running.                        *)
Restart ==
    /\ ~restarted /\ restarted' = TRUE
    /\ step' = [q \in Requests |-> IF step[q] \in AtWork \union {"checking"} THEN "lost" ELSE step[q]]
    /\ adding' = [q \in Requests |-> [r \in Additional |-> "no"]]
    /\ other' = "ended"
    /\ UNCHANGED <<resultVars, cloneVars, target>>

TaskStep(q) ==
    \/ CloneTests(q) \/ TestsEnd(q) \/ Resolved(q) \/ SettingsError(q)
    \/ \E r \in Additional : TakeSlot(q, r) \/ CloneAdditional(q, r)
                             \/ AdditionalEnds(q, r) \/ AdditionalDone(q, r)
    \/ Gathered(q) \/ Analyzed(q) \/ TaskRaises(q) \/ PatchSuccess(q) \/ PatchError(q)

Next ==
    \/ \E q \in Requests :
         \/ \E f \in Failures : Request(q, f)
         \/ Refuse(q) \/ Accept(q) \/ TaskStep(q)
    \/ OtherJob \/ OtherJobEnds \/ DeleteParent \/ Restart

(* Tasks run, threads end, and a place that becomes free again and again   *)
(* is found by the poll for it.                                            *)
Fairness ==
    /\ \A q \in Requests : WF_vars(TaskStep(q))
    /\ \A q \in Requests, r \in Additional : SF_vars(TakeSlot(q, r))
    /\ WF_vars(OtherJobEnds)

Spec == Init /\ [][Next]_vars /\ Fairness

----------------------------------------------------------------------------
(* Every variable stays in its range. *)
TypeOK ==
    /\ parent \in {"completed", "failed", "absent"} /\ kept \in BOOLEAN /\ restarted \in BOOLEAN
    /\ status \in [Failures -> {"none", "running", "failed"}]
    /\ analysis \in [Failures -> Requests \union {First}]
    /\ previous \in [Failures -> Seq(Requests \union {First})]
    /\ active \subseteq Failures \X (Additional \union {TestsRepo})
    /\ names \subseteq Additional \union {TestsRepo}
    /\ step \in [Requests -> AtWork \union Over \union {"idle", "checking"}]
    /\ target \in [Requests -> Failures \union {NoFailure}]
    /\ adding \in [Requests -> [Additional -> {"no", "waiting", "slot", "cloning", "ended"}]]
    /\ other \in {"idle", "cloning", "orphaned", "ended"}

TasksOf(f) == {q \in Requests : target[q] = f /\ step[q] \in AtWork}

(* A failure that is being re-analysed has exactly one task, and one that  *)
(* is not has none, until the process ends.                                *)
OneTaskPerFailure ==
    ~restarted => \A f \in Failures : Found(f) =>
        Cardinality(TasksOf(f)) = IF status[f] = "running" THEN 1 ELSE 0

(* No analysis of a failure is lost: the one it shows and its previous     *)
(* ones are all there have been, each once.                                *)
AnalysesOf(f) == <<analysis[f]>> \o previous[f]
NoAnalysisLost ==
    \A f \in Failures :
        /\ AnalysesOf(f)[Len(AnalysesOf(f))] = First
        /\ \A i, j \in DOMAIN AnalysesOf(f) : AnalysesOf(f)[i] = AnalysesOf(f)[j] => i = j

(* The clones the result shows are those that tasks are making; a task     *)
(* whose failure is gone shows none.                                       *)
Cloning ==
    {TestsRepo : q \in {p \in Requests : step[p] = "cloningTests"}}
      \union {r \in Additional : \E q \in Requests : adding[q][r] \in {"cloning", "ended"}}
ProgressIsTrue ==
    ~restarted /\ parent # "absent" => names = IF kept THEN Cloning ELSE {}

(* All of it: the result that the failures share is true of its tasks.     *)
ResultIsTrue == OneTaskPerFailure /\ NoAnalysisLost /\ ProgressIsTrue

(* Every re-analysis ends, unless the process does.                        *)
ReanalysisEnds ==
    \A f \in Failures : status[f] = "running" ~> (status[f] # "running" \/ ~kept \/ parent = "absent" \/ restarted)
=============================================================================
