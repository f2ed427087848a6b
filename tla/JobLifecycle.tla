---------------------------- MODULE JobLifecycle ----------------------------
(***************************************************************************)
(* The life of one analysis job: the row of table `results`, the asyncio   *)
(* task that works on it, and the requests that race with that task        *)
(* (create, analyze in place, abort, delete) across restarts of the server.*)
(*                                                                         *)
(* The functions modelled here read and write only the row and the         *)
(* `_job_tasks` entry of their own job id, so one job is the whole story.  *)
(*                                                                         *)
(* The server is one asyncio process: code between two awaits is atomic,   *)
(* and one call into storage.py is one SQLite transaction.  Hence one      *)
(* action per storage call, together with the synchronous code around it.  *)
(***************************************************************************)
EXTENDS Naturals

CONSTANTS
    Tasks,        \* identities of asyncio tasks; at most this many exist at once
    Analyzers,    \* POST /results/{job_id}/analyze requests that may overlap
    NoTask,       \* `_job_tasks.get(job_id)` found nothing
    MaxRestarts   \* bound on server restarts

ASSUME NoTaskAssumption == NoTask \notin Tasks
ASSUME MaxRestartsAssumption == MaxRestarts \in Nat

VARIABLES
    \* the database
    status,         \* results.status, "none" when there is no row
    analysisState,  \* results.analysis_state
    completedAt,    \* results.completed_at IS NOT NULL
    childRows,      \* rows of this job in test_entries, failure_history, ai_token_usage
    \* the background tasks
    pc,             \* the await each task stands at
    ingestOnly,     \* the tasks called with ingest_only
    cancelled,      \* the tasks whose await will raise CancelledError
    jobTask,        \* _job_tasks[job_id]
    \* the requests in progress
    creator,        \* POST /analyze, /submit or /re-analyze that creates the job
    createdState,   \* the analysis_state it saved: "submitted" for ingest_only
    analyze,        \* where each in-place analyze request stands
    previousStatus, \* its local variable previous_status
    abort,          \* where the abort request stands
    abortTask,      \* the task the abort request waits for
    abortState,     \* the analysis_state it copied out of the stored result
    resume,         \* _deferred_resume_waiting_jobs, for this job
    \* bookkeeping
    restarts,       \* restarts so far
    raced           \* history: an abort was written over work or over an outcome

dbVars      == <<status, analysisState, completedAt, childRows>>
taskVars    == <<pc, ingestOnly, cancelled>>
createVars  == <<creator, createdState>>
analyzeVars == <<analyze, previousStatus>>
abortVars   == <<abort, abortTask, abortState>>
vars == <<dbVars, taskVars, jobTask, createVars, analyzeVars, abortVars,
          resume, restarts, raced>>

Active == {"pending", "running", "waiting"}      \* ACTIVE_STATUSES
Orphan == {"pending", "running"}                 \* ORPHAN_STATUSES
Terminal == {"completed", "failed", "aborted"}
States == {"submitted", "analyzed"}

----------------------------------------------------------------------------
(* Storage calls on the row.                                               *)

UpdateStatus(s, state) ==
    /\ IF status = "none"
       THEN UNCHANGED <<status, analysisState, completedAt>>
       ELSE /\ status' = s
            /\ analysisState' = state
            /\ completedAt' = (completedAt \/ s = "completed")
    /\ UNCHANGED childRows

SaveResult(s, state) ==
    /\ status' = s
    /\ analysisState' = state
    /\ completedAt' = (status # "none" /\ completedAt)
    /\ UNCHANGED childRows

InsertChildRows ==
    /\ childRows' = TRUE
    /\ UNCHANGED <<status, analysisState, completedAt>>

(* Fault: the state is not derived from ingest_only.                       *)
IngestStateConstant(t) == "submitted"

IngestState(t) == IF t \in ingestOnly THEN "submitted" ELSE "analyzed"

(* The storage call a task makes at the await it stands at.                *)
Write(t) ==
    \/ pc[t] = "setWaiting" /\ UpdateStatus("waiting", analysisState)
    \/ pc[t] \in {"setRunning", "setRunningAI"} /\ UpdateStatus("running", analysisState)
    \/ pc[t] \in {"failPreFetch", "handleError"} /\ UpdateStatus("failed", IngestState(t))
    \/ pc[t] \in {"ingestEntries", "analyzing", "saveHistory", "saveEntries"} /\ InsertChildRows
    \/ pc[t] = "ingestDone" /\ UpdateStatus("completed", IngestState(t))
    \/ /\ pc[t] = "failAnalysis"
       /\ \E state \in {analysisState, "analyzed"} : UpdateStatus("failed", state)
    \/ /\ pc[t] = "saveFinal"
       /\ \E s \in {"completed", "failed"} : UpdateStatus(s, "analyzed")

----------------------------------------------------------------------------
(* Who is still going to write the row.                                    *)

PastWriting == {"idle", "cleanup", "done"}
Labels == PastWriting \union
    {"setWaiting", "preFetch", "failPreFetch", "setRunning", "fetch", "ingestEntries",
     "ingestDone", "setRunningAI", "analyzing", "failAnalysis", "saveHistory",
     "saveEntries", "saveFinal", "reveal", "handleError"}

(* A task that is still working: not cancelled, not yet in its finally.    *)
Working(t) == pc[t] \notin PastWriting /\ t \notin cancelled

(* An in-place analyze request between its claim and its create_task.      *)
Claimed(r) == analyze[r] \notin {"idle", "claim"}
Creating == creator \in {"pending", "waiting"}
Resuming == resume # "idle"

Busy == \/ Creating
        \/ Resuming
        \/ \E t \in Tasks : Working(t)
        \/ \E r \in Analyzers : Claimed(r)

----------------------------------------------------------------------------
(* create_task and _register_job_task, which no await separates.  The task *)
(* is ingest_only if the row was saved as merely submitted.  An identity is*)
(* used again once nothing refers to the old task any more.                *)

StartPc(initialStatus) ==
    IF initialStatus = "waiting" THEN "setWaiting" ELSE "setRunning"

Spawn(state, initialStatus) ==
    \E t \in Tasks :
        /\ pc[t] = "idle"
        /\ t # abortTask
        /\ pc' = [pc EXCEPT ![t] = StartPc(initialStatus)]
        /\ ingestOnly' = IF state = "submitted" THEN ingestOnly \union {t} ELSE ingestOnly \ {t}
        /\ cancelled' = cancelled \ {t}
        /\ jobTask' = t

(* POST /analyze, /submit and /re-analyze: save_result under a new job id. *)
CreateSave ==
    /\ creator = "new"
    /\ \E s \in {"pending", "waiting"}, state \in States :
        /\ SaveResult(s, state)
        /\ creator' = s
        /\ createdState' = state
    /\ UNCHANGED <<taskVars, jobTask, analyzeVars, abortVars, resume, restarts, raced>>

CreateSpawn ==
    /\ Creating
    /\ Spawn(createdState, creator)
    /\ creator' = "over" /\ createdState' = "analyzed"
    /\ UNCHANGED <<dbVars, analyzeVars, abortVars, resume, restarts, raced>>

(* The request is over and its local variables with it.                    *)
AnalyzeEnds(r) ==
    /\ analyze' = [analyze EXCEPT ![r] = "idle"]
    /\ previousStatus' = [previousStatus EXCEPT ![r] = "completed"]

(* Fault: the check that the job is not active is missing.                 *)
AnalyzeReadActive(r) ==
    /\ analyze[r] = "idle"
    /\ status # "none" /\ analysisState = "submitted"
    /\ analyze' = [analyze EXCEPT ![r] = "claim"]
    /\ previousStatus' = [previousStatus EXCEPT ![r] = status]
    /\ UNCHANGED <<dbVars, taskVars, jobTask, createVars, abortVars, resume, restarts, raced>>

(* POST /results/{job_id}/analyze: the 404 and 409 checks on the row read. *)
AnalyzeRead(r) ==
    /\ analyze[r] = "idle"
    /\ status \in Terminal
    /\ analysisState = "submitted"
    /\ analyze' = [analyze EXCEPT ![r] = "claim"]
    /\ previousStatus' = [previousStatus EXCEPT ![r] = status]
    /\ UNCHANGED <<dbVars, taskVars, jobTask, createVars, abortVars, resume, restarts, raced>>

(* Faults: the claim forgets to test the state, or the status.             *)
ClaimWhen(r, guard) ==
    /\ analyze[r] = "claim" /\ guard
    /\ status' = "pending"
    /\ analyze' = [analyze EXCEPT ![r] = "claimed"]
    /\ UNCHANGED <<analysisState, completedAt, childRows, taskVars, jobTask, createVars,
                   previousStatus, abortVars, resume, restarts, raced>>
AnalyzeClaimAnyState(r) == ClaimWhen(r, status \in Terminal)
AnalyzeClaimAnyStatus(r) == ClaimWhen(r, status # "none" /\ analysisState = "submitted")

(* claim_submitted_job_for_analyze; the loser gets a 409.                  *)
AnalyzeClaim(r) ==
    /\ analyze[r] = "claim"
    /\ IF status \in Terminal /\ analysisState = "submitted"
       THEN /\ status' = "pending"
            /\ analyze' = [analyze EXCEPT ![r] = "claimed"]
            /\ UNCHANGED previousStatus
       ELSE /\ UNCHANGED status
            /\ AnalyzeEnds(r)
    /\ UNCHANGED <<analysisState, completedAt, childRows, taskVars, jobTask, createVars,
                   abortVars, resume, restarts, raced>>

AnalyzeSave(r) ==
    /\ analyze[r] = "claimed"
    /\ \E s \in {"pending", "waiting"} :
        /\ SaveResult(s, "analyzed")
        /\ analyze' = [analyze EXCEPT ![r] = s]
    /\ UNCHANGED <<taskVars, jobTask, createVars, previousStatus, abortVars, resume,
                   restarts, raced>>

AnalyzeSpawn(r) ==
    /\ analyze[r] \in {"pending", "waiting"}
    /\ Spawn("analyzed", analyze[r])
    /\ AnalyzeEnds(r)
    /\ UNCHANGED <<dbVars, createVars, abortVars, resume, restarts, raced>>

(* Validation, a read or save_result raised after the claim.               *)
AnalyzeFails(r) ==
    /\ analyze[r] = "claimed"
    /\ analyze' = [analyze EXCEPT ![r] = "release"]
    /\ UNCHANGED <<dbVars, taskVars, jobTask, createVars, previousStatus, abortVars, resume,
                   restarts, raced>>

AnalyzeRelease(r) ==
    /\ analyze[r] = "release"
    /\ status' = IF status = "pending" /\ analysisState = "submitted"
                 THEN previousStatus[r]
                 ELSE status
    /\ AnalyzeEnds(r)
    /\ UNCHANGED <<analysisState, completedAt, childRows, taskVars, jobTask, createVars,
                   abortVars, resume, restarts, raced>>

----------------------------------------------------------------------------
(* _process_ci_source_analysis, one action per await that matters.         *)

At(t, label) == pc[t] = label /\ t \notin cancelled
Goto(t, label) ==
    /\ pc' = [pc EXCEPT ![t] = label]
    /\ UNCHANGED <<ingestOnly, cancelled>>
NotTask == UNCHANGED <<jobTask, createVars, analyzeVars, abortVars, resume, restarts, raced>>

SetWaiting(t) == At(t, "setWaiting") /\ Write(t) /\ Goto(t, "preFetch") /\ NotTask

PreFetch(t) ==
    /\ At(t, "preFetch")
    /\ Goto(t, "setRunning") \/ Goto(t, "failPreFetch")
    /\ UNCHANGED dbVars /\ NotTask

FailPreFetch(t) == At(t, "failPreFetch") /\ Write(t) /\ Goto(t, "cleanup") /\ NotTask

SetRunning(t) == At(t, "setRunning") /\ Write(t) /\ Goto(t, "fetch") /\ NotTask

(* skip_analysis sends an end-to-end run down the ingest path as well.     *)
Fetch(t) ==
    /\ At(t, "fetch")
    /\ \/ Goto(t, "ingestEntries")
       \/ t \notin ingestOnly /\ Goto(t, "setRunningAI")
    /\ UNCHANGED dbVars /\ NotTask

IngestEntries(t) == At(t, "ingestEntries") /\ Write(t) /\ Goto(t, "ingestDone") /\ NotTask

(* Fault: the pipeline does not return after the ingest.                   *)
IngestDoneGoesOn(t) ==
    At(t, "ingestDone") /\ Write(t) /\ Goto(t, "setRunningAI") /\ NotTask

(* _auto_assign_metadata, which follows, swallows its errors and writes    *)
(* nothing of the job.                                                     *)
IngestDone(t) == At(t, "ingestDone") /\ Write(t) /\ Goto(t, "cleanup") /\ NotTask

SetRunningAI(t) == At(t, "setRunningAI") /\ Write(t) /\ Goto(t, "analyzing") /\ NotTask

(* Each AI call of the analysis records its token usage.                   *)
RecordUsage(t) == At(t, "analyzing") /\ Write(t) /\ UNCHANGED taskVars /\ NotTask

(* The pipeline exits early with a failure (preflight, repository settings,*)
(* every AI call failed) or has results to save; the console-only path     *)
(* keeps no failure history.                                               *)
Analyzed(t) ==
    /\ At(t, "analyzing")
    /\ \E label \in {"failAnalysis", "saveHistory", "saveEntries"} : Goto(t, label)
    /\ UNCHANGED dbVars /\ NotTask

FailAnalysis(t) == At(t, "failAnalysis") /\ Write(t) /\ Goto(t, "cleanup") /\ NotTask

(* A failure of populate_failure_history is logged and ignored.            *)
SaveHistory(t) ==
    /\ At(t, "saveHistory")
    /\ Write(t) \/ UNCHANGED dbVars
    /\ Goto(t, "saveEntries") /\ NotTask

(* _persist_test_entries_and_cache_counts logs and ignores a failure too.  *)
SaveEntries(t) ==
    /\ At(t, "saveEntries")
    /\ Write(t) \/ UNCHANGED dbVars
    /\ Goto(t, "saveFinal") /\ NotTask

SaveFinal(t) == At(t, "saveFinal") /\ Write(t) /\ Goto(t, "reveal") /\ NotTask

(* make_classifications_visible runs after the outcome is stored.          *)
Reveal(t) == At(t, "reveal") /\ Goto(t, "cleanup") /\ UNCHANGED dbVars /\ NotTask

(* Any other await inside the try may raise; `reveal` is one of them.      *)
Raise(t) ==
    /\ Working(t)
    /\ pc[t] \notin {"saveHistory", "handleError"}
    /\ Goto(t, "handleError")
    /\ UNCHANGED dbVars /\ NotTask

HandleError(t) == At(t, "handleError") /\ Write(t) /\ Goto(t, "cleanup") /\ NotTask

(* except CancelledError: return; a second one cuts the finally short.     *)
Cancelled(t) ==
    /\ pc[t] \notin {"idle", "done"} /\ t \in cancelled
    /\ pc' = [pc EXCEPT ![t] = IF pc[t] = "cleanup" THEN "done" ELSE "cleanup"]
    /\ cancelled' = cancelled \ {t}
    /\ UNCHANGED <<dbVars, ingestOnly>> /\ NotTask

Cleanup(t) == At(t, "cleanup") /\ Goto(t, "done") /\ UNCHANGED dbVars /\ NotTask

(* The done-callback of _remove_job_task: it pops the entry of the job id, *)
(* whichever task is registered there by now.                              *)
DoneCallback(t) ==
    /\ pc[t] = "done"
    /\ jobTask' = NoTask
    /\ pc' = [pc EXCEPT ![t] = "idle"]
    /\ ingestOnly' = ingestOnly \ {t}
    /\ UNCHANGED cancelled
    /\ UNCHANGED <<dbVars, createVars, analyzeVars, abortVars, resume, restarts, raced>>

----------------------------------------------------------------------------
(* POST /results/{job_id}/abort.                                           *)

NotAbort == UNCHANGED <<createVars, analyzeVars, resume, restarts>>

AbortRead ==
    /\ abort = "idle"
    /\ status \in Active
    /\ abort' = "cancel"
    /\ UNCHANGED <<dbVars, taskVars, jobTask, abortTask, abortState, raced>> /\ NotAbort

(* task.cancel().  A commit that has begun by now still takes effect, and  *)
(* it does so before anyone else can write: it holds SQLite's write lock.  *)
AbortCancel ==
    /\ abort = "cancel"
    /\ jobTask # NoTask
    /\ pc[jobTask] # "done"
    /\ cancelled' = cancelled \union {jobTask}
    /\ (jobTask \notin cancelled /\ Write(jobTask)) \/ UNCHANGED dbVars
    /\ abort' = "wait"
    /\ abortTask' = jobTask
    /\ UNCHANGED <<pc, ingestOnly, jobTask, abortState, raced>> /\ NotAbort

(* "No active background task found": only the status will be updated.     *)
AbortNoTask ==
    /\ abort = "cancel"
    /\ jobTask # NoTask => pc[jobTask] = "done"
    /\ jobTask' = NoTask
    /\ abort' = "copy"
    /\ UNCHANGED <<dbVars, taskVars, abortTask, abortState, raced>> /\ NotAbort

AbortWaited ==
    /\ abort = "wait"
    /\ pc[abortTask] \in {"idle", "done"}
    /\ jobTask' = NoTask
    /\ abort' = "copy"
    /\ abortTask' = NoTask
    /\ UNCHANGED <<dbVars, taskVars, abortState, raced>> /\ NotAbort

(* wait_for timed out after two seconds: the task stays registered.        *)
AbortTimeout ==
    /\ abort = "wait"
    /\ pc[abortTask] \notin {"idle", "done"}
    /\ abort' = "copy"
    /\ abortTask' = NoTask
    /\ UNCHANGED <<dbVars, taskVars, jobTask, abortState, raced>> /\ NotAbort

(* Copies the stored result, analysis_state included, into abort_data.     *)
AbortCopy ==
    /\ abort = "copy"
    /\ abortState' = IF status = "none" THEN "absent" ELSE analysisState
    /\ abort' = "recheck"
    /\ UNCHANGED <<dbVars, taskVars, jobTask, abortTask, raced>> /\ NotAbort

(* "Re-check status - task may have completed between cancel and here".    *)
AbortRecheck ==
    /\ abort = "recheck"
    /\ IF status \in {"completed", "failed"}
       THEN abort' = "idle" /\ abortState' = "absent"
       ELSE abort' = "write" /\ UNCHANGED abortState
    /\ UNCHANGED <<dbVars, taskVars, jobTask, abortTask, raced>> /\ NotAbort

AbortWrite ==
    /\ abort = "write"
    /\ UpdateStatus("aborted", IF abortState = "absent" THEN analysisState ELSE abortState)
    /\ abort' = "idle" /\ abortState' = "absent"
    /\ raced' = (raced \/ (status # "none" /\ (Busy \/ status \in Terminal)))
    /\ UNCHANGED <<taskVars, jobTask, abortTask>> /\ NotAbort

----------------------------------------------------------------------------
(* DELETE /results/{job_id} and the bulk delete: _delete_job_rows.  The    *)
(* task of the job, if there is one, is left alone.                        *)
Delete ==
    /\ status # "none"
    /\ status' = "none"
    /\ analysisState' = "submitted"
    /\ completedAt' = FALSE
    /\ childRows' = FALSE
    /\ UNCHANGED <<taskVars, jobTask, createVars, analyzeVars, abortVars, resume, restarts, raced>>

(* Fault: only running jobs are recovered.                                 *)
MarkStaleRunning ==
    IF status = "running" /\ ~completedAt
    THEN status' = "failed" /\ completedAt' = TRUE /\ resume' = "idle"
    ELSE resume' = "idle" /\ UNCHANGED <<status, completedAt>>

(* mark_stale_results_failed, which runs before the first request.         *)
MarkStale ==
    \/ /\ status \in Orphan /\ ~completedAt
       /\ status' = "failed" /\ completedAt' = TRUE /\ resume' = "idle"
    \/ /\ status = "waiting"
       /\ resume' = "queued" /\ UNCHANGED <<status, completedAt>>
    \/ /\ status = "waiting"                  \* not resumable
       /\ status' = "failed" /\ completedAt' = TRUE /\ resume' = "idle"
    \/ /\ status \notin Orphan \union {"waiting"} \/ (status \in Orphan /\ completedAt)
       /\ resume' = "idle" /\ UNCHANGED <<status, completedAt>>

(* The process dies, with its tasks, its requests and `_job_tasks`, and    *)
(* starts again.                                                           *)
Restart ==
    /\ restarts < MaxRestarts
    /\ restarts' = restarts + 1
    /\ MarkStale
    /\ UNCHANGED <<analysisState, childRows, raced>>
    /\ pc' = [t \in Tasks |-> "idle"]
    /\ ingestOnly' = {} /\ cancelled' = {}
    /\ jobTask' = NoTask
    /\ creator' = (IF creator = "new" THEN "new" ELSE "over") /\ createdState' = "analyzed"
    /\ analyze' = [r \in Analyzers |-> "idle"]
    /\ previousStatus' = [r \in Analyzers |-> "completed"]
    /\ abort' = "idle" /\ abortTask' = NoTask /\ abortState' = "absent"

(* _resume_waiting_jobs for this job: parameters missing or unreadable, the*)
(* deadline passed, or (after the re-check) AI validation failed.          *)
ResumeFails ==
    /\ resume \in {"queued", "checked"}
    /\ UpdateStatus("failed", analysisState)
    /\ resume' = "idle"
    /\ UNCHANGED <<taskVars, jobTask, createVars, analyzeVars, abortVars, restarts, raced>>

(* Fault: the re-check skips the job whatever its status.                  *)
ResumeSkips ==
    /\ resume = "queued" /\ resume' = "idle"
    /\ UNCHANGED <<dbVars, taskVars, jobTask, createVars, analyzeVars, abortVars, restarts, raced>>

ResumeRecheck ==
    /\ resume = "queued"
    /\ resume' = IF status \in Terminal THEN "idle" ELSE "checked"
    /\ UNCHANGED <<dbVars, taskVars, jobTask, createVars, analyzeVars, abortVars, restarts, raced>>

(* The task is created without ingest_only, whose default is False.        *)
ResumeSpawn ==
    /\ resume = "checked"
    /\ Spawn("analyzed", "waiting")
    /\ resume' = "idle"
    /\ UNCHANGED <<dbVars, createVars, analyzeVars, abortVars, restarts, raced>>

----------------------------------------------------------------------------
Init ==
    /\ status = "none" /\ analysisState = "submitted"
    /\ completedAt = FALSE /\ childRows = FALSE
    /\ pc = [t \in Tasks |-> "idle"]
    /\ ingestOnly = {} /\ cancelled = {}
    /\ jobTask = NoTask
    /\ creator = "new" /\ createdState = "analyzed"
    /\ analyze = [r \in Analyzers |-> "idle"]
    /\ previousStatus = [r \in Analyzers |-> "completed"]
    /\ abort = "idle" /\ abortTask = NoTask /\ abortState = "absent"
    /\ resume = "idle" /\ restarts = 0 /\ raced = FALSE

TaskStep(t) ==
    \/ SetWaiting(t) \/ PreFetch(t) \/ FailPreFetch(t) \/ SetRunning(t) \/ Fetch(t)
    \/ IngestEntries(t) \/ IngestDone(t) \/ SetRunningAI(t) \/ Analyzed(t) \/ FailAnalysis(t)
    \/ SaveHistory(t) \/ SaveEntries(t) \/ SaveFinal(t) \/ Reveal(t) \/ Raise(t)
    \/ HandleError(t) \/ Cancelled(t) \/ Cleanup(t) \/ DoneCallback(t)

(* A request that has begun goes on; a client decides whether one begins.  *)
AnalyzeStep(r) == AnalyzeClaim(r) \/ AnalyzeSave(r) \/ AnalyzeSpawn(r)
                  \/ AnalyzeFails(r) \/ AnalyzeRelease(r)
AbortStep == AbortCancel \/ AbortNoTask \/ AbortWaited \/ AbortTimeout \/ AbortCopy
             \/ AbortRecheck \/ AbortWrite
ResumeStep == ResumeFails \/ ResumeRecheck \/ ResumeSpawn

Next ==
    \/ CreateSave \/ CreateSpawn
    \/ \E r \in Analyzers : AnalyzeRead(r) \/ AnalyzeStep(r)
    \/ \E t \in Tasks : TaskStep(t) \/ RecordUsage(t)
    \/ AbortRead \/ AbortStep
    \/ Delete
    \/ Restart \/ ResumeStep

Spec == Init /\ [][Next]_vars

(* The event loop runs every ready coroutine and every await returns:      *)
(* fetches and AI calls have timeouts, a CI build ends or the wait does.   *)
Fairness ==
    /\ WF_vars(CreateSpawn)
    /\ \A r \in Analyzers : WF_vars(AnalyzeStep(r))
    /\ \A t \in Tasks : WF_vars(TaskStep(t))
    /\ WF_vars(AbortStep)
    /\ WF_vars(ResumeStep)

FairSpec == Spec /\ Fairness

----------------------------------------------------------------------------
(* Every variable stays in its range, whatever the interleaving.           *)
RestartsBounded == restarts \in 0..MaxRestarts
TypeOK ==
    /\ RestartsBounded
    /\ status \in Active \union Terminal \union {"none"}
    /\ analysisState \in States
    /\ completedAt \in BOOLEAN /\ childRows \in BOOLEAN
    /\ pc \in [Tasks -> Labels]
    /\ ingestOnly \subseteq Tasks /\ cancelled \subseteq Tasks
    /\ jobTask \in Tasks \union {NoTask}
    /\ creator \in {"new", "pending", "waiting", "over"} /\ createdState \in States
    /\ analyze \in [Analyzers -> {"idle", "claim", "claimed", "pending", "waiting", "release"}]
    /\ previousStatus \in [Analyzers -> Terminal]
    /\ abort \in {"idle", "cancel", "wait", "copy", "recheck", "write"}
    /\ abortTask \in Tasks \union {NoTask}
    /\ abort = "wait" => abortTask \in Tasks
    /\ abortState \in States \union {"absent"}
    /\ resume \in {"idle", "queued", "checked"}
    /\ raced \in BOOLEAN

(* A job that is shown as pending, running or waiting and has not finished *)
(* before always has somebody who will still end it: no order of failures, *)
(* aborts, claims, releases and restarts leaves it to hang.                *)
Owned ==
    \/ Creating \/ Resuming
    \/ abort \in {"wait", "copy", "recheck", "write"}
    \/ \E t \in Tasks : Working(t)
    \/ \E r \in Analyzers : Claimed(r)

ActiveJobIsOwned == status \in Active /\ ~completedAt => Owned

(* A job is worked on by one task or request at a time, through creation,  *)
(* claim, release, resumption and abort, as long as no abort raced.        *)
OneAnalysisAtATime ==
    ~raced =>
        /\ \A t, u \in Tasks : Working(t) /\ Working(u) => t = u
        /\ \A r, q \in Analyzers : Claimed(r) /\ Claimed(q) => r = q
        /\ ~(Creating /\ Resuming)
        /\ Creating \/ Resuming => \A t \in Tasks : ~Working(t)
        /\ Creating \/ Resuming \/ (\E t \in Tasks : Working(t))
               => \A r \in Analyzers : ~Claimed(r)

(* Once a job has an outcome nobody works on it any more, but for the task *)
(* that reveals the classifications after storing the outcome; an aborted  *)
(* job is not worked on at all.                                            *)
FinishedJobIsQuiet ==
    ~raced /\ status \in Terminal =>
        /\ ~Creating /\ ~Resuming
        /\ \A r \in Analyzers : ~Claimed(r)
        /\ \A t \in Tasks : Working(t) =>
               pc[t] \in {"reveal", "handleError"} /\ status # "aborted"

(* An analyzed job never turns back into a merely submitted one, which     *)
(* could be claimed and analyzed a second time.                            *)
AnalyzedStaysAnalyzed ==
    [][analysisState = "analyzed" /\ status # "none" /\ status' # "none" /\ ~raced'
          => analysisState' = "analyzed"]_vars

(* The outcome of an analyzed job is final: it is neither overwritten nor  *)
(* reopened, unless the reveal that follows it fails.                      *)
Settled == status \in Terminal /\ analysisState = "analyzed"
ErrorHandled == status' = "failed" /\ \E t \in Tasks : pc[t] = "handleError"
OutcomeIsFinal ==
    [][Settled /\ status' # "none" /\ ~raced' => status' = status \/ ErrorHandled]_vars

(* Every active job that never finished is resolved in the end.            *)
EveryJobResolves == (status \in Active /\ ~completedAt) ~> status \notin Active

----------------------------------------------------------------------------
(* What the documentation and the comments of the code say of it.  Each of *)
(* these is refuted by a run; the README tells how.                        *)

(* storage.py, mark_stale_results_failed: "Pending and running jobs have   *)
(* lost their background task and cannot recover, so they are marked as    *)
(* failed".                                                                *)
RestartFailsOrphans == [][restarts' # restarts => status' \notin Orphan]_vars

(* docs: POST /submit "stops before the clone and AI stages"; only an      *)
(* analyze request, which changes the state, runs the AI on such a job.    *)
SubmitDoesNotAnalyze ==
    status # "none" => \A t \in Tasks : At(t, "analyzing") => analysisState = "analyzed"
=============================================================================
