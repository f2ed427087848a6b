------------------------- MODULE JobLifecycleProofs -------------------------
(***************************************************************************)
(* Proofs about JobLifecycle, for every set of tasks and of analyze        *)
(* requests and any number of restarts.                                    *)
(***************************************************************************)
EXTENDS JobLifecycle, TLAPS

(* The inductive invariant.  Busy tokens (a creation, a resumption, a      *)
(* working task, a claim) exclude one another as long as no abort raced;   *)
(* the parts below say what each token knows of the row.                   *)

(* A task that has stored an outcome counts as an owner no longer, and a   *)
(* claim owns the row only while the row shows it.                         *)
OwnedBy ==
    \/ Creating \/ Resuming
    \/ abort \in {"wait", "copy", "recheck", "write"}
    \/ \E t \in Tasks : Working(t) /\ pc[t] # "reveal"
    \/ \E r \in Analyzers : analyze[r] \in {"pending", "waiting"}
    \/ /\ status = "pending" /\ analysisState = "submitted"
       /\ \E r \in Analyzers : analyze[r] \in {"claimed", "release"}

ActiveOwned == status \in Active /\ ~completedAt => OwnedBy

(* Nothing happens before the job is created.                              *)
NewIsQuiet ==
    creator = "new" => /\ status = "none" /\ ~Busy /\ abort = "idle"
                       /\ \A r \in Analyzers : analyze[r] = "idle"

(* An ingest-only task never enters the AI part of the pipeline.           *)
AILabels == {"setRunningAI", "analyzing", "failAnalysis", "saveHistory", "saveEntries",
             "saveFinal", "reveal"}
IngestStaysOut == \A t \in Tasks : t \in ingestOnly => pc[t] \notin AILabels

(* A finished job with a task still at work has been analyzed.             *)
FinishedAnalyzed ==
    status \in Terminal => \A t \in Tasks : Working(t) => analysisState = "analyzed"

RevealAfterOutcome ==
    \A t \in Tasks : Working(t) /\ pc[t] = "reveal" => status \in Terminal \union {"none"}

ClaimShows ==
    \A r \in Analyzers :
        analyze[r] \in {"claimed", "release"} =>
            status = "none" \/ (status = "pending" /\ analysisState = "submitted")

(* The work of a /submit finds the row still merely submitted.             *)
IngestSubmitted ==
    /\ \A t \in Tasks : Working(t) /\ t \in ingestOnly /\ status # "none"
                            => analysisState = "submitted"
    /\ Creating /\ createdState = "submitted" /\ status # "none" => analysisState = "submitted"

(* A stale copy in the abort request means that the job moved on.          *)
AbortCopyStale ==
    (abort \in {"recheck", "write"} /\ abortState = "submitted"
       /\ analysisState = "analyzed" /\ status # "none")
    => Busy \/ status \in Terminal

Unraced ==
    ~raced => /\ OneAnalysisAtATime /\ FinishedJobIsQuiet /\ FinishedAnalyzed
              /\ RevealAfterOutcome /\ ClaimShows /\ IngestSubmitted /\ AbortCopyStale

Inv == TypeOK /\ ActiveOwned /\ NewIsQuiet /\ IngestStaysOut /\ Unraced

----------------------------------------------------------------------------
(* Type correctness.                                                       *)

(* The columns of the row are in range, and every storage call of a task   *)
(* keeps them there.                                                       *)
RowTypes ==
    /\ status \in Active \union Terminal \union {"none"}
    /\ analysisState \in States
    /\ completedAt \in BOOLEAN /\ childRows \in BOOLEAN

(* An update of the row with values in range (storage.update_status).      *)
LEMMA UpdateTypes ==
    ASSUME RowTypes, NEW s \in Active \union Terminal, NEW state \in States,
           UpdateStatus(s, state)
    PROVE  RowTypes'
BY DEF UpdateStatus, RowTypes

(* Every storage call of the pipeline keeps the row in range.              *)
LEMMA WriteTypes ==
    ASSUME RowTypes, NEW t \in Tasks, Write(t)
    PROVE  RowTypes'
<1>1. CASE \E s \in Active \union Terminal, state \in States : UpdateStatus(s, state)
    BY <1>1, UpdateTypes
<1>2. CASE InsertChildRows
    BY <1>2 DEF InsertChildRows, RowTypes
<1> QED BY <1>1, <1>2 DEF Write, RowTypes, IngestState, States, Active, Terminal

(* create_task and the registration keep the task variables in range.      *)
LEMMA SpawnTypes ==
    ASSUME TypeOK, NEW state, NEW s, Spawn(state, s)
    PROVE  /\ pc' \in [Tasks -> Labels] /\ ingestOnly' \subseteq Tasks
           /\ cancelled' \subseteq Tasks /\ jobTask' \in Tasks
BY DEF TypeOK, Spawn, StartPc, Labels

(* The restart counter stays below its bound.                              *)
LEMMA RestartsStep ==
    ASSUME TypeOK, [Next]_vars
    PROVE  RestartsBounded'
<1>1. CASE Restart
    BY <1>1, MaxRestartsAssumption DEF Restart, RestartsBounded, TypeOK
<1>2. CASE restarts' = restarts
    BY <1>2 DEF RestartsBounded, TypeOK
<1>3. Next => Restart \/ restarts' = restarts
    BY DEF Next, NotTask, NotAbort, CreateSave, CreateSpawn,
        AnalyzeRead, AnalyzeStep, AnalyzeClaim, AnalyzeSave, AnalyzeSpawn, AnalyzeFails,
        AnalyzeRelease, TaskStep, RecordUsage, SetWaiting, PreFetch, FailPreFetch,
        SetRunning, Fetch, IngestEntries, IngestDone, SetRunningAI, Analyzed, FailAnalysis,
        SaveHistory, SaveEntries, SaveFinal, Reveal, Raise, HandleError, Cancelled, Cleanup,
        DoneCallback, AbortRead, AbortStep, AbortCancel, AbortNoTask, AbortWaited,
        AbortTimeout, AbortCopy, AbortRecheck, AbortWrite, Delete, ResumeStep, ResumeFails,
        ResumeRecheck, ResumeSpawn
<1> QED BY <1>1, <1>2, <1>3 DEF vars

(* Deleting the row leaves every variable but the row as it is.            *)
LEMMA DeleteTypes ==
    ASSUME TypeOK, Delete
    PROVE  TypeOK'
<1>1. RowTypes'
    BY DEF Delete, RowTypes, States
<1>2. /\ UNCHANGED <<pc, ingestOnly, cancelled, jobTask, creator, createdState, analyze>>
      /\ UNCHANGED <<previousStatus, abort, abortTask, abortState, resume, restarts, raced>>
    BY DEF Delete, taskVars, createVars, analyzeVars, abortVars
<1> QED BY <1>1, <1>2 DEF TypeOK, RowTypes, RestartsBounded

(* Every step preserves the type invariant.                                *)
LEMMA TypeStep ==
    ASSUME TypeOK, [Next]_vars
    PROVE  TypeOK'
<1>0. RestartsBounded'
    BY RestartsStep
<1> USE <1>0 DEF TypeOK, States, Active
<1> USE DEF dbVars, createVars, analyzeVars, abortVars, taskVars
<1>1. CASE CreateSave BY <1>1 DEF CreateSave, SaveResult
<1>2. CASE CreateSpawn BY <1>2, SpawnTypes DEF CreateSpawn
<1>3. ASSUME NEW r \in Analyzers, AnalyzeRead(r) \/ AnalyzeStep(r) PROVE TypeOK'
  <2>1. CASE AnalyzeRead(r) BY <2>1 DEF AnalyzeRead, Terminal
  <2>2. CASE AnalyzeClaim(r) BY <2>2 DEF AnalyzeClaim, AnalyzeEnds, Terminal
  <2>3. CASE AnalyzeSave(r) BY <2>3 DEF AnalyzeSave, SaveResult
  <2>4. CASE AnalyzeSpawn(r) BY <2>4, SpawnTypes DEF AnalyzeSpawn, AnalyzeEnds, Terminal
  <2>5. CASE AnalyzeFails(r) BY <2>5 DEF AnalyzeFails
  <2>6. CASE AnalyzeRelease(r) BY <2>6 DEF AnalyzeRelease, AnalyzeEnds, Terminal
  <2> QED BY <1>3, <2>1, <2>2, <2>3, <2>4, <2>5, <2>6 DEF AnalyzeStep
<1>4. ASSUME NEW t \in Tasks, TaskStep(t) \/ RecordUsage(t) PROVE TypeOK'
  <2>0. Write(t) => RowTypes'
    BY WriteTypes DEF RowTypes
  <2> USE <2>0 DEF Goto, NotTask, RowTypes, Labels, PastWriting
  <2>1. CASE SetWaiting(t) BY <2>1 DEF SetWaiting
  <2>2. CASE PreFetch(t) BY <2>2 DEF PreFetch
  <2>3. CASE FailPreFetch(t) BY <2>3 DEF FailPreFetch
  <2>4. CASE SetRunning(t) BY <2>4 DEF SetRunning
  <2>5. CASE Fetch(t) BY <2>5 DEF Fetch
  <2>6. CASE IngestEntries(t) BY <2>6 DEF IngestEntries
  <2>7. CASE IngestDone(t) BY <2>7 DEF IngestDone
  <2>8. CASE SetRunningAI(t) BY <2>8 DEF SetRunningAI
  <2>9. CASE Analyzed(t) BY <2>9 DEF Analyzed
  <2>10. CASE FailAnalysis(t) BY <2>10 DEF FailAnalysis
  <2>11. CASE SaveHistory(t) BY <2>11 DEF SaveHistory
  <2>12. CASE SaveEntries(t) BY <2>12 DEF SaveEntries
  <2>13. CASE SaveFinal(t) BY <2>13 DEF SaveFinal
  <2>14. CASE Reveal(t) BY <2>14 DEF Reveal
  <2>15. CASE Raise(t) BY <2>15 DEF Raise
  <2>16. CASE HandleError(t) BY <2>16 DEF HandleError
  <2>17. CASE Cancelled(t) BY <2>17 DEF Cancelled
  <2>18. CASE Cleanup(t) BY <2>18 DEF Cleanup
  <2>19. CASE DoneCallback(t) BY <2>19 DEF DoneCallback
  <2>20. CASE RecordUsage(t) BY <2>20 DEF RecordUsage
  <2> QED BY <1>4, <2>1, <2>2, <2>3, <2>4, <2>5, <2>6, <2>7, <2>8, <2>9, <2>10, <2>11, <2>12,
            <2>13, <2>14, <2>15, <2>16, <2>17, <2>18, <2>19, <2>20 DEF TaskStep
<1>5. CASE AbortRead \/ AbortStep
  <2> USE DEF NotAbort
  <2>1. CASE AbortRead BY <2>1 DEF AbortRead
  <2>2. CASE AbortCancel BY <2>2, WriteTypes DEF AbortCancel, RowTypes
  <2>3. CASE AbortNoTask BY <2>3 DEF AbortNoTask
  <2>4. CASE AbortWaited BY <2>4 DEF AbortWaited
  <2>5. CASE AbortTimeout BY <2>5 DEF AbortTimeout
  <2>6. CASE AbortCopy BY <2>6 DEF AbortCopy
  <2>7. CASE AbortRecheck BY <2>7 DEF AbortRecheck
  <2>8. CASE AbortWrite BY <2>8 DEF AbortWrite, UpdateStatus, Terminal
  <2> QED BY <1>5, <2>1, <2>2, <2>3, <2>4, <2>5, <2>6, <2>7, <2>8 DEF AbortStep
<1>6. CASE Delete BY <1>6, DeleteTypes
<1>7. CASE Restart BY <1>7 DEF Restart, MarkStale, Orphan, Labels, PastWriting, Terminal
<1>8. CASE ResumeStep
  <2>1. CASE ResumeFails BY <2>1 DEF ResumeFails, UpdateStatus, Terminal
  <2>2. CASE ResumeRecheck BY <2>2 DEF ResumeRecheck
  <2>3. CASE ResumeSpawn BY <2>3, SpawnTypes DEF ResumeSpawn
  <2> QED BY <1>8, <2>1, <2>2, <2>3 DEF ResumeStep
<1>9. CASE UNCHANGED vars BY <1>9 DEF vars
<1> QED BY <1>1, <1>2, <1>3, <1>4, <1>5, <1>6, <1>7, <1>8, <1>9 DEF Next

(* Every variable stays in its range.                                      *)
THEOREM TypeCorrect == Spec => []TypeOK
<1>1. Init => TypeOK
  <2>1. Init => RestartsBounded
    BY MaxRestartsAssumption DEF Init, RestartsBounded
  <2> QED BY <2>1 DEF Init, TypeOK, Labels, PastWriting, States, Active, Terminal
<1>2. TypeOK /\ [Next]_vars => TypeOK'
    BY TypeStep
<1> QED BY <1>1, <1>2, PTL DEF Spec

----------------------------------------------------------------------------
(* The inductive invariant, part by part.                                  *)

(* Whoever ends an active job hands it over before leaving.                *)
LEMMA OwnedStep ==
    ASSUME TypeOK, ActiveOwned, [Next]_vars
    PROVE  ActiveOwned'
<1> USE DEF ActiveOwned, OwnedBy, Working, Creating, Resuming, Active
<1> USE DEF dbVars, createVars, analyzeVars, abortVars, taskVars
<1>1. CASE CreateSave BY <1>1 DEF CreateSave, SaveResult
<1>2. CASE CreateSpawn BY <1>2 DEF CreateSpawn, Spawn, StartPc, TypeOK, PastWriting
<1>3. ASSUME NEW r \in Analyzers, AnalyzeRead(r) \/ AnalyzeStep(r) PROVE ActiveOwned'
  <2>1. CASE AnalyzeRead(r) BY <2>1 DEF AnalyzeRead, Terminal, TypeOK
  <2>2. CASE AnalyzeClaim(r) BY <2>2 DEF AnalyzeClaim, AnalyzeEnds, Terminal, TypeOK
  <2>3. CASE AnalyzeSave(r) BY <2>3 DEF AnalyzeSave, SaveResult, TypeOK
  <2>4. CASE AnalyzeSpawn(r) BY <2>4 DEF AnalyzeSpawn, AnalyzeEnds, Spawn, StartPc, TypeOK, PastWriting
  <2>5. CASE AnalyzeFails(r) BY <2>5 DEF AnalyzeFails, TypeOK
  <2>6. CASE AnalyzeRelease(r) BY <2>6 DEF AnalyzeRelease, AnalyzeEnds, Terminal, TypeOK
  <2> QED BY <1>3, <2>1, <2>2, <2>3, <2>4, <2>5, <2>6 DEF AnalyzeStep
<1>4. ASSUME NEW t \in Tasks, TaskStep(t) \/ RecordUsage(t) PROVE ActiveOwned'
  <2> USE DEF At, Goto, NotTask, Write, UpdateStatus, InsertChildRows, PastWriting, TypeOK
  <2>1. CASE SetWaiting(t) BY <2>1 DEF SetWaiting
  <2>2. CASE PreFetch(t) BY <2>2 DEF PreFetch
  <2>3. CASE FailPreFetch(t) BY <2>3 DEF FailPreFetch
  <2>4. CASE SetRunning(t) BY <2>4 DEF SetRunning
  <2>5. CASE Fetch(t) BY <2>5 DEF Fetch
  <2>6. CASE IngestEntries(t) BY <2>6 DEF IngestEntries
  <2>7. CASE IngestDone(t) BY <2>7 DEF IngestDone
  <2>8. CASE SetRunningAI(t) BY <2>8 DEF SetRunningAI
  <2>9. CASE Analyzed(t) BY <2>9 DEF Analyzed
  <2>10. CASE FailAnalysis(t) BY <2>10 DEF FailAnalysis
  <2>11. CASE SaveHistory(t) BY <2>11 DEF SaveHistory
  <2>12. CASE SaveEntries(t) BY <2>12 DEF SaveEntries
  <2>13. CASE SaveFinal(t) BY <2>13 DEF SaveFinal
  <2>14. CASE Reveal(t) BY <2>14 DEF Reveal
  <2>15. CASE Raise(t) BY <2>15 DEF Raise
  <2>16. CASE HandleError(t) BY <2>16 DEF HandleError
  <2>17. CASE Cancelled(t) BY <2>17 DEF Cancelled
  <2>18. CASE Cleanup(t) BY <2>18 DEF Cleanup
  <2>19. CASE DoneCallback(t) BY <2>19 DEF DoneCallback
  <2>20. CASE RecordUsage(t) BY <2>20 DEF RecordUsage
  <2> QED BY <1>4, <2>1, <2>2, <2>3, <2>4, <2>5, <2>6, <2>7, <2>8, <2>9, <2>10, <2>11, <2>12,
            <2>13, <2>14, <2>15, <2>16, <2>17, <2>18, <2>19, <2>20 DEF TaskStep
<1>5. CASE AbortRead \/ AbortStep
  <2> USE DEF NotAbort
  <2>1. CASE AbortRead BY <2>1 DEF AbortRead
  <2>2. CASE AbortCancel BY <2>2 DEF AbortCancel
  <2>3. CASE AbortNoTask BY <2>3 DEF AbortNoTask
  <2>4. CASE AbortWaited BY <2>4 DEF AbortWaited
  <2>5. CASE AbortTimeout BY <2>5 DEF AbortTimeout
  <2>6. CASE AbortCopy BY <2>6 DEF AbortCopy
  <2>7. CASE AbortRecheck BY <2>7 DEF AbortRecheck
  <2>8. CASE AbortWrite BY <2>8 DEF AbortWrite, UpdateStatus
  <2> QED BY <1>5, <2>1, <2>2, <2>3, <2>4, <2>5, <2>6, <2>7, <2>8 DEF AbortStep
<1>6. CASE Delete BY <1>6 DEF Delete
<1>7. CASE Restart BY <1>7 DEF Restart, MarkStale, Orphan
<1>8. CASE ResumeStep
  <2>1. CASE ResumeFails BY <2>1 DEF ResumeFails, UpdateStatus
  <2>2. CASE ResumeRecheck BY <2>2 DEF ResumeRecheck, Terminal
  <2>3. CASE ResumeSpawn BY <2>3 DEF ResumeSpawn, Spawn, StartPc, PastWriting, TypeOK
  <2> QED BY <1>8, <2>1, <2>2, <2>3 DEF ResumeStep
<1>9. CASE UNCHANGED vars BY <1>9 DEF vars
<1> QED BY <1>1, <1>2, <1>3, <1>4, <1>5, <1>6, <1>7, <1>8, <1>9 DEF Next

(* Before the job exists nothing else can happen.                          *)
LEMMA NewStep ==
    ASSUME TypeOK, NewIsQuiet, [Next]_vars
    PROVE  NewIsQuiet'
<1> USE DEF TypeOK, NewIsQuiet, Busy, Working, Creating, Resuming, Claimed, PastWriting,
        Active, Terminal
<1> USE DEF dbVars, createVars, analyzeVars, abortVars, taskVars
<1>1. CASE CreateSave BY <1>1 DEF CreateSave, SaveResult
<1>2. CASE CreateSpawn BY <1>2 DEF CreateSpawn, Spawn, StartPc
<1>3. ASSUME NEW r \in Analyzers, AnalyzeRead(r) \/ AnalyzeStep(r) PROVE NewIsQuiet'
  <2>1. CASE AnalyzeRead(r) BY <2>1 DEF AnalyzeRead
  <2>2. CASE AnalyzeClaim(r) BY <2>2 DEF AnalyzeClaim, AnalyzeEnds
  <2>3. CASE AnalyzeSave(r) BY <2>3 DEF AnalyzeSave, SaveResult
  <2>4. CASE AnalyzeSpawn(r) BY <2>4 DEF AnalyzeSpawn, AnalyzeEnds, Spawn, StartPc
  <2>5. CASE AnalyzeFails(r) BY <2>5 DEF AnalyzeFails
  <2>6. CASE AnalyzeRelease(r) BY <2>6 DEF AnalyzeRelease, AnalyzeEnds
  <2> QED BY <1>3, <2>1, <2>2, <2>3, <2>4, <2>5, <2>6 DEF AnalyzeStep
<1>4. ASSUME NEW t \in Tasks, TaskStep(t) \/ RecordUsage(t) PROVE NewIsQuiet'
  <2> USE DEF At, Goto, NotTask, Write, UpdateStatus, InsertChildRows
  <2>1. CASE SetWaiting(t) BY <2>1 DEF SetWaiting
  <2>2. CASE PreFetch(t) BY <2>2 DEF PreFetch
  <2>3. CASE FailPreFetch(t) BY <2>3 DEF FailPreFetch
  <2>4. CASE SetRunning(t) BY <2>4 DEF SetRunning
  <2>5. CASE Fetch(t) BY <2>5 DEF Fetch
  <2>6. CASE IngestEntries(t) BY <2>6 DEF IngestEntries
  <2>7. CASE IngestDone(t) BY <2>7 DEF IngestDone
  <2>8. CASE SetRunningAI(t) BY <2>8 DEF SetRunningAI
  <2>9. CASE Analyzed(t) BY <2>9 DEF Analyzed
  <2>10. CASE FailAnalysis(t) BY <2>10 DEF FailAnalysis
  <2>11. CASE SaveHistory(t) BY <2>11 DEF SaveHistory
  <2>12. CASE SaveEntries(t) BY <2>12 DEF SaveEntries
  <2>13. CASE SaveFinal(t) BY <2>13 DEF SaveFinal
  <2>14. CASE Reveal(t) BY <2>14 DEF Reveal
  <2>15. CASE Raise(t) BY <2>15 DEF Raise
  <2>16. CASE HandleError(t) BY <2>16 DEF HandleError
  <2>17. CASE Cancelled(t) BY <2>17 DEF Cancelled
  <2>18. CASE Cleanup(t) BY <2>18 DEF Cleanup
  <2>19. CASE DoneCallback(t) BY <2>19 DEF DoneCallback
  <2>20. CASE RecordUsage(t) BY <2>20 DEF RecordUsage
  <2> QED BY <1>4, <2>1, <2>2, <2>3, <2>4, <2>5, <2>6, <2>7, <2>8, <2>9, <2>10, <2>11, <2>12,
            <2>13, <2>14, <2>15, <2>16, <2>17, <2>18, <2>19, <2>20 DEF TaskStep
<1>5. CASE AbortRead \/ AbortStep
  <2> USE DEF NotAbort
  <2>1. CASE AbortRead BY <2>1 DEF AbortRead
  <2>2. CASE AbortCancel BY <2>2 DEF AbortCancel, Write, UpdateStatus, InsertChildRows
  <2>3. CASE AbortNoTask BY <2>3 DEF AbortNoTask
  <2>4. CASE AbortWaited BY <2>4 DEF AbortWaited
  <2>5. CASE AbortTimeout BY <2>5 DEF AbortTimeout
  <2>6. CASE AbortCopy BY <2>6 DEF AbortCopy
  <2>7. CASE AbortRecheck BY <2>7 DEF AbortRecheck
  <2>8. CASE AbortWrite BY <2>8 DEF AbortWrite, UpdateStatus
  <2> QED BY <1>5, <2>1, <2>2, <2>3, <2>4, <2>5, <2>6, <2>7, <2>8 DEF AbortStep
<1>6. CASE Delete BY <1>6 DEF Delete
<1>7. CASE Restart BY <1>7 DEF Restart, MarkStale, Orphan
<1>8. CASE ResumeStep
  <2>1. CASE ResumeFails BY <2>1 DEF ResumeFails, UpdateStatus
  <2>2. CASE ResumeRecheck BY <2>2 DEF ResumeRecheck
  <2>3. CASE ResumeSpawn BY <2>3 DEF ResumeSpawn, Spawn, StartPc
  <2> QED BY <1>8, <2>1, <2>2, <2>3 DEF ResumeStep
<1>9. CASE UNCHANGED vars BY <1>9 DEF vars
<1> QED BY <1>1, <1>2, <1>3, <1>4, <1>5, <1>6, <1>7, <1>8, <1>9 DEF Next

(* A task created for ingest only never reaches the AI stages.             *)
LEMMA IngestStep ==
    ASSUME TypeOK, IngestStaysOut, [Next]_vars
    PROVE  IngestStaysOut'
<1> USE DEF TypeOK, IngestStaysOut, AILabels
<1> USE DEF dbVars, createVars, analyzeVars, abortVars, taskVars
<1>1. CASE CreateSave BY <1>1 DEF CreateSave, SaveResult
<1>2. CASE CreateSpawn BY <1>2 DEF CreateSpawn, Spawn, StartPc
<1>3. ASSUME NEW r \in Analyzers, AnalyzeRead(r) \/ AnalyzeStep(r) PROVE IngestStaysOut'
  <2>1. CASE AnalyzeRead(r) BY <2>1 DEF AnalyzeRead
  <2>2. CASE AnalyzeClaim(r) BY <2>2 DEF AnalyzeClaim, AnalyzeEnds
  <2>3. CASE AnalyzeSave(r) BY <2>3 DEF AnalyzeSave, SaveResult
  <2>4. CASE AnalyzeSpawn(r) BY <2>4 DEF AnalyzeSpawn, AnalyzeEnds, Spawn, StartPc
  <2>5. CASE AnalyzeFails(r) BY <2>5 DEF AnalyzeFails
  <2>6. CASE AnalyzeRelease(r) BY <2>6 DEF AnalyzeRelease, AnalyzeEnds
  <2> QED BY <1>3, <2>1, <2>2, <2>3, <2>4, <2>5, <2>6 DEF AnalyzeStep
<1>4. ASSUME NEW t \in Tasks, TaskStep(t) \/ RecordUsage(t) PROVE IngestStaysOut'
  <2> USE DEF At, Goto, NotTask, Write, UpdateStatus, InsertChildRows, Working, PastWriting
  <2>1. CASE SetWaiting(t) BY <2>1 DEF SetWaiting
  <2>2. CASE PreFetch(t) BY <2>2 DEF PreFetch
  <2>3. CASE FailPreFetch(t) BY <2>3 DEF FailPreFetch
  <2>4. CASE SetRunning(t) BY <2>4 DEF SetRunning
  <2>5. CASE Fetch(t) BY <2>5 DEF Fetch
  <2>6. CASE IngestEntries(t) BY <2>6 DEF IngestEntries
  <2>7. CASE IngestDone(t) BY <2>7 DEF IngestDone
  <2>8. CASE SetRunningAI(t) BY <2>8 DEF SetRunningAI
  <2>9. CASE Analyzed(t) BY <2>9 DEF Analyzed
  <2>10. CASE FailAnalysis(t) BY <2>10 DEF FailAnalysis
  <2>11. CASE SaveHistory(t) BY <2>11 DEF SaveHistory
  <2>12. CASE SaveEntries(t) BY <2>12 DEF SaveEntries
  <2>13. CASE SaveFinal(t) BY <2>13 DEF SaveFinal
  <2>14. CASE Reveal(t) BY <2>14 DEF Reveal
  <2>15. CASE Raise(t) BY <2>15 DEF Raise
  <2>16. CASE HandleError(t) BY <2>16 DEF HandleError
  <2>17. CASE Cancelled(t) BY <2>17 DEF Cancelled
  <2>18. CASE Cleanup(t) BY <2>18 DEF Cleanup
  <2>19. CASE DoneCallback(t) BY <2>19 DEF DoneCallback
  <2>20. CASE RecordUsage(t) BY <2>20 DEF RecordUsage
  <2> QED BY <1>4, <2>1, <2>2, <2>3, <2>4, <2>5, <2>6, <2>7, <2>8, <2>9, <2>10, <2>11, <2>12,
            <2>13, <2>14, <2>15, <2>16, <2>17, <2>18, <2>19, <2>20 DEF TaskStep
<1>5. CASE AbortRead \/ AbortStep
  <2> USE DEF NotAbort
  <2>1. CASE AbortRead BY <2>1 DEF AbortRead
  <2>2. CASE AbortCancel BY <2>2 DEF AbortCancel
  <2>3. CASE AbortNoTask BY <2>3 DEF AbortNoTask
  <2>4. CASE AbortWaited BY <2>4 DEF AbortWaited
  <2>5. CASE AbortTimeout BY <2>5 DEF AbortTimeout
  <2>6. CASE AbortCopy BY <2>6 DEF AbortCopy
  <2>7. CASE AbortRecheck BY <2>7 DEF AbortRecheck
  <2>8. CASE AbortWrite BY <2>8 DEF AbortWrite, UpdateStatus
  <2> QED BY <1>5, <2>1, <2>2, <2>3, <2>4, <2>5, <2>6, <2>7, <2>8 DEF AbortStep
<1>6. CASE Delete BY <1>6 DEF Delete
<1>7. CASE Restart BY <1>7 DEF Restart, MarkStale, Orphan
<1>8. CASE ResumeStep
  <2>1. CASE ResumeFails BY <2>1 DEF ResumeFails, UpdateStatus
  <2>2. CASE ResumeRecheck BY <2>2 DEF ResumeRecheck
  <2>3. CASE ResumeSpawn BY <2>3 DEF ResumeSpawn, Spawn, StartPc
  <2> QED BY <1>8, <2>1, <2>2, <2>3 DEF ResumeStep
<1>9. CASE UNCHANGED vars BY <1>9 DEF vars
<1> QED BY <1>1, <1>2, <1>3, <1>4, <1>5, <1>6, <1>7, <1>8, <1>9 DEF Next

(* As long as no abort raced, one party at a time works on the job.        *)
LEMMA UnracedStep ==
    ASSUME Inv, [Next]_vars
    PROVE  Unraced'
<1> USE DEF Inv, TypeOK, NewIsQuiet, IngestStaysOut, AILabels, Unraced, OneAnalysisAtATime,
        FinishedJobIsQuiet, FinishedAnalyzed, RevealAfterOutcome, ClaimShows,
        IngestSubmitted, AbortCopyStale, Busy, Working, Creating, Resuming, Claimed,
        PastWriting, Active, Terminal, States
<1> USE DEF dbVars, createVars, analyzeVars, abortVars, taskVars
<1>1. CASE CreateSave BY <1>1 DEF CreateSave, SaveResult
<1>2. CASE CreateSpawn BY <1>2 DEF CreateSpawn, Spawn, StartPc
<1>3. ASSUME NEW r \in Analyzers, AnalyzeRead(r) \/ AnalyzeStep(r) PROVE Unraced'
  <2>1. CASE AnalyzeRead(r) BY <2>1 DEF AnalyzeRead
  <2>2. CASE AnalyzeClaim(r) BY <2>2 DEF AnalyzeClaim, AnalyzeEnds
  <2>3. CASE AnalyzeSave(r) BY <2>3 DEF AnalyzeSave, SaveResult
  <2>4. CASE AnalyzeSpawn(r) BY <2>4 DEF AnalyzeSpawn, AnalyzeEnds, Spawn, StartPc
  <2>5. CASE AnalyzeFails(r) BY <2>5 DEF AnalyzeFails
  <2>6. CASE AnalyzeRelease(r) BY <2>6 DEF AnalyzeRelease, AnalyzeEnds
  <2> QED BY <1>3, <2>1, <2>2, <2>3, <2>4, <2>5, <2>6 DEF AnalyzeStep
<1>4. ASSUME NEW t \in Tasks, TaskStep(t) \/ RecordUsage(t) PROVE Unraced'
  <2> USE DEF At, Goto, NotTask, Write, UpdateStatus, InsertChildRows, IngestState
  <2>1. CASE SetWaiting(t) BY <2>1 DEF SetWaiting
  <2>2. CASE PreFetch(t) BY <2>2 DEF PreFetch
  <2>3. CASE FailPreFetch(t) BY <2>3 DEF FailPreFetch
  <2>4. CASE SetRunning(t) BY <2>4 DEF SetRunning
  <2>5. CASE Fetch(t) BY <2>5 DEF Fetch
  <2>6. CASE IngestEntries(t) BY <2>6 DEF IngestEntries
  <2>7. CASE IngestDone(t) BY <2>7 DEF IngestDone
  <2>8. CASE SetRunningAI(t) BY <2>8 DEF SetRunningAI
  <2>9. CASE Analyzed(t) BY <2>9 DEF Analyzed
  <2>10. CASE FailAnalysis(t) BY <2>10 DEF FailAnalysis
  <2>11. CASE SaveHistory(t) BY <2>11 DEF SaveHistory
  <2>12. CASE SaveEntries(t) BY <2>12 DEF SaveEntries
  <2>13. CASE SaveFinal(t) BY <2>13 DEF SaveFinal
  <2>14. CASE Reveal(t) BY <2>14 DEF Reveal
  <2>15. CASE Raise(t) BY <2>15 DEF Raise
  <2>16. CASE HandleError(t) BY <2>16 DEF HandleError
  <2>17. CASE Cancelled(t) BY <2>17 DEF Cancelled
  <2>18. CASE Cleanup(t) BY <2>18 DEF Cleanup
  <2>19. CASE DoneCallback(t) BY <2>19 DEF DoneCallback
  <2>20. CASE RecordUsage(t) BY <2>20 DEF RecordUsage
  <2> QED BY <1>4, <2>1, <2>2, <2>3, <2>4, <2>5, <2>6, <2>7, <2>8, <2>9, <2>10, <2>11, <2>12,
            <2>13, <2>14, <2>15, <2>16, <2>17, <2>18, <2>19, <2>20 DEF TaskStep
<1>5. CASE AbortRead \/ AbortStep
  <2> USE DEF NotAbort
  <2>1. CASE AbortRead BY <2>1 DEF AbortRead
  <2>2. CASE AbortCancel BY <2>2 DEF AbortCancel, Write, UpdateStatus, InsertChildRows, IngestState
  <2>3. CASE AbortNoTask BY <2>3 DEF AbortNoTask
  <2>4. CASE AbortWaited BY <2>4 DEF AbortWaited
  <2>5. CASE AbortTimeout BY <2>5 DEF AbortTimeout
  <2>6. CASE AbortCopy BY <2>6 DEF AbortCopy
  <2>7. CASE AbortRecheck BY <2>7 DEF AbortRecheck
  <2>8. CASE AbortWrite BY <2>8 DEF AbortWrite, UpdateStatus
  <2> QED BY <1>5, <2>1, <2>2, <2>3, <2>4, <2>5, <2>6, <2>7, <2>8 DEF AbortStep
<1>6. CASE Delete BY <1>6 DEF Delete
<1>7. CASE Restart BY <1>7 DEF Restart, MarkStale, Orphan
<1>8. CASE ResumeStep
  <2>1. CASE ResumeFails BY <2>1 DEF ResumeFails, UpdateStatus
  <2>2. CASE ResumeRecheck BY <2>2 DEF ResumeRecheck
  <2>3. CASE ResumeSpawn BY <2>3 DEF ResumeSpawn, Spawn, StartPc
  <2> QED BY <1>8, <2>1, <2>2, <2>3 DEF ResumeStep
<1>9. CASE UNCHANGED vars BY <1>9 DEF vars
<1> QED BY <1>1, <1>2, <1>3, <1>4, <1>5, <1>6, <1>7, <1>8, <1>9 DEF Next

(* The invariant holds at first and no step breaks it.                     *)
THEOREM Invariance == Spec => []Inv
<1>1. Init => ActiveOwned /\ NewIsQuiet /\ IngestStaysOut
    BY DEF Init, ActiveOwned, NewIsQuiet, IngestStaysOut, Active, Busy, Creating, Resuming,
        Working, Claimed, PastWriting
<1>2. Init => Unraced
    BY DEF Init, Unraced, OneAnalysisAtATime, FinishedJobIsQuiet, FinishedAnalyzed,
        RevealAfterOutcome, ClaimShows, IngestSubmitted, AbortCopyStale, Busy, Creating,
        Resuming, Working, Claimed, PastWriting, Terminal
<1>3. TypeOK /\ Inv /\ [Next]_vars => Inv'
    BY TypeStep, OwnedStep, NewStep, IngestStep, UnracedStep DEF Inv
<1>4. Spec => []TypeOK
    BY TypeCorrect
<1>5. Init /\ TypeOK => Inv
    BY <1>1, <1>2 DEF Inv
<1> QED BY <1>3, <1>4, <1>5, PTL DEF Spec

(* No interleaving of failures, aborts, claims, releases and restarts      *)
(* leaves an active, never finished job without somebody to end it.        *)
THEOREM JobIsOwned == Spec => []ActiveJobIsOwned
<1>1. Inv => ActiveJobIsOwned
    BY DEF Inv, ActiveOwned, OwnedBy, ActiveJobIsOwned, Owned, Claimed
<1> QED BY <1>1, Invariance, PTL

(* However the requests interleave, one party at a time works on the job.  *)
THEOREM OneAtATime == Spec => []OneAnalysisAtATime
<1>1. Inv => OneAnalysisAtATime
    BY DEF Inv, Unraced, OneAnalysisAtATime
<1> QED BY <1>1, Invariance, PTL

(* Nobody works on a job that has its outcome.                             *)
THEOREM FinishedIsQuiet == Spec => []FinishedJobIsQuiet
<1>1. Inv => FinishedJobIsQuiet
    BY DEF Inv, Unraced, FinishedJobIsQuiet
<1> QED BY <1>1, Invariance, PTL

----------------------------------------------------------------------------
(* What a step may never do.                                               *)

(* No step takes an analyzed row back to submitted.                        *)
LEMMA AnalyzedStep ==
    ASSUME Inv, [Next]_vars, ~raced', analysisState = "analyzed", status # "none",
           status' # "none"
    PROVE  analysisState' = "analyzed"
<1> USE DEF Inv, TypeOK, Unraced, NewIsQuiet, ClaimShows, IngestSubmitted,
        AbortCopyStale, Busy, Working, Creating, Resuming, Claimed, PastWriting, Active,
        Terminal, States
<1> USE DEF dbVars, createVars, analyzeVars, abortVars, taskVars
<1>1. CASE CreateSave BY <1>1 DEF CreateSave, SaveResult
<1>2. CASE CreateSpawn BY <1>2 DEF CreateSpawn, Spawn, StartPc
<1>3. ASSUME NEW r \in Analyzers, AnalyzeRead(r) \/ AnalyzeStep(r) PROVE analysisState' = "analyzed"
  <2>1. CASE AnalyzeRead(r) BY <2>1 DEF AnalyzeRead
  <2>2. CASE AnalyzeClaim(r) BY <2>2 DEF AnalyzeClaim, AnalyzeEnds
  <2>3. CASE AnalyzeSave(r) BY <2>3 DEF AnalyzeSave, SaveResult
  <2>4. CASE AnalyzeSpawn(r) BY <2>4 DEF AnalyzeSpawn, AnalyzeEnds, Spawn, StartPc
  <2>5. CASE AnalyzeFails(r) BY <2>5 DEF AnalyzeFails
  <2>6. CASE AnalyzeRelease(r) BY <2>6 DEF AnalyzeRelease, AnalyzeEnds
  <2> QED BY <1>3, <2>1, <2>2, <2>3, <2>4, <2>5, <2>6 DEF AnalyzeStep
<1>4. ASSUME NEW t \in Tasks, TaskStep(t) \/ RecordUsage(t) PROVE analysisState' = "analyzed"
  <2> USE DEF At, Goto, NotTask, Write, UpdateStatus, InsertChildRows, IngestState
  <2>1. CASE SetWaiting(t) BY <2>1 DEF SetWaiting
  <2>2. CASE PreFetch(t) BY <2>2 DEF PreFetch
  <2>3. CASE FailPreFetch(t) BY <2>3 DEF FailPreFetch
  <2>4. CASE SetRunning(t) BY <2>4 DEF SetRunning
  <2>5. CASE Fetch(t) BY <2>5 DEF Fetch
  <2>6. CASE IngestEntries(t) BY <2>6 DEF IngestEntries
  <2>7. CASE IngestDone(t) BY <2>7 DEF IngestDone
  <2>8. CASE SetRunningAI(t) BY <2>8 DEF SetRunningAI
  <2>9. CASE Analyzed(t) BY <2>9 DEF Analyzed
  <2>10. CASE FailAnalysis(t) BY <2>10 DEF FailAnalysis
  <2>11. CASE SaveHistory(t) BY <2>11 DEF SaveHistory
  <2>12. CASE SaveEntries(t) BY <2>12 DEF SaveEntries
  <2>13. CASE SaveFinal(t) BY <2>13 DEF SaveFinal
  <2>14. CASE Reveal(t) BY <2>14 DEF Reveal
  <2>15. CASE Raise(t) BY <2>15 DEF Raise
  <2>16. CASE HandleError(t) BY <2>16 DEF HandleError
  <2>17. CASE Cancelled(t) BY <2>17 DEF Cancelled
  <2>18. CASE Cleanup(t) BY <2>18 DEF Cleanup
  <2>19. CASE DoneCallback(t) BY <2>19 DEF DoneCallback
  <2>20. CASE RecordUsage(t) BY <2>20 DEF RecordUsage
  <2> QED BY <1>4, <2>1, <2>2, <2>3, <2>4, <2>5, <2>6, <2>7, <2>8, <2>9, <2>10, <2>11, <2>12,
            <2>13, <2>14, <2>15, <2>16, <2>17, <2>18, <2>19, <2>20 DEF TaskStep
<1>5. CASE AbortRead \/ AbortStep
  <2> USE DEF NotAbort
  <2>1. CASE AbortRead BY <2>1 DEF AbortRead
  <2>2. CASE AbortCancel BY <2>2 DEF AbortCancel, Write, UpdateStatus, InsertChildRows, IngestState
  <2>3. CASE AbortNoTask BY <2>3 DEF AbortNoTask
  <2>4. CASE AbortWaited BY <2>4 DEF AbortWaited
  <2>5. CASE AbortTimeout BY <2>5 DEF AbortTimeout
  <2>6. CASE AbortCopy BY <2>6 DEF AbortCopy
  <2>7. CASE AbortRecheck BY <2>7 DEF AbortRecheck
  <2>8. CASE AbortWrite BY <2>8 DEF AbortWrite, UpdateStatus
  <2> QED BY <1>5, <2>1, <2>2, <2>3, <2>4, <2>5, <2>6, <2>7, <2>8 DEF AbortStep
<1>6. CASE Delete BY <1>6 DEF Delete
<1>7. CASE Restart BY <1>7 DEF Restart, MarkStale, Orphan
<1>8. CASE ResumeStep
  <2>1. CASE ResumeFails BY <2>1 DEF ResumeFails, UpdateStatus
  <2>2. CASE ResumeRecheck BY <2>2 DEF ResumeRecheck
  <2>3. CASE ResumeSpawn BY <2>3 DEF ResumeSpawn, Spawn, StartPc
  <2> QED BY <1>8, <2>1, <2>2, <2>3 DEF ResumeStep
<1>9. CASE UNCHANGED vars BY <1>9 DEF vars
<1> QED BY <1>1, <1>2, <1>3, <1>4, <1>5, <1>6, <1>7, <1>8, <1>9 DEF Next

(* No step changes a settled outcome but the error path of the reveal.     *)
LEMMA OutcomeStep ==
    ASSUME Inv, [Next]_vars, ~raced', Settled, status' # "none"
    PROVE  status' = status \/ ErrorHandled
<1> USE DEF Inv, TypeOK, Unraced, NewIsQuiet, FinishedJobIsQuiet, Settled,
        ErrorHandled, ClaimShows, Busy, Working, Creating, Resuming, Claimed, PastWriting,
        Active, Terminal
<1> USE DEF dbVars, createVars, analyzeVars, abortVars, taskVars
<1>1. CASE CreateSave BY <1>1 DEF CreateSave, SaveResult
<1>2. CASE CreateSpawn BY <1>2 DEF CreateSpawn, Spawn, StartPc
<1>3. ASSUME NEW r \in Analyzers, AnalyzeRead(r) \/ AnalyzeStep(r) PROVE status' = status \/ ErrorHandled
  <2>1. CASE AnalyzeRead(r) BY <2>1 DEF AnalyzeRead
  <2>2. CASE AnalyzeClaim(r) BY <2>2 DEF AnalyzeClaim, AnalyzeEnds
  <2>3. CASE AnalyzeSave(r) BY <2>3 DEF AnalyzeSave, SaveResult
  <2>4. CASE AnalyzeSpawn(r) BY <2>4 DEF AnalyzeSpawn, AnalyzeEnds, Spawn, StartPc
  <2>5. CASE AnalyzeFails(r) BY <2>5 DEF AnalyzeFails
  <2>6. CASE AnalyzeRelease(r) BY <2>6 DEF AnalyzeRelease, AnalyzeEnds
  <2> QED BY <1>3, <2>1, <2>2, <2>3, <2>4, <2>5, <2>6 DEF AnalyzeStep
<1>4. ASSUME NEW t \in Tasks, TaskStep(t) \/ RecordUsage(t) PROVE status' = status \/ ErrorHandled
  <2> USE DEF At, Goto, NotTask, Write, UpdateStatus, InsertChildRows, IngestState
  <2>1. CASE SetWaiting(t) BY <2>1 DEF SetWaiting
  <2>2. CASE PreFetch(t) BY <2>2 DEF PreFetch
  <2>3. CASE FailPreFetch(t) BY <2>3 DEF FailPreFetch
  <2>4. CASE SetRunning(t) BY <2>4 DEF SetRunning
  <2>5. CASE Fetch(t) BY <2>5 DEF Fetch
  <2>6. CASE IngestEntries(t) BY <2>6 DEF IngestEntries
  <2>7. CASE IngestDone(t) BY <2>7 DEF IngestDone
  <2>8. CASE SetRunningAI(t) BY <2>8 DEF SetRunningAI
  <2>9. CASE Analyzed(t) BY <2>9 DEF Analyzed
  <2>10. CASE FailAnalysis(t) BY <2>10 DEF FailAnalysis
  <2>11. CASE SaveHistory(t) BY <2>11 DEF SaveHistory
  <2>12. CASE SaveEntries(t) BY <2>12 DEF SaveEntries
  <2>13. CASE SaveFinal(t) BY <2>13 DEF SaveFinal
  <2>14. CASE Reveal(t) BY <2>14 DEF Reveal
  <2>15. CASE Raise(t) BY <2>15 DEF Raise
  <2>16. CASE HandleError(t) BY <2>16 DEF HandleError
  <2>17. CASE Cancelled(t) BY <2>17 DEF Cancelled
  <2>18. CASE Cleanup(t) BY <2>18 DEF Cleanup
  <2>19. CASE DoneCallback(t) BY <2>19 DEF DoneCallback
  <2>20. CASE RecordUsage(t) BY <2>20 DEF RecordUsage
  <2> QED BY <1>4, <2>1, <2>2, <2>3, <2>4, <2>5, <2>6, <2>7, <2>8, <2>9, <2>10, <2>11, <2>12,
            <2>13, <2>14, <2>15, <2>16, <2>17, <2>18, <2>19, <2>20 DEF TaskStep
<1>5. CASE AbortRead \/ AbortStep
  <2> USE DEF NotAbort
  <2>1. CASE AbortRead BY <2>1 DEF AbortRead
  <2>2. CASE AbortCancel BY <2>2 DEF AbortCancel, Write, UpdateStatus, InsertChildRows, IngestState
  <2>3. CASE AbortNoTask BY <2>3 DEF AbortNoTask
  <2>4. CASE AbortWaited BY <2>4 DEF AbortWaited
  <2>5. CASE AbortTimeout BY <2>5 DEF AbortTimeout
  <2>6. CASE AbortCopy BY <2>6 DEF AbortCopy
  <2>7. CASE AbortRecheck BY <2>7 DEF AbortRecheck
  <2>8. CASE AbortWrite BY <2>8 DEF AbortWrite, UpdateStatus
  <2> QED BY <1>5, <2>1, <2>2, <2>3, <2>4, <2>5, <2>6, <2>7, <2>8 DEF AbortStep
<1>6. CASE Delete BY <1>6 DEF Delete
<1>7. CASE Restart BY <1>7 DEF Restart, MarkStale, Orphan
<1>8. CASE ResumeStep
  <2>1. CASE ResumeFails BY <2>1 DEF ResumeFails, UpdateStatus
  <2>2. CASE ResumeRecheck BY <2>2 DEF ResumeRecheck
  <2>3. CASE ResumeSpawn BY <2>3 DEF ResumeSpawn, Spawn, StartPc
  <2> QED BY <1>8, <2>1, <2>2, <2>3 DEF ResumeStep
<1>9. CASE UNCHANGED vars BY <1>9 DEF vars
<1> QED BY <1>1, <1>2, <1>3, <1>4, <1>5, <1>6, <1>7, <1>8, <1>9 DEF Next

(* An analyzed job never becomes claimable again.                          *)
THEOREM AnalyzedIsKept == Spec => AnalyzedStaysAnalyzed
<1>1. Inv /\ [Next]_vars =>
        [analysisState = "analyzed" /\ status # "none" /\ status' # "none" /\ ~raced'
            => analysisState' = "analyzed"]_vars
    BY AnalyzedStep
<1> QED BY <1>1, Invariance, PTL DEF Spec, AnalyzedStaysAnalyzed

(* The outcome of an analyzed job is neither overwritten nor reopened.     *)
THEOREM OutcomeIsKept == Spec => OutcomeIsFinal
<1>1. Inv /\ [Next]_vars =>
        [Settled /\ status' # "none" /\ ~raced' => status' = status \/ ErrorHandled]_vars
    BY OutcomeStep
<1> QED BY <1>1, Invariance, PTL DEF Spec, OutcomeIsFinal
=============================================================================
