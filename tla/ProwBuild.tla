----------------------------- MODULE ProwBuild -----------------------------
(***************************************************************************)
(* How a Prow build is read from the bucket: where its files lie, how it   *)
(* ended, its JUnit reports and its other artifacts within their limits,   *)
(* and what is stored of it for the re-analyses that read it again.        *)
(*                                                                         *)
(* Each answer of the bucket is a step; up to MaxErrors of them are errors *)
(* (refused, unreachable, too large).  Reports have size 1; the sizes of   *)
(* artifacts are those of their listing.                                   *)
(***************************************************************************)
EXTENDS Naturals, Sequences, SequencesExt, FiniteSetsExt

CONSTANTS
    Reports,        \* the sequences of JUnit reports: their step and verdict
    Artifacts,      \* the sequences of other artifacts: their step and size
    Steps,          \* that prowjob.json declares
    MaxFiles, MaxAttempts,      \* reports read; reports asked for
    MaxTotal, MaxSingle,        \* size of the artifacts, of one of them
    MaxErrors, MaxRounds

VARIABLES
    lives,          \* where the build lies: "logs" or "pr-logs"
    described,      \* whether its prowjob.json is there
    stray,          \* whether a prowjob.json of something else is below "logs"
    result, reports, artifacts,     \* of the build
    errors,
    round,          \* the analysis, then a re-analysis
    step,
    prefix,         \* where the build is read
    metadata,       \* of prowjob.json
    state,          \* build_state
    warnings,
    console,
    todo,           \* the reports left
    asked, read,    \* junit_attempts; the reports that were parsed
    failing,        \* failed_steps
    queue, got, total,      \* artifacts left and downloaded, and their size
    skip,           \* skip_analysis
    stored          \* gcs_prefix of the job

world == <<lives, described, stray, result, reports, artifacts>>
resolution == <<prefix, metadata>>
junit == <<todo, asked, read, failing>>
download == <<queue, got, total>>
vars == <<world, errors, round, step, resolution, state, warnings, console, junit, download, skip,
          stored>>

NoMetadata == [at |-> "", type |-> "", state |-> ""]

TypeOK ==
    /\ lives \in {"logs", "pr-logs"} /\ described \in BOOLEAN /\ stray \in BOOLEAN
    /\ result \in {"SUCCESS", "FAILURE"} /\ reports \in Reports /\ artifacts \in Artifacts
    /\ errors \in 0..MaxErrors /\ round \in 1..MaxRounds
    /\ step \in {"prefix", "pointer", "metadata", "state", "log", "listing", "other", "junit",
                 "download", "end", "over"}
    /\ {prefix, stored} \subseteq {"", "logs", "pr-logs"}
    /\ metadata \in [at : {"", "logs", "pr-logs"}, type : {"", "periodic", "presubmit"},
                     state : {"", "SUCCESS", "FAILURE"}]
    /\ state \in {"", "SUCCESS", "FAILURE"}
    /\ {warnings, console, skip} \subseteq BOOLEAN
    /\ asked \in 0..MaxAttempts /\ read \subseteq DOMAIN reports
    /\ got \subseteq DOMAIN artifacts /\ total \in 0..MaxTotal

Init ==
    /\ lives \in {"logs", "pr-logs"} /\ described \in BOOLEAN
    /\ stray \in IF lives = "logs" THEN {FALSE} ELSE BOOLEAN
    /\ result \in {"SUCCESS", "FAILURE"} /\ reports \in Reports /\ artifacts \in Artifacts
    /\ errors = 0 /\ round = 1 /\ stored = ""
    /\ step = "prefix" /\ prefix = "" /\ metadata = NoMetadata /\ state = ""
    /\ warnings = FALSE /\ console = FALSE
    /\ todo = <<>> /\ asked = 0 /\ read = {} /\ failing = {}
    /\ queue = <<>> /\ got = {} /\ total = 0 /\ skip = FALSE

----------------------------------------------------------------------------
(* Where the build lies. *)

At(s) == step = s
Go(s) == step' = s
Warn == warnings' = TRUE
Error == errors < MaxErrors /\ errors' = errors + 1
Answered == UNCHANGED errors

(* prowjob.json at p.                                                      *)
Described(p) == IF p = lives THEN described ELSE p = "logs" /\ stray
Prowjob(p) ==
    IF p # lives THEN [at |-> p, type |-> "presubmit", state |-> "SUCCESS"]
    ELSE [at |-> p, type |-> IF p = "logs" THEN "periodic" ELSE "presubmit", state |-> result]

(* _fetch_prowjob_metadata: an error is a warning.                         *)
FetchMetadata(p, then) ==
    \/ Error /\ Warn /\ Go(then) /\ UNCHANGED metadata
    \/ Answered /\ Go(then) /\ UNCHANGED warnings
       /\ metadata' = IF Described(p) THEN Prowjob(p) ELSE metadata

Rest == UNCHANGED <<world, round, state, console, junit, download, skip, stored>>

(* A prefix that was given or stored is used as it is.                     *)
UseStored ==
    /\ At("prefix") /\ stored # "" /\ prefix' = stored
    /\ FetchMetadata(stored, "state") /\ Rest

(* Fault: what was read below logs is kept for the path of the pointer.    *)
KeptAnyway == metadata

(* Metadata below logs that do not say so are somebody else's.             *)
Unconfirmed == NoMetadata

TryLogs ==
    /\ At("prefix") /\ stored = ""
    /\ \/ Error /\ Warn /\ Go("pointer") /\ UNCHANGED resolution
       \/ /\ Answered /\ UNCHANGED warnings
          /\ IF Described("logs") /\ Prowjob("logs").type = "periodic"
             THEN prefix' = "logs" /\ metadata' = Prowjob("logs") /\ Go("state")
             ELSE /\ metadata' = IF Described("logs") THEN Prowjob("logs") ELSE NoMetadata
                  /\ Go("pointer") /\ UNCHANGED prefix
    /\ Rest

(* The pointer of a presubmit job; without one the default is taken.       *)
FollowPointer ==
    /\ At("pointer") /\ metadata' = Unconfirmed
    /\ \/ Error /\ Warn /\ prefix' = "logs" /\ Go("state")
       \/ /\ Answered
          /\ IF lives = "pr-logs"
             THEN prefix' = "pr-logs" /\ Go("metadata") /\ UNCHANGED warnings
             ELSE prefix' = "logs" /\ Go("state") /\ warnings' \in {warnings, TRUE}
    /\ Rest

ReadMetadata ==
    /\ At("metadata") /\ FetchMetadata(prefix, "state") /\ UNCHANGED prefix /\ Rest

----------------------------------------------------------------------------
(* The build and its reports. *)

Here == prefix = lives
Env == UNCHANGED <<world, round, resolution, stored>>

(* How it ended: prowjob.json, or else finished.json.                      *)
FindState ==
    /\ At("state") /\ Go("log")
    /\ IF metadata.state # ""
       THEN state' = metadata.state /\ Answered /\ UNCHANGED warnings
       ELSE \/ Error /\ Warn /\ UNCHANGED state
            \/ Answered /\ state' = (IF Here THEN result ELSE "") /\ UNCHANGED warnings
    /\ UNCHANGED <<console, junit, download, skip>> /\ Env

FetchLog ==
    /\ At("log") /\ Go("listing")
    /\ \/ Error /\ Warn /\ UNCHANGED console
       \/ Answered /\ console' = Here /\ UNCHANGED warnings
    /\ UNCHANGED <<state, junit, download, skip>> /\ Env

(* The reports are listed apart, up to as many as are asked for.           *)
ListReports ==
    /\ At("listing") /\ Go("other")
    /\ \/ Error /\ Warn /\ UNCHANGED todo
       \/ /\ Answered
          /\ LET found == IF Here THEN [i \in DOMAIN reports |-> i] ELSE <<>>
             IN /\ todo' = SubSeq(found, 1, Min({MaxAttempts, Len(found)}))
                /\ warnings' = (warnings \/ Len(found) >= MaxAttempts)
    /\ UNCHANGED <<asked, read, failing, state, console, download, skip>> /\ Env

ListOthers ==
    /\ At("other") /\ Go("junit")
    /\ \/ Error /\ Warn /\ UNCHANGED queue
       \/ Answered /\ queue' = (IF Here THEN [i \in DOMAIN artifacts |-> i] ELSE <<>>)
          /\ UNCHANGED warnings
    /\ UNCHANGED <<got, total, state, console, junit, skip>> /\ Env

(* Steps that may be ranked: the declared ones, or those with artifacts.   *)
Rankable ==
    IF metadata # NoMetadata THEN Steps ELSE {artifacts[queue[i]].step : i \in DOMAIN queue}

(* _prioritize_artifacts: failing steps, others, gather steps.             *)
Rank(a) == IF a.step = "gather" THEN 2 ELSE IF a.step \in failing THEN 0 ELSE 1
Prioritized ==
    IF failing = {} THEN queue
    ELSE FoldLeft(LAMBDA s, r : s \o SelectSeq(queue, LAMBDA i : Rank(artifacts[i]) = r),
                  <<>>, <<0, 1, 2>>)

Stopped == TRUE

(* The reports are over, or their limit is reached.                        *)
ReportsEnd ==
    /\ At("junit") /\ (todo = <<>> \/ Cardinality(read) >= MaxFiles)
    /\ warnings' = IF todo # <<>> THEN Stopped ELSE warnings
    /\ queue' = Prioritized /\ Go("download") /\ Answered
    /\ UNCHANGED <<junit, got, total, state, console, skip>> /\ Env

(* One report: an error is a warning, and so is one that cannot be parsed; *)
(* one that is gone since it was listed is passed over.                    *)
ReadReport ==
    /\ At("junit") /\ todo # <<>> /\ Cardinality(read) < MaxFiles
    /\ todo' = Tail(todo) /\ asked' = asked + 1
    /\ LET r == reports[Head(todo)] IN
       \/ Error /\ Warn /\ UNCHANGED <<read, failing>>
       \/ Error /\ UNCHANGED <<read, failing, warnings>>
       \/ /\ Answered /\ read' = read \union {Head(todo)}
          /\ warnings' = (warnings \/ r.verdict = "broken")
          /\ failing' = IF r.verdict = "fails" /\ r.step \in Rankable
                        THEN failing \union {r.step} ELSE failing
    /\ UNCHANGED <<step, state, console, download, skip>> /\ Env

----------------------------------------------------------------------------
(* The other artifacts. *)

(* Fault: the budget is looked at when it is spent.                        *)
Spent(a) == total >= MaxTotal
OverBudget(a) == total + a.size > MaxTotal

(* One artifact: too large by itself, over the budget (that ends it), or   *)
(* downloaded if it can be.                                                *)
DownloadNext ==
    /\ At("download") /\ queue # <<>>
    /\ LET a == artifacts[Head(queue)] IN
       IF a.size > MaxSingle
       THEN Warn /\ Answered /\ queue' = Tail(queue) /\ UNCHANGED <<got, total>>
       ELSE IF OverBudget(a)
       THEN Warn /\ Answered /\ queue' = <<>> /\ UNCHANGED <<got, total>>
       ELSE \/ Error /\ Warn /\ queue' = Tail(queue) /\ UNCHANGED <<got, total>>
            \/ /\ Answered
               /\ got' = got \union {Head(queue)} /\ total' = total + a.size
               /\ queue' = IF total' >= MaxTotal THEN <<>> ELSE Tail(queue)
               /\ warnings' = (warnings \/ total' >= MaxTotal)
    /\ UNCHANGED <<step, state, console, junit, skip>> /\ Env

DownloadsEnd ==
    /\ At("download") /\ queue = <<>> /\ Go("end") /\ Answered
    /\ UNCHANGED <<state, warnings, console, junit, download, skip>> /\ Env

Failures == {i \in read : reports[i].verdict = "fails"}

(* The result; then persist_fetch_metadata.                                *)
Deliver ==
    /\ At("end") /\ Go("over") /\ Answered
    /\ warnings' = (warnings \/ (Failures = {} /\ ~console /\ state \in {"FAILURE", ""}))
    /\ skip' = (state = "SUCCESS" /\ Failures = {})
    /\ stored' = prefix
    /\ UNCHANGED <<world, round, resolution, state, console, junit, download>>

(* The job is analysed again from what was stored.                         *)
Again ==
    /\ At("over") /\ round < MaxRounds /\ round' = round + 1
    /\ errors' = 0 /\ step' = "prefix" /\ prefix' = "" /\ metadata' = NoMetadata /\ state' = ""
    /\ warnings' = FALSE /\ console' = FALSE
    /\ todo' = <<>> /\ asked' = 0 /\ read' = {} /\ failing' = {}
    /\ queue' = <<>> /\ got' = {} /\ total' = 0 /\ skip' = FALSE
    /\ UNCHANGED <<world, stored>>

Next ==
    \/ UseStored \/ TryLogs \/ FollowPointer \/ ReadMetadata \/ FindState \/ FetchLog
    \/ ListReports \/ ListOthers \/ ReportsEnd \/ ReadReport
    \/ DownloadNext \/ DownloadsEnd \/ Deliver \/ Again

Spec == Init /\ [][Next]_vars
----------------------------------------------------------------------------
(* A build is not skipped for another's success; and one that is skipped   *)
(* had no failure in a report that could be read, nothing else being wrong *)
(* with the reports but what a warning tells, or that they were gone.      *)
SkipIsSafe ==
    step = "over" /\ skip =>
        /\ metadata.at \in {"", prefix} /\ (Here => result = "SUCCESS")
        /\ ~warnings /\ Here /\ errors = 0 => \A i \in DOMAIN reports : i \in read

(* If the step that failed is known, what was left out of the downloads for*)
(* want of budget does not matter more than what was downloaded.           *)
BudgetIsSpentWell ==
    step = "over" /\ failing # {} =>
        \A i \in got : \A j \in DOMAIN artifacts \ got :
            artifacts[j].size <= MaxSingle /\ errors = 0 => Rank(artifacts[i]) <= Rank(artifacts[j])
=============================================================================
