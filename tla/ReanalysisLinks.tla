-------------------------- MODULE ReanalysisLinks --------------------------
(***************************************************************************)
(* The links between a job and its re-analyses: a re-analysis names its    *)
(* origin in its own parameters, and the origin lists its re-analyses      *)
(* (`reanalyzed_to_job_ids`).  The list is patched when a re-analysis is   *)
(* queued and after one was deleted, while other writers of the origin's   *)
(* result carry copies of its parameters that they read earlier.           *)
(*                                                                         *)
(* A patch or a lookup that fails is logged and forgotten by the code; it  *)
(* is left to the actions whose names say so.                              *)
(***************************************************************************)
EXTENDS FiniteSets

CONSTANTS
    Jobs,
    NoJob,
    Deletions,    \* requests to delete one or several jobs
    Writers       \* tasks that finish a job, or fail it

NoJobAssumption == NoJob \notin Jobs

VARIABLES
    row,         \* "new", "present" or "deleted" of each job
    origin,      \* reanalyzed_from_job_id
    links,       \* reanalyzed_to_job_ids of each present job
    linking,     \* jobs whose enqueue has yet to patch the origin
    doomed,      \* of each deletion: the jobs it still has to delete
    origins,     \* of each deletion: its jobs whose origin it knows
    gone,        \* of each deletion: the jobs it deleted
    deleting,    \* where each deletion is
    writing,     \* the job each writer is about to write, or NoJob
    copy,        \* the links in the parameters it read
    forgotten    \* jobs a patch or lookup failed for

rowVars == <<row, origin, links>>
delVars == <<doomed, origins, gone, deleting>>
writeVars == <<writing, copy>>
linkState == <<rowVars, linking, delVars, writeVars, forgotten>>

Init ==
    /\ row = [j \in Jobs |-> "new"]
    /\ origin = [j \in Jobs |-> NoJob] /\ links = [j \in Jobs |-> {}]
    /\ linking = {} /\ forgotten = {}
    /\ doomed = [d \in Deletions |-> {}] /\ origins = [d \in Deletions |-> {}]
    /\ gone = [d \in Deletions |-> {}] /\ deleting = [d \in Deletions |-> "idle"]
    /\ writing = [w \in Writers |-> NoJob] /\ copy = [w \in Writers |-> {}]

Present(j) == j \in Jobs /\ row[j] = "present"

----------------------------------------------------------------------------
(* A job is queued, as a re-analysis of another one or of its own: its row *)
(* is saved with the origin stamped into its parameters.  The origin was   *)
(* read some awaits earlier and may be gone.                               *)
Enqueue(j, o) ==
    /\ row[j] = "new" /\ o # j /\ (o # NoJob => row[o] # "new")
    /\ row' = [row EXCEPT ![j] = "present"]
    /\ origin' = [origin EXCEPT ![j] = o]
    /\ linking' = IF o = NoJob THEN linking ELSE linking \union {j}
    /\ UNCHANGED <<links, delVars, writeVars, forgotten>>

(* The patch of the origin requires the new job's row (require_job_id).    *)
MayLink(j) == Present(j)

(* _append_reanalysis_forward_link.                                        *)
LinkForward(j) ==
    /\ j \in linking /\ linking' = linking \ {j}
    /\ links' = IF MayLink(j) /\ Present(origin[j])
                THEN [links EXCEPT ![origin[j]] = @ \union {j}] ELSE links
    /\ UNCHANGED <<row, origin, delVars, writeVars, forgotten>>

LinkFails(j) ==
    /\ j \in linking /\ linking' = linking \ {j}
    /\ forgotten' = forgotten \union {j}
    /\ UNCHANGED <<rowVars, delVars, writeVars>>

----------------------------------------------------------------------------
(* delete_job_endpoint and bulk_delete_jobs_endpoint: the origins are read *)
(* one by one before the rows go.                                          *)
DeleteBegins(d, js) ==
    /\ deleting[d] = "idle" /\ js # {} /\ \A j \in js : Present(j)
    /\ deleting' = [deleting EXCEPT ![d] = "reading"]
    /\ doomed' = [doomed EXCEPT ![d] = js]
    /\ origins' = [origins EXCEPT ![d] = {}] /\ gone' = [gone EXCEPT ![d] = {}]
    /\ UNCHANGED <<rowVars, linking, writeVars, forgotten>>

(* A job another deletion was faster with has no origin any more.          *)
ReadOrigin(d, j) ==
    /\ deleting[d] = "reading" /\ j \in doomed[d] \ (origins[d] \union gone[d])
    /\ IF Present(j) /\ origin[j] # NoJob
       THEN origins' = [origins EXCEPT ![d] = @ \union {j}] /\ UNCHANGED gone
       ELSE gone' = [gone EXCEPT ![d] = @ \union {j}] /\ UNCHANGED origins
    /\ UNCHANGED <<rowVars, linking, doomed, deleting, writeVars, forgotten>>

LookupFails(d, j) ==
    /\ deleting[d] = "reading" /\ j \in doomed[d] \ (origins[d] \union gone[d])
    /\ gone' = [gone EXCEPT ![d] = @ \union {j}]
    /\ forgotten' = forgotten \union {j}
    /\ UNCHANGED <<rowVars, linking, doomed, origins, deleting, writeVars>>

(* delete_job or delete_jobs_bulk: some of the rows may stay.              *)
DeleteRows(d, js) ==
    /\ deleting[d] = "reading" /\ doomed[d] = origins[d] \union gone[d]
    /\ js \subseteq doomed[d]
    /\ row' = [j \in Jobs |-> IF j \in js /\ row[j] = "present" THEN "deleted" ELSE row[j]]
    /\ links' = [j \in Jobs |-> IF j \in js THEN {} ELSE links[j]]
    /\ origins' = [origins EXCEPT ![d] = @ \cap js]
    /\ gone' = [gone EXCEPT ![d] = {}]
    /\ deleting' = [deleting EXCEPT ![d] = "unlinking"]
    /\ UNCHANGED <<origin, linking, doomed, writeVars, forgotten>>

(* _unlink_reanalysis_origins, one origin after the other.                 *)
Unlink(d, j) ==
    /\ deleting[d] = "unlinking" /\ j \in origins[d]
    /\ origins' = [origins EXCEPT ![d] = @ \ {j}]
    /\ links' = IF Present(origin[j]) THEN [links EXCEPT ![origin[j]] = @ \ {j}] ELSE links
    /\ UNCHANGED <<row, origin, linking, doomed, gone, deleting, writeVars, forgotten>>

UnlinkFails(d, j) ==
    /\ deleting[d] = "unlinking" /\ j \in origins[d]
    /\ origins' = [origins EXCEPT ![d] = @ \ {j}]
    /\ forgotten' = forgotten \union {j}
    /\ UNCHANGED <<rowVars, linking, doomed, gone, deleting, writeVars>>

DeleteEnds(d) ==
    /\ deleting[d] = "unlinking" /\ origins[d] = {}
    /\ deleting' = [deleting EXCEPT ![d] = "idle"]
    /\ doomed' = [doomed EXCEPT ![d] = {}]
    /\ UNCHANGED <<rowVars, linking, origins, gone, writeVars, forgotten>>

----------------------------------------------------------------------------
(* _preserve_request_params: the parameters are read into the new result.  *)
ReadParams(w, j) ==
    /\ writing[w] = NoJob /\ Present(j)
    /\ writing' = [writing EXCEPT ![w] = j] /\ copy' = [copy EXCEPT ![w] = links[j]]
    /\ UNCHANGED <<rowVars, linking, delVars, forgotten>>

(* Fault: the parameters read earlier are written as they are.             *)
WrittenFromCopy(w) == copy[w]

(* _preserve_reanalysis_forward_links: the stored list wins.               *)
Written(w) == links[writing[w]]

(* save_result or update_status.                                           *)
WriteResult(w) ==
    /\ writing[w] # NoJob
    /\ links' = IF Present(writing[w]) THEN [links EXCEPT ![writing[w]] = Written(w)] ELSE links
    /\ writing' = [writing EXCEPT ![w] = NoJob] /\ copy' = [copy EXCEPT ![w] = {}]
    /\ UNCHANGED <<row, origin, linking, delVars, forgotten>>

Next ==
    \/ \E j \in Jobs : \/ \E o \in Jobs \union {NoJob} : Enqueue(j, o)
                       \/ LinkForward(j) \/ LinkFails(j)
    \/ \E d \in Deletions :
         \/ \E js \in SUBSET Jobs : DeleteBegins(d, js) \/ DeleteRows(d, js)
         \/ \E j \in Jobs : \/ ReadOrigin(d, j) \/ LookupFails(d, j)
                            \/ Unlink(d, j) \/ UnlinkFails(d, j)
         \/ DeleteEnds(d)
    \/ \E w \in Writers : WriteResult(w) \/ \E j \in Jobs : ReadParams(w, j)

Spec == Init /\ [][Next]_linkState

----------------------------------------------------------------------------
(* Every variable stays in its range. *)
TypeOK ==
    /\ row \in [Jobs -> {"new", "present", "deleted"}]
    /\ origin \in [Jobs -> Jobs \union {NoJob}]
    /\ links \in [Jobs -> SUBSET Jobs]
    /\ linking \subseteq Jobs /\ forgotten \subseteq Jobs
    /\ doomed \in [Deletions -> SUBSET Jobs] /\ origins \in [Deletions -> SUBSET Jobs]
    /\ gone \in [Deletions -> SUBSET Jobs]
    /\ deleting \in [Deletions -> {"idle", "reading", "unlinking"}]
    /\ writing \in [Writers -> Jobs \union {NoJob}] /\ copy \in [Writers -> SUBSET Jobs]

(* Whatever a deletion, an enqueue and a finishing origin do to each       *)
(* other, a listed job exists or the deletion that removed it is going to  *)
(* take it off the list, and a re-analysis whose enqueue is over is        *)
(* listed.  Failed patches are excepted.                                   *)
LinksAreExact ==
    \A o, j \in Jobs : Present(o) /\ j \notin forgotten =>
        /\ j \in links[o] =>
              /\ origin[j] = o
              /\ \/ Present(j)
                 \/ \E d \in Deletions : deleting[d] = "unlinking" /\ j \in origins[d]
        /\ Present(j) /\ origin[j] = o /\ j \notin linking => j \in links[o]
=============================================================================
