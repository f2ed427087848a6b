------------------------------- MODULE Graft -------------------------------
(***************************************************************************)
(* The code graphs of a workspace: for each clone a snapshot of its files, *)
(* the graph built from the snapshot, and a manifest with the hashes of    *)
(* the files, written last.  Indexing, questions and the removal hold the  *)
(* workspace's lock (WorkspaceLocks); the files of a clone change at any   *)
(* time.  A budget bounds what the graphs of the workspace occupy.         *)
(*                                                                         *)
(* The content of a clone is a number, and a manifest, a snapshot and the  *)
(* stamp of a failure are the number they were made from.                  *)
(***************************************************************************)
EXTENDS Integers, FiniteSets, FiniteSetsExt

CONSTANTS
    Repos,
    Contents,       \* what a clone may contain; 0 for no eligible files
    Budget,         \* max_workspace_graph_bytes
    Sizes,          \* what a finished graph may occupy
    MaxChanges, MaxFailures, MaxRuns

SizesAssumption == Sizes \subseteq Nat \ {0} /\ Budget \in Nat \ {0}

VARIABLES
    source,     \* the content of each clone
    changes, failures, runs,
    graph,      \* the directory of each clone's graph
    indexing,   \* "idle", "considered", "locked"
    pending,    \* clones to index
    worker,     \* the indexing threads
    reserved,   \* graphs being built
    question    \* the query under way

vars == <<source, changes, failures, runs, graph, indexing, pending, worker, reserved, question>>

None == -1      \* no manifest, snapshot or stamp
Empty == [manifest |-> None, snapshot |-> None, built |-> FALSE, size |-> 0,
          failed |-> "no", stamp |-> None, budget |-> "no"]
Resting == [step |-> "idle", manifest |-> None]
NoQuestion == [step |-> "idle", repo |-> CHOOSE r \in Repos : TRUE, manifest |-> None, from |-> None,
               now |-> None]

Init ==
    /\ source \in [Repos -> Contents] /\ changes = 0 /\ failures = 0 /\ runs = 0
    /\ graph = [r \in Repos |-> Empty]
    /\ indexing = "idle" /\ pending = {} /\ worker = [r \in Repos |-> Resting] /\ reserved = {}
    /\ question = NoQuestion

(* The workspace's lock is free.                                           *)
Unlocked == indexing # "locked" /\ question.step # "asked"

Change(r) ==
    /\ changes < MaxChanges /\ changes' = changes + 1
    /\ \E c \in Contents \ {source[r]} : source' = [source EXCEPT ![r] = c]
    /\ UNCHANGED <<failures, runs, graph, indexing, pending, worker, reserved, question>>

(* The time to wait of a marker is over.                                   *)
Expire(r) ==
    /\ graph[r].failed = "wait" \/ graph[r].budget = "wait"
    /\ graph' = [graph EXCEPT ![r].failed = IF @ = "wait" THEN "due" ELSE @,
                              ![r].budget = IF @ = "wait" THEN "due" ELSE @]
    /\ UNCHANGED <<source, changes, failures, runs, indexing, pending, worker, reserved, question>>

----------------------------------------------------------------------------
(* index_workspace_graph: one task for all callers. *)

(* roots_needing_index *)
NeedsIndex(r) ==
    LET g == graph[r] IN
    /\ g.budget # "wait"
    /\ IF g.manifest # None THEN g.manifest # source[r]
       ELSE g.failed # "wait" \/ (g.stamp # None /\ g.stamp # source[r])

Consider ==
    /\ indexing = "idle" /\ Unlocked /\ runs < MaxRuns /\ runs' = runs + 1
    /\ pending' = {r \in Repos : NeedsIndex(r)}
    /\ indexing' = IF pending' = {} THEN "idle" ELSE "considered"
    /\ UNCHANGED <<source, changes, failures, graph, worker, reserved, question>>

Lock ==
    /\ indexing = "considered" /\ Unlocked /\ indexing' = "locked"
    /\ worker' = [r \in Repos |-> IF r \in pending THEN [Resting EXCEPT !.step = "scan"] ELSE Resting]
    /\ UNCHANGED <<source, changes, failures, runs, graph, pending, reserved, question>>

Finish ==
    /\ indexing = "locked" /\ \A r \in Repos : worker[r].step = "idle"
    /\ indexing' = "idle" /\ pending' = {}
    /\ UNCHANGED <<source, changes, failures, runs, graph, worker, reserved, question>>

----------------------------------------------------------------------------
(* _index_one *)

Size(repos) == MapThenSumSet(LAMBDA r : graph[r].size, repos)
Used == Size(Repos)
At(r, step) == indexing = "locked" /\ worker[r].step = step
Work(r, step) == worker' = [worker EXCEPT ![r].step = step]
Stop(r) == worker' = [worker EXCEPT ![r] = Resting] /\ reserved' = reserved \ {r}
Dir(r, contents) == graph' = [graph EXCEPT ![r] = contents]
IndexUnchanged == UNCHANGED <<source, changes, failures, runs, indexing, pending, question>>

(* A clone without files has no graph, one that did not change keeps it.   *)
Scan(r) ==
    /\ At(r, "scan")
    /\ IF source[r] = 0 \/ source[r] = graph[r].manifest
       THEN /\ Stop(r)
            /\ IF source[r] = 0 THEN Dir(r, Empty) ELSE UNCHANGED graph
       ELSE /\ worker' = [worker EXCEPT ![r].step = "reserve", ![r].manifest = source[r]]
            /\ UNCHANGED <<graph, reserved>>
    /\ IndexUnchanged

(* reserve: a graph is replaced, those being built are counted again.      *)
Occupied(r) == Used - graph[r].size + Size(reserved)

Skip(r) ==
    /\ At(r, "reserve") /\ Occupied(r) >= Budget
    /\ Dir(r, [graph[r] EXCEPT !.budget = "wait"]) /\ Stop(r)
    /\ IndexUnchanged

Reserve(r) ==
    /\ At(r, "reserve") /\ Occupied(r) < Budget
    /\ reserved' = reserved \union {r}
    /\ Dir(r, Empty) /\ Work(r, "copy")
    /\ IndexUnchanged

(* The hash of each file copied.                                           *)
CopiedAsScanned(r) == source[r] = worker[r].manifest

Copy(r) ==
    /\ At(r, "copy") /\ CopiedAsScanned(r)
    /\ Dir(r, [graph[r] EXCEPT !.snapshot = source[r], !.size = 1]) /\ Work(r, "build")
    /\ UNCHANGED reserved /\ IndexUnchanged

Build(r) ==
    /\ At(r, "build")
    /\ \E size \in Sizes : Dir(r, [graph[r] EXCEPT !.built = TRUE, !.size = size])
    /\ Work(r, "check")
    /\ UNCHANGED reserved /\ IndexUnchanged

(* The clone is scanned again, and the manifest written.                   *)
WriteManifest(r) ==
    /\ At(r, "check") /\ source[r] = worker[r].manifest
    /\ Dir(r, [graph[r] EXCEPT !.manifest = worker[r].manifest]) /\ Work(r, "weigh")
    /\ UNCHANGED reserved /\ IndexUnchanged

(* Fault: only the graph itself is weighed.                                *)
FitsAlone(r) == graph[r].size <= Budget

(* With the graphs of the others, finished or not.                         *)
Fits(r) == Used <= Budget

Weigh(r) ==
    /\ At(r, "weigh") /\ Stop(r)
    /\ IF Fits(r) THEN UNCHANGED graph ELSE Dir(r, [Empty EXCEPT !.budget = "wait"])
    /\ IndexUnchanged

(* A scan, a copy or a build that fails, a copy or a scan that differs from*)
(* the first: the graph is removed and the failure marked, with what had   *)
(* been scanned or else what a cheaper scan says, if it succeeds.          *)
Fail(r, stamp) ==
    /\ worker[r].step \in {"scan", "copy", "build", "check"} /\ indexing = "locked"
    /\ \/ worker[r].step \in {"copy", "check"} /\ source[r] # worker[r].manifest /\ UNCHANGED failures
       \/ failures < MaxFailures /\ failures' = failures + 1
    /\ stamp = worker[r].manifest \/ (worker[r].manifest = None /\ stamp = source[r])
    /\ Dir(r, [Empty EXCEPT !.failed = "wait", !.stamp = stamp]) /\ Stop(r)
    /\ UNCHANGED <<source, changes, runs, indexing, pending, question>>

----------------------------------------------------------------------------
(* query_repo, and cleanup_graph. *)

Ask(r) ==
    /\ question.step \in {"idle", "answered"} /\ Unlocked
    /\ graph[r].manifest # None /\ graph[r].manifest = source[r]
    /\ question' = [step |-> "asked", repo |-> r, manifest |-> source[r],
                  from |-> graph[r].snapshot, now |-> None]
    /\ UNCHANGED <<source, changes, failures, runs, graph, indexing, pending, worker, reserved>>

(* Fault: the clone is not scanned again.                                  *)
NotChecked(r) == TRUE

(* It changed while the graph was read.                                    *)
StillCurrent(r) == source[r] = question.manifest

Answer ==
    /\ question.step = "asked"
    /\ question' = IF StillCurrent(question.repo) 
                 THEN [question EXCEPT !.step = "answered", !.now = source[question.repo]]
                 ELSE NoQuestion
    /\ UNCHANGED <<source, changes, failures, runs, graph, indexing, pending, worker, reserved>>

Cleanup ==
    /\ Unlocked
    /\ graph' = [r \in Repos |-> Empty]
    /\ UNCHANGED <<source, changes, failures, runs, indexing, pending, worker, reserved, question>>

Next ==
    \/ Consider \/ Lock \/ Finish \/ Answer \/ Cleanup
    \/ \E r \in Repos :
        \/ Change(r) \/ Expire(r) \/ Ask(r)
        \/ Scan(r) \/ Skip(r) \/ Reserve(r) \/ Copy(r) \/ Build(r) \/ WriteManifest(r) \/ Weigh(r)
        \/ \E stamp \in Contents \union {None} : Fail(r, stamp)

Spec == Init /\ [][Next]_vars

----------------------------------------------------------------------------
(* Every variable stays in its range. *)
TypeOK ==
    /\ source \in [Repos -> Contents] /\ pending \subseteq Repos /\ reserved \subseteq Repos
    /\ \A r \in Repos :
        /\ {graph[r].manifest, graph[r].snapshot, graph[r].stamp} \subseteq Contents \union {None}
        /\ graph[r].failed \in {"no", "wait", "due"} /\ graph[r].budget \in {"no", "wait", "due"}
        /\ worker[r].step \in {"idle", "scan", "reserve", "copy", "build", "check", "weigh"}
    /\ indexing \in {"idle", "considered", "locked"}

(* "Never return stale graph data": an answer comes from a finished graph  *)
(* of the content the clone had when it was given.                         *)
AnswersAreCurrent ==
    /\ \A r \in Repos : graph[r].manifest # None =>
          graph[r].built /\ graph[r].snapshot = graph[r].manifest
    /\ question.step = "answered" => question.from = question.now

(* "The budget is a hard bound, not an admission hint".                    *)
BudgetHolds == indexing # "locked" => Used <= Budget
=============================================================================
