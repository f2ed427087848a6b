---------------------------- MODULE PullRequests ---------------------------
(***************************************************************************)
(* The pull requests of a Prow batch, fetched from GitHub for the working  *)
(* directory of the AI: a fixed number of workers take them from a queue,  *)
(* an overall timeout cancels the workers one by one, and what was fetched *)
(* is put together within a budget, with notes on what is missing.         *)
(***************************************************************************)
EXTENDS Integers, Sequences, SequencesExt, FiniteSetsExt

CONSTANTS
    Pulls,          \* the sequence of pull requests, the primary one first
    Workers,
    Size,           \* of each one's description and diff
    Budget          \* _MAX_PR_CONTEXT_TOTAL

PullsAssumption == /\ Len(Pulls) > 0 /\ Budget \in Nat
                   /\ Size \in [ToSet(Pulls) -> Nat \ {0}]

VARIABLES
    work,           \* the queue
    worker,         \* what each worker fetches, or how it ended
    results,        \* what came of each: "none", "null" or its content
    failed,         \* failed_prs
    phase,          \* "fetch", "cancel" after the timeout, "over"
    pending,        \* the workers that had not ended at the timeout
    sections, notes \* the file that is written

vars == <<work, worker, results, failed, phase, pending, sections, notes>>

Contents == {"whole", "short"}     \* "short": without all of its diff
Ended == {"done", "crashed", "cancelled"}
Nothing == "nothing"

TypeOK ==
    /\ IsSuffix(work, Pulls)
    /\ worker \in [Workers -> ToSet(Pulls) \union Ended \union {Nothing}]
    /\ results \in [ToSet(Pulls) -> {"none", "null"} \union Contents]
    /\ failed \subseteq ToSet(Pulls)
    /\ phase \in {"fetch", "cancel", "over"} /\ pending \subseteq Workers
    /\ sections \in Seq(ToSet(Pulls)) /\ notes \subseteq {"budget", "incomplete", "failed"}

Init ==
    /\ work = Pulls /\ worker = [w \in Workers |-> Nothing]
    /\ results = [p \in ToSet(Pulls) |-> "none"] /\ failed = {}
    /\ phase = "fetch" /\ pending = {} /\ sections = <<>> /\ notes = {}

----------------------------------------------------------------------------
(* The workers.  While one is being cancelled the others go on. *)

Fetching(w) == phase # "over" /\ worker[w] \in ToSet(Pulls)
Become(w, x) == worker' = [worker EXCEPT ![w] = x]

Take(w) ==
    /\ phase # "over" /\ worker[w] = Nothing
    /\ IF work = <<>> THEN Become(w, "done") /\ UNCHANGED work
       ELSE Become(w, Head(work)) /\ work' = Tail(work)
    /\ UNCHANGED <<results, failed, phase, pending, sections, notes>>

(* A diff that is refused, too large or cut off is left out or cut.        *)
FetchOk(w) ==
    /\ Fetching(w) /\ Become(w, Nothing)
    /\ \E content \in Contents : results' = [results EXCEPT ![worker[w]] = content]
    /\ UNCHANGED <<work, failed, phase, pending, sections, notes>>

SoftFailed(p) == failed \union {p}

(* Its metadata are refused or too large.                                  *)
FetchNone(w) ==
    /\ Fetching(w) /\ Become(w, Nothing)
    /\ results' = [results EXCEPT ![worker[w]] = "null"]
    /\ failed' = SoftFailed(worker[w])
    /\ UNCHANGED <<work, phase, pending, sections, notes>>

FetchRaises(w) ==
    /\ Fetching(w)
    /\ \/ Become(w, Nothing) /\ failed' = failed \union {worker[w]}
       \/ phase = "fetch" /\ Become(w, "crashed") /\ UNCHANGED failed   \* of another kind
    /\ UNCHANGED <<work, results, phase, pending, sections, notes>>

----------------------------------------------------------------------------
Alive == {w \in Workers : worker[w] \notin Ended}

Timeout ==
    /\ phase = "fetch" /\ Alive # {}
    /\ phase' = "cancel" /\ pending' = Alive
    /\ UNCHANGED <<work, worker, results, failed, sections, notes>>

Cancel(w) ==
    /\ phase = "cancel" /\ w \in Alive \intersect pending
    /\ Become(w, "cancelled")
    /\ UNCHANGED <<work, results, failed, phase, pending, sections, notes>>

(* Fault: only what was not even begun counts as missing.                  *)
QueueLeft == work # <<>>
Incomplete == pending # {} \/ work # <<>>

(* In order, until the first one that does not fit.                        *)
Fetched == SelectSeq(Pulls, LAMBDA p : results[p] \in Contents)
SizeOf(s) == FoldLeft(LAMBDA sum, p : sum + Size[p], 0, s)
Fitting == Max({n \in 0..Len(Fetched) : SizeOf(SubSeq(Fetched, 1, n)) <= Budget})

PutTogether ==
    /\ phase # "over" /\ Alive = {} /\ phase' = "over"
    /\ sections' = SubSeq(Fetched, 1, Fitting)
    /\ notes' = (IF Fitting < Len(Fetched) THEN {"budget"} ELSE {})
                   \union (IF Incomplete THEN {"incomplete"} ELSE {})
                   \union (IF failed # {} THEN {"failed"} ELSE {})
    /\ UNCHANGED <<work, worker, results, failed, pending>>

Next ==
    \/ \E w \in Workers : Take(w) \/ FetchOk(w) \/ FetchNone(w) \/ FetchRaises(w) \/ Cancel(w)
    \/ Timeout \/ PutTogether

Spec == Init /\ [][Next]_vars
----------------------------------------------------------------------------
(* Every pull request is in the file, is named as failed, or is one that a *)
(* note counts, whatever the timeout cut off; only that of a worker that   *)
(* crashed is not.  And nothing is in the file that does not fit, while    *)
(* all that is in it is in order.                                          *)
Crashes == {w \in Workers : worker[w] = "crashed"}
EveryPullIsAccountedFor ==
    phase = "over" =>
        /\ Cardinality({p \in ToSet(Pulls) : /\ p \notin ToSet(sections) \union failed
                                             /\ {"budget", "incomplete"} \cap notes = {}})
             <= Cardinality(Crashes)
        /\ SizeOf(sections) <= Budget
        /\ failed \cap ToSet(sections) = {}
=============================================================================
