------------------------------ MODULE Reviews ------------------------------
(***************************************************************************)
(* The review of failures and what it is for: a failure that was seen      *)
(* before is reviewed by the analysis itself, after a person reviewed the  *)
(* earlier one, and only a reviewed job or child is pushed to an exporter, *)
(* by the analysis when everything is reviewed or by an operator.          *)
(*                                                                         *)
(* All failures are of one test, at the top of the job or in builds of its *)
(* children; a review of build 0 stands for every build of the child.      *)
(* History rows carry signatures of the current rules, children have no    *)
(* children, and what exporters do with a push is left out.                *)
(***************************************************************************)
EXTENDS Naturals, Sequences, FiniteSets

CONSTANTS
    Jobs,           \* analyses of one pipeline
    Scopes,         \* sequence of <<child, build>>, <<Top, 0>> for the job itself
    Top,
    Signatures,
    Outcomes,       \* how a job may fail: the signature each scope fails with, "" if none
    Pushes,         \* requests of operators
    MaxReviews,     \* bounds on the failures that people review,
    MaxClears       \* and on the reviews taken back

Failures == {Scopes[i] : i \in DOMAIN Scopes}

ScopesAssumption ==
    /\ Scopes \in Seq(Failures)
    /\ \A i \in DOMAIN Scopes : (Scopes[i][2] = 0) = (Scopes[i][1] = Top)
OutcomesAssumption ==
    \A o \in Outcomes :
        /\ o \in [Failures -> Signatures \union {""}]
        /\ \E f \in Failures : o[f] \in Signatures /\ o[f] # ""

VARIABLES
    phase,      \* of each job
    signature,  \* of each of its failures; "" where it has none
    analysed,   \* jobs with rows in failure_history, oldest first
    reviews,    \* failure_reviews by job and key: "none", "human", "ai" or "cleared"
    at,         \* the scope its auto-review is at
    counted,    \* failures it reviewed
    push,       \* the requests
    autoPushed, \* failures pushed by the analysis,
    pushed,     \* and by requests that an exporter does not let through unreviewed
    everHuman,  \* <<job, key>> reviewed by a person at some time,
    everAny     \* and by anyone

autoVars == <<at, counted>>
ghosts == <<autoPushed, pushed, everHuman, everAny>>
vars == <<phase, signature, analysed, reviews, autoVars, push, ghosts>>

Keys == Failures \union {<<f[1], 0>> : f \in Failures}
Idle == [step |-> "idle"]

Init ==
    /\ phase = [j \in Jobs |-> "new"]
    /\ signature = [j \in Jobs |-> [f \in Failures |-> ""]]
    /\ analysed = <<>>
    /\ reviews = [j \in Jobs |-> [k \in Keys |-> "none"]]
    /\ at = [j \in Jobs |-> 0]
    /\ counted = [j \in Jobs |-> 0]
    /\ push = [p \in Pushes |-> Idle]
    /\ autoPushed = {} /\ pushed = {} /\ everHuman = {} /\ everAny = {}

Present(j) == {f \in Failures : signature[j][f] # ""}

(* review_key: the failures a review covers.                               *)
Covers(k, f) == k = f \/ (f[1] # Top /\ k = <<f[1], 0>>)

Stands(review) == review \in {"human", "ai"}

(* Fault: a review of the test counts wherever the test failed.            *)
ReviewedAnywhere(j, f) == \E k \in Keys : Stands(reviews[j][k])

(* resolve_failure_review.                                                 *)
Reviewed(j, f) == \E k \in Keys : Covers(k, f) /\ Stands(reviews[j][k])

(* _unreviewed_failure_count over the failures of a scope.                 *)
AllReviewed(j, fs) == \A f \in fs : Reviewed(j, f)

----------------------------------------------------------------------------
(* A job is ingested, which shows its failures, or analysed.               *)

FailuresAppear(j) ==
    IF phase[j] = "submitted" THEN UNCHANGED signature
    ELSE \E o \in Outcomes : signature' = [signature EXCEPT ![j] = o]

Ingest(j) ==
    /\ phase[j] = "new" /\ phase' = [phase EXCEPT ![j] = "submitted"]
    /\ FailuresAppear(j)
    /\ UNCHANGED <<analysed, reviews, autoVars, push, ghosts>>

(* populate_failure_history, which may fail, then the auto-review.         *)
Analyze(j) ==
    /\ phase[j] \in {"new", "submitted"} /\ phase' = [phase EXCEPT ![j] = "looking"]
    /\ FailuresAppear(j)
    /\ analysed' \in {analysed, Append(analysed, j)}
    /\ at' = [at EXCEPT ![j] = 1]
    /\ UNCHANGED <<reviews, counted, push, ghosts>>

(* A failure of job k that a person has reviewed.                          *)
HumanReviewed(k, g) == \E key \in Keys : Covers(key, g) /\ reviews[k][key] = "human"

(* find_matching_previous_analysis: the newest reviewed row of the child,  *)
(* in whichever build, the last one the history lists for its job.         *)
Candidates(j, f) ==
    {x \in (DOMAIN analysed) \X (DOMAIN Scopes) :
        LET k == analysed[x[1]]
            g == Scopes[x[2]]
        IN  k # j /\ g \in Present(k) /\ g[1] = f[1] /\ HumanReviewed(k, g)}
Newest(c) == CHOOSE x \in c : \A y \in c : y[1] < x[1] \/ (y[1] = x[1] /\ y[2] <= x[2])

(* Fault: the same test is the same failure.                               *)
SameTest(j, f, x) == TRUE

(* previous_analysis_matches.                                              *)
Matches(j, f, x) == signature[analysed[x[1]]][Scopes[x[2]]] = signature[j][f]

NextFailure(j) == at' = [at EXCEPT ![j] = @ + 1]

(* _match_and_auto_review_failures, failure by failure.                    *)
Lookup(j) ==
    /\ phase[j] = "looking" /\ at[j] \in DOMAIN Scopes
    /\ LET f == Scopes[at[j]]
           c == Candidates(j, f)
           hit == f \in Present(j) /\ c # {} /\ Matches(j, f, Newest(c))
       IN  IF hit THEN phase' = [phase EXCEPT ![j] = "found"] /\ UNCHANGED at
           ELSE NextFailure(j) /\ UNCHANGED phase
    /\ UNCHANGED <<signature, analysed, reviews, counted, push, ghosts>>

(* _apply_auto_review: the review, then the comment on it.                 *)
ApplyReview(j) ==
    LET f == Scopes[at[j]] IN
    /\ phase[j] = "found" /\ phase' = [phase EXCEPT ![j] = "commenting"]
    /\ reviews' = [reviews EXCEPT ![j][f] = "ai"]
    /\ everAny' = everAny \union {<<j, f>>}
    /\ UNCHANGED <<signature, analysed, autoVars, push, autoPushed, pushed, everHuman>>

(* Fault: a reviewed failure is counted as two.                            *)
CountTwice(j) == counted' = [counted EXCEPT ![j] = @ + 2]
CountReviewed(j) == counted' = [counted EXCEPT ![j] = @ + 1]

Comment(j) ==
    /\ phase[j] = "commenting" /\ phase' = [phase EXCEPT ![j] = "looking"]
    /\ CountReviewed(j) /\ NextFailure(j)
    /\ UNCHANGED <<signature, analysed, reviews, push, ghosts>>

(* Whatever raises ends the auto-review, and the analysis goes on.         *)
ReviewRaises(j) ==
    /\ phase[j] \in {"looking", "found", "commenting"}
    /\ phase' = [phase EXCEPT ![j] = "completed"]
    /\ UNCHANGED <<signature, analysed, reviews, autoVars, push, ghosts>>

(* _push_scopes: the job and each child with failures of their own.        *)
PushScopes(j) == Present(j)

(* _auto_review_matching_failures: with something reviewed and nothing     *)
(* left to review, every scope is pushed, unless its exporter fails.       *)
AutoPush(j) ==
    /\ phase[j] = "looking" /\ at[j] \notin DOMAIN Scopes
    /\ phase' = [phase EXCEPT ![j] = "completed"]
    /\ IF counted[j] > 0 /\ AllReviewed(j, Present(j))
       THEN \E fs \in SUBSET PushScopes(j) : autoPushed' = autoPushed \union ({j} \X fs)
       ELSE UNCHANGED autoPushed
    /\ UNCHANGED <<signature, analysed, reviews, autoVars, push, pushed, everHuman, everAny>>

----------------------------------------------------------------------------
(* A person reviews a failure, or takes the review back.                   *)

Reviewable(j, k) == phase[j] \in {"submitted", "completed"} /\ \E f \in Present(j) : Covers(k, f)

SetReviewed(j, k) ==
    /\ Reviewable(j, k) /\ reviews[j][k] # "human" /\ Cardinality(everHuman) < MaxReviews
    /\ reviews' = [reviews EXCEPT ![j][k] = "human"]
    /\ everHuman' = everHuman \union {<<j, k>>} /\ everAny' = everAny \union {<<j, k>>}
    /\ UNCHANGED <<phase, signature, analysed, autoVars, push, autoPushed, pushed>>

Cleared == {x \in Jobs \X Keys : reviews[x[1]][x[2]] = "cleared"}

ClearReviewed(j, k) ==
    /\ Reviewable(j, k) /\ Stands(reviews[j][k]) /\ Cardinality(Cleared) < MaxClears
    /\ reviews' = [reviews EXCEPT ![j][k] = "cleared"]
    /\ UNCHANGED <<phase, signature, analysed, autoVars, push, ghosts>>

----------------------------------------------------------------------------
(* An operator pushes a job or a child of it.                              *)

(* _resolve_push_scope: the failures a push is gated on and those it       *)
(* exports; the children of a job are gated but not exported with it.      *)
Gated(j, f) == IF f[1] = Top THEN Present(j) ELSE Present(j) \cap {f}
Exported(j, f) == Present(j) \cap {f}

(* _gate_unreviewed_push.                                                  *)
GateOpens(j, f) == AllReviewed(j, Gated(j, f))

RequestPush(p, j, f) ==
    /\ push[p].step = "idle" /\ phase[j] \in {"submitted", "completed"}
    /\ f[1] = Top \/ f \in Present(j)
    /\ push' = [push EXCEPT ![p] = IF GateOpens(j, f) THEN [step |-> "gated", job |-> j, scope |-> f]
                                  ELSE [step |-> "refused"]]
    /\ UNCHANGED <<phase, signature, analysed, reviews, autoVars, ghosts>>

(* The context is built and exported; or the exporter fails.               *)
Export(p) ==
    /\ push[p].step = "gated" /\ push' = [push EXCEPT ![p] = [step |-> "done"]]
    /\ pushed' \in {pushed, pushed \union ({push[p].job} \X Exported(push[p].job, push[p].scope))}
    /\ UNCHANGED <<phase, signature, analysed, reviews, autoVars, autoPushed, everHuman, everAny>>

Next ==
    \/ \E j \in Jobs :
         \/ Ingest(j) \/ Analyze(j) \/ Lookup(j) \/ ApplyReview(j) \/ Comment(j)
         \/ ReviewRaises(j) \/ AutoPush(j)
         \/ \E k \in Keys : SetReviewed(j, k) \/ ClearReviewed(j, k)
    \/ \E p \in Pushes : Export(p) \/ \E j \in Jobs, f \in Failures : RequestPush(p, j, f)

Spec == Init /\ [][Next]_vars

----------------------------------------------------------------------------
(* Every variable stays in its range. *)
TypeOK ==
    /\ phase \in [Jobs -> {"new", "submitted", "looking", "found", "commenting", "completed"}]
    /\ signature \in [Jobs -> [Failures -> Signatures \union {""}]]
    /\ reviews \in [Jobs -> [Keys -> {"none", "human", "ai", "cleared"}]]
    /\ at \in [Jobs -> 0 .. Len(Scopes) + 1]
    /\ counted \in [Jobs -> 0 .. Len(Scopes)]
    /\ autoPushed \subseteq Jobs \X Failures /\ pushed \subseteq Jobs \X Failures
    /\ everHuman \subseteq everAny /\ everAny \subseteq Jobs \X Keys

(* A person has reviewed a failure of the same child with the same         *)
(* signature in another job.                                               *)
Precedented(j, f) ==
    \E k \in Jobs \ {j} : \E g \in Present(k) :
        /\ g[1] = f[1] /\ signature[k][g] = signature[j][f]
        /\ \E key \in Keys : Covers(key, g) /\ <<k, key>> \in everHuman

(* The analysis reviews a failure only after a person reviewed the same    *)
(* one elsewhere, however long the chain of analyses in between and        *)
(* whatever was taken back meanwhile.                                      *)
AutoReviewIsPrecedented ==
    \A j \in Jobs, f \in Failures : reviews[j][f] = "ai" => Precedented(j, f)

(* Nothing is pushed that nobody looked at: every failure the analysis     *)
(* pushes, and every failure an operator pushes, was reviewed in its own   *)
(* scope by a person or on the strength of one.                            *)
PushedIsReviewed ==
    \A x \in autoPushed \union pushed :
        \/ \E k \in Keys : Covers(k, x[2]) /\ <<x[1], k>> \in everHuman
        \/ Precedented(x[1], x[2]) /\ <<x[1], x[2]>> \in everAny
=============================================================================
