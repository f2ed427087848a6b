------------------------------ MODULE MCReview ------------------------------
(* What people and analyses say about a job, for TLC: the links between a  *)
(* job and its re-analyses, the overrides of classifications, and the      *)
(* reviews.  They share no state; the first choice of a behaviour is the   *)
(* one of them that moves.  The links are this module's own (EXTENDS), so  *)
(* that the run checks the very property that is proved of them.           *)
EXTENDS ReanalysisLinks, Integers, Sequences, TLC

CONSTANTS
    j1, j2, d1, d2, w1, t1, t2, q1, p1, Top,
    Tests, Builds, Classes, Patterns, MaxRows, MaxReanalysed,       \* overrides
    Scopes, Signatures, Outcomes, MaxReviews, MaxClears,            \* reviews
    OverrideRequests, Pushes

VARIABLES
    moves,
    phase, shown, history, rows, review, answer, reanalysed, said, early,
    reviewPhase, signature, analysed, reviews, at, counted, push, autoPushed, pushed, everHuman,
    everAny

C == INSTANCE Classifications WITH Reviews <- OverrideRequests
R == INSTANCE Reviews WITH phase <- reviewPhase

ASSUME LinksAssumption == NoJobAssumption
ASSUME ClassificationsAssumption == C!TestsAssumption
ASSUME ReviewsAssumption == R!ScopesAssumption /\ R!OutcomesAssumption

classVars == <<phase, shown, history, rows, review, answer, reanalysed, said, early>>
reviewVars == <<reviewPhase, signature, analysed, reviews, at, counted, push, autoPushed, pushed,
                everHuman, everAny>>

SuiteInit == moves \in {"links", "classifications", "reviews"} /\ Init /\ C!Init /\ R!Init

SuiteNext ==
    \/ moves = "links" /\ Next /\ UNCHANGED <<classVars, reviewVars>>
    \/ moves = "classifications" /\ C!Next /\ UNCHANGED <<linkState, reviewVars>>
    \/ moves = "reviews" /\ R!Next /\ UNCHANGED <<linkState, classVars>>

SuiteSpec ==
    SuiteInit /\ [][SuiteNext /\ UNCHANGED moves]_<<moves, linkState, classVars, reviewVars>>

----------------------------------------------------------------------------
TwoJobs == {j1, j2}
TwoDeletions == {d1, d2}
OneWriter == {w1}
TwoTests == {t1, t2}
OneRequest == {q1}
OnePush == {p1}
JobAndChild == <<<<Top, 0>>, <<"child", 1>>>>
SameOrAnother == {[s \in {<<Top, 0>>, <<"child", 1>>} |-> "timeout"],
                  [s \in {<<Top, 0>>, <<"child", 1>>} |-> IF s[1] = Top THEN "timeout" ELSE "assert"]}

Symmetry == Permutations(Jobs) \union Permutations(Deletions) \union Permutations(Tests)

(* Every variable of the part that moves stays in its range. *)
TypesOK ==
    /\ moves = "links" => TypeOK
    /\ moves = "classifications" => C!TypeOK
    /\ moves = "reviews" => R!TypeOK

(* What a reviewer said last of a failure, or what was carried to it later, *)
(* is its classification in the result and in every issue, and that of the  *)
(* tests of its signature.  An analysis reviews a failure on a person's     *)
(* precedent only, and nothing is pushed that nobody looked at.             *)
ReviewsStand ==
    /\ C!OverrideStands /\ C!GroupAgrees /\ C!IssueAgrees
    /\ R!AutoReviewIsPrecedented /\ R!PushedIsReviewed
=============================================================================
