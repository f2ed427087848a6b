----------------------------- MODULE MCAnalysis -----------------------------
(* Work that has to come to an end, for TLC: the debates about the failure *)
(* groups of a job, and the re-analyses of single failures.  They share no *)
(* state; the first choice of a behaviour is the one that moves.  The      *)
(* re-analyses are this module's own (EXTENDS), so that the run checks the *)
(* very property that is proved of them.                                   *)
EXTENDS FailureReanalysis, Integers, TLC

CONSTANTS
    g1, g2, p1, p2, p3, infra, product, NoClass, f1, f2, q1, q2, repo,
    Groups, Peers, Classes, MaxCalls, MaxRounds, Shapes     \* debates

VARIABLES
    moves,
    groups, peers, phase, tries, pc, attempt, class, vote, rounds, got, sessions, live, consensus,
    cancelled

G == INSTANCE GroupAnalysis

ASSUME ReanalysesAssumption == RepoAssumption /\ ClonesAssumption /\ AnalysisAssumption
ASSUME DebatesAssumption ==
    /\ G!NoClassAssumption /\ G!PeersAssumption /\ G!MarksAssumption
    /\ G!LimitsAssumption /\ G!ShapesAssumption

debateVars == <<groups, peers, phase, tries, pc, attempt, class, vote, rounds, got, sessions, live,
                consensus, cancelled>>
suiteVars == <<moves, debateVars, vars>>

(* The state of the part that does not move is one of its initial states.  *)
SuiteInit ==
    /\ moves \in {"debates", "failures"} /\ G!Init /\ Init
    /\ moves = "failures" => phase = "groups" /\ groups = {g1}

Debates(A) == moves = "debates" /\ A /\ UNCHANGED <<moves, vars>>
Reanalyses(A) == moves = "failures" /\ A /\ UNCHANGED <<moves, debateVars>>

SuiteNext == Debates(G!Next) \/ Reanalyses(Next)

(* The fairness of each part. *)
SuiteFairness ==
    /\ WF_suiteVars(Debates(G!RunStep))
    /\ \A g \in Groups : WF_suiteVars(Debates(g \in groups /\ G!GroupStep(g)))
    /\ \A q \in Requests : WF_suiteVars(Reanalyses(TaskStep(q)))
    /\ \A q \in Requests, r \in Additional : SF_suiteVars(Reanalyses(TakeSlot(q, r)))
    /\ WF_suiteVars(Reanalyses(OtherJobEnds))

SuiteSpec == SuiteInit /\ [][SuiteNext]_suiteVars /\ SuiteFairness

----------------------------------------------------------------------------
TwoGroups == {g1, g2}
ThreePeers == {p1, p2, p3}
TwoClasses == {infra, product}
OneOrTwoGroups == {<<{g1}, {p1, p2, p3}>>, <<{g1, g2}, {}>>}
TwoFailures == {f1, f2}
TwoRequests == {q1, q2}
OneRepo == {repo}

(* Every variable of the part that moves stays in its range. *)
TypesOK == /\ moves = "debates" => G!TypeOK
           /\ moves = "failures" => TypeOK

(* A debate that reports a consensus ends with what every usable peer of    *)
(* its last round voted for; one that ends without a classification never   *)
(* had a usable one.  Unless it is cancelled it leaves no session behind.   *)
ConsensusIsReal == G!ConsensusIsReal /\ G!ClassificationRecovered /\ G!PeerSessionsDeleted

(* An analysis comes to its end unless it is cancelled, and every           *)
(* re-analysis of a failure unless the process does.                        *)
AnalysisEnds == (moves = "debates" => G!AnalysisEnds) /\ ReanalysisEnds
=============================================================================
