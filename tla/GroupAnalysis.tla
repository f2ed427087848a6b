--------------------------- MODULE GroupAnalysis ---------------------------
(***************************************************************************)
(* The analysis of one job's failure groups: the orchestrated run          *)
(* (`run_orchestrated_analysis`) with its fallback, the single AI call of  *)
(* a group with its retry, and the debate of the main AI with its peers    *)
(* (`analyze_failure_group_with_peers`).                                   *)
(*                                                                         *)
(* An answer is what its parser makes of it: a valid classification, or    *)
(* NoClass.  Prompts, usage and progress are left out, and so is the       *)
(* temporary directory that is made when no workspace is given: the job's  *)
(* pipeline always gives one.  `run_parallel_with_limit` of the sidecar    *)
(* library runs at most MaxCalls of its coroutines at once and returns     *)
(* exceptions as results.                                                  *)
(***************************************************************************)
EXTENDS Naturals, Sequences, FiniteSets

CONSTANTS
    Groups,       \* failure groups of the job
    Peers,        \* positions in peer_ai_configs
    Classes,      \* the valid classifications
    NoClass,      \* an empty or invalid classification
    MaxCalls,     \* max_concurrent_ai_calls
    MaxRounds,    \* peer_analysis_max_rounds
    Shapes        \* the jobs considered: sets of groups and of peers

NoClassAssumption == NoClass \notin Classes
(* The peers are a list, and no answer is a mark of an outstanding one.     *)
PeersAssumption == IsFiniteSet(Peers)
MarksAssumption == {"waiting", "calling"} \cap (Classes \union {NoClass}) = {}
LimitsAssumption == MaxCalls \in Nat \ {0} /\ MaxRounds \in Nat \ {0}
ShapesAssumption == Shapes \subseteq (SUBSET Groups) \X (SUBSET Peers)

VARIABLES
    groups, peers,  \* of this job
    phase,          \* of the orchestrated run
    tries,          \* attempts of its routing or cross-failure call
    pc,             \* of each group
    attempt,        \* of the group's primary call
    class,          \* parsed_analysis.classification
    vote,           \* of each peer in this round
    rounds,         \* all_rounds: the votes of the rounds that ended
    got,            \* peers that answered with a session id in this round
    sessions,       \* peer_sessions
    live,           \* peers whose session exists at the sidecar
    consensus,      \* consensus_reached
    cancelled       \* the job's task was cancelled

runVars    == <<groups, peers, phase, tries>>
debateVars == <<vote, rounds, got, sessions, live, consensus>>
vars == <<runVars, pc, attempt, class, debateVars, cancelled>>

(* What parse_json_response and the normalisation make of an answer of the *)
(* main AI, and _parse_peer_response of one of a peer: garbage, a schema   *)
(* error or an unknown name count as no classification.                    *)
Answers == Classes \union {NoClass}
PeerAnswers == Classes \union {NoClass}
Ended == {"done", "failed", "cancelled"}
MaxAttempts == 2                            \* max_attempts

Fresh ==
    /\ pc = [g \in Groups |-> "queued"]
    /\ attempt = [g \in Groups |-> 1]
    /\ class = [g \in Groups |-> NoClass]
    /\ vote = [g \in Groups |-> [p \in Peers |-> "waiting"]]
    /\ rounds = [g \in Groups |-> <<>>]
    /\ got = [g \in Groups |-> {}]
    /\ sessions = [g \in Groups |-> {}]
    /\ live = [g \in Groups |-> {}]
    /\ consensus = [g \in Groups |-> FALSE]

Init ==
    /\ \E s \in Shapes : groups = s[1] /\ peers = s[2]
    /\ phase \in {"routing", "groups"}      \* with or without custom agents
    /\ tries = 1 /\ cancelled = FALSE
    /\ Fresh

Active == {g \in groups : pc[g] \notin Ended \union {"queued"}}

(* Fault: a call that ended keeps its place.                               *)
CallingEver(g) == {p \in peers : vote[g][p] # "waiting"}

(* The calls that take a place of the semaphore.                           *)
Calling(g) == {p \in peers : vote[g][p] = "calling"}
Running == phase \in {"groups", "fallback"} /\ ~cancelled

----------------------------------------------------------------------------
(* Fault: the attempts are not limited to two.                             *)
RetryOnceMore ==
    /\ tries <= MaxAttempts /\ tries' = tries + 1
    /\ UNCHANGED <<groups, peers, phase>>

(* One call of the run itself, with its retry (_call_ai_with_retry): it    *)
(* answers, fails for good, or fails in a way that is tried once more.     *)
RetryCall ==
    /\ tries < MaxAttempts /\ tries' = tries + 1
    /\ UNCHANGED <<groups, peers, phase>>

(* Routing: whatever the call says, the groups are analysed next.          *)
Route ==
    /\ phase = "routing" /\ ~cancelled
    /\ \/ RetryCall
       \/ phase' = "groups" /\ tries' = 1 /\ UNCHANGED <<groups, peers>>
    /\ UNCHANGED <<pc, attempt, class, debateVars, cancelled>>

(* A file of the routing or of the cross-failure call cannot be written,   *)
(* or its tools cannot be built: everything is analysed again, per group.  *)
FallBack ==
    /\ phase \in {"routing", "cross"} /\ ~cancelled
    /\ phase' = "fallback" /\ tries' = 1
    /\ pc' = [g \in Groups |-> "queued"] /\ attempt' = [g \in Groups |-> 1]
    /\ class' = [g \in Groups |-> NoClass]
    /\ vote' = [g \in Groups |-> [p \in Peers |-> "waiting"]]
    /\ rounds' = [g \in Groups |-> <<>>]
    /\ got' = [g \in Groups |-> {}] /\ sessions' = [g \in Groups |-> {}]
    /\ live' = live                        \* another debate, other sessions
    /\ consensus' = [g \in Groups |-> FALSE]
    /\ UNCHANGED <<groups, peers, cancelled>>

(* run_parallel_with_limit starts a group.                                 *)
StartGroup(g) ==
    /\ Running /\ pc[g] = "queued" /\ Cardinality(Active) < MaxCalls
    /\ pc' = [pc EXCEPT ![g] = "asking"]
    /\ UNCHANGED <<runVars, attempt, class, debateVars, cancelled>>

(* A group is debated if the job has peers (analyze_failure_group).        *)
AfterAnswer == IF peers = {} THEN "done" ELSE "peers"

(* The primary call answers, and the answer is parsed.                     *)
Answered(g) ==
    /\ Running /\ pc[g] = "asking"
    /\ \E c \in Answers : class' = [class EXCEPT ![g] = c]
    /\ pc' = [pc EXCEPT ![g] = AfterAnswer]
    /\ UNCHANGED <<runVars, attempt, debateVars, cancelled>>

(* It failed in a way worth another attempt, or answered nothing.          *)
AskAgain(g) ==
    /\ Running /\ pc[g] = "asking" /\ attempt[g] < MaxAttempts
    /\ attempt' = [attempt EXCEPT ![g] = @ + 1]
    /\ UNCHANGED <<runVars, pc, class, debateVars, cancelled>>

(* It failed for good, or the workspace could not be written: the group    *)
(* raises and is reported by a placeholder.                                *)
GroupRaises(g) ==
    /\ Running /\ pc[g] = "asking"
    /\ pc' = [pc EXCEPT ![g] = "failed"]
    /\ UNCHANGED <<runVars, attempt, class, debateVars, cancelled>>

(* The tools or files of the peers cannot be made, before any peer is asked. *)
DebateRaises(g) ==
    /\ Running /\ pc[g] = "peers" /\ rounds[g] = <<>>
    /\ \A p \in peers : vote[g][p] = "waiting"
    /\ pc' = [pc EXCEPT ![g] = "failed"]
    /\ UNCHANGED <<runVars, attempt, class, debateVars, cancelled>>

----------------------------------------------------------------------------
(* The debate. *)

CallPeer(g, p) ==
    /\ Running /\ pc[g] = "peers" /\ vote[g][p] = "waiting"
    /\ Cardinality(Calling(g)) < MaxCalls
    /\ vote' = [vote EXCEPT ![g][p] = "calling"]
    /\ UNCHANGED <<runVars, pc, attempt, class, rounds, got, sessions, live, consensus, cancelled>>

(* The call of a peer ends: with a classification, or failed, raised or    *)
(* unusable; a session id comes with every answer and with some failures.  *)
PeerEnds(g, p) ==
    /\ Running /\ vote[g][p] = "calling"
    /\ \E c \in PeerAnswers :
         /\ vote' = [vote EXCEPT ![g][p] = c]
         /\ \/ /\ got' = [got EXCEPT ![g] = @ \union {p}]
               /\ live' = [live EXCEPT ![g] = @ \union {p}]
            \/ c = NoClass /\ UNCHANGED <<got, live>>
    /\ UNCHANGED <<runVars, pc, attempt, class, rounds, sessions, consensus, cancelled>>

Valid(votes) == {p \in peers : votes[p] \in Classes}

(* Fault: a peer without a usable vote counts as agreeing.                 *)
AgreedSilently(g) == \A p \in Valid(vote[g]) : vote[g][p] = class[g]

(* _check_consensus: every usable vote, and there is one, is the           *)
(* orchestrator's classification.                                          *)
Agreed(g) ==
    /\ Valid(vote[g]) # {}
    /\ \A p \in Valid(vote[g]) : vote[g][p] = class[g]

(* The peers of a round have all ended: session ids are kept, the votes    *)
(* recorded, and the debate ends or the main AI revises its answer.        *)
RoundEnds(g) ==
    /\ Running /\ pc[g] = "peers"
    /\ \A p \in peers : vote[g][p] \in Answers
    /\ sessions' = [sessions EXCEPT ![g] = @ \union got[g]]
    /\ got' = [got EXCEPT ![g] = {}]
    /\ rounds' = [rounds EXCEPT ![g] = Append(@, vote[g])]
    /\ consensus' = [consensus EXCEPT ![g] = Agreed(g)]
    /\ pc' = [pc EXCEPT ![g] =
                 IF Valid(vote[g]) = {} \/ Agreed(g) \/ Len(rounds[g]) + 1 = MaxRounds
                 THEN "conclude" ELSE "revising"]
    /\ UNCHANGED <<runVars, attempt, class, vote, live, cancelled>>

(* The revision is taken over only if it brings a valid classification.    *)
Revised(g, c) == IF c \in Classes THEN c ELSE class[g]

Revise(g) ==
    /\ Running /\ pc[g] = "revising"
    /\ \E c \in Answers : class' = [class EXCEPT ![g] = Revised(g, c)]
    /\ vote' = [vote EXCEPT ![g] = [p \in Peers |-> "waiting"]]
    /\ pc' = [pc EXCEPT ![g] = "peers"]
    /\ UNCHANGED <<runVars, attempt, rounds, got, sessions, live, consensus, cancelled>>

(* The latest of the rounds with the most usable votes.                    *)
BestRound(g) ==
    CHOOSE r \in DOMAIN rounds[g] :
        \A q \in DOMAIN rounds[g] :
            LET n(i) == Cardinality(Valid(rounds[g][i])) IN n(q) < n(r) \/ (n(q) = n(r) /\ q <= r)

(* _peer_consensus_fallback: a most frequent classification of that round  *)
(* (ties go by the alphabet, which is left open).                          *)
Fallbacks(g) ==
    LET votes == rounds[g][BestRound(g)]
        count(c) == Cardinality({p \in peers : votes[p] = c})
    IN  IF Valid(votes) = {} THEN {NoClass}
        ELSE {c \in Classes : count(c) > 0 /\ \A d \in Classes : count(d) <= count(c)}

(* Fault: only the sessions that answered in the last round are deleted.   *)
ClosedLast(g) == live[g] \ {p \in sessions[g] : vote[g][p] \in Classes}
Closed(g) == live[g] \ sessions[g]

Conclude(g) ==
    /\ Running /\ pc[g] = "conclude"
    /\ IF class[g] = NoClass
       THEN \E c \in Fallbacks(g) : class' = [class EXCEPT ![g] = c]
       ELSE UNCHANGED class
    /\ live' = [live EXCEPT ![g] = Closed(g)]
    /\ pc' = [pc EXCEPT ![g] = "done"]
    /\ UNCHANGED <<runVars, attempt, vote, rounds, got, sessions, consensus, cancelled>>

----------------------------------------------------------------------------
(* All groups ended: with several successes a last call looks for patterns *)
(* across them, but not in the fallback.                                   *)
GroupsEnd ==
    /\ Running /\ \A g \in groups : pc[g] \in Ended
    /\ phase' = IF phase = "groups" /\ Cardinality({g \in groups : pc[g] = "done"}) > 1
                THEN "cross" ELSE "reported"
    /\ UNCHANGED <<groups, peers, tries, pc, attempt, class, debateVars, cancelled>>

Cross ==
    /\ phase = "cross" /\ ~cancelled
    /\ \/ RetryCall
       \/ phase' = "reported" /\ UNCHANGED <<groups, peers, tries>>
    /\ UNCHANGED <<pc, attempt, class, debateVars, cancelled>>

(* The job is aborted or deleted: every group is cancelled where it is,    *)
(* and its debate deletes the sessions it knows of.                        *)
Cancel ==
    /\ phase # "reported" /\ ~cancelled
    /\ cancelled' = TRUE
    /\ pc' = [g \in Groups |-> IF g \in Active \/ pc[g] = "queued" THEN "cancelled" ELSE pc[g]]
    /\ live' = [g \in Groups |-> IF g \in Active THEN Closed(g) ELSE live[g]]
    /\ UNCHANGED <<runVars, attempt, class, vote, rounds, got, sessions, consensus>>

Over == (phase = "reported" \/ cancelled) /\ UNCHANGED vars

GroupStep(g) ==
    \/ StartGroup(g) \/ Answered(g) \/ AskAgain(g) \/ GroupRaises(g) \/ DebateRaises(g)
    \/ \E p \in peers : CallPeer(g, p) \/ PeerEnds(g, p)
    \/ RoundEnds(g) \/ Revise(g) \/ Conclude(g)

RunStep == Route \/ FallBack \/ GroupsEnd \/ Cross

Next ==
    \/ RunStep \/ Cancel \/ Over
    \/ \E g \in groups : GroupStep(g)

Fairness ==
    /\ WF_vars(RunStep)
    /\ \A g \in Groups : WF_vars(g \in groups /\ GroupStep(g))

Spec == Init /\ [][Next]_vars /\ Fairness

----------------------------------------------------------------------------
(* Every variable stays in its range. *)
TypeOK ==
    /\ groups \subseteq Groups /\ peers \subseteq Peers
    /\ phase \in {"routing", "groups", "cross", "fallback", "reported"}
    /\ tries \in 1..MaxAttempts /\ cancelled \in BOOLEAN
    /\ pc \in [Groups -> Ended \union {"queued", "asking", "peers", "revising", "conclude"}]
    /\ attempt \in [Groups -> 1..MaxAttempts]
    /\ class \in [Groups -> Answers]
    /\ vote \in [Groups -> [Peers -> Answers \union {"waiting", "calling"}]]
    /\ rounds \in [Groups -> Seq([Peers -> Answers \union {"waiting", "calling"}])]
    /\ got \in [Groups -> SUBSET Peers] /\ sessions \in [Groups -> SUBSET Peers]
    /\ live \in [Groups -> SUBSET Peers]
    /\ consensus \in [Groups -> BOOLEAN]

(* A debate that reports a consensus ends with a classification that every *)
(* usable peer of its last round voted for, and there was one.             *)
ConsensusIsReal ==
    \A g \in groups : consensus[g] /\ pc[g] = "done" =>
        LET last == rounds[g][Len(rounds[g])]
        IN  /\ Valid(last) # {} /\ class[g] \in Classes
            /\ \A p \in Valid(last) : last[p] = class[g]

(* A debate ends without a classification only if no peer gave a usable    *)
(* one in any round and the main AI never did.                             *)
ClassificationRecovered ==
    \A g \in groups : pc[g] = "done" /\ peers # {} /\ class[g] = NoClass =>
        \A r \in DOMAIN rounds[g] : Valid(rounds[g][r]) = {}

(* A debate that was not cancelled leaves no peer session behind; one that *)
(* was leaves only those of the round it was cancelled in.                 *)
PeerSessionsDeleted ==
    \A g \in groups : pc[g] \in Ended => live[g] \subseteq (IF cancelled THEN got[g] ELSE {})

(* An analysis comes to its end unless it is cancelled.                    *)
AnalysisEnds == <>(phase = "reported" \/ cancelled)
=============================================================================
