-------------------------- MODULE Classifications --------------------------
(***************************************************************************)
(* The classification of failures: what the analysis says, what reviewers  *)
(* say of it, and what each reader makes of the two.  A failure is kept    *)
(* three times: in the result of its job, in `failure_history`, and in     *)
(* `test_classifications`, where each statement about it is a row.  Two    *)
(* axes share these rows: the classification and the pattern.              *)
(*                                                                         *)
(* The jobs are analyses of one pipeline, all with the same tests, which   *)
(* share one error signature, in builds of one child job.  Rows written    *)
(* later have a later created_at; who may classify, audit rows and         *)
(* notifications are left out.                                             *)
(***************************************************************************)
EXTENDS Naturals, Sequences, FiniteSets, SequencesExt

(* No classification, or no pattern: an empty column.                      *)
None == ""

CONSTANTS
    Jobs, Tests, Builds,
    Reviews,            \* requests to override
    Classes, Patterns,
    MaxRows,            \* bound on the patterns stated
    MaxReanalysed       \* and on the failures analysed again

TestsAssumption ==
    /\ Tests # {} /\ IsFiniteSet(Tests) /\ Builds # {} /\ IsFiniteSet(Builds)
    /\ None \notin Classes \union Patterns

VARIABLES
    phase,      \* of each job
    shown,      \* the failures in its result
    history,    \* its rows of failure_history; empty when there are none
    rows,       \* test_classifications, oldest first
    review,     \* the requests
    answer,     \* the classification its analysis gives all failures
    reanalysed, \* failures whose analysis was replaced on its own
    said,       \* the last classification stated for a failure by an override or
                \* carried to it; None when nothing was
    early       \* jobs overridden while they had no history

tables == <<history, rows>>
ghosts == <<reanalysed, said, early>>
vars == <<phase, answer, shown, tables, review, ghosts>>

Failures == Tests \X Builds
NoAnalysis == [class |-> None, pattern |-> None]
AllSay(c) == [f \in Failures |-> [class |-> c, pattern |-> None]]
Idle == [step |-> "idle"]
Done == [step |-> "done"]

Init ==
    /\ phase = [j \in Jobs |-> "new"]
    /\ shown = [j \in Jobs |-> [f \in Failures |-> NoAnalysis]]
    /\ history = [j \in Jobs |-> <<>>]
    /\ rows = <<>>
    /\ review = [r \in Reviews |-> Idle]
    /\ answer = [j \in Jobs |-> None]
    /\ reanalysed = {} /\ early = {}
    /\ said = [j \in Jobs |-> [f \in Failures |-> None]]

Row(j, f, class, pattern, by, visible) ==
    [job |-> j, failure |-> f, class |-> class, pattern |-> pattern, by |-> by, visible |-> visible]

Recorded(j) == history[j] # <<>>

(* _child_matches and _child_scope_sql: build 0 stands for every build.    *)
InScope(b, scope) == scope = 0 \/ b = scope
Scoped(ts, scope) == {f \in Failures : f[1] \in ts /\ InScope(f[2], scope)}

----------------------------------------------------------------------------
(* What the readers say. *)

RowsOf(j, f) == {k \in DOMAIN rows : rows[k].job = j /\ rows[k].failure = f /\ rows[k].visible}
Latest(ks) == CHOOSE k \in ks : \A i \in ks : i <= k

(* Fault: a row that speaks of the pattern alone hides the classification. *)
AnyRow(ks) == ks

(* Rows with one of the primary classifications.                           *)
Classified(ks) == {k \in ks : rows[k].class # None}

(* get_effective_classification.                                           *)
Effective(j, f) ==
    LET ks == Classified(RowsOf(j, f)) IN
    IF ks # {} THEN rows[Latest(ks)].class
    ELSE IF Recorded(j) THEN history[j][f].class ELSE None

(* GET /results/{job_id}: _apply_effective_classifications.                *)
InResult(j, f) ==
    LET ks == Classified(RowsOf(j, f)) IN
    IF ks # {} THEN rows[Latest(ks)].class ELSE shown[j][f].class

(* An issue is written for _resolve_effective_failure.                     *)
InIssue(j, f) == IF Effective(j, f) # None THEN Effective(j, f) ELSE shown[j][f].class

----------------------------------------------------------------------------
(* A job. *)

(* Ingested without an analysis, or analysed, at once or afterwards.       *)
Ingest(j) ==
    /\ phase[j] = "new" /\ phase' = [phase EXCEPT ![j] = "submitted"]
    /\ UNCHANGED <<answer, shown, tables, review, ghosts>>

Analyze(j) ==
    /\ phase[j] \in {"new", "submitted"} /\ phase' = [phase EXCEPT ![j] = "analyzing"]
    /\ UNCHANGED <<answer, shown, tables, review, ghosts>>

(* classify_test, by the AI at work or by a reviewer: the pattern alone.   *)
Classify(j, f, p, by) ==
    /\ Cardinality({k \in DOMAIN rows : rows[k].class = None}) < MaxRows
    /\ IF by = "ai" THEN phase[j] = "analyzing" ELSE phase[j] # "new"
    /\ rows' = Append(rows, Row(j, f, None, p, by, by # "ai"))
    /\ UNCHANGED <<phase, answer, shown, history, review, ghosts>>

(* populate_failure_history: the table may be busy, and the job goes on    *)
(* without its rows.                                                       *)
Populate(j, c) ==
    /\ phase[j] = "analyzing" /\ phase' = [phase EXCEPT ![j] = "saving"]
    /\ answer' = [answer EXCEPT ![j] = c]
    /\ history' \in {history, [history EXCEPT ![j] = AllSay(c)]}
    /\ UNCHANGED <<shown, rows, review, ghosts>>

(* What reviewers of other jobs said of a test last, in any child.         *)
Precedents(j, t) ==
    {k \in DOMAIN rows : /\ rows[k].job # j /\ rows[k].failure[1] = t /\ rows[k].visible
                         /\ rows[k].by # "ai" /\ rows[k].class # None}

Precedent(j, t) == Latest(Precedents(j, t))

CarriedRow(j, f) == Row(j, f, rows[Precedent(j, f[1])].class, None, "user", TRUE)

(* carry_forward_user_overrides, which is best effort.                     *)
CarryForward(j) ==
    LET fs == {f \in Failures : Precedents(j, f[1]) # {}} IN
    /\ phase[j] = "saving" /\ phase' = [phase EXCEPT ![j] = "carried"]
    /\ \/ /\ rows' = rows \o SetToSeq({CarriedRow(j, f) : f \in fs})
          /\ said' = [said EXCEPT ![j] = [f \in Failures |->
                         IF f \in fs THEN CarriedRow(j, f).class ELSE @[f]]]
       \/ UNCHANGED <<rows, said>>
    /\ UNCHANGED <<answer, shown, history, review, reanalysed, early>>

(* update_status writes the analysis' own classifications to the result.   *)
Complete(j) ==
    /\ phase[j] = "carried" /\ phase' = [phase EXCEPT ![j] = "completed"]
    /\ shown' = [shown EXCEPT ![j] = AllSay(answer[j])]
    /\ UNCHANGED <<answer, tables, review, ghosts>>

(* make_classifications_visible; a restart before it leaves them hidden.   *)
Reveal(j) ==
    /\ phase[j] = "completed" /\ phase' = [phase EXCEPT ![j] = "over"]
    /\ \/ rows' = [k \in DOMAIN rows |->
                      IF rows[k].job = j THEN [rows[k] EXCEPT !.visible = TRUE] ELSE rows[k]]
       \/ UNCHANGED rows
    /\ UNCHANGED <<answer, shown, history, review, ghosts>>

(* A failure is analysed again, in the result alone.                       *)
Reanalyze(j, f, c) ==
    /\ phase[j] = "over" /\ Cardinality(reanalysed) < MaxReanalysed
    /\ c # shown[j][f].class
    /\ shown' = [shown EXCEPT ![j][f] = [class |-> c, pattern |-> None]]
    /\ reanalysed' = reanalysed \union {<<j, f>>}
    /\ UNCHANGED <<phase, answer, tables, review, said, early>>

----------------------------------------------------------------------------
(* A reviewer overrides the classification or the pattern of a test.       *)

(* _validate_test_name_in_result: the job is completed, and has the test.  *)
Validate(r, j, t, scope, field, value) ==
    /\ review[r].step = "idle" /\ phase[j] \in {"submitted", "completed", "over"}
    /\ review' = [review EXCEPT ![r] = [step |-> "valid", job |-> j, tests |-> {t}, scope |-> scope,
                                       field |-> field, value |-> value]]
    /\ UNCHANGED <<phase, answer, shown, tables, ghosts>>

(* Fault: the other tests of the group are left out.                       *)
NamedTest(j, t) == {t}

(* The tests with the signature of the named one, which its rows have.     *)
GroupOf(j, t) == IF Recorded(j) THEN Tests ELSE {t}

(* The builds a row is inserted for: a wildcard fans out to those of the   *)
(* history.                                                                *)
RowBuilds(j, scope) == IF scope # 0 THEN {scope} ELSE IF Recorded(j) THEN Builds ELSE {}

With(field, old, value) ==
    IF field = "class" THEN [old EXCEPT !.class = value] ELSE [old EXCEPT !.pattern = value]

(* _override_failure_field, one transaction.                               *)
OverrideField(r) ==
    LET q  == review[r]
        ts == UNION {GroupOf(q.job, t) : t \in q.tests}
        fs == ts \X RowBuilds(q.job, q.scope)
        e  == With(q.field, NoAnalysis, q.value)
    IN  /\ review' = [review EXCEPT ![r].step = "committed", ![r].tests = ts]
        /\ history' = IF ~Recorded(q.job) THEN history
                      ELSE [history EXCEPT ![q.job] = [f \in Failures |->
                               IF f \in Scoped(ts, q.scope) THEN With(q.field, @[f], q.value) ELSE @[f]]]
        /\ rows' = rows \o SetToSeq({Row(q.job, f, e.class, e.pattern, "user", TRUE) : f \in fs})
        /\ said' = IF q.field # "class" THEN said
                   ELSE [said EXCEPT ![q.job] = [f \in Failures |-> IF f \in fs THEN q.value ELSE @[f]]]
        /\ early' = IF Recorded(q.job) THEN early ELSE early \union {q.job}
        /\ UNCHANGED <<phase, answer, shown, reanalysed>>

OverrideClassification(r) == review[r].step = "valid" /\ review[r].field = "class" /\ OverrideField(r)
OverridePattern(r) == review[r].step = "valid" /\ review[r].field = "pattern" /\ OverrideField(r)

(* _apply_override_to_failures, in the children of the scope.              *)
Patched(q) == [f \in Failures |-> IF f \in Scoped(q.tests, q.scope)
                                  THEN With(q.field, shown[q.job][f], q.value) ELSE shown[q.job][f]]

(* patch_result_json of the group's tests, which may fail.                 *)
PatchResult(r) ==
    /\ review' = [review EXCEPT ![r] = Done]
    /\ shown' \in {shown, [shown EXCEPT ![review[r].job] = Patched(review[r])]}
    /\ UNCHANGED <<phase, answer, tables, ghosts>>

PatchClassification(r) == review[r].step = "committed" /\ review[r].field = "class" /\ PatchResult(r)
PatchPattern(r) == review[r].step = "committed" /\ review[r].field = "pattern" /\ PatchResult(r)

Next ==
    \/ \E j \in Jobs :
         \/ Ingest(j) \/ Analyze(j) \/ CarryForward(j) \/ Complete(j) \/ Reveal(j)
         \/ \E c \in Classes : Populate(j, c) \/ \E f \in Failures : Reanalyze(j, f, c)
         \/ \E f \in Failures, p \in Patterns, by \in {"ai", "user"} : Classify(j, f, p, by)
    \/ \E r \in Reviews :
         \/ \E j \in Jobs, t \in Tests, b \in Builds \union {0} :
              \/ \E c \in Classes : Validate(r, j, t, b, "class", c)
              \/ \E p \in Patterns : Validate(r, j, t, b, "pattern", p)
         \/ OverrideClassification(r) \/ OverridePattern(r)
         \/ PatchClassification(r) \/ PatchPattern(r)

Spec == Init /\ [][Next]_vars

----------------------------------------------------------------------------
(* Every variable stays in its range. *)
Analyses == [class : Classes \union {None}, pattern : Patterns \union {None}]
TypeOK ==
    /\ phase \in [Jobs -> {"new", "submitted", "analyzing", "saving", "carried", "completed", "over"}]
    /\ answer \in [Jobs -> Classes \union {None}]
    /\ shown \in [Jobs -> [Failures -> Analyses]]
    /\ history \in [Jobs -> {<<>>} \union [Failures -> Analyses]]
    /\ \A k \in DOMAIN rows : rows[k].job \in Jobs /\ rows[k].failure \in Failures
    /\ reanalysed \subseteq Jobs \X Failures /\ early \subseteq Jobs
    /\ said \in [Jobs -> [Failures -> Classes \union {None}]]

(* What a reviewer said last of a failure, or what was carried to it after *)
(* that, is its classification for every reader of the result and every    *)
(* issue, whatever patterns were stated since.                             *)
OverrideStands ==
    \A j \in Jobs, f \in Failures : said[j][f] # None =>
        Effective(j, f) = said[j][f] /\ InResult(j, f) = said[j][f]

(* The tests that share a signature are classified together, through       *)
(* overrides of any of them and through what later analyses carry.  An     *)
(* override of a job that has no history yet reaches only its own test.    *)
GroupAgrees ==
    early = {} => \A j \in Jobs, s, t \in Tests, b \in Builds :
        phase[j] \in {"completed", "over"} /\ reanalysed = {} => InResult(j, <<s, b>>) = InResult(j, <<t, b>>)

(* The result and an issue written from it agree, unless the failure was   *)
(* analysed again on its own.                                              *)
IssueAgrees ==
    \A j \in Jobs, f \in Failures :
        phase[j] \in {"completed", "over"} /\ <<j, f>> \notin reanalysed /\ j \notin early =>
            InIssue(j, f) = InResult(j, f)
=============================================================================
