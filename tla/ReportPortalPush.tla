--------------------------- MODULE ReportPortalPush ---------------------------
(***************************************************************************)
(* Pushing the classifications of a job's failures to the failed items of  *)
(* its Report Portal launch: the launch is found, its items are matched to *)
(* the failures by name, and one request writes every issue.  Any request  *)
(* can fail or lose its answer, and classifications change in between.     *)
(***************************************************************************)
EXTENDS Naturals, FiniteSets, FiniteSetsExt, Sequences

CONSTANTS Pushers,
          Failures,     \* the tests of the stored failures, in their order
          Items,        \* the failed items of the launch
          Nameless,     \* the items the server sends without an id
          Exact,        \* <<item, test>>: the name or codeRef is the test's
          Suffix,       \* <<item, test>>: one is a dotted suffix of the other
          Classes,      \* what a failure is classified as
          MaxPuts, MaxChanges, MaxFailures

Tests == {Failures[i] : i \in DOMAIN Failures}
Categories == {"PRODUCT_BUG", "AUTOMATION_BUG", "SYSTEM_ISSUE", "TO_INVESTIGATE"}
Untouched == [type |-> "TO_INVESTIGATE", test |-> "nobody", by |-> 0]
NoPush == [step |-> "idle"]
NoHistory == "none"     \* no row of failure_history says so

PortalAssumption == /\ Failures \in Seq(Tests) /\ IsFiniteSet(Items) /\ Nameless \subseteq Items
                    /\ Exact \subseteq Items \X Tests
                    /\ Suffix \subseteq Items \X Tests

VARIABLES class,        \* what the stored result says of each test
          history,      \* what reviewers said of it: INFRASTRUCTURE or nothing
          push,
          issues,       \* of each item: the issue Report Portal holds
          puts,         \* the number of updates it took
          changes, failures

vars == <<class, history, push, issues, puts, changes, failures>>

Init == /\ class \in [Tests -> Classes]
        /\ history = [t \in Tests |-> NoHistory]
        /\ push = [p \in Pushers |-> NoPush]
        /\ issues = [i \in Items |-> Untouched] /\ puts = 0
        /\ changes = 0 /\ failures = 0

Fails == failures < MaxFailures /\ failures' = failures + 1
Goes(p, step) == push' = [push EXCEPT ![p].step = step]

-----------------------------------------------------------------------------
(* Matching and mapping *)

Related == Exact \cup Suffix

(* The first failure that matches in any way.                              *)
MatchFailures(found) ==
    LET hits(i) == {n \in DOMAIN Failures : <<i, Failures[n]>> \in Related}
    IN  [i \in {x \in found : hits(x) # {}} |-> Failures[Min(hits(i))]]

Nothing == [i \in {} |-> NoHistory]

ClassificationMap ==
    [value \in {"PRODUCT BUG", "CODE ISSUE", "INFRASTRUCTURE"} |->
        CASE value = "PRODUCT BUG" -> "PRODUCT_BUG" [] value = "CODE ISSUE" -> "AUTOMATION_BUG"
          [] OTHER -> "SYSTEM_ISSUE"]

Effective(value, past) == IF past = "INFRASTRUCTURE" THEN past ELSE value

Mapped(q, t) == Effective(q.class[t], q.history[t])
HasLocator(q, t) == Mapped(q, t) \in DOMAIN ClassificationMap

AnyItem(q) == DOMAIN q.matched
Named(q) == DOMAIN q.matched \ Nameless
Unmatched(q) == {i \in Named(q) : q.classify /\ ~HasLocator(q, q.matched[i])}

(* One entry per item; without classifications every issue is neutral.     *)
BulkIssues(q) ==
    [i \in Named(q) \ Unmatched(q) |->
        [test |-> q.matched[i], by |-> puts + 1,
         type |-> IF q.classify THEN ClassificationMap[Mapped(q, q.matched[i])]
                                ELSE "TO_INVESTIGATE"]]

-----------------------------------------------------------------------------
(* One push *)

FailureResult(p) ==
    push' = [push EXCEPT ![p] = [step |-> "over", pushed |-> 0, errors |-> 1,
                unmatched |-> {}, matched |-> Nothing, wrote |-> 0]]

Begin(p, classify) ==
    /\ push[p].step = "idle"
    /\ push' = [push EXCEPT ![p] =
                  [step |-> "context", classify |-> classify, class |-> class,
                   history |-> [t \in Tests |-> NoHistory], matched |-> Nothing]]
    /\ UNCHANGED <<class, history, issues, puts, changes, failures>>

BuildContext(p) ==
    /\ push[p].step = "context"
    /\ push' = [push EXCEPT ![p].step = "launch", ![p].history = history]
    /\ UNCHANGED <<class, history, issues, puts, changes, failures>>

(* Only a single launch with the build's URL will do.                      *)
FindLaunch(p) ==
    /\ push[p].step = "launch"
    /\ \/ Fails /\ FailureResult(p)
       \/ \E launches \in 0..2 :
            /\ IF launches = 1 THEN Goes(p, "items")
                               ELSE FailureResult(p)
            /\ UNCHANGED failures
    /\ UNCHANGED <<class, history, issues, puts, changes>>

GetFailedItems(p) ==
    /\ push[p].step = "items"
    /\ \/ Fails /\ FailureResult(p)
       \/ \E found \in SUBSET Items :
            /\ IF DOMAIN MatchFailures(found) = {}
               THEN FailureResult(p)
               ELSE push' = [push EXCEPT ![p].step = "locators",
                                      ![p].matched = MatchFailures(found)]
            /\ UNCHANGED failures
    /\ UNCHANGED <<class, history, issues, puts, changes>>

(* The project's own locators, or the defaults; both name every category.  *)
GetLocators(p) ==
    /\ push[p].step = "locators"
    /\ Goes(p, "put")
    /\ UNCHANGED <<class, history, issues, puts, changes>>
    /\ UNCHANGED failures \/ Fails

(* An item without an id is an error, and the others are still written.    *)
Result(p, q, pushed, lost, wrote) ==
    push' = [push EXCEPT ![p] =
        [step |-> "over", pushed |-> pushed, unmatched |-> Unmatched(q),
         errors |-> lost + Cardinality(DOMAIN q.matched \cap Nameless),
         matched |-> q.matched, wrote |-> wrote]]

Written(q) == /\ issues' = [i \in Items |-> IF i \in DOMAIN BulkIssues(q)
                                          THEN BulkIssues(q)[i] ELSE issues[i]]
              /\ puts' = puts + 1

PushClassifications(p) ==
    LET q == push[p]
        bulk == Cardinality(DOMAIN BulkIssues(q)) IN
    /\ q.step = "put"
    /\ \/ /\ bulk = 0 /\ Result(p, q, 0, 0, 0)
          /\ UNCHANGED <<issues, puts, failures>>
       \/ /\ bulk > 0 /\ Written(q) /\ Result(p, q, bulk, 0, puts')
          /\ UNCHANGED failures
       \/ /\ bulk > 0 /\ Fails
          /\ \/ Written(q) /\ Result(p, q, 0, 1, puts')
             \/ UNCHANGED <<issues, puts>> /\ Result(p, q, 0, 1, 0)
    /\ UNCHANGED <<class, history, changes>>

Finish(p) ==
    /\ push[p].step = "over" /\ puts < MaxPuts
    /\ push' = [push EXCEPT ![p] = NoPush]
    /\ UNCHANGED <<class, history, issues, puts, changes, failures>>

(* A reviewer changes what is said of a test.                              *)
Override(t, value) ==
    /\ changes < MaxChanges /\ changes' = changes + 1
    /\ class' = [class EXCEPT ![t] = value]
    /\ UNCHANGED <<history, push, issues, puts, failures>>
Classify(t) ==
    /\ changes < MaxChanges /\ changes' = changes + 1
    /\ history' = [history EXCEPT ![t] = IF @ = NoHistory THEN "INFRASTRUCTURE" ELSE NoHistory]
    /\ UNCHANGED <<class, push, issues, puts, failures>>

Serve(p) == \/ \E classify \in BOOLEAN : Begin(p, classify)
            \/ BuildContext(p) \/ FindLaunch(p) \/ GetFailedItems(p)
            \/ GetLocators(p) \/ PushClassifications(p) \/ Finish(p)

Next == \/ \E p \in Pushers : Serve(p)
        \/ \E t \in Tests : \/ \E value \in Classes : Override(t, value)
                            \/ Classify(t)
Spec == Init /\ [][Next]_vars

-----------------------------------------------------------------------------
(* Every variable has its type.                                            *)
TypeOK ==
    /\ class \in [Tests -> Classes] /\ history \in [Tests -> {NoHistory, "INFRASTRUCTURE"}]
    /\ \A p \in Pushers : push[p].step \in
         {"idle", "context", "launch", "items", "locators", "put", "over"}
    /\ issues \in [Items -> [type : Categories, test : Tests \cup {"nobody"}, by : 0..puts]]
    /\ changes \in 0..MaxChanges /\ failures \in 0..MaxFailures

(* What a push reports is what it did: every item it counts carries its    *)
(* update unless a later one replaced it, every matched item it does not   *)
(* count is named or is an error, and a push that says nothing was written *)
(* and names no error wrote nothing.  An issue is never that of a test the *)
(* item does not match, and two items of one test never differ after one   *)
(* update.                                                                 *)
PushIsReported ==
    /\ \A p \in Pushers : push[p].step = "over" =>
         LET q == push[p]
             kept == DOMAIN q.matched \ (Nameless \cup q.unmatched) IN
         /\ q.pushed > 0 => q.pushed = Cardinality(kept)
         /\ q.pushed > 0 => \A i \in kept : issues[i].by >= q.wrote
         /\ q.errors = 0 => q.pushed = Cardinality(kept)
         /\ q.pushed = 0 /\ q.errors = 0 => q.wrote = 0
    /\ \A i \in Items : issues[i].by > 0 => <<i, issues[i].test>> \in Related
    /\ \A i, j \in Items :
         issues[i].by = issues[j].by /\ issues[i].test = issues[j].test =>
            issues[i].type = issues[j].type
=============================================================================
