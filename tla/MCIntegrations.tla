---------------------------- MODULE MCIntegrations ----------------------------
(* What the server does with other systems, for TLC: its own key of an AI  *)
(* provider and the listing read with it, collecting a build and its       *)
(* children from the CI, filing and tracking issues, pushing to Datadog and*)
(* Report Portal.  The parts share no state: the first choice of a         *)
(* behaviour is the part that moves.  The provider is this module's own    *)
(* (EXTENDS), and what is written outside has variables and constants of   *)
(* its own, so that the run checks the very properties that are proved; of *)
(* the others each uses the variables x1, x2, ... under its own names,     *)
(* since no two move.                                                      *)
EXTENDS ServerProviders, Integers, Sequences, TLC

CONSTANTS
    k1, Handlers, MaxFailures, MaxChanges,
    Users, Admins, Scopes, Urls, Issues, Legacy, MaxId, MaxRestarts,        \* links
    ClientIds, Pairs, Forms, Configs, Lifetime, Margin, MaxClock,           \* Jira
    Targets, Readable, Entries, Vocabulary, Others, Threshold, MaxTicks,    \* Datadog
    Names, Items, Nameless, Exact, Suffix, Classes, MaxPuts                 \* Report Portal

VARIABLES
    moves,
    job, issues, comments, links, lastId, legacy, request, removed, restarts,   \* links
    clock, settings, stored, tokens, cloudIds, call,                            \* Jira
    time, push, board, accepted,                                                \* Datadog
    class, history, update, marks, puts,                                        \* Report Portal
    failures, edits,                                                            \* the four
    x1, x2, x3, x4, x5, x6, x7, x8, x9, x10, x11, x12, x13, x14, x15, x16, x17, x18, x19,
    x20, x21, x22, x23

Symmetry == Permutations(Handlers)

(* The listing of the first key may come back empty.                       *)
MayBeEmpty == [k \in Keys |-> IF k = k1 THEN {{"m1"}, {}} ELSE {{"m2"}}]

(* Two requests about the links of a job whose history held one already.   *)
Held == {[scope |-> "top", url |-> "i"]}
T == INSTANCE TrackedLinks WITH Requests <- Handlers

(* Users with a service account's token, of this account or of another, and*)
(* with a regular one.                                                     *)
Typed(sa, token, email) == [sa |-> sa, token |-> token, email |-> email]
Form == {Typed("ATOA", "plain", TRUE), Typed("none", "ATST", FALSE)}
Method(mode, client, cloudId) == [mode |-> mode, client |-> client, cloudId |-> cloudId, site |-> TRUE]
Pair == {[client |-> "k", owner |-> o] : o \in {"u", "server"}}
Config == {Method("oauth", "k", TRUE), Method("basic", "k", FALSE)}
J == INSTANCE JiraConnections WITH Requests <- Handlers, request <- call, changes <- edits

(* Two child builds whose names read the same.                             *)
Alike == [s \in {"c1", "c2"} |-> "c"]
Entry == [s \in {"c1", "c2"} |-> IF s = "c1" THEN {<<"old", "broken">>} ELSE {<<>>, <<"x">>}]
D == INSTANCE DatadogPush WITH
    Pushers <- Handlers, Scopes <- Targets, Stored <- Entries, MaxClock <- MaxTicks,
    clock <- time

(* An item that is named after one failure and ends like another.          *)
TwoTests == <<"t1", "t2">>
Equal == {<<"i1", "t2">>}
Ending == {<<"i1", "t1">>, <<"i3", "t1">>}
R == INSTANCE ReportPortalPush WITH
    Pushers <- Handlers, Failures <- Names, push <- update, issues <- marks,
    changes <- edits

(* No report, one of a step or of none, or three of two steps.             *)
Report(s, v) == [step |-> s, verdict |-> v]
Junit == {<<>>} \cup {<<Report(s, v)>> : s \in {"s1", "other"}, v \in {"fails", "broken"}}
            \cup {<<Report("s1", v), Report("s2", w), Report("s1", "fails")>> :
                    v, w \in {"fails", "passes"}}
File(s, size) == [step |-> s, size |-> size]
Files == {<<>>, <<File("gather", 1), File("s1", 1), File("s2", 2)>>,
          <<File("gather", 3), File("other", 1), File("s1", 2)>>}
P == INSTANCE ProwBuild WITH
    Reports <- Junit, Artifacts <- Files, Steps <- {"s1", "s2"}, MaxFiles <- 2,
    MaxAttempts <- 4, MaxTotal <- 2, MaxSingle <- 2, MaxErrors <- 1, MaxRounds <- 2,
    lives <- x1, described <- x2, stray <- x3, result <- x4, reports <- x5, artifacts <- x6,
    errors <- x7, round <- x8, step <- x9, prefix <- x10, metadata <- x11, state <- x12,
    warnings <- x13, console <- x14, todo <- x15, asked <- x16, read <- x17, failing <- x18,
    queue <- x19, got <- x20, total <- x21, skip <- x22, stored <- x23

(* Three pull requests, one of which uses up most of the budget.           *)
Q == INSTANCE PullRequests WITH
    Pulls <- <<"p1", "p2", "p3">>, Workers <- {"w1", "w2"},
    Size <- [p \in {"p1", "p2", "p3"} |-> IF p = "p2" THEN 2 ELSE 1], Budget <- 3,
    work <- x1, worker <- x2, results <- x3, failed <- x4, phase <- x5, pending <- x6,
    sections <- x7, notes <- x8

(* A build whose two children started each other's build.                  *)
Started == [b \in {"m", "a", "c"} |->
                CASE b = "m" -> {"a", "c"} [] b = "a" -> {"a", "c"} [] OTHER -> {}]
B == INSTANCE BuildTree WITH
    Builds <- {"m", "a", "c"}, Submitted <- "m", Downstream <- Started, MaxDepth <- 2,
    Limit <- 1, Modes <- {"analyze", "ingest"},
    mode <- x1, failing <- x2, step <- x3, found <- x4, artifacts <- x5, result <- x6,
    job <- x7

W == INSTANCE BuildWait WITH
    MaxWait <- 4, Interval <- 3, MaxFailures <- 2, MaxClock <- 9, MaxRestarts <- 2,
    clock <- x1, build <- x2, request <- x3, started <- x4, server <- x5, restarts <- x6,
    wait <- x7, seen <- x8, status <- x9, reason <- x10

linkVars == <<job, issues, comments, links, lastId, legacy, request, removed, restarts>>
jiraVars == <<clock, settings, stored, tokens, cloudIds, call>>
boardVars == <<time, push, board, accepted>>
markVars == <<class, history, update, marks, puts>>
outside == <<linkVars, jiraVars, boardVars, markVars, failures, edits>>

ASSUME KeysAssumption /\ ModelsAssumption
ASSUME T!LinksAssumption /\ J!JiraAssumption /\ D!DatadogAssumption /\ R!PortalAssumption
ASSUME Q!PullsAssumption /\ B!TreeAssumption /\ W!WaitAssumption

----------------------------------------------------------------------------
Above10 == <<x11, x12, x13, x14, x15, x16, x17, x18, x19, x20, x21, x22, x23>>
Above8 == <<x9, x10, Above10>>
Above7 == <<x8, Above8>>
others == <<x1, x2, x3, x4, x5, x6, x7, Above7>>

Blank10 == /\ x11 = 0 /\ x12 = 0 /\ x13 = 0 /\ x14 = 0 /\ x15 = 0 /\ x16 = 0 /\ x17 = 0
           /\ x18 = 0 /\ x19 = 0 /\ x20 = 0 /\ x21 = 0 /\ x22 = 0 /\ x23 = 0
Blank8 == x9 = 0 /\ x10 = 0 /\ Blank10
Blank7 == x8 = 0 /\ Blank8
Blank == x1 = 0 /\ x2 = 0 /\ x3 = 0 /\ x4 = 0 /\ x5 = 0 /\ x6 = 0 /\ x7 = 0 /\ Blank7

OthersInit ==
    \/ moves \in {"links", "jira", "datadog", "portal"} /\ Blank
    \/ moves = "prow" /\ P!Init
    \/ moves = "pulls" /\ Q!Init /\ Blank8
    \/ moves = "tree" /\ B!Init /\ Blank7
    \/ moves = "wait" /\ W!Init /\ Blank10

(* Where a part that does not move could start in several ways, it starts  *)
(* in one of them.                                                         *)
SuiteInit ==
    /\ Init /\ T!Init /\ J!Init /\ D!Init /\ R!Init
    /\ (moves = "providers" /\ Blank) \/ OthersInit
    /\ moves # "providers" => deployment = NoKey
    /\ moves # "jira" => settings = CHOOSE s \in Configs : TRUE
    /\ moves # "portal" => class = CHOOSE c \in [R!Tests -> Classes] : TRUE

OutsideNext ==
    \/ moves = "links" /\ T!Next /\ UNCHANGED <<jiraVars, boardVars, markVars, edits>>
    \/ moves = "jira" /\ J!Next /\ UNCHANGED <<linkVars, boardVars, markVars>>
    \/ moves = "datadog" /\ D!Next /\ UNCHANGED <<linkVars, jiraVars, markVars, edits>>
    \/ moves = "portal" /\ R!Next /\ UNCHANGED <<linkVars, jiraVars, boardVars>>

OthersNext ==
    \/ moves = "prow" /\ P!Next
    \/ moves = "pulls" /\ Q!Next /\ UNCHANGED Above8
    \/ moves = "tree" /\ B!Next /\ UNCHANGED Above7
    \/ moves = "wait" /\ W!Next /\ UNCHANGED Above10

SuiteNext ==
    \/ moves = "providers" /\ Next /\ UNCHANGED <<outside, others>>
    \/ OutsideNext /\ UNCHANGED <<vars, others>>
    \/ OthersNext /\ UNCHANGED <<vars, outside>>

suiteVars == <<moves, vars, outside, others>>
SuiteSpec == SuiteInit /\ [][SuiteNext /\ UNCHANGED moves]_suiteVars

----------------------------------------------------------------------------
(* Every variable of the part that moves stays in its range.               *)
TypesOK ==
    /\ TypeOK /\ T!TypeOK /\ J!TypeOK /\ D!TypeOK /\ R!TypeOK
    /\ moves = "prow" => P!TypeOK
    /\ moves = "pulls" => Q!TypeOK
    /\ moves = "tree" => B!TypeOK
    /\ moves = "wait" => W!TypeOK

(* What is written to other systems: the id a link is checked by is that   *)
(* of the link that is removed, Jira is called as the user who asked for   *)
(* it with a token that lives as long as the call, and a push that         *)
(* overlaps with others, is refused or loses answers reports what it did   *)
(* and leaves a scoreboard or issues of one push.                          *)
OutsideIsTrue ==
    T!IdsNameOneLink /\ J!FiledAsTheUser /\ D!BoardIsOnePush /\ D!PushAddsUp
    /\ R!PushIsReported

(* What is collected of a build: the AI is skipped only for what the       *)
(* reports account for, budgets go to what ranks first, no pull request is *)
(* lost without a note, a job that fails failed with its children, and     *)
(* the wait for a build ends as it was asked to.                           *)
BuildsAreTrue ==
    /\ moves = "prow" => P!SkipIsSafe /\ P!BudgetIsSpentWell
    /\ moves = "pulls" => Q!EveryPullIsAccountedFor
    /\ moves = "tree" => B!OutcomeIsEarned /\ B!RunsInPlace
    /\ moves = "wait" => W!WaitIsHonest
=============================================================================
