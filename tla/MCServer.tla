------------------------------- MODULE MCServer -------------------------------
(* The server's own machinery, for TLC: the audit trail, what connected    *)
(* browsers are told, the workspaces on disk with their code graphs, and   *)
(* the settings.  The parts share no state: the first choice of a behaviour*)
(* is the part that moves.  The lock files are this module's own (EXTENDS);*)
(* the settings and what clients are told have variables and constants of  *)
(* their own, so that the run checks the very properties that are proved;  *)
(* of the others each uses the variables x1, x2, ... under its own names,  *)
(* since no two move.                                                      *)
EXTENDS WorkspaceLocks, Integers, Sequences, TLC

CONSTANTS
    h1, h2, Handlers,
    Keys, JiraKeys, Switch, SidecarKeys, Env, Accepts, Updates, Sanitized, Documents,
    MaxSaves, MaxFailures, MaxCrashes,      \* settings
    MaxValue, MaxChanges, MaxMisses,        \* streams
    QueueSize, Lines, MaxPayloads,          \* broadcast
    Users, Endpoints, MaxDevices, MaxComments, MaxSubscribes    \* mentions

VARIABLES
    moves,
    rows, cache, bridge, sidecar, verified, request, overlapped, unsure, saves, failures,
    crashes,                                \* settings
    value, owed, isAdmin, changes, misses, kind, phase, registered, event, todo, reading, copy,
    shown, retry, failed,                   \* streams
    stream, made, producer, subscribed, since, calls, queue, dropped, reader, tail, seen, payload,
    got, gaps,                              \* broadcast
    job, comments, lastId, reads, demand, badge, untold, subscriptions, lastSave, expired,
    pruned,                                 \* mentions
    x1, x2, x3, x4, x5, x6, x7, x8, x9, x10, x11

Symmetry == Permutations(Handlers)

(* Retention, export and verification, while nobody fails to log in ...    *)
A == INSTANCE AuditTrail WITH
    MaxWait <- 0, Actors <- {}, Accounts <- {}, Limit <- 1, Multiplier <- 1, Window <- 1,
    Retention <- 1, Interval <- 1, MaxRows <- 2, Batch <- 2, Flush <- 2,
    MaxClock <- 2, MaxId <- 4, MaxLost <- 1, Formats <- {"csv"},
    clock <- x1, rows <- x2, lastId <- x3, checkpoint <- x4, pruning <- x5,
    prunedAt <- x6, export <- x7, lost <- x8

(* ... and failed logins of two accounts and a name that is none.          *)
G == INSTANCE AuditTrail WITH
    MaxWait <- 1, Actors <- {"a", "b", "junk"}, Accounts <- {"a", "b"}, Limit <- 1,
    Multiplier <- 1, Window <- 1, Retention <- 9, Interval <- 9, MaxRows <- 0, Batch <- 2,
    Flush <- 2, MaxClock <- 3, MaxId <- 4, MaxLost <- 0, Formats <- {},
    clock <- x1, rows <- x2, lastId <- x3, checkpoint <- x4, pruning <- x5,
    prunedAt <- x6, export <- x7, lost <- x8

(* Two jobs, and a token of the same name of each of two users.            *)
Target(f, o, s) == [family |-> f, owner |-> o, subject |-> s]
V == INSTANCE AuditTargets WITH
    Keys <- {Target("job", "", "j1"), Target("job", "", "j2"),
             Target("token", "u", "t"), Target("token", "v", "t")},
    NoOwner <- "", MaxRows <- 2,
    present <- x1, rows <- x2, acting <- x3, page <- x4, seen <- x5, listing <- x6,
    answer <- x7

I == INSTANCE McpInstall WITH
    Configs <- <<"c", "s">>, Settings <- "s", MaxInstalls <- 3, MaxFailures <- 2,
    config <- x1, dump <- x2, tools <- x3, step <- x4, saved <- x5, savedDump <- x6,
    todo <- x7, count <- x8, failures <- x9, first <- x10, broken <- x11

(* Two clones, and graphs two of which exceed the budget.                  *)
F == INSTANCE Graft WITH
    Repos <- {"x", "y"}, Contents <- {0, 1, 2}, Budget <- 2, Sizes <- {1, 2},
    MaxChanges <- 2, MaxFailures <- 1, MaxRuns <- 1,
    source <- x1, changes <- x2, failures <- x3, runs <- x4, graph <- x5, indexing <- x6,
    pending <- x7, worker <- x8, reserved <- x9, question <- x10
E == INSTANCE GraftSessions WITH
    Workspaces <- {"w", "v"}, Jobs <- {"j"}, Roots <- {{"a"}}, Callers <- Handlers,
    Handlers <- {"h"}, MaxTokens <- 3, MaxQuestions <- 1,
    session <- x1, tokens <- x2, server <- x3, locked <- x4, caller <- x5, handler <- x6,
    questions <- x7, revoked <- x8, late <- x9

C == INSTANCE ChatWorkspace WITH
    Users <- {"u"}, Analyses <- {"r"}, MaxStarts <- 2, MaxDirs <- 2,
    job <- x1, disk <- x2, lastDir <- x3, place <- x4, run <- x5, thread <- x6,
    chat <- x7, welcome <- x8, starts <- x9

(* The settings.  For TLC: one of Jira, one that may not be empty, and the *)
(* recording switch.                                                       *)
N == INSTANCE Settings WITH Requests <- Handlers
settingVars == <<rows, cache, bridge, sidecar, verified, request, overlapped, unsure, saves,
                 failures, crashes>>

Key == {"jira", "rec", "port"}
Default == [k \in Key |-> "a"]
Taken == [k \in Key |-> IF k = "port" THEN {"a", "b"} ELSE {"a", "b", ""}]
Batches == {("jira" :> "b"), ("port" :> "b"), ("rec" :> "" @@ "port" :> ""),
            ("jira" :> "" @@ "rec" :> "b")}
Clean == [v \in {"a", "b", ""} |-> IF v = "b" THEN "a" ELSE v]
Document == {("jira" :> "a" @@ "port" :> "a")}

(* What clients are told.  For TLC: a queue that holds one payload; and    *)
(* comments of one user about another, and two devices.                    *)
S == INSTANCE Streams WITH MaxFailures <- MaxMisses, failures <- misses, step <- phase
B == INSTANCE Broadcast WITH Threads <- Handlers, step <- reader, shown <- got
M == INSTANCE Mentions WITH
    Requests <- Handlers, MaxSaves <- MaxSubscribes, request <- demand, unsure <- untold

ASSUME A!BudgetAssumption /\ A!SizesAssumption /\ G!BudgetAssumption /\ G!SizesAssumption
ASSUME V!KeysAssumption /\ B!QueueAssumption /\ M!DevicesAssumption /\ I!ConfigsAssumption
ASSUME LocksAssumption /\ F!SizesAssumption /\ N!SettingsAssumption

----------------------------------------------------------------------------
Above10 == <<x11>>
Above9 == <<x10, Above10>>
Above8 == <<x9, Above9>>
Above7 == <<x8, Above8>>
streamVars == <<value, owed, isAdmin, changes, misses, kind, phase, registered, event, todo,
                reading, copy, shown, retry, failed>>
broadcastVars == <<stream, made, producer, subscribed, since, calls, queue, dropped, reader, tail,
                   seen, payload, got, gaps>>
mentionVars == <<job, comments, lastId, reads, demand, badge, untold, subscriptions, lastSave,
                 expired, pruned>>
clientVars == <<streamVars, broadcastVars, mentionVars>>
sharedVars == <<x1, x2, x3, x4, x5, x6, x7, Above7>>
others == <<clientVars, sharedVars>>

Blank10 == x11 = 0
Blank9 == x10 = 0 /\ Blank10
Blank8 == x9 = 0 /\ Blank9
Blank7 == x8 = 0 /\ Blank8
Blank == x1 = 0 /\ x2 = 0 /\ x3 = 0 /\ x4 = 0 /\ x5 = 0 /\ x6 = 0 /\ x7 = 0 /\ Blank7

Clients == {"streams", "audit stream", "log stream", "comments", "devices"}

(* Some clients have several first states: one will do while others move.  *)
ClientsInit ==
    /\ S!Init /\ (isAdmin => moves = "streams")
    /\ B!Init /\ (stream = "log" <=> moves = "log stream")
    /\ M!Init

OthersInit ==
    \/ moves = "trail" /\ A!Init /\ Blank8
    \/ moves = "guard" /\ G!Init /\ Blank8
    \/ moves = "targets" /\ V!Init /\ Blank7
    \/ moves = "install" /\ I!Init
    \/ moves = "graphs" /\ F!Init /\ Blank10
    \/ moves = "sessions" /\ E!Init /\ Blank9
    \/ moves = "chats" /\ C!Init /\ Blank9

SuiteInit ==
    /\ (moves \in {"locks", "settings"} \union Clients /\ Blank) \/ OthersInit
    /\ Init /\ N!Init /\ ClientsInit

(* Comments are not followed by pushes, and of pushes one handler sends.   *)
ClientsNext ==
    \/ moves = "streams" /\ S!Next /\ UNCHANGED <<broadcastVars, mentionVars>>
    \/ moves \in {"audit stream", "log stream"} /\ B!Next /\ UNCHANGED <<streamVars, mentionVars>>
    \/ moves = "comments" /\ M!Next /\ lastSave' = lastSave
       /\ UNCHANGED <<streamVars, broadcastVars>>
    \/ moves = "devices" /\ M!Next /\ demand'[h2] = demand[h2]
       /\ UNCHANGED <<streamVars, broadcastVars>>

OthersNext ==
    \/ moves = "trail" /\ A!Next /\ UNCHANGED Above8
    \/ moves = "guard" /\ G!Next /\ UNCHANGED Above8
    \/ moves = "targets" /\ V!Next /\ UNCHANGED Above7
    \/ moves = "install" /\ I!Next
    \/ moves = "graphs" /\ F!Next /\ UNCHANGED Above10
    \/ moves = "sessions" /\ E!Next /\ UNCHANGED Above9
    \/ moves = "chats" /\ C!Next /\ UNCHANGED Above9

SuiteNext ==
    \/ moves = "locks" /\ Next /\ UNCHANGED <<settingVars, others>>
    \/ moves = "settings" /\ N!Next /\ UNCHANGED <<vars, others>>
    \/ ClientsNext /\ UNCHANGED <<vars, settingVars, sharedVars>>
    \/ OthersNext /\ UNCHANGED <<vars, settingVars, clientVars>>

SuiteSpec == SuiteInit /\ [][SuiteNext /\ UNCHANGED moves]_<<moves, vars, settingVars, others>>

----------------------------------------------------------------------------
(* Every variable of the part that moves stays in its range.               *)
TypesOK ==
    /\ moves = "trail" => A!TypeOK
    /\ moves = "guard" => G!TypeOK
    /\ moves = "targets" => V!TypeOK
    /\ moves = "locks" => TypeOK
    /\ moves = "install" => I!TypeOK
    /\ moves = "graphs" => F!TypeOK
    /\ moves = "sessions" => E!TypeOK
    /\ moves = "chats" => C!TypeOK
    /\ N!TypeOK /\ S!TypeOK /\ B!TypeOK /\ M!TypeOK

(* The audit trail verifies after any retention, shows that it lost a row, *)
(* stores no more refusals than its budgets, is exported whole, and names  *)
(* the removal of a target and of no other.                                *)
TrailIsTrue ==
    /\ moves = "trail" => A!TrailVerifies /\ A!LossIsSeen /\ A!ExportIsWhole
    /\ moves = "guard" => G!TrailVerifies /\ G!WindowIsBounded
    /\ moves = "targets" => V!RemovalIsTheTargets

(* A browser at rest shows what the database says, is told of every payload*)
(* it missed and shown none twice; badges count the mentions that are      *)
(* left, and a device that could not be reached once is kept.              *)
ClientsAreTold ==
    S!BadgesAreTrue /\ B!NothingIsLost /\ M!BadgesCount /\ M!SubscriptionsAreKept

(* The lock of a workspace is held on the file that is there, the user's   *)
(* configuration files survive the server's entries in them, and a chat    *)
(* that has a workspace has all of it.  An answer from a code graph is     *)
(* about the clone as it is, graphs fit their budget together, and a job   *)
(* is credited by its own sessions only.                                   *)
WorkspacesAreWhole ==
    /\ moves = "locks" => OneInside
    /\ moves = "install" => I!UsersFilesAreKept
    /\ moves = "chats" => C!WorkspaceIsWhole
    /\ moves = "graphs" => F!AnswersAreCurrent /\ F!BudgetHolds
    /\ moves = "sessions" => E!NoStaleCredit

(* What a save answers is in force, in the sidecar and its bridge too.     *)
SettledIsInForce == N!SettledIsInForce
=============================================================================
