----------------------------- MODULE Migrations -----------------------------
(***************************************************************************)
(* The start of the server on a database of an earlier version: init_db    *)
(* and the one-time migrations after it, while the process may die at any  *)
(* point and the next start may be of another build.                       *)
(*                                                                         *)
(* The rows of a job in failure_history are one record: the class they say *)
(* ("root": the analysis' own, "label": a pattern of the old axis,         *)
(* "override": a reviewer's) and their pattern.  sqlite3 opens its         *)
(* transaction at the first statement that changes rows, so what init_db   *)
(* does to tables before that is committed as it goes, and all the rest of *)
(* it at once.  Only one process starts at a time.                         *)
(***************************************************************************)
EXTENDS Naturals, FiniteSets

CONSTANTS
    Jobs, Users,
    MaxStarts       \* bound on the starts of the server

(* Each pair of a setting and the one it is copied to.                     *)
Renamed == {"secret", "url"}
Old(k) == <<"old", k>>
New(k) == <<"new", k>>

StartsAssumption == MaxStarts \in Nat

(* The name of a user is no setting.                                       *)
UsersAssumption == \A u \in Users, k \in Renamed : u # Old(k) /\ u # New(k)

VARIABLES
    pc,             \* where the start is; "down", "up"
    starts,
    codec,          \* this build decodes compressed results
    todo, deferred, \* jobs the loop has still to visit, and those it could not read
    result,         \* what results holds of a completed job
    patched,        \* results that carry a reviewer's override
    history,
    overridden,     \* jobs with an override in test_classifications
    applied,        \* _migrations_applied
    reviews,        \* failure_reviews: the stages of its rebuild
    column,         \* users.can_use_server_providers is there
    granted,
    settings,       \* server settings that have a row
    links,          \* tracked_in_links
    mirrored,       \* history: rows an old build wrote an override into,
    missed,         \* jobs whose rows could not be written when they completed,
    taken           \* grants and settings an admin took back since

runVars   == <<pc, starts, codec, todo, deferred>>
dataVars  == <<result, patched, history, overridden>>
userVars  == <<column, granted, settings, links>>
ghosts    == <<mirrored, missed, taken>>
vars == <<runVars, dataVars, applied, reviews, userVars, ghosts>>

NoPattern == ""
NoRows == [class |-> "none", pattern |-> NoPattern, url |-> FALSE]
Rows(class, url) == [class |-> class, pattern |-> NoPattern, url |-> url]

(* A database of some earlier version, or of a later one that was rolled   *)
(* back: results compressed or not, signatures recomputed or not, overrides*)
(* mirrored into the history or patterns in the place of classes.          *)
Init ==
    /\ pc = "down" /\ starts = 0 /\ codec = FALSE
    /\ todo = {} /\ deferred = {}
    /\ result \in [Jobs -> {"none", "plain", "encoded", "malformed"}]
    /\ history \in [Jobs -> {NoRows, Rows("label", FALSE), Rows("override", TRUE)}]
    /\ \A j \in Jobs : result[j] = "none" => history[j] = NoRows
    /\ mirrored = {j \in Jobs : history[j].class = "override"}
    /\ overridden = mirrored /\ patched = {} /\ missed = {}
    /\ applied \in {{}, {"recompute"}}
    /\ reviews \in {"legacy", "rebuilt"} /\ column = FALSE
    /\ granted = {} /\ links = {} /\ taken = {}
    /\ settings = {Old(k) : k \in Renamed}

At(p) == pc = p
Goto(p) == pc' = p

(* parse_result_json: a compressed result needs a build with the codec.    *)
Readable(j) == result[j] = "plain" \/ (result[j] = "encoded" /\ codec)
Undecodable(j) == result[j] = "encoded" /\ ~codec

(* populate_failure_history, from the result.                              *)
Populated(j) == Rows(IF j \in patched THEN "override" ELSE "root", FALSE)

----------------------------------------------------------------------------
(* The process starts and dies. *)

Start(build) ==
    /\ At("down") /\ starts < MaxStarts /\ starts' = starts + 1
    /\ codec' = build /\ Goto("schema")
    /\ UNCHANGED <<todo, deferred, dataVars, applied, reviews, userVars, ghosts>>

(* A rebuild that was cut short is not taken up again: the next start finds*)
(* or creates a table with the new key.                                    *)
Crash ==
    /\ pc # "down" /\ Goto("down")
    /\ todo' = {} /\ deferred' = {}
    /\ reviews' = IF reviews \in {"renamed", "created"} THEN "stranded" ELSE reviews
    /\ UNCHANGED <<starts, codec, dataVars, applied, userVars, ghosts>>

----------------------------------------------------------------------------
(* init_db. *)

(* failure_reviews gets its four-column key; sqlite commits the renaming   *)
(* and the new table at once.                                              *)
RenameReviews ==
    /\ At("schema") /\ reviews = "legacy" /\ reviews' = "renamed"
    /\ UNCHANGED <<runVars, dataVars, applied, userVars, ghosts>>

CreateReviews ==
    /\ At("schema") /\ reviews = "renamed" /\ reviews' = "created"
    /\ UNCHANGED <<runVars, dataVars, applied, userVars, ghosts>>

(* Fault: every start grants the server's providers to everybody.          *)
GrantedAgain == Users

(* The column is added with the grant to all there are.                    *)
GrantedNow == IF column THEN granted ELSE Users

(* Links of the old columns are copied while there are no others.          *)
LinksNow == IF links = {} THEN {j \in Jobs : history[j].url} ELSE links

(* The rest of init_db in one transaction.                                 *)
CommitSchema ==
    /\ At("schema") /\ reviews \notin {"legacy", "renamed"} /\ Goto("secret")
    /\ reviews' = IF reviews = "created" THEN "rebuilt" ELSE reviews
    /\ column' = TRUE /\ granted' = GrantedNow /\ links' = LinksNow
    /\ UNCHANGED <<starts, codec, todo, deferred, dataVars, applied, settings, ghosts>>

(* A setting that has a row of its own keeps it.                           *)
Copied(k) == IF k \notin applied /\ Old(k) \in settings THEN settings \union {New(k)} ELSE settings

CopySetting(k, next) ==
    /\ At(k) /\ Goto(next)
    /\ settings' = Copied(k) /\ applied' = applied \union {k}
    /\ UNCHANGED <<starts, codec, todo, deferred, dataVars, reviews, column, granted, links, ghosts>>

RenameSecret == CopySetting("secret", "url")
SplitUrl == CopySetting("url", "recompute")

----------------------------------------------------------------------------
(* The history is computed again.                                          *)

ClearHistory ==
    /\ At("recompute") /\ Goto("missing")
    /\ IF "recompute" \in applied THEN UNCHANGED <<history, applied, mirrored>>
       ELSE /\ history' = [j \in Jobs |-> NoRows] /\ applied' = applied \union {"recompute"}
            /\ mirrored' = {}
    /\ UNCHANGED <<starts, codec, todo, deferred, result, patched, overridden, reviews, userVars,
                   missed, taken>>

(* Fault: only an empty table is filled.                                   *)
MissingInEmpty ==
    IF \A j \in Jobs : history[j] = NoRows THEN {j \in Jobs : result[j] # "none"} ELSE {}

(* Completed results without a row.                                        *)
Missing == {j \in Jobs : result[j] # "none" /\ history[j] = NoRows}

FindMissing ==
    /\ At("missing") /\ Goto("backfill") /\ todo' = Missing
    /\ UNCHANGED <<starts, codec, deferred, dataVars, applied, reviews, userVars, ghosts>>

(* What the loop does with a result that it can read.                      *)
Repopulate(j) ==
    /\ history' = IF Readable(j) THEN [history EXCEPT ![j] = Populated(j)] ELSE history
    /\ mirrored' = IF Readable(j) THEN mirrored \ {j} ELSE mirrored
    /\ missed' = IF Readable(j) THEN missed \ {j} ELSE missed
    /\ todo' = todo \ {j}

Backfill(j) ==
    /\ At("backfill") /\ j \in todo /\ Repopulate(j)
    /\ UNCHANGED <<pc, starts, codec, deferred, result, patched, overridden, applied, reviews,
                   userVars, taken>>

BackfillEnds ==
    /\ At("backfill") /\ todo = {} /\ Goto("pending")
    /\ UNCHANGED <<starts, codec, todo, deferred, dataVars, applied, reviews, userVars, ghosts>>

----------------------------------------------------------------------------
(* _migrate_restore_ai_classifications: rows that say what an override of  *)
(* the job says are written again from the result.                         *)

Pending == {j \in overridden : history[j].class = "override"}

FindPending ==
    /\ At("pending")
    /\ IF "restore" \in applied THEN Goto("axis") /\ UNCHANGED <<applied, todo>>
       ELSE IF Pending = {} THEN Goto("axis") /\ applied' = applied \union {"restore"} /\ UNCHANGED todo
       ELSE Goto("restore") /\ todo' = Pending /\ UNCHANGED applied
    /\ UNCHANGED <<starts, codec, deferred, dataVars, reviews, userVars, ghosts>>

Deferred(j) == IF Undecodable(j) THEN deferred \union {j} ELSE deferred

Restore(j) ==
    /\ At("restore") /\ j \in todo /\ Repopulate(j)
    /\ deferred' = Deferred(j)
    /\ UNCHANGED <<pc, starts, codec, result, patched, overridden, applied, reviews, userVars, taken>>

(* Fault: the migration counts as done with results it could not read.     *)
MarkedAnyway(m) == applied \union {m}

(* A migration with deferred jobs is run again by the next start.          *)
Marked(m) == IF deferred = {} THEN applied \union {m} ELSE applied

RestoreEnds ==
    /\ At("restore") /\ todo = {} /\ Goto("axis")
    /\ applied' = Marked("restore") /\ deferred' = {}
    /\ UNCHANGED <<starts, codec, todo, dataVars, reviews, userVars, ghosts>>

----------------------------------------------------------------------------
(* _migrate_backfill_pattern_axis, with a commit after each of its steps.  *)

Moved(rows) == IF rows.class = "label" /\ rows.pattern = NoPattern THEN [rows EXCEPT !.pattern = "label"] ELSE rows

MoveLabels ==
    /\ At("axis")
    /\ IF "axis" \in applied THEN Goto("up") /\ UNCHANGED history
       ELSE Goto("labelled") /\ history' = [j \in Jobs |-> Moved(history[j])]
    /\ UNCHANGED <<starts, codec, todo, deferred, result, patched, overridden, applied, reviews,
                   userVars, ghosts>>

FindLabelled ==
    /\ At("labelled") /\ Goto("classes")
    /\ todo' = {j \in Jobs : history[j].class = "label"}
    /\ UNCHANGED <<starts, codec, deferred, dataVars, applied, reviews, userVars, ghosts>>

RestoreClass(j) ==
    /\ At("classes") /\ j \in todo /\ todo' = todo \ {j}
    /\ history' = IF Readable(j) THEN [history EXCEPT ![j].class = Populated(j).class] ELSE history
    /\ deferred' = Deferred(j)
    /\ UNCHANGED <<pc, starts, codec, result, patched, overridden, applied, reviews, userVars, ghosts>>

(* The rows that say a class and no pattern are new.                       *)
Completed(rows) == IF rows.class # "none" /\ rows.pattern = NoPattern THEN [rows EXCEPT !.pattern = "new"] ELSE rows

AxisEnds ==
    /\ At("classes") /\ todo = {} /\ Goto("up")
    /\ history' = [j \in Jobs |-> Completed(history[j])]
    /\ applied' = Marked("axis") /\ deferred' = {}
    /\ UNCHANGED <<starts, codec, todo, result, patched, overridden, reviews, userVars, ghosts>>

----------------------------------------------------------------------------
(* The server at work. *)

(* A job completes; its rows may fail to be written.                       *)
Complete(j) ==
    /\ At("up") /\ result[j] = "none"
    /\ result' = [result EXCEPT ![j] = IF codec THEN "encoded" ELSE "plain"]
    /\ \/ history' = [history EXCEPT ![j] = Populated(j)] /\ UNCHANGED missed
       \/ missed' = missed \union {j} /\ UNCHANGED history
    /\ UNCHANGED <<runVars, patched, overridden, applied, reviews, userVars, mirrored, taken>>

(* A reviewer overrides a classification; the result may not take the      *)
(* patch.                                                                  *)
Override(j) ==
    /\ At("up") /\ Readable(j) /\ j \notin overridden
    /\ overridden' = overridden \union {j}
    /\ history' = IF history[j] = NoRows THEN history ELSE [history EXCEPT ![j].class = "override"]
    /\ patched' \in {patched, patched \union {j}}
    /\ UNCHANGED <<runVars, result, applied, reviews, userVars, ghosts>>

RevokeGrant(u) ==
    /\ At("up") /\ u \in granted /\ granted' = granted \ {u} /\ taken' = taken \union {u}
    /\ UNCHANGED <<runVars, dataVars, applied, reviews, column, settings, links, mirrored, missed>>

ResetSetting(k) ==
    /\ At("up") /\ New(k) \in settings
    /\ settings' = settings \ {New(k)} /\ taken' = taken \union {New(k)}
    /\ UNCHANGED <<runVars, dataVars, applied, reviews, column, granted, links, mirrored, missed>>

Next ==
    \/ \E build \in BOOLEAN : Start(build)
    \/ Crash
    \/ RenameReviews \/ CreateReviews \/ CommitSchema \/ RenameSecret \/ SplitUrl
    \/ ClearHistory \/ FindMissing \/ BackfillEnds \/ FindPending \/ RestoreEnds
    \/ MoveLabels \/ FindLabelled \/ AxisEnds
    \/ \E j \in Jobs : Backfill(j) \/ Restore(j) \/ RestoreClass(j) \/ Complete(j) \/ Override(j)
    \/ \E u \in Users : RevokeGrant(u)
    \/ \E k \in Renamed : ResetSetting(k)

Spec == Init /\ [][Next]_vars

----------------------------------------------------------------------------
(* Every variable stays in its range. *)
TypeOK ==
    /\ pc \in {"down", "schema", "secret", "url", "recompute", "missing", "backfill", "pending",
               "restore", "axis", "labelled", "classes", "up"}
    /\ starts \in 0 .. MaxStarts /\ codec \in BOOLEAN
    /\ todo \subseteq Jobs /\ deferred \subseteq Jobs
    /\ result \in [Jobs -> {"none", "plain", "encoded", "malformed"}]
    /\ history \in [Jobs -> [class : {"none", "root", "label", "override"},
                             pattern : {NoPattern, "label", "new"}, url : BOOLEAN]]
    /\ patched \subseteq overridden /\ overridden \subseteq Jobs
    /\ applied \subseteq Renamed \union {"recompute", "restore", "axis"}
    /\ reviews \in {"legacy", "renamed", "created", "rebuilt", "stranded"}
    /\ granted \subseteq Users /\ links \subseteq Jobs

(* However often the migration is cut short, a server that is up has the   *)
(* history of every result its build can read, but for the jobs it failed  *)
(* to record itself.                                                       *)
HistoryComplete ==
    At("up") => \A j \in Jobs : Readable(j) /\ history[j] = NoRows => j \in missed

(* A migration counts as done only when nothing is left of what it is to   *)
(* repair, in results that some build can read.                            *)
DoneIsDone ==
    \A j \in Jobs : result[j] \in {"plain", "encoded"} =>
        /\ "axis" \in applied => history[j].class # "label"
        /\ "restore" \in applied => j \notin mirrored

(* What an admin took back does not come back with a restart.              *)
TakenStaysTaken == taken \cap (granted \union settings) = {}
=============================================================================
