----------------------------- MODULE AuditTrail -----------------------------
(***************************************************************************)
(* The audit trail: rows chained by hashes, the volume guard of failed     *)
(* logins, retention, the verification of the chain, and its export while  *)
(* rows are written and pruned.                                            *)
(*                                                                         *)
(* Ids are never reused, so the id of a chained row stands for its hash:   *)
(* prev is the id of the row it links to, 0 for the all-zero hash.  What a *)
(* row says is left out, but for the actor of a failed login, and so are   *)
(* redaction and the fields of an exported row.                            *)
(***************************************************************************)
EXTENDS Integers, Sequences, FiniteSets, FiniteSetsExt

CONSTANTS
    MaxWait,            \* how long an insert may wait for the lock
    Actors, Accounts,   \* names typed at the login, those of accounts
    Limit,              \* audit_auth_failure_max_per_minute
    Multiplier,         \* AUDIT_GLOBAL_THROTTLE_MULTIPLIER
    Window,             \* the minute the budgets are for,
    Retention,          \* audit_retention_days, in the same unit,
    Interval,           \* _AUDIT_PRUNE_INTERVAL_SECONDS
    MaxRows,            \* audit_max_rows, 0 for no cap
    Formats,            \* those of an export,
    Batch, Flush,       \* and its rows per read and per flush
    MaxClock, MaxId, MaxLost    \* bounds

BudgetAssumption == Limit \in Nat \ {0} /\ Multiplier \in Nat \ {0} /\ Accounts \subseteq Actors
SizesAssumption == Batch \in Nat \ {0} /\ Flush \in Nat \ {0} /\ Window \in Nat /\ MaxRows \in Nat

VARIABLES
    clock,
    rows, lastId,   \* audit_events and its sequence
    checkpoint,     \* audit_chain_state
    pruning,        \* "idle", or the age prune is done
    prunedAt,       \* _last_audit_prune_at, -1 for never
    export,
    lost            \* ids of rows that vanished, not by retention

vars == <<clock, rows, lastId, checkpoint, pruning, prunedAt, export, lost>>

NoActor == "none"       \* of a row that is no failed login
NoExport == [step |-> "idle", format |-> "json", last |-> 0, batch |-> <<>>, count |-> 0,
             buffer |-> <<>>, sent |-> <<>>, first |-> {}]

(* A trail whose first rows may be from before the chain.                  *)
Legacy(id) == [id |-> id, at |-> 0, actor |-> NoActor, rescue |-> FALSE, chained |-> FALSE, prev |-> 0]

Init ==
    /\ clock = 0
    /\ rows \in {{}, {Legacy(1)}} /\ lastId = Cardinality(rows)
    /\ checkpoint = [through |-> 0, hash |-> 0]
    /\ pruning = "idle" /\ prunedAt = -1
    /\ export = NoExport /\ lost = {}

Chained == {r \in rows : r.chained}
Latest(set) == CHOOSE r \in set : \A s \in set : s.id <= r.id
Oldest(set) == CHOOSE r \in set : \A s \in set : r.id <= s.id

Tick == /\ clock < MaxClock /\ clock' = clock + 1
        /\ UNCHANGED <<rows, lastId, checkpoint, pruning, prunedAt, export, lost>>

----------------------------------------------------------------------------
(* record_audit and insert_audit_event. *)

(* Failed logins in the window.                                            *)
Failed(since) == {r \in rows : r.actor # NoActor /\ r.at >= since}
Spent(actor, since) ==
    \/ Cardinality({r \in Failed(since) : r.actor = actor}) >= Limit
    \/ Cardinality(Failed(since)) >= Limit * Multiplier

(* Fault: each account is rescued once, however many there are.            *)
RescuedOnce(actor, since) ==
    /\ actor \in Accounts
    /\ ~\E r \in Failed(since) : r.actor = actor

(* An account without a row in the window, while few have been rescued.    *)
Rescued(actor, since) ==
    /\ actor \in Accounts
    /\ ~\E r \in Failed(since) : r.actor = actor
    /\ Cardinality({r \in Failed(since) : r.rescue}) < Limit

Decision(actor, since) ==
    IF actor = NoActor \/ ~Spent(actor, since) THEN "store"
    ELSE IF Rescued(actor, since) THEN "rescue"
    ELSE "drop"

(* The hash of the newest chained row.                                     *)
TailHash == IF Chained = {} THEN 0 ELSE Latest(Chained).id

(* One transaction decides, reads the tail and inserts; the window is from *)
(* before it waited for the lock.  A row that is dropped, or whose lock    *)
(* stays contended through all attempts, is not written.                   *)
Insert(actor, wait) ==
    LET decision == Decision(actor, clock - wait - Window) IN
    /\ wait <= clock /\ (actor = NoActor => wait = 0) /\ lastId < MaxId
    /\ decision # "drop"
    /\ lastId' = lastId + 1
    /\ rows' = rows \union {[id |-> lastId + 1, at |-> clock, actor |-> actor,
                             rescue |-> decision = "rescue", chained |-> TRUE, prev |-> TailHash]}
    /\ UNCHANGED <<clock, checkpoint, pruning, prunedAt, export, lost>>

----------------------------------------------------------------------------
(* prune_audit_events_periodically. *)

(* Fault: only the first cut is recorded.                                  *)
CheckpointOnce(deleted) ==
    IF deleted # {} /\ Latest(deleted).chained /\ checkpoint.through = 0
    THEN [through |-> Latest(deleted).id, hash |-> Latest(deleted).id]
    ELSE checkpoint

(* It names the newest row deleted, if chained, and only moves forward.    *)
Checkpoint(deleted) ==
    IF deleted # {} /\ Latest(deleted).chained /\ Latest(deleted).id > checkpoint.through
    THEN [through |-> Latest(deleted).id, hash |-> Latest(deleted).id]
    ELSE checkpoint

Delete(deleted) == rows' = rows \ deleted /\ checkpoint' = Checkpoint(deleted)

Due == prunedAt = -1 \/ clock - prunedAt >= Interval

PruneAge ==
    /\ pruning = "idle" /\ Due
    /\ Delete({r \in rows : r.at < clock - Retention})
    /\ pruning' = "cap"
    /\ UNCHANGED <<clock, lastId, prunedAt, export, lost>>

(* The newest by time, then by id.                                         *)
Newer(r, s) == r.at > s.at \/ (r.at = s.at /\ r.id > s.id)
OverCap == IF MaxRows = 0 THEN {} ELSE {r \in rows : Cardinality({s \in rows : Newer(s, r)}) >= MaxRows}

PruneCap ==
    /\ pruning = "cap" /\ pruning' = "idle"
    /\ Delete(OverCap) /\ prunedAt' = clock
    /\ UNCHANGED <<clock, lastId, export, lost>>

(* A failed prune is tried again without waiting for the interval.         *)
PruneFails ==
    /\ pruning = "cap" /\ pruning' = "idle"
    /\ UNCHANGED <<clock, rows, lastId, checkpoint, prunedAt, export, lost>>

(* A row is lost by other means.                                           *)
Lose(r) ==
    /\ Cardinality(lost) < MaxLost /\ rows' = rows \ {r} /\ lost' = lost \union {r.id}
    /\ UNCHANGED <<clock, lastId, checkpoint, pruning, prunedAt, export>>

----------------------------------------------------------------------------
(* verify_audit_chain, on the newest rows. *)

View(n) == {r \in rows : Cardinality({s \in rows : s.id > r.id}) < n}
Below(r) == {s \in Chained : s.id < r.id}

(* Where the walk of a view starts: the row before it, what the checkpoint *)
(* names, or nothing.                                                      *)
Seed(view) ==
    LET first == Oldest(view) IN
    IF Below(first) # {} THEN Latest(Below(first)).id
    ELSE IF first.prev # 0 /\ checkpoint.through < first.id /\ checkpoint.hash = first.prev THEN first.prev
    ELSE 0

Predecessor(view, r) ==
    LET below == {s \in view : s.chained /\ s.id < r.id} IN
    IF below = {} THEN Seed(view) ELSE Latest(below).id

(* A row without a hash is of the old era only before the first with one.  *)
Broken(view) ==
    {r \in view : IF r.chained THEN r.prev # Predecessor(view, r) ELSE Below(r) # {}}

Verifies(n) == Broken(View(n)) = {}

----------------------------------------------------------------------------
(* export_audit_events_endpoint. *)

StartExport(format) ==
    /\ export.step = "idle"
    /\ export' = [export EXCEPT !.step = "reading", !.format = format, !.first = {r.id : r \in rows}]
    /\ UNCHANGED <<clock, rows, lastId, checkpoint, pruning, prunedAt, lost>>

(* Fault: the next batch is found by its offset.                           *)
AfterOffset == {r \in rows : Cardinality({s \in rows : s.id < r.id}) >= export.count}

(* The rows after the last one read.                                       *)
After == {r \in rows : r.id > export.last}

NextBatch == {r \in After : Cardinality({s \in After : s.id < r.id}) < Batch}
InOrder(set) == [i \in 1 .. Cardinality(set) |->
                    CHOOSE id \in {r.id : r \in set} : Cardinality({r \in set : r.id < id}) = i - 1]

ReadBatch ==
    /\ export.step = "reading"
    /\ export' = IF NextBatch = {} THEN [export EXCEPT !.step = "ending"]
                 ELSE [export EXCEPT !.step = "writing", !.batch = InOrder(NextBatch),
                                     !.last = Latest(NextBatch).id]
    /\ UNCHANGED <<clock, rows, lastId, checkpoint, pruning, prunedAt, lost>>

(* A JSON event is a chunk of its own; CSV rows are buffered.              *)
Written(buffer, id) ==
    IF export.format = "csv" /\ Len(buffer) + 1 < Flush THEN <<Append(buffer, id), <<>>>>
    ELSE <<<<>>, Append(buffer, id)>>

(* Short of a full batch, there is nothing more.                           *)
AfterEvent == IF Len(export.batch) > 1 THEN "writing"
              ELSE IF export.count % Batch = Batch - 1 THEN "reading" ELSE "ending"

WriteEvent ==
    LET id == Head(export.batch) IN
    /\ export.step = "writing"
    /\ export' = [export EXCEPT !.step = AfterEvent, !.batch = Tail(@), !.count = @ + 1,
                                !.buffer = Written(@, id)[1],
                                !.sent = @ \o Written(export.buffer, id)[2]]
    /\ UNCHANGED <<clock, rows, lastId, checkpoint, pruning, prunedAt, lost>>

EndExport ==
    /\ export.step = "ending"
    /\ export' = [export EXCEPT !.step = "done", !.sent = @ \o export.buffer, !.buffer = <<>>]
    /\ UNCHANGED <<clock, rows, lastId, checkpoint, pruning, prunedAt, lost>>

(* The client goes away: what was counted is recorded.                     *)
CutExport ==
    /\ export.step \in {"reading", "writing"} /\ export.count > 0
    /\ export' = [export EXCEPT !.step = "cut", !.batch = <<>>]
    /\ UNCHANGED <<clock, rows, lastId, checkpoint, pruning, prunedAt, lost>>

Next ==
    \/ Tick
    \/ \E actor \in Actors \union {NoActor}, wait \in 0 .. MaxWait : Insert(actor, wait)
    \/ PruneAge \/ PruneCap \/ PruneFails
    \/ \E r \in rows : Lose(r)
    \/ \E format \in Formats : StartExport(format)
    \/ ReadBatch \/ WriteEvent \/ EndExport \/ CutExport

Spec == Init /\ [][Next]_vars

----------------------------------------------------------------------------
(* Every variable stays in its range. *)
TypeOK ==
    /\ clock \in 0 .. MaxClock /\ lastId \in 0 .. MaxId
    /\ \A r \in rows : r.id \in 1 .. lastId /\ r.actor \in Actors \union {NoActor} /\ r.prev < r.id
    /\ checkpoint.through \in 0 .. lastId /\ checkpoint.hash \in {0, checkpoint.through}
    /\ pruning \in {"idle", "cap"} /\ lost \subseteq 1 .. lastId
    /\ export.step \in {"idle", "reading", "writing", "ending", "done", "cut"}

(* Whatever retention cut off, the whole trail and each of its newest parts*)
(* verify, unless a row was lost.                                          *)
TrailVerifies == lost = {} => \A n \in 1 .. Cardinality(rows) : Verifies(n)

(* A chained row that was lost, and has chained rows after it, is missed.  *)
LossIsSeen ==
    \A id \in lost :
        (\E r \in Chained : r.prev = id) /\ checkpoint.hash # id => ~Verifies(Cardinality(rows))

(* "The window total never exceeds" the server's budget and one more of    *)
(* rescues, and no account takes two of them.                              *)
WindowIsBounded ==
    \A since \in 0 .. clock :
        LET window == {r \in Failed(since) : r.at <= since + Window} IN
        /\ Cardinality(window) <= Limit * (Multiplier + 1)
        /\ \A r, s \in window : r.rescue /\ s.rescue /\ r.actor = s.actor => r = s

Sent == {export.sent[i] : i \in DOMAIN export.sent}

(* An export that ended wrote each row once, in order, and every row that  *)
(* was there throughout.                                                   *)
ExportIsWhole ==
    export.step = "done" =>
        /\ \A i \in 1 .. Len(export.sent) - 1 : export.sent[i] < export.sent[i + 1]
        /\ \A r \in rows : r.id \in export.first => r.id \in Sent
=============================================================================
