------------------------------ MODULE Streams ------------------------------
(***************************************************************************)
(* One connection of a browser to a stream of server-sent events, and the  *)
(* changes it is told of.  A change is committed first and announced later:*)
(* the announcement sets the asyncio.Event that the connection registered. *)
(*                                                                         *)
(* Three generators serve connections: stream_navbar_counts ("navbar"),    *)
(* stream_multiplexed ("multiplexed") with the counts and plain topics, and*)
(* _make_sse_stream ("plain") with one plain topic.  A count is read again *)
(* by the server and sent if it differs; of a plain topic only "refresh" is*)
(* sent, and the browser fetches it.  One plain topic stands for all.      *)
(***************************************************************************)
EXTENDS Naturals, FiniteSets

CONSTANTS
    MaxValue,       \* bound on the counts, and on versions of the plain topic
    MaxChanges,     \* bound on changes
    MaxFailures     \* bound on reads of the database that fail

Counts == {"active", "mention"}
Topics == Counts \union {"pending", "plain"}

VARIABLES
    value,      \* what the topics are in the database
    owed,       \* topics that changed and were not announced yet
    isAdmin,    \* the user's role now
    changes, failures,
    kind,       \* the generator, "none" before the browser connects
    step,       \* "away", "hello", "wait", "told", "awake", "gone"
    registered, \* listener sets that hold an event of this connection
    event,      \* those of its events that are set
    todo,       \* topics to look at before it waits (again)
    reading,    \* "no", "role", "count", "sent"
    copy,       \* the count that was read
    shown,      \* what the browser shows
    retry,      \* _PendingFeed.retry_at is set
    failed      \* counts whose last read failed

vars == <<value, owed, isAdmin, changes, failures, kind, step, registered, event, todo, reading, copy,
          shown, retry, failed>>
worldVars == <<value, owed, isAdmin, changes>>

Init ==
    /\ value = [t \in Topics |-> 0] /\ owed = {} /\ isAdmin \in BOOLEAN
    /\ changes = 0 /\ failures = 0
    /\ kind = "none" /\ step = "away" /\ registered = {} /\ event = {}
    /\ todo = {} /\ reading = "no" /\ copy = 0
    /\ shown = [t \in Topics |-> 0] /\ retry = FALSE /\ failed = {}

StreamUnchanged == UNCHANGED <<kind, step, registered, todo, reading, copy, shown, retry, failed>>

(* Something commits a change.                                             *)
Change(t) ==
    /\ changes < MaxChanges /\ changes' = changes + 1
    /\ \E v \in 0 .. MaxValue : v # value[t] /\ value' = [value EXCEPT ![t] = v]
    /\ owed' = owed \union {t}
    /\ UNCHANGED <<isAdmin, failures, event>> /\ StreamUnchanged

(* notify_active_count_changed, notify_mentions_changed and the others.    *)
Announce(t) ==
    /\ t \in owed /\ owed' = owed \ {t}
    /\ event' = event \union ({t} \cap registered)
    /\ UNCHANGED <<value, isAdmin, changes, failures>> /\ StreamUnchanged

Demote ==
    /\ isAdmin /\ isAdmin' = FALSE
    /\ UNCHANGED <<value, owed, changes, failures, event>> /\ StreamUnchanged

----------------------------------------------------------------------------
(* Topics of a connection: those of a count, of admins, of the page. *)
Asked(k) ==
    (IF k = "plain" THEN {} ELSE Counts \union (IF isAdmin THEN {"pending"} ELSE {}))
        \union (IF k = "navbar" THEN {} ELSE {"plain"})

(* It registers, and sends the counts.  A page is fetched afresh.          *)
Connect(k) ==
    /\ step = "away" /\ kind' = k
    /\ registered' = Asked(k)
    /\ todo' = Asked(k) \ {"plain"}
    /\ step' = IF k = "plain" THEN "wait" ELSE "hello"
    /\ shown' = [shown EXCEPT !["plain"] = value["plain"]]
    /\ UNCHANGED <<worldVars, failures, event, reading, copy, retry, failed>>

(* It looks at the plain topic first, and at the pending users last.       *)
Turn == [t \in Topics |->
            CASE t = "plain" -> 1 [] t = "active" -> 2 [] t = "mention" -> 3 [] OTHER -> 4]
Topic == CHOOSE t \in todo : \A u \in todo : Turn[t] <= Turn[u]
Reading == step \in {"hello", "awake"} /\ todo # {}

(* The event is cleared before the database is read.                       *)
Start ==
    /\ Reading /\ Topic # "plain" /\ reading = "no"
    /\ reading' = IF Topic # "pending" THEN "count"
                  ELSE IF "pending" \in registered THEN "role" ELSE "sent"
    /\ event' = IF step = "hello" THEN event ELSE event \ {Topic}
    /\ UNCHANGED <<worldVars, failures, kind, step, registered, todo, copy, shown, retry, failed>>

(* _PendingFeed.step: whoever is no admin any more hears no more of it.    *)
CheckRole ==
    /\ Reading /\ reading = "role"
    /\ IF isAdmin
       THEN reading' = "count" /\ UNCHANGED <<registered, shown, retry>>
       ELSE /\ reading' = "sent" /\ registered' = registered \ {"pending"}
            /\ shown' = [shown EXCEPT !["pending"] = 0] /\ retry' = FALSE
    /\ UNCHANGED <<worldVars, failures, kind, step, event, todo, copy, failed>>

ReadCount ==
    /\ Reading /\ reading = "count" /\ reading' = "send"
    /\ copy' = value[Topic]
    /\ failed' = failed \ {Topic} /\ retry' = (retry /\ Topic # "pending")
    /\ UNCHANGED <<worldVars, failures, kind, step, registered, event, todo, shown>>

(* Fault: a failed count is not tried again.                               *)
RetryNever == retry

(* _defer: the pending count is tried again, before the next keepalive.    *)
RetryLater == IF Topic = "pending" THEN TRUE ELSE retry

(* On connect a count that cannot be read is shown as 0; later it stays.   *)
ReadFails ==
    /\ Reading /\ reading \in {"role", "count"} /\ failures < MaxFailures
    /\ failures' = failures + 1 /\ reading' = "sent"
    /\ failed' = IF Topic = "pending" THEN failed ELSE failed \union {Topic}
    /\ retry' = RetryLater
    /\ UNCHANGED <<worldVars, kind, step, registered, event, todo, copy, shown>>

Send ==
    /\ Reading /\ reading = "send" /\ reading' = "sent"
    /\ shown' = [shown EXCEPT ![Topic] = copy]
    /\ UNCHANGED <<worldVars, failures, kind, step, registered, event, todo, copy, retry, failed>>

(* A plain topic of a multiplexed connection.                              *)
Refresh ==
    /\ Reading /\ Topic = "plain" /\ reading = "no" /\ reading' = "sent"
    /\ event' = event \ {Topic} /\ shown' = [shown EXCEPT ![Topic] = value[Topic]]
    /\ UNCHANGED <<worldVars, failures, kind, step, registered, todo, copy, retry, failed>>

Advance ==
    /\ Reading /\ reading = "sent" /\ reading' = "no"
    /\ todo' = todo \ {Topic} /\ step' = IF todo = {Topic} THEN "wait" ELSE step
    /\ UNCHANGED <<worldVars, failures, kind, registered, event, copy, shown, retry, failed>>

----------------------------------------------------------------------------
(* Woken by an event, or by a retry that has come due.                     *)
Wake(due) ==
    /\ step = "wait" /\ kind # "plain" /\ (event # {} \/ due) /\ (due => retry)
    /\ step' = "awake"
    /\ todo' = event \union (IF due THEN {"pending"} ELSE {})
    /\ UNCHANGED <<worldVars, failures, kind, registered, event, reading, copy, shown, retry, failed>>

(* _make_sse_stream sends "refresh", or a keepalive after a while ...      *)
Tell(keepalive) ==
    /\ step = "wait" /\ kind = "plain" /\ (event # {} <=> ~keepalive)
    /\ step' = "told"
    /\ shown' = IF keepalive THEN shown ELSE [shown EXCEPT !["plain"] = value["plain"]]
    /\ UNCHANGED <<worldVars, failures, kind, registered, event, todo, reading, copy, retry, failed>>

(* ... and when that is on its way, clears the event and waits again.      *)
Again ==
    /\ step = "told" /\ step' = "wait" /\ event' = {}
    /\ UNCHANGED <<worldVars, failures, kind, registered, todo, reading, copy, shown, retry, failed>>

(* The client goes away: the finally of the generator removes its events.  *)
(* That of stream_navbar_counts fails, on a variable that has no value yet,*)
(* if it was still sending the first counts.                               *)
LeftBehind == IF kind = "navbar" /\ step = "hello" THEN registered ELSE {}

Leave ==
    /\ step \in {"hello", "wait", "told", "awake"} /\ step' = "gone"
    /\ registered' = LeftBehind /\ todo' = {} /\ reading' = "no"
    /\ UNCHANGED <<worldVars, failures, kind, event, copy, shown, retry, failed>>

Next ==
    \/ \E t \in Topics : Change(t) \/ Announce(t)
    \/ Demote
    \/ \E k \in {"navbar", "multiplexed", "plain"} : Connect(k)
    \/ Start \/ CheckRole \/ ReadCount \/ ReadFails \/ Send \/ Refresh \/ Advance
    \/ \E due \in BOOLEAN : Wake(due)
    \/ \E keepalive \in BOOLEAN : Tell(keepalive)
    \/ Again \/ Leave

Spec == Init /\ [][Next]_vars

----------------------------------------------------------------------------
(* Every variable stays in its range. *)
TypeOK ==
    /\ value \in [Topics -> 0 .. MaxValue] /\ shown \in [Topics -> 0 .. MaxValue]
    /\ owed \subseteq Topics /\ registered \subseteq Topics /\ event \subseteq Topics
    /\ step \in {"away", "hello", "wait", "told", "awake", "gone"}
    /\ reading \in {"no", "role", "count", "send", "sent"}

(* A connection that waits and has not been told of anything new shows what*)
(* the database says: counts that a failed read left behind, and the       *)
(* pending users of somebody who is no admin any more, excepted.  A failed *)
(* read of the pending users is tried again.                               *)
BadgesAreTrue ==
    step = "wait" /\ kind # "plain" =>
        \A t \in registered \ (event \union owed \union failed) :
            shown[t] = value[t] \/ (t = "pending" /\ (retry \/ ~isAdmin))
=============================================================================
