----------------------------- MODULE Broadcast -----------------------------
(***************************************************************************)
(* A _PayloadBroadcast: producers on any thread publish payloads, and each *)
(* subscriber has a bounded queue that its own loop fills and empties.     *)
(* The audit stream reports the payloads it had to drop as a gap; the log  *)
(* stream first shows the end of the log file, and then skips the lines of *)
(* the queue that were already shown.                                      *)
(*                                                                         *)
(* Payloads are numbered as they are made; a line is in the log file before*)
(* it is published.  Rendering and filters are left out.                   *)
(***************************************************************************)
EXTENDS Naturals, Sequences, FiniteSets, SequencesExt

CONSTANTS
    Threads,        \* producers
    QueueSize,      \* _SSE_QUEUE_MAXSIZE
    Lines,          \* of the log's end a client asked for
    MaxPayloads

QueueAssumption == QueueSize \in Nat \ {0} /\ Lines \in Nat

VARIABLES
    stream,     \* "audit" or "log"
    made,       \* payloads so far: stored audit rows, lines of the log file
    producer,   \* for each thread: the payload and the listeners it saw
    subscribed, \* the subscriber is registered
    since,      \* the payloads there were when it registered
    calls,      \* callbacks the loop was asked for, in order
    queue, dropped,
    step,       \* "away", "tail", "showing", "reading", "gap", "rendering", "gone"
    tail,       \* lines of the file's end still to show
    seen,       \* tail_seen: lines not to show again
    payload,    \* taken from the queue
    shown,      \* what the client got, in order: payloads,
    gaps        \* and the number it was told were dropped

vars == <<stream, made, producer, subscribed, since, calls, queue, dropped, step, tail, seen, payload,
          shown, gaps>>

Quiet == [payload |-> 0, sees |-> FALSE, step |-> "idle"]

Init ==
    /\ stream \in {"audit", "log"}
    /\ made = 0 /\ producer = [t \in Threads |-> Quiet]
    /\ subscribed = FALSE /\ since = 0
    /\ calls = <<>> /\ queue = <<>> /\ dropped = 0
    /\ step = "away" /\ tail = <<>> /\ seen = {} /\ payload = 0
    /\ shown = <<>> /\ gaps = 0

ReaderUnchanged == UNCHANGED <<stream, since, tail, seen, payload, shown, gaps>>

(* The row is stored, or the line written, and then it is to be published. *)
Make(t) ==
    /\ producer[t].step = "idle" /\ made < MaxPayloads /\ made' = made + 1
    /\ producer' = [producer EXCEPT ![t] = [payload |-> made + 1, sees |-> FALSE, step |-> "made"]]
    /\ UNCHANGED <<subscribed, calls, queue, dropped, step>> /\ ReaderUnchanged

(* publish copies the listeners under its lock ...                         *)
CopyListeners(t) ==
    /\ producer[t].step = "made"
    /\ producer' = [producer EXCEPT ![t] =
                        [payload |-> @.payload, sees |-> subscribed, step |-> "copied"]]
    /\ UNCHANGED <<made, subscribed, calls, queue, dropped, step>> /\ ReaderUnchanged

(* ... and calls their loops without it.                                   *)
CallLoop(t) ==
    /\ producer[t].step = "copied"
    /\ producer' = [producer EXCEPT ![t] = Quiet]
    /\ calls' = IF producer[t].sees THEN Append(calls, producer[t].payload) ELSE calls
    /\ UNCHANGED <<made, subscribed, queue, dropped, step>> /\ ReaderUnchanged

(* Fault: a payload more than the queue takes is forgotten.                *)
Forgotten == 0

(* ... but counted.                                                        *)
Dropped == 1

(* _enqueue, on the subscriber's loop: what the queue cannot take is lost  *)
Enqueue ==
    /\ calls # <<>> /\ calls' = Tail(calls)
    /\ IF Len(queue) < QueueSize
       THEN queue' = Append(queue, Head(calls)) /\ UNCHANGED dropped
       ELSE dropped' = dropped + Dropped /\ UNCHANGED queue
    /\ UNCHANGED <<made, producer, subscribed, step>> /\ ReaderUnchanged

----------------------------------------------------------------------------
(* stream_audit_events and stream_logs. *)

LogTail == LET last == [i \in 1 .. made |-> i] IN
           SubSeq(last, IF made > Lines THEN made - Lines + 1 ELSE 1, made)

Subscribe ==
    /\ step = "away" /\ subscribed' = TRUE /\ since' = made
    /\ step' = IF stream = "log" THEN "tail" ELSE "reading"
    /\ UNCHANGED <<stream, made, producer, calls, queue, dropped, tail, seen, payload, shown, gaps>>

(* Another thread reads the end of the file.                               *)
ReadTail ==
    /\ step = "tail" /\ step' = "showing" /\ tail' = LogTail
    /\ UNCHANGED <<stream, made, producer, subscribed, since, calls, queue, dropped, seen, payload,
                   shown, gaps>>

(* Fault: nothing is remembered of the file's end.                         *)
ForgetLine == seen

RememberLine == seen \union {Head(tail)}

ShowTail ==
    /\ step = "showing"
    /\ IF tail = <<>> THEN step' = "reading" /\ UNCHANGED <<tail, seen, shown>>
       ELSE /\ tail' = Tail(tail) /\ seen' = RememberLine
            /\ shown' = Append(shown, Head(tail)) /\ UNCHANGED step
    /\ UNCHANGED <<stream, made, producer, subscribed, since, calls, queue, dropped, payload, gaps>>

Take ==
    /\ step = "reading" /\ queue # <<>>
    /\ payload' = Head(queue) /\ queue' = Tail(queue) /\ step' = "gap"
    /\ UNCHANGED <<stream, made, producer, subscribed, since, calls, dropped, tail, seen, shown, gaps>>

(* Only the audit stream names its gaps.                                   *)
TellGap ==
    /\ step = "gap" /\ step' = "rendering"
    /\ IF stream = "audit" THEN gaps' = gaps + dropped /\ dropped' = 0
       ELSE UNCHANGED <<gaps, dropped>>
    /\ UNCHANGED <<stream, made, producer, subscribed, since, calls, queue, tail, seen, payload, shown>>

Render ==
    /\ step = "rendering" /\ step' = "reading"
    /\ IF payload \in seen THEN seen' = seen \ {payload} /\ UNCHANGED shown
       ELSE shown' = Append(shown, payload) /\ UNCHANGED seen
    /\ UNCHANGED <<stream, made, producer, subscribed, since, calls, queue, dropped, tail, payload,
                   gaps>>

(* The client leaves: a producer may still have it in its copy.            *)
Leave ==
    /\ step \notin {"away", "gone"} /\ step' = "gone" /\ subscribed' = FALSE
    /\ UNCHANGED <<stream, made, producer, since, calls, queue, dropped, tail, seen, payload, shown,
                   gaps>>

Next ==
    \/ \E t \in Threads : Make(t) \/ CopyListeners(t) \/ CallLoop(t)
    \/ Enqueue \/ Subscribe \/ ReadTail \/ ShowTail \/ Take \/ TellGap \/ Render \/ Leave

Spec == Init /\ [][Next]_vars

----------------------------------------------------------------------------
(* Every variable stays in its range. *)
TypeOK ==
    /\ made \in 0 .. MaxPayloads /\ since \in 0 .. made /\ Len(queue) <= QueueSize
    /\ dropped \in 0 .. MaxPayloads /\ gaps \in 0 .. MaxPayloads
    /\ seen \subseteq 1 .. made /\ ToSet(shown) \subseteq 1 .. made

CaughtUp ==
    step = "reading" /\ queue = <<>> /\ calls = <<>> /\ \A t \in Threads : producer[t].step = "idle"

(* A subscriber that caught up got every payload made since it came exactly*)
(* once, or was told of the gap (which may count payloads from just before *)
(* it came); of the log it got each line once if its queue never overflowed*)
NothingIsLost ==
    /\ \A i, j \in DOMAIN shown : i # j => shown[i] # shown[j]
    /\ CaughtUp =>
         LET missing == (since + 1 .. made) \ ToSet(shown) IN
         IF stream = "audit"
         THEN dropped = 0 /\ gaps \in Cardinality(missing) .. made - Len(shown)
         ELSE Cardinality(missing) <= dropped
=============================================================================
