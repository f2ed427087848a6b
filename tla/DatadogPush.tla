----------------------------- MODULE DatadogPush -----------------------------
(***************************************************************************)
(* Pushing the failures of a job, or of a build of a child job, to Datadog:*)
(* one event per failure and then one request with a gauge per category,   *)
(* the scoreboard.  Gauges keep their last value: only a new point resets  *)
(* one.  Pushes overlap, requests fail, classifications change in between. *)
(***************************************************************************)
EXTENDS Naturals, FiniteSets, Sequences

CONSTANTS Pushers,      \* the pushes the server can be serving at a time
          Scopes,       \* the job and the builds of its child jobs
          Readable,     \* the tag the names of a scope are sanitized to
          Stored,       \* the failures each scope can have when it is read
          Vocabulary,   \* the classifications that are stored, and "unknown"
          Others,       \* what older releases stored
          Threshold,    \* _CIRCUIT_BREAKER_THRESHOLD
          MaxClock, MaxFailures

Broken == "broken"      \* an entry that is no dict
Values == Vocabulary \cup Others \cup {Broken}

DatadogAssumption == /\ "unknown" \in Vocabulary
                     /\ \A s \in Scopes : Stored[s] \subseteq Seq(Values)
                     /\ Threshold \in Nat \ {0}

NoPush == [step |-> "idle"]

VARIABLES clock,
          push,
          board,        \* <<identity, label>> -> [at, value], the newest point
          accepted,     \* the newest series Datadog took, by scope
          failures

vars == <<clock, push, board, accepted, failures>>

Init == /\ clock = 0
        /\ push = [p \in Pushers |-> NoPush]
        /\ board = [key \in {} |-> 0] /\ accepted = [s \in {} |-> 0]
        /\ failures = 0

Fails == failures < MaxFailures /\ failures' = failures + 1
Becomes(p, q) == push' = [push EXCEPT ![p] = q]

-----------------------------------------------------------------------------
(* The series of a push *)

ReadableOnly(s) == Readable[s]
Identity(s) == <<Readable[s], s>>       \* with the digest of the scope

MetricLabel(value) == IF value \in Vocabulary THEN value ELSE "unknown"
Counted(q, label) ==
    IF q.classify
    THEN Cardinality({i \in DOMAIN q.failures :
                        q.failures[i] # Broken /\ MetricLabel(q.failures[i]) = label})
    ELSE 0

Reported(q) == Vocabulary

(* A point shows unless there is a newer one.                              *)
Posted(q) ==
    LET keys == {<<Identity(q.scope), label>> : label \in Reported(q)}
        newer(key) == key \in DOMAIN board /\ board[key].at > q.at
    IN  [key \in keys \cup DOMAIN board |->
            IF key \in keys /\ ~newer(key)
            THEN [at |-> q.at, value |-> Counted(q, key[2])] ELSE board[key]]

-----------------------------------------------------------------------------
(* One push *)

(* The stored result is read, then history, links and reviews; the time of *)
(* the push is taken after them.                                           *)
Begin(p, s, found, classify) ==
    /\ push[p].step = "idle"
    /\ push' = [push EXCEPT ![p] =
          [step |-> "context", scope |-> s, classify |-> classify,
           failures |-> found, next |-> 1, pushed |-> 0, errors |-> 0,
           skipped |-> 0, consecutive |-> 0, at |-> 0, success |-> FALSE]]
    /\ UNCHANGED <<clock, board, accepted, failures>>

BuildContext(p) ==
    /\ push[p].step = "context"
    /\ push' = [push EXCEPT ![p].step = "create"]
    /\ UNCHANGED <<clock, board, accepted, failures>>

(* Keys that cannot be right end the push before it starts.                *)
CreateExporter(p) ==
    /\ push[p].step = "create"
    /\ \/ /\ Becomes(p, [push[p] EXCEPT !.at = clock,
                    !.step = IF push[p].failures = << >> THEN "series" ELSE "event"])
          /\ UNCHANGED failures
       \/ Fails /\ push' = [push EXCEPT ![p] = NoPush]
    /\ UNCHANGED <<clock, board, accepted>>

(* After the last failure, or Threshold failed events in a row, comes the  *)
(* scoreboard.                                                             *)
Tripped(q) == q.consecutive + 1 >= Threshold
SkipsNothing(q) == 0
Skipping(q) == IF Tripped(q) THEN Len(q.failures) - q.next ELSE 0

Failed(q) ==
    [q EXCEPT !.errors = @ + 1, !.consecutive = @ + 1, !.next = @ + 1,
              !.skipped = Skipping(q),
              !.step = IF Tripped(q) \/ q.next = Len(q.failures) THEN "series" ELSE "event"]
Emitted(q) ==
    [q EXCEPT !.pushed = @ + 1, !.consecutive = 0, !.next = @ + 1,
              !.step = IF q.next = Len(q.failures) THEN "series" ELSE "event"]

Event(p) ==
    LET q == push[p] IN
    /\ q.step = "event"
    /\ IF q.failures[q.next] = Broken
       THEN Becomes(p, Failed(q)) /\ UNCHANGED failures
       ELSE \/ Becomes(p, Emitted(q)) /\ UNCHANGED failures
            \/ Fails /\ Becomes(p, Failed(q))
    /\ UNCHANGED <<clock, board, accepted>>

(* Credentials that are refused stop the whole push, scoreboard included.  *)
Refused(p) ==
    LET q == push[p] IN
    /\ q.step = "event" /\ q.failures[q.next] # Broken
    /\ Fails
    /\ Becomes(p, [q EXCEPT !.step = "over", !.errors = @ + 1,
                             !.skipped = Len(q.failures) - q.next])
    /\ UNCHANGED <<clock, board, accepted>>

Newest(q) == q.scope \notin DOMAIN accepted \/ accepted[q.scope].at <= q.at
Took(q) ==
    /\ board' = Posted(q)
    /\ accepted' = IF Newest(q)
                   THEN [s \in DOMAIN accepted \cup {q.scope} |->
                            IF s = q.scope
                            THEN [at |-> q.at, classify |-> q.classify, failures |-> q.failures]
                            ELSE accepted[s]]
                   ELSE accepted

Succeeded(q) == q.pushed > 0 /\ q.errors = 0

(* One request, whose answer can be lost after Datadog took it.            *)
PostSeries(p) ==
    LET q == push[p] IN
    /\ q.step = "series"
    /\ \/ /\ Took(q)
          /\ Becomes(p, [q EXCEPT !.step = "over", !.success = Succeeded(q)])
          /\ UNCHANGED failures
       \/ /\ Fails
          /\ Took(q) \/ UNCHANGED <<board, accepted>>
          /\ Becomes(p, [q EXCEPT !.step = "over"])
    /\ UNCHANGED clock

Finish(p) ==
    /\ push[p].step = "over"
    /\ push' = [push EXCEPT ![p] = NoPush]
    /\ UNCHANGED <<clock, board, accepted, failures>>

Tick == /\ clock < MaxClock /\ clock' = clock + 1
        /\ UNCHANGED <<push, board, accepted, failures>>

Serve(p) == \/ \E s \in Scopes, classify \in BOOLEAN : \E found \in Stored[s] :
                Begin(p, s, found, classify)
            \/ BuildContext(p) \/ CreateExporter(p) \/ Event(p) \/ Refused(p)
            \/ PostSeries(p) \/ Finish(p)

Next == \/ \E p \in Pushers : Serve(p)
        \/ Tick
Spec == Init /\ [][Next]_vars

-----------------------------------------------------------------------------
(* Every variable has its type.                                            *)
TypeOK ==
    /\ clock \in 0..MaxClock
    /\ \A p \in Pushers :
         push[p].step \in {"idle", "context", "create", "event", "series", "over"}
    /\ \A key \in DOMAIN board : board[key].at \in 0..MaxClock /\ board[key].value \in Nat
    /\ DOMAIN accepted \subseteq Scopes
    /\ failures \in 0..MaxFailures

(* The scoreboard of a scope shows the failures of one push, the newest    *)
(* that Datadog took: no category is left over from an older push or comes *)
(* from another scope, and there is no series outside the vocabulary.      *)
BoardIsOnePush ==
    /\ \A s \in DOMAIN accepted, label \in Vocabulary :
         LET key == <<Identity(s), label>> IN
         key \in DOMAIN board /\ board[key].value = Counted(accepted[s], label)
    /\ \A key \in DOMAIN board : key[2] \in Vocabulary

(* Every failure of a finished push was emitted, failed or was skipped,    *)
(* not more than Threshold in a row failed, and only a push that emitted   *)
(* all of them and whose scoreboard was taken is reported as a success.    *)
PushAddsUp ==
    \A p \in Pushers : push[p].step = "over" =>
        LET q == push[p] IN
        /\ q.pushed + q.errors + q.skipped = Len(q.failures)
        /\ q.consecutive <= Threshold
        /\ q.success => /\ q.pushed = Len(q.failures) /\ q.pushed > 0
                        /\ q.scope \in DOMAIN accepted /\ accepted[q.scope].at >= q.at
=============================================================================
