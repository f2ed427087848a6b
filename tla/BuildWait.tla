----------------------------- MODULE BuildWait -----------------------------
(***************************************************************************)
(* A job that waits for its Jenkins build to finish: the polls with their  *)
(* failures and their deadline, and the restarts of the server, after      *)
(* which the wait is resumed from the stored request.                      *)
(*                                                                         *)
(* The clock counts half minutes: a resumed wait is rounded up to a whole  *)
(* one.  A poll takes no time.                                             *)
(***************************************************************************)
EXTENDS Integers, FiniteSetsExt

CONSTANTS
    MaxWait,        \* max_wait_minutes, in half minutes; 0 for no limit
    Interval,       \* poll_interval_minutes, in half minutes
    MaxFailures,    \* max_consecutive_failures
    MaxClock, MaxRestarts

Minute == 2
WaitAssumption == /\ MaxWait \in Nat /\ MaxWait % Minute = 0
                  /\ Interval \in Nat \ {0} /\ MaxFailures \in Nat \ {0}

VARIABLES
    clock,
    build,      \* "running", "finished" or "gone" from Jenkins
    request,    \* what was asked for: "analyze", or "submit" to stop before the analysis
    started,    \* wait_started_at
    server,     \* "up" or "down"
    restarts,
    wait,       \* the task: where it is, its limit, deadline and next poll, failures in a
                \* row, and whether it stops before the analysis
    seen,       \* the last poll: when, and what it saw
    status,     \* of the job
    reason      \* why the wait ended

vars == <<clock, build, request, started, server, restarts, wait, seen, status, reason>>

NoDeadline == -1
NoWait == [step |-> "over", limit |-> 0, deadline |-> NoDeadline, wake |-> 0, failures |-> 0,
           ingest |-> FALSE]
Waiting(limit, ingest) ==
    [NoWait EXCEPT !.step = "preflight", !.limit = limit, !.ingest = ingest]
NeverSeen == [at |-> -1, what |-> "nothing"]

TypeOK ==
    /\ clock \in 0..MaxClock /\ build \in {"running", "finished", "gone"}
    /\ request \in {"analyze", "submit"} /\ started \in 0..MaxClock
    /\ server \in {"up", "down"} /\ restarts \in 0..MaxRestarts
    /\ wait \in [step : {"preflight", "poll", "sleep", "over"}, limit : 0..MaxWait + Minute,
                 deadline : -1..MaxClock + MaxWait + Minute, wake : 0..MaxClock + Interval,
                 failures : 0..MaxFailures, ingest : BOOLEAN]
    /\ seen \in [at : -1..MaxClock, what : {"nothing", "running", "finished"}]
    /\ status \in {"waiting", "analyzing", "collecting", "failed"}
    /\ reason \in {"", "finished", "unreachable", "refused", "timeout", "late"}

(* initial_status: the job waits.                                          *)
Init ==
    /\ clock = 0 /\ build \in {"running", "finished", "gone"}
    /\ request \in {"analyze", "submit"} /\ started = 0
    /\ server = "up" /\ restarts = 0 /\ seen = NeverSeen
    /\ wait = Waiting(MaxWait, request = "submit") /\ status = "waiting" /\ reason = ""

----------------------------------------------------------------------------
(* The clock, Jenkins and the server. *)

Asleep == wait.step = "sleep" /\ wait.wake > clock

Tick ==
    /\ clock < MaxClock /\ (server = "down" \/ Asleep) /\ clock' = clock + 1
    /\ UNCHANGED <<build, request, started, server, restarts, wait, seen, status, reason>>

BuildEnds ==
    /\ build = "running" /\ build' \in {"finished", "gone"}
    /\ UNCHANGED <<clock, request, started, server, restarts, wait, seen, status, reason>>

Crash ==
    /\ status = "waiting" /\ server = "up" /\ restarts < MaxRestarts
    /\ server' = "down" /\ restarts' = restarts + 1 /\ wait' = NoWait
    /\ UNCHANGED <<clock, build, request, started, seen, status, reason>>

(* Fault: a resumed wait starts anew.                                      *)
WholeWait == MaxWait

(* What is left of the wait, in whole minutes and at least one.            *)
Remaining ==
    LET left == started + MaxWait - clock
        minutes == (left + Minute - 1) \div Minute
    IN Minute * Max({1, minutes})

(* The job is rebuilt from its stored request: its deadline is kept, that  *)
(* it was only to be collected is not.                                     *)
Resumed == Waiting(IF MaxWait > 0 THEN Remaining ELSE 0, FALSE)

(* _resume_waiting_jobs; failures to rebuild the job are JobLifecycle's.   *)
Restart ==
    /\ server = "down" /\ server' = "up"
    /\ IF MaxWait > 0 /\ clock >= started + MaxWait
       THEN status' = "failed" /\ reason' = "late" /\ UNCHANGED wait
       ELSE wait' = Resumed /\ UNCHANGED <<status, reason>>
    /\ UNCHANGED <<clock, build, request, started, restarts, seen>>

----------------------------------------------------------------------------
(* wait_for_jenkins_completion *)

Up(step) == server = "up" /\ status = "waiting" /\ wait.step = step
Env == UNCHANGED <<clock, build, request, started, server, restarts>>

Fail(why) == status' = "failed" /\ reason' = why /\ wait' = NoWait /\ Env

(* The first call: any error ends the wait.                                *)
Connect ==
    /\ Up("preflight")
    /\ \/ \E why \in {"unreachable", "refused"} : Fail(why)
       \/ /\ wait' = [wait EXCEPT !.step = "poll",
                          !.deadline = IF wait.limit = 0 THEN NoDeadline ELSE clock + wait.limit]
          /\ UNCHANGED <<status, reason>> /\ Env
    /\ UNCHANGED seen

(* After a poll that did not end the wait.                                 *)
Expired == wait.deadline # NoDeadline /\ clock >= wait.deadline
Pause(failures) ==
    /\ wait' = [wait EXCEPT !.step = "sleep", !.failures = failures,
                    !.wake = IF wait.deadline = NoDeadline THEN clock + Interval
                             ELSE Min({clock + Interval, wait.deadline})]
    /\ UNCHANGED <<status, reason>> /\ Env

SleepOver == Up("sleep") /\ ~Asleep

Wake ==
    /\ SleepOver
    /\ wait' = [wait EXCEPT !.step = "poll"] /\ UNCHANGED <<status, reason>> /\ Env
    /\ UNCHANGED seen

PollRunning ==
    /\ Up("poll") /\ build = "running" /\ seen' = [at |-> clock, what |-> "running"]
    /\ IF Expired THEN Fail("timeout") ELSE Pause(0)

(* No answer, an empty or an incomplete one.                               *)
PollFails ==
    /\ Up("poll") /\ seen' = [at |-> clock, what |-> "nothing"]
    /\ IF wait.failures + 1 >= MaxFailures THEN Fail("unreachable")
       ELSE IF Expired THEN Fail("timeout") ELSE Pause(wait.failures + 1)

(* The build is not there, or Jenkins refuses.                             *)
PollRefused ==
    /\ Up("poll") /\ Fail("refused") /\ UNCHANGED seen

PollFinished ==
    /\ Up("poll") /\ build = "finished" /\ seen' = [at |-> clock, what |-> "finished"]
    /\ status' = IF wait.ingest THEN "collecting" ELSE "analyzing"
    /\ reason' = "finished" /\ wait' = NoWait /\ Env

Next ==
    \/ Tick \/ BuildEnds \/ Crash \/ Restart
    \/ Connect \/ Wake \/ PollRunning \/ PollFails \/ PollRefused \/ PollFinished

Spec == Init /\ [][Next]_vars
----------------------------------------------------------------------------
(* A wait ends for what happened: a build that is analysed had finished;   *)
(* one given up for its time was looked at when the time was over, and was *)
(* not seen to have finished; and while the server is up no wait lasts     *)
(* more than a minute longer than asked for, restarts or not.              *)
WaitIsHonest ==
    /\ status \in {"analyzing", "collecting"} => build = "finished"
    /\ reason = "timeout" =>
         seen.at = clock /\ clock >= started + MaxWait /\ seen.what # "finished"
    /\ server = "up" /\ status = "waiting" /\ MaxWait > 0 => clock <= started + MaxWait + Minute
=============================================================================
