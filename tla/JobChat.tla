------------------------------ MODULE JobChat ------------------------------
(***************************************************************************)
(* The chat of one analysed job: Start (`init_chat`), messages             *)
(* (`send_chat_message` and its background turn), Clear, Abort, and the    *)
(* deletion of the job while any of these is under way.                    *)
(*                                                                         *)
(* Everything runs on one event loop: an action is what a coroutine does   *)
(* between two awaits that matter.  The locks are `asyncio.Lock`s kept in  *)
(* registries, from which they are dropped when they seem idle; a waiter   *)
(* that was woken has not taken its lock yet, and by then the registry may *)
(* hold another one.  An acquire always queues first, so one of a free     *)
(* lock also has that gap here: the model allows more than the code.       *)
(*                                                                         *)
(* The job deletion cancels the coroutines of the chat, but not the        *)
(* threads they wait for (`asyncio.to_thread`).  Sessions are numbers in   *)
(* the order of their creation; AiSessions models what becomes of them.    *)
(***************************************************************************)
EXTENDS Naturals, Sequences, FiniteSets

CONSTANTS
    Users,
    Tasks,        \* request handlers that may overlap; each serves many
    Locks,        \* identities of asyncio.Lock objects
    NoLock,
    Nobody,       \* the holder of an unlocked lock
    Deleter,      \* the handler that deletes the job
    MaxRows,      \* bound on assistant rows ever inserted
    MaxSessions,  \* bound on AI sessions ever created
    MaxAborts     \* bound on abort requests

ASSUME NamesAssumption ==
    Users # {} /\ NoLock \notin Locks /\ Nobody # Deleter /\ {Nobody, Deleter} \cap Tasks = {}
ASSUME BoundsAssumption ==
    MaxRows \in Nat /\ MaxSessions \in Nat /\ MaxAborts \in Nat

VARIABLES
    job,       \* the job's row of table results exists
    rows,      \* chat_messages: the assistant's rows
    lastRow, lastSession,  \* ids used so far
    deleting,  \* the job is in _chat_jobs_deleting
    tracked,   \* _chat_job_tasks of the job
    lock,      \* the lock objects: holder and waiters in order
    userLock,  \* _chat_locks: the lock registered for each user
    refs,      \* _chat_lock_refs
    barrier,   \* _chat_job_barriers: the barrier registered for the job
    signal,    \* _chat_abort_signals: 0, or 1 + the last row there or on its way
               \* when it was set
    task,      \* the coroutines: program counter and local variables
    abort,     \* the abort request under way
    aborts,    \* abort requests so far
    deletion,  \* the deletion: program counter and its barrier
    files,     \* users whose chat workspace or MCP dump is on disk
    detached   \* users with a thread that outlived its cancelled coroutine

registries == <<lock, userLock, refs, barrier>>
chatVars == <<rows, lastRow, lastSession>>
vars == <<job, chatVars, deleting, tracked, registries, signal, task,
          abort, aborts, deletion, files, detached>>

Unlocked == [holder |-> Nobody, queue |-> <<>>]
Idle == [pc |-> "idle", kind |-> "start", user |-> CHOOSE u \in Users : TRUE, row |-> 0,
         session |-> 0, lock |-> NoLock, barrier |-> NoLock, cancelled |-> FALSE]
NoAbort == [pc |-> "idle", user |-> Idle.user, pending |-> {}]

RowType == [id : 1..MaxRows, user : Users, status : {"pending", "completed", "failed"},
            session : 0..MaxSessions, start : BOOLEAN]
PCs == {"idle", "lock", "barrier", "look", "choose", "prep", "create", "save", "send", "pair",
        "queued", "asking", "status", "complete", "close", "failing", "unwinding", "version",
        "wipe", "swept"}

(* Every variable has its type, and each lock its own waiters. *)
TypeOK ==
    /\ job \in BOOLEAN /\ deleting \in BOOLEAN
    /\ rows \subseteq RowType /\ lastRow \in 0..MaxRows /\ lastSession \in 0..MaxSessions
    /\ tracked \subseteq Tasks
    /\ \A o \in Locks : /\ lock[o].holder \in Tasks \union {Nobody, Deleter}
                        /\ lock[o].queue \in Seq(Tasks \union {Deleter})
    /\ userLock \in [Users -> Locks \union {NoLock}]
    /\ refs \in [Users -> Nat]
    /\ barrier \in Locks \union {NoLock}
    /\ signal \in [Users -> Nat]
    /\ task \in [Tasks -> [pc : PCs, kind : {"start", "send", "turn", "clear"}, user : Users,
                           row : 0..MaxRows, session : 0..MaxSessions,
                           lock : Locks \union {NoLock}, barrier : Locks \union {NoLock},
                           cancelled : BOOLEAN]]
    /\ abort \in [pc : {"idle", "read", "mark"}, user : Users, pending : SUBSET (1..MaxRows)]
    /\ aborts \in 0..MaxAborts
    /\ deletion \in [pc : {"none", "unlink", "gather", "barrier", "clean", "done"},
                     barrier : Locks \union {NoLock}]
    /\ files \subseteq Users /\ detached \subseteq Users

Init ==
    /\ job = TRUE /\ deleting = FALSE
    /\ rows = {} /\ lastRow = 0 /\ lastSession = 0
    /\ tracked = {}
    /\ lock = [o \in Locks |-> Unlocked]
    /\ userLock = [u \in Users |-> NoLock] /\ refs = [u \in Users |-> 0]
    /\ barrier = NoLock
    /\ signal = [u \in Users |-> 0]
    /\ task = [t \in Tasks |-> Idle]
    /\ abort = NoAbort /\ aborts = 0
    /\ deletion = [pc |-> "none", barrier |-> NoLock]
    /\ files = {} /\ detached = {}
-----------------------------------------------------------------------------
(* Locks and their registries. *)

(* A new asyncio.Lock.  There is always one more; of the identities here   *)
(* one that nobody uses is taken, and Locks bounds how many are in use.     *)
Unused == {o \in Locks : lock[o] = Unlocked /\ o # barrier /\ \A u \in Users : userLock[u] # o}
Fresh == CHOOSE o \in Unused : TRUE

CanTake(o, p) == lock[o].holder = Nobody /\ lock[o].queue # <<>> /\ Head(lock[o].queue) = p
Taken(o, p) == [lock EXCEPT ![o] = [holder |-> p, queue |-> Tail(@.queue)]]
Barrier == IF barrier = NoLock THEN Fresh ELSE barrier

(* A waiter that gives up leaves the queue. *)
Unqueued(queue, p) ==
    IF \E i \in DOMAIN queue : queue[i] = p
    THEN LET place == CHOOSE i \in DOMAIN queue : queue[i] = p IN
         SubSeq(queue, 1, place - 1) \o SubSeq(queue, place + 1, Len(queue))
    ELSE queue

(* What the locks are once p holds none and waits for none. *)
Without(p) == [o \in Locks |->
    [holder |-> IF lock[o].holder = p THEN Nobody ELSE lock[o].holder,
     queue  |-> Unqueued(lock[o].queue, p)]]

(* A bug: a waiter is not counted. *)
CountedNot(u) == refs

(* A waiter is counted before it waits. *)
Counted(u) == [refs EXCEPT ![u] = @ + 1]

(* t enters _hold_chat_lock. *)
Enter(t, u, kind, row, session) ==
    LET o == IF userLock[u] = NoLock THEN Fresh ELSE userLock[u] IN
    /\ userLock[u] = NoLock => Unused # {}
    /\ userLock' = [userLock EXCEPT ![u] = o]
    /\ refs' = Counted(u)
    /\ lock' = [lock EXCEPT ![o].queue = Append(@, t)]
    /\ task' = [task EXCEPT ![t] = [Idle EXCEPT !.pc = "lock", !.kind = kind, !.user = u,
                                        !.row = row, !.session = session, !.lock = o]]
    /\ UNCHANGED barrier

(* A bug: the user that leaves drops the lock whoever waits for it. *)
UnregisteredAlways(t, u) ==
    userLock[u] = task[t].lock /\ Without(t)[task[t].lock].holder = Nobody

(* The user's lock is dropped when nobody holds a reference to it. *)
Unregistered(t, u) ==
    refs[u] = 1 /\ userLock[u] = task[t].lock /\ Without(t)[task[t].lock].holder = Nobody

(* t leaves every `async with` it is in. *)
Leave(t) ==
    LET u == task[t].user IN
    /\ lock' = Without(t)
    /\ refs' = [refs EXCEPT ![u] = @ - 1]
    /\ userLock' = IF Unregistered(t, u) THEN [userLock EXCEPT ![u] = NoLock] ELSE userLock

(* _discard_idle_chat_job_barrier looks at the holder, not at the waiters. *)
DiscardIdleBarrier(l) ==
    barrier' = IF barrier # NoLock /\ l[barrier].holder = Nobody THEN NoLock ELSE barrier

LeaveBarrier(t) ==
    /\ lock' = [lock EXCEPT ![task[t].barrier].holder = Nobody]
    /\ UNCHANGED <<userLock, refs, barrier>>

Goto(t, pc) == task' = [task EXCEPT ![t].pc = pc]

(* The handler returns or raises. *)
Finish(t) ==
    /\ Leave(t) /\ UNCHANGED barrier
    /\ tracked' = tracked \ {t}
    /\ task' = [task EXCEPT ![t] = Idle]

(* A background turn ends; its `finally` drops the abort signal as well. *)
FinishTurn(t) ==
    /\ Leave(t) /\ DiscardIdleBarrier(Without(t))
    /\ tracked' = tracked \ {t}
    /\ signal' = [signal EXCEPT ![task[t].user] = 0]
    /\ task' = [task EXCEPT ![t] = Idle]

(* t runs, and the deletion of the job has not cancelled it. *)
At(t, kind, pc) == task[t].pc = pc /\ task[t].kind = kind /\ ~task[t].cancelled

(* get_latest_chat_session, 0 when there is none. *)
LatestSession(u) ==
    LET named == {r \in rows : r.user = u /\ r.session # 0} IN
    IF named = {} THEN 0 ELSE (CHOOSE r \in named : \A s \in named : s.id <= r.id).session

StatusIs(id, status) == \E r \in rows : r.id = id /\ r.status = status

(* UPDATE chat_messages ... WHERE id = id: no effect on a row that is gone. *)
WithStatus(id, status) == {IF r.id = id THEN [r EXCEPT !.status = status] ELSE r : r \in rows}

NewRow(t, status, session, start) ==
    [id |-> lastRow + 1, user |-> task[t].user, status |-> status, session |-> session,
     start |-> start]

deletionVars == <<job, deletion, deleting>>
abortVars == <<abort, aborts>>
fileVars == <<files, detached>>
-----------------------------------------------------------------------------
(* The way in. *)

(* The user's lock is free and it is t's turn. *)
LockTaken(t) ==
    /\ task[t].pc = "lock" /\ ~task[t].cancelled /\ CanTake(task[t].lock, t)
    /\ \/ /\ task[t].kind \in {"start", "turn"} /\ (barrier = NoLock => Unused # {})
          /\ lock' = [Taken(task[t].lock, t) EXCEPT ![Barrier].queue = Append(@, t)]
          /\ barrier' = Barrier
          /\ task' = [task EXCEPT ![t].pc = "barrier", ![t].barrier = Barrier]
       \/ /\ task[t].kind \in {"send", "clear"}
          /\ lock' = Taken(task[t].lock, t)
          /\ Goto(t, IF task[t].kind = "send" THEN "send" ELSE "version")
          /\ UNCHANGED barrier
    /\ UNCHANGED <<deletionVars, chatVars, tracked, userLock, refs, signal, abortVars, fileVars>>

(* Inside the barrier: a job that is being deleted takes no more work. *)
BarrierTaken(t) ==
    /\ task[t].pc = "barrier" /\ ~task[t].cancelled /\ CanTake(task[t].barrier, t)
    /\ \/ /\ ~deleting \/ task[t].kind = "turn"
          /\ lock' = Taken(task[t].barrier, t)
          /\ Goto(t, IF deleting THEN "failing" ELSE "look")
          /\ UNCHANGED <<userLock, refs, barrier, tracked>>
       \/ deleting /\ task[t].kind = "start" /\ Finish(t)
    /\ UNCHANGED <<deletionVars, chatVars, signal, abortVars, fileVars>>
-----------------------------------------------------------------------------
(* Start: workspace, repositories, AI session. *)

StartCall(t, u) ==
    /\ task[t].pc = "idle"
    /\ tracked' = tracked \union {t}
    /\ Enter(t, u, "start", 0, 0)
    /\ UNCHANGED <<deletionVars, chatVars, signal, abortVars, fileVars>>

StartLook(t) ==
    /\ At(t, "start", "look")
    /\ \/ ~job /\ Finish(t)
       \/ job /\ Goto(t, "choose") /\ UNCHANGED <<registries, tracked>>
    /\ UNCHANGED <<deletionVars, chatVars, signal, abortVars, fileVars>>

(* The selection is invalid or differs from the current session's, or the  *)
(* workspace is made and the barrier left.                                  *)
StartChoose(t) ==
    /\ At(t, "start", "choose")
    /\ \/ Finish(t) /\ UNCHANGED files
       \/ /\ files' = files \union {task[t].user}
          /\ LeaveBarrier(t) /\ Goto(t, "prep") /\ UNCHANGED tracked
    /\ UNCHANGED <<deletionVars, chatVars, signal, abortVars, detached>>

(* Threads cloned, indexed and wrote the MCP configuration.  The handler   *)
(* is done if the job is being deleted, the current session may be used or *)
(* anything failed.                                                         *)
StartPrepared(t) ==
    /\ At(t, "start", "prep")
    /\ files' = files \union {task[t].user}
    /\ \/ Finish(t)
       \/ ~deleting /\ Goto(t, "create") /\ UNCHANGED <<registries, tracked>>
    /\ UNCHANGED <<deletionVars, chatVars, signal, abortVars, detached>>

(* The sidecar has answered; a session for a deleted job is discarded. *)
StartCreated(t) ==
    /\ At(t, "start", "create")
    /\ \/ Finish(t) /\ UNCHANGED lastSession
       \/ /\ ~deleting /\ lastSession < MaxSessions
          /\ lastSession' = lastSession + 1
          /\ task' = [task EXCEPT ![t].pc = "save", ![t].session = lastSession + 1]
          /\ UNCHANGED <<registries, tracked>>
    /\ files' = files \union {task[t].user}
    /\ UNCHANGED <<deletionVars, rows, lastRow, signal, abortVars, detached>>

SaveStart(t) ==
    /\ lastRow < MaxRows /\ lastRow' = lastRow + 1
    /\ rows' = rows \union {NewRow(t, "completed", task[t].session, TRUE)}

(* The row that names the session, unless the credentials have changed. *)
StartSaved(t) ==
    /\ At(t, "start", "save")
    /\ SaveStart(t) \/ UNCHANGED <<rows, lastRow>>
    /\ Finish(t)
    /\ UNCHANGED <<deletionVars, lastSession, signal, abortVars, fileVars>>
-----------------------------------------------------------------------------
(* A message: the request inserts the placeholder, the turn answers it. *)

SendCall(t, u) ==
    /\ job /\ task[t].pc = "idle"
    /\ Enter(t, u, "send", 0, 0)
    /\ UNCHANGED <<deletionVars, chatVars, tracked, signal, abortVars, fileVars>>

SendCheck(t) ==
    /\ At(t, "send", "send")
    /\ \/ Finish(t)
       \/ LatestSession(task[t].user) # 0 /\ Goto(t, "pair") /\ UNCHANGED <<registries, tracked>>
    /\ UNCHANGED <<deletionVars, chatVars, signal, abortVars, fileVars>>

(* The placeholder is stored and the lock left before the turn begins. *)
SendPair(t) ==
    /\ At(t, "send", "pair")
    /\ \/ /\ lastRow < MaxRows /\ lastRow' = lastRow + 1
          /\ rows' = rows \union {NewRow(t, "pending", 0, FALSE)}
          /\ Leave(t) /\ UNCHANGED <<barrier, tracked>>
          /\ task' = [task EXCEPT ![t] = [Idle EXCEPT !.pc = "queued", !.kind = "send",
                                              !.user = task[t].user, !.row = lastRow + 1]]
       \/ lastRow = MaxRows /\ Finish(t) /\ UNCHANGED <<rows, lastRow>>
    /\ UNCHANGED <<deletionVars, lastSession, signal, abortVars, fileVars>>

TurnBegin(t) ==
    /\ At(t, "send", "queued")
    /\ tracked' = tracked \union {t}
    /\ Enter(t, task[t].user, "turn", task[t].row, 0)
    /\ UNCHANGED <<deletionVars, chatVars, signal, abortVars, fileVars>>

(* The job and the session the turn is pinned to must still be there. *)
TurnLook(t) ==
    /\ At(t, "turn", "look")
    /\ \/ LeaveBarrier(t) /\ Goto(t, "failing") /\ UNCHANGED files
       \/ /\ job /\ LatestSession(task[t].user) # 0
          /\ files' = files \union {task[t].user}
          /\ task' = [task EXCEPT ![t].pc = "prep", ![t].session = LatestSession(task[t].user)]
          /\ UNCHANGED registries
    /\ UNCHANGED <<deletionVars, chatVars, tracked, signal, abortVars, detached>>

(* Cloned and indexed inside the barrier; an abort that came before is     *)
(* honoured inside it too.  The AI call is made outside.                    *)
TurnPrepared(t) ==
    /\ At(t, "turn", "prep")
    /\ files' = files \union {task[t].user}
    /\ \/ /\ signal[task[t].user] # 0
          /\ signal' = [signal EXCEPT ![task[t].user] = 0]
          /\ Goto(t, "failing") /\ UNCHANGED registries
       \/ /\ signal[task[t].user] = 0 /\ ~deleting /\ LeaveBarrier(t)
          /\ Goto(t, "asking") /\ UNCHANGED signal
       \/ LeaveBarrier(t) /\ Goto(t, "failing") /\ UNCHANGED signal
    /\ UNCHANGED <<deletionVars, chatVars, tracked, abortVars, detached>>

(* The AI call returns: aborted, failed or refused, or with a reply from   *)
(* the same session or a rebuilt one.                                       *)
TurnAnswered(t) ==
    /\ At(t, "turn", "asking")
    /\ signal' = [signal EXCEPT ![task[t].user] = 0]
    /\ \/ Goto(t, "failing") /\ UNCHANGED lastSession
       \/ /\ signal[task[t].user] = 0
          /\ \/ Goto(t, "status") /\ UNCHANGED lastSession
             \/ /\ lastSession < MaxSessions /\ lastSession' = lastSession + 1
                /\ task' = [task EXCEPT ![t].pc = "status", ![t].session = lastSession + 1]
    /\ UNCHANGED <<deletionVars, rows, lastRow, tracked, registries, abortVars, fileVars>>

TurnStatus(t) ==
    /\ At(t, "turn", "status")
    /\ \/ StatusIs(task[t].row, "failed") /\ FinishTurn(t)
       \/ /\ ~StatusIs(task[t].row, "failed") /\ Goto(t, "complete")
          /\ UNCHANGED <<registries, tracked, signal>>
    /\ UNCHANGED <<deletionVars, chatVars, abortVars, fileVars>>

(* A bug: the reply is stored whatever became of the placeholder. *)
CompletesAny(t) == \E r \in rows : r.id = task[t].row

(* complete_chat_message_if_generation: only a pending row is completed. *)
Completes(t) == StatusIs(task[t].row, "pending")

TurnComplete(t) ==
    /\ At(t, "turn", "complete")
    /\ \/ /\ Completes(t)
          /\ rows' = {IF r.id = task[t].row
                      THEN [r EXCEPT !.status = "completed", !.session = task[t].session]
                      ELSE r : r \in rows}
          /\ FinishTurn(t)
       \/ Goto(t, "close") /\ UNCHANGED <<rows, registries, tracked, signal>>
    /\ UNCHANGED <<deletionVars, lastRow, lastSession, abortVars, fileVars>>

(* A bug: a reply that is not saved leaves its placeholder as it is. *)
ClosedNot(t) == rows

(* fail_pending_chat_message. *)
Closed(t) ==
    IF StatusIs(task[t].row, "pending") THEN WithStatus(task[t].row, "failed") ELSE rows

TurnClose(t) ==
    /\ At(t, "turn", "close")
    /\ rows' = Closed(t)
    /\ FinishTurn(t)
    /\ UNCHANGED <<deletionVars, lastRow, lastSession, abortVars, fileVars>>

(* _fail_chat_assistant_placeholder. *)
TurnFail(t) ==
    /\ At(t, "turn", "failing")
    /\ rows' = WithStatus(task[t].row, "failed")
    /\ FinishTurn(t)
    /\ UNCHANGED <<deletionVars, lastRow, lastSession, abortVars, fileVars>>
-----------------------------------------------------------------------------
(* Cancellation by the deletion of the job. *)

(* A thread the coroutine waits for goes on without it. *)
MayDetach(t) ==
    \/ UNCHANGED detached
    \/ task[t].pc \in {"prep", "create"} /\ detached' = detached \union {task[t].user}

(* A commit under way may still happen. *)
StartCancelled(t) ==
    /\ task[t].cancelled /\ task[t].kind = "start"
    /\ MayDetach(t)
    /\ UNCHANGED <<rows, lastRow>> \/ (task[t].pc = "save" /\ SaveStart(t))
    /\ Finish(t)
    /\ UNCHANGED <<deletionVars, lastSession, signal, abortVars, files>>

(* The turn leaves its locks, then fails the placeholder. *)
TurnCancelled(t) ==
    /\ task[t].cancelled /\ task[t].kind = "turn" /\ task[t].pc # "unwinding"
    /\ MayDetach(t)
    /\ Leave(t) /\ UNCHANGED barrier
    /\ Goto(t, "unwinding")
    /\ UNCHANGED <<deletionVars, chatVars, tracked, signal, abortVars, files>>

TurnUnwound(t) ==
    /\ task[t].pc = "unwinding"
    /\ rows' = WithStatus(task[t].row, "failed")
    /\ DiscardIdleBarrier(lock)
    /\ tracked' = tracked \ {t}
    /\ signal' = [signal EXCEPT ![task[t].user] = 0]
    /\ task' = [task EXCEPT ![t] = Idle]
    /\ UNCHANGED <<deletionVars, lastRow, lastSession, lock, userLock, refs, abortVars, fileVars>>

(* What such a thread writes: it makes the directories it needs. *)
DetachedWrites ==
    /\ files' \in {files \union {u} : u \in detached}
    /\ UNCHANGED <<deletionVars, chatVars, tracked, registries, signal, task, abortVars, detached>>
-----------------------------------------------------------------------------
(* Clear: only while the session is the one the user has seen. *)

ClearCall(t, u) ==
    /\ job /\ task[t].pc = "idle"
    /\ Enter(t, u, "clear", 0, LatestSession(u))
    /\ UNCHANGED <<deletionVars, chatVars, tracked, signal, abortVars, fileVars>>

(* A bug: the version is not compared. *)
UnchangedTrusted(t) == TRUE

(* _require_chat_clear_version. *)
Unchanged(t) == LatestSession(task[t].user) = task[t].session

ClearCheck(t) ==
    /\ At(t, "clear", "version")
    /\ \/ ~Unchanged(t) /\ Finish(t)
       \/ Unchanged(t) /\ Goto(t, "wipe") /\ UNCHANGED <<registries, tracked>>
    /\ UNCHANGED <<deletionVars, chatVars, signal, abortVars, fileVars>>

ClearWipe(t) ==
    /\ At(t, "clear", "wipe")
    /\ rows' = {r \in rows : r.user # task[t].user}
    /\ Goto(t, "swept")
    /\ UNCHANGED <<deletionVars, lastRow, lastSession, tracked, registries, signal,
                   abortVars, fileVars>>

(* The revoked sessions are deleted, the clones removed, the lock left. *)
ClearDone(t) ==
    /\ At(t, "clear", "swept")
    /\ Finish(t)
    /\ signal' = [signal EXCEPT ![task[t].user] = 0]
    /\ UNCHANGED <<deletionVars, chatVars, abortVars, fileVars>>
-----------------------------------------------------------------------------
(* Abort: set the signal, then fail the messages that are pending. *)

(* Messages on their way in. *)
Sends(u) ==
    Cardinality({t \in Tasks : task[t].user = u /\ task[t].kind = "send"
                               /\ task[t].pc \in {"lock", "send", "pair"}})

AbortCall(u) ==
    /\ abort.pc = "idle" /\ aborts < MaxAborts
    /\ aborts' = aborts + 1
    /\ signal' = [signal EXCEPT ![u] = lastRow + 1 + Sends(u)]
    /\ abort' = [pc |-> "read", user |-> u, pending |-> {}]
    /\ UNCHANGED <<deletionVars, chatVars, tracked, registries, task, fileVars>>

AbortRead ==
    /\ abort.pc = "read"
    /\ LET pending == {r \in rows : r.user = abort.user /\ r.status = "pending"} IN
       abort' = IF pending = {} THEN NoAbort
                ELSE [abort EXCEPT !.pc = "mark", !.pending = {r.id : r \in pending}]
    /\ UNCHANGED <<deletionVars, chatVars, tracked, registries, signal, task, aborts, fileVars>>

(* Each update is unconditional: the row may have been completed since. *)
AbortMark ==
    /\ abort.pc = "mark"
    /\ \E id \in abort.pending :
          /\ rows' = WithStatus(id, "failed")
          /\ abort' = IF abort.pending = {id} THEN NoAbort
                      ELSE [abort EXCEPT !.pending = @ \ {id}]
    /\ UNCHANGED <<deletionVars, lastRow, lastSession, tracked, registries, signal, task,
                   aborts, fileVars>>
-----------------------------------------------------------------------------
(* The deletion of the job. *)

Delete ==
    /\ job /\ job' = FALSE
    /\ rows' = {}
    /\ deletion' = [deletion EXCEPT !.pc = "unlink"]
    /\ UNCHANGED <<lastRow, lastSession, deleting, tracked, registries, signal, task,
                   abortVars, fileVars>>

(* A bug: only the marker is set. *)
CancelledNot == task

Cancelled == [t \in Tasks |-> [task[t] EXCEPT !.cancelled = t \in tracked]]

(* Mark the job and cancel what is tracked, with no await in between. *)
MarkDeleting ==
    /\ deletion.pc = "unlink"
    /\ deleting' = TRUE
    /\ task' = Cancelled
    /\ deletion' = [deletion EXCEPT !.pc = "gather"]
    /\ UNCHANGED <<job, chatVars, tracked, registries, signal, abortVars, fileVars>>

Gathered ==
    /\ deletion.pc = "gather" /\ \A t \in Tasks : ~task[t].cancelled
    /\ barrier = NoLock => Unused # {}
    /\ lock' = [lock EXCEPT ![Barrier].queue = Append(@, Deleter)]
    /\ barrier' = Barrier
    /\ deletion' = [pc |-> "barrier", barrier |-> Barrier]
    /\ UNCHANGED <<job, deleting, chatVars, tracked, userLock, refs, signal, task, abortVars,
                   fileVars>>

CleanupBegins ==
    /\ deletion.pc = "barrier" /\ CanTake(deletion.barrier, Deleter)
    /\ lock' = Taken(deletion.barrier, Deleter)
    /\ deletion' = [deletion EXCEPT !.pc = "clean"]
    /\ UNCHANGED <<job, deleting, chatVars, tracked, userLock, refs, barrier, signal, task,
                   abortVars, fileVars>>

CleanupEnds ==
    /\ deletion.pc = "clean"
    /\ files' = {}
    /\ lock' = Without(Deleter)
    /\ deleting' = FALSE
    /\ tracked' = {}
    /\ DiscardIdleBarrier(Without(Deleter))
    /\ deletion' = [pc |-> "done", barrier |-> NoLock]
    /\ UNCHANGED <<job, chatVars, userLock, refs, signal, task, abortVars, detached>>
-----------------------------------------------------------------------------
Step(t) ==
    \/ LockTaken(t) \/ BarrierTaken(t)
    \/ StartLook(t) \/ StartChoose(t) \/ StartPrepared(t) \/ StartCreated(t) \/ StartSaved(t)
    \/ SendCheck(t) \/ SendPair(t)
    \/ TurnBegin(t) \/ TurnLook(t) \/ TurnPrepared(t) \/ TurnAnswered(t) \/ TurnStatus(t)
    \/ TurnComplete(t) \/ TurnClose(t) \/ TurnFail(t)
    \/ StartCancelled(t) \/ TurnCancelled(t) \/ TurnUnwound(t)
    \/ ClearCheck(t) \/ ClearWipe(t) \/ ClearDone(t)

Deletion == MarkDeleting \/ Gathered \/ CleanupBegins \/ CleanupEnds

Next ==
    \/ \E t \in Tasks : Step(t)
    \/ \E t \in Tasks, u \in Users : StartCall(t, u) \/ SendCall(t, u) \/ ClearCall(t, u)
    \/ \E u \in Users : AbortCall(u)
    \/ AbortRead \/ AbortMark
    \/ Delete \/ Deletion
    \/ DetachedWrites

Spec == Init /\ [][Next]_vars

(* The event loop runs every coroutine that can go on, clones and AI calls *)
(* end (they have timeouts), and asyncio wakes the waiters of a lock in    *)
(* order.  Users need not do anything.                                      *)
Fairness ==
    /\ \A t \in Tasks : WF_vars(Step(t))
    /\ WF_vars(AbortRead \/ AbortMark)
    /\ WF_vars(Deletion)

FairSpec == Spec /\ Fairness
-----------------------------------------------------------------------------
(* Properties *)

InSection(t) == task[t].pc \notin {"idle", "lock", "queued", "unwinding"}

(* Start, send, turn and Clear of one user exclude each other: the lock    *)
(* that is dropped from the registry is never one a waiter still holds on  *)
(* to (_hold_chat_lock), so nobody tears down a workspace that a turn uses.*)
OneAtATime ==
    \A s, t \in Tasks : InSection(s) /\ InSection(t) /\ task[s].user = task[t].user => s = t

(* When the deletion of a job is over, no chat coroutine can bring its     *)
(* workspace or its MCP credentials back; only a thread whose coroutine    *)
(* was cancelled can (_cleanup_deleted_job_chat_workspaces).                *)
CleanupIsComplete == deletion.pc = "done" => files \subseteq detached

(* A reply that was aborted or failed is never completed afterwards,       *)
(* wherever the turn was when the abort came.                               *)
FailedIsFinal ==
    [][\A r \in rows : r.status = "failed" =>
          \A s \in rows' : s.id = r.id => s.status = "failed"]_vars

(* A Clear that was overtaken by a Start removes nothing: no row of a      *)
(* Start newer than the session the caller has seen is deleted while the   *)
(* job is there (_require_chat_clear_version).                              *)
ClearSparesNewerStart ==
    [][\A r \in rows : r.start /\ job' /\ (\A s \in rows' : s.id # r.id) =>
          \E t \in Tasks : task[t].pc = "wipe" /\ task[t].user = r.user
                           /\ r.session <= task[t].session]_vars

(* Every placeholder is completed, failed or deleted in the end, through   *)
(* aborts, lost sessions and the deletion of the job.                       *)
PlaceholderResolves ==
    \A id \in 1..MaxRows : StatusIs(id, "pending") ~> ~StatusIs(id, "pending")
=============================================================================
