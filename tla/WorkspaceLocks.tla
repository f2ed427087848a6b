--------------------------- MODULE WorkspaceLocks ---------------------------
(***************************************************************************)
(* The lock of a workspace across threads and processes: an flock on a     *)
(* file, which whoever releases it removes if nobody holds it.  A gate, a  *)
(* lock on a file that stays, keeps those who open the file from locking   *)
(* one that was removed in between.                                        *)
(*                                                                         *)
(* An open file keeps its inode; inodes are numbered as they are created.  *)
(***************************************************************************)
EXTENDS Naturals, FiniteSets

CONSTANTS
    Threads,
    Workspaces,
    MaxInode        \* bound on the files created

LocksAssumption == Workspaces # {} /\ MaxInode \in Nat

VARIABLES
    inode,      \* the file of each workspace, 0 for none
    created,    \* inodes so far
    shared,     \* threads that hold the gate shared
    exclusive,  \* those that hold it exclusively
    holder,     \* the threads that hold an exclusive flock on an inode
    thread      \* program counter, workspace, opened inode, files to reap

vars == <<inode, created, shared, exclusive, holder, thread>>

Outside == [step |-> "outside", workspace |-> CHOOSE w \in Workspaces : TRUE, file |-> 0,
            patient |-> TRUE, todo |-> {}]

Init ==
    /\ inode = [w \in Workspaces |-> 0] /\ created = 0
    /\ shared = {} /\ exclusive = {}
    /\ holder = [i \in 1 .. MaxInode |-> {}]
    /\ thread = [t \in Threads |-> Outside]

Become(t, state) == thread' = [thread EXCEPT ![t] = state]
At(t, step) == thread[t].step = step
Step(t, step) == Become(t, [thread[t] EXCEPT !.step = step])

(* Queries have a deadline: they are not patient.                          *)
Want(t, w, patient) ==
    /\ At(t, "outside")
    /\ Become(t, [Outside EXCEPT !.step = "gate", !.workspace = w, !.patient = patient])
    /\ UNCHANGED <<inode, created, shared, exclusive, holder>>

(* Fault: the gate is passed without being held.                           *)
PassedGate(t) == shared

GateShared(t) == shared \union {t}

EnterGate(t) ==
    /\ At(t, "gate") /\ exclusive = {}
    /\ shared' = GateShared(t) /\ Step(t, "open")
    /\ UNCHANGED <<inode, created, exclusive, holder>>

(* _check_lock_file refuses a file that was removed since: the gate keeps  *)
(* that from happening.                                                    *)
Open(t) ==
    LET w == thread[t].workspace
        new == inode[w] = 0
        file == IF new THEN created + 1 ELSE inode[w]
    IN
    /\ At(t, "open") /\ (new => created < MaxInode)
    /\ inode' = [inode EXCEPT ![w] = file]
    /\ created' = IF new THEN file ELSE created
    /\ Become(t, [thread[t] EXCEPT !.step = "flock", !.file = file])
    /\ UNCHANGED <<shared, exclusive, holder>>

(* The lock is taken, and the gate left.                                   *)
Acquire(t) ==
    /\ At(t, "flock") /\ holder[thread[t].file] = {}
    /\ holder' = [holder EXCEPT ![thread[t].file] = {t}]
    /\ Step(t, "leave")
    /\ UNCHANGED <<inode, created, shared, exclusive>>

LeaveGate(t) ==
    /\ At(t, "leave") /\ shared' = shared \ {t} /\ Step(t, "inside")
    /\ UNCHANGED <<inode, created, exclusive, holder>>

(* The deadline passes while it waits.                                     *)
GiveUp(t) ==
    /\ thread[t].step \in {"gate", "flock"} /\ ~thread[t].patient
    /\ shared' = shared \ {t} /\ Become(t, Outside)
    /\ UNCHANGED <<inode, created, exclusive, holder>>

Unlock(t, file) == holder' = [holder EXCEPT ![file] = @ \ {t}]

Release(t) ==
    /\ At(t, "inside") /\ Unlock(t, thread[t].file)
    /\ IF thread[t].patient THEN Step(t, "tidy") ELSE Become(t, Outside)
    /\ UNCHANGED <<inode, created, shared, exclusive>>

(* Whoever cannot have the gate at once leaves the files to the next.      *)
SkipReaping(t) ==
    /\ At(t, "tidy") /\ (shared # {} \/ exclusive # {})
    /\ Become(t, Outside)
    /\ UNCHANGED <<inode, created, shared, exclusive, holder>>

StartReaping(t) ==
    /\ At(t, "tidy") /\ shared = {} /\ exclusive = {}
    /\ exclusive' = {t}
    /\ Become(t, [thread[t] EXCEPT !.step = "reap",
                                   !.todo = {w \in Workspaces : inode[w] # 0}, !.file = 0])
    /\ UNCHANGED <<inode, created, shared, holder>>

(* flock without waiting.                                                  *)
Free(i) == holder[i] = {}

(* A file in use stays.                                                    *)
LockCandidate(t, w) ==
    /\ At(t, "reap") /\ w \in thread[t].todo /\ thread[t].file = 0
    /\ IF inode[w] # 0 /\ Free(inode[w])
       THEN /\ holder' = [holder EXCEPT ![inode[w]] = @ \union {t}]
            /\ Become(t, [thread[t] EXCEPT !.file = inode[w], !.workspace = w])
       ELSE /\ Become(t, [thread[t] EXCEPT !.todo = @ \ {w}]) /\ UNCHANGED holder
    /\ UNCHANGED <<inode, created, shared, exclusive>>

(* The file is still the one that was opened.                              *)
Remove(t) ==
    LET w == thread[t].workspace IN
    /\ At(t, "reap") /\ thread[t].file # 0
    /\ inode' = IF inode[w] = thread[t].file THEN [inode EXCEPT ![w] = 0] ELSE inode
    /\ Unlock(t, thread[t].file)
    /\ Become(t, [thread[t] EXCEPT !.file = 0, !.todo = @ \ {w}])
    /\ UNCHANGED <<created, shared, exclusive>>

StopReaping(t) ==
    /\ At(t, "reap") /\ thread[t].todo = {} /\ thread[t].file = 0
    /\ exclusive' = {} /\ Become(t, Outside)
    /\ UNCHANGED <<inode, created, shared, holder>>

(* A process that dies gives up its locks; the file stays.                 *)
Die(t) ==
    /\ ~At(t, "outside")
    /\ shared' = shared \ {t} /\ exclusive' = exclusive \ {t}
    /\ holder' = [i \in DOMAIN holder |-> holder[i] \ {t}]
    /\ Become(t, Outside)
    /\ UNCHANGED <<inode, created>>

ThreadStep(t) ==
    \/ \E w \in Workspaces, patient \in BOOLEAN : Want(t, w, patient)
    \/ EnterGate(t) \/ Open(t) \/ Acquire(t) \/ LeaveGate(t) \/ GiveUp(t)
    \/ Release(t) \/ SkipReaping(t) \/ StartReaping(t)
    \/ \E w \in Workspaces : LockCandidate(t, w)
    \/ Remove(t) \/ StopReaping(t) \/ Die(t)

Next == \E t \in Threads : ThreadStep(t)

Spec == Init /\ [][Next]_vars

----------------------------------------------------------------------------
Steps == {"outside", "gate", "open", "flock", "leave", "inside", "tidy", "reap"}
States == [step : Steps, workspace : Workspaces, file : 0 .. MaxInode, patient : BOOLEAN,
           todo : SUBSET Workspaces]

(* Every variable stays in its range. *)
TypeOK ==
    /\ created \in 0 .. MaxInode /\ inode \in [Workspaces -> 0 .. MaxInode]
    /\ shared \subseteq Threads /\ exclusive \subseteq Threads
    /\ holder \in [1 .. MaxInode -> SUBSET Threads]
    /\ thread \in [Threads -> States]

(* One thread at a time is inside a workspace, and the file it locked is   *)
(* the workspace's.                                                        *)
OneInside ==
    \A t \in Threads : At(t, "inside") =>
        /\ inode[thread[t].workspace] = thread[t].file
        /\ \A s \in Threads \ {t} : At(s, "inside") => thread[s].workspace # thread[t].workspace

(* Who has the lock of each workspace.                                     *)
Inside == [w \in Workspaces |->
              {t \in Threads : thread[t].step \in {"leave", "inside"} /\ thread[t].workspace = w}]
Mutex == INSTANCE WorkspaceMutex WITH inside <- Inside

(* The files, the gate and the reaping implement the lock they stand for:  *)
(* _workspace_install_lock makes "exactly one install (or cleanup)" run.   *)
LocksAreExclusive == Mutex!Spec
=============================================================================
