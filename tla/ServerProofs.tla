---------------------------- MODULE ServerProofs ----------------------------
(***************************************************************************)
(* The server's own machinery: the lock files of WorkspaceLocks implement  *)
(* the mutual exclusion of WorkspaceMutex, for any threads, workspaces and *)
(* files; the settings that were saved are those in force, for any         *)
(* requests, keys and values; and what clients are told is true and whole, *)
(* for any topics' values, any payloads and queue, any comments, users and *)
(* devices.                                                                *)
(***************************************************************************)
EXTENDS MCServer, TLAPS, FiniteSetTheorems

(* The file a thread waits for, or locked, is the one its workspace has:   *)
(* the gate keeps whoever would remove it away.                            *)
FileIsCurrent ==
    \A t \in Threads : thread[t].step \in {"flock", "leave", "inside"} =>
        thread[t].file # 0 /\ inode[thread[t].workspace] = thread[t].file

(* Whoever acquired a file has it alone.                                   *)
FileIsHeld ==
    \A t \in Threads : thread[t].step \in {"leave", "inside"} => holder[thread[t].file] = {t}

(* The gate is shared by those between it and their lock, or one reaps.    *)
GateIsHeld ==
    /\ \A t \in Threads : thread[t].step \in {"open", "flock", "leave"} => t \in shared
    /\ \A t \in Threads : thread[t].step = "reap" => exclusive = {t}
    /\ shared = {} \/ exclusive = {}

(* A candidate for removal is locked, and the file of its workspace.       *)
CandidateIsHeld ==
    \A t \in Threads : thread[t].step = "reap" /\ thread[t].file # 0 =>
        holder[thread[t].file] = {t} /\ inode[thread[t].workspace] = thread[t].file

(* No two workspaces have one file.                                        *)
FilesDiffer == \A v, w \in Workspaces : inode[v] # 0 /\ inode[v] = inode[w] => v = w

(* Files are numbered in the order they are created.                       *)
FilesAreCreated == \A w \in Workspaces : inode[w] <= created

IInv ==
    /\ TypeOK /\ FileIsCurrent /\ FileIsHeld /\ GateIsHeld /\ CandidateIsHeld
    /\ FilesDiffer /\ FilesAreCreated

-----------------------------------------------------------------------------
(* A thread that is in no workspace has a state of the type.               *)
LEMMA OutsideType ==
    ASSUME LocksAssumption
    PROVE  /\ Outside \in States
           /\ Outside.step = "outside"
  BY DEF Outside, LocksAssumption, States, Steps

(* A state keeps its type when its fields get values of theirs.            *)
LEMMA StateChange ==
    ASSUME NEW q \in States, NEW s \in Steps, NEW w \in Workspaces, NEW f \in 0 .. MaxInode,
           NEW p \in BOOLEAN, NEW d \in SUBSET Workspaces
    PROVE  /\ [q EXCEPT !.step = s] \in States
           /\ [q EXCEPT !.step = s, !.workspace = w, !.patient = p] \in States
           /\ [q EXCEPT !.step = s, !.file = f] \in States
           /\ [q EXCEPT !.step = s, !.todo = d, !.file = f] \in States
           /\ [q EXCEPT !.file = f, !.workspace = w] \in States
           /\ [q EXCEPT !.file = f, !.todo = d] \in States
           /\ [q EXCEPT !.todo = d] \in States
  BY DEF States

(* So a step of one thread keeps the type of all.                          *)
LEMMA ThreadChange ==
    ASSUME TypeOK, NEW t \in Threads, NEW q \in States, Become(t, q)
    PROVE  thread' \in [Threads -> States]
  BY DEF TypeOK, Become

(* The variables keep their types.                                         *)
LEMMA TypeStep ==
    ASSUME LocksAssumption, TypeOK, [Next]_vars
    PROVE  TypeOK'
<1>1. CASE UNCHANGED vars
  BY <1>1 DEF vars, TypeOK
<1>2. CASE Next
  <2> PICK t \in Threads : ThreadStep(t)
    BY <1>2 DEF Next
  <2> DEFINE q == thread[t]
  <2>q. /\ q \in States /\ q.step \in Steps /\ q.workspace \in Workspaces
        /\ q.file \in 0 .. MaxInode /\ q.todo \in SUBSET Workspaces
    BY DEF TypeOK, States
  <2>z. 0 \in 0 .. MaxInode
    BY DEF LocksAssumption
  <2>s. \A s \in Steps : [q EXCEPT !.step = s] \in States
    BY <2>q, StateChange DEF States
  <2>1. CASE \E w \in Workspaces, patient \in BOOLEAN : Want(t, w, patient)
    <3>1. PICK w \in Workspaces, patient \in BOOLEAN : Want(t, w, patient)
      BY <2>1
    <3>2. [Outside EXCEPT !.step = "gate", !.workspace = w, !.patient = patient] \in States
      BY OutsideType, StateChange, <2>q DEF Steps
    <3>3. thread' \in [Threads -> States]
      BY <3>1, <3>2, ThreadChange DEF Want
    <3> QED
      BY <3>1, <3>3 DEF Want, TypeOK
  <2>2. CASE EnterGate(t)
    <3>1. thread' \in [Threads -> States]
      BY <2>2, <2>s, ThreadChange DEF EnterGate, Step, Steps
    <3> QED
      BY <2>2, <3>1 DEF EnterGate, GateShared, TypeOK
  <2>3. CASE Open(t)
    <3> DEFINE file == IF inode[q.workspace] = 0 THEN created + 1 ELSE inode[q.workspace]
    <3>1. file \in 0 .. MaxInode
      BY <2>3, <2>q DEF Open, TypeOK, LocksAssumption
    <3>2. [q EXCEPT !.step = "flock", !.file = file] \in States
      BY ZenonT(30), <2>q, <3>1, StateChange DEF Steps
    <3>3. thread' \in [Threads -> States]
      BY <2>3, <3>2, ThreadChange DEF Open
    <3> QED
      BY <2>3, <2>q, <3>1, <3>3 DEF Open, TypeOK, LocksAssumption
  <2>4. CASE Acquire(t)
    <3>1. thread' \in [Threads -> States]
      BY <2>4, <2>s, ThreadChange DEF Acquire, Step, Steps
    <3> QED
      BY <2>4, <3>1 DEF Acquire, TypeOK
  <2>5. CASE LeaveGate(t)
    <3>1. thread' \in [Threads -> States]
      BY <2>5, <2>s, ThreadChange DEF LeaveGate, Step, Steps
    <3> QED
      BY <2>5, <3>1 DEF LeaveGate, TypeOK
  <2>6. CASE GiveUp(t)
    <3>1. thread' \in [Threads -> States]
      BY <2>6, OutsideType, ThreadChange DEF GiveUp
    <3> QED
      BY <2>6, <3>1 DEF GiveUp, TypeOK
  <2>7. CASE Release(t)
    <3>1. thread' \in [Threads -> States]
      BY <2>7, <2>s, OutsideType, ThreadChange DEF Release, Step, Steps
    <3> QED
      BY <2>7, <3>1 DEF Release, Unlock, TypeOK
  <2>8. CASE SkipReaping(t)
    <3>1. thread' \in [Threads -> States]
      BY <2>8, OutsideType, ThreadChange DEF SkipReaping
    <3> QED
      BY <2>8, <3>1 DEF SkipReaping, TypeOK
  <2>9. CASE StartReaping(t)
    <3> DEFINE files == {w \in Workspaces : inode[w] # 0}
    <3>. HIDE DEF files
    <3>0. files \in SUBSET Workspaces
      BY DEF files
    <3>1. [q EXCEPT !.step = "reap", !.todo = files, !.file = 0] \in States
      BY <2>q, <2>z, <3>0, StateChange DEF Steps
    <3>2. thread' \in [Threads -> States]
      BY <2>9, <3>1, ThreadChange DEF StartReaping, files
    <3> QED
      BY <2>9, <3>2 DEF StartReaping, TypeOK
  <2>10. CASE \E w \in Workspaces : LockCandidate(t, w)
    <3>1. PICK w \in Workspaces : LockCandidate(t, w)
      BY <2>10
    <3>2. inode[w] \in 0 .. MaxInode
      BY DEF TypeOK
    <3>3. [q EXCEPT !.file = inode[w], !.workspace = w] \in States
      BY <2>q, <3>2, StateChange
    <3>4. [q EXCEPT !.todo = @ \ {w}] \in States
      BY <2>q, StateChange
    <3>5. thread' \in [Threads -> States]
      BY <3>1, <3>3, <3>4, ThreadChange DEF LockCandidate
    <3>6. holder' \in [1 .. MaxInode -> SUBSET Threads]
      <4>1. CASE UNCHANGED holder
        BY <4>1 DEF TypeOK
      <4>2. CASE holder' = [holder EXCEPT ![inode[w]] = @ \union {t}]
        BY <4>2 DEF TypeOK
      <4> QED
        BY <3>1, <4>1, <4>2 DEF LockCandidate
    <3> QED
      BY <3>1, <3>5, <3>6 DEF LockCandidate, TypeOK
  <2>11. CASE Remove(t)
    <3>0. q.todo \ {q.workspace} \in SUBSET Workspaces
      BY <2>q
    <3>1. [q EXCEPT !.file = 0, !.todo = @ \ {q.workspace}] \in States
      BY <2>q, <2>z, <3>0, StateChange
    <3>2. thread' \in [Threads -> States]
      BY <2>11, <3>1, ThreadChange DEF Remove
    <3> QED
      BY <2>11, <3>2, <2>q DEF Remove, Unlock, TypeOK, LocksAssumption
  <2>12. CASE StopReaping(t)
    <3>1. thread' \in [Threads -> States]
      BY <2>12, OutsideType, ThreadChange DEF StopReaping
    <3> QED
      BY <2>12, <3>1 DEF StopReaping, TypeOK
  <2>13. CASE Die(t)
    <3>1. thread' \in [Threads -> States]
      BY <2>13, OutsideType, ThreadChange DEF Die
    <3> QED
      BY <2>13, <3>1 DEF Die, TypeOK
  <2> QED
    BY <2>1, <2>2, <2>3, <2>4, <2>5, <2>6, <2>7, <2>8, <2>9, <2>10, <2>11, <2>12, <2>13
       DEF ThreadStep
<1> QED
  BY <1>1, <1>2

-----------------------------------------------------------------------------
(* The initial states satisfy the invariant.                               *)
LEMMA InitInv ==
    ASSUME LocksAssumption, Init
    PROVE  IInv
<1>1. TypeOK
  BY OutsideType DEF Init, TypeOK, LocksAssumption
<1>2. \A t \in Threads : thread[t].step = "outside"
  BY OutsideType DEF Init
<1>3. FileIsCurrent /\ FileIsHeld /\ GateIsHeld /\ CandidateIsHeld
  BY <1>2 DEF Init, FileIsCurrent, FileIsHeld, GateIsHeld, CandidateIsHeld
<1>4. FilesDiffer
  BY DEF Init, FilesDiffer
<1> QED
  BY <1>1, <1>3, <1>4 DEF IInv, FilesAreCreated, Init

(* Every step keeps the invariant.                                         *)
LEMMA StepInv ==
    ASSUME LocksAssumption, IInv, [Next]_vars
    PROVE  IInv'
<1> USE DEF FileIsCurrent, FileIsHeld, GateIsHeld, CandidateIsHeld, FilesDiffer, FilesAreCreated
<1>t. TypeOK /\ TypeOK'
  BY TypeStep DEF IInv
<1>1. CASE UNCHANGED vars
  BY <1>1 DEF vars, IInv, TypeOK
<1>2. CASE Next
  <2> PICK t \in Threads : ThreadStep(t)
    BY <1>2 DEF Next
  <2> DEFINE q == thread[t]
  <2>o. \A s \in Threads : /\ thread[s] \in States /\ thread[s].file \in 0 .. MaxInode
                           /\ thread[s].workspace \in Workspaces
    BY <1>t DEF TypeOK, States
  <2>1. CASE \E w \in Workspaces, patient \in BOOLEAN : Want(t, w, patient)
    <3>1. PICK w \in Workspaces, patient \in BOOLEAN : Want(t, w, patient)
      BY <2>1
    <3>2. thread'[t].step = "gate" /\ \A s \in Threads \ {t} : thread'[s] = thread[s]
      BY <1>t, <3>1, OutsideType DEF Want, Become, TypeOK, States
    <3> QED
      BY <1>t, <3>1, <3>2 DEF IInv, Want
  <2>2. CASE EnterGate(t)
    <3>1. thread'[t].step = "open" /\ \A s \in Threads \ {t} : thread'[s] = thread[s]
      BY <1>t, <2>2 DEF EnterGate, Step, Become, TypeOK, States
    <3> QED
      BY <1>t, <2>2, <3>1 DEF IInv, EnterGate, GateShared
  <2>3. CASE Open(t)
    <3> DEFINE w == q.workspace
               file == IF inode[w] = 0 THEN created + 1 ELSE inode[w]
    <3>1. /\ thread'[t].step = "flock" /\ thread'[t].file = file /\ thread'[t].workspace = w
          /\ \A s \in Threads \ {t} : thread'[s] = thread[s]
      BY <1>t, <2>3 DEF Open, Become, TypeOK, States
    <3>2. t \in shared /\ exclusive = {}
      BY <2>3 DEF IInv, Open, At
    <3>3. inode'[w] = file /\ file # 0 /\ \A v \in Workspaces \ {w} : inode'[v] = inode[v]
      BY <1>t, <2>3, <2>o DEF Open, TypeOK
    <3>4. inode[w] # 0 => inode' = inode
      BY <1>t, <2>3, <2>o DEF Open, TypeOK
    <3>5. FilesDiffer' /\ FilesAreCreated'
      BY <1>t, <2>3, <2>o, <3>3, <3>4 DEF IInv, Open, TypeOK
    <3>6. FileIsCurrent' /\ FileIsHeld'
      BY <1>t, <2>3, <2>o, <3>1, <3>3, <3>4 DEF IInv, Open
    <3>7. GateIsHeld' /\ CandidateIsHeld'
      BY <1>t, <2>3, <2>o, <3>1, <3>2 DEF IInv, Open
    <3> QED
      BY <1>t, <3>5, <3>6, <3>7 DEF IInv
  <2>4. CASE Acquire(t)
    <3> DEFINE file == q.file
    <3>1. /\ thread'[t].step = "leave" /\ thread'[t].file = file /\ thread'[t].workspace = q.workspace
          /\ \A s \in Threads \ {t} : thread'[s] = thread[s]
      BY <1>t, <2>4 DEF Acquire, Step, Become, TypeOK, States
    <3>2. t \in shared /\ exclusive = {} /\ file \in 1 .. MaxInode
      BY <1>t, <2>4, <2>o DEF IInv, Acquire, At, LocksAssumption
    <3>3. holder[file] = {} /\ holder'[file] = {t} /\ \A i \in 1 .. MaxInode \ {file} : holder'[i] = holder[i]
      BY <1>t, <2>4, <3>2 DEF Acquire, TypeOK
    <3>4. FileIsCurrent' /\ GateIsHeld' /\ FilesDiffer' /\ FilesAreCreated'
      BY <2>4, <2>o, <3>1, <3>2 DEF IInv, Acquire, At
    <3>5. \A s \in Threads \ {t} : thread[s].step \in {"leave", "inside"} => thread[s].file # file
      BY <3>3 DEF IInv
    <3>6. FileIsHeld'
      BY <2>o, <3>1, <3>2, <3>3, <3>5, LocksAssumption DEF IInv, LocksAssumption
    <3>7. CandidateIsHeld'
      BY <3>1, <3>2, <3>4 
    <3> QED
      BY <1>t, <3>4, <3>6, <3>7 DEF IInv
  <2>5. CASE LeaveGate(t)
    <3>1. /\ thread'[t].step = "inside" /\ thread'[t].file = q.file /\ thread'[t].workspace = q.workspace
          /\ \A s \in Threads \ {t} : thread'[s] = thread[s]
      BY <1>t, <2>5 DEF LeaveGate, Step, Become, TypeOK, States
    <3> QED
      BY SMTT(30), <1>t, <2>5, <2>o, <3>1 DEF IInv, LeaveGate, At
  <2>6. CASE GiveUp(t)
    <3>1. thread'[t].step = "outside" /\ \A s \in Threads \ {t} : thread'[s] = thread[s]
      BY <1>t, <2>6, OutsideType DEF GiveUp, Become, TypeOK
    <3> QED
      BY <1>t, <2>6, <2>o, <3>1 DEF IInv, GiveUp
  <2>7. CASE Release(t)
    <3>1. thread'[t].step \in {"tidy", "outside"} /\ \A s \in Threads \ {t} : thread'[s] = thread[s]
      BY <1>t, <2>7, OutsideType DEF Release, Step, Become, TypeOK, States
    <3>2. q.file \in 1 .. MaxInode /\ holder[q.file] = {t}
      BY <1>t, <2>7, <2>o DEF IInv, Release, At, LocksAssumption
    <3>3. \A i \in 1 .. MaxInode \ {q.file} : holder'[i] = holder[i]
      BY <1>t, <2>7, <3>2 DEF Release, Unlock, TypeOK
    <3>4. FileIsCurrent' /\ GateIsHeld' /\ FilesDiffer' /\ FilesAreCreated'
      BY <2>7, <2>o, <3>1 DEF IInv, Release
    <3>5. \A s \in Threads \ {t} :
            thread[s].step \in {"leave", "inside"} \/ (thread[s].step = "reap" /\ thread[s].file # 0)
              => thread[s].file # q.file
      BY <3>2 DEF IInv
    <3>6. FileIsHeld' /\ CandidateIsHeld'
      BY <1>t, <2>7, <2>o, <3>1, <3>3, <3>5 DEF IInv, Release, LocksAssumption
    <3> QED
      BY <1>t, <3>4, <3>6 DEF IInv
  <2>8. CASE SkipReaping(t)
    <3>1. thread'[t].step = "outside" /\ \A s \in Threads \ {t} : thread'[s] = thread[s]
      BY <1>t, <2>8, OutsideType DEF SkipReaping, Become, TypeOK
    <3> QED
      BY <1>t, <2>8, <2>o, <3>1 DEF IInv, SkipReaping
  <2>9. CASE StartReaping(t)
    <3>1. /\ thread'[t].step = "reap" /\ thread'[t].file = 0
          /\ \A s \in Threads \ {t} : thread'[s] = thread[s]
      BY <1>t, <2>9 DEF StartReaping, Become, TypeOK, States
    <3> QED
      BY <1>t, <2>9, <2>o, <3>1 DEF IInv, StartReaping
  <2>10. CASE \E w \in Workspaces : LockCandidate(t, w)
    <3>1. PICK w \in Workspaces : LockCandidate(t, w)
      BY <2>10
    <3>2. thread'[t].step = "reap" /\ \A s \in Threads \ {t} : thread'[s] = thread[s]
      <4>1. q.step = "reap" /\ thread \in [Threads -> States]
        BY <1>t, <3>1 DEF LockCandidate, At, TypeOK
      <4>2. CASE Become(t, [q EXCEPT !.file = inode[w], !.workspace = w])
        BY <4>1, <4>2 DEF Become, States
      <4>3. CASE Become(t, [q EXCEPT !.todo = @ \ {w}])
        BY <4>1, <4>3 DEF Become, States
      <4> QED
        BY <3>1, <4>2, <4>3 DEF LockCandidate
    <3>3. exclusive = {t} /\ shared = {}
      BY <3>1 DEF IInv, LockCandidate, At
    <3>4. GateIsHeld' /\ FileIsCurrent' /\ FilesDiffer' /\ FilesAreCreated'
      BY <3>1, <3>2, <3>3 DEF IInv, LockCandidate
    <3>5. CASE inode[w] # 0 /\ Free(inode[w])
      <4>1. inode[w] \in 1 .. MaxInode /\ holder[inode[w]] = {}
        BY <1>t, <3>5, LocksAssumption DEF Free, TypeOK, LocksAssumption
      <4>2. /\ holder'[inode[w]] = {t}
            /\ \A i \in 1 .. MaxInode \ {inode[w]} : holder'[i] = holder[i]
        BY <1>t, <3>1, <3>5, <4>1 DEF LockCandidate, TypeOK
      <4>3. thread'[t].file = inode[w] /\ thread'[t].workspace = w
        <5>1. Become(t, [q EXCEPT !.file = inode[w], !.workspace = w])
          BY <3>1, <3>5 DEF LockCandidate
        <5>2. thread \in [Threads -> States]
          BY <1>t DEF TypeOK
        <5> QED
          BY <5>1, <5>2 DEF Become, States
      <4>4. \A s \in Threads \ {t} : thread[s].step \in {"leave", "inside"} => thread[s].file # inode[w]
        BY <4>1 DEF IInv
      <4>5. FileIsHeld'
        BY <1>t, <2>o, <3>2, <4>2, <4>4, LocksAssumption DEF IInv, LocksAssumption
      <4>6. \A s \in Threads \ {t} : thread'[s].step # "reap"
        BY <3>2, <3>3 DEF IInv
      <4>7. CandidateIsHeld'
        BY <3>1, <4>2, <4>3, <4>6 DEF LockCandidate
      <4> QED
        BY <1>t, <3>4, <4>5, <4>7 DEF IInv
    <3>6. CASE ~(inode[w] # 0 /\ Free(inode[w]))
      <4>1. thread'[t].file = 0 /\ holder' = holder
        BY <1>t, <3>1, <3>6 DEF LockCandidate, Become, TypeOK, States
      <4>2. FileIsHeld' /\ CandidateIsHeld'
        BY <3>2, <3>3, <4>1 DEF IInv
      <4> QED
        BY <1>t, <3>1, <3>4, <4>2 DEF IInv, LockCandidate
    <3> QED
      BY <3>5, <3>6
  <2>11. CASE Remove(t)
    <3> DEFINE w == q.workspace
    <3>1. /\ thread'[t].step = "reap" /\ thread'[t].file = 0
          /\ \A s \in Threads \ {t} : thread'[s] = thread[s]
      BY <1>t, <2>11 DEF Remove, Become, At, TypeOK, States
    <3>2. exclusive = {t} /\ shared = {} /\ inode[w] = q.file /\ holder[q.file] = {t}
      BY <2>11 DEF IInv, Remove, At
    <3>3. q.file \in 1 .. MaxInode /\ w \in Workspaces
      BY <2>11, <2>o, LocksAssumption DEF Remove, LocksAssumption
    <3>4. \A i \in 1 .. MaxInode \ {q.file} : holder'[i] = holder[i]
      BY <1>t, <2>11, <3>3 DEF Remove, Unlock, TypeOK
    <3>5. inode'[w] = 0 /\ \A v \in Workspaces \ {w} : inode'[v] = inode[v]
      BY <1>t, <2>11, <3>2, <3>3 DEF Remove, TypeOK
    <3>6. \A s \in Threads \ {t} : thread[s].step \in {"leave", "inside"} => thread[s].file # q.file
      BY <3>2 DEF IInv
    <3>7. \A s \in Threads \ {t} : thread[s].step \in {"flock", "leave", "inside"} =>
            thread[s].step # "flock" /\ thread[s].workspace # w
      BY <3>2, <3>6 DEF IInv
    <3>8. GateIsHeld' /\ FilesDiffer' /\ FilesAreCreated'
      <4>1. GateIsHeld'
        BY <2>11, <3>1, <3>2 DEF IInv, Remove
      <4>2. FilesDiffer'
        BY <3>3, <3>5 DEF IInv
      <4>3. FilesAreCreated'
        BY <1>t, <2>11, <3>3, <3>5 DEF IInv, Remove, TypeOK
      <4> QED
        BY <4>1, <4>2, <4>3
    <3>9. FileIsCurrent' /\ FileIsHeld'
      BY <2>o, <3>1, <3>4, <3>5, <3>6, <3>7, LocksAssumption DEF IInv, LocksAssumption
    <3>10. CandidateIsHeld'
      BY <3>1, <3>2 DEF IInv
    <3> QED
      BY <1>t, <3>8, <3>9, <3>10 DEF IInv
  <2>12. CASE StopReaping(t)
    <3>1. thread'[t].step = "outside" /\ \A s \in Threads \ {t} : thread'[s] = thread[s]
      BY <1>t, <2>12, OutsideType DEF StopReaping, Become, TypeOK
    <3>2. \A s \in Threads \ {t} : thread[s].step # "reap"
      BY <2>12 DEF IInv, StopReaping, At
    <3> QED
      BY <1>t, <2>12, <2>o, <3>1, <3>2 DEF IInv, StopReaping
  <2>13. CASE Die(t)
    <3>1. thread'[t].step = "outside" /\ \A s \in Threads \ {t} : thread'[s] = thread[s]
      BY <1>t, <2>13, OutsideType DEF Die, Become, TypeOK
    <3>2. \A i \in 1 .. MaxInode : holder'[i] = holder[i] \ {t}
      BY <1>t, <2>13 DEF Die, TypeOK
    <3>3. FileIsCurrent' /\ GateIsHeld' /\ FilesDiffer' /\ FilesAreCreated'
      BY <2>13, <2>o, <3>1 DEF IInv, Die
    <3>4. \A s \in Threads \ {t} : thread[s].file # 0 /\ holder[thread[s].file] = {s} =>
            holder'[thread[s].file] = {s}
      BY <2>o, <3>2, LocksAssumption DEF LocksAssumption
    <3>5. FileIsHeld'
      BY <3>1, <3>4 DEF IInv
    <3>6. inode' = inode
      BY <2>13 DEF Die
    <3>7. CandidateIsHeld'
      BY <3>1, <3>4, <3>6 DEF IInv
    <3> QED
      BY <1>t, <3>3, <3>5, <3>7 DEF IInv
  <2> QED
    BY <2>1, <2>2, <2>3, <2>4, <2>5, <2>6, <2>7, <2>8, <2>9, <2>10, <2>11, <2>12, <2>13
       DEF ThreadStep
<1> QED
  BY <1>1, <1>2

-----------------------------------------------------------------------------
(* The invariant holds always.                                             *)
THEOREM Invariance ==
    ASSUME LocksAssumption
    PROVE  Spec => []IInv
<1>1. Init => IInv
  BY InitInv
<1>2. IInv /\ [Next]_vars => IInv'
  BY StepInv
<1> QED
  BY <1>1, <1>2, PTL DEF Spec

(* The variables have their types.                                         *)
THEOREM TypeCorrect ==
    ASSUME LocksAssumption
    PROVE  Spec => []TypeOK
<1>1. IInv => TypeOK
  BY DEF IInv
<1> QED
  BY <1>1, Invariance, PTL

(* No two threads are inside one workspace, whatever files were removed    *)
(* and made again while they waited.                                       *)
THEOREM OneThreadInside ==
    ASSUME LocksAssumption
    PROVE  Spec => []OneInside
<1>1. IInv => OneInside
  <2> SUFFICES ASSUME IInv, NEW t \in Threads, At(t, "inside"),
                      NEW s \in Threads \ {t}, At(s, "inside"),
                      thread[s].workspace = thread[t].workspace
               PROVE  FALSE
    BY DEF OneInside, IInv, FileIsCurrent, At
  <2>1. thread[s].file = thread[t].file
    BY DEF IInv, FileIsCurrent, At
  <2>2. holder[thread[t].file] = {t} /\ holder[thread[s].file] = {s}
    BY DEF IInv, FileIsHeld, At
  <2> QED
    BY <2>1, <2>2
<1> QED
  BY <1>1, Invariance, PTL

-----------------------------------------------------------------------------
(* Who is inside each workspace changes only as a mutual exclusion allows: *)
(* the step that takes a file's lock enters, and those that give it up, or *)
(* die with it, leave.                                                     *)
LEMMA StepImplements ==
    ASSUME LocksAssumption, IInv, [Next]_vars
    PROVE  [Mutex!Next]_Inside
<1> DEFINE In(t, w) == thread[t].step \in {"leave", "inside"} /\ thread[t].workspace = w
<1>i. /\ Inside = [w \in Workspaces |-> {t \in Threads : In(t, w)}]
      /\ Inside' = [w \in Workspaces |-> {t \in Threads : In(t, w)'}]
  BY DEF Inside
<1> HIDE DEF In
<1>t. TypeOK /\ TypeOK'
  BY TypeStep DEF IInv
<1>e. ASSUME NEW t \in Threads, NEW w \in Workspaces,
             In(t, w)', \A s \in Threads : ~In(s, w),
             \A s \in Threads, v \in Workspaces : s # t \/ v # w => (In(s, v)' <=> In(s, v))
      PROVE  Mutex!Enter(t, w)
  BY <1>e, <1>i DEF Mutex!Enter
<1>l. ASSUME NEW t \in Threads, NEW w \in Workspaces,
             \A s \in Threads : In(s, w) <=> s = t, ~In(t, w)',
             \A s \in Threads, v \in Workspaces : s # t \/ v # w => (In(s, v)' <=> In(s, v))
      PROVE  Mutex!Leave(t, w)
  BY <1>l, <1>i DEF Mutex!Leave
<1>s. ASSUME \A s \in Threads, v \in Workspaces : In(s, v)' <=> In(s, v)
      PROVE  UNCHANGED Inside
  BY <1>s, <1>i
<1>1. CASE UNCHANGED vars
  BY <1>1 DEF vars, Inside
<1>2. CASE Next
  <2> PICK t \in Threads : ThreadStep(t)
    BY <1>2 DEF Next
  <2> DEFINE q == thread[t]
  <2>o. /\ q \in States /\ q.workspace \in Workspaces /\ thread \in [Threads -> States]
        /\ thread' \in [Threads -> States] /\ \A s \in Threads \ {t} : thread'[s] = thread[s]
    BY <1>t DEF TypeOK, States, ThreadStep, Want, EnterGate, Open, Acquire, LeaveGate, GiveUp,
                Release,
                SkipReaping, StartReaping, LockCandidate, Remove, StopReaping, Die, Step, Become
  <2>n. \A s \in Threads \ {t}, v \in Workspaces : In(s, v)' <=> In(s, v)
    BY <2>o DEF In
  <2>w. PICK w \in Workspaces : q.workspace = w
    BY <2>o
  <2>h. ASSUME q.step \in {"leave", "inside"}
        PROVE  \A s \in Threads : In(s, w) <=> s = t
    BY <2>h, <2>w DEF IInv, FileIsCurrent, FileIsHeld, In
  <2>m. ASSUME q.step \notin {"leave", "inside"}, thread'[t].step \notin {"leave", "inside"}
        PROVE  UNCHANGED Inside
    BY <2>m, <2>n, <1>s DEF In
  <2>u. ASSUME q.step \in {"leave", "inside"}, thread'[t].step \notin {"leave", "inside"}
        PROVE  Mutex!Leave(t, w)
    <3>1. ~In(t, w)' /\ \A v \in Workspaces : v # w => (In(t, v)' <=> In(t, v))
      BY <2>u, <2>w DEF In
    <3>2. \A s \in Threads, v \in Workspaces : s # t \/ v # w => (In(s, v)' <=> In(s, v))
      BY <2>n, <3>1
    <3>3. \A s \in Threads : In(s, w) <=> s = t
      BY <2>u, <2>h
    <3> QED
      BY <3>1, <3>2, <3>3, <1>l
  <2> DEFINE Out(s) == thread'[s].step \notin {"leave", "inside"}
  <2>1. CASE \E v \in Workspaces, patient \in BOOLEAN : Want(t, v, patient)
    <3>1. PICK v \in Workspaces, patient \in BOOLEAN : Want(t, v, patient)
      BY <2>1
    <3>2. Out(t)
      BY <2>o, <3>1, OutsideType DEF Want, Become, States
    <3> QED
      BY <3>1, <3>2, <2>m DEF Want, At
  <2>2. CASE EnterGate(t)
    <3>1. Out(t)
      BY <2>o, <2>2 DEF EnterGate, Step, Become, States
    <3> QED
      BY <2>2, <3>1, <2>m DEF EnterGate, At
  <2>3. CASE Open(t)
    <3>1. Out(t)
      BY <2>o, <2>3 DEF Open, Become, States
    <3> QED
      BY <2>3, <3>1, <2>m DEF Open, At
  <2>4. CASE Acquire(t)
    <3>1. thread'[t].step = "leave" /\ thread'[t].workspace = w
      BY <2>o, <2>w, <2>4 DEF Acquire, Step, Become, States
    <3>2. In(t, w)' /\ \A v \in Workspaces \ {w} : In(t, v)' <=> In(t, v)
      BY <3>1, <2>4 DEF In, Acquire, At
    <3>3. \A s \in Threads : ~In(s, w)
      BY <2>4, <2>w DEF In, IInv, FileIsCurrent, FileIsHeld, Acquire, At
    <3>4. \A s \in Threads, v \in Workspaces : s # t \/ v # w => (In(s, v)' <=> In(s, v))
      BY <2>n, <3>2
    <3>5. Mutex!Enter(t, w)
      BY <3>2, <3>3, <3>4, <1>e
    <3> QED
      BY <3>5 DEF Mutex!Next
  <2>5. CASE LeaveGate(t)
    <3>1. thread'[t].step = "inside" /\ thread'[t].workspace = q.workspace /\ q.step = "leave"
      BY <2>o, <2>5 DEF LeaveGate, At, Step, Become, States
    <3>2. \A v \in Workspaces : In(t, v)' <=> In(t, v)
      BY <3>1 DEF In
    <3> QED
      BY <2>n, <3>2, <1>s
  <2>6. CASE GiveUp(t)
    <3>1. Out(t)
      BY <2>o, <2>6, OutsideType DEF GiveUp, Become
    <3> QED
      BY <2>6, <3>1, <2>m DEF GiveUp
  <2>7. CASE Release(t)
    <3>1. Out(t)
      BY <2>o, <2>7, OutsideType DEF Release, Step, Become, States
    <3> QED
      BY <2>7, <3>1, <2>u DEF Release, At, Mutex!Next
  <2>8. CASE SkipReaping(t)
    <3>1. Out(t)
      BY <2>o, <2>8, OutsideType DEF SkipReaping, Become
    <3> QED
      BY <2>8, <3>1, <2>m DEF SkipReaping, At
  <2>9. CASE StartReaping(t)
    <3>1. Out(t)
      BY <2>o, <2>9 DEF StartReaping, Become, States
    <3> QED
      BY <2>9, <3>1, <2>m DEF StartReaping, At
  <2>10. CASE \E v \in Workspaces : LockCandidate(t, v)
    <3>1. PICK v \in Workspaces : LockCandidate(t, v)
      BY <2>10
    <3>2. \/ Become(t, [q EXCEPT !.file = inode[v], !.workspace = v])
          \/ Become(t, [q EXCEPT !.todo = @ \ {v}])
      BY <3>1 DEF LockCandidate
    <3>3. q.step = "reap"
      BY <3>1 DEF LockCandidate, At
    <3>4. Out(t)
      <4>1. CASE Become(t, [q EXCEPT !.file = inode[v], !.workspace = v])
        BY <2>o, <3>3, <4>1 DEF Become, States
      <4>2. CASE Become(t, [q EXCEPT !.todo = @ \ {v}])
        BY <2>o, <3>3, <4>2 DEF Become, States
      <4> QED
        BY <3>2, <4>1, <4>2
    <3> QED
      BY <3>3, <3>4, <2>m
  <2>11. CASE Remove(t)
    <3>0. q.step = "reap" /\ Become(t, [q EXCEPT !.file = 0, !.todo = @ \ {q.workspace}])
      BY <2>11 DEF Remove, At
    <3>1. Out(t)
      BY <2>o, <3>0 DEF Become, States
    <3> QED
      BY <2>11, <3>1, <2>m DEF Remove, At
  <2>12. CASE StopReaping(t)
    <3>1. Out(t)
      BY <2>o, <2>12, OutsideType DEF StopReaping, Become
    <3> QED
      BY <2>12, <3>1, <2>m DEF StopReaping, At
  <2>13. CASE Die(t)
    <3>1. Out(t)
      BY <2>o, <2>13, OutsideType DEF Die, Become
    <3> QED
      BY <2>13, <3>1, <2>m, <2>u DEF Mutex!Next
  <2> QED
    BY <2>1, <2>2, <2>3, <2>4, <2>5, <2>6, <2>7, <2>8, <2>9, <2>10, <2>11, <2>12, <2>13
       DEF ThreadStep
<1> QED
  BY <1>1, <1>2

(* The lock files implement the lock they stand for.                       *)
THEOREM Implements ==
    ASSUME LocksAssumption
    PROVE  Spec => LocksAreExclusive
<1>1. Init => Mutex!Init
  <2> SUFFICES ASSUME Init
               PROVE  Mutex!Init
    OBVIOUS
  <2>1. \A t \in Threads : thread[t].step = "outside"
    BY OutsideType DEF Init
  <2>2. \A w \in Workspaces :
          {t \in Threads : thread[t].step \in {"leave", "inside"} /\ thread[t].workspace = w} = {}
    BY <2>1
  <2> QED
    BY <2>2 DEF Mutex!Init, Inside
<1>2. IInv /\ [Next]_vars => [Mutex!Next]_Inside
  BY StepImplements
<1> QED
  BY <1>1, <1>2, Invariance, PTL DEF Spec, Mutex!Spec, LocksAreExclusive

----------------------------------------------------------------------------
(* The settings. *)

Values(k) == Accepts[k] \union {N!Unset}

SettingTypes ==
    /\ rows = [k \in Keys |-> rows[k]] /\ cache = [k \in Keys |-> cache[k]]
    /\ \A k \in Keys : rows[k] \in Values(k) /\ cache[k] \in Values(k)
    /\ sidecar \in Accepts[Switch]
    /\ overlapped \subseteq Keys /\ unsure \subseteq {"sidecar", "record"}
    /\ saves \in 0 .. MaxSaves /\ failures \in 0 .. MaxFailures /\ crashes \in 0 .. MaxCrashes

(* A request that saves: values its keys take, and none that an export     *)
(* left of a value it found.                                               *)
Saving(r) ==
    /\ r.step \in {"write", "clear", "cache", "sync"}
    /\ r = [step |-> r.step, keys |-> r.keys, batch |-> r.batch, kept |-> r.kept, enabled |-> r.enabled]
    /\ r.keys \subseteq Keys /\ DOMAIN r.batch = r.keys
    /\ \A k \in r.keys : /\ r.batch[k] \in Values(k)
                         /\ r.kept[k] # N!Unset => Sanitized[r.kept[k]] # r.batch[k]
    /\ r.step = "sync" => r.enabled \in Accepts[Switch] /\ r.keys \intersect SidecarKeys # {}

Testing(r) == r.step \in {"call", "record"} /\ r = [step |-> r.step, tested |-> r.tested]

RequestsAreKnown ==
    /\ request = [q \in Handlers |-> request[q]]
    /\ \A q \in Handlers : request[q] = N!Silent \/ Saving(request[q]) \/ Testing(request[q])

(* It has written its rows and not yet updated the cache.                  *)
Written(r) == r.step \in {"clear", "cache"}

(* Who applies a key at a time with another is noticed.                    *)
OneApplies ==
    \A p, q \in Handlers : p # q =>
        N!Touched(request[p]) \intersect N!Touched(request[q]) \subseteq overlapped

(* The cache has what the rows have, or who wrote them will put it there;  *)
(* the bridge file always has what the cache has.                          *)
RowsAreApplied ==
    /\ bridge = N!Bridged(cache)
    /\ \A k \in Keys \ overlapped :
         /\ (\A q \in Handlers : Written(request[q]) => k \notin request[q].keys) => cache[k] = rows[k]
         /\ \A q \in Handlers : Written(request[q]) /\ k \in request[q].keys => request[q].batch[k] = rows[k]

(* What the sidecar is about to be told is in force.                       *)
SidecarIsTold ==
    Switch \notin overlapped =>
        /\ "sidecar" \notin unsure /\ (\A q \in Handlers : Switch \notin N!Touched(request[q])) =>
             sidecar = N!InForce(rows, Switch)
        /\ \A q \in Handlers : request[q].step = "sync" => request[q].enabled = N!InForce(rows, Switch)

(* While Jira settings change there is no record once it is cleared, and   *)
(* nobody makes one.                                                       *)
ChangesJira(r) == Written(r) /\ r.keys \intersect JiraKeys # {}

RecordIsTrue ==
    "record" \notin unsure /\ overlapped \intersect JiraKeys = {} =>
        /\ (\A q \in Handlers : ~ChangesJira(request[q])) =>
             verified \in {N!NotVerified, N!Fingerprint(cache)}
        /\ \A q \in Handlers : request[q].step = "cache" /\ ChangesJira(request[q]) => verified = N!NotVerified
        /\ \A q \in Handlers : request[q].step = "record" =>
             /\ request[q].tested = N!Fingerprint(cache)
             /\ \A p \in Handlers : ~ChangesJira(request[p])

SettingsInv ==
    /\ SettingTypes /\ RequestsAreKnown /\ OneApplies /\ RowsAreApplied /\ SidecarIsTold /\ RecordIsTrue
----------------------------------------------------------------------------
(* Every override in the cache validates, so each key has its own value.   *)
LEMMA EachIsInForce ==
    ASSUME N!SettingsAssumption, NEW c, \A k \in Keys : c[k] \in Values(k)
    PROVE  /\ \A k \in Keys : N!GetSettings(c, k) = N!InForce(c, k) /\ N!InForce(c, k) \in Accepts[k]
           /\ N!Fingerprint(c) = [k \in JiraKeys |-> N!InForce(c, k)]
<1>1. \A k \in Keys : N!InForce(c, k) \in Accepts[k]
  BY DEF N!SettingsAssumption, N!InForce, Values
<1>2. \A k \in N!Set(c) : c[k] \in Accepts[k]
  BY DEF N!Set, Values
<1>3. \A k \in Keys : N!GetSettings(c, k) = N!InForce(c, k)
  BY <1>2 DEF N!GetSettings
<1>4. JiraKeys \subseteq Keys
  BY DEF N!SettingsAssumption
<1>5. N!Fingerprint(c) = [k \in JiraKeys |-> N!InForce(c, k)]
  BY <1>3, <1>4 DEF N!Fingerprint
<1> QED BY <1>1, <1>3, <1>5

LEMMA SameInForce ==
    ASSUME NEW c, NEW d, NEW k, c[k] = d[k]
    PROVE  N!InForce(c, k) = N!InForce(d, k)
BY DEF N!InForce

LEMMA Validates ==
    ASSUME NEW k, NEW v
    PROVE  N!Valid(k, v) <=> v \in Accepts[k]
<1>1. CASE v = N!Empty
  BY <1>1 DEF N!Valid, N!EmptyAllowed
<1>2. CASE v # N!Empty
  BY <1>2 DEF N!Valid, N!Normal
<1> QED BY <1>1, <1>2

(* A request goes on, and the others stay as they are.                     *)
LEMMA Becoming ==
    ASSUME RequestsAreKnown, NEW q \in Handlers, NEW r, request' = [request EXCEPT ![q] = r],
           r = N!Silent \/ Saving(r) \/ Testing(r)
    PROVE  /\ RequestsAreKnown'
           /\ \A p \in Handlers : request'[p] = IF p = q THEN r ELSE request[p]
<1>1. \A p \in Handlers : request'[p] = IF p = q THEN r ELSE request[p]
  BY DEF RequestsAreKnown
<1>2. request' = [p \in Handlers |-> request'[p]]
  BY DEF RequestsAreKnown
<1>3. \A p \in Handlers : request'[p] = N!Silent \/ Saving(request'[p]) \/ Testing(request'[p])
  BY <1>1 DEF RequestsAreKnown
<1>4. RequestsAreKnown'
  BY <1>2, <1>3 DEF RequestsAreKnown, Saving, Values, Testing
<1> QED BY <1>1, <1>4

LEMMA IdleTouchesNothing ==
    /\ N!Touched(N!Silent) = {} /\ N!Silent.step = "idle"
    /\ \A r : Testing(r) => N!Touched(r) = {} /\ r.step \in {"call", "record"}
    /\ \A r : r.step = "write" => N!Touched(r) = {}
BY DEF N!Touched, N!Silent, Testing

(* Saving goes on to its next step.                                        *)
LEMMA SavingGoesOn ==
    ASSUME NEW r, Saving(r), NEW step \in {"write", "clear", "cache"}
    PROVE  /\ Saving([r EXCEPT !.step = step])
           /\ [r EXCEPT !.step = step].step = step /\ [r EXCEPT !.step = step].keys = r.keys
           /\ [r EXCEPT !.step = step].batch = r.batch
<1>1. PICK ks, b, kept, e : r = [step |-> r.step, keys |-> ks, batch |-> b, kept |-> kept, enabled |-> e]
  BY DEF Saving
<1>2. r.keys = ks /\ r.batch = b /\ r.kept = kept /\ r.enabled = e
  BY <1>1
<1>3. PICK s : s = [r EXCEPT !.step = step]
  OBVIOUS
<1>4. s = [step |-> step, keys |-> ks, batch |-> b, kept |-> kept, enabled |-> e]
  BY <1>1, <1>3
<1>5. s.step = step /\ s.keys = ks /\ s.batch = b /\ s.kept = kept /\ s.enabled = e
  BY <1>4
<1>6. Saving(s)
  BY <1>2, <1>4, <1>5 DEF Saving
<1> QED BY <1>2, <1>3, <1>5, <1>6

LEMMA SavingTells ==
    ASSUME NEW r, Saving(r), r.keys \intersect SidecarKeys # {}, NEW told \in Accepts[Switch]
    PROVE  /\ Saving([r EXCEPT !.step = "sync", !.enabled = told])
           /\ [r EXCEPT !.step = "sync", !.enabled = told].step = "sync"
           /\ [r EXCEPT !.step = "sync", !.enabled = told].keys = r.keys
           /\ [r EXCEPT !.step = "sync", !.enabled = told].enabled = told
<1>1. PICK ks, b, kept, e : r = [step |-> r.step, keys |-> ks, batch |-> b, kept |-> kept, enabled |-> e]
  BY DEF Saving
<1>2. r.keys = ks /\ r.batch = b /\ r.kept = kept /\ r.enabled = e
  BY <1>1
<1>3. PICK s : s = [r EXCEPT !.step = "sync", !.enabled = told]
  OBVIOUS
<1>4. s = [step |-> "sync", keys |-> ks, batch |-> b, kept |-> kept, enabled |-> told]
  <2>1. PICK t : t = [r EXCEPT !.step = "sync"]
    OBVIOUS
  <2>2. t = [step |-> "sync", keys |-> ks, batch |-> b, kept |-> kept, enabled |-> e]
    BY <1>1, <2>1
  <2>3. s = [t EXCEPT !.enabled = told]
    BY <1>3, <2>1
  <2> QED BY <2>2, <2>3
<1>5. s.step = "sync" /\ s.keys = ks /\ s.batch = b /\ s.kept = kept /\ s.enabled = told
  BY <1>4
<1>6. Saving(s)
  BY <1>2, <1>4, <1>5 DEF Saving
<1> QED BY <1>2, <1>3, <1>5, <1>6

LEMMA NewSaving ==
    ASSUME NEW b, NEW kept, NEW step \in {"write", "cache"}, DOMAIN b \subseteq Keys,
           \A k \in DOMAIN b : b[k] \in Values(k) /\ (kept[k] # N!Unset => Sanitized[kept[k]] # b[k])
    PROVE  /\ Saving(N!Batch(step, b, kept))
           /\ N!Batch(step, b, kept).step = step /\ N!Batch(step, b, kept).keys = DOMAIN b
           /\ N!Batch(step, b, kept).batch = b
<1>1. PICK s : s = N!Batch(step, b, kept)
  OBVIOUS
<1>2. s = [step |-> step, keys |-> DOMAIN b, batch |-> b, kept |-> kept, enabled |-> N!Unset]
  BY <1>1 DEF N!Batch
<1>3. s.step = step /\ s.keys = DOMAIN b /\ s.batch = b /\ s.kept = kept /\ s.enabled = N!Unset
  BY <1>2
<1>4. Saving(s)
  BY <1>2, <1>3 DEF Saving
<1> QED BY <1>1, <1>3, <1>4

(* A request that touches no more than before overlaps with no more.       *)
LEMMA TouchesNoMore ==
    ASSUME OneApplies, NEW q \in Handlers, overlapped \subseteq overlapped',
           N!Touched(request'[q]) \subseteq N!Touched(request[q]),
           \A p \in Handlers : p # q => request'[p] = request[p]
    PROVE  OneApplies'
BY DEF OneApplies

(* A request begins that has written nothing yet, or one ends that has     *)
(* written nothing: it touches nothing, and neither records.               *)
Apart(r) == N!Touched(r) = {} /\ r.step \notin {"clear", "cache", "sync", "record"}

LEMMA ApartRequests ==
    /\ Apart(N!Silent)
    /\ \A r : Testing(r) /\ r.step = "call" => Apart(r)
    /\ \A r : r.step = "write" => Apart(r)
BY IdleTouchesNothing DEF Apart

LEMMA StayingApart ==
    ASSUME SettingsInv, NEW q \in Handlers, NEW r, request' = [request EXCEPT ![q] = r],
           r = N!Silent \/ Saving(r) \/ Testing(r), Apart(request[q]), Apart(r),
           rows' = rows, cache' = cache, bridge' = bridge, sidecar' = sidecar, verified' = verified,
           overlapped' = overlapped, unsure' = unsure, SettingTypes'
    PROVE  SettingsInv'
<1>1. RequestsAreKnown' /\ \A p \in Handlers : request'[p] = IF p = q THEN r ELSE request[p]
  BY Becoming DEF SettingsInv
<1>2. OneApplies'
  BY <1>1, TouchesNoMore DEF Apart, SettingsInv
<1>3. RowsAreApplied'
  BY <1>1 DEF SettingsInv, RowsAreApplied, Written, Apart
<1>4. SidecarIsTold'
  BY <1>1 DEF SettingsInv, SidecarIsTold, Apart
<1>5. RecordIsTrue'
  BY <1>1 DEF SettingsInv, RecordIsTrue, ChangesJira, Written, Apart
<1> QED BY <1>1, <1>2, <1>3, <1>4, <1>5 DEF SettingsInv

LEMMA Counted ==
    ASSUME N!SettingsAssumption
    PROVE  MaxSaves \in Nat /\ MaxFailures \in Nat /\ MaxCrashes \in Nat
BY DEF N!SettingsAssumption

LEMMA TypesStay ==
    ASSUME SettingTypes, N!SettingsAssumption, rows' = rows, cache' = cache, sidecar' = sidecar,
           overlapped' \subseteq Keys, unsure' \subseteq {"sidecar", "record"}, crashes' = crashes,
           saves' = saves \/ (saves < MaxSaves /\ saves' = saves + 1),
           failures' = failures \/ (failures < MaxFailures /\ failures' = failures + 1)
    PROVE  SettingTypes'
<1>1. saves' \in 0 .. MaxSaves /\ failures' \in 0 .. MaxFailures
  BY Counted DEF SettingTypes
<1> QED BY <1>1 DEF SettingTypes, Values

(* The requests that begin.                                                *)
LEMMA Beginning ==
    ASSUME SettingsInv, N!SettingsAssumption, NEW q \in Handlers, NEW r, N!Begin(q, r), Saving(r) \/ Testing(r),
           Apart(r), UNCHANGED <<rows, cache, bridge, sidecar, verified, overlapped, unsure, failures, crashes>>
    PROVE  SettingsInv'
<1>1. /\ request[q] = N!Silent /\ saves < MaxSaves /\ saves' = saves + 1
      /\ request' = [request EXCEPT ![q] = r]
  BY DEF N!Begin
<1>2. SettingTypes'
  BY <1>1, TypesStay DEF SettingsInv, SettingTypes
<1> QED BY <1>1, <1>2, ApartRequests, StayingApart

LEMMA SavingBegins ==
    ASSUME SettingsInv, N!SettingsAssumption, NEW q \in Handlers, NEW batch \in Updates, N!Save(q, batch)
    PROVE  SettingsInv'
<1>1. /\ \A k \in DOMAIN batch : N!Valid(k, batch[k])
      /\ N!Begin(q, N!Batch("write", batch, N!NoRows))
      /\ UNCHANGED <<rows, cache, bridge, sidecar, verified, overlapped, unsure, failures, crashes>>
  BY DEF N!Save
<1>2. DOMAIN batch \subseteq Keys
  BY DEF N!SettingsAssumption
<1>3. \A k \in DOMAIN batch : batch[k] \in Values(k) /\ N!NoRows[k] = N!Unset
  BY <1>1, <1>2, Validates DEF Values, N!NoRows
<1>4. PICK r : r = N!Batch("write", batch, N!NoRows)
  OBVIOUS
<1>5. Saving(r) /\ r.step = "write"
  BY <1>2, <1>3, <1>4, NewSaving
<1> QED BY <1>1, <1>4, <1>5, ApartRequests, Beginning

LEMMA PersistingBegins ==
    ASSUME SettingsInv, N!SettingsAssumption, NEW q \in Handlers, NEW k \in Keys, N!Persist(q, k)
    PROVE  SettingsInv'
<1> DEFINE b == [j \in {k} |-> Env[j]]
<1>1. /\ N!Valid(k, Env[k]) /\ N!Begin(q, N!Batch("write", b, N!NoRows))
      /\ UNCHANGED <<rows, cache, bridge, sidecar, verified, overlapped, unsure, failures, crashes>>
  BY DEF N!Persist
<1>2. DOMAIN b = {k} /\ b[k] \in Values(k) /\ N!NoRows[k] = N!Unset
  BY <1>1, Validates DEF Values, N!NoRows
<1>3. PICK r : r = N!Batch("write", b, N!NoRows)
  OBVIOUS
<1>4. Saving(r) /\ r.step = "write"
  <2> HIDE DEF b
  <2> QED BY <1>2, <1>3, NewSaving
<1> QED BY <1>1, <1>3, <1>4, ApartRequests, Beginning

LEMMA ImportBegins ==
    ASSUME SettingsInv, N!SettingsAssumption, NEW q \in Handlers, NEW document \in Documents, N!Import(q, document)
    PROVE  SettingsInv'
<1> DEFINE ks == {k \in DOMAIN document : N!Differs(k, document[k])}
           b == [k \in ks |-> document[k]]
<1>1. /\ \A k \in DOMAIN document : N!Valid(k, document[k])
      /\ N!Begin(q, N!Batch("write", b, rows))
      /\ UNCHANGED <<rows, cache, bridge, sidecar, verified, overlapped, unsure, failures, crashes>>
  BY DEF N!Import
<1>2. DOMAIN document \subseteq Keys
  BY DEF N!SettingsAssumption
<1>3. DOMAIN b = ks /\ ks \subseteq Keys
  BY <1>2
<1>4. \A k \in ks : b[k] \in Values(k) /\ (rows[k] # N!Unset => Sanitized[rows[k]] # b[k])
  BY <1>1, Validates DEF Values, N!Differs
<1>5. PICK r : r = N!Batch("write", b, rows)
  OBVIOUS
<1>6. Saving(r) /\ r.step = "write"
  <2> HIDE DEF b, ks
  <2> QED BY <1>3, <1>4, <1>5, NewSaving
<1> QED BY <1>1, <1>5, <1>6, ApartRequests, Beginning

LEMMA TestBegins ==
    ASSUME SettingsInv, N!SettingsAssumption, NEW q \in Handlers, N!Test(q)
    PROVE  SettingsInv'
<1>1. PICK r : r = [step |-> "call", tested |-> N!Fingerprint(cache)]
  OBVIOUS
<1>2. /\ request[q] = N!Silent /\ saves < MaxSaves /\ saves' = saves + 1
      /\ request' = [request EXCEPT ![q] = r]
      /\ rows' = rows /\ cache' = cache /\ bridge' = bridge /\ sidecar' = sidecar
      /\ verified' = verified /\ overlapped' = overlapped /\ unsure' = unsure
      /\ failures' = failures /\ crashes' = crashes
  BY <1>1 DEF N!Test
<1>3. Testing(r) /\ r.step = "call"
  BY <1>1 DEF Testing
<1>4. SettingTypes'
  BY <1>2, TypesStay DEF SettingsInv, SettingTypes
<1> QED BY <1>2, <1>3, <1>4, ApartRequests, StayingApart

(* A request commits, by its batch or by a reset: it is first to touch its *)
(* keys, or the overlap is noticed.                                        *)
LEMMA Committing ==
    ASSUME SettingsInv, N!SettingsAssumption, NEW q \in Handlers, NEW r, request' = [request EXCEPT ![q] = r],
           Saving(r), Written(r), Apart(request[q]),
           rows' = N!Over(r.batch, rows), cache' = cache, bridge' = bridge, sidecar' = sidecar,
           verified' = verified, overlapped' = overlapped \union N!Overlaps(q, r.keys),
           unsure' = unsure \/ unsure' = unsure \union {"record"},
           r.keys \intersect JiraKeys = {} \/ "record" \in unsure' \/ (r.step = "clear" /\ ~N!Recording),
           failures' = failures, crashes' = crashes,
           saves' = saves \/ (saves < MaxSaves /\ saves' = saves + 1)
    PROVE  SettingsInv'
<1>1. RequestsAreKnown' /\ \A p \in Handlers : request'[p] = IF p = q THEN r ELSE request[p]
  BY Becoming DEF SettingsInv
<1>2. r.keys \subseteq Keys /\ DOMAIN r.batch = r.keys /\ \A k \in r.keys : r.batch[k] \in Values(k)
  BY DEF Saving
<1>3. /\ \A k \in Keys : rows'[k] = IF k \in r.keys THEN r.batch[k] ELSE rows[k]
      /\ rows' = [k \in Keys |-> rows'[k]]
  BY <1>2 DEF N!Over
<1>4. Switch \in SidecarKeys /\ SidecarKeys \subseteq Keys /\ JiraKeys \subseteq Keys
  BY DEF N!SettingsAssumption
<1>5. PICK mine : mine = r.keys \union (IF r.keys \intersect SidecarKeys # {} THEN {Switch} ELSE {})
  OBVIOUS
<1>6. /\ N!Touched(r) = mine /\ mine \subseteq Keys
      /\ N!Touched([step |-> "cache", keys |-> r.keys]) = mine
  BY <1>2, <1>4, <1>5 DEF Written, N!Touched
<1>7. \A p \in Handlers : p # q => mine \intersect N!Touched(request[p]) \subseteq overlapped'
  BY <1>6 DEF N!Overlaps
<1>8. \A p \in Handlers, k \in Keys : p # q /\ Written(request[p]) /\ k \in request[p].keys =>
        k \in N!Touched(request[p])
  BY DEF Written, N!Touched
<1>9. overlapped \subseteq overlapped' /\ overlapped' \subseteq Keys
  <2>1. N!Overlaps(q, r.keys) \subseteq mine
    BY <1>6 DEF N!Overlaps
  <2> QED BY <1>6, <2>1 DEF SettingsInv, SettingTypes
<1>10. SettingTypes'
  <2>1. \A k \in Keys : rows'[k] \in Values(k)
    BY <1>2, <1>3 DEF SettingsInv, SettingTypes
  <2>2. saves' \in 0 .. MaxSaves
    BY Counted DEF SettingsInv, SettingTypes
  <2>3. unsure' \subseteq {"sidecar", "record"}
    BY DEF SettingsInv, SettingTypes
  <2> QED BY <1>3, <1>9, <2>1, <2>2, <2>3 DEF SettingsInv, SettingTypes, Values
<1>11. OneApplies'
  <2>1. ASSUME NEW p \in Handlers, NEW t \in Handlers, p # t
        PROVE  N!Touched(request'[p]) \intersect N!Touched(request'[t]) \subseteq overlapped'
    <3>1. CASE p # q /\ t # q
      BY <1>1, <1>9, <2>1, <3>1 DEF SettingsInv, OneApplies
    <3>2. CASE p = q
      BY <1>1, <1>6, <1>7, <2>1, <3>2
    <3>3. CASE t = q
      BY <1>1, <1>6, <1>7, <2>1, <3>3
    <3> QED BY <3>1, <3>2, <3>3
  <2> QED BY <2>1 DEF OneApplies
<1>12. RowsAreApplied'
  <2>1. bridge' = N!Bridged(cache)'
    BY DEF SettingsInv, RowsAreApplied, N!Bridged
  <2>2. ASSUME NEW k \in Keys \ overlapped',
               \A p \in Handlers : Written(request'[p]) => k \notin request'[p].keys
        PROVE  cache'[k] = rows'[k]
    <3>1. k \notin r.keys /\ \A p \in Handlers : Written(request[p]) => k \notin request[p].keys
      BY <1>1, <2>2 DEF Written, Apart
    <3> QED BY <1>3, <1>9, <3>1 DEF SettingsInv, RowsAreApplied
  <2>3. ASSUME NEW k \in Keys \ overlapped', NEW p \in Handlers, Written(request'[p]), k \in request'[p].keys
        PROVE  request'[p].batch[k] = rows'[k]
    <3>1. CASE p = q
      BY <1>1, <1>3, <2>3, <3>1
    <3>2. CASE p # q
      <4>1. Written(request[p]) /\ k \in request[p].keys
        BY <1>1, <2>3, <3>2
      <4>2. k \notin r.keys
        BY <1>5, <1>7, <1>8, <2>3, <3>2, <4>1
      <4> QED BY <1>1, <1>3, <1>9, <3>2, <4>1, <4>2 DEF SettingsInv, RowsAreApplied
    <3> QED BY <3>1, <3>2
  <2> QED BY <2>1, <2>2, <2>3 DEF RowsAreApplied, Written
<1>13. SidecarIsTold'
  <2>1. SUFFICES ASSUME Switch \notin overlapped' PROVE SidecarIsTold'
    BY DEF SidecarIsTold
  <2>2. CASE Switch \in r.keys
    <3>1. Switch \in N!Touched(request'[q])
      BY <1>1, <1>5, <1>6, <2>2
    <3>2. ASSUME NEW p \in Handlers, request'[p].step = "sync" PROVE FALSE
      <4>1. p # q /\ request[p].step = "sync"
        BY <1>1, <3>2 DEF Written
      <4>2. Saving(request[p])
        BY <4>1 DEF SettingsInv, RequestsAreKnown, N!Silent, Testing
      <4>3. Switch \in N!Touched(request[p])
        BY <4>1, <4>2 DEF Saving, N!Touched
      <4> QED BY <1>5, <1>7, <2>1, <2>2, <4>1, <4>3
    <3> QED BY <3>1, <3>2 DEF SidecarIsTold
  <2>3. CASE Switch \notin r.keys
    <3>1. rows'[Switch] = rows[Switch]
      BY <1>3, <1>4, <2>3
    <3>2. N!InForce(rows, Switch)' = N!InForce(rows, Switch)
      BY <3>1 DEF N!InForce
    <3>3. ASSUME "sidecar" \notin unsure', \A p \in Handlers : Switch \notin N!Touched(request'[p])
          PROVE  sidecar' = N!InForce(rows, Switch)'
      <4>1. \A p \in Handlers : Switch \notin N!Touched(request[p])
        BY <1>1, <3>3 DEF Apart
      <4> QED BY <1>9, <2>1, <3>2, <3>3, <4>1 DEF SettingsInv, SidecarIsTold
    <3>4. ASSUME NEW p \in Handlers, request'[p].step = "sync"
          PROVE  request'[p].enabled = N!InForce(rows, Switch)'
      <4>1. p # q /\ request'[p] = request[p]
        BY <1>1, <3>4 DEF Written
      <4> QED BY <1>9, <2>1, <3>2, <3>4, <4>1 DEF SettingsInv, SidecarIsTold
    <3> QED BY <3>3, <3>4 DEF SidecarIsTold, N!Touched
  <2> QED BY <2>2, <2>3
<1>14. RecordIsTrue'
  <2>1. SUFFICES ASSUME "record" \notin unsure', overlapped' \intersect JiraKeys = {} PROVE RecordIsTrue'
    BY DEF RecordIsTrue
  <2>2. "record" \notin unsure /\ overlapped \intersect JiraKeys = {}
    BY <1>9, <2>1
  <2>3. N!Fingerprint(cache)' = N!Fingerprint(cache)
    BY DEF N!Fingerprint, N!GetSettings, N!Set, N!InForce
  <2>4. ~ChangesJira(request[q])
    BY DEF ChangesJira, Written, Apart
  <2>5. CASE r.keys \intersect JiraKeys = {}
    <3>1. ~ChangesJira(r)
      BY <2>5 DEF ChangesJira
    <3>2. \A p \in Handlers : ChangesJira(request'[p]) <=> ChangesJira(request[p])
      BY <1>1, <2>4, <3>1
    <3>3. \A p \in Handlers : (request'[p].step = "cache" /\ ChangesJira(request'[p]))
             => request[p].step = "cache" /\ ChangesJira(request[p])
      BY <1>1, <2>4, <3>1
    <3>4. \A p \in Handlers : request'[p].step = "record" => request[p] = request'[p]
      BY <1>1 DEF Written
    <3> QED BY <2>2, <2>3, <3>2, <3>3, <3>4 DEF SettingsInv, RecordIsTrue
  <2>6. CASE r.step = "clear" /\ ~N!Recording /\ r.keys \intersect JiraKeys # {}
    <3>1. ChangesJira(request'[q])
      BY <1>1, <2>6 DEF ChangesJira, Written
    <3>2. \A p \in Handlers : request'[p].step # "record"
      BY <1>1, <2>6 DEF N!Recording
    <3>3. \A p \in Handlers : (request'[p].step = "cache" /\ ChangesJira(request'[p]))
             => request[p].step = "cache" /\ ChangesJira(request[p])
      BY <1>1, <2>6
    <3> QED BY <2>2, <3>1, <3>2, <3>3 DEF SettingsInv, RecordIsTrue
  <2> QED BY <2>1, <2>5, <2>6
<1> QED BY <1>1, <1>10, <1>11, <1>12, <1>13, <1>14 DEF SettingsInv

LEMMA ResettingCommits ==
    ASSUME SettingsInv, N!SettingsAssumption, NEW q \in Handlers, NEW k \in Keys, N!Reset(q, k)
    PROVE  SettingsInv'
<1> DEFINE b == [j \in {k} |-> N!Unset]
<1>1. /\ request[q] = N!Silent /\ saves < MaxSaves /\ saves' = saves + 1
      /\ request' = [request EXCEPT ![q] = N!Batch("cache", b, N!NoRows)]
      /\ rows' = [rows EXCEPT ![k] = N!Unset] /\ cache' = cache /\ bridge' = bridge
      /\ sidecar' = sidecar /\ verified' = verified
      /\ overlapped' = overlapped \union N!Overlaps(q, {k})
      /\ unsure' = IF k \in JiraKeys THEN unsure \union {"record"} ELSE unsure
      /\ failures' = failures /\ crashes' = crashes
  BY DEF N!Reset, N!Begin
<1>2. DOMAIN b = {k} /\ b[k] \in Values(k) /\ N!NoRows[k] = N!Unset
  BY DEF Values, N!NoRows
<1>3. PICK r : r = N!Batch("cache", b, N!NoRows)
  OBVIOUS
<1>4. Saving(r) /\ r.step = "cache" /\ r.keys = {k} /\ r.batch = b
  <2> HIDE DEF b
  <2> QED BY <1>2, <1>3, NewSaving
<1>5. rows' = N!Over(b, rows)
  BY <1>1, <1>2 DEF N!Over, SettingsInv, SettingTypes
<1>6. Written(r) /\ Apart(request[q])
  BY <1>1, <1>4, ApartRequests DEF Written
<1>7. /\ overlapped' = overlapped \union N!Overlaps(q, r.keys)
      /\ unsure' = unsure \/ unsure' = unsure \union {"record"}
      /\ r.keys \intersect JiraKeys = {} \/ "record" \in unsure'
  BY <1>1, <1>4
<1>8. request' = [request EXCEPT ![q] = r] /\ rows' = N!Over(r.batch, rows)
  BY <1>1, <1>3, <1>4, <1>5
<1> HIDE DEF b
<1> QED BY <1>1, <1>4, <1>6, <1>7, <1>8, Committing

LEMMA WritingCommits ==
    ASSUME SettingsInv, N!SettingsAssumption, NEW q \in Handlers, N!WriteBatch(q)
    PROVE  SettingsInv'
<1>1. PICK now : now = request[q]
  OBVIOUS
<1>2. now.step = "write" /\ Apart(now)
  BY <1>1, ApartRequests DEF N!WriteBatch
<1>3. Saving(now)
  BY <1>1, <1>2 DEF SettingsInv, RequestsAreKnown, N!Silent, Testing
<1>4. /\ cache' = cache /\ bridge' = bridge /\ sidecar' = sidecar /\ verified' = verified
      /\ saves' = saves /\ crashes' = crashes
  BY DEF N!WriteBatch
<1>5. \/ /\ rows' = N!Over(now.batch, rows)
         /\ N!Go(q, IF N!Unverifies(now.keys) THEN "clear" ELSE "cache")
         /\ overlapped' = overlapped \union N!Overlaps(q, now.keys)
         /\ unsure' = IF N!Unverifies(now.keys) /\ N!Recording THEN unsure \union {"record"} ELSE unsure
         /\ failures' = failures
      \/ /\ N!Fails /\ N!End(q) /\ UNCHANGED <<rows, overlapped, unsure>>
  BY <1>1 DEF N!WriteBatch
<1>6. CASE /\ rows' = N!Over(now.batch, rows)
           /\ N!Go(q, IF N!Unverifies(now.keys) THEN "clear" ELSE "cache")
           /\ overlapped' = overlapped \union N!Overlaps(q, now.keys)
           /\ unsure' = IF N!Unverifies(now.keys) /\ N!Recording THEN unsure \union {"record"} ELSE unsure
           /\ failures' = failures
  <2>1. PICK step \in {"clear", "cache"} :
           step = (IF N!Unverifies(now.keys) THEN "clear" ELSE "cache")
    OBVIOUS
  <2>2. PICK r : r = [now EXCEPT !.step = step]
    OBVIOUS
  <2>3. request' = [request EXCEPT ![q] = r]
    BY <1>1, <1>6, <2>1, <2>2 DEF N!Go, SettingsInv, RequestsAreKnown
  <2>4. Saving(r) /\ r.step = step /\ r.keys = now.keys /\ r.batch = now.batch
    BY <1>3, <2>2, SavingGoesOn
  <2>5. r.keys \intersect JiraKeys = {} \/ "record" \in unsure' \/ (r.step = "clear" /\ ~N!Recording)
    BY <1>6, <2>1, <2>4 DEF N!Unverifies
  <2> QED BY <1>1, <1>2, <1>4, <1>6, <2>3, <2>4, <2>5, Committing DEF Written
<1>7. CASE N!Fails /\ N!End(q) /\ UNCHANGED <<rows, overlapped, unsure>>
  <2>1. /\ request' = [request EXCEPT ![q] = N!Silent]
        /\ failures < MaxFailures /\ failures' = failures + 1
    BY <1>7 DEF N!Fails, N!End
  <2>2. SettingTypes'
    BY <1>4, <1>7, <2>1, TypesStay DEF SettingsInv, SettingTypes
  <2> QED BY <1>1, <1>2, <1>4, <1>7, <2>1, <2>2, ApartRequests, StayingApart
<1> QED BY <1>5, <1>6, <1>7

(* After the commit.  The record is cleared before the cache changes.      *)
LEMMA ClearingRecord ==
    ASSUME SettingsInv, N!SettingsAssumption, NEW q \in Handlers, N!ClearRecord(q)
    PROVE  SettingsInv'
<1>1. PICK now : now = request[q]
  OBVIOUS
<1>2. now.step = "clear"
  BY <1>1 DEF N!ClearRecord
<1>3. Saving(now)
  BY <1>1, <1>2 DEF SettingsInv, RequestsAreKnown, N!Silent, Testing
<1>4. PICK r : r = [now EXCEPT !.step = "cache"]
  OBVIOUS
<1>5. Saving(r) /\ r.step = "cache" /\ r.keys = now.keys /\ r.batch = now.batch
  BY <1>3, <1>4, SavingGoesOn
<1>6. /\ request' = [request EXCEPT ![q] = r] /\ rows' = rows /\ cache' = cache /\ bridge' = bridge
      /\ sidecar' = sidecar /\ overlapped' = overlapped /\ saves' = saves /\ crashes' = crashes
      /\ \/ verified' = N!NotVerified /\ unsure' = unsure /\ failures' = failures
         \/ /\ failures < MaxFailures /\ failures' = failures + 1
            /\ unsure' = unsure \union {"record"} /\ verified' = verified
  BY <1>1, <1>4 DEF N!ClearRecord, N!Go, N!Fails, SettingsInv, RequestsAreKnown
<1>7. RequestsAreKnown' /\ \A p \in Handlers : request'[p] = IF p = q THEN r ELSE request[p]
  BY <1>5, <1>6, Becoming DEF SettingsInv
<1>8. N!Touched(r) = N!Touched(now) /\ Written(r) /\ Written(now)
  BY <1>2, <1>5 DEF N!Touched, Written
<1>9. SettingTypes'
  <2>1. unsure' \subseteq {"sidecar", "record"} /\ overlapped' \subseteq Keys
    BY <1>6 DEF SettingsInv, SettingTypes
  <2> QED BY <1>6, <2>1, TypesStay DEF SettingsInv
<1>10. OneApplies'
  BY <1>1, <1>6, <1>7, <1>8, TouchesNoMore DEF SettingsInv
<1>11. RowsAreApplied'
  <2>1. \A p \in Handlers : /\ Written(request'[p]) <=> Written(request[p])
                            /\ Written(request[p]) => /\ request'[p].keys = request[p].keys
                                                      /\ request'[p].batch = request[p].batch
    BY <1>1, <1>5, <1>7, <1>8
  <2>2. bridge' = N!Bridged(cache)'
    BY <1>6 DEF SettingsInv, RowsAreApplied, N!Bridged
  <2>3. ASSUME NEW k \in Keys \ overlapped PROVE
           /\ (\A p \in Handlers : Written(request'[p]) => k \notin request'[p].keys) => cache'[k] = rows'[k]
           /\ \A p \in Handlers : Written(request'[p]) /\ k \in request'[p].keys =>
                request'[p].batch[k] = rows'[k]
    BY <1>6, <2>1 DEF SettingsInv, RowsAreApplied
  <2> QED BY <1>6, <2>2, <2>3 DEF RowsAreApplied, Written
<1>12. SidecarIsTold'
  <2>1. \A p \in Handlers : N!Touched(request'[p]) = N!Touched(request[p])
    BY <1>1, <1>7, <1>8
  <2>2. \A p \in Handlers : request'[p].step = "sync" => request'[p] = request[p]
    BY <1>5, <1>7
  <2>3. N!InForce(rows, Switch)' = N!InForce(rows, Switch)
    BY <1>6 DEF N!InForce
  <2>4. \A p \in Handlers : Switch \in N!Touched(request[p])' <=> Switch \in N!Touched(request[p])
    BY <2>1 DEF N!Touched
  <2>5. "sidecar" \in unsure' <=> "sidecar" \in unsure
    BY <1>6
  <2> QED BY <1>6, <2>2, <2>3, <2>4, <2>5 DEF SettingsInv, SidecarIsTold
<1>13. RecordIsTrue'
  <2>1. SUFFICES ASSUME "record" \notin unsure', overlapped' \intersect JiraKeys = {} PROVE RecordIsTrue'
    BY DEF RecordIsTrue
  <2>2. /\ "record" \notin unsure /\ overlapped \intersect JiraKeys = {}
        /\ verified' = N!NotVerified
    BY <1>6, <2>1
  <2>3. N!Fingerprint(cache)' = N!Fingerprint(cache)
    BY <1>6 DEF N!Fingerprint, N!GetSettings, N!Set, N!InForce
  <2>4. \A p \in Handlers : ChangesJira(request'[p]) <=> ChangesJira(request[p])
    BY <1>1, <1>5, <1>7, <1>8 DEF ChangesJira
  <2>5. \A p \in Handlers : request'[p].step = "record" => request[p] = request'[p]
    BY <1>5, <1>7
  <2> QED BY <2>2, <2>3, <2>4, <2>5 DEF SettingsInv, RecordIsTrue
<1> QED BY <1>7, <1>9, <1>10, <1>11, <1>12, <1>13 DEF SettingsInv

(* The cache and the bridge file take what was written.                    *)
LEMMA UpdatingCache ==
    ASSUME SettingsInv, N!SettingsAssumption, NEW q \in Handlers, N!UpdateCache(q)
    PROVE  SettingsInv'
<1>1. PICK now : now = request[q]
  OBVIOUS
<1>2. now.step = "cache" /\ Written(now)
  BY <1>1 DEF N!UpdateCache, Written
<1>3. Saving(now)
  BY <1>1, <1>2 DEF SettingsInv, RequestsAreKnown, N!Silent, Testing
<1>4. now.keys \subseteq Keys /\ DOMAIN now.batch = now.keys /\ \A k \in now.keys : now.batch[k] \in Values(k)
  BY <1>3 DEF Saving
<1>5. /\ rows' = rows /\ sidecar' = sidecar /\ verified' = verified /\ overlapped' = overlapped
      /\ unsure' = unsure /\ saves' = saves /\ failures' = failures /\ crashes' = crashes
      /\ cache' = N!Over(now.batch, cache)
  BY <1>1 DEF N!UpdateCache, N!Cached
<1>6. /\ \A k \in Keys : cache'[k] = IF k \in now.keys THEN now.batch[k] ELSE cache[k]
      /\ cache' = [k \in Keys |-> cache'[k]] /\ \A k \in Keys : cache'[k] \in Values(k)
  <2>1. \A k \in Keys : cache'[k] = IF k \in now.keys THEN now.batch[k] ELSE cache[k]
    BY <1>4, <1>5 DEF N!Over
  <2>2. cache' = [k \in Keys |-> cache'[k]]
    BY <1>5 DEF N!Over
  <2>3. \A k \in Keys : cache'[k] \in Values(k)
    BY <1>4, <2>1 DEF SettingsInv, SettingTypes
  <2> QED BY <2>1, <2>2, <2>3
<1>7. Switch \in SidecarKeys /\ SidecarKeys \subseteq Keys /\ JiraKeys \subseteq Keys
  BY DEF N!SettingsAssumption
<1>8. PICK c : c = cache'
  OBVIOUS
<1>9. N!GetSettings(c, Switch) = N!InForce(c, Switch) /\ N!InForce(c, Switch) \in Accepts[Switch]
  BY <1>6, <1>7, <1>8, EachIsInForce
<1>10. IF now.keys \intersect SidecarKeys # {}
       THEN /\ bridge' = N!Bridged(c)
            /\ request' = [request EXCEPT ![q].step = "sync", ![q].enabled = N!InForce(c, Switch)]
       ELSE request' = [request EXCEPT ![q] = N!Silent] /\ bridge' = bridge
  BY <1>1, <1>8, <1>9 DEF N!UpdateCache, N!Applied, N!End
<1>11. PICK r : r = IF now.keys \intersect SidecarKeys # {}
                    THEN [now EXCEPT !.step = "sync", !.enabled = N!InForce(c, Switch)] ELSE N!Silent
  OBVIOUS
<1>12. /\ r = N!Silent \/ Saving(r)
       /\ r.step \in {"idle", "sync"} /\ N!Touched(r) \subseteq N!Touched(now)
       /\ r.step = "sync" => r.enabled = N!InForce(c, Switch) /\ now.keys \intersect SidecarKeys # {}
       /\ now.keys \intersect SidecarKeys # {} => Switch \in N!Touched(r)
  <2>1. CASE now.keys \intersect SidecarKeys # {}
    <3>1. /\ Saving(r) /\ r.step = "sync" /\ r.keys = now.keys /\ r.enabled = N!InForce(c, Switch)
      BY <1>3, <1>9, <1>11, <2>1, SavingTells
    <3> QED BY <1>2, <2>1, <3>1 DEF N!Touched
  <2>2. CASE now.keys \intersect SidecarKeys = {}
    BY <1>11, <2>2, IdleTouchesNothing
  <2> QED BY <2>1, <2>2
<1>13. request' = [request EXCEPT ![q] = r]
  BY <1>1, <1>10, <1>11 DEF SettingsInv, RequestsAreKnown
<1>14. RequestsAreKnown' /\ \A p \in Handlers : request'[p] = IF p = q THEN r ELSE request[p]
  <2>1. RequestsAreKnown /\ (r = N!Silent \/ Saving(r) \/ Testing(r))
    BY <1>12 DEF SettingsInv
  <2> QED BY <1>13, <2>1, Becoming
<1>15. SettingTypes'
  BY <1>5, <1>6 DEF SettingsInv, SettingTypes, Values
<1>16. OneApplies'
  BY <1>1, <1>5, <1>12, <1>14, TouchesNoMore DEF SettingsInv
<1>17. \A k \in now.keys, p \in Handlers :
          p # q /\ Written(request[p]) /\ k \in request[p].keys => k \in overlapped
  BY <1>1, <1>2 DEF SettingsInv, OneApplies, Written, N!Touched
<1>18. ASSUME NEW k \in Keys \ overlapped,
              \A p \in Handlers : p # q /\ Written(request[p]) => k \notin request[p].keys
       PROVE  cache'[k] = rows[k]
  <2>1. CASE k \in now.keys
    BY <1>1, <1>2, <1>6, <2>1 DEF SettingsInv, RowsAreApplied
  <2>2. CASE k \notin now.keys
    <3>1. \A p \in Handlers : Written(request[p]) => k \notin request[p].keys
      BY <1>1, <1>18, <2>2
    <3> QED BY <1>6, <2>2, <3>1 DEF SettingsInv, RowsAreApplied
  <2> QED BY <2>1, <2>2
<1>19. RowsAreApplied'
  <2>1. bridge' = N!Bridged(c)
    <3>1. CASE now.keys \intersect SidecarKeys # {}
      BY <1>10, <3>1
    <3>2. CASE now.keys \intersect SidecarKeys = {}
      <4>1. bridge' = N!Bridged(cache)
        BY <1>10, <3>2 DEF SettingsInv, RowsAreApplied
      <4>2. \A k \in SidecarKeys : c[k] = cache[k]
        BY <1>6, <1>7, <1>8, <3>2
      <4> QED BY <4>1, <4>2 DEF N!Bridged
    <3> QED BY <3>1, <3>2
  <2>2. bridge' = N!Bridged(cache)'
    BY <1>8, <2>1 DEF N!Bridged
  <2>3. ~Written(r)
    BY <1>12 DEF Written
  <2>4. ASSUME NEW k \in Keys \ overlapped,
               \A p \in Handlers : Written(request'[p]) => k \notin request'[p].keys
        PROVE  cache'[k] = rows'[k]
    BY <1>5, <1>14, <1>18, <2>4
  <2>5. ASSUME NEW k \in Keys \ overlapped, NEW p \in Handlers, Written(request'[p]), k \in request'[p].keys
        PROVE  request'[p].batch[k] = rows'[k]
    BY <1>5, <1>14, <2>3, <2>5 DEF SettingsInv, RowsAreApplied
  <2> QED BY <1>5, <2>2, <2>4, <2>5 DEF RowsAreApplied, Written
<1>20. SidecarIsTold'
  <2>1. SUFFICES ASSUME Switch \notin overlapped PROVE SidecarIsTold'
    BY <1>5 DEF SidecarIsTold
  <2>2. N!InForce(rows, Switch)' = N!InForce(rows, Switch)
    BY <1>5 DEF N!InForce
  <2>3. CASE now.keys \intersect SidecarKeys # {}
    <3>1. Switch \in N!Touched(now)
      BY <1>2, <2>3 DEF N!Touched
    <3>2. \A p \in Handlers : p # q => Switch \notin N!Touched(request[p])
      BY <1>1, <2>1, <3>1 DEF SettingsInv, OneApplies
    <3>3. \A p \in Handlers : p # q /\ Written(request[p]) => Switch \notin request[p].keys
      BY <3>2 DEF Written, N!Touched
    <3>4. c[Switch] = rows[Switch]
      BY <1>7, <1>8, <1>18, <2>1, <3>3
    <3>5. N!InForce(c, Switch) = N!InForce(rows, Switch)
      BY <3>4, SameInForce
    <3>6. Switch \in N!Touched(request'[q])
      BY <1>12, <1>14, <2>3
    <3>7. \A p \in Handlers : request'[p].step = "sync" => p = q \/ request'[p] = request[p]
      BY <1>14
    <3>8. \A p \in Handlers : request'[p].step = "sync" => request'[p].enabled = N!InForce(rows, Switch)
      BY <1>12, <1>14, <2>1, <3>5, <3>7 DEF SettingsInv, SidecarIsTold
    <3> QED BY <2>2, <3>6, <3>8 DEF SidecarIsTold, N!Touched
  <2>4. CASE now.keys \intersect SidecarKeys = {}
    <3>1. Switch \notin N!Touched(now) /\ r = N!Silent
      BY <1>7, <1>11, <2>4 DEF N!Touched
    <3>2. ASSUME "sidecar" \notin unsure', \A p \in Handlers : Switch \notin N!Touched(request'[p])
          PROVE  sidecar' = N!InForce(rows, Switch)
      <4>1. \A p \in Handlers : Switch \notin N!Touched(request[p])
        BY <1>1, <1>14, <3>1, <3>2
      <4> QED BY <1>5, <2>1, <3>2, <4>1 DEF SettingsInv, SidecarIsTold
    <3>3. \A p \in Handlers : request'[p].step = "sync" => request'[p].enabled = N!InForce(rows, Switch)
      BY <1>14, <2>1, <3>1, IdleTouchesNothing DEF SettingsInv, SidecarIsTold
    <3> QED BY <2>2, <3>2, <3>3 DEF SidecarIsTold, N!Touched
  <2> QED BY <2>3, <2>4
<1>21. RecordIsTrue'
  <2>1. SUFFICES ASSUME "record" \notin unsure, overlapped \intersect JiraKeys = {} PROVE RecordIsTrue'
    BY <1>5 DEF RecordIsTrue
  <2>2. ~ChangesJira(r)
    BY <1>12 DEF ChangesJira, Written
  <2>3. /\ \A p \in Handlers : ChangesJira(request'[p]) => p # q /\ ChangesJira(request[p]) /\ request'[p] = request[p]
        /\ \A p \in Handlers : request'[p].step = "record" => p # q /\ request'[p] = request[p]
    BY <1>12, <1>14, <2>2
  <2>4. CASE now.keys \intersect JiraKeys # {}
    <3>1. ChangesJira(request[q]) /\ verified = N!NotVerified
      BY <1>1, <1>2, <2>1, <2>4 DEF ChangesJira, SettingsInv, RecordIsTrue
    <3>2. \A p \in Handlers : request[p].step # "record"
      BY <2>1, <3>1 DEF SettingsInv, RecordIsTrue
    <3> QED BY <1>5, <2>3, <3>1, <3>2 DEF RecordIsTrue
  <2>5. CASE now.keys \intersect JiraKeys = {}
    <3>1. \A k \in JiraKeys : c[k] = cache[k]
      BY <1>6, <1>7, <1>8, <2>5
    <3>2. N!Fingerprint(c) = N!Fingerprint(cache)
      <4>1. \A k \in JiraKeys : N!InForce(c, k) = N!InForce(cache, k)
        BY <3>1, SameInForce
      <4>2. N!Fingerprint(c) = [k \in JiraKeys |-> N!InForce(c, k)]
        BY <1>6, <1>8, EachIsInForce
      <4>3. N!Fingerprint(cache) = [k \in JiraKeys |-> N!InForce(cache, k)]
        BY EachIsInForce DEF SettingsInv, SettingTypes
      <4> QED BY <4>1, <4>2, <4>3
    <3>3. N!Fingerprint(cache)' = N!Fingerprint(cache)
      BY <1>8, <3>2 DEF N!Fingerprint, N!GetSettings, N!Set, N!InForce
    <3>4. ~ChangesJira(request[q])
      BY <1>1, <2>5 DEF ChangesJira
    <3>5. \A p \in Handlers : ChangesJira(request'[p]) <=> ChangesJira(request[p])
      BY <1>14, <2>2, <3>4
    <3> QED BY <1>5, <2>1, <2>3, <3>3, <3>5 DEF SettingsInv, RecordIsTrue
  <2> QED BY <2>4, <2>5
<1> QED BY <1>14, <1>15, <1>16, <1>19, <1>20, <1>21 DEF SettingsInv

(* The sidecar is told, or could not be reached.                           *)
LEMMA SyncingSidecar ==
    ASSUME SettingsInv, N!SettingsAssumption, NEW q \in Handlers, N!SyncSidecar(q)
    PROVE  SettingsInv'
<1>1. PICK now : now = request[q]
  OBVIOUS
<1>2. now.step = "sync"
  BY <1>1 DEF N!SyncSidecar
<1>3. Saving(now)
  BY <1>1, <1>2 DEF SettingsInv, RequestsAreKnown, N!Silent, Testing
<1>4. now.enabled \in Accepts[Switch] /\ now.keys \intersect SidecarKeys # {}
  BY <1>2, <1>3 DEF Saving
<1>5. /\ request' = [request EXCEPT ![q] = N!Silent]
      /\ rows' = rows /\ cache' = cache /\ bridge' = bridge
      /\ verified' = verified /\ overlapped' = overlapped /\ saves' = saves /\ crashes' = crashes
      /\ \/ sidecar' = now.enabled /\ unsure' = unsure \ {"sidecar"} /\ failures' = failures
         \/ /\ failures < MaxFailures /\ failures' = failures + 1
            /\ unsure' = unsure \union {"sidecar"} /\ sidecar' = sidecar
  BY <1>1 DEF N!SyncSidecar, N!End, N!Fails
<1>6. RequestsAreKnown' /\ \A p \in Handlers : request'[p] = IF p = q THEN N!Silent ELSE request[p]
  BY <1>5, Becoming DEF SettingsInv
<1>7. SettingTypes'
  <2>1. sidecar' \in Accepts[Switch] /\ unsure' \subseteq {"sidecar", "record"}
    BY <1>4, <1>5 DEF SettingsInv, SettingTypes
  <2>2. failures' \in 0 .. MaxFailures
    BY <1>5, Counted DEF SettingsInv, SettingTypes
  <2> QED BY <1>5, <2>1, <2>2 DEF SettingsInv, SettingTypes, Values
<1>8. OneApplies'
  BY <1>5, <1>6, IdleTouchesNothing, TouchesNoMore DEF SettingsInv
<1>9. /\ ~Written(now) /\ ~Written(N!Silent)
      /\ \A p \in Handlers : Written(request'[p]) => request'[p] = request[p]
      /\ \A p \in Handlers : Written(request[p]) => request'[p] = request[p]
  BY <1>1, <1>2, <1>6, IdleTouchesNothing DEF Written
<1>10. RowsAreApplied'
  <2>1. bridge' = N!Bridged(cache)'
    BY <1>5 DEF SettingsInv, RowsAreApplied, N!Bridged
  <2>2. ASSUME NEW k \in Keys \ overlapped PROVE
           /\ (\A p \in Handlers : Written(request'[p]) => k \notin request'[p].keys) => cache'[k] = rows'[k]
           /\ \A p \in Handlers : Written(request'[p]) /\ k \in request'[p].keys =>
                request'[p].batch[k] = rows'[k]
    BY <1>5, <1>9 DEF SettingsInv, RowsAreApplied
  <2> QED BY <1>5, <2>1, <2>2 DEF RowsAreApplied, Written
<1>11. SidecarIsTold'
  <2>1. SUFFICES ASSUME Switch \notin overlapped PROVE SidecarIsTold'
    BY <1>5 DEF SidecarIsTold
  <2>2. N!InForce(rows, Switch)' = N!InForce(rows, Switch)
    BY <1>5 DEF N!InForce
  <2>3. now.enabled = N!InForce(rows, Switch)
    BY <1>1, <1>2, <2>1 DEF SettingsInv, SidecarIsTold
  <2>4. "sidecar" \notin unsure' => sidecar' = N!InForce(rows, Switch)
    BY <1>5, <2>3
  <2>5. \A p \in Handlers : request'[p].step = "sync" => request'[p].enabled = N!InForce(rows, Switch)
    BY <1>6, <2>1, IdleTouchesNothing DEF SettingsInv, SidecarIsTold
  <2> QED BY <2>2, <2>4, <2>5 DEF SidecarIsTold, N!Touched
<1>12. RecordIsTrue'
  <2>1. \A p \in Handlers : /\ ChangesJira(request'[p]) <=> ChangesJira(request[p])
                            /\ request'[p].step \in {"cache", "record"} => request'[p] = request[p]
    BY <1>6, <1>9, IdleTouchesNothing DEF ChangesJira
  <2>2. N!Fingerprint(cache)' = N!Fingerprint(cache)
    BY <1>5 DEF N!Fingerprint, N!GetSettings, N!Set, N!InForce
  <2>3. "record" \in unsure' <=> "record" \in unsure
    BY <1>5
  <2> QED BY <1>5, <2>1, <2>2, <2>3 DEF SettingsInv, RecordIsTrue
<1> QED BY <1>6, <1>7, <1>8, <1>10, <1>11, <1>12 DEF SettingsInv

(* Jira answered the test: what it tested is still in force if it goes on. *)
LEMMA AnsweringTest ==
    ASSUME SettingsInv, N!SettingsAssumption, NEW q \in Handlers, N!TestAnswers(q)
    PROVE  SettingsInv'
<1>1. PICK now : now = request[q]
  OBVIOUS
<1>2. now.step = "call"
  BY <1>1 DEF N!TestAnswers
<1>3. Testing(now) /\ Apart(now)
  BY <1>1, <1>2, ApartRequests DEF SettingsInv, RequestsAreKnown, N!Silent, Saving
<1>4. /\ rows' = rows /\ cache' = cache /\ bridge' = bridge /\ sidecar' = sidecar
      /\ verified' = verified /\ overlapped' = overlapped /\ saves' = saves /\ failures' = failures
      /\ crashes' = crashes
      /\ unsure' = IF request'[q].step = "record" /\ N!Applying(JiraKeys)
                   THEN unsure \union {"record"} ELSE unsure
      /\ \/ request' = [request EXCEPT ![q] = N!Silent]
         \/ /\ N!Fingerprint(cache) = now.tested
            /\ request' = [request EXCEPT ![q].step = "record"]
  BY <1>1 DEF N!TestAnswers, N!SameSettings, N!Go, N!End
<1>5. CASE request' = [request EXCEPT ![q] = N!Silent]
  <2>1. RequestsAreKnown' /\ \A p \in Handlers : request'[p] = IF p = q THEN N!Silent ELSE request[p]
    BY <1>5, Becoming DEF SettingsInv
  <2>2. unsure' = unsure
    BY <1>4, <2>1, IdleTouchesNothing
  <2>3. SettingTypes'
    BY <1>4, <2>2, TypesStay DEF SettingsInv, SettingTypes
  <2> QED BY <1>1, <1>3, <1>4, <1>5, <2>2, <2>3, ApartRequests, StayingApart
<1>6. CASE /\ N!Fingerprint(cache) = now.tested
           /\ request' = [request EXCEPT ![q].step = "record"]
  <2>1. PICK r : r = [now EXCEPT !.step = "record"]
    OBVIOUS
  <2>2. Testing(r) /\ r.step = "record" /\ r.tested = now.tested
    BY <1>3, <2>1 DEF Testing
  <2>3. request' = [request EXCEPT ![q] = r]
    BY <1>1, <1>6, <2>1 DEF SettingsInv, RequestsAreKnown
  <2>4. RequestsAreKnown' /\ \A p \in Handlers : request'[p] = IF p = q THEN r ELSE request[p]
    BY <2>2, <2>3, Becoming DEF SettingsInv
  <2>5. /\ unsure' = unsure \/ unsure' = unsure \union {"record"}
        /\ "record" \notin unsure' => "record" \notin unsure /\ ~N!Applying(JiraKeys)
    BY <1>4, <2>2, <2>4
  <2>6. unsure' \subseteq {"sidecar", "record"} /\ ("sidecar" \in unsure' <=> "sidecar" \in unsure)
    BY <2>5 DEF SettingsInv, SettingTypes
  <2>7. SettingTypes'
    BY <1>4, <2>6, TypesStay DEF SettingsInv, SettingTypes
  <2>8. N!Touched(r) = {} /\ ~Written(r) /\ ~Written(now)
    BY <1>2, <2>2, IdleTouchesNothing DEF Written
  <2>9. OneApplies'
    BY <1>4, <2>4, <2>8, TouchesNoMore DEF SettingsInv
  <2>10. /\ \A p \in Handlers : Written(request'[p]) => request'[p] = request[p]
         /\ \A p \in Handlers : Written(request[p]) => request'[p] = request[p]
         /\ \A p \in Handlers : request'[p].step = "sync" => request'[p] = request[p]
         /\ \A p \in Handlers : Switch \notin N!Touched(request'[p]) => Switch \notin N!Touched(request[p])
    BY <1>1, <1>3, <2>2, <2>4, <2>8 DEF Apart
  <2>11. RowsAreApplied'
    <3>1. bridge' = N!Bridged(cache)'
      BY <1>4 DEF SettingsInv, RowsAreApplied, N!Bridged
    <3>2. ASSUME NEW k \in Keys \ overlapped PROVE
             /\ (\A p \in Handlers : Written(request'[p]) => k \notin request'[p].keys) => cache'[k] = rows'[k]
             /\ \A p \in Handlers : Written(request'[p]) /\ k \in request'[p].keys =>
                  request'[p].batch[k] = rows'[k]
      BY <1>4, <2>10 DEF SettingsInv, RowsAreApplied
    <3> QED BY <1>4, <3>1, <3>2 DEF RowsAreApplied, Written
  <2>12. SidecarIsTold'
    <3>1. N!InForce(rows, Switch)' = N!InForce(rows, Switch)
      BY <1>4 DEF N!InForce
    <3>2. /\ Switch \notin overlapped /\ "sidecar" \notin unsure'
             /\ (\A p \in Handlers : Switch \notin N!Touched(request'[p])) => sidecar' = N!InForce(rows, Switch)
          /\ Switch \notin overlapped => \A p \in Handlers : request'[p].step = "sync" =>
                request'[p].enabled = N!InForce(rows, Switch)
      BY <1>4, <2>6, <2>10 DEF SettingsInv, SidecarIsTold
    <3> QED BY <1>4, <3>1, <3>2 DEF SidecarIsTold, N!Touched
  <2>13. RecordIsTrue'
    <3>1. SUFFICES ASSUME "record" \notin unsure', overlapped' \intersect JiraKeys = {} PROVE RecordIsTrue'
      BY DEF RecordIsTrue
    <3>2. "record" \notin unsure /\ overlapped \intersect JiraKeys = {} /\ ~N!Applying(JiraKeys)
      BY <1>4, <2>5, <3>1
    <3>3. \A p \in Handlers : ~ChangesJira(request[p])
      BY <3>2 DEF N!Applying, N!Touched, ChangesJira, Written
    <3>4. \A p \in Handlers : ~ChangesJira(request'[p])
      BY <2>10, <3>3 DEF ChangesJira
    <3>5. N!Fingerprint(cache)' = N!Fingerprint(cache)
      BY <1>4 DEF N!Fingerprint, N!GetSettings, N!Set, N!InForce
    <3>6. verified' \in {N!NotVerified, N!Fingerprint(cache)}
      BY <1>4, <3>2, <3>3 DEF SettingsInv, RecordIsTrue
    <3>7. \A p \in Handlers : request'[p].step = "record" => request'[p].tested = N!Fingerprint(cache)
      BY <1>6, <2>2, <2>4, <3>2 DEF SettingsInv, RecordIsTrue
    <3> QED BY <3>4, <3>5, <3>6, <3>7 DEF RecordIsTrue
  <2> QED BY <2>4, <2>7, <2>9, <2>11, <2>12, <2>13 DEF SettingsInv
<1> QED BY <1>4, <1>5, <1>6

(* It is recorded.                                                         *)
LEMMA RecordingTest ==
    ASSUME SettingsInv, N!SettingsAssumption, NEW q \in Handlers, N!Record(q)
    PROVE  SettingsInv'
<1>1. PICK now : now = request[q]
  OBVIOUS
<1>2. now.step = "record"
  BY <1>1 DEF N!Record
<1>3. /\ request' = [request EXCEPT ![q] = N!Silent] /\ verified' = now.tested
      /\ rows' = rows /\ cache' = cache /\ bridge' = bridge /\ sidecar' = sidecar
      /\ overlapped' = overlapped /\ unsure' = unsure /\ saves' = saves /\ failures' = failures
      /\ crashes' = crashes
  BY <1>1 DEF N!Record, N!End
<1>4. RequestsAreKnown' /\ \A p \in Handlers : request'[p] = IF p = q THEN N!Silent ELSE request[p]
  BY <1>3, Becoming DEF SettingsInv
<1>5. N!Touched(now) = {} /\ ~Written(now) /\ ~Written(N!Silent)
  BY <1>2, IdleTouchesNothing DEF Written, N!Touched
<1>6. SettingTypes'
  BY <1>3, TypesStay DEF SettingsInv, SettingTypes
<1>7. OneApplies'
  BY <1>3, <1>4, IdleTouchesNothing, TouchesNoMore DEF SettingsInv
<1>8. /\ \A p \in Handlers : Written(request'[p]) <=> Written(request[p])
      /\ \A p \in Handlers : Written(request[p]) => request'[p] = request[p]
      /\ \A p \in Handlers : request'[p].step \in {"sync", "record", "cache"} => request'[p] = request[p]
      /\ \A p \in Handlers : Switch \notin N!Touched(request'[p]) => Switch \notin N!Touched(request[p])
  BY <1>1, <1>4, <1>5, IdleTouchesNothing
<1>9. RowsAreApplied'
  <2>1. bridge' = N!Bridged(cache)'
    BY <1>3 DEF SettingsInv, RowsAreApplied, N!Bridged
  <2>2. ASSUME NEW k \in Keys \ overlapped PROVE
           /\ (\A p \in Handlers : Written(request'[p]) => k \notin request'[p].keys) => cache'[k] = rows'[k]
           /\ \A p \in Handlers : Written(request'[p]) /\ k \in request'[p].keys =>
                request'[p].batch[k] = rows'[k]
    BY <1>3, <1>8 DEF SettingsInv, RowsAreApplied
  <2> QED BY <1>3, <2>1, <2>2 DEF RowsAreApplied, Written
<1>10. SidecarIsTold'
  <2>1. N!InForce(rows, Switch)' = N!InForce(rows, Switch)
    BY <1>3 DEF N!InForce
  <2>2. /\ Switch \notin overlapped /\ "sidecar" \notin unsure
           /\ (\A p \in Handlers : Switch \notin N!Touched(request'[p])) => sidecar = N!InForce(rows, Switch)
        /\ Switch \notin overlapped => \A p \in Handlers : request'[p].step = "sync" =>
              request'[p].enabled = N!InForce(rows, Switch)
    BY <1>8 DEF SettingsInv, SidecarIsTold
  <2> QED BY <1>3, <2>1, <2>2 DEF SidecarIsTold, N!Touched
<1>11. RecordIsTrue'
  <2>1. SUFFICES ASSUME "record" \notin unsure, overlapped \intersect JiraKeys = {} PROVE RecordIsTrue'
    BY <1>3 DEF RecordIsTrue
  <2>2. now.tested = N!Fingerprint(cache) /\ \A p \in Handlers : ~ChangesJira(request[p])
    BY <1>1, <1>2, <2>1 DEF SettingsInv, RecordIsTrue
  <2>3. \A p \in Handlers : ~ChangesJira(request'[p])
    BY <1>8, <2>2 DEF ChangesJira
  <2>4. N!Fingerprint(cache)' = N!Fingerprint(cache)
    BY <1>3 DEF N!Fingerprint, N!GetSettings, N!Set, N!InForce
  <2>5. \A p \in Handlers : request'[p].step = "record" => request'[p].tested = N!Fingerprint(cache)
    BY <1>8, <2>1 DEF SettingsInv, RecordIsTrue
  <2> QED BY <1>3, <2>2, <2>3, <2>4, <2>5 DEF RecordIsTrue
<1> QED BY <1>4, <1>6, <1>7, <1>9, <1>10, <1>11 DEF SettingsInv

(* The server starts again from its rows.                                  *)
LEMMA Restarting ==
    ASSUME SettingsInv, N!SettingsAssumption, N!Restart
    PROVE  SettingsInv'
<1>1. /\ crashes < MaxCrashes /\ crashes' = crashes + 1
      /\ request' = [q \in Handlers |-> N!Silent]
      /\ cache' = rows /\ rows' = rows /\ verified' = verified /\ saves' = saves
      /\ overlapped' = {}
  BY DEF N!Restart, N!Loaded
<1>2. PICK c : c = cache'
  OBVIOUS
<1>3. c = rows /\ \A k \in Keys : c[k] \in Values(k)
  BY <1>1, <1>2 DEF SettingsInv, SettingTypes
<1>4. Switch \in Keys /\ JiraKeys \subseteq Keys
  BY DEF N!SettingsAssumption
<1>5. N!GetSettings(c, Switch) = N!InForce(rows, Switch) /\ N!InForce(rows, Switch) \in Accepts[Switch]
  BY <1>3, <1>4, EachIsInForce
<1>6. bridge' = N!Bridged(c)
  BY <1>2 DEF N!Restart
<1>7. PICK lost : lost = IF N!Recording \/ (N!Applying(JiraKeys) \/ overlapped \intersect JiraKeys # {})
                         THEN {"record"} ELSE {}
  OBVIOUS
<1>8. \/ /\ sidecar' = N!InForce(rows, Switch) /\ failures' = failures
         /\ unsure' = (unsure \ {"sidecar"}) \union lost
      \/ /\ failures < MaxFailures /\ failures' = failures + 1
         /\ unsure' = unsure \union lost \union {"sidecar"} /\ sidecar' = sidecar
  BY <1>2, <1>5, <1>7 DEF N!Restart, N!Fails
<1>9. SettingTypes'
  <2>1. sidecar' \in Accepts[Switch] /\ unsure' \subseteq {"sidecar", "record"}
    BY <1>5, <1>7, <1>8 DEF SettingsInv, SettingTypes
  <2>2. failures' \in 0 .. MaxFailures /\ crashes' \in 0 .. MaxCrashes
    BY <1>1, <1>8, Counted DEF SettingsInv, SettingTypes
  <2> QED BY <1>1, <2>1, <2>2 DEF SettingsInv, SettingTypes, Values
<1>10. RequestsAreKnown' /\ \A p \in Handlers : request'[p] = N!Silent
  BY <1>1 DEF RequestsAreKnown
<1>11. OneApplies'
  BY <1>10, IdleTouchesNothing DEF OneApplies
<1>12. RowsAreApplied'
  <2>1. bridge' = N!Bridged(cache)'
    BY <1>2, <1>6 DEF N!Bridged
  <2>2. \A p \in Handlers : ~Written(request'[p])
    BY <1>10, IdleTouchesNothing DEF Written
  <2> QED BY <1>1, <2>1, <2>2 DEF RowsAreApplied, Written
<1>13. SidecarIsTold'
  <2>1. N!InForce(rows, Switch)' = N!InForce(rows, Switch)
    BY <1>1 DEF N!InForce
  <2>2. "sidecar" \notin unsure' => sidecar' = N!InForce(rows, Switch)
    BY <1>8
  <2>3. \A p \in Handlers : request'[p].step # "sync"
    BY <1>10, IdleTouchesNothing
  <2> QED BY <2>1, <2>2, <2>3 DEF SidecarIsTold
<1>14. RecordIsTrue'
  <2>1. SUFFICES ASSUME "record" \notin unsure' PROVE RecordIsTrue'
    BY DEF RecordIsTrue
  <2>2. /\ "record" \notin unsure /\ overlapped \intersect JiraKeys = {} /\ ~N!Applying(JiraKeys)
    BY <1>7, <1>8, <2>1
  <2>3. \A p \in Handlers : ~ChangesJira(request[p])
    BY <2>2 DEF N!Applying, N!Touched, ChangesJira, Written
  <2>4. verified \in {N!NotVerified, N!Fingerprint(cache)}
    BY <2>2, <2>3 DEF SettingsInv, RecordIsTrue
  <2>5. \A k \in JiraKeys : cache[k] = rows[k]
    BY <1>4, <2>2, <2>3 DEF SettingsInv, RowsAreApplied, ChangesJira
  <2>6. N!Fingerprint(cache) = N!Fingerprint(c)
    <3>1. \A k \in JiraKeys : N!InForce(c, k) = N!InForce(cache, k)
      BY <1>3, <2>5, SameInForce
    <3>2. N!Fingerprint(c) = [k \in JiraKeys |-> N!InForce(c, k)]
      BY <1>3, EachIsInForce
    <3>3. N!Fingerprint(cache) = [k \in JiraKeys |-> N!InForce(cache, k)]
      BY EachIsInForce DEF SettingsInv, SettingTypes
    <3> QED BY <3>1, <3>2, <3>3
  <2>7. N!Fingerprint(cache)' = N!Fingerprint(c)
    BY <1>2 DEF N!Fingerprint, N!GetSettings, N!Set, N!InForce
  <2>8. verified' \in {N!NotVerified, N!Fingerprint(cache)'}
    BY <1>1, <2>4, <2>6, <2>7
  <2>9. \A p \in Handlers : request'[p].step = "idle"
    BY <1>10, IdleTouchesNothing
  <2> QED BY <2>8, <2>9 DEF RecordIsTrue
<1> QED BY <1>9, <1>10, <1>11, <1>12, <1>13, <1>14 DEF SettingsInv

LEMMA SettingsBegin ==
    ASSUME N!SettingsAssumption, N!Init
    PROVE  SettingsInv
<1>1. /\ rows = N!NoRows /\ cache = N!NoRows /\ bridge = N!NoRows /\ sidecar = Env[Switch]
      /\ verified = N!NotVerified /\ request = [q \in Handlers |-> N!Silent]
      /\ overlapped = {} /\ unsure = {} /\ saves = 0 /\ failures = 0 /\ crashes = 0
  BY DEF N!Init
<1>2. /\ N!NoRows = [k \in Keys |-> N!NoRows[k]] /\ \A k \in Keys : N!NoRows[k] = N!Unset
  BY DEF N!NoRows
<1>3. Switch \in Keys /\ Env[Switch] \in Accepts[Switch]
  BY DEF N!SettingsAssumption
<1>4. SettingTypes
  BY <1>1, <1>2, <1>3, Counted DEF SettingTypes, Values
<1>5. RequestsAreKnown /\ \A p \in Handlers : request[p] = N!Silent
  BY <1>1 DEF RequestsAreKnown
<1>6. OneApplies
  BY <1>5, IdleTouchesNothing DEF OneApplies
<1>7. RowsAreApplied
  <2>1. N!NoRows = N!Bridged(N!NoRows)
    BY <1>2 DEF N!Bridged, N!NoRows
  <2>2. \A p \in Handlers : ~Written(request[p])
    BY <1>5, IdleTouchesNothing DEF Written
  <2> QED BY <1>1, <2>1, <2>2 DEF RowsAreApplied
<1>8. SidecarIsTold
  <2>1. N!InForce(rows, Switch) = Env[Switch]
    BY <1>1, <1>2, <1>3 DEF N!InForce
  <2> QED BY <1>1, <1>5, <2>1, IdleTouchesNothing DEF SidecarIsTold
<1>9. RecordIsTrue
  BY <1>1, <1>5, IdleTouchesNothing DEF RecordIsTrue
<1> QED BY <1>4, <1>5, <1>6, <1>7, <1>8, <1>9 DEF SettingsInv

LEMMA SettingsStay ==
    ASSUME SettingsInv, UNCHANGED settingVars
    PROVE  SettingsInv'
<1>1. /\ rows' = rows /\ cache' = cache /\ bridge' = bridge /\ sidecar' = sidecar /\ verified' = verified
      /\ request' = request /\ overlapped' = overlapped /\ unsure' = unsure /\ saves' = saves
      /\ failures' = failures /\ crashes' = crashes
  BY DEF settingVars
<1>2. SettingTypes'
  BY <1>1 DEF SettingsInv, SettingTypes, Values
<1>3. RequestsAreKnown'
  BY <1>1 DEF SettingsInv, RequestsAreKnown
<1>4. OneApplies'
  BY <1>1 DEF SettingsInv, OneApplies, N!Touched
<1>5. RowsAreApplied'
  BY <1>1 DEF SettingsInv, RowsAreApplied, Written, N!Bridged
<1>6. SidecarIsTold'
  BY <1>1 DEF SettingsInv, SidecarIsTold, N!Touched, N!InForce
<1>7. RecordIsTrue'
  BY <1>1 DEF SettingsInv, RecordIsTrue, ChangesJira, Written, N!Fingerprint, N!GetSettings, N!Set,
              N!InForce
<1> QED BY <1>2, <1>3, <1>4, <1>5, <1>6, <1>7 DEF SettingsInv

LEMMA SettingsMove ==
    ASSUME SettingsInv, N!SettingsAssumption, N!Next
    PROVE  SettingsInv'
<1>1. ASSUME NEW q \in Handlers, N!Serve(q) PROVE SettingsInv'
  <2>1. CASE \E batch \in Updates : N!Save(q, batch)
    BY <2>1, SavingBegins
  <2>2. CASE \E document \in Documents : N!Import(q, document)
    BY <2>2, ImportBegins
  <2>3. CASE \E k \in Keys : N!Persist(q, k)
    BY <2>3, PersistingBegins
  <2>4. CASE \E k \in Keys : N!Reset(q, k)
    BY <2>4, ResettingCommits
  <2>5. CASE N!WriteBatch(q)
    BY <2>5, WritingCommits
  <2>6. CASE N!ClearRecord(q)
    BY <2>6, ClearingRecord
  <2>7. CASE N!UpdateCache(q)
    BY <2>7, UpdatingCache
  <2>8. CASE N!SyncSidecar(q)
    BY <2>8, SyncingSidecar
  <2>9. CASE N!Test(q)
    BY <2>9, TestBegins
  <2>10. CASE N!TestAnswers(q)
    BY <2>10, AnsweringTest
  <2>11. CASE N!Record(q)
    BY <2>11, RecordingTest
  <2> QED BY <1>1, <2>1, <2>2, <2>3, <2>4, <2>5, <2>6, <2>7, <2>8, <2>9, <2>10, <2>11 DEF N!Serve
<1> QED BY <1>1, Restarting DEF N!Next

(* The invariant holds of every behaviour of the suite, whichever part     *)
(* moves.                                                                  *)
THEOREM SettingsInvariance ==
    ASSUME N!SettingsAssumption
    PROVE  SuiteSpec => []SettingsInv
<1>1. SuiteInit => SettingsInv
  BY SettingsBegin DEF SuiteInit
<1>2. SettingsInv /\ [SuiteNext /\ UNCHANGED moves]_<<moves, vars, settingVars, others>> => SettingsInv'
  <2>1. SUFFICES ASSUME SettingsInv,
                        [SuiteNext /\ UNCHANGED moves]_<<moves, vars, settingVars, others>>
                 PROVE  SettingsInv'
    OBVIOUS
  <2>2. N!Next \/ UNCHANGED settingVars
    BY <2>1 DEF SuiteNext
  <2> QED BY <2>1, <2>2, SettingsMove, SettingsStay
<1> QED BY <1>1, <1>2, PTL DEF SuiteSpec

(* When no request is being served the settings in force are those that    *)
(* were saved: in the cache, the bridge file, the sidecar and the record   *)
(* of the tested Jira settings.                                            *)
LEMMA SettledNow ==
    ASSUME SettingsInv, N!SettingsAssumption
    PROVE  SettledIsInForce
<1>1. /\ \A k \in Keys : N!GetSettings(cache, k) = N!InForce(cache, k)
  BY EachIsInForce DEF SettingsInv, SettingTypes
<1>2. JiraKeys \subseteq Keys /\ SidecarKeys \subseteq Keys /\ Switch \in SidecarKeys
  BY DEF N!SettingsAssumption
<1>3. ASSUME N!Settled
      PROVE  \A p \in Handlers : /\ N!Touched(request[p]) = {} /\ ~Written(request[p])
                                 /\ ~ChangesJira(request[p])
  BY <1>3, IdleTouchesNothing DEF N!Settled, Written, ChangesJira
<1>4. ASSUME N!Settled, NEW k \in Keys \ overlapped
      PROVE  /\ N!GetSettings(cache, k) = N!InForce(rows, k)
             /\ k \in SidecarKeys => bridge[k] = rows[k]
  <2>1. cache[k] = rows[k]
    BY <1>3, <1>4 DEF SettingsInv, RowsAreApplied
  <2>2. N!GetSettings(cache, k) = N!InForce(rows, k)
    BY <1>1, <2>1, SameInForce
  <2>3. k \in SidecarKeys => bridge[k] = cache[k]
    BY DEF SettingsInv, RowsAreApplied, N!Bridged
  <2> QED BY <2>1, <2>2, <2>3
<1>5. ASSUME N!Settled, "sidecar" \notin unsure, overlapped \intersect SidecarKeys = {}
      PROVE  sidecar = N!InForce(rows, Switch)
  BY <1>2, <1>3, <1>5 DEF SettingsInv, SidecarIsTold
<1>6. ASSUME N!Settled, "record" \notin unsure, overlapped \intersect JiraKeys = {}
      PROVE  verified \in {N!NotVerified, N!Fingerprint(cache)}
  BY <1>3, <1>6 DEF SettingsInv, RecordIsTrue
<1>7. ASSUME NEW q \in Handlers, "kept" \in DOMAIN request[q], NEW k \in request[q].keys,
             request[q].kept[k] # N!Unset
      PROVE  Sanitized[request[q].kept[k]] # request[q].batch[k]
  <2>1. Saving(request[q])
    BY <1>7 DEF SettingsInv, RequestsAreKnown, N!Silent, Testing
  <2> QED BY <1>7, <2>1 DEF Saving
<1> QED BY <1>4, <1>5, <1>6, <1>7 DEF SettledIsInForce, N!SettledIsInForce

THEOREM SettledStaysInForce ==
    ASSUME N!SettingsAssumption
    PROVE  SuiteSpec => []SettledIsInForce
<1>1. SettingsInv => SettledIsInForce
  BY SettledNow
<1> QED BY <1>1, SettingsInvariance, PTL

-----------------------------------------------------------------------------
(***************************************************************************)
(* The signals of a connection.                                            *)
(***************************************************************************)

(* Looking at what it has to look at, a connection reads the role only of  *)
(* the pending users, and no count of a plain topic.                       *)
LooksInTurn ==
    /\ owed \subseteq S!Topics /\ event \subseteq S!Topics /\ todo \subseteq S!Topics
    /\ phase \in {"away", "hello", "wait", "told", "awake", "gone"}
    /\ phase \in {"hello", "awake"} <=> todo # {}
    /\ phase \notin {"hello", "awake"} => reading = "no"
    /\ reading \in {"no", "role", "count", "send", "sent"}
    /\ reading = "role" => S!Topic = "pending"
    /\ phase = "told" => kind = "plain"

(* A topic is yet to be read, or about to be shown as it is ...            *)
ToRead(t) == t \in todo /\ (t # S!Topic \/ reading \in {"no", "role", "count"})
Sending(t) == t \in todo /\ t = S!Topic /\ reading = "send"

(* ... or is shown as it is, or tried again, unless its signal is set, its *)
(* change not announced yet, or its last read failed.                      *)
SignalsAreServed ==
    phase \in {"hello", "awake", "wait"} /\ kind # "plain" =>
        \A t \in registered \ (event \union owed \union failed) :
            \/ ToRead(t)
            \/ Sending(t) /\ copy = value[t]
            \/ ~Sending(t) /\ shown[t] = value[t]
            \/ t = "pending" /\ (retry \/ ~isAdmin)

StreamsInv ==
    /\ value = [t \in S!Topics |-> value[t]] /\ shown = [t \in S!Topics |-> shown[t]]
    /\ registered \subseteq S!Topics /\ LooksInTurn /\ SignalsAreServed
-----------------------------------------------------------------------------
(* There is a topic to look at first.                                      *)
LEMMA TopicIsNext == ASSUME todo \subseteq S!Topics, todo # {} PROVE S!Topic \in todo
<1>1. S!Topics = {"active", "mention", "pending", "plain"}
  BY DEF S!Topics, S!Counts
<1>2. /\ S!Turn["plain"] = 1 /\ S!Turn["active"] = 2 /\ S!Turn["mention"] = 3 /\ S!Turn["pending"] = 4
  BY <1>1 DEF S!Turn
<1>3. \E t \in todo : \A u \in todo : S!Turn[t] <= S!Turn[u]
  <2>1. CASE "plain" \in todo
    BY <1>1, <1>2, <2>1
  <2>2. CASE "plain" \notin todo /\ "active" \in todo
    BY <1>1, <1>2, <2>2
  <2>3. CASE "plain" \notin todo /\ "active" \notin todo /\ "mention" \in todo
    BY <1>1, <1>2, <2>3
  <2>4. CASE "plain" \notin todo /\ "active" \notin todo /\ "mention" \notin todo
    <3>1. todo = {"pending"}
      BY <1>1, <2>4
    <3> QED BY <1>2, <3>1
  <2> QED BY <2>1, <2>2, <2>3, <2>4
<1> QED BY <1>3 DEF S!Topic

LEMMA TopicStays == todo' = todo => S!Topic' = S!Topic
  BY DEF S!Topic

LEMMA Topics == S!Topics = {"active", "mention", "pending", "plain"}
  BY DEF S!Topics, S!Counts

(* What happens to the data: a change is owed an announcement, and that    *)
(* sets the event of whoever registered for it.                            *)
LEMMA Changing ==
    ASSUME StreamsInv, NEW t \in S!Topics, S!Change(t)
    PROVE  StreamsInv'
<1>1. PICK v : value' = [value EXCEPT ![t] = v]
  BY DEF S!Change
<1>2. /\ owed' = owed \union {t} /\ UNCHANGED <<isAdmin, event>>
      /\ UNCHANGED <<kind, phase, registered, todo, reading, copy, shown, retry, failed>>
  BY DEF S!Change, S!StreamUnchanged
<1>3. value' = [u \in S!Topics |-> value'[u]] /\ \A u \in S!Topics \ {t} : value'[u] = value[u]
  BY <1>1 DEF StreamsInv
<1>4. LooksInTurn'
  BY <1>2, TopicStays DEF StreamsInv, LooksInTurn
<1>5. SignalsAreServed'
  BY <1>2, <1>3, TopicStays DEF StreamsInv, SignalsAreServed, ToRead, Sending
<1> QED BY <1>2, <1>3, <1>4, <1>5 DEF StreamsInv

LEMMA AnnouncingChange ==
    ASSUME StreamsInv, NEW t \in S!Topics, S!Announce(t)
    PROVE  StreamsInv'
<1>1. /\ owed' = owed \ {t} /\ event' = event \union ({t} \intersect registered) /\ UNCHANGED <<value, isAdmin>>
      /\ UNCHANGED <<kind, phase, registered, todo, reading, copy, shown, retry, failed>>
  BY DEF S!Announce, S!StreamUnchanged
<1>2. LooksInTurn'
  BY <1>1, TopicStays DEF StreamsInv, LooksInTurn
<1>3. SignalsAreServed'
  BY <1>1, TopicStays DEF StreamsInv, SignalsAreServed, ToRead, Sending
<1> QED BY <1>1, <1>2, <1>3 DEF StreamsInv

LEMMA Demoting ==
    ASSUME StreamsInv, S!Demote
    PROVE  StreamsInv'
<1>1. /\ isAdmin' = FALSE /\ UNCHANGED <<value, owed, event>>
      /\ UNCHANGED <<kind, phase, registered, todo, reading, copy, shown, retry, failed>>
  BY DEF S!Demote, S!StreamUnchanged
<1>2. LooksInTurn'
  BY <1>1, TopicStays DEF StreamsInv, LooksInTurn
<1>3. SignalsAreServed'
  BY <1>1, TopicStays DEF StreamsInv, SignalsAreServed, ToRead, Sending
<1> QED BY <1>1, <1>2, <1>3 DEF StreamsInv

LEMMA Connecting ==
    ASSUME StreamsInv, NEW k \in {"navbar", "multiplexed", "plain"}, S!Connect(k)
    PROVE  StreamsInv'
<1>1. /\ phase = "away" /\ kind' = k /\ registered' = S!Asked(k) /\ todo' = S!Asked(k) \ {"plain"}
      /\ phase' = IF k = "plain" THEN "wait" ELSE "hello"
      /\ shown' = [shown EXCEPT !["plain"] = value["plain"]]
      /\ UNCHANGED <<value, owed, isAdmin, event, reading, copy, retry, failed>>
  BY DEF S!Connect, S!worldVars
<1>2. shown' = [t \in S!Topics |-> shown'[t]] /\ shown'["plain"] = value["plain"]
  BY <1>1, Topics DEF StreamsInv
<1>3. registered' \subseteq S!Topics /\ (todo' = {} <=> k = "plain") /\ todo' \subseteq S!Topics
  BY <1>1, Topics DEF S!Asked, S!Counts
<1>4. reading = "no"
  BY <1>1 DEF StreamsInv, LooksInTurn
<1>5. LooksInTurn'
  BY <1>1, <1>3, <1>4 DEF StreamsInv, LooksInTurn
<1>6. SignalsAreServed'
  BY <1>1, <1>2, <1>4 DEF StreamsInv, SignalsAreServed, ToRead, Sending
<1> QED BY <1>1, <1>2, <1>3, <1>5, <1>6 DEF StreamsInv

-----------------------------------------------------------------------------
(* A connection looks at a topic, whose event it has cleared.              *)
LEMMA Starting ==
    ASSUME StreamsInv, S!Start
    PROVE  StreamsInv'
<1>1. /\ todo # {} /\ S!Topic # "plain" /\ reading = "no"
      /\ reading' = IF S!Topic # "pending" THEN "count"
                    ELSE IF "pending" \in registered THEN "role" ELSE "sent"
      /\ event' = IF phase = "hello" THEN event ELSE event \ {S!Topic}
      /\ phase \in {"hello", "awake"}
      /\ UNCHANGED <<value, owed, isAdmin, kind, phase, registered, todo, copy, shown, retry, failed>>
  BY DEF S!Start, S!Reading, S!worldVars
<1>2. S!Topic \in todo /\ S!Topic' = S!Topic
  BY <1>1, TopicIsNext, TopicStays DEF StreamsInv, LooksInTurn
<1>3. LooksInTurn'
  BY <1>1, <1>2 DEF StreamsInv, LooksInTurn
<1>4. SignalsAreServed'
  BY <1>1, <1>2 DEF StreamsInv, SignalsAreServed, ToRead, Sending
<1> QED BY <1>1, <1>3, <1>4 DEF StreamsInv

LEMMA CheckingRole ==
    ASSUME StreamsInv, S!CheckRole
    PROVE  StreamsInv'
<1>1. /\ todo # {} /\ reading = "role" /\ phase \in {"hello", "awake"}
      /\ UNCHANGED <<value, owed, isAdmin, kind, phase, event, todo, copy, failed>>
  BY DEF S!CheckRole, S!Reading, S!worldVars
<1>2. S!Topic = "pending" /\ S!Topic' = S!Topic
  BY <1>1, TopicStays DEF StreamsInv, LooksInTurn
<1>3. CASE isAdmin
  <2>1. reading' = "count" /\ UNCHANGED <<registered, shown, retry>>
    BY <1>3 DEF S!CheckRole
  <2>2. LooksInTurn'
    BY <1>1, <1>2, <2>1 DEF StreamsInv, LooksInTurn
  <2>3. SignalsAreServed'
    BY <1>1, <1>2, <2>1 DEF StreamsInv, SignalsAreServed, ToRead, Sending
  <2> QED BY <1>1, <2>1, <2>2, <2>3 DEF StreamsInv
<1>4. CASE ~isAdmin
  <2>1. /\ reading' = "sent" /\ registered' = registered \ {"pending"}
        /\ shown' = [shown EXCEPT !["pending"] = 0]
    BY <1>4 DEF S!CheckRole
  <2>2. shown' = [t \in S!Topics |-> shown'[t]] /\ \A t \in S!Topics \ {"pending"} : shown'[t] = shown[t]
    BY <2>1 DEF StreamsInv
  <2>3. LooksInTurn'
    BY <1>1, <1>2, <2>1 DEF StreamsInv, LooksInTurn
  <2>4. SignalsAreServed'
    BY <1>1, <1>2, <2>1, <2>2 DEF StreamsInv, SignalsAreServed, ToRead, Sending
  <2> QED BY <1>1, <2>1, <2>2, <2>3, <2>4 DEF StreamsInv
<1> QED BY <1>3, <1>4

LEMMA ReadingCount ==
    ASSUME StreamsInv, S!ReadCount
    PROVE  StreamsInv'
<1>1. /\ todo # {} /\ reading = "count" /\ reading' = "send" /\ copy' = value[S!Topic]
      /\ failed' = failed \ {S!Topic} /\ (retry' <=> (retry /\ S!Topic # "pending"))
      /\ phase \in {"hello", "awake"}
      /\ UNCHANGED <<value, owed, isAdmin, kind, phase, registered, event, todo, shown>>
  BY DEF S!ReadCount, S!Reading, S!worldVars
<1>2. S!Topic \in todo /\ S!Topic' = S!Topic
  BY <1>1, TopicIsNext, TopicStays DEF StreamsInv, LooksInTurn
<1>3. LooksInTurn'
  BY <1>1, <1>2 DEF StreamsInv, LooksInTurn
<1>4. SignalsAreServed'
  BY <1>1, <1>2 DEF StreamsInv, SignalsAreServed, ToRead, Sending
<1> QED BY <1>1, <1>3, <1>4 DEF StreamsInv

LEMMA ReadingFails ==
    ASSUME StreamsInv, S!ReadFails
    PROVE  StreamsInv'
<1>1. /\ todo # {} /\ reading \in {"role", "count"} /\ reading' = "sent"
      /\ failed' = IF S!Topic = "pending" THEN failed ELSE failed \union {S!Topic}
      /\ retry' = S!RetryLater /\ phase \in {"hello", "awake"}
      /\ UNCHANGED <<value, owed, isAdmin, kind, phase, registered, event, todo, copy, shown>>
  BY DEF S!ReadFails, S!Reading, S!worldVars
<1>2. (S!Topic = "pending" => retry') /\ (retry => retry')
  BY <1>1 DEF S!RetryLater
<1>3. S!Topic' = S!Topic
  BY <1>1, TopicStays
<1>4. LooksInTurn'
  BY <1>1, <1>3 DEF StreamsInv, LooksInTurn
<1>5. SignalsAreServed'
  BY <1>1, <1>2, <1>3 DEF StreamsInv, SignalsAreServed, ToRead, Sending
<1> QED BY <1>1, <1>4, <1>5 DEF StreamsInv

LEMMA SendingCount ==
    ASSUME StreamsInv, S!Send \/ S!Refresh
    PROVE  StreamsInv'
<1>1. /\ todo # {} /\ reading' = "sent" /\ phase \in {"hello", "awake"}
      /\ UNCHANGED <<value, owed, isAdmin, kind, phase, registered, todo, copy, retry, failed>>
  BY DEF S!Send, S!Refresh, S!Reading, S!worldVars
<1>2. S!Topic \in todo /\ S!Topic' = S!Topic
  BY <1>1, TopicIsNext, TopicStays DEF StreamsInv, LooksInTurn
<1>3. S!Topic \in S!Topics
  BY <1>2 DEF StreamsInv, LooksInTurn
<1>4. CASE S!Send
  <2>1. reading = "send" /\ shown' = [shown EXCEPT ![S!Topic] = copy] /\ event' = event
    BY <1>4 DEF S!Send
  <2>2. /\ shown' = [t \in S!Topics |-> shown'[t]] /\ shown'[S!Topic] = copy
        /\ \A t \in S!Topics \ {S!Topic} : shown'[t] = shown[t]
    BY <1>3, <2>1 DEF StreamsInv
  <2>3. LooksInTurn'
    BY <1>1, <1>2, <2>1 DEF StreamsInv, LooksInTurn
  <2>4. SignalsAreServed'
    BY <1>1, <1>2, <2>1, <2>2 DEF StreamsInv, SignalsAreServed, ToRead, Sending
  <2> QED BY <1>1, <2>2, <2>3, <2>4 DEF StreamsInv
<1>5. CASE S!Refresh
  <2>1. /\ reading = "no" /\ shown' = [shown EXCEPT ![S!Topic] = value[S!Topic]]
        /\ event' = event \ {S!Topic}
    BY <1>5 DEF S!Refresh
  <2>2. /\ shown' = [t \in S!Topics |-> shown'[t]] /\ shown'[S!Topic] = value[S!Topic]
        /\ \A t \in S!Topics \ {S!Topic} : shown'[t] = shown[t]
    BY <1>3, <2>1 DEF StreamsInv
  <2>3. LooksInTurn'
    BY <1>1, <1>2, <2>1 DEF StreamsInv, LooksInTurn
  <2>4. SignalsAreServed'
    BY <1>1, <1>2, <2>1, <2>2 DEF StreamsInv, SignalsAreServed, ToRead, Sending
  <2> QED BY <1>1, <2>2, <2>3, <2>4 DEF StreamsInv
<1> QED BY <1>4, <1>5

LEMMA Advancing ==
    ASSUME StreamsInv, S!Advance
    PROVE  StreamsInv'
<1>1. /\ todo # {} /\ reading = "sent" /\ reading' = "no" /\ phase \in {"hello", "awake"}
      /\ todo' = todo \ {S!Topic} /\ phase' = IF todo = {S!Topic} THEN "wait" ELSE phase
      /\ UNCHANGED <<value, owed, isAdmin, kind, registered, event, copy, shown, retry, failed>>
  BY DEF S!Advance, S!Reading, S!worldVars
<1>2. S!Topic \in todo
  BY <1>1, TopicIsNext DEF StreamsInv, LooksInTurn
<1>3. LooksInTurn'
  BY <1>1, <1>2 DEF StreamsInv, LooksInTurn
<1>4. SignalsAreServed'
  BY <1>1, <1>2 DEF StreamsInv, SignalsAreServed, ToRead, Sending
<1> QED BY <1>1, <1>3, <1>4 DEF StreamsInv

-----------------------------------------------------------------------------
LEMMA Waking ==
    ASSUME StreamsInv, NEW due \in BOOLEAN, S!Wake(due)
    PROVE  StreamsInv'
<1>1. /\ phase = "wait" /\ kind # "plain" /\ (event # {} \/ due) /\ phase' = "awake"
      /\ todo' = event \union (IF due THEN {"pending"} ELSE {})
      /\ UNCHANGED <<value, owed, isAdmin, kind, registered, event, reading, copy, shown, retry, failed>>
  BY DEF S!Wake, S!worldVars
<1>2. todo = {} /\ reading = "no" /\ todo' # {} /\ todo' \subseteq S!Topics
  BY <1>1, Topics DEF StreamsInv, LooksInTurn
<1>3. LooksInTurn'
  BY <1>1, <1>2 DEF StreamsInv, LooksInTurn
<1>4. SignalsAreServed'
  BY <1>1, <1>2 DEF StreamsInv, SignalsAreServed, ToRead, Sending
<1> QED BY <1>1, <1>3, <1>4 DEF StreamsInv

LEMMA Telling ==
    ASSUME StreamsInv, (\E keepalive \in BOOLEAN : S!Tell(keepalive)) \/ S!Again
    PROVE  StreamsInv'
<1>1. /\ kind = "plain" /\ event' \subseteq event
      /\ phase \in {"wait", "told"} /\ phase' \in {"wait", "told"}
      /\ UNCHANGED <<value, owed, kind, registered, todo, reading>>
  BY DEF S!Tell, S!Again, S!worldVars, StreamsInv, LooksInTurn
<1>2. shown' = [t \in S!Topics |-> shown'[t]]
  BY DEF S!Tell, S!Again, StreamsInv
<1>3. LooksInTurn'
  BY <1>1, TopicStays DEF StreamsInv, LooksInTurn
<1>4. SignalsAreServed'
  BY <1>1 DEF SignalsAreServed
<1> QED BY <1>1, <1>2, <1>3, <1>4 DEF StreamsInv

LEMMA GoingAway ==
    ASSUME StreamsInv, S!Leave
    PROVE  StreamsInv'
<1>1. /\ phase' = "gone" /\ registered' \subseteq registered /\ todo' = {} /\ reading' = "no"
      /\ UNCHANGED <<value, owed, kind, event, shown>>
  BY DEF S!Leave, S!LeftBehind, S!worldVars
<1>2. LooksInTurn' /\ SignalsAreServed'
  BY <1>1 DEF StreamsInv, LooksInTurn, SignalsAreServed
<1> QED BY <1>1, <1>2 DEF StreamsInv

LEMMA StreamsBegin == S!Init => StreamsInv
  BY DEF S!Init, StreamsInv, LooksInTurn, SignalsAreServed

LEMMA StreamsStay == StreamsInv /\ UNCHANGED streamVars => StreamsInv'
  BY TopicStays DEF streamVars, StreamsInv, LooksInTurn, SignalsAreServed, ToRead, Sending

LEMMA StreamsMove == StreamsInv /\ S!Next => StreamsInv'
  BY Changing, AnnouncingChange, Demoting, Connecting, Starting, CheckingRole, ReadingCount,
     ReadingFails, SendingCount, Advancing, Waking, Telling, GoingAway DEF S!Next

(* A connection that waits has nothing left to look at.                    *)
LEMMA StreamsSettle == StreamsInv => S!BadgesAreTrue
  BY DEF StreamsInv, LooksInTurn, SignalsAreServed, ToRead, Sending, S!BadgesAreTrue

-----------------------------------------------------------------------------
(***************************************************************************)
(* The payloads of a broadcast.                                            *)
(***************************************************************************)
Elements(s) == {s[i] : i \in DOMAIN s}
Differ(s) == \A i, j \in DOMAIN s : i # j => s[i] # s[j]

(* A payload that is made is with its producer, then a callback, then in   *)
(* the queue, then with the reader.                                        *)
Flying == {producer[t].payload : t \in {u \in Handlers : producer[u].step # "idle"}}
Hand == IF reader \in {"gap", "rendering"} THEN {payload} ELSE {}
Pending == Flying \union Elements(calls) \union Elements(queue) \union Hand

IsProducer(p) ==
    /\ p = [payload |-> p.payload, sees |-> p.sees, step |-> p.step]
    /\ p.payload \in Nat /\ p.sees \in BOOLEAN /\ p.step \in {"idle", "made", "copied"}

PayloadTypes ==
    /\ stream \in {"audit", "log"} /\ made \in Nat /\ since \in 0 .. made /\ dropped \in Nat /\ gaps \in Nat
    /\ subscribed \in BOOLEAN /\ payload \in Nat
    /\ producer = [t \in Handlers |-> producer[t]] /\ \A t \in Handlers : IsProducer(producer[t])
    /\ calls \in Seq(Nat) /\ queue \in Seq(Nat) /\ tail \in Seq(Nat) /\ got \in Seq(Nat)

(* Payloads were made, and each is in one place once.                      *)
PayloadsDiffer ==
    /\ Pending \subseteq 1 .. made /\ Elements(tail) \subseteq 1 .. made /\ Elements(got) \subseteq 1 .. made
    /\ \A t, u \in Handlers : producer[t].step # "idle" /\ producer[u].step # "idle"
                              /\ producer[t].payload = producer[u].payload => t = u
    /\ Differ(calls) /\ Differ(queue) /\ Differ(tail) /\ Differ(got)
    /\ Flying \intersect Elements(calls) = {} /\ Flying \intersect Elements(queue) = {}
    /\ Flying \intersect Hand = {} /\ Elements(calls) \intersect Elements(queue) = {}
    /\ Elements(calls) \intersect Hand = {} /\ Elements(queue) \intersect Hand = {}

(* Lines of the log's end come before the queue, and those that are still  *)
(* to come from the queue are remembered.                                  *)
TailComesFirst ==
    /\ reader \in {"away", "tail", "showing", "reading", "gap", "rendering", "gone"}
    /\ reader \in {"tail", "showing", "reading", "gap", "rendering"} => subscribed
    /\ reader \in {"away", "tail"} => got = <<>> /\ seen = {}
    /\ reader = "away" => ~subscribed
    /\ reader \notin {"showing", "gone"} => tail = <<>>
    /\ Elements(tail) \intersect Elements(got) = {}
    /\ seen \subseteq Elements(got) /\ Elements(got) \intersect Pending \subseteq seen
    /\ stream = "audit" => seen = {} /\ reader \notin {"tail", "showing"}

(* The payloads the queue could not take are as many as were counted, and  *)
(* the audit stream never shows one.                                       *)
Lost(D) ==
    /\ D \subseteq 1 .. made /\ Cardinality(D) = dropped + gaps /\ D \intersect Pending = {}
    /\ stream = "audit" => D \intersect Elements(got) = {}
    /\ subscribed => (since + 1) .. made \subseteq Elements(got) \union Pending \union D

LossIsCounted ==
    /\ \E D \in SUBSET (1 .. made) : Lost(D)
    /\ stream = "log" => gaps = 0

(* A payload made since the subscriber came finds it.                      *)
SubscriberIsSeen ==
    subscribed => \A t \in Handlers :
        producer[t].step = "copied" /\ producer[t].payload > since => producer[t].sees

(* A gap that is not told yet will be, with the next of the queue.         *)
GapIsComing ==
    stream = "audit" /\ dropped > 0 /\ reader # "gone" => queue # <<>> \/ reader = "gap"

BroadcastInv ==
    /\ PayloadTypes /\ PayloadsDiffer /\ TailComesFirst /\ LossIsCounted /\ SubscriberIsSeen /\ GapIsComing
-----------------------------------------------------------------------------
(* What a sequence has after an append, or without its head.               *)
LEMMA Appended ==
    ASSUME NEW s \in Seq(Nat), NEW x \in Nat
    PROVE  /\ Append(s, x) \in Seq(Nat) /\ Append(s, x) # <<>>
           /\ Elements(Append(s, x)) = Elements(s) \union {x}
           /\ Differ(s) /\ x \notin Elements(s) => Differ(Append(s, x))
<1>1. PICK n \in Nat : n = Len(s)
  OBVIOUS
<1>2. PICK a : a = Append(s, x)
  OBVIOUS
<1>3. /\ a \in Seq(Nat) /\ a # <<>> /\ DOMAIN a = 1 .. n + 1 /\ DOMAIN s = 1 .. n
      /\ a[n + 1] = x /\ \A i \in 1 .. n : a[i] = s[i]
  BY <1>1, <1>2
<1>4. 1 .. n + 1 = 1 .. n \union {n + 1} /\ n + 1 \notin 1 .. n
  BY <1>1
<1>5. Elements(a) = Elements(s) \union {x}
  <2>1. ASSUME NEW v \in Elements(a)
        PROVE  v \in Elements(s) \union {x}
    <3>1. PICK i \in 1 .. n + 1 : v = a[i]
      BY <1>3 DEF Elements
    <3>2. v = x \/ (i \in 1 .. n /\ v = s[i])
      BY <1>3, <1>4, <3>1
    <3> QED BY <1>3, <3>2 DEF Elements
  <2>2. x \in Elements(a)
    BY <1>3, <1>4 DEF Elements
  <2>3. ASSUME NEW v \in Elements(s)
        PROVE  v \in Elements(a)
    <3>1. PICK i \in 1 .. n : v = s[i]
      BY <1>3 DEF Elements
    <3>2. i \in 1 .. n + 1 /\ a[i] = v
      BY <1>3, <1>4, <3>1
    <3> QED BY <1>3, <3>2 DEF Elements
  <2> QED BY <2>1, <2>2, <2>3
<1>6. ASSUME Differ(s), x \notin Elements(s), NEW i \in DOMAIN a, NEW j \in DOMAIN a, i # j
      PROVE  a[i] # a[j]
  BY <1>3, <1>4, <1>6 DEF Differ, Elements
<1> QED BY <1>2, <1>3, <1>5, <1>6 DEF Differ

LEMMA Tailed ==
    ASSUME NEW s \in Seq(Nat), s # <<>>, Differ(s)
    PROVE  /\ Head(s) \in Nat /\ Head(s) \in Elements(s) /\ Tail(s) \in Seq(Nat)
           /\ Elements(Tail(s)) = Elements(s) \ {Head(s)} /\ Differ(Tail(s))
<1>1. PICK n \in Nat : n = Len(s)
  OBVIOUS
<1>2. n >= 1
  BY <1>1
<1>3. PICK a : a = Tail(s)
  OBVIOUS
<1>4. /\ a \in Seq(Nat) /\ DOMAIN a = 1 .. n - 1 /\ DOMAIN s = 1 .. n /\ Head(s) = s[1]
      /\ \A i \in 1 .. n - 1 : a[i] = s[i + 1]
  BY <1>1, <1>2, <1>3
<1>5. 1 \in 1 .. n /\ s[1] \in Nat
  BY <1>1, <1>2, <1>4
<1>6. \A i \in 1 .. n - 1 : i + 1 \in 1 .. n /\ i + 1 # 1
  BY <1>1
<1>7. \A i \in 1 .. n : i # 1 => i - 1 \in 1 .. n - 1 /\ (i - 1) + 1 = i
  BY <1>1
<1>8. Elements(a) = Elements(s) \ {s[1]}
  <2>1. ASSUME NEW v \in Elements(a)
        PROVE  v \in Elements(s) \ {s[1]}
    <3>1. PICK i \in 1 .. n - 1 : v = a[i]
      BY <1>4 DEF Elements
    <3>2. v = s[i + 1] /\ i + 1 \in 1 .. n /\ i + 1 # 1
      BY <1>4, <1>6, <3>1
    <3>3. v # s[1]
      BY <1>4, <1>5, <3>2 DEF Differ
    <3> QED BY <1>4, <3>2, <3>3 DEF Elements
  <2>2. ASSUME NEW v \in Elements(s) \ {s[1]}
        PROVE  v \in Elements(a)
    <3>1. PICK i \in 1 .. n : v = s[i]
      BY <1>4 DEF Elements
    <3>2. i # 1
      BY <2>2, <3>1
    <3>3. i - 1 \in 1 .. n - 1 /\ a[i - 1] = v
      BY <1>4, <1>7, <3>1, <3>2
    <3> QED BY <1>4, <3>3 DEF Elements
  <2> QED BY <2>1, <2>2
<1>9. Differ(a)
  <2>1. SUFFICES ASSUME NEW i \in 1 .. n - 1, NEW j \in 1 .. n - 1, i # j
                 PROVE  a[i] # a[j]
    BY <1>4 DEF Differ
  <2>2. i + 1 \in 1 .. n /\ j + 1 \in 1 .. n /\ i + 1 # j + 1
    BY <1>1, <2>1
  <2>3. s[i + 1] # s[j + 1]
    BY <1>4, <2>2 DEF Differ
  <2> QED BY <1>4, <2>3
<1>10. s[1] \in Elements(s)
  BY <1>4, <1>5 DEF Elements
<1> QED BY <1>3, <1>4, <1>5, <1>8, <1>9, <1>10

LEMMA Emptied == Elements(<<>>) = {} /\ Differ(<<>>) /\ <<>> \in Seq(Nat)
  BY DEF Elements, Differ

(* A sequence without repetitions is as long as its elements are many.     *)
LEMMA Counting ==
    ASSUME NEW s \in Seq(Nat), Differ(s)
    PROVE  IsFiniteSet(Elements(s)) /\ Cardinality(Elements(s)) = Len(s) /\ Len(s) \in Nat
<1>1. PICK n \in Nat : n = Len(s)
  OBVIOUS
<1>2. DOMAIN s = 1 .. n /\ s \in [1 .. n -> Nat]
  BY <1>1
<1>3. s \in Bijection(1 .. n, Elements(s))
  <2>1. s \in [1 .. n -> Elements(s)] /\ \A v \in Elements(s) : \E i \in 1 .. n : s[i] = v
    BY <1>2 DEF Elements
  <2>2. \A i, j \in 1 .. n : s[i] = s[j] => i = j
    BY <1>2 DEF Differ
  <2> QED BY <1>2, <2>1, <2>2 DEF Bijection, Injection, Surjection, IsInjective
<1>4. IsFiniteSet(1 .. n) /\ Cardinality(1 .. n) = n
  <2>1. 1 \in Int /\ n \in Int
    BY <1>1
  <2>2. IsFiniteSet(1 .. n) /\ Cardinality(1 .. n) = IF 1 > n THEN 0 ELSE n - 1 + 1
    BY <2>1, FS_Interval
  <2> QED BY <1>1, <2>2
<1>5. ExistsBijection(1 .. n, Elements(s))
  BY <1>3 DEF ExistsBijection
<1> QED BY <1>1, <1>4, <1>5, FS_Bijection

(* The end of the log is of lines that were made.                          *)
LEMMA LastLines ==
    ASSUME made \in Nat, B!QueueAssumption
    PROVE  B!LogTail \in Seq(Nat) /\ Elements(B!LogTail) \subseteq 1 .. made /\ Differ(B!LogTail)
<1>1. PICK n \in Nat, l \in Nat : n = made /\ l = Lines
  BY DEF B!QueueAssumption
<1>2. PICK last : last = [i \in 1 .. n |-> i]
  OBVIOUS
<1>3. last \in Seq(Nat) /\ Len(last) = n /\ \A i \in 1 .. n : last[i] = i
  BY <1>2
<1>4. PICK m : m = IF n > l THEN n - l + 1 ELSE 1
  OBVIOUS
<1>5. m \in Nat /\ m >= 1 /\ m <= n + 1
  BY <1>1, <1>4
<1>6. PICK s : s = SubSeq(last, m, n)
  OBVIOUS
<1>7. B!LogTail = s
  BY <1>1, <1>2, <1>4, <1>6 DEF B!LogTail
<1>8. s = [i \in 1 .. n - m + 1 |-> last[i + m - 1]]
  BY <1>1, <1>3, <1>5, <1>6
<1>9. \A i \in 1 .. n - m + 1 : i + m - 1 \in 1 .. n
  BY <1>1, <1>5
<1>10. DOMAIN s = 1 .. n - m + 1 /\ \A i \in 1 .. n - m + 1 : s[i] = i + m - 1
  BY <1>3, <1>8, <1>9
<1>11. s \in Seq(Nat)
  <2>1. PICK k : k = n - m + 1
    OBVIOUS
  <2>2. k \in Nat
    BY <1>1, <1>5, <2>1
  <2>3. \A i \in 1 .. k : last[i + m - 1] \in Nat
    BY <1>3, <1>9, <2>1
  <2>4. s = [i \in 1 .. k |-> last[i + m - 1]]
    BY <1>8, <2>1
  <2>5. s \in [1 .. k -> Nat]
    BY <2>3, <2>4
  <2> QED BY <2>2, <2>5
<1>12. Elements(s) \subseteq 1 .. n
  BY <1>9, <1>10 DEF Elements
<1>13. Differ(s)
  BY <1>1, <1>5, <1>10 DEF Differ
<1> QED BY <1>1, <1>7, <1>11, <1>12, <1>13
-----------------------------------------------------------------------------
LEMMA Elsewhere ==
    /\ UNCHANGED producer => Flying' = Flying
    /\ UNCHANGED <<reader, payload>> => Hand' = Hand
    /\ UNCHANGED calls => Elements(calls)' = Elements(calls)
    /\ UNCHANGED queue => Elements(queue)' = Elements(queue)
    /\ UNCHANGED tail => Elements(tail)' = Elements(tail)
    /\ UNCHANGED got => Elements(got)' = Elements(got)
  BY DEF Flying, Hand, Elements

(* What is lost stays lost, and nothing else is.                           *)
LEMMA LossIsKept ==
    ASSUME BroadcastInv, made' \in Nat, made <= made', stream' = stream,
           dropped' + gaps' = dropped + gaps, stream = "log" => gaps' = 0,
           \A n \in 1 .. made : n \in Pending' => n \in Pending,
           stream = "audit" => Elements(got)' \subseteq Elements(got) \union Pending,
           subscribed' => \A n \in (since' + 1) .. made' :
               \/ n \in Elements(got)' \union Pending'
               \/ subscribed /\ n \in (since + 1) .. made /\ n \notin Elements(got) \union Pending
    PROVE  LossIsCounted'
<1>1. PICK D \in SUBSET (1 .. made) : Lost(D)
  BY DEF BroadcastInv, LossIsCounted
<1>2. made \in Nat
  BY DEF BroadcastInv, PayloadTypes
<1>3. 1 .. made \subseteq 1 .. made'
  BY <1>2
<1>4. Lost(D)'
  <2>1. D \subseteq 1 .. made' /\ Cardinality(D) = dropped' + gaps'
    BY <1>1, <1>3 DEF Lost
  <2>2. D \intersect Pending' = {}
    BY <1>1 DEF Lost
  <2>3. stream' = "audit" => D \intersect Elements(got)' = {}
    BY <1>1 DEF Lost
  <2>4. subscribed' => (since' + 1) .. made' \subseteq Elements(got)' \union Pending' \union D
    BY <1>1 DEF Lost
  <2> QED BY <2>1, <2>2, <2>3, <2>4 DEF Lost
<1>5. D \in SUBSET (1 .. made')
  BY <1>1, <1>3
<1> QED BY <1>4, <1>5 DEF LossIsCounted
LEMMA Producing ==
    ASSUME BroadcastInv, NEW t \in Handlers, NEW p, IsProducer(p), producer' = [producer EXCEPT ![t] = p]
    PROVE  /\ producer' = [u \in Handlers |-> producer'[u]] /\ \A u \in Handlers : IsProducer(producer'[u])
           /\ producer'[t] = p /\ \A u \in Handlers \ {t} : producer'[u] = producer[u]
           /\ producer[t].step = "idle" /\ p.step # "idle" => Flying' = Flying \union {p.payload}
           /\ producer[t].step # "idle" /\ p.step = "idle" =>
                 Flying' = Flying \ {producer[t].payload} /\ producer[t].payload \in Flying
           /\ producer[t].step # "idle" /\ p.step # "idle" /\ p.payload = producer[t].payload =>
                 Flying' = Flying
<1>1. producer = [u \in Handlers |-> producer[u]] /\ \A u \in Handlers : IsProducer(producer[u])
  BY DEF BroadcastInv, PayloadTypes
<1>2. /\ producer' = [u \in Handlers |-> producer'[u]]
      /\ producer'[t] = p /\ \A u \in Handlers \ {t} : producer'[u] = producer[u]
  BY <1>1
<1>3. \A u \in Handlers : IsProducer(producer'[u])
  BY <1>1, <1>2 DEF IsProducer
<1>4. \A n : n \in Flying <=> \E u \in Handlers : producer[u].step # "idle" /\ n = producer[u].payload
  BY DEF Flying
<1>5. \A n : n \in Flying' <=> \E u \in Handlers : producer'[u].step # "idle" /\ n = producer'[u].payload
  BY DEF Flying
<1>6. \A u, v \in Handlers : producer[u].step # "idle" /\ producer[v].step # "idle"
                              /\ producer[u].payload = producer[v].payload => u = v
  BY DEF BroadcastInv, PayloadsDiffer
<1>7. ASSUME producer[t].step = "idle", p.step # "idle"
      PROVE  Flying' = Flying \union {p.payload}
  <2>1. \A n : n \in Flying' <=> n \in Flying \/ n = p.payload
    BY <1>2, <1>4, <1>5, <1>7
  <2> QED BY <2>1
<1>8. ASSUME producer[t].step # "idle", p.step = "idle"
      PROVE  Flying' = Flying \ {producer[t].payload} /\ producer[t].payload \in Flying
  <2>1. \A n : n \in Flying' <=> n \in Flying /\ n # producer[t].payload
    BY <1>2, <1>4, <1>5, <1>6, <1>8
  <2> QED BY <1>4, <1>8, <2>1
<1>9. ASSUME producer[t].step # "idle", p.step # "idle", p.payload = producer[t].payload
      PROVE  Flying' = Flying
  <2>1. \A n : n \in Flying' <=> n \in Flying
    BY <1>2, <1>4, <1>5, <1>9
  <2> QED BY <2>1
<1> QED BY <1>2, <1>3, <1>7, <1>8, <1>9

(* A payload is made: no other is like it.                                 *)
LEMMA Making ==
    ASSUME BroadcastInv, NEW t \in Handlers, B!Make(t)
    PROVE  BroadcastInv'
<1>1. PICK n \in Nat : n = made + 1
  BY DEF BroadcastInv, PayloadTypes
<1>2. /\ made \in Nat /\ made' = n /\ n \notin 1 .. made /\ 1 .. n = 1 .. made \union {n} /\ made < n
  BY <1>1 DEF B!Make, BroadcastInv, PayloadTypes
<1>3. PICK p : p = [payload |-> n, sees |-> FALSE, step |-> "made"]
  OBVIOUS
<1>4. IsProducer(p) /\ p.payload = n /\ p.step = "made"
  BY <1>1, <1>3 DEF IsProducer
<1>5. /\ producer[t].step = "idle" /\ producer' = [producer EXCEPT ![t] = p]
      /\ UNCHANGED <<subscribed, calls, queue, dropped, reader, stream, since, tail, seen, payload, got, gaps>>
  BY <1>1, <1>3 DEF B!Make, B!ReaderUnchanged
<1>6. /\ producer' = [u \in Handlers |-> producer'[u]] /\ \A u \in Handlers : IsProducer(producer'[u])
      /\ producer'[t] = p /\ \A u \in Handlers \ {t} : producer'[u] = producer[u]
      /\ Flying' = Flying \union {n}
  BY <1>4, <1>5, Producing
<1>7. /\ Hand' = Hand /\ Elements(calls)' = Elements(calls) /\ Elements(queue)' = Elements(queue)
      /\ Elements(tail)' = Elements(tail) /\ Elements(got)' = Elements(got)
  BY <1>5, Elsewhere
<1>8. PayloadTypes'
  <2>1. since' \in 0 .. made'
    BY <1>2, <1>5 DEF BroadcastInv, PayloadTypes
  <2> QED BY <1>2, <1>5, <1>6, <2>1 DEF BroadcastInv, PayloadTypes
<1>9. Pending' = Pending \union {n} /\ Pending \subseteq 1 .. made /\ n \notin Pending
      /\ Elements(got) \subseteq 1 .. made /\ Elements(tail) \subseteq 1 .. made
  BY <1>2, <1>6, <1>7 DEF Pending, BroadcastInv, PayloadsDiffer
<1>10. PayloadsDiffer'
  <2>1. Pending' \subseteq 1 .. made' /\ Elements(tail)' \subseteq 1 .. made' /\ Elements(got)' \subseteq 1 .. made'
    BY <1>2, <1>7, <1>9
  <2>2. \A u \in Handlers \ {t} : producer[u].step # "idle" => producer[u].payload # n
    <3>1. \A u \in Handlers : producer[u].step # "idle" => producer[u].payload \in Flying
      BY DEF Flying
    <3> QED BY <1>9, <3>1 DEF Pending
  <2>3. \A u, v \in Handlers : producer'[u].step # "idle" /\ producer'[v].step # "idle"
                                /\ producer'[u].payload = producer'[v].payload => u = v
    BY <1>4, <1>6, <2>2 DEF BroadcastInv, PayloadsDiffer
  <2>4. n \notin Elements(calls) /\ n \notin Elements(queue) /\ n \notin Hand
    BY <1>9 DEF Pending
  <2> QED BY <1>5, <1>6, <1>7, <2>1, <2>3, <2>4 DEF BroadcastInv, PayloadsDiffer, Differ
<1>11. TailComesFirst'
  BY <1>2, <1>5, <1>7, <1>9 DEF BroadcastInv, TailComesFirst
<1>12. LossIsCounted'
  <2>1. \A i \in (since' + 1) .. made' : i = n \/ i \in (since + 1) .. made
    BY <1>2, <1>5 DEF BroadcastInv, PayloadTypes
  <2> QED BY <1>2, <1>5, <1>7, <1>9, <2>1, LossIsKept DEF BroadcastInv, PayloadTypes, LossIsCounted
<1>13. SubscriberIsSeen'
  BY <1>4, <1>5, <1>6 DEF BroadcastInv, SubscriberIsSeen
<1>14. GapIsComing'
  BY <1>5 DEF BroadcastInv, GapIsComing
<1> QED BY <1>8, <1>10, <1>11, <1>12, <1>13, <1>14 DEF BroadcastInv

LEMMA Copying ==
    ASSUME BroadcastInv, NEW t \in Handlers, B!CopyListeners(t)
    PROVE  BroadcastInv'
<1>1. IsProducer(producer[t]) /\ subscribed \in BOOLEAN
  BY DEF BroadcastInv, PayloadTypes
<1>2. PICK n : n = producer[t].payload
  OBVIOUS
<1>3. PICK p : p = [payload |-> n, sees |-> subscribed, step |-> "copied"]
  OBVIOUS
<1>4. IsProducer(p) /\ p.payload = producer[t].payload /\ p.step = "copied" /\ p.sees = subscribed
  BY <1>1, <1>2, <1>3 DEF IsProducer
<1>5. producer = [u \in Handlers |-> producer[u]]
  BY DEF BroadcastInv, PayloadTypes
<1>6. /\ producer[t].step = "made" /\ producer' = [producer EXCEPT ![t] = p]
      /\ UNCHANGED <<made, subscribed, calls, queue, dropped, reader, stream, since, tail, seen, payload, got, gaps>>
  BY <1>2, <1>3, <1>5 DEF B!CopyListeners, B!ReaderUnchanged
<1>7. /\ producer' = [u \in Handlers |-> producer'[u]] /\ \A u \in Handlers : IsProducer(producer'[u])
      /\ producer'[t] = p /\ \A u \in Handlers \ {t} : producer'[u] = producer[u]
      /\ Flying' = Flying
  BY <1>4, <1>6, Producing
<1>8. /\ Hand' = Hand /\ Elements(calls)' = Elements(calls) /\ Elements(queue)' = Elements(queue)
      /\ Elements(tail)' = Elements(tail) /\ Elements(got)' = Elements(got)
  BY <1>6, Elsewhere
<1>9. Pending' = Pending
  BY <1>7, <1>8 DEF Pending
<1>10. PayloadTypes'
  BY <1>6, <1>7 DEF BroadcastInv, PayloadTypes
<1>11. PayloadsDiffer'
  <2>1. \A u, v \in Handlers : producer'[u].step # "idle" /\ producer'[v].step # "idle"
                                /\ producer'[u].payload = producer'[v].payload => u = v
    BY <1>4, <1>6, <1>7 DEF BroadcastInv, PayloadsDiffer
  <2> QED BY <1>6, <1>7, <1>8, <1>9, <2>1 DEF BroadcastInv, PayloadsDiffer, Differ
<1>12. TailComesFirst'
  BY <1>6, <1>8, <1>9 DEF BroadcastInv, TailComesFirst
<1>13. LossIsCounted'
  BY <1>6, <1>8, <1>9, LossIsKept DEF BroadcastInv, PayloadTypes, LossIsCounted
<1>14. SubscriberIsSeen'
  BY <1>4, <1>6, <1>7 DEF BroadcastInv, SubscriberIsSeen
<1>15. GapIsComing'
  BY <1>6 DEF BroadcastInv, GapIsComing
<1> QED BY <1>10, <1>11, <1>12, <1>13, <1>14, <1>15 DEF BroadcastInv
(* A payload goes from its producer to the loop, or nobody is there.       *)
LEMMA Calling ==
    ASSUME BroadcastInv, NEW t \in Handlers, B!CallLoop(t)
    PROVE  BroadcastInv'
<1>1. PICK n : n = producer[t].payload
  OBVIOUS
<1>2. n \in Nat /\ producer[t].sees \in BOOLEAN /\ calls \in Seq(Nat)
  BY <1>1 DEF BroadcastInv, PayloadTypes, IsProducer
<1>3. IsProducer(B!Quiet) /\ B!Quiet.step = "idle"
  <2>1. B!Quiet = [payload |-> 0, sees |-> FALSE, step |-> "idle"]
    BY DEF B!Quiet
  <2> QED BY <2>1 DEF IsProducer
<1>4. /\ producer[t].step = "copied" /\ producer' = [producer EXCEPT ![t] = B!Quiet]
      /\ calls' = IF producer[t].sees THEN Append(calls, n) ELSE calls
      /\ UNCHANGED <<made, subscribed, queue, dropped, reader, stream, since, tail, seen, payload, got, gaps>>
  BY <1>1 DEF B!CallLoop, B!ReaderUnchanged
<1>5. /\ producer' = [u \in Handlers |-> producer'[u]] /\ \A u \in Handlers : IsProducer(producer'[u])
      /\ producer'[t] = B!Quiet /\ \A u \in Handlers \ {t} : producer'[u] = producer[u]
      /\ Flying' = Flying \ {n} /\ n \in Flying
  BY <1>1, <1>3, <1>4, Producing
<1>6. /\ Hand' = Hand /\ Elements(queue)' = Elements(queue)
      /\ Elements(tail)' = Elements(tail) /\ Elements(got)' = Elements(got)
  BY <1>4, Elsewhere
<1>7. n \in Pending /\ n \notin Elements(calls) /\ n \notin Elements(queue) /\ n \notin Hand /\ Differ(calls)
  BY <1>5 DEF Pending, BroadcastInv, PayloadsDiffer
<1>8. /\ calls' \in Seq(Nat) /\ Differ(calls')
      /\ Elements(calls)' = IF producer[t].sees THEN Elements(calls) \union {n} ELSE Elements(calls)
  <2>1. CASE producer[t].sees
    <3>1. calls' = Append(calls, n)
      BY <1>4, <2>1
    <3>2. Elements(calls') = Elements(calls) \union {n} /\ calls' \in Seq(Nat) /\ Differ(calls')
      BY <1>2, <1>7, <3>1, Appended
    <3> QED BY <2>1, <3>2 DEF Elements
  <2>2. CASE ~producer[t].sees
    BY <1>2, <1>4, <1>7, <2>2 DEF Elements
  <2> QED BY <2>1, <2>2
<1>9. Pending' = IF producer[t].sees THEN Pending ELSE Pending \ {n}
  BY <1>5, <1>6, <1>7, <1>8 DEF Pending
<1>10. PayloadTypes'
  BY <1>4, <1>5, <1>8 DEF BroadcastInv, PayloadTypes
<1>11. PayloadsDiffer'
  <2>1. \A u, v \in Handlers : producer'[u].step # "idle" /\ producer'[v].step # "idle"
                                /\ producer'[u].payload = producer'[v].payload => u = v
    BY <1>3, <1>5 DEF BroadcastInv, PayloadsDiffer
  <2>2. Differ(queue)' /\ Differ(tail)' /\ Differ(got)' /\ Differ(calls)'
    BY <1>4, <1>8 DEF BroadcastInv, PayloadsDiffer, Differ
  <2> QED BY <1>4, <1>5, <1>6, <1>7, <1>8, <1>9, <2>1, <2>2 DEF BroadcastInv, PayloadsDiffer
<1>12. TailComesFirst'
  BY <1>4, <1>6, <1>9 DEF BroadcastInv, TailComesFirst
<1>13. LossIsCounted'
  <2>1. subscribed /\ ~producer[t].sees => ~(n > since)
    BY <1>1, <1>4 DEF BroadcastInv, SubscriberIsSeen
  <2>2. since \in Nat /\ made \in Nat
    BY DEF BroadcastInv, PayloadTypes
  <2>3. subscribed /\ ~producer[t].sees => n \notin (since + 1) .. made
    BY <1>2, <2>1, <2>2
  <2> QED BY <1>4, <1>6, <1>9, <2>2, <2>3, LossIsKept DEF BroadcastInv, PayloadTypes, LossIsCounted
<1>14. SubscriberIsSeen'
  BY <1>3, <1>4, <1>5 DEF BroadcastInv, SubscriberIsSeen
<1>15. GapIsComing'
  BY <1>4 DEF BroadcastInv, GapIsComing
<1> QED BY <1>10, <1>11, <1>12, <1>13, <1>14, <1>15 DEF BroadcastInv

(* The queue takes a payload, or it is lost and counted.                   *)
LEMMA Enqueuing ==
    ASSUME BroadcastInv, B!QueueAssumption, B!Enqueue
    PROVE  BroadcastInv'
<1>1. /\ calls # <<>> /\ calls \in Seq(Nat) /\ queue \in Seq(Nat) /\ Differ(calls) /\ Differ(queue)
      /\ dropped \in Nat /\ gaps \in Nat /\ made \in Nat
  BY DEF B!Enqueue, BroadcastInv, PayloadTypes, PayloadsDiffer
<1>2. PICK n : n = Head(calls)
  OBVIOUS
<1>3. /\ n \in Nat /\ n \in Elements(calls) /\ calls' = Tail(calls)
      /\ calls' \in Seq(Nat) /\ Differ(calls') /\ Elements(calls') = Elements(calls) \ {n}
  BY <1>1, <1>2, Tailed DEF B!Enqueue
<1>4. UNCHANGED <<made, producer, subscribed, reader, stream, since, tail, seen, payload, got, gaps>>
  BY DEF B!Enqueue, B!ReaderUnchanged
<1>5. /\ Hand' = Hand /\ Flying' = Flying
      /\ Elements(tail)' = Elements(tail) /\ Elements(got)' = Elements(got)
  BY <1>4, Elsewhere
<1>6. /\ n \in Pending /\ n \in 1 .. made /\ n \notin Elements(queue) /\ n \notin Hand /\ n \notin Flying
  BY <1>3 DEF Pending, BroadcastInv, PayloadsDiffer
<1>7. CASE Len(queue) < QueueSize
  <2>1. queue' = Append(queue, n) /\ dropped' = dropped
    BY <1>2, <1>7 DEF B!Enqueue
  <2>2. /\ queue' \in Seq(Nat) /\ queue' # <<>> /\ Differ(queue') /\ Elements(queue') = Elements(queue) \union {n}
    BY <1>1, <1>3, <1>6, <2>1, Appended
  <2>3. Elements(queue)' = Elements(queue) \union {n} /\ Elements(calls)' = Elements(calls) \ {n}
    BY <1>3, <2>2 DEF Elements
  <2>4. Pending' = Pending
    BY <1>3, <1>5, <2>3 DEF Pending
  <2>5. PayloadTypes'
    BY <1>3, <1>4, <2>1, <2>2 DEF BroadcastInv, PayloadTypes
  <2>6. PayloadsDiffer'
    <3>1. Differ(queue)' /\ Differ(tail)' /\ Differ(got)' /\ Differ(calls)'
      BY <1>3, <1>4, <2>2 DEF BroadcastInv, PayloadsDiffer, Differ
    <3> QED BY <1>4, <1>5, <1>6, <2>3, <2>4, <3>1 DEF BroadcastInv, PayloadsDiffer
  <2>7. TailComesFirst'
    BY <1>4, <1>5, <2>4 DEF BroadcastInv, TailComesFirst
  <2>8. LossIsCounted'
    BY <1>1, <1>4, <1>5, <2>1, <2>4, LossIsKept DEF BroadcastInv, PayloadTypes, LossIsCounted
  <2>9. SubscriberIsSeen' /\ GapIsComing'
    BY <1>4, <2>1, <2>2 DEF BroadcastInv, SubscriberIsSeen, GapIsComing
  <2> QED BY <2>5, <2>6, <2>7, <2>8, <2>9 DEF BroadcastInv
<1>8. CASE ~(Len(queue) < QueueSize)
  <2>1. queue' = queue /\ dropped' = dropped + 1
    BY <1>8 DEF B!Enqueue, B!Dropped
  <2>2. queue # <<>>
    BY <1>1, <1>8 DEF B!QueueAssumption
  <2>3. Elements(queue)' = Elements(queue) /\ Elements(calls)' = Elements(calls) \ {n}
    BY <1>3, <2>1 DEF Elements
  <2>4. Pending' = Pending \ {n}
    BY <1>3, <1>5, <1>6, <2>3 DEF Pending
  <2>5. PayloadTypes'
    BY <1>1, <1>3, <1>4, <2>1 DEF BroadcastInv, PayloadTypes
  <2>6. PayloadsDiffer'
    <3>1. Differ(queue)' /\ Differ(tail)' /\ Differ(got)' /\ Differ(calls)'
      BY <1>3, <1>4, <2>1 DEF BroadcastInv, PayloadsDiffer, Differ
    <3> QED BY <1>4, <1>5, <2>3, <2>4, <3>1 DEF BroadcastInv, PayloadsDiffer
  <2>7. TailComesFirst'
    BY <1>4, <1>5, <2>4 DEF BroadcastInv, TailComesFirst
  <2>8. LossIsCounted'
    <3>1. PICK D \in SUBSET (1 .. made) : Lost(D)
      BY DEF BroadcastInv, LossIsCounted
    <3>2. n \notin D
      BY <1>6, <3>1 DEF Lost
    <3>3. IsFiniteSet(D)
      <4>1. IsFiniteSet(1 .. made)
        BY <1>1, FS_Interval
      <4> QED BY <3>1, <4>1, FS_Subset
    <3>4. PICK more : more = D \union {n}
      OBVIOUS
    <3>5. Cardinality(more) = Cardinality(D) + 1
      BY <3>2, <3>3, <3>4, FS_AddElement
    <3>6. Cardinality(more) = dropped' + gaps'
      BY <1>1, <1>4, <2>1, <3>1, <3>5 DEF Lost
    <3>7. more \in SUBSET (1 .. made') /\ more \intersect Pending' = {}
      BY <1>4, <1>6, <2>4, <3>1, <3>4 DEF Lost
    <3>8. stream' = "audit" => more \intersect Elements(got)' = {}
      <4>1. stream = "audit" => n \notin Elements(got)
        BY <1>6 DEF BroadcastInv, TailComesFirst
      <4> QED BY <1>4, <1>5, <3>1, <3>4, <4>1 DEF Lost
    <3>9. subscribed' => (since' + 1) .. made' \subseteq Elements(got)' \union Pending' \union more
      BY <1>4, <1>5, <2>4, <3>1, <3>4 DEF Lost
    <3>10. Lost(more)'
      BY <3>6, <3>7, <3>8, <3>9 DEF Lost
    <3> QED BY <1>4, <3>7, <3>10 DEF BroadcastInv, LossIsCounted
  <2>9. SubscriberIsSeen' /\ GapIsComing'
    BY <1>4, <2>1, <2>2 DEF BroadcastInv, SubscriberIsSeen, GapIsComing
  <2> QED BY <2>5, <2>6, <2>7, <2>8, <2>9 DEF BroadcastInv
<1> QED BY <1>7, <1>8
-----------------------------------------------------------------------------
(* The subscriber comes: what was made before it is not owed to it.        *)
LEMMA Joining ==
    ASSUME BroadcastInv, B!Subscribe
    PROVE  BroadcastInv'
<1>1. /\ reader = "away" /\ subscribed' = TRUE /\ since' = made
      /\ reader' = IF stream = "log" THEN "tail" ELSE "reading"
      /\ UNCHANGED <<stream, made, producer, calls, queue, dropped, tail, seen, payload, got, gaps>>
  BY DEF B!Subscribe
<1>2. made \in Nat /\ made \in 0 .. made /\ stream \in {"audit", "log"}
  BY DEF BroadcastInv, PayloadTypes
<1>3. Hand = {} /\ Hand' = {}
  BY <1>1 DEF Hand
<1>4. /\ Flying' = Flying /\ Elements(calls)' = Elements(calls) /\ Elements(queue)' = Elements(queue)
      /\ Elements(tail)' = Elements(tail) /\ Elements(got)' = Elements(got)
  BY <1>1, Elsewhere
<1>5. Pending' = Pending
  BY <1>3, <1>4 DEF Pending
<1>6. PayloadTypes'
  BY <1>1, <1>2 DEF BroadcastInv, PayloadTypes
<1>7. PayloadsDiffer'
  BY <1>1, <1>3, <1>4, <1>5 DEF BroadcastInv, PayloadsDiffer, Differ
<1>8. TailComesFirst'
  BY <1>1, <1>2, <1>4, <1>5 DEF BroadcastInv, TailComesFirst
<1>9. LossIsCounted'
  <2>1. \A n : n \notin (since' + 1) .. made'
    BY <1>1, <1>2
  <2> QED BY <1>1, <1>2, <1>4, <1>5, <2>1, LossIsKept DEF BroadcastInv, PayloadTypes, LossIsCounted
<1>10. SubscriberIsSeen'
  <2>1. \A t \in Handlers : producer[t].step # "idle" => producer[t].payload \in 1 .. made
    <3>1. \A t \in Handlers : producer[t].step # "idle" => producer[t].payload \in Flying
      BY DEF Flying
    <3> QED BY <3>1 DEF BroadcastInv, PayloadsDiffer, Pending
  <2>2. \A t \in Handlers : producer[t].step = "copied" => ~(producer[t].payload > made)
    BY <1>2, <2>1
  <2> QED BY <1>1, <2>2 DEF SubscriberIsSeen
<1>11. GapIsComing'
  BY <1>1, <1>2 DEF BroadcastInv, GapIsComing
<1> QED BY <1>6, <1>7, <1>8, <1>9, <1>10, <1>11 DEF BroadcastInv

(* The end of the log is read, and shown line after line.                  *)
LEMMA ReadingTail ==
    ASSUME BroadcastInv, B!QueueAssumption, B!ReadTail
    PROVE  BroadcastInv'
<1>1. /\ reader = "tail" /\ reader' = "showing" /\ tail' = B!LogTail
      /\ UNCHANGED <<stream, made, producer, subscribed, since, calls, queue, dropped, seen, payload, got, gaps>>
  BY DEF B!ReadTail
<1>2. made \in Nat /\ dropped \in Nat /\ gaps \in Nat
  BY DEF BroadcastInv, PayloadTypes
<1>3. tail' \in Seq(Nat) /\ Elements(tail') \subseteq 1 .. made /\ Differ(tail')
  BY <1>1, <1>2, LastLines
<1>4. Hand = {} /\ Hand' = {}
  BY <1>1 DEF Hand
<1>5. /\ Flying' = Flying /\ Elements(calls)' = Elements(calls) /\ Elements(queue)' = Elements(queue)
      /\ Elements(got)' = Elements(got) /\ Elements(tail)' \subseteq 1 .. made
  BY <1>1, <1>3, Elsewhere DEF Elements
<1>6. Pending' = Pending
  BY <1>4, <1>5 DEF Pending
<1>7. PayloadTypes'
  BY <1>1, <1>3 DEF BroadcastInv, PayloadTypes
<1>8. PayloadsDiffer'
  <2>1. Differ(queue)' /\ Differ(tail)' /\ Differ(got)' /\ Differ(calls)'
    BY <1>1, <1>3 DEF BroadcastInv, PayloadsDiffer, Differ
  <2> QED BY <1>1, <1>4, <1>5, <1>6, <2>1 DEF BroadcastInv, PayloadsDiffer
<1>9. TailComesFirst'
  <2>1. Elements(got) = {} /\ stream # "audit"
    BY <1>1, Emptied DEF BroadcastInv, TailComesFirst
  <2> QED BY <1>1, <1>5, <1>6, <2>1 DEF BroadcastInv, TailComesFirst
<1>10. LossIsCounted'
  BY <1>1, <1>2, <1>5, <1>6, LossIsKept DEF BroadcastInv, PayloadTypes, LossIsCounted
<1>11. SubscriberIsSeen' /\ GapIsComing'
  BY <1>1 DEF BroadcastInv, SubscriberIsSeen, GapIsComing, TailComesFirst
<1> QED BY <1>7, <1>8, <1>9, <1>10, <1>11 DEF BroadcastInv

LEMMA ShowingTail ==
    ASSUME BroadcastInv, B!ShowTail
    PROVE  BroadcastInv'
<1>1. /\ reader = "showing"
      /\ UNCHANGED <<stream, made, producer, subscribed, since, calls, queue, dropped, payload, gaps>>
  BY DEF B!ShowTail
<1>2. /\ tail \in Seq(Nat) /\ got \in Seq(Nat) /\ Differ(tail) /\ Differ(got) /\ stream # "audit"
      /\ made \in Nat /\ dropped \in Nat /\ gaps \in Nat
  BY <1>1 DEF BroadcastInv, PayloadTypes, PayloadsDiffer, TailComesFirst
<1>3. Hand = {}
  BY <1>1 DEF Hand
<1>4. Flying' = Flying /\ Elements(calls)' = Elements(calls) /\ Elements(queue)' = Elements(queue)
  BY <1>1, Elsewhere
<1>5. CASE tail = <<>>
  <2>1. reader' = "reading" /\ UNCHANGED <<tail, seen, got>>
    BY <1>5 DEF B!ShowTail
  <2>2. Hand' = {} /\ Elements(got)' = Elements(got) /\ Elements(tail)' = Elements(tail)
    BY <2>1, Elsewhere DEF Hand
  <2>3. Pending' = Pending
    BY <1>3, <1>4, <2>2 DEF Pending
  <2>4. PayloadTypes'
    BY <1>1, <2>1 DEF BroadcastInv, PayloadTypes
  <2>5. PayloadsDiffer'
    BY <1>1, <1>3, <1>4, <2>1, <2>2, <2>3 DEF BroadcastInv, PayloadsDiffer, Differ
  <2>6. TailComesFirst'
    BY <1>1, <1>2, <1>5, <2>1, <2>2, <2>3 DEF BroadcastInv, TailComesFirst
  <2>7. LossIsCounted'
    BY <1>1, <1>2, <2>1, <2>2, <2>3, LossIsKept DEF BroadcastInv, PayloadTypes, LossIsCounted
  <2>8. SubscriberIsSeen' /\ GapIsComing'
    BY <1>1, <1>2 DEF BroadcastInv, SubscriberIsSeen, GapIsComing
  <2> QED BY <2>4, <2>5, <2>6, <2>7, <2>8 DEF BroadcastInv
<1>6. CASE tail # <<>>
  <2>1. PICK n : n = Head(tail)
    OBVIOUS
  <2>2. tail' = Tail(tail) /\ seen' = seen \union {n} /\ got' = Append(got, n) /\ reader' = reader
    BY <1>6, <2>1 DEF B!ShowTail, B!RememberLine
  <2>3. /\ n \in Nat /\ n \in Elements(tail) /\ tail' \in Seq(Nat) /\ Differ(tail')
        /\ Elements(tail') = Elements(tail) \ {n}
    BY <1>2, <1>6, <2>1, <2>2, Tailed
  <2>4. n \notin Elements(got) /\ n \in 1 .. made
    BY <2>3 DEF BroadcastInv, PayloadsDiffer, TailComesFirst
  <2>5. got' \in Seq(Nat) /\ Differ(got') /\ Elements(got') = Elements(got) \union {n}
    BY <1>2, <2>2, <2>3, <2>4, Appended
  <2>6. /\ Hand' = {} /\ Elements(got)' = Elements(got) \union {n}
        /\ Elements(tail)' = Elements(tail) \ {n}
    BY <1>1, <2>2, <2>3, <2>5 DEF Hand, Elements
  <2>7. Pending' = Pending
    BY <1>3, <1>4, <2>6 DEF Pending
  <2>8. PayloadTypes'
    BY <1>1, <2>3, <2>5 DEF BroadcastInv, PayloadTypes
  <2>9. PayloadsDiffer'
    <3>1. Differ(queue)' /\ Differ(tail)' /\ Differ(got)' /\ Differ(calls)'
      BY <1>1, <2>3, <2>5 DEF BroadcastInv, PayloadsDiffer, Differ
    <3> QED BY <1>1, <1>3, <1>4, <2>4, <2>6, <2>7, <3>1 DEF BroadcastInv, PayloadsDiffer
  <2>10. TailComesFirst'
    BY <1>1, <1>2, <2>2, <2>4, <2>6, <2>7 DEF BroadcastInv, TailComesFirst
  <2>11. LossIsCounted'
    BY <1>1, <1>2, <2>6, <2>7, LossIsKept DEF BroadcastInv, PayloadTypes, LossIsCounted
  <2>12. SubscriberIsSeen' /\ GapIsComing'
    BY <1>1, <1>2 DEF BroadcastInv, SubscriberIsSeen, GapIsComing
  <2> QED BY <2>8, <2>9, <2>10, <2>11, <2>12 DEF BroadcastInv
<1> QED BY <1>5, <1>6

(* A payload goes from the queue to the reader, which tells the gap ...    *)
LEMMA Taking ==
    ASSUME BroadcastInv, B!Take
    PROVE  BroadcastInv'
<1>1. /\ reader = "reading" /\ queue # <<>> /\ payload' = Head(queue) /\ queue' = Tail(queue) /\ reader' = "gap"
      /\ UNCHANGED <<stream, made, producer, subscribed, since, calls, dropped, tail, seen, got, gaps>>
  BY DEF B!Take
<1>2. queue \in Seq(Nat) /\ Differ(queue) /\ made \in Nat /\ dropped \in Nat /\ gaps \in Nat
  BY DEF BroadcastInv, PayloadTypes, PayloadsDiffer
<1>3. /\ payload' \in Nat /\ payload' \in Elements(queue) /\ queue' \in Seq(Nat) /\ Differ(queue')
      /\ Elements(queue') = Elements(queue) \ {payload'}
  BY <1>1, <1>2, Tailed
<1>4. Hand = {} /\ Hand' = {payload'} /\ Elements(queue)' = Elements(queue) \ {payload'}
  BY <1>1, <1>3 DEF Hand, Elements
<1>5. /\ Flying' = Flying /\ Elements(calls)' = Elements(calls)
      /\ Elements(got)' = Elements(got) /\ Elements(tail)' = Elements(tail)
  BY <1>1, Elsewhere
<1>6. Pending' = Pending
  BY <1>3, <1>4, <1>5 DEF Pending
<1>7. PayloadTypes'
  BY <1>1, <1>3 DEF BroadcastInv, PayloadTypes
<1>8. PayloadsDiffer'
  <2>1. Differ(queue)' /\ Differ(tail)' /\ Differ(got)' /\ Differ(calls)'
    BY <1>1, <1>3 DEF BroadcastInv, PayloadsDiffer, Differ
  <2> QED BY <1>1, <1>3, <1>4, <1>5, <1>6, <2>1 DEF BroadcastInv, PayloadsDiffer
<1>9. TailComesFirst'
  BY <1>1, <1>5, <1>6 DEF BroadcastInv, TailComesFirst
<1>10. LossIsCounted'
  BY <1>1, <1>2, <1>5, <1>6, LossIsKept DEF BroadcastInv, PayloadTypes, LossIsCounted
<1>11. SubscriberIsSeen' /\ GapIsComing'
  BY <1>1 DEF BroadcastInv, SubscriberIsSeen, GapIsComing
<1> QED BY <1>7, <1>8, <1>9, <1>10, <1>11 DEF BroadcastInv

LEMMA TellingGap ==
    ASSUME BroadcastInv, B!TellGap
    PROVE  BroadcastInv'
<1>1. /\ reader = "gap" /\ reader' = "rendering"
      /\ UNCHANGED <<stream, made, producer, subscribed, since, calls, queue, tail, seen, payload, got>>
  BY DEF B!TellGap
<1>2. made \in Nat /\ dropped \in Nat /\ gaps \in Nat
  BY DEF BroadcastInv, PayloadTypes
<1>3. /\ dropped' \in Nat /\ gaps' \in Nat /\ dropped' + gaps' = dropped + gaps
      /\ (stream = "audit" => dropped' = 0) /\ (stream # "audit" => gaps' = gaps)
  <2>1. CASE stream = "audit"
    BY <1>2, <2>1 DEF B!TellGap
  <2>2. CASE stream # "audit"
    BY <1>2, <2>2 DEF B!TellGap
  <2> QED BY <2>1, <2>2
<1>4. Hand' = Hand
  BY <1>1 DEF Hand
<1>5. /\ Flying' = Flying /\ Elements(calls)' = Elements(calls) /\ Elements(queue)' = Elements(queue)
      /\ Elements(got)' = Elements(got) /\ Elements(tail)' = Elements(tail)
  BY <1>1, Elsewhere
<1>6. Pending' = Pending
  BY <1>4, <1>5 DEF Pending
<1>7. PayloadTypes'
  BY <1>1, <1>3 DEF BroadcastInv, PayloadTypes
<1>8. PayloadsDiffer'
  BY <1>1, <1>4, <1>5, <1>6 DEF BroadcastInv, PayloadsDiffer, Differ
<1>9. TailComesFirst'
  BY <1>1, <1>5, <1>6 DEF BroadcastInv, TailComesFirst
<1>10. LossIsCounted'
  BY <1>1, <1>2, <1>3, <1>5, <1>6, LossIsKept DEF BroadcastInv, PayloadTypes, LossIsCounted
<1>11. SubscriberIsSeen' /\ GapIsComing'
  BY <1>1, <1>3 DEF BroadcastInv, SubscriberIsSeen, GapIsComing
<1> QED BY <1>7, <1>8, <1>9, <1>10, <1>11 DEF BroadcastInv

(* ... and shows it, unless the end of the log did.                        *)
LEMMA Rendering ==
    ASSUME BroadcastInv, B!Render
    PROVE  BroadcastInv'
<1>1. /\ reader = "rendering" /\ reader' = "reading"
      /\ UNCHANGED <<stream, made, producer, subscribed, since, calls, queue, dropped, tail, payload, gaps>>
  BY DEF B!Render
<1>2. /\ made \in Nat /\ dropped \in Nat /\ gaps \in Nat /\ payload \in Nat
      /\ got \in Seq(Nat) /\ Differ(got) /\ tail = <<>>
  BY <1>1 DEF BroadcastInv, PayloadTypes, PayloadsDiffer, TailComesFirst
<1>3. Hand = {payload} /\ Hand' = {}
  BY <1>1 DEF Hand
<1>4. /\ Flying' = Flying /\ Elements(calls)' = Elements(calls) /\ Elements(queue)' = Elements(queue)
      /\ Elements(tail)' = Elements(tail) /\ Elements(tail) = {}
  BY <1>1, <1>2, Elsewhere, Emptied
<1>5. Pending' = Pending \ {payload} /\ payload \in Pending /\ payload \in 1 .. made
  BY <1>3, <1>4 DEF Pending, BroadcastInv, PayloadsDiffer
<1>6. /\ got' \in Seq(Nat) /\ Differ(got') /\ Elements(got') = Elements(got) \union {payload}
      /\ seen' \subseteq seen /\ seen \ {payload} \subseteq seen'
  <2>1. CASE payload \in seen
    <3>1. payload \in Elements(got)
      BY <2>1 DEF BroadcastInv, TailComesFirst
    <3> QED BY <1>2, <2>1, <3>1 DEF B!Render
  <2>2. CASE payload \notin seen
    <3>1. payload \notin Elements(got)
      BY <1>5, <2>2 DEF BroadcastInv, TailComesFirst
    <3>2. got' = Append(got, payload) /\ seen' = seen
      BY <2>2 DEF B!Render
    <3> QED BY <1>2, <3>1, <3>2, Appended
  <2> QED BY <2>1, <2>2
<1>7. Elements(got)' = Elements(got) \union {payload}
  BY <1>6 DEF Elements
<1>8. PayloadTypes'
  BY <1>1, <1>6 DEF BroadcastInv, PayloadTypes
<1>9. PayloadsDiffer'
  <2>1. Differ(queue)' /\ Differ(tail)' /\ Differ(got)' /\ Differ(calls)'
    BY <1>1, <1>6 DEF BroadcastInv, PayloadsDiffer, Differ
  <2> QED BY <1>1, <1>3, <1>4, <1>5, <1>7, <2>1 DEF BroadcastInv, PayloadsDiffer
<1>10. TailComesFirst'
  BY <1>1, <1>2, <1>4, <1>5, <1>6, <1>7 DEF BroadcastInv, TailComesFirst
<1>11. LossIsCounted'
  BY <1>1, <1>2, <1>5, <1>7, LossIsKept DEF BroadcastInv, PayloadTypes, LossIsCounted
<1>12. SubscriberIsSeen' /\ GapIsComing'
  BY <1>1 DEF BroadcastInv, SubscriberIsSeen, GapIsComing
<1> QED BY <1>8, <1>9, <1>10, <1>11, <1>12 DEF BroadcastInv

LEMMA Disconnecting ==
    ASSUME BroadcastInv, B!Leave
    PROVE  BroadcastInv'
<1>1. /\ reader' = "gone" /\ subscribed' = FALSE
      /\ UNCHANGED <<stream, made, producer, since, calls, queue, dropped, tail, seen, payload, got, gaps>>
  BY DEF B!Leave
<1>2. made \in Nat /\ dropped \in Nat /\ gaps \in Nat
  BY DEF BroadcastInv, PayloadTypes
<1>3. Hand' = {}
  BY <1>1 DEF Hand
<1>4. /\ Flying' = Flying /\ Elements(calls)' = Elements(calls) /\ Elements(queue)' = Elements(queue)
      /\ Elements(got)' = Elements(got) /\ Elements(tail)' = Elements(tail)
  BY <1>1, Elsewhere
<1>5. Pending' \subseteq Pending
  BY <1>3, <1>4 DEF Pending
<1>6. PayloadTypes'
  BY <1>1 DEF BroadcastInv, PayloadTypes
<1>7. PayloadsDiffer'
  BY <1>1, <1>3, <1>4, <1>5 DEF BroadcastInv, PayloadsDiffer, Differ
<1>8. TailComesFirst'
  BY <1>1, <1>4, <1>5 DEF BroadcastInv, TailComesFirst
<1>9. LossIsCounted'
  BY <1>1, <1>2, <1>4, <1>5, LossIsKept DEF BroadcastInv, PayloadTypes, LossIsCounted
<1>10. SubscriberIsSeen' /\ GapIsComing'
  BY <1>1 DEF SubscriberIsSeen, GapIsComing
<1> QED BY <1>6, <1>7, <1>8, <1>9, <1>10 DEF BroadcastInv
-----------------------------------------------------------------------------
LEMMA BroadcastBegins == B!Init => BroadcastInv
<1>1. SUFFICES ASSUME B!Init PROVE BroadcastInv
  OBVIOUS
<1>2. /\ stream \in {"audit", "log"} /\ made = 0 /\ producer = [t \in Handlers |-> B!Quiet]
      /\ subscribed = FALSE /\ since = 0 /\ calls = <<>> /\ queue = <<>> /\ dropped = 0
      /\ reader = "away" /\ tail = <<>> /\ seen = {} /\ payload = 0 /\ got = <<>> /\ gaps = 0
  BY <1>1 DEF B!Init
<1>3. IsProducer(B!Quiet) /\ B!Quiet.step = "idle"
  <2>1. B!Quiet = [payload |-> 0, sees |-> FALSE, step |-> "idle"]
    BY DEF B!Quiet
  <2> QED BY <2>1 DEF IsProducer
<1>4. \A t \in Handlers : producer[t] = B!Quiet
  BY <1>2
<1>5. Flying = {} /\ Hand = {}
  BY <1>2, <1>3, <1>4 DEF Flying, Hand
<1>6. /\ Elements(calls) = {} /\ Elements(queue) = {} /\ Elements(tail) = {} /\ Elements(got) = {}
      /\ Differ(calls) /\ Differ(queue) /\ Differ(tail) /\ Differ(got)
      /\ calls \in Seq(Nat) /\ queue \in Seq(Nat) /\ tail \in Seq(Nat) /\ got \in Seq(Nat)
  BY <1>2, Emptied
<1>7. Pending = {}
  BY <1>5, <1>6 DEF Pending
<1>8. PayloadTypes
  <2>1. since \in 0 .. made /\ made \in Nat /\ dropped \in Nat /\ gaps \in Nat /\ payload \in Nat
    BY <1>2
  <2>2. producer = [t \in Handlers |-> producer[t]] /\ \A t \in Handlers : IsProducer(producer[t])
    BY <1>2, <1>3, <1>4
  <2> QED BY <1>2, <1>6, <2>1, <2>2 DEF PayloadTypes
<1>9. PayloadsDiffer
  BY <1>3, <1>4, <1>5, <1>6, <1>7 DEF PayloadsDiffer
<1>10. TailComesFirst
  BY <1>2, <1>6, <1>7 DEF TailComesFirst
<1>11. Lost({})
  BY <1>2, <1>6, <1>7, FS_EmptySet DEF Lost
<1>12. LossIsCounted /\ SubscriberIsSeen /\ GapIsComing
  BY <1>2, <1>11 DEF LossIsCounted, SubscriberIsSeen, GapIsComing
<1> QED BY <1>8, <1>9, <1>10, <1>12 DEF BroadcastInv

LEMMA BroadcastStays == BroadcastInv /\ UNCHANGED broadcastVars => BroadcastInv'
<1>1. SUFFICES ASSUME BroadcastInv, UNCHANGED broadcastVars PROVE BroadcastInv'
  OBVIOUS
<1>2. UNCHANGED <<stream, made, producer, subscribed, since, calls, queue, dropped, reader, tail, seen,
                  payload, got, gaps>>
  BY <1>1 DEF broadcastVars
<1>3. /\ Hand' = Hand /\ Flying' = Flying /\ Elements(calls)' = Elements(calls)
      /\ Elements(queue)' = Elements(queue) /\ Elements(got)' = Elements(got)
      /\ Elements(tail)' = Elements(tail)
  BY <1>2, Elsewhere
<1>4. Pending' = Pending
  BY <1>3 DEF Pending
<1>5. PayloadTypes'
  BY <1>1, <1>2 DEF BroadcastInv, PayloadTypes
<1>6. PayloadsDiffer'
  BY <1>1, <1>2, <1>3, <1>4 DEF BroadcastInv, PayloadsDiffer, Differ
<1>7. TailComesFirst'
  BY <1>1, <1>2, <1>3, <1>4 DEF BroadcastInv, TailComesFirst
<1>8. LossIsCounted'
  BY <1>1, <1>2, <1>3, <1>4, LossIsKept DEF BroadcastInv, PayloadTypes, LossIsCounted
<1>9. SubscriberIsSeen' /\ GapIsComing'
  BY <1>1, <1>2 DEF BroadcastInv, SubscriberIsSeen, GapIsComing
<1> QED BY <1>5, <1>6, <1>7, <1>8, <1>9 DEF BroadcastInv

LEMMA BroadcastMoves ==
    ASSUME B!QueueAssumption
    PROVE  BroadcastInv /\ B!Next => BroadcastInv'
  BY Making, Copying, Calling, Enqueuing, Joining, ReadingTail, ShowingTail, Taking, TellingGap,
     Rendering, Disconnecting DEF B!Next

(* A subscriber that caught up misses what was lost and counted, no more.  *)
LEMMA NothingLostNow == BroadcastInv => B!NothingIsLost
<1>1. SUFFICES ASSUME BroadcastInv PROVE B!NothingIsLost
  OBVIOUS
<1>2. /\ made \in Nat /\ since \in Nat /\ dropped \in Nat /\ gaps \in Nat /\ stream \in {"audit", "log"}
      /\ got \in Seq(Nat) /\ Differ(got) /\ Elements(got) \subseteq 1 .. made
  BY <1>1 DEF BroadcastInv, PayloadTypes, PayloadsDiffer
<1>3. \A i, j \in DOMAIN got : i # j => got[i] # got[j]
  BY <1>2 DEF Differ
<1>4. PICK missing : missing = ((since + 1) .. made) \ Elements(got)
  OBVIOUS
<1>5. B!ToSet(got) = Elements(got)
  BY DEF B!ToSet, Elements
<1>6. \A x : B!Cardinality(x) = Cardinality(x)
  BY DEF B!Cardinality, Cardinality
<1>7. ASSUME B!CaughtUp
      PROVE  IF stream = "audit"
             THEN dropped = 0 /\ gaps \in Cardinality(missing) .. made - Len(got)
             ELSE Cardinality(missing) <= dropped
  <2>1. /\ reader = "reading" /\ queue = <<>> /\ calls = <<>>
        /\ \A t \in Handlers : producer[t].step = "idle"
    BY <1>7 DEF B!CaughtUp
  <2>2. Pending = {} /\ subscribed
    <3>1. Flying = {} /\ Hand = {}
      BY <2>1 DEF Flying, Hand
    <3>2. Elements(calls) = {} /\ Elements(queue) = {}
      BY <2>1, Emptied
    <3> QED BY <1>1, <2>1, <3>1, <3>2 DEF Pending, BroadcastInv, TailComesFirst
  <2>3. PICK D \in SUBSET (1 .. made) : Lost(D)
    BY <1>1 DEF BroadcastInv, LossIsCounted
  <2>4. IsFiniteSet(1 .. made) /\ Cardinality(1 .. made) = made
    <3>1. 1 \in Int /\ made \in Int
      BY <1>2
    <3>2. IsFiniteSet(1 .. made) /\ Cardinality(1 .. made) = IF 1 > made THEN 0 ELSE made - 1 + 1
      BY <3>1, FS_Interval
    <3> QED BY <1>2, <3>2
  <2>5. IsFiniteSet(D) /\ Cardinality(D) = dropped + gaps
    BY <2>3, <2>4, FS_Subset DEF Lost
  <2>6. missing \subseteq D
    BY <1>4, <2>2, <2>3 DEF Lost
  <2>7. IsFiniteSet(missing) /\ Cardinality(missing) <= Cardinality(D)
    BY <2>5, <2>6, FS_Subset
  <2>8. Cardinality(missing) \in Nat
    BY <2>7, FS_CardinalityType
  <2>9. CASE stream = "audit"
    <3>1. dropped = 0
      BY <1>1, <1>2, <2>1, <2>9 DEF BroadcastInv, GapIsComing
    <3>2. IsFiniteSet(Elements(got)) /\ Cardinality(Elements(got)) = Len(got) /\ Len(got) \in Nat
      BY <1>2, Counting
    <3>3. D \intersect Elements(got) = {}
      BY <2>3, <2>9 DEF Lost
    <3>4. IsFiniteSet(D \intersect Elements(got)) /\ Cardinality(D \intersect Elements(got)) = 0
      BY <3>3, FS_EmptySet
    <3>5. PICK both : both = D \union Elements(got)
      OBVIOUS
    <3>6. IsFiniteSet(both) /\ Cardinality(both) = Cardinality(D) + Cardinality(Elements(got))
      <4>1. Cardinality(D \union Elements(got)) =
              Cardinality(D) + Cardinality(Elements(got)) - Cardinality(D \intersect Elements(got))
        BY <2>5, <3>2, FS_Union
      <4>2. IsFiniteSet(D \union Elements(got))
        BY <2>5, <3>2, FS_Union
      <4>3. PICK d, g : d = Cardinality(D) /\ g = Cardinality(Elements(got))
        OBVIOUS
      <4>4. d \in Nat /\ g \in Nat
        BY <1>2, <2>5, <3>2, <4>3
      <4>5. Cardinality(both) = d + g - 0
        BY <3>4, <3>5, <4>1, <4>3
      <4> QED BY <3>5, <4>2, <4>3, <4>4, <4>5
    <3>7. Cardinality(both) <= made
      <4>1. both \in SUBSET (1 .. made)
        BY <1>2, <2>3, <3>5
      <4> QED BY <2>4, <4>1, FS_Subset
    <3>8. PICK g : g = Cardinality(D)
      OBVIOUS
    <3>9. g = gaps /\ Cardinality(missing) <= g /\ g + Len(got) <= made
      BY <1>2, <2>5, <2>7, <3>1, <3>2, <3>6, <3>7, <3>8
    <3> QED BY <1>2, <2>8, <2>9, <3>1, <3>2, <3>9
  <2>10. CASE stream # "audit"
    <3>1. gaps = 0
      BY <1>1, <1>2, <2>10 DEF BroadcastInv, LossIsCounted
    <3> QED BY <1>2, <2>5, <2>7, <2>8, <2>10, <3>1
  <2> QED BY <2>9, <2>10
<1> QED BY <1>3, <1>4, <1>5, <1>6, <1>7 DEF B!NothingIsLost

-----------------------------------------------------------------------------
(***************************************************************************)
(* Comments, mentions and push notifications.                              *)
(***************************************************************************)

(* A handler that is going to have the count of a user read again.         *)
WillTell(r, u) ==
    \/ r.step = "announce" /\ u \in r.mentions
    \/ r.step = "deleted" /\ u \in r.mentions \union {r.user}
    \/ r.step = "marked" /\ u = r.user

IsDemand(r) ==
    r = [step |-> r.step, user |-> r.user, id |-> r.id, mentions |-> r.mentions, ids |-> r.ids,
         sent |-> r.sent]

(* Comments are numbered apart.                                            *)
CommentsDiffer ==
    /\ lastId \in Nat /\ \A c \in comments : c.id \in 1 .. lastId
    /\ \A c, d \in comments : c.id = d.id => c = d

(* A badge counts, or somebody is about to have it counted again.          *)
BadgesAreComing ==
    \A u \in Users \ untold :
        badge[u] = M!Cardinality(M!Unread(u)) \/ \E q \in Handlers : WillTell(demand[q], u)

(* What a dispatch remembers, and what it removed, is gone.                *)
StaleIsGone ==
    /\ \A q \in Handlers : demand[q].sent \subseteq expired
    /\ \A s \in pruned : s.endpoint \in expired

(* An endpoint has one user.                                               *)
EndpointsDiffer == \A s, t \in subscriptions : s.endpoint = t.endpoint => s = t

MentionsInv ==
    /\ demand = [q \in Handlers |-> demand[q]] /\ \A q \in Handlers : IsDemand(demand[q])
    /\ badge = [u \in Users |-> badge[u]]
    /\ CommentsDiffer /\ BadgesAreComing /\ StaleIsGone /\ EndpointsDiffer
-----------------------------------------------------------------------------
(* A handler goes on, and the others stay where they are.                  *)
LEMMA Demanding ==
    ASSUME MentionsInv, NEW q \in Handlers, NEW r, IsDemand(r), M!Become(q, r)
    PROVE  /\ demand' = [p \in Handlers |-> demand'[p]]
           /\ \A p \in Handlers : IsDemand(demand'[p])
           /\ demand'[q] = r /\ \A p \in Handlers \ {q} : demand'[p] = demand[p]
<1>1. demand' = [demand EXCEPT ![q] = r]
  BY DEF M!Become
<1>2. demand'[q] = r /\ \A p \in Handlers \ {q} : demand'[p] = demand[p]
  BY <1>1 DEF MentionsInv
<1>3. demand' = [p \in Handlers |-> demand'[p]]
  BY <1>1 DEF MentionsInv
<1>4. \A p \in Handlers : IsDemand(demand[p])
  BY DEF MentionsInv
<1>5. \A p \in Handlers : IsDemand(demand'[p])
  BY <1>2, <1>4 DEF IsDemand
<1> QED BY <1>2, <1>3, <1>5

LEMMA IdleTellsNobody ==
    /\ IsDemand(M!Idle) /\ M!Idle.sent = {} /\ M!Idle.step = "idle" /\ \A u : ~WillTell(M!Idle, u)
<1>1. M!Idle = [step |-> "idle", user |-> M!Idle.user, id |-> 0, mentions |-> {}, ids |-> {}, sent |-> {}]
  BY DEF M!Idle
<1> QED BY <1>1 DEF IsDemand, WillTell

(* What the handler knew of nobody else is lost: it had nobody to tell, or *)
(* told them.                                                              *)
Untold(q) == \A u \in Users : ~WillTell(demand[q], u)

(* A step of a handler that tells nobody and changes no comment.           *)
LEMMA HandlerGoesOn ==
    ASSUME MentionsInv, NEW q \in Handlers, NEW r, IsDemand(r), M!Become(q, r), Untold(q),
           r.sent \subseteq expired,
           UNCHANGED <<comments, lastId, reads, badge, untold, expired>>,
           subscriptions' \subseteq subscriptions,
           \A s \in pruned' : s.endpoint \in expired
    PROVE  MentionsInv'
<1>1. /\ demand' = [p \in Handlers |-> demand'[p]]
      /\ \A p \in Handlers : IsDemand(demand'[p])
      /\ demand'[q] = r /\ \A p \in Handlers \ {q} : demand'[p] = demand[p]
  BY Demanding
<1>2. CommentsDiffer'
  BY DEF MentionsInv, CommentsDiffer
<1>3. \A u : M!Unread(u)' = M!Unread(u)
  BY DEF M!Unread
<1>4. BadgesAreComing'
  <2>1. SUFFICES ASSUME NEW u \in Users \ untold, badge[u] # M!Cardinality(M!Unread(u))
                 PROVE  \E p \in Handlers : WillTell(demand'[p], u)
    BY <1>3 DEF BadgesAreComing
  <2>2. PICK p \in Handlers : WillTell(demand[p], u)
    BY <2>1 DEF MentionsInv, BadgesAreComing
  <2>3. p # q
    BY <2>2 DEF Untold
  <2>4. demand'[p] = demand[p]
    BY <1>1, <2>3
  <2> QED BY <2>2, <2>4
<1>5. StaleIsGone'
  <2>1. \A p \in Handlers : demand'[p].sent \subseteq expired
    BY <1>1 DEF MentionsInv, StaleIsGone
  <2> QED BY <2>1 DEF StaleIsGone
<1>6. EndpointsDiffer'
  BY DEF MentionsInv, EndpointsDiffer
<1> QED BY <1>1, <1>2, <1>4, <1>5, <1>6 DEF MentionsInv

(* The users that are told see their counts; whoever else was about to     *)
(* tell still is.                                                          *)
LEMMA Announcing ==
    ASSUME MentionsInv, NEW q \in Handlers, NEW r, IsDemand(r), M!Become(q, r), NEW users,
           M!Announce(users), \A u \in Users : WillTell(demand[q], u) => u \in users,
           r.sent \subseteq expired,
           UNCHANGED <<comments, lastId, reads>>, UNCHANGED M!deviceVars
    PROVE  MentionsInv'
<1>1. /\ demand' = [p \in Handlers |-> demand'[p]]
      /\ \A p \in Handlers : IsDemand(demand'[p])
      /\ demand'[q] = r /\ \A p \in Handlers \ {q} : demand'[p] = demand[p]
  BY Demanding
<1>2. CommentsDiffer'
  BY DEF MentionsInv, CommentsDiffer
<1>3. \A u : M!Unread(u)' = M!Unread(u)
  BY DEF M!Unread
<1>4. /\ badge' = [u \in Users |-> badge'[u]] /\ untold' = untold \ users
      /\ \A u \in Users : badge'[u] = IF u \in users THEN M!Cardinality(M!Unread(u)) ELSE badge[u]
  BY DEF M!Announce
<1>5. BadgesAreComing'
  <2>1. SUFFICES ASSUME NEW u \in Users \ untold', badge'[u] # M!Cardinality(M!Unread(u))
                 PROVE  \E p \in Handlers : WillTell(demand'[p], u)
    BY <1>3 DEF BadgesAreComing
  <2>2. u \notin users /\ u \notin untold /\ badge'[u] = badge[u]
    BY <1>4, <2>1
  <2>3. PICK p \in Handlers : WillTell(demand[p], u)
    BY <2>1, <2>2 DEF MentionsInv, BadgesAreComing
  <2>4. p # q
    BY <2>2, <2>3
  <2>5. demand'[p] = demand[p]
    BY <1>1, <2>4
  <2> QED BY <2>3, <2>5
<1>6. StaleIsGone'
  <2>1. \A p \in Handlers : demand'[p].sent \subseteq expired
    BY <1>1 DEF MentionsInv, StaleIsGone
  <2> QED BY <2>1 DEF StaleIsGone, MentionsInv, M!deviceVars
<1>7. EndpointsDiffer'
  BY DEF MentionsInv, EndpointsDiffer, M!deviceVars
<1> QED BY <1>1, <1>2, <1>4, <1>5, <1>6, <1>7 DEF MentionsInv
(* Records after one field or more got new values.                         *)
LEMMA DemandChange ==
    ASSUME NEW r, IsDemand(r), NEW step
    PROVE  /\ IsDemand([r EXCEPT !.step = step]) /\ [r EXCEPT !.step = step].step = step
           /\ [r EXCEPT !.step = step].user = r.user /\ [r EXCEPT !.step = step].mentions = r.mentions
           /\ [r EXCEPT !.step = step].sent = r.sent /\ [r EXCEPT !.step = step].ids = r.ids
<1>1. PICK u, i, m, d, e : r = [step |-> r.step, user |-> u, id |-> i, mentions |-> m, ids |-> d, sent |-> e]
  BY DEF IsDemand
<1>2. r.user = u /\ r.mentions = m /\ r.sent = e /\ r.ids = d
  BY <1>1
<1>3. PICK s : s = [r EXCEPT !.step = step]
  OBVIOUS
<1>4. s = [step |-> step, user |-> u, id |-> i, mentions |-> m, ids |-> d, sent |-> e]
  BY <1>1, <1>3
<1>5. IsDemand(s) /\ s.step = step /\ s.user = u /\ s.mentions = m /\ s.sent = e /\ s.ids = d
  BY <1>4 DEF IsDemand
<1> QED BY <1>2, <1>3, <1>5

LEMMA IdleHandler ==
    ASSUME NEW q \in Handlers, MentionsInv,
           demand[q].step \in {"idle", "insert", "delete", "mark", "dispatch", "push"}
    PROVE  Untold(q)
  BY DEF Untold, WillTell

LEMMA Commenting ==
    ASSUME MentionsInv, NEW q \in Handlers, NEW u, NEW m, M!Comment(q, u, m)
    PROVE  MentionsInv'
<1>1. PICK a : a = [M!Idle EXCEPT !.step = "insert"]
  OBVIOUS
<1>2. PICK b : b = [a EXCEPT !.user = u]
  OBVIOUS
<1>3. PICK c : c = [M!Idle EXCEPT !.step = "insert", !.user = u, !.mentions = m]
  OBVIOUS
<1>4. c = [b EXCEPT !.mentions = m]
  BY <1>1, <1>2, <1>3
<1>5. M!Idle = [step |-> "idle", user |-> M!Idle.user, id |-> 0, mentions |-> {}, ids |-> {}, sent |-> {}]
  BY DEF M!Idle
<1>6. b = [step |-> "insert", user |-> u, id |-> 0, mentions |-> {}, ids |-> {}, sent |-> {}]
  <2>1. PICK v : v = M!Idle.user
    OBVIOUS
  <2>2. a = [step |-> "insert", user |-> v, id |-> 0, mentions |-> {}, ids |-> {}, sent |-> {}]
    BY <1>1, <1>5, <2>1
  <2> QED BY <1>2, <2>2
<1>7. c = [step |-> "insert", user |-> u, id |-> 0, mentions |-> m, ids |-> {}, sent |-> {}]
  BY <1>4, <1>6
<1>8. IsDemand(c) /\ c.sent = {}
  BY <1>7 DEF IsDemand
<1>9. M!Become(q, c) /\ demand[q].step = "idle" /\ UNCHANGED <<comments, lastId, reads, badge, untold>>
      /\ UNCHANGED M!deviceVars
  BY <1>3 DEF M!Comment
<1>10. UNCHANGED <<subscriptions, expired, pruned>>
  BY <1>9 DEF M!deviceVars
<1> QED BY <1>8, <1>9, <1>10, IdleHandler, HandlerGoesOn DEF MentionsInv, StaleIsGone

LEMMA Inserting ==
    ASSUME MentionsInv, NEW q \in Handlers, M!InsertComment(q)
    PROVE  MentionsInv'
<1>1. IsDemand(demand[q]) /\ demand[q].sent \subseteq expired
  BY DEF MentionsInv, StaleIsGone
<1>2. PICK r : r = [demand[q] EXCEPT !.step = "announce"]
  OBVIOUS
<1>3. IsDemand(r) /\ r.step = "announce" /\ r.mentions = demand[q].mentions /\ r.sent = demand[q].sent
  BY <1>1, <1>2, DemandChange
<1>4. PICK c : c = [id |-> lastId + 1, author |-> demand[q].user, mentions |-> demand[q].mentions]
  OBVIOUS
<1>5. c.id = lastId + 1 /\ c.mentions = demand[q].mentions
  BY <1>4
<1>6. M!Become(q, r) /\ demand[q].step = "insert" /\ UNCHANGED <<reads, badge, untold>>
      /\ UNCHANGED M!deviceVars /\ lastId' = lastId + 1 /\ comments' = comments \union {c}
  BY <1>2, <1>4 DEF M!InsertComment
<1>7. /\ demand' = [p \in Handlers |-> demand'[p]]
      /\ \A p \in Handlers : IsDemand(demand'[p])
      /\ demand'[q] = r /\ \A p \in Handlers \ {q} : demand'[p] = demand[p]
  BY <1>3, <1>6, Demanding
<1>8. CommentsDiffer'
  <2>1. PICK n \in Nat : n = lastId
    BY DEF MentionsInv, CommentsDiffer
  <2>2. \A d \in comments : d.id \in 1 .. n
    BY <2>1 DEF MentionsInv, CommentsDiffer
  <2>3. n + 1 \in Nat /\ n + 1 \in 1 .. (n + 1) /\ \A i \in 1 .. n : i \in 1 .. (n + 1) /\ i # n + 1
    BY <2>1
  <2>4. lastId' = n + 1 /\ c.id = n + 1
    BY <1>5, <1>6, <2>1
  <2>5. \A d \in comments' : d.id \in 1 .. (n + 1)
    BY <1>6, <2>2, <2>3, <2>4
  <2>6. \A d, e \in comments' : d.id = e.id => d = e
    BY <1>6, <2>2, <2>3, <2>4 DEF MentionsInv, CommentsDiffer
  <2> QED BY <2>3, <2>4, <2>5, <2>6 DEF CommentsDiffer
<1>9. BadgesAreComing'
  <2>1. SUFFICES ASSUME NEW u \in Users \ untold, badge[u] # M!Cardinality(M!Unread(u)')
                 PROVE  \E p \in Handlers : WillTell(demand'[p], u)
    BY <1>6 DEF BadgesAreComing
  <2>2. CASE u \in c.mentions
    BY <1>3, <1>5, <1>7, <2>2 DEF WillTell
  <2>3. CASE u \notin c.mentions
    <3>1. M!Unread(u)' = M!Unread(u)
      BY <1>6, <2>3 DEF M!Unread
    <3>2. PICK p \in Handlers : WillTell(demand[p], u)
      BY <2>1, <3>1 DEF MentionsInv, BadgesAreComing
    <3>3. p # q
      BY <1>6, <3>2 DEF WillTell
    <3>4. demand'[p] = demand[p]
      BY <1>7, <3>3
    <3> QED BY <3>2, <3>4
  <2> QED BY <2>2, <2>3
<1>10. StaleIsGone'
  <2>1. \A p \in Handlers : demand'[p].sent \subseteq expired
    BY <1>1, <1>3, <1>7 DEF MentionsInv, StaleIsGone
  <2> QED BY <1>6, <2>1 DEF StaleIsGone, MentionsInv, M!deviceVars
<1>11. EndpointsDiffer' /\ badge' = [u \in Users |-> badge'[u]]
  BY <1>6 DEF MentionsInv, EndpointsDiffer, M!deviceVars
<1> QED BY <1>7, <1>8, <1>9, <1>10, <1>11 DEF MentionsInv

LEMMA AnnouncingComment ==
    ASSUME MentionsInv, NEW q \in Handlers, M!AnnounceComment(q)
    PROVE  MentionsInv'
<1>1. IsDemand(demand[q]) /\ demand[q].sent \subseteq expired
  BY DEF MentionsInv, StaleIsGone
<1>2. PICK m : m = demand[q].mentions \ {demand[q].user}
  OBVIOUS
<1>3. PICK a : a = [demand[q] EXCEPT !.step = "dispatch"]
  OBVIOUS
<1>4. PICK b : b = [demand[q] EXCEPT !.step = "dispatch", !.mentions = m]
  OBVIOUS
<1>5. b = [a EXCEPT !.mentions = m]
  BY <1>3, <1>4
<1>6. IsDemand(b) /\ b.sent = demand[q].sent
  <2>1. PICK s, u, i, n, d, e :
           demand[q] = [step |-> s, user |-> u, id |-> i, mentions |-> n, ids |-> d, sent |-> e]
    BY <1>1 DEF IsDemand
  <2>2. demand[q].sent = e
    BY <2>1
  <2>3. a = [step |-> "dispatch", user |-> u, id |-> i, mentions |-> n, ids |-> d, sent |-> e]
    BY <1>3, <2>1
  <2>4. b = [step |-> "dispatch", user |-> u, id |-> i, mentions |-> m, ids |-> d, sent |-> e]
    BY <1>5, <2>3
  <2> QED BY <2>2, <2>4 DEF IsDemand
<1>7. PICK r : r = IF m = {} THEN M!Idle ELSE b
  OBVIOUS
<1>8. IsDemand(r) /\ r.sent \subseteq expired
  BY <1>1, <1>6, <1>7, IdleTellsNobody
<1>9. /\ demand[q].step = "announce" /\ M!Announce(demand[q].mentions)
      /\ UNCHANGED <<comments, lastId, reads>> /\ UNCHANGED M!deviceVars
  BY DEF M!AnnounceComment
<1>10. M!Become(q, r)
  BY <1>2, <1>4, <1>7 DEF M!AnnounceComment, M!Done
<1>11. \A u \in Users : WillTell(demand[q], u) => u \in demand[q].mentions
  BY <1>9 DEF WillTell
<1> QED BY <1>8, <1>9, <1>10, <1>11, Announcing
LEMMA Finding ==
    ASSUME MentionsInv, NEW q \in Handlers, NEW c, NEW found, M!FindComment(q, c, found)
    PROVE  MentionsInv'
<1>1. PICK m : m = IF found THEN c.mentions ELSE {}
  OBVIOUS
<1>2. PICK x : x = [M!Idle EXCEPT !.step = "delete"]
  OBVIOUS
<1>3. PICK y : y = [x EXCEPT !.user = c.author]
  OBVIOUS
<1>4. PICK z : z = [y EXCEPT !.id = c.id]
  OBVIOUS
<1>5. PICK r : r = [M!Idle EXCEPT !.step = "delete", !.user = c.author, !.id = c.id, !.mentions = m]
  OBVIOUS
<1>6. r = [z EXCEPT !.mentions = m]
  BY <1>2, <1>3, <1>4, <1>5
<1>7. IsDemand(r) /\ r.sent = {}
  <2>1. PICK v : v = M!Idle.user
    OBVIOUS
  <2>2. PICK u, i : u = c.author /\ i = c.id
    OBVIOUS
  <2>3. M!Idle = [step |-> "idle", user |-> v, id |-> 0, mentions |-> {}, ids |-> {}, sent |-> {}]
    BY <2>1 DEF M!Idle
  <2>4. x = [step |-> "delete", user |-> v, id |-> 0, mentions |-> {}, ids |-> {}, sent |-> {}]
    BY <1>2, <2>3
  <2>5. y = [step |-> "delete", user |-> u, id |-> 0, mentions |-> {}, ids |-> {}, sent |-> {}]
    BY <1>3, <2>2, <2>4
  <2>6. z = [step |-> "delete", user |-> u, id |-> i, mentions |-> {}, ids |-> {}, sent |-> {}]
    BY <1>4, <2>2, <2>5
  <2>7. r = [step |-> "delete", user |-> u, id |-> i, mentions |-> m, ids |-> {}, sent |-> {}]
    BY <1>6, <2>6
  <2> QED BY <2>7 DEF IsDemand
<1>8. /\ M!Become(q, r) /\ demand[q].step = "idle"
      /\ UNCHANGED <<comments, lastId, reads, badge, untold>> /\ UNCHANGED M!deviceVars
  BY <1>1, <1>5 DEF M!FindComment
<1>9. UNCHANGED <<subscriptions, expired, pruned>>
  BY <1>8 DEF M!deviceVars
<1> QED BY <1>7, <1>8, <1>9, IdleHandler, HandlerGoesOn DEF MentionsInv, StaleIsGone

(* Whom the comment mentions is told later, or has changed unannounced;    *)
(* the others have lost none of theirs.                                    *)
LEMMA Deleting ==
    ASSUME MentionsInv, NEW q \in Handlers, M!DeleteComment(q)
    PROVE  MentionsInv'
<1> DEFINE gone == {c \in comments : c.id = demand[q].id}
<1>1. IsDemand(demand[q]) /\ demand[q].sent \subseteq expired
  BY DEF MentionsInv, StaleIsGone
<1>2. PICK s : s = [demand[q] EXCEPT !.step = "deleted"]
  OBVIOUS
<1>3. IsDemand(s) /\ s.step = "deleted" /\ s.mentions = demand[q].mentions /\ s.sent = demand[q].sent
  BY <1>1, <1>2, DemandChange
<1>4. PICK r : r = IF gone = {} THEN M!Idle ELSE s
  OBVIOUS
<1>5. IsDemand(r) /\ r.sent \subseteq expired
  BY <1>1, <1>3, <1>4, IdleTellsNobody
<1>6. M!Become(q, r)
  BY <1>2, <1>4 DEF M!DeleteComment, M!Done
<1>7. /\ demand[q].step = "delete" /\ comments' = comments \ gone
      /\ reads' = IF gone = {} THEN reads ELSE {x \in reads : x[2] # demand[q].id}
      /\ untold' = untold \union ((UNION {c.mentions : c \in gone}) \ demand[q].mentions)
      /\ UNCHANGED <<lastId, badge>> /\ UNCHANGED M!deviceVars
  BY DEF M!DeleteComment
<1>8. /\ demand' = [p \in Handlers |-> demand'[p]]
      /\ \A p \in Handlers : IsDemand(demand'[p])
      /\ demand'[q] = r /\ \A p \in Handlers \ {q} : demand'[p] = demand[p]
  BY <1>5, <1>6, Demanding
<1>9. CommentsDiffer'
  <2>1. comments' \subseteq comments /\ lastId' = lastId
    BY <1>7
  <2> QED BY <2>1 DEF MentionsInv, CommentsDiffer
<1>10. BadgesAreComing'
  <2>1. SUFFICES ASSUME NEW u \in Users \ untold', badge[u] # M!Cardinality(M!Unread(u)')
                 PROVE  \E p \in Handlers : WillTell(demand'[p], u)
    BY <1>7 DEF BadgesAreComing
  <2>2. CASE \E c \in gone : u \in c.mentions
    <3>1. PICK c \in gone : u \in c.mentions
      BY <2>2
    <3>2. u \in demand[q].mentions
      BY <1>7, <2>1, <3>1
    <3>3. r = s
      BY <1>4, <3>1
    <3>4. WillTell(demand'[q], u)
      BY <1>3, <1>8, <3>2, <3>3 DEF WillTell
    <3> QED BY <3>4
  <2>3. CASE ~\E c \in gone : u \in c.mentions
    <3>1. M!Unread(u)' = M!Unread(u)
      <4>1. \A c \in comments \ gone : <<u, c.id>> \in reads' <=> <<u, c.id>> \in reads
        BY <1>7
      <4>2. M!Unread(u)' = {c \in comments \ gone : u \in c.mentions /\ <<u, c.id>> \notin reads'}
        BY <1>7 DEF M!Unread
      <4>3. M!Unread(u) = {c \in comments : u \in c.mentions /\ <<u, c.id>> \notin reads}
        BY DEF M!Unread
      <4> HIDE DEF gone
      <4> QED BY <2>3, <4>1, <4>2, <4>3
    <3>2. u \notin untold
      BY <1>7, <2>1
    <3>3. PICK p \in Handlers : WillTell(demand[p], u)
      BY <2>1, <3>1, <3>2 DEF MentionsInv, BadgesAreComing
    <3>4. p # q
      BY <1>7, <3>3 DEF WillTell
    <3>5. demand'[p] = demand[p]
      BY <1>8, <3>4
    <3> QED BY <3>3, <3>5
  <2> QED BY <2>2, <2>3
<1>11. StaleIsGone'
  <2>1. \A p \in Handlers : demand'[p].sent \subseteq expired
    BY <1>5, <1>8 DEF MentionsInv, StaleIsGone
  <2> QED BY <1>7, <2>1 DEF StaleIsGone, MentionsInv, M!deviceVars
<1>12. EndpointsDiffer' /\ badge' = [u \in Users |-> badge'[u]]
  BY <1>7 DEF MentionsInv, EndpointsDiffer, M!deviceVars
<1> QED BY <1>8, <1>9, <1>10, <1>11, <1>12 DEF MentionsInv

LEMMA AnnouncingDeletion ==
    ASSUME MentionsInv, NEW q \in Handlers, M!AnnounceDeleted(q)
    PROVE  MentionsInv'
<1>1. /\ demand[q].step = "deleted" /\ M!Announce(M!Told(q)) /\ M!Become(q, M!Idle)
      /\ UNCHANGED <<comments, lastId, reads>> /\ UNCHANGED M!deviceVars
  BY DEF M!AnnounceDeleted, M!Done
<1>2. \A u \in Users : WillTell(demand[q], u) => u \in M!Told(q)
  BY <1>1 DEF WillTell, M!Told
<1>3. M!Idle.sent \subseteq expired
  BY IdleTellsNobody
<1> QED BY <1>1, <1>2, <1>3, IdleTellsNobody, Announcing

LEMMA DeletingJob ==
    ASSUME MentionsInv, M!DeleteJob
    PROVE  MentionsInv'
<1>1. /\ comments' = {} /\ untold' = untold \union {u \in Users : M!Unread(u) # {}}
      /\ UNCHANGED <<lastId, demand, badge>> /\ UNCHANGED M!deviceVars
  BY DEF M!DeleteJob
<1>2. \A u \in Users : M!Unread(u)' = {}
  BY <1>1 DEF M!Unread
<1>3. \A u \in Users \ untold' : M!Unread(u)' = M!Unread(u) /\ u \notin untold
  BY <1>1, <1>2
<1>4. BadgesAreComing'
  BY <1>1, <1>3 DEF MentionsInv, BadgesAreComing
<1>5. CommentsDiffer'
  BY <1>1 DEF MentionsInv, CommentsDiffer
<1>6. StaleIsGone' /\ EndpointsDiffer'
  BY <1>1 DEF MentionsInv, StaleIsGone, EndpointsDiffer, M!deviceVars
<1> QED BY <1>1, <1>4, <1>5, <1>6 DEF MentionsInv

LEMMA Marking ==
    ASSUME MentionsInv, NEW q \in Handlers, NEW u, NEW ids, M!MarkRead(q, u, ids)
    PROVE  MentionsInv'
<1>1. PICK x : x = [M!Idle EXCEPT !.step = "mark"]
  OBVIOUS
<1>2. PICK y : y = [x EXCEPT !.user = u]
  OBVIOUS
<1>3. PICK r : r = [M!Idle EXCEPT !.step = "mark", !.user = u, !.ids = ids]
  OBVIOUS
<1>4. r = [y EXCEPT !.ids = ids]
  BY <1>1, <1>2, <1>3
<1>5. IsDemand(r) /\ r.sent = {}
  <2>1. PICK v : v = M!Idle.user
    OBVIOUS
  <2>2. M!Idle = [step |-> "idle", user |-> v, id |-> 0, mentions |-> {}, ids |-> {}, sent |-> {}]
    BY <2>1 DEF M!Idle
  <2>3. x = [step |-> "mark", user |-> v, id |-> 0, mentions |-> {}, ids |-> {}, sent |-> {}]
    BY <1>1, <2>2
  <2>4. y = [step |-> "mark", user |-> u, id |-> 0, mentions |-> {}, ids |-> {}, sent |-> {}]
    BY <1>2, <2>3
  <2>5. r = [step |-> "mark", user |-> u, id |-> 0, mentions |-> {}, ids |-> ids, sent |-> {}]
    BY <1>4, <2>4
  <2> QED BY <2>5 DEF IsDemand
<1>6. /\ M!Become(q, r) /\ demand[q].step = "idle"
      /\ UNCHANGED <<comments, lastId, reads, badge, untold>> /\ UNCHANGED M!deviceVars
  BY <1>3 DEF M!MarkRead
<1>7. UNCHANGED <<subscriptions, expired, pruned>>
  BY <1>6 DEF M!deviceVars
<1> QED BY <1>5, <1>6, <1>7, IdleHandler, HandlerGoesOn DEF MentionsInv, StaleIsGone

LEMMA InsertingReads ==
    ASSUME MentionsInv, NEW q \in Handlers, M!InsertReads(q)
    PROVE  MentionsInv'
<1>1. IsDemand(demand[q]) /\ demand[q].sent \subseteq expired
  BY DEF MentionsInv, StaleIsGone
<1>2. PICK r : r = [demand[q] EXCEPT !.step = "marked"]
  OBVIOUS
<1>3. IsDemand(r) /\ r.step = "marked" /\ r.user = demand[q].user /\ r.sent = demand[q].sent
  BY <1>1, <1>2, DemandChange
<1>4. /\ M!Become(q, r) /\ demand[q].step = "mark"
      /\ reads' = reads \union {<<demand[q].user, id>> : id \in demand[q].ids}
      /\ UNCHANGED <<comments, lastId, badge, untold>> /\ UNCHANGED M!deviceVars
  BY <1>2 DEF M!InsertReads
<1>5. /\ demand' = [p \in Handlers |-> demand'[p]]
      /\ \A p \in Handlers : IsDemand(demand'[p])
      /\ demand'[q] = r /\ \A p \in Handlers \ {q} : demand'[p] = demand[p]
  BY <1>3, <1>4, Demanding
<1>6. BadgesAreComing'
  <2>1. SUFFICES ASSUME NEW u \in Users \ untold, badge[u] # M!Cardinality(M!Unread(u)')
                 PROVE  \E p \in Handlers : WillTell(demand'[p], u)
    BY <1>4 DEF BadgesAreComing
  <2>2. CASE u = demand[q].user
    BY <1>3, <1>5, <2>2 DEF WillTell
  <2>3. CASE u # demand[q].user
    <3>1. \A c : <<u, c.id>> \in reads' <=> <<u, c.id>> \in reads
      BY <1>4, <2>3
    <3>2. M!Unread(u)' = M!Unread(u)
      BY <1>4, <3>1 DEF M!Unread
    <3>3. PICK p \in Handlers : WillTell(demand[p], u)
      BY <2>1, <3>2 DEF MentionsInv, BadgesAreComing
    <3>4. p # q
      BY <1>4, <3>3 DEF WillTell
    <3>5. demand'[p] = demand[p]
      BY <1>5, <3>4
    <3> QED BY <3>3, <3>5
  <2> QED BY <2>2, <2>3
<1>7. StaleIsGone'
  <2>1. \A p \in Handlers : demand'[p].sent \subseteq expired
    BY <1>1, <1>3, <1>5 DEF MentionsInv, StaleIsGone
  <2> QED BY <1>4, <2>1 DEF StaleIsGone, MentionsInv, M!deviceVars
<1>8. EndpointsDiffer' /\ CommentsDiffer' /\ badge' = [u \in Users |-> badge'[u]]
  BY <1>4 DEF MentionsInv, EndpointsDiffer, CommentsDiffer, M!deviceVars
<1> QED BY <1>5, <1>6, <1>7, <1>8 DEF MentionsInv

LEMMA AnnouncingReads ==
    ASSUME MentionsInv, NEW q \in Handlers, M!AnnounceRead(q)
    PROVE  MentionsInv'
<1>1. /\ demand[q].step = "marked" /\ M!Announce({demand[q].user}) /\ M!Become(q, M!Idle)
      /\ UNCHANGED <<comments, lastId, reads>> /\ UNCHANGED M!deviceVars
  BY DEF M!AnnounceRead, M!Done
<1>2. \A u \in Users : WillTell(demand[q], u) => u \in {demand[q].user}
  BY <1>1 DEF WillTell
<1>3. M!Idle.sent \subseteq expired
  BY IdleTellsNobody
<1> QED BY <1>1, <1>2, <1>3, IdleTellsNobody, Announcing
-----------------------------------------------------------------------------
(* A device keeps or loses its subscription; nothing is announced.         *)
LEMMA DevicesChange ==
    ASSUME MentionsInv, M!CommentsUnchanged, UNCHANGED <<demand, pruned>>, expired \subseteq expired',
           EndpointsDiffer'
    PROVE  MentionsInv'
<1>1. UNCHANGED <<comments, lastId, reads, badge, untold>>
  BY DEF M!CommentsUnchanged
<1>2. \A u : M!Unread(u)' = M!Unread(u)
  BY <1>1 DEF M!Unread
<1>3. BadgesAreComing'
  BY <1>1, <1>2 DEF MentionsInv, BadgesAreComing
<1>4. CommentsDiffer' /\ StaleIsGone'
  BY <1>1 DEF MentionsInv, CommentsDiffer, StaleIsGone
<1> QED BY <1>1, <1>3, <1>4 DEF MentionsInv

LEMMA Subscribing ==
    ASSUME MentionsInv, NEW u, NEW e, M!Subscribe(u, e)
    PROVE  MentionsInv'
<1>1. PICK row : row = [endpoint |-> e, user |-> u, at |-> lastSave + 1]
  OBVIOUS
<1>2. row.endpoint = e
  BY <1>1
<1>3. PICK mine : mine = {s \in {t \in subscriptions : t.endpoint # e} : s.user = u}
  OBVIOUS
<1>4. M!Newest(mine) \subseteq mine
  BY DEF M!Newest
<1>5. subscriptions' = {row} \union ({s \in subscriptions : s.endpoint # e} \ mine) \union M!Newest(mine)
  BY <1>1, <1>3 DEF M!Subscribe
<1>6. \A s \in subscriptions' : s = row \/ (s \in subscriptions /\ s.endpoint # e)
  BY <1>3, <1>4, <1>5
<1>7. EndpointsDiffer'
  <2>1. \A s, t \in subscriptions : s.endpoint = t.endpoint => s = t
    BY DEF MentionsInv, EndpointsDiffer
  <2>2. \A s, t \in subscriptions' : s.endpoint = t.endpoint => s = t
    BY <1>2, <1>6, <2>1
  <2> QED BY <2>2 DEF EndpointsDiffer
<1>8. M!CommentsUnchanged /\ UNCHANGED <<demand, expired, pruned>>
  BY DEF M!Subscribe
<1> QED BY <1>7, <1>8, DevicesChange

LEMMA Leaving ==
    ASSUME MentionsInv, (\E s \in subscriptions : M!Unsubscribe(s)) \/ (\E e \in Endpoints : M!Expire(e))
    PROVE  MentionsInv'
<1>1. /\ M!CommentsUnchanged /\ UNCHANGED <<demand, pruned>> /\ expired \subseteq expired'
      /\ subscriptions' \subseteq subscriptions
  BY DEF M!Unsubscribe, M!Expire
<1>2. EndpointsDiffer'
  BY <1>1 DEF MentionsInv, EndpointsDiffer
<1> QED BY <1>1, <1>2, DevicesChange

LEMMA ReadingSubscriptions ==
    ASSUME MentionsInv, NEW q \in Handlers, M!ReadSubscriptions(q)
    PROVE  MentionsInv'
<1>1. IsDemand(demand[q]) /\ demand[q].sent \subseteq expired
  BY DEF MentionsInv, StaleIsGone
<1>2. PICK ids : ids = {s.endpoint : s \in UNION {M!Of(u) : u \in demand[q].mentions}}
  OBVIOUS
<1>3. PICK a : a = [demand[q] EXCEPT !.step = "push"]
  OBVIOUS
<1>4. PICK r : r = [demand[q] EXCEPT !.step = "push", !.ids = ids]
  OBVIOUS
<1>5. r = [a EXCEPT !.ids = ids]
  BY <1>3, <1>4
<1>6. IsDemand(r) /\ r.sent = demand[q].sent
  <2>1. PICK s, u, i, m, d, e :
           demand[q] = [step |-> s, user |-> u, id |-> i, mentions |-> m, ids |-> d, sent |-> e]
    BY <1>1 DEF IsDemand
  <2>2. demand[q].sent = e
    BY <2>1
  <2>3. a = [step |-> "push", user |-> u, id |-> i, mentions |-> m, ids |-> d, sent |-> e]
    BY <1>3, <2>1
  <2>4. r = [step |-> "push", user |-> u, id |-> i, mentions |-> m, ids |-> ids, sent |-> e]
    BY <1>5, <2>3
  <2> QED BY <2>2, <2>4 DEF IsDemand
<1>7. M!Become(q, r) /\ demand[q].step = "dispatch" /\ M!CommentsUnchanged /\ UNCHANGED M!deviceVars
  BY <1>2, <1>4 DEF M!ReadSubscriptions
<1>8. UNCHANGED <<comments, lastId, reads, badge, untold, subscriptions, expired, pruned>>
  BY <1>7 DEF M!CommentsUnchanged, M!deviceVars
<1> QED BY <1>1, <1>6, <1>7, <1>8, IdleHandler, HandlerGoesOn DEF MentionsInv, StaleIsGone

(* Only an endpoint that is gone is remembered.                            *)
LEMMA Pushing ==
    ASSUME MentionsInv, NEW q \in Handlers, NEW e, NEW reached \in BOOLEAN, M!Push(q, e, reached)
    PROVE  MentionsInv'
<1>1. IsDemand(demand[q]) /\ demand[q].sent \subseteq expired
  BY DEF MentionsInv, StaleIsGone
<1>2. PICK ids : ids = demand[q].ids \ {e}
  OBVIOUS
<1>3. PICK sent : sent = IF M!Stale(e, reached) THEN demand[q].sent \union {e} ELSE demand[q].sent
  OBVIOUS
<1>4. PICK a : a = [demand[q] EXCEPT !.ids = ids]
  OBVIOUS
<1>5. PICK r : r = [demand[q] EXCEPT !.ids = ids, !.sent = sent]
  OBVIOUS
<1>6. r = [a EXCEPT !.sent = sent]
  BY <1>4, <1>5
<1>7. IsDemand(r) /\ r.sent = sent
  <2>1. PICK s, u, i, m, d, f :
           demand[q] = [step |-> s, user |-> u, id |-> i, mentions |-> m, ids |-> d, sent |-> f]
    BY <1>1 DEF IsDemand
  <2>2. a = [step |-> s, user |-> u, id |-> i, mentions |-> m, ids |-> ids, sent |-> f]
    BY <1>4, <2>1
  <2>3. r = [step |-> s, user |-> u, id |-> i, mentions |-> m, ids |-> ids, sent |-> sent]
    BY <1>6, <2>2
  <2> QED BY <2>3 DEF IsDemand
<1>8. sent \subseteq expired
  BY <1>1, <1>3 DEF M!Stale
<1>9. M!Become(q, r)
  BY <1>2, <1>3, <1>5 DEF M!Push
<1>10. demand[q].step = "push" /\ M!CommentsUnchanged /\ UNCHANGED M!deviceVars
  BY DEF M!Push
<1>11. UNCHANGED <<comments, lastId, reads, badge, untold, subscriptions, expired, pruned>>
  BY <1>10 DEF M!CommentsUnchanged, M!deviceVars
<1> QED BY <1>7, <1>8, <1>9, <1>10, <1>11, IdleHandler, HandlerGoesOn DEF MentionsInv, StaleIsGone

LEMMA Pruning ==
    ASSUME MentionsInv, NEW q \in Handlers, M!Prune(q)
    PROVE  MentionsInv'
<1>1. demand[q].sent \subseteq expired /\ \A s \in pruned : s.endpoint \in expired
  BY DEF MentionsInv, StaleIsGone
<1>2. PICK stale : stale = {s \in subscriptions : s.endpoint \in demand[q].sent}
  OBVIOUS
<1>3. /\ M!Become(q, M!Idle) /\ demand[q].step = "push" /\ M!CommentsUnchanged
      /\ subscriptions' = subscriptions \ stale /\ pruned' = pruned \union stale /\ UNCHANGED expired
  BY <1>2 DEF M!Prune, M!Done
<1>4. \A s \in pruned' : s.endpoint \in expired
  BY <1>1, <1>2, <1>3
<1>5. UNCHANGED <<comments, lastId, reads, badge, untold, expired>> /\ subscriptions' \subseteq subscriptions
  BY <1>3 DEF M!CommentsUnchanged
<1>6. M!Idle.sent \subseteq expired
  BY IdleTellsNobody
<1> QED BY <1>3, <1>4, <1>5, <1>6, IdleTellsNobody, IdleHandler, HandlerGoesOn

LEMMA MentionsBegin == M!Init => MentionsInv
<1>1. SUFFICES ASSUME M!Init PROVE MentionsInv
  OBVIOUS
<1>2. /\ comments = {} /\ lastId = 0 /\ demand = [q \in Handlers |-> M!Idle]
      /\ badge = [u \in Users |-> 0] /\ subscriptions = {} /\ pruned = {}
  BY <1>1 DEF M!Init
<1>3. \A u \in Users : M!Cardinality(M!Unread(u)) = 0
  <2>1. \A u \in Users : M!Unread(u) = {}
    BY <1>2 DEF M!Unread
  <2>2. M!Cardinality({}) = Cardinality({})
    BY DEF M!Cardinality, Cardinality
  <2> QED BY <2>1, <2>2, FS_EmptySet
<1>4. \A q \in Handlers : demand[q] = M!Idle
  BY <1>2
<1>5. CommentsDiffer /\ StaleIsGone /\ EndpointsDiffer
  BY <1>2, <1>4, IdleTellsNobody DEF CommentsDiffer, StaleIsGone, EndpointsDiffer
<1>6. BadgesAreComing
  BY <1>2, <1>3 DEF BadgesAreComing
<1> QED BY <1>2, <1>4, <1>5, <1>6, IdleTellsNobody DEF MentionsInv

LEMMA MentionsStay == MentionsInv /\ UNCHANGED mentionVars => MentionsInv'
<1>1. SUFFICES ASSUME MentionsInv, UNCHANGED mentionVars PROVE MentionsInv'
  OBVIOUS
<1>2. UNCHANGED <<demand, pruned, expired, subscriptions>> /\ M!CommentsUnchanged
  BY <1>1 DEF mentionVars, M!CommentsUnchanged
<1>3. EndpointsDiffer'
  BY <1>1, <1>2 DEF MentionsInv, EndpointsDiffer
<1> QED BY <1>1, <1>2, <1>3, DevicesChange

LEMMA MentionsMove == MentionsInv /\ M!Next => MentionsInv'
<1>1. SUFFICES ASSUME MentionsInv, M!Next PROVE MentionsInv'
  OBVIOUS
<1>2. ASSUME NEW q \in Handlers, NEW u \in Users, NEW m \in SUBSET Users, M!Comment(q, u, m)
      PROVE  MentionsInv'
  BY <1>1, <1>2, Commenting
<1>3. ASSUME NEW q \in Handlers,
             \/ M!InsertComment(q) \/ M!AnnounceComment(q) \/ M!DeleteComment(q) \/ M!AnnounceDeleted(q)
             \/ M!InsertReads(q) \/ M!AnnounceRead(q) \/ M!ReadSubscriptions(q) \/ M!Prune(q)
      PROVE  MentionsInv'
  BY <1>1, <1>3, Inserting, AnnouncingComment, Deleting, AnnouncingDeletion, InsertingReads,
     AnnouncingReads, ReadingSubscriptions, Pruning
<1>4. ASSUME NEW q \in Handlers, NEW c \in comments, NEW found \in BOOLEAN, M!FindComment(q, c, found)
      PROVE  MentionsInv'
  BY <1>1, <1>4, Finding
<1>5. ASSUME NEW q \in Handlers, NEW u \in Users, NEW ids, M!MarkRead(q, u, ids)
      PROVE  MentionsInv'
  BY <1>1, <1>5, Marking
<1>6. ASSUME NEW q \in Handlers, NEW e \in Endpoints, NEW reached \in BOOLEAN, M!Push(q, e, reached)
      PROVE  MentionsInv'
  BY <1>1, <1>6, Pushing
<1>7. ASSUME NEW u \in Users, NEW e \in Endpoints, M!Subscribe(u, e)
      PROVE  MentionsInv'
  BY <1>1, <1>7, Subscribing
<1> QED BY <1>1, <1>2, <1>3, <1>4, <1>5, <1>6, <1>7, DeletingJob, Leaving DEF M!Next

(* At rest nobody is about to tell anybody: the badges count.              *)
LEMMA MentionsCount == MentionsInv => M!BadgesCount /\ M!SubscriptionsAreKept
<1>1. SUFFICES ASSUME MentionsInv PROVE M!BadgesCount /\ M!SubscriptionsAreKept
  OBVIOUS
<1>2. M!BadgesCount
  <2>1. SUFFICES ASSUME \A q \in Handlers : demand[q].step \in {"idle", "dispatch", "push"},
                        NEW u \in Users \ untold
                 PROVE  badge[u] = M!Cardinality(M!Unread(u))
    BY DEF M!BadgesCount
  <2>2. \A q \in Handlers : ~WillTell(demand[q], u)
    BY <2>1 DEF WillTell
  <2> QED BY <1>1, <2>1, <2>2 DEF MentionsInv, BadgesAreComing
<1>3. M!SubscriptionsAreKept
  BY <1>1 DEF MentionsInv, StaleIsGone, EndpointsDiffer, M!SubscriptionsAreKept
<1> QED BY <1>2, <1>3

-----------------------------------------------------------------------------
(* Whichever part moves, connections look at what they have to look at, a  *)
(* payload is in one place or counted as lost, and badges count or are     *)
(* about to.                                                               *)
ClientsInv == StreamsInv /\ BroadcastInv /\ MentionsInv

THEOREM ClientsInvariance ==
    ASSUME B!QueueAssumption
    PROVE  SuiteSpec => []ClientsInv
<1>1. SuiteInit => ClientsInv
  BY StreamsBegin, BroadcastBegins, MentionsBegin DEF SuiteInit, ClientsInit, ClientsInv
<1>2. ClientsInv /\ [SuiteNext /\ UNCHANGED moves]_<<moves, vars, settingVars, others>> => ClientsInv'
  <2>1. SUFFICES ASSUME ClientsInv,
                        [SuiteNext /\ UNCHANGED moves]_<<moves, vars, settingVars, others>>
                 PROVE  ClientsInv'
    OBVIOUS
  <2>2. /\ S!Next \/ UNCHANGED streamVars
        /\ B!Next \/ UNCHANGED broadcastVars
        /\ M!Next \/ UNCHANGED mentionVars
    BY <2>1 DEF SuiteNext, ClientsNext, others, clientVars
  <2> QED BY <2>1, <2>2, StreamsMove, StreamsStay, BroadcastMoves, BroadcastStays, MentionsMove,
             MentionsStay DEF ClientsInv
<1> QED BY <1>1, <1>2, PTL DEF SuiteSpec

(* A connection that waits shows what the database says, a subscriber that *)
(* caught up got every payload once or was told of the gap, badges count   *)
(* what is unread, and a device is dropped only when it is gone: for any   *)
(* producers, handlers, users, devices and sizes of the queue.             *)
THEOREM ClientsStayTold ==
    ASSUME B!QueueAssumption
    PROVE  SuiteSpec => []ClientsAreTold
<1>1. ClientsInv => ClientsAreTold
  BY StreamsSettle, NothingLostNow, MentionsCount DEF ClientsInv, ClientsAreTold
<1> QED BY <1>1, ClientsInvariance, PTL
=============================================================================
