--------------------------- MODULE JobChatProofs ---------------------------
(***************************************************************************)
(* Handlers of one user exclude each other, an answer that failed stays    *)
(* failed, a Clear spares what is newer, and a deletion leaves no files    *)
(* behind, for any users, handlers, locks and bounds.                      *)
(***************************************************************************)
EXTENDS JobChat, TLAPS, FiniteSetTheorems

Kinds == {"start", "send", "turn", "clear"}
TaskType == [pc : PCs, kind : Kinds, user : Users, row : 0..MaxRows, session : 0..MaxSessions,
             lock : Locks \union {NoLock}, barrier : Locks \union {NoLock}, cancelled : BOOLEAN]
LockType == [holder : Tasks \union {Nobody, Deleter}, queue : Seq(Tasks \union {Deleter})]

(* The types of the variables. *)
TasksTyped == task \in [Tasks -> TaskType]
LocksTyped == lock \in [Locks -> LockType]
RegistriesTyped ==
    /\ userLock \in [Users -> Locks \union {NoLock}] /\ refs \in [Users -> Nat]
    /\ barrier \in Locks \union {NoLock}
RowsTyped == rows \subseteq RowType /\ lastRow \in 0..MaxRows /\ lastSession \in 0..MaxSessions
AbortsTyped ==
    /\ signal \in [Users -> Nat] /\ aborts \in 0..MaxAborts
    /\ abort \in [pc : {"idle", "read", "mark"}, user : Users, pending : SUBSET (1..MaxRows)]
RestTyped ==
    /\ job \in BOOLEAN /\ deleting \in BOOLEAN /\ tracked \subseteq Tasks
    /\ deletion \in [pc : {"none", "unlink", "gather", "barrier", "clean", "done"},
                     barrier : Locks \union {NoLock}]
    /\ files \subseteq Users /\ detached \subseteq Users
Typed == TasksTyped /\ LocksTyped /\ RegistriesTyped /\ RowsTyped /\ AbortsTyped /\ RestTyped

-----------------------------------------------------------------------------
(* A handler holds its user's lock or waits for it. *)
Engaged(t) == task[t].pc \notin {"idle", "queued", "unwinding"}
EngagedOf(u) == {t \in Tasks : task[t].user = u /\ Engaged(t)}

(* t is inside `async with` of the barrier as well. *)
InBarrier(t) == \/ task[t].kind = "start" /\ task[t].pc \in {"look", "choose"}
                \/ task[t].kind = "turn" /\ task[t].pc \in {"look", "prep"}

(* The lock of a handler is the one that is registered for its user, and   *)
(* nobody else holds it while the handler works.                           *)
HeldOK ==
    \A t \in Tasks :
        /\ Engaged(t) => task[t].lock # NoLock /\ userLock[task[t].user] = task[t].lock
        /\ InSection(t) => lock[task[t].lock].holder = t
        /\ task[t].pc = "barrier" => task[t].barrier \in Locks
        /\ InBarrier(t) => /\ task[t].barrier \in Locks /\ task[t].barrier # task[t].lock
                           /\ lock[task[t].barrier].holder = t

(* The registry counts the handlers that hold the lock or wait for it.     *)
RefsOK == \A u \in Users : IsFiniteSet(EngagedOf(u)) /\ refs[u] = Cardinality(EngagedOf(u))

(* What a handler does at each point.                                      *)
AtPoint(q) ==
    /\ q.kind = "start" => q.pc \in {"idle", "lock", "barrier", "look", "choose", "prep", "create", "save"}
    /\ q.kind = "send" => q.pc \in {"lock", "send", "pair", "queued"}
    /\ q.kind = "turn" => q.pc \in {"lock", "barrier", "look", "prep", "asking", "status", "complete", "close",
                                    "failing", "unwinding"}
    /\ q.kind = "clear" => q.pc \in {"lock", "version", "wipe", "swept"}

(* The deletion can cancel whoever is tracked: a Start or a turn.          *)
ControlOK ==
    \A t \in Tasks :
        /\ AtPoint(task[t])
        /\ t \in tracked \/ task[t].cancelled => task[t].kind \in {"start", "turn"} /\ task[t].pc # "idle"

-----------------------------------------------------------------------------
(* A thread may write for t. *)
Making(t) == \/ task[t].kind = "start" /\ task[t].pc \in {"choose", "prep", "create"}
             \/ task[t].kind = "turn" /\ task[t].pc = "prep"

(* The deletion finds all that is under way; nothing else writes later.    *)
DeletionOK ==
    /\ job <=> deletion.pc = "none"
    /\ \A t \in Tasks :
          /\ deletion.pc \in {"none", "unlink"} /\ task[t].kind \in {"start", "turn"} /\ task[t].pc # "idle" =>
                t \in tracked
          /\ deletion.pc \notin {"none", "unlink"} /\ Making(t) => task[t].cancelled
          /\ task[t].cancelled => deletion.pc = "gather"
    /\ CleanupIsComplete

-----------------------------------------------------------------------------
(* A session is as new as that of any Start of the user that was saved.    *)
Knows(u, session) == \A r \in rows : r.user = u /\ r.start => r.session <= session
NamedOf(u) == {r \in rows : r.user = u /\ r.session # 0}

(* Ids name one row each, in the order of insertion, and the latest row    *)
(* that names a session names one as new as that of any Start before it.   *)
RowsOK ==
    /\ \A r \in rows : r.id <= lastRow /\ r.session <= lastSession
    /\ \A r, s \in rows : r.id = s.id => r = s
    /\ \A r \in rows : r.start => r.session # 0 /\ r.status # "pending"
    /\ \A u \in Users : NamedOf(u) # {} => \E r \in NamedOf(u) : \A s \in NamedOf(u) : s.id <= r.id
    /\ \A r, s \in rows : r.start /\ s.session # 0 /\ r.user = s.user /\ r.id < s.id => r.session <= s.session

(* Inside the lock, what a handler has read of the rows stays true.        *)
Knowing(t) == \/ task[t].kind = "start" /\ task[t].pc = "save"
              \/ task[t].kind = "turn" /\ task[t].pc \in {"prep", "asking", "status", "complete"}
              \/ task[t].kind = "clear" /\ task[t].pc = "wipe"
Informed(t) ==
    /\ task[t].row <= lastRow /\ \A r \in rows : r.id = task[t].row => r.user = task[t].user
    /\ task[t].kind # "clear" => task[t].session <= lastSession
    /\ Knowing(t) => /\ Knows(task[t].user, task[t].session)
                     /\ task[t].kind # "clear" => task[t].session # 0
KnowledgeOK == \A t \in Tasks : Informed(t)

IInv == Typed /\ HeldOK /\ RefsOK /\ ControlOK /\ DeletionOK /\ RowsOK /\ KnowledgeOK

-----------------------------------------------------------------------------
(* Who leaves a queue leaves a sequence of waiters.                        *)
LEMMA UnqueuedType ==
    ASSUME NEW S, NEW queue \in Seq(S), NEW p
    PROVE  Unqueued(queue, p) \in Seq(S)
<1>1. CASE \E i \in DOMAIN queue : queue[i] = p
  <2> DEFINE place == CHOOSE i \in DOMAIN queue : queue[i] = p
  <2>1. place \in 1 .. Len(queue)
    BY <1>1
  <2> HIDE DEF place
  <2>2. SubSeq(queue, 1, place - 1) \o SubSeq(queue, place + 1, Len(queue)) \in Seq(S)
    BY <2>1
  <2> QED
    BY <1>1, <2>2 DEF Unqueued, place
<1>2. CASE ~\E i \in DOMAIN queue : queue[i] = p
  BY <1>2 DEF Unqueued
<1> QED
  BY <1>1, <1>2

(* Who gives up what it holds leaves the other holders alone.              *)
LEMMA WithoutIs ==
    ASSUME LocksTyped, NEW p \in Tasks \union {Deleter}
    PROVE  /\ Without(p) \in [Locks -> LockType]
           /\ \A o \in Locks :
                 Without(p)[o].holder = IF lock[o].holder = p THEN Nobody ELSE lock[o].holder
<1>1. ASSUME NEW o \in Locks
      PROVE  /\ Unqueued(lock[o].queue, p) \in Seq(Tasks \union {Deleter})
             /\ lock[o].holder \in Tasks \union {Nobody, Deleter}
  <2>1. lock[o].queue \in Seq(Tasks \union {Deleter}) /\ lock[o].holder \in Tasks \union {Nobody, Deleter}
    BY DEF LocksTyped, LockType
  <2> QED
    BY <2>1, UnqueuedType
<1> QED
  BY <1>1 DEF Without, LockType

(* So does who takes a lock, and who waits for one.                        *)
LEMMA TakenIs ==
    ASSUME LocksTyped, NEW o \in Locks, NEW p \in Tasks \union {Deleter}, CanTake(o, p)
    PROVE  /\ Taken(o, p) \in [Locks -> LockType]
           /\ lock[o].holder = Nobody /\ Taken(o, p)[o].holder = p
           /\ \A other \in Locks \ {o} : Taken(o, p)[other].holder = lock[other].holder
<1>1. lock[o].queue \in Seq(Tasks \union {Deleter}) /\ lock[o].queue # <<>> /\ lock[o].holder = Nobody
  BY DEF LocksTyped, LockType, CanTake
<1>2. Tail(lock[o].queue) \in Seq(Tasks \union {Deleter})
  BY <1>1
<1>3. [holder |-> p, queue |-> Tail(lock[o].queue)] \in LockType
  BY <1>2 DEF LockType
<1>4. Taken(o, p) = [lock EXCEPT ![o] = [holder |-> p, queue |-> Tail(lock[o].queue)]]
  BY DEF Taken, LocksTyped
<1> QED
  BY <1>1, <1>3, <1>4 DEF LocksTyped

(* Who waits for a lock leaves its holder alone.                           *)
LEMMA QueuedIs ==
    ASSUME NEW locks \in [Locks -> LockType], NEW o \in Locks, NEW p \in Tasks \union {Deleter}
    PROVE  /\ [locks EXCEPT ![o].queue = Append(@, p)] \in [Locks -> LockType]
           /\ \A other \in Locks : [locks EXCEPT ![o].queue = Append(@, p)][other].holder = locks[other].holder
<1>1. locks[o] \in LockType
  OBVIOUS
<1>2. Append(locks[o].queue, p) \in Seq(Tasks \union {Deleter})
  BY <1>1 DEF LockType
<1>3. [locks[o] EXCEPT !.queue = Append(locks[o].queue, p)] \in LockType
  BY <1>1, <1>2 DEF LockType
<1>4. [locks EXCEPT ![o].queue = Append(@, p)]
         = [locks EXCEPT ![o] = [locks[o] EXCEPT !.queue = Append(locks[o].queue, p)]]
  OBVIOUS
<1>5. [locks[o] EXCEPT !.queue = Append(locks[o].queue, p)].holder = locks[o].holder
  BY <1>1 DEF LockType
<1> QED
  BY <1>3, <1>4, <1>5

(* A lock that is made is one of the locks.                                *)
LEMMA FreshIs ==
    ASSUME Unused # {}
    PROVE  Fresh \in Locks
  BY DEF Fresh, Unused

(* The barrier a handler waits for is one of the locks.                    *)
LEMMA BarrierIs ==
    ASSUME RegistriesTyped, barrier = NoLock => Unused # {}
    PROVE  Barrier \in Locks
  BY FreshIs DEF Barrier, RegistriesTyped

(* What get_latest_chat_session finds is as new as any Start.              *)
LEMMA LatestIs ==
    ASSUME RowsTyped, RowsOK, NEW u \in Users
    PROVE  LatestSession(u) \in 0..MaxSessions /\ LatestSession(u) <= lastSession /\ Knows(u, LatestSession(u))
<1>1. CASE NamedOf(u) = {}
  <2>1. LatestSession(u) = 0
    BY <1>1 DEF LatestSession, NamedOf
  <2>2. \A r \in rows : ~(r.user = u /\ r.start)
    BY <1>1 DEF NamedOf, RowsOK
  <2> QED
    BY <2>1, <2>2, BoundsAssumption DEF Knows, RowsTyped
<1>2. CASE NamedOf(u) # {}
  <2> DEFINE latest == CHOOSE r \in NamedOf(u) : \A s \in NamedOf(u) : s.id <= r.id
  <2>1. latest \in NamedOf(u) /\ \A s \in NamedOf(u) : s.id <= latest.id
    BY <1>2 DEF RowsOK
  <2>2. LatestSession(u) = latest.session
    BY <1>2 DEF LatestSession, NamedOf
  <2> HIDE DEF latest
  <2>3. latest \in rows /\ latest.user = u /\ latest.session # 0 /\ latest \in RowType
    BY <2>1 DEF NamedOf, RowsTyped
  <2>4. ASSUME NEW r \in rows, r.user = u, r.start
        PROVE  r.session <= latest.session
    <3>1. r \in RowType /\ r.session # 0 /\ r.id <= latest.id
      BY <2>1, <2>4 DEF NamedOf, RowsTyped, RowsOK
    <3>2. CASE r.id = latest.id
      BY <2>3, <3>1, <3>2 DEF RowsOK, RowType
    <3>3. CASE r.id < latest.id
      BY <2>3, <2>4, <3>3 DEF RowsOK
    <3> QED
      BY <2>3, <3>1, <3>2, <3>3 DEF RowType
  <2> QED
    BY <2>2, <2>3, <2>4 DEF Knows, RowsOK, RowType
<1> QED
  BY <1>1, <1>2

(* Who works in a section of a user is alone in it.                        *)
LEMMA Exclusive ==
    ASSUME TasksTyped, HeldOK
    PROVE  OneAtATime
<1> SUFFICES ASSUME NEW s \in Tasks, NEW t \in Tasks, InSection(s), InSection(t),
                    task[s].user = task[t].user
             PROVE  s = t
  BY DEF OneAtATime
<1>1. Engaged(s) /\ Engaged(t)
  BY DEF InSection, Engaged
<1>2. task[s].lock = task[t].lock
  BY <1>1 DEF HeldOK
<1> QED
  BY <1>2 DEF HeldOK

(* Who is engaged is counted.                                              *)
LEMMA CountedIn ==
    ASSUME TasksTyped, RegistriesTyped, RefsOK, NEW t \in Tasks, Engaged(t)
    PROVE  /\ task[t].user \in Users /\ refs[task[t].user] \in Nat \ {0}
           /\ t \in EngagedOf(task[t].user) /\ IsFiniteSet(EngagedOf(task[t].user))
           /\ refs[task[t].user] = Cardinality(EngagedOf(task[t].user))
<1>1. task[t].user \in Users
  BY DEF TasksTyped, TaskType
<1>2. t \in EngagedOf(task[t].user) /\ IsFiniteSet(EngagedOf(task[t].user))
  BY <1>1 DEF EngagedOf, RefsOK
<1>3. Cardinality(EngagedOf(task[t].user)) # 0
  BY <1>2, FS_EmptySet
<1> QED
  BY <1>1, <1>2, <1>3 DEF RefsOK, RegistriesTyped

-----------------------------------------------------------------------------
(* The locks stay right when one handler that has its user's lock goes on. *)
LEMMA MoveHeld ==
    ASSUME TasksTyped, HeldOK, RefsOK, NEW t \in Tasks, Engaged(t), Engaged(t)',
           \A s \in Tasks \ {t} : task'[s] = task[s],
           task'[t].user = task[t].user, task'[t].lock = task[t].lock,
           userLock' = userLock, refs' = refs,
           \A o \in Locks : lock[o].holder \in Tasks \ {t} => lock'[o].holder = lock[o].holder,
           InSection(t)' => lock'[task[t].lock].holder = t,
           task'[t].pc = "barrier" => task'[t].barrier \in Locks,
           InBarrier(t)' => /\ task'[t].barrier \in Locks /\ task'[t].barrier # task[t].lock
                            /\ lock'[task'[t].barrier].holder = t
    PROVE  HeldOK' /\ RefsOK'
<1>1. ASSUME NEW s \in Tasks \ {t}
      PROVE  /\ Engaged(s)' = Engaged(s) /\ InSection(s)' = InSection(s) /\ InBarrier(s)' = InBarrier(s)
             /\ task[s].lock \in Locks \union {NoLock}
             /\ InSection(s) => Engaged(s)
             /\ task'[s] = task[s]
  BY DEF Engaged, InSection, InBarrier, TasksTyped, TaskType
<1>2. HeldOK'
  <2>1. ASSUME NEW s \in Tasks \ {t}
        PROVE  /\ Engaged(s)' => task'[s].lock # NoLock /\ userLock'[task'[s].user] = task'[s].lock
               /\ InSection(s)' => lock'[task'[s].lock].holder = s
               /\ task'[s].pc = "barrier" => task'[s].barrier \in Locks
               /\ InBarrier(s)' => /\ task'[s].barrier \in Locks /\ task'[s].barrier # task'[s].lock
                                   /\ lock'[task'[s].barrier].holder = s
    BY <1>1 DEF HeldOK
  <2>2. task'[t].lock # NoLock /\ userLock'[task'[t].user] = task'[t].lock
    BY DEF HeldOK
  <2> QED
    BY <2>1, <2>2 DEF HeldOK
<1>3. \A u \in Users : EngagedOf(u)' = EngagedOf(u)
  BY <1>1 DEF EngagedOf
<1> QED
  BY <1>2, <1>3 DEF RefsOK

(* It goes on inside what it holds. *)
LEMMA AdvanceHeld ==
    ASSUME TasksTyped, HeldOK, RefsOK, NEW t \in Tasks, InSection(t), InSection(t)', task'[t].pc # "barrier",
           InBarrier(t)' => InBarrier(t),
           \A s \in Tasks \ {t} : task'[s] = task[s],
           task'[t].user = task[t].user, task'[t].lock = task[t].lock,
           task'[t].barrier = task[t].barrier, UNCHANGED <<lock, userLock, refs>>
    PROVE  HeldOK' /\ RefsOK'
<1>1. Engaged(t) /\ Engaged(t)'
  BY DEF InSection, Engaged
<1> QED
  BY <1>1, MoveHeld DEF HeldOK

(* It leaves the barrier. *)
LEMMA LeaveBarrierHeld ==
    ASSUME TasksTyped, LocksTyped, HeldOK, RefsOK, NEW t \in Tasks,
           InBarrier(t), InSection(t)', ~InBarrier(t)', task'[t].pc # "barrier",
           \A s \in Tasks \ {t} : task'[s] = task[s],
           task'[t].user = task[t].user, task'[t].lock = task[t].lock, LeaveBarrier(t)
    PROVE  HeldOK' /\ RefsOK'
<1>1. Engaged(t) /\ Engaged(t)' /\ InSection(t)
  BY DEF InSection, InBarrier, Engaged
<1>2. /\ task[t].barrier \in Locks /\ task[t].barrier # task[t].lock
      /\ lock[task[t].barrier].holder = t /\ lock[task[t].lock].holder = t
      /\ task[t].lock \in Locks
  BY <1>1 DEF HeldOK, TasksTyped, TaskType
<1>3. \A o \in Locks \ {task[t].barrier} : lock'[o] = lock[o]
  BY <1>2 DEF LeaveBarrier, LocksTyped
<1>4. \A o \in Locks : lock[o].holder \in Tasks \ {t} => lock'[o].holder = lock[o].holder
  BY <1>2, <1>3
<1>5. lock'[task[t].lock].holder = t
  BY <1>2, <1>3
<1> QED
  BY <1>1, <1>4, <1>5, MoveHeld DEF LeaveBarrier

(* It leaves its user's lock, which is dropped when nobody else counts.    *)
LEMMA LeaveHeld ==
    ASSUME TasksTyped, LocksTyped, RegistriesTyped, HeldOK, RefsOK, NEW t \in Tasks, Engaged(t), Leave(t),
           \A s \in Tasks \ {t} : task'[s] = task[s], ~Engaged(t)'
    PROVE  HeldOK' /\ RefsOK'
<1>0. PICK u \in Users : u = task[t].user
  BY CountedIn
<1>1. /\ refs[u] \in Nat \ {0} /\ t \in EngagedOf(u)
      /\ IsFiniteSet(EngagedOf(u)) /\ refs[u] = Cardinality(EngagedOf(u))
  BY <1>0, CountedIn
<1>2. ASSUME NEW s \in Tasks \ {t}
      PROVE  /\ Engaged(s)' = Engaged(s) /\ InSection(s)' = InSection(s) /\ InBarrier(s)' = InBarrier(s)
             /\ task[s].lock \in Locks \union {NoLock}
             /\ InSection(s) => Engaged(s)
             /\ task'[s] = task[s]
  BY DEF Engaged, InSection, InBarrier, TasksTyped, TaskType
<1>3. /\ IsFiniteSet(EngagedOf(u) \ {t}) /\ Cardinality(EngagedOf(u) \ {t}) = refs[u] - 1
  BY <1>1, FS_RemoveElement
<1>4. EngagedOf(u)' = EngagedOf(u) \ {t} /\ \A v \in Users \ {u} : EngagedOf(v)' = EngagedOf(v)
  <2>1. \A v \in Users : EngagedOf(v)' = EngagedOf(v) \ {t}
    <3>1. \A v \in Users : \A s \in Tasks : s \in EngagedOf(v)' <=> s \in EngagedOf(v) \ {t}
      BY <1>0, <1>2 DEF EngagedOf
    <3>2. \A v \in Users : EngagedOf(v)' \subseteq Tasks /\ EngagedOf(v) \subseteq Tasks
      BY DEF EngagedOf
    <3> QED
      BY <3>1, <3>2
  <2>2. \A v \in Users \ {u} : t \notin EngagedOf(v)
    BY <1>0 DEF EngagedOf
  <2> QED
    BY <1>1, <2>1, <2>2
<1>5. refs' = [refs EXCEPT ![u] = refs[u] - 1]
  BY <1>0 DEF Leave
<1>6. RefsOK'
  <2>1. refs'[u] = refs[u] - 1 /\ \A v \in Users \ {u} : refs'[v] = refs[v]
    BY <1>1, <1>5 DEF RegistriesTyped
  <2> QED
    BY <1>1, <1>3, <1>4, <2>1 DEF RefsOK
<1>7. ASSUME NEW s \in Tasks, Engaged(s)'
      PROVE  userLock'[task[s].user] = userLock[task[s].user] /\ s # t
  <2>1. s # t
    BY <1>7
  <2>2. CASE task[s].user = u
    <3>1. s \in EngagedOf(u) \ {t}
      BY <1>2, <1>7, <2>1, <2>2 DEF EngagedOf
    <3>2. refs[u] # 1
      BY <1>3, <3>1, FS_EmptySet
    <3> QED
      BY <1>0, <2>1, <3>2 DEF Leave, Unregistered
  <2>3. CASE task[s].user # u
    BY <1>0, <2>1, <2>3 DEF Leave
  <2> QED
    BY <2>1, <2>2, <2>3
<1>8. \A o \in Locks : lock[o].holder \in Tasks \ {t} => lock'[o].holder = lock[o].holder
  BY WithoutIs DEF Leave
<1>9. HeldOK'
  <2>1. ~InSection(t)' /\ ~InBarrier(t)' /\ task'[t].pc # "barrier"
    BY DEF Engaged, InSection, InBarrier
  <2>2. ASSUME NEW s \in Tasks \ {t}
        PROVE  /\ Engaged(s)' => task'[s].lock # NoLock /\ userLock'[task'[s].user] = task'[s].lock
               /\ InSection(s)' => lock'[task'[s].lock].holder = s
               /\ task'[s].pc = "barrier" => task'[s].barrier \in Locks
               /\ InBarrier(s)' => /\ task'[s].barrier \in Locks /\ task'[s].barrier # task'[s].lock
                                   /\ lock'[task'[s].barrier].holder = s
    BY <1>2, <1>7, <1>8 DEF HeldOK
  <2> QED
    BY <2>1, <2>2 DEF HeldOK
<1> QED
  BY <1>6, <1>9

(* It had left before. *)
LEMMA UnwindHeld ==
    ASSUME TasksTyped, HeldOK, RefsOK, NEW t \in Tasks, ~Engaged(t), ~Engaged(t)',
           \A s \in Tasks \ {t} : task'[s] = task[s], UNCHANGED <<lock, userLock, refs>>
    PROVE  HeldOK' /\ RefsOK'
<1>1. ASSUME NEW s \in Tasks
      PROVE  /\ Engaged(s)' = Engaged(s)
             /\ Engaged(s) => task'[s] = task[s] /\ InSection(s)' = InSection(s) /\ InBarrier(s)' = InBarrier(s)
             /\ InSection(s)' \/ InBarrier(s)' \/ task'[s].pc = "barrier" => Engaged(s)
  BY DEF Engaged, InSection, InBarrier
<1>2. HeldOK'
  BY <1>1 DEF HeldOK
<1>3. \A u \in Users : EngagedOf(u)' = EngagedOf(u)
  BY <1>1 DEF EngagedOf
<1> QED
  BY <1>2, <1>3 DEF RefsOK

(* A handler that comes in is counted, and waits for the registered lock.  *)
LEMMA EnterHeld ==
    ASSUME TasksTyped, LocksTyped, RegistriesTyped, HeldOK, RefsOK, NEW t \in Tasks, ~Engaged(t),
           NEW u \in Users, NEW kind, NEW row, NEW session, Enter(t, u, kind, row, session)
    PROVE  HeldOK' /\ RefsOK'
<1> DEFINE o == IF userLock[u] = NoLock THEN Fresh ELSE userLock[u]
<1>1. o \in Locks /\ o # NoLock
  BY FreshIs, NamesAssumption DEF Enter, RegistriesTyped
<1>2. /\ \A s \in Tasks \ {t} : task'[s] = task[s]
      /\ task'[t].pc = "lock" /\ task'[t].user = u /\ task'[t].lock = o
  BY DEF Enter, TasksTyped
<1>3. userLock' = [userLock EXCEPT ![u] = o] /\ refs' = [refs EXCEPT ![u] = refs[u] + 1]
  BY DEF Enter, Counted
<1>4. \A other \in Locks : lock'[other].holder = lock[other].holder
  BY <1>1, QueuedIs DEF Enter
<1> HIDE DEF o
<1>5. ASSUME NEW s \in Tasks \ {t}
      PROVE  /\ Engaged(s)' = Engaged(s) /\ InSection(s)' = InSection(s) /\ InBarrier(s)' = InBarrier(s)
             /\ task[s].lock \in Locks \union {NoLock} /\ task[s].user \in Users
             /\ InSection(s) => Engaged(s)
             /\ task'[s] = task[s]
  BY <1>2 DEF Engaged, InSection, InBarrier, TasksTyped, TaskType
<1>6. Engaged(t)' /\ ~InSection(t)' /\ ~InBarrier(t)' /\ task'[t].pc # "barrier"
  BY <1>2 DEF Engaged, InSection, InBarrier
<1>7. \A s \in Tasks \ {t} : Engaged(s) => userLock'[task[s].user] = userLock[task[s].user]
  <2> SUFFICES ASSUME NEW s \in Tasks \ {t}, Engaged(s), task[s].user = u
               PROVE  userLock'[u] = userLock[u]
    BY <1>3, <1>5 DEF RegistriesTyped
  <2>1. userLock[u] # NoLock
    BY DEF HeldOK
  <2> QED
    BY <1>3, <2>1 DEF o
<1>8. HeldOK'
  <2>1. ASSUME NEW s \in Tasks \ {t}
        PROVE  /\ Engaged(s)' => task'[s].lock # NoLock /\ userLock'[task'[s].user] = task'[s].lock
               /\ InSection(s)' => lock'[task'[s].lock].holder = s
               /\ task'[s].pc = "barrier" => task'[s].barrier \in Locks
               /\ InBarrier(s)' => /\ task'[s].barrier \in Locks /\ task'[s].barrier # task'[s].lock
                                   /\ lock'[task'[s].barrier].holder = s
    BY <1>4, <1>5, <1>7 DEF HeldOK
  <2>2. task'[t].lock # NoLock /\ userLock'[task'[t].user] = task'[t].lock
    BY <1>1, <1>2, <1>3 DEF RegistriesTyped
  <2> QED
    BY <1>6, <2>1, <2>2 DEF HeldOK
<1>9. RefsOK'
  <2>1. t \notin EngagedOf(u) /\ IsFiniteSet(EngagedOf(u)) /\ refs[u] = Cardinality(EngagedOf(u))
    BY DEF EngagedOf, RefsOK
  <2>2. EngagedOf(u)' = EngagedOf(u) \union {t} /\ \A v \in Users \ {u} : EngagedOf(v)' = EngagedOf(v)
    BY <1>2, <1>5, <1>6 DEF EngagedOf
  <2>3. refs'[u] = refs[u] + 1 /\ \A v \in Users \ {u} : refs'[v] = refs[v]
    BY <1>3 DEF RegistriesTyped
  <2>4. IsFiniteSet(EngagedOf(u)') /\ Cardinality(EngagedOf(u)') = refs'[u]
    BY <2>1, <2>2, <2>3, FS_AddElement
  <2> QED
    BY <2>2, <2>3, <2>4 DEF RefsOK
<1> QED
  BY <1>8, <1>9

(* Every other step of a handler has one of these shapes.                  *)
Others(t) == \A s \in Tasks \ {t} : task'[s] = task[s]
Keeps(t) == /\ Others(t) /\ task'[t].user = task[t].user /\ task'[t].lock = task[t].lock
            /\ InSection(t)' /\ task'[t].pc # "barrier"
Advances(t) == /\ Keeps(t) /\ InSection(t) /\ (InBarrier(t)' => InBarrier(t))
               /\ task'[t].barrier = task[t].barrier /\ UNCHANGED <<lock, userLock, refs>>
LeavesBarrier(t) == Keeps(t) /\ InBarrier(t) /\ ~InBarrier(t)' /\ LeaveBarrier(t)
Leaves(t) == Others(t) /\ Engaged(t) /\ ~Engaged(t)' /\ Leave(t)
Begins(t) == ~Engaged(t) /\ Enter(t, task[t].user, "turn", task[t].row, 0)
Unwinds(t) == Others(t) /\ ~Engaged(t) /\ ~Engaged(t)' /\ UNCHANGED <<lock, userLock, refs>>

(* A step takes a lock, or goes on inside, leaves, begins or unwinds.      *)
LEMMA Shapes ==
    ASSUME TasksTyped, ControlOK, NEW t \in Tasks, Step(t)
    PROVE  \/ LockTaken(t) \/ BarrierTaken(t) \/ Advances(t) \/ LeavesBarrier(t)
           \/ Leaves(t) \/ Begins(t) \/ Unwinds(t)
<1>1. /\ task[t] \in TaskType /\ task \in [Tasks -> TaskType]
      /\ AtPoint(task[t])
      /\ task[t].cancelled => task[t].kind \in {"start", "turn"} /\ task[t].pc # "idle"
  BY DEF TasksTyped, ControlOK
<1>2. ASSUME Finish(t) \/ FinishTurn(t), Engaged(t)
      PROVE  Leaves(t)
  BY <1>1, <1>2 DEF Finish, FinishTurn, Leaves, Others, Engaged, Idle
<1>3. ASSUME NEW pc, Goto(t, pc), InSection(t), UNCHANGED <<lock, userLock, refs>>,
             \/ pc \in {"create", "send", "pair", "failing", "status", "complete", "close", "wipe", "swept"}
             \/ pc = "choose" /\ task[t].kind = "start" /\ task[t].pc = "look"
      PROVE  Advances(t)
  <2>1. Others(t) /\ task'[t] = [task[t] EXCEPT !.pc = pc]
    BY <1>1, <1>3 DEF Goto, Others
  <2>2. /\ task'[t].user = task[t].user /\ task'[t].lock = task[t].lock
        /\ task'[t].barrier = task[t].barrier /\ task'[t].pc = pc /\ task'[t].kind = task[t].kind
    BY <1>1, <2>1 DEF TaskType
  <2> QED
    BY <1>3, <2>1, <2>2 DEF Advances, Keeps, InSection, InBarrier
<1>4. ASSUME NEW pc, NEW session, task' = [task EXCEPT ![t].pc = pc, ![t].session = session],
             InSection(t), UNCHANGED <<lock, userLock, refs>>,
             \/ pc \in {"save", "status"}
             \/ pc = "prep" /\ task[t].kind = "turn" /\ task[t].pc = "look"
      PROVE  Advances(t)
  <2>1. Others(t) /\ task'[t] = [task[t] EXCEPT !.pc = pc, !.session = session]
    BY <1>1, <1>4 DEF Others
  <2>2. /\ task'[t].user = task[t].user /\ task'[t].lock = task[t].lock
        /\ task'[t].barrier = task[t].barrier /\ task'[t].pc = pc /\ task'[t].kind = task[t].kind
    BY <1>1, <2>1 DEF TaskType
  <2> QED
    BY <1>4, <2>1, <2>2 DEF Advances, Keeps, InSection, InBarrier
<1>5. ASSUME NEW pc, Goto(t, pc), InBarrier(t), LeaveBarrier(t),
             \/ pc \in {"asking", "failing"}
             \/ pc = "prep" /\ task[t].kind = "start"
      PROVE  LeavesBarrier(t)
  <2>1. Others(t) /\ task'[t] = [task[t] EXCEPT !.pc = pc]
    BY <1>1, <1>5 DEF Goto, Others
  <2>2. /\ task'[t].user = task[t].user /\ task'[t].lock = task[t].lock
        /\ task'[t].pc = pc /\ task'[t].kind = task[t].kind
    BY <1>1, <2>1 DEF TaskType
  <2> QED
    BY <1>5, <2>1, <2>2 DEF LeavesBarrier, Keeps, InSection, InBarrier
<1>6. ASSUME Leave(t), Goto(t, "unwinding"), Engaged(t)
      PROVE  Leaves(t)
  BY <1>1, <1>6 DEF Goto, Leaves, Others, Engaged
<1>7. CASE StartLook(t)
  BY <1>1, <1>2, <1>3, <1>4, <1>5, <1>6, <1>7 DEF StartLook, At, InSection, Engaged, registries
<1>8. CASE StartChoose(t)
  BY <1>1, <1>2, <1>3, <1>4, <1>5, <1>6, <1>8 DEF StartChoose, At, Engaged, InBarrier
<1>9. CASE StartPrepared(t)
  BY <1>1, <1>2, <1>3, <1>4, <1>5, <1>6, <1>9 DEF StartPrepared, At, InSection, Engaged, registries
<1>10. CASE StartCreated(t)
  BY <1>1, <1>2, <1>3, <1>4, <1>5, <1>6, <1>10 DEF StartCreated, At, InSection, Engaged, registries
<1>11. CASE StartSaved(t)
  BY <1>1, <1>2, <1>3, <1>4, <1>5, <1>6, <1>11 DEF StartSaved, At, Engaged
<1>12. CASE SendCheck(t)
  BY <1>1, <1>2, <1>3, <1>4, <1>5, <1>6, <1>12 DEF SendCheck, At, InSection, Engaged, registries
<1>13. CASE SendPair(t)
  <2> DEFINE queued == [Idle EXCEPT !.pc = "queued", !.kind = "send", !.user = task[t].user,
                                    !.row = lastRow + 1]
  <2>1. Engaged(t)
    BY <1>13 DEF SendPair, At, Engaged
  <2>2. CASE Finish(t)
    BY <1>2, <2>1, <2>2
  <2>3. CASE Leave(t) /\ task' = [task EXCEPT ![t] = queued]
    <3>1. queued.pc = "queued"
      BY DEF Idle
    <3> HIDE DEF queued
    <3>2. Others(t) /\ ~Engaged(t)'
      BY <1>1, <2>3, <3>1 DEF Others, Engaged
    <3> QED
      BY <2>1, <2>3, <3>2 DEF Leaves
  <2> QED
    BY <1>13, <2>2, <2>3 DEF SendPair
<1>14. CASE TurnBegin(t)
  BY <1>1, <1>2, <1>3, <1>4, <1>5, <1>6, <1>14 DEF TurnBegin, Begins, At, Engaged
<1>15. CASE TurnLook(t)
  BY <1>1, <1>2, <1>3, <1>4, <1>5, <1>6, <1>15 DEF TurnLook, At, InSection, InBarrier, registries
<1>16. CASE TurnPrepared(t)
  BY <1>1, <1>2, <1>3, <1>4, <1>5, <1>6, <1>16 DEF TurnPrepared, At, InSection, InBarrier,
                                        registries
<1>17. CASE TurnAnswered(t)
  BY <1>1, <1>2, <1>3, <1>4, <1>5, <1>6, <1>17 DEF TurnAnswered, At, InSection, registries
<1>18. CASE TurnStatus(t)
  BY <1>1, <1>2, <1>3, <1>4, <1>5, <1>6, <1>18 DEF TurnStatus, At, InSection, Engaged, registries
<1>19. CASE TurnComplete(t)
  BY <1>1, <1>2, <1>3, <1>4, <1>5, <1>6, <1>19 DEF TurnComplete, At, InSection, Engaged, InBarrier,
                                        registries
<1>20. CASE TurnClose(t)
  BY <1>1, <1>2, <1>3, <1>4, <1>5, <1>6, <1>20 DEF TurnClose, At, Engaged
<1>21. CASE TurnFail(t)
  BY <1>1, <1>2, <1>3, <1>4, <1>5, <1>6, <1>21 DEF TurnFail, At, Engaged
<1>22. CASE StartCancelled(t)
  BY <1>1, <1>2, <1>3, <1>4, <1>5, <1>6, <1>22 DEF StartCancelled, Engaged, AtPoint
<1>23. CASE TurnCancelled(t)
  BY <1>1, <1>2, <1>3, <1>4, <1>5, <1>6, <1>23 DEF TurnCancelled, Engaged, AtPoint
<1>24. CASE TurnUnwound(t)
  BY <1>1, <1>2, <1>3, <1>4, <1>5, <1>6, <1>24 DEF TurnUnwound, Unwinds, Others, Engaged, Idle
<1>25. CASE ClearCheck(t)
  BY <1>1, <1>2, <1>3, <1>4, <1>5, <1>6, <1>25 DEF ClearCheck, At, InSection, Engaged, registries
<1>26. CASE ClearWipe(t)
  BY <1>1, <1>2, <1>3, <1>4, <1>5, <1>6, <1>26 DEF ClearWipe, At, InSection, registries
<1>27. CASE ClearDone(t)
  BY <1>1, <1>2, <1>3, <1>4, <1>5, <1>6, <1>27 DEF ClearDone, At, Engaged
<1> QED
  BY <1>7, <1>8, <1>9, <1>10, <1>11, <1>12, <1>13, <1>14, <1>15, <1>16, <1>17, <1>18, <1>19, <1>20,
                                        <1>21, <1>22, <1>23, <1>24, <1>25, <1>26, <1>27 DEF Step

(* No step of a handler disturbs the locks of another.                     *)
LEMMA StepHeld ==
    ASSUME Typed, HeldOK, RefsOK, ControlOK, NEW t \in Tasks, Step(t)
    PROVE  HeldOK' /\ RefsOK'
<1> USE DEF Typed
<1>1. /\ task[t] \in TaskType /\ task \in [Tasks -> TaskType]
      /\ AtPoint(task[t]) /\ task[t].kind \in Kinds
  BY DEF TasksTyped, TaskType, ControlOK
<1>2. Engaged(t) => task[t].lock \in Locks
  BY <1>1 DEF HeldOK, TaskType
<1>3. CASE LockTaken(t)
  <2>1. /\ Engaged(t) /\ task[t].lock \in Locks /\ CanTake(task[t].lock, t)
        /\ UNCHANGED <<userLock, refs>>
    BY <1>2, <1>3 DEF LockTaken, Engaged
  <2>2. /\ \A s \in Tasks \ {t} : task'[s] = task[s]
        /\ task'[t].user = task[t].user /\ task'[t].lock = task[t].lock
        /\ task'[t].kind = task[t].kind
        /\ task'[t].pc \in {"barrier", "send", "version"}
    BY <1>1, <1>3 DEF LockTaken, Goto, TaskType
  <2>3. \A o \in Locks : lock'[o].holder = Taken(task[t].lock, t)[o].holder
    <3>1. Taken(task[t].lock, t) \in [Locks -> LockType]
      BY <2>1, TakenIs
    <3>2. CASE lock' = Taken(task[t].lock, t)
      BY <3>2
    <3>3. CASE (barrier = NoLock => Unused # {})
               /\ lock' = [Taken(task[t].lock, t) EXCEPT ![Barrier].queue = Append(@, t)]
      BY <3>1, <3>3, BarrierIs, QueuedIs
    <3> QED
      BY <1>3, <3>2, <3>3 DEF LockTaken
  <2>4. /\ lock'[task[t].lock].holder = t
        /\ \A o \in Locks : lock[o].holder \in Tasks \ {t} => lock'[o].holder = lock[o].holder
    BY <2>1, <2>3, TakenIs, NamesAssumption
  <2>5. Engaged(t)' /\ ~InBarrier(t)'
    BY <2>2 DEF Engaged, InBarrier
  <2>6. task'[t].pc = "barrier" => task'[t].barrier \in Locks
    <3>1. CASE task[t].kind \in {"start", "turn"}
      BY <1>1, <1>3, <3>1, BarrierIs DEF LockTaken, TaskType
    <3>2. CASE task[t].kind \in {"send", "clear"}
      BY <1>1, <1>3, <3>2 DEF LockTaken, Goto, TaskType
    <3> QED
      BY <1>1, <3>1, <3>2 DEF Kinds
  <2> QED
    BY <2>1, <2>2, <2>4, <2>5, <2>6, MoveHeld
<1>4. CASE BarrierTaken(t)
  <2>1. /\ task[t].pc = "barrier" /\ Engaged(t) /\ InSection(t) /\ CanTake(task[t].barrier, t)
        /\ lock[task[t].lock].holder = t /\ task[t].lock \in Locks
    BY <1>2, <1>4 DEF BarrierTaken, Engaged, InSection, HeldOK
  <2>2. CASE Finish(t)
    <3>1. (\A s \in Tasks \ {t} : task'[s] = task[s]) /\ ~Engaged(t)'
      BY <1>1, <2>2 DEF Finish, Engaged, Idle
    <3> QED
      BY <2>1, <2>2, <3>1, LeaveHeld DEF Finish
  <2>3. CASE /\ lock' = Taken(task[t].barrier, t) /\ Goto(t, IF deleting THEN "failing" ELSE "look")
             /\ UNCHANGED <<userLock, refs>>
    <3> DEFINE o == task[t].barrier
    <3>1. o \in Locks
      BY <2>1 DEF HeldOK
    <3>2. /\ lock[o].holder = Nobody /\ lock'[o].holder = t
          /\ \A other \in Locks \ {o} : lock'[other].holder = lock[other].holder
      BY <2>1, <2>3, <3>1, TakenIs
    <3>3. o # task[t].lock
      BY <2>1, <3>2, NamesAssumption
    <3>4. /\ \A s \in Tasks \ {t} : task'[s] = task[s]
          /\ task'[t].user = task[t].user /\ task'[t].lock = task[t].lock
          /\ task'[t].barrier = o /\ task'[t].pc \in {"look", "failing"}
      BY <1>1, <2>3 DEF Goto
    <3>5. /\ lock'[task[t].lock].holder = t
          /\ \A other \in Locks : lock[other].holder \in Tasks \ {t} => lock'[other].holder = lock[other].holder
      BY <2>1, <3>2, <3>3, NamesAssumption
    <3>6. Engaged(t)'
      BY <3>4 DEF Engaged
    <3> HIDE DEF o
    <3> QED
      BY <2>1, <2>3, <3>1, <3>2, <3>3, <3>4, <3>5, <3>6, MoveHeld
  <2> QED
    BY <1>4, <2>2, <2>3 DEF BarrierTaken
<1>5. CASE Advances(t)
  BY <1>5, AdvanceHeld DEF Advances, Keeps, Others
<1>6. CASE LeavesBarrier(t)
  BY <1>6, LeaveBarrierHeld DEF LeavesBarrier, Keeps, Others
<1>7. CASE Leaves(t)
  BY <1>7, LeaveHeld DEF Leaves, Others
<1>8. CASE Begins(t)
  BY <1>1, <1>8, EnterHeld DEF Begins, TaskType
<1>9. CASE Unwinds(t)
  BY <1>9, UnwindHeld DEF Unwinds, Others
<1> QED
  BY <1>3, <1>4, <1>5, <1>6, <1>7, <1>8, <1>9, Shapes

(* Nobody else moves a handler, or takes a lock that one of them has.      *)
LEMMA StillHeld ==
    ASSUME TasksTyped, HeldOK, RefsOK, UNCHANGED <<userLock, refs>>,
           \A t \in Tasks : /\ task'[t].pc = task[t].pc /\ task'[t].kind = task[t].kind
                            /\ task'[t].user = task[t].user /\ task'[t].lock = task[t].lock
                            /\ task'[t].barrier = task[t].barrier,
           \A o \in Locks : lock[o].holder \in Tasks => lock'[o].holder = lock[o].holder
    PROVE  HeldOK' /\ RefsOK'
<1>1. ASSUME NEW t \in Tasks
      PROVE  /\ Engaged(t)' = Engaged(t) /\ InSection(t)' = InSection(t) /\ InBarrier(t)' = InBarrier(t)
             /\ InSection(t) => Engaged(t)
             /\ task[t].lock \in Locks \union {NoLock}
  BY DEF Engaged, InSection, InBarrier, TasksTyped, TaskType
<1>2. HeldOK'
  <2> SUFFICES ASSUME NEW t \in Tasks
               PROVE  /\ Engaged(t)' => task'[t].lock # NoLock /\ userLock'[task'[t].user] = task'[t].lock
                      /\ InSection(t)' => lock'[task'[t].lock].holder = t
                      /\ task'[t].pc = "barrier" => task'[t].barrier \in Locks
                      /\ InBarrier(t)' => /\ task'[t].barrier \in Locks /\ task'[t].barrier # task'[t].lock
                                          /\ lock'[task'[t].barrier].holder = t
    BY DEF HeldOK
  <2> QED
    BY <1>1 DEF HeldOK
<1>3. \A u \in Users : EngagedOf(u)' = EngagedOf(u)
  BY <1>1 DEF EngagedOf
<1> QED
  BY <1>2, <1>3 DEF RefsOK

(* The locks and their registries stay right at every step.                *)
LEMMA NextHeld ==
    ASSUME Typed, HeldOK, RefsOK, ControlOK, Next
    PROVE  HeldOK' /\ RefsOK'
<1> USE DEF Typed
<1>1. ASSUME NEW t \in Tasks, Step(t)
      PROVE  HeldOK' /\ RefsOK'
  BY <1>1, StepHeld
<1>2. ASSUME NEW t \in Tasks, NEW u \in Users, StartCall(t, u) \/ SendCall(t, u) \/ ClearCall(t, u)
      PROVE  HeldOK' /\ RefsOK'
  <2>1. ~Engaged(t)
    BY <1>2 DEF StartCall, SendCall, ClearCall, Engaged
  <2> QED
    BY <1>2, <2>1, EnterHeld DEF StartCall, SendCall, ClearCall
<1>3. CASE UNCHANGED <<task, lock, userLock, refs>>
  BY <1>3, StillHeld
<1>4. CASE MarkDeleting
  <2>1. \A t \in Tasks : /\ task'[t].pc = task[t].pc /\ task'[t].kind = task[t].kind
                         /\ task'[t].user = task[t].user /\ task'[t].lock = task[t].lock
                         /\ task'[t].barrier = task[t].barrier
    BY <1>4 DEF MarkDeleting, Cancelled, TasksTyped, TaskType
  <2> QED
    BY <1>4, <2>1, StillHeld DEF MarkDeleting, registries
<1>5. CASE Gathered
  <2>1. \A o \in Locks : lock'[o].holder = lock[o].holder
    BY <1>5, BarrierIs, QueuedIs DEF Gathered
  <2> QED
    BY <1>5, <2>1, StillHeld DEF Gathered
<1>6. CASE CleanupBegins
  <2>1. CASE deletion.barrier \in Locks
    <3>1. \A o \in Locks : lock[o].holder \in Tasks => lock'[o].holder = lock[o].holder
      BY <1>6, <2>1, TakenIs, NamesAssumption DEF CleanupBegins
    <3> QED
      BY <1>6, <3>1, StillHeld DEF CleanupBegins
  <2>2. CASE deletion.barrier \notin Locks
    <3>1. lock' = lock
      BY <1>6, <2>2 DEF CleanupBegins, Taken, LocksTyped
    <3> QED
      BY <1>6, <3>1, StillHeld DEF CleanupBegins
  <2> QED
    BY <2>1, <2>2
<1>7. CASE CleanupEnds
  <2>1. \A o \in Locks : lock[o].holder \in Tasks => lock'[o].holder = lock[o].holder
    BY <1>7, WithoutIs, NamesAssumption DEF CleanupEnds
  <2> QED
    BY <1>7, <2>1, StillHeld DEF CleanupEnds
<1>8. ASSUME AbortRead \/ AbortMark \/ Delete \/ DetachedWrites \/ \E u \in Users : AbortCall(u)
      PROVE  UNCHANGED <<task, lock, userLock, refs>>
  BY <1>8 DEF AbortRead, AbortMark, Delete, DetachedWrites, AbortCall, registries
<1> QED
  BY <1>1, <1>2, <1>3, <1>4, <1>5, <1>6, <1>7, <1>8 DEF Next, Deletion

-----------------------------------------------------------------------------
(* The states a handler can be given. *)
LEMMA TaskTypes ==
    /\ Idle \in TaskType /\ Idle.row = 0 /\ Idle.session = 0
    /\ \A q \in TaskType, b \in BOOLEAN : [q EXCEPT !.cancelled = b] \in TaskType
    /\ \A q \in TaskType, pc \in PCs : [q EXCEPT !.pc = pc] \in TaskType
    /\ \A q \in TaskType, pc \in PCs, s \in 0..MaxSessions : [q EXCEPT !.pc = pc, !.session = s] \in TaskType
    /\ \A q \in TaskType, pc \in PCs, o \in Locks : [q EXCEPT !.pc = pc, !.barrier = o] \in TaskType
    /\ \A u \in Users, kind \in Kinds, row \in 0..MaxRows, s \in 0..MaxSessions, o \in Locks :
          [Idle EXCEPT !.pc = "lock", !.kind = kind, !.user = u, !.row = row, !.session = s, !.lock = o] \in TaskType
    /\ \A u \in Users, row \in 0..MaxRows :
          [Idle EXCEPT !.pc = "queued", !.kind = "send", !.user = u, !.row = row] \in TaskType
<1>1. (CHOOSE u \in Users : TRUE) \in Users
  BY NamesAssumption
<1>2. Idle \in TaskType
  BY <1>1, BoundsAssumption DEF Idle, TaskType, PCs, Kinds
<1>3. Idle.row = 0 /\ Idle.session = 0
  BY DEF Idle
<1>4. \A q \in TaskType, b \in BOOLEAN : [q EXCEPT !.cancelled = b] \in TaskType
  BY DEF TaskType
<1>5. \A q \in TaskType, pc \in PCs : [q EXCEPT !.pc = pc] \in TaskType
  BY DEF TaskType
<1>6. \A q \in TaskType, pc \in PCs, s \in 0..MaxSessions : [q EXCEPT !.pc = pc, !.session = s] \in TaskType
  BY DEF TaskType
<1>7. \A q \in TaskType, pc \in PCs, o \in Locks : [q EXCEPT !.pc = pc, !.barrier = o] \in TaskType
  BY DEF TaskType
<1>8. \A u \in Users, kind \in Kinds, row \in 0..MaxRows, s \in 0..MaxSessions, o \in Locks :
          [Idle EXCEPT !.pc = "lock", !.kind = kind, !.user = u, !.row = row, !.session = s, !.lock = o] \in TaskType
  <2> SUFFICES ASSUME NEW u \in Users, NEW kind \in Kinds, NEW row \in 0..MaxRows, NEW s \in 0..MaxSessions,
                      NEW o \in Locks
               PROVE  [Idle EXCEPT !.pc = "lock", !.kind = kind, !.user = u, !.row = row, !.session = s, !.lock = o]
                         \in TaskType
    OBVIOUS
  <2> DEFINE q == [Idle EXCEPT !.pc = "lock", !.kind = kind, !.user = u]
  <2>1. q \in TaskType
    BY <1>2 DEF TaskType, PCs
  <2> HIDE DEF q
  <2>2. [q EXCEPT !.row = row, !.session = s, !.lock = o] \in TaskType
    BY <2>1 DEF TaskType
  <2>3. [Idle EXCEPT !.pc = "lock", !.kind = kind, !.user = u, !.row = row, !.session = s, !.lock = o]
           = [q EXCEPT !.row = row, !.session = s, !.lock = o]
    BY DEF q
  <2> QED
    BY <2>2, <2>3
<1>9. \A u \in Users, row \in 0..MaxRows :
          [Idle EXCEPT !.pc = "queued", !.kind = "send", !.user = u, !.row = row] \in TaskType
  BY <1>2 DEF TaskType, PCs, Kinds
<1> QED
  BY <1>2, <1>3, <1>4, <1>5, <1>6, <1>7, <1>8, <1>9

(* Every handler is in one of them after each step.                        *)
LEMMA EnterTyped ==
    ASSUME TasksTyped, RegistriesTyped, NEW t \in Tasks, NEW u \in Users, NEW kind \in Kinds,
           NEW row \in 0..MaxRows, NEW session \in 0..MaxSessions, Enter(t, u, kind, row, session)
    PROVE  TasksTyped'
<1> DEFINE o == IF userLock[u] = NoLock THEN Fresh ELSE userLock[u]
<1>1. o \in Locks
  BY FreshIs DEF Enter, RegistriesTyped
<1>2. task' = [task EXCEPT ![t] = [Idle EXCEPT !.pc = "lock", !.kind = kind, !.user = u, !.row = row,
                                               !.session = session, !.lock = o]]
  BY DEF Enter
<1> HIDE DEF o
<1> QED
  BY <1>1, <1>2, TaskTypes DEF TasksTyped

(* A step of a handler keeps it of its type.                               *)
LEMMA StepTasksTyped ==
    ASSUME Typed, HeldOK, RowsOK, NEW t \in Tasks, Step(t)
    PROVE  TasksTyped'
<1> USE DEF Typed
<1>1. task[t] \in TaskType /\ task \in [Tasks -> TaskType]
  BY DEF TasksTyped
<1>2. task[t].row \in 0..MaxRows /\ task[t].user \in Users /\ task[t].pc \in PCs
  BY <1>1 DEF TaskType
<1>3. ASSUME NEW q \in TaskType, task' = [task EXCEPT ![t] = q]
      PROVE  TasksTyped'
  BY <1>1, <1>3 DEF TasksTyped
<1>4. ASSUME NEW pc \in PCs, Goto(t, pc)
      PROVE  TasksTyped'
  <2>1. [task[t] EXCEPT !.pc = pc] \in TaskType
    BY <1>1, TaskTypes
  <2>2. task' = [task EXCEPT ![t] = [task[t] EXCEPT !.pc = pc]]
    BY <1>1, <1>4 DEF Goto
  <2> QED
    BY <1>3, <2>1, <2>2
<1>5. Finish(t) \/ FinishTurn(t) => TasksTyped'
  BY <1>3, TaskTypes DEF Finish, FinishTurn
<1>6. ASSUME NEW pc \in PCs, NEW s \in 0..MaxSessions, task' = [task EXCEPT ![t].pc = pc, ![t].session = s]
      PROVE  TasksTyped'
  <2>1. [task[t] EXCEPT !.pc = pc, !.session = s] \in TaskType
    BY <1>1, TaskTypes
  <2>2. task' = [task EXCEPT ![t] = [task[t] EXCEPT !.pc = pc, !.session = s]]
    BY <1>1, <1>6
  <2> QED
    BY <1>3, <2>1, <2>2
<1>7. {"send", "version", "failing", "look", "choose", "prep", "create", "save", "pair", "asking", "status",
       "complete", "close", "unwinding", "wipe", "swept", "barrier"} \subseteq PCs
  BY DEF PCs
<1>8. CASE LockTaken(t)
  <2>1. CASE task[t].kind \in {"send", "clear"}
    BY <1>4, <1>7, <1>8, <2>1 DEF LockTaken
  <2>2. CASE task[t].kind \in {"start", "turn"}
    <3>1. Barrier \in Locks
      BY <1>8, <2>2, BarrierIs DEF LockTaken
    <3>2. [task[t] EXCEPT !.pc = "barrier", !.barrier = Barrier] \in TaskType
      BY <1>1, <1>7, <3>1, TaskTypes
    <3>3. task' = [task EXCEPT ![t] = [task[t] EXCEPT !.pc = "barrier", !.barrier = Barrier]]
      BY <1>1, <1>8, <2>2 DEF LockTaken
    <3> QED
      BY <1>3, <3>2, <3>3
  <2> QED
    BY <1>1, <2>1, <2>2 DEF TaskType, Kinds
<1>9. CASE BarrierTaken(t)
  BY <1>4, <1>7, <1>5, <1>9 DEF BarrierTaken
<1>10. CASE StartLook(t)
  BY <1>4, <1>7, <1>5, <1>10 DEF StartLook
<1>11. CASE StartChoose(t)
  BY <1>4, <1>7, <1>5, <1>11 DEF StartChoose
<1>12. CASE StartPrepared(t)
  BY <1>4, <1>7, <1>5, <1>12 DEF StartPrepared
<1>13. CASE StartCreated(t)
  BY <1>5, <1>6, <1>7, <1>13, BoundsAssumption DEF StartCreated, RowsTyped
<1>14. CASE StartSaved(t)
  BY <1>5, <1>14 DEF StartSaved
<1>15. CASE SendCheck(t)
  BY <1>4, <1>7, <1>5, <1>15 DEF SendCheck
<1>16. CASE SendPair(t)
  <2>1. CASE Finish(t)
    BY <1>5, <2>1
  <2>2. CASE lastRow < MaxRows /\ task' = [task EXCEPT ![t] = [Idle EXCEPT !.pc = "queued", !.kind = "send",
                                                       !.user = task[t].user, !.row = lastRow + 1]]
    <3>1. lastRow + 1 \in 0..MaxRows
      BY <2>2, BoundsAssumption DEF RowsTyped
    <3>2. [Idle EXCEPT !.pc = "queued", !.kind = "send", !.user = task[t].user, !.row = lastRow + 1] \in TaskType
      BY <1>2, <3>1, TaskTypes
    <3> QED
      BY <1>3, <2>2, <3>2
  <2> QED
    BY <1>16, <2>1, <2>2 DEF SendPair
<1>17. CASE TurnBegin(t)
  <2>1. "turn" \in Kinds /\ 0 \in 0..MaxSessions
    BY BoundsAssumption DEF Kinds
  <2> QED
    BY <1>2, <1>17, <2>1, EnterTyped DEF TurnBegin
<1>18. CASE TurnLook(t)
  BY <1>2, <1>4, <1>6, <1>7, <1>18, LatestIs DEF TurnLook
<1>19. CASE TurnPrepared(t)
  BY <1>4, <1>7, <1>19 DEF TurnPrepared
<1>20. CASE TurnAnswered(t)
  BY <1>4, <1>6, <1>7, <1>20, BoundsAssumption DEF TurnAnswered, RowsTyped
<1>21. CASE TurnStatus(t)
  BY <1>4, <1>7, <1>5, <1>21 DEF TurnStatus
<1>22. CASE TurnComplete(t)
  BY <1>4, <1>7, <1>5, <1>22 DEF TurnComplete
<1>23. CASE TurnClose(t)
  BY <1>5, <1>23 DEF TurnClose
<1>24. CASE TurnFail(t)
  BY <1>5, <1>24 DEF TurnFail
<1>25. CASE StartCancelled(t)
  BY <1>5, <1>25 DEF StartCancelled
<1>26. CASE TurnCancelled(t)
  BY <1>4, <1>7, <1>26 DEF TurnCancelled
<1>27. CASE TurnUnwound(t)
  BY <1>3, <1>27, TaskTypes DEF TurnUnwound
<1>28. CASE ClearCheck(t)
  BY <1>4, <1>7, <1>5, <1>28 DEF ClearCheck
<1>29. CASE ClearWipe(t)
  BY <1>4, <1>7, <1>29 DEF ClearWipe
<1>30. CASE ClearDone(t)
  BY <1>5, <1>30 DEF ClearDone
<1> QED
  BY <1>8, <1>9, <1>10, <1>11, <1>12, <1>13, <1>14, <1>15, <1>16, <1>17, <1>18, <1>19, <1>20,
                                        <1>21, <1>22, <1>23, <1>24, <1>25, <1>26, <1>27, <1>28,
                                        <1>29, <1>30 DEF Step

(* So does every step of the chat.                                         *)
LEMMA NextTasksTyped ==
    ASSUME Typed, HeldOK, RowsOK, Next
    PROVE  TasksTyped'
<1> USE DEF Typed
<1>1. ASSUME NEW t \in Tasks, NEW u \in Users, StartCall(t, u) \/ SendCall(t, u) \/ ClearCall(t, u)
      PROVE  TasksTyped'
  <2>1. {"start", "send", "clear"} \subseteq Kinds /\ 0 \in 0..MaxSessions /\ 0 \in 0..MaxRows
    BY BoundsAssumption DEF Kinds
  <2>2. LatestSession(u) \in 0..MaxSessions
    BY LatestIs
  <2> QED
    BY <1>1, <2>1, <2>2, EnterTyped DEF StartCall, SendCall, ClearCall
<1>2. ASSUME MarkDeleting
      PROVE  TasksTyped'
  <2>1. ASSUME NEW t \in Tasks
        PROVE  [task[t] EXCEPT !.cancelled = t \in tracked] \in TaskType
    <3>1. task[t] \in TaskType /\ (t \in tracked) \in BOOLEAN
      BY DEF TasksTyped
    <3> QED
      BY <3>1, TaskTypes
  <2> QED
    BY <1>2, <2>1 DEF MarkDeleting, Cancelled, TasksTyped
<1>3. ASSUME Gathered \/ CleanupBegins \/ CleanupEnds \/ AbortRead \/ AbortMark \/ Delete \/ DetachedWrites
              \/ \E u \in Users : AbortCall(u)
      PROVE  task' = task
  BY <1>3 DEF Gathered, CleanupBegins, CleanupEnds, AbortRead, AbortMark, Delete, DetachedWrites,
              AbortCall
<1> QED
  BY <1>1, <1>2, <1>3, StepTasksTyped DEF Next, Deletion, TasksTyped

(* The locks and their registries are of their types after each step.      *)
LEMMA EnterLocksTyped ==
    ASSUME LocksTyped, RegistriesTyped, NEW t \in Tasks, NEW u \in Users, NEW kind,
           NEW row, NEW session, Enter(t, u, kind, row, session)
    PROVE  LocksTyped' /\ RegistriesTyped'
<1> DEFINE o == IF userLock[u] = NoLock THEN Fresh ELSE userLock[u]
<1>1. o \in Locks
  BY FreshIs DEF Enter, RegistriesTyped
<1>2. /\ userLock' = [userLock EXCEPT ![u] = o] /\ refs' = [refs EXCEPT ![u] = refs[u] + 1]
      /\ lock' = [lock EXCEPT ![o].queue = Append(@, t)] /\ barrier' = barrier
  BY DEF Enter, Counted
<1> HIDE DEF o
<1>3. lock' \in [Locks -> LockType]
  BY <1>1, <1>2, QueuedIs DEF LocksTyped
<1> QED
  BY <1>1, <1>2, <1>3 DEF LocksTyped, RegistriesTyped

(* So are they when a handler leaves.                                      *)
LEMMA LeaveLocksTyped ==
    ASSUME TasksTyped, LocksTyped, RegistriesTyped, RefsOK, NEW t \in Tasks, Engaged(t), Leave(t)
    PROVE  /\ LocksTyped' /\ userLock' \in [Users -> Locks \union {NoLock}] /\ refs' \in [Users -> Nat]
<1>1. LocksTyped'
  BY WithoutIs DEF Leave, LocksTyped
<1>2. refs' = [refs EXCEPT ![task[t].user] = refs[task[t].user] - 1] /\ refs[task[t].user] - 1 \in Nat
  BY CountedIn DEF Leave
<1>3. userLock' = userLock \/ userLock' = [userLock EXCEPT ![task[t].user] = NoLock]
  BY DEF Leave
<1> QED
  BY <1>1, <1>2, <1>3 DEF RegistriesTyped

(* And at any other step of a handler.                                     *)
LEMMA StepLocksTyped ==
    ASSUME Typed, HeldOK, RefsOK, ControlOK, NEW t \in Tasks, Step(t)
    PROVE  LocksTyped' /\ userLock' \in [Users -> Locks \union {NoLock}] /\ refs' \in [Users -> Nat]
<1> USE DEF Typed
<1>1. task[t] \in TaskType /\ (Engaged(t) => task[t].lock \in Locks)
  BY DEF TasksTyped, HeldOK, TaskType
<1>2. CASE LockTaken(t)
  <2>1. Taken(task[t].lock, t) \in [Locks -> LockType] /\ UNCHANGED <<userLock, refs>>
    BY <1>1, <1>2, TakenIs DEF LockTaken, Engaged
  <2>2. CASE lock' = Taken(task[t].lock, t)
    BY <2>1, <2>2 DEF LocksTyped, RegistriesTyped
  <2>3. CASE (barrier = NoLock => Unused # {})
             /\ lock' = [Taken(task[t].lock, t) EXCEPT ![Barrier].queue = Append(@, t)]
    BY <2>1, <2>3, BarrierIs, QueuedIs DEF LocksTyped, RegistriesTyped
  <2> QED
    BY <1>2, <2>2, <2>3 DEF LockTaken
<1>3. CASE BarrierTaken(t)
  <2>1. task[t].barrier \in Locks /\ CanTake(task[t].barrier, t) /\ Engaged(t)
    BY <1>3 DEF BarrierTaken, HeldOK, Engaged
  <2>2. CASE lock' = Taken(task[t].barrier, t) /\ UNCHANGED <<userLock, refs>>
    BY <2>1, <2>2, TakenIs DEF LocksTyped, RegistriesTyped
  <2>3. CASE Finish(t)
    BY <2>1, <2>3, LeaveLocksTyped DEF Finish
  <2> QED
    BY <1>3, <2>2, <2>3 DEF BarrierTaken
<1>4. CASE Advances(t) \/ Unwinds(t)
  BY <1>4 DEF Advances, Unwinds, LocksTyped, RegistriesTyped
<1>5. CASE LeavesBarrier(t)
  <2>1. task[t].barrier \in Locks
    BY <1>5 DEF LeavesBarrier, HeldOK
  <2>2. [lock[task[t].barrier] EXCEPT !.holder = Nobody] \in LockType
    BY <2>1 DEF LocksTyped, LockType
  <2>3. lock' = [lock EXCEPT ![task[t].barrier] = [lock[task[t].barrier] EXCEPT !.holder = Nobody]]
    BY <1>5, <2>1 DEF LeavesBarrier, LeaveBarrier
  <2> QED
    BY <1>5, <2>2, <2>3 DEF LeavesBarrier, LeaveBarrier, LocksTyped, RegistriesTyped
<1>6. CASE Leaves(t)
  BY <1>6, LeaveLocksTyped DEF Leaves
<1>7. CASE Begins(t)
  BY <1>1, <1>7, EnterLocksTyped DEF Begins, TaskType, RegistriesTyped
<1> QED
  BY <1>2, <1>3, <1>4, <1>5, <1>6, <1>7, Shapes

(* The barrier that is registered stays a lock.                            *)
LEMMA StepBarrierTyped ==
    ASSUME RegistriesTyped, NEW t \in Tasks, Step(t)
    PROVE  barrier' \in Locks \union {NoLock}
<1>1. barrier \in Locks \union {NoLock}
  BY DEF RegistriesTyped
<1>2. ASSUME Finish(t) \/ FinishTurn(t) \/ LeaveBarrier(t) \/ UNCHANGED registries
      PROVE  barrier' \in Locks \union {NoLock}
  BY <1>1, <1>2 DEF Finish, FinishTurn, DiscardIdleBarrier, LeaveBarrier, registries
<1>3. CASE LockTaken(t)
  BY <1>1, <1>3, BarrierIs DEF LockTaken
<1>4. CASE BarrierTaken(t)
  BY <1>1, <1>2, <1>4 DEF BarrierTaken
<1>5. CASE StartLook(t)
  BY <1>1, <1>2, <1>5 DEF StartLook
<1>6. CASE StartChoose(t)
  BY <1>1, <1>2, <1>6 DEF StartChoose
<1>7. CASE StartPrepared(t)
  BY <1>1, <1>2, <1>7 DEF StartPrepared
<1>8. CASE StartCreated(t)
  BY <1>1, <1>2, <1>8 DEF StartCreated
<1>9. CASE StartSaved(t)
  BY <1>1, <1>2, <1>9 DEF StartSaved
<1>10. CASE SendCheck(t)
  BY <1>1, <1>2, <1>10 DEF SendCheck
<1>11. CASE SendPair(t)
  BY <1>1, <1>2, <1>11 DEF SendPair
<1>12. CASE TurnBegin(t)
  BY <1>1, <1>12 DEF TurnBegin, Enter
<1>13. CASE TurnLook(t)
  BY <1>1, <1>2, <1>13 DEF TurnLook
<1>14. CASE TurnPrepared(t)
  BY <1>1, <1>2, <1>14 DEF TurnPrepared
<1>15. CASE TurnAnswered(t)
  BY <1>1, <1>2, <1>15 DEF TurnAnswered
<1>16. CASE TurnStatus(t)
  BY <1>1, <1>2, <1>16 DEF TurnStatus
<1>17. CASE TurnComplete(t)
  BY <1>1, <1>2, <1>17 DEF TurnComplete
<1>18. CASE TurnClose(t)
  BY <1>1, <1>2, <1>18 DEF TurnClose
<1>19. CASE TurnFail(t)
  BY <1>1, <1>2, <1>19 DEF TurnFail
<1>20. CASE StartCancelled(t)
  BY <1>1, <1>2, <1>20 DEF StartCancelled
<1>21. CASE TurnCancelled(t)
  BY <1>1, <1>2, <1>21 DEF TurnCancelled
<1>22. CASE TurnUnwound(t)
  BY <1>1, <1>22 DEF TurnUnwound, DiscardIdleBarrier
<1>23. CASE ClearCheck(t)
  BY <1>1, <1>2, <1>23 DEF ClearCheck
<1>24. CASE ClearWipe(t)
  BY <1>1, <1>2, <1>24 DEF ClearWipe
<1>25. CASE ClearDone(t)
  BY <1>1, <1>2, <1>25 DEF ClearDone
<1> QED
  BY <1>3, <1>4, <1>5, <1>6, <1>7, <1>8, <1>9, <1>10, <1>11, <1>12, <1>13, <1>14, <1>15, <1>16,
                                        <1>17, <1>18, <1>19, <1>20, <1>21, <1>22, <1>23, <1>24,
                                        <1>25 DEF Step

(* The locks and their registries are of their types at every step.        *)
LEMMA NextLocksTyped ==
    ASSUME Typed, HeldOK, RefsOK, ControlOK, Next
    PROVE  LocksTyped' /\ RegistriesTyped'
<1> USE DEF Typed
<1>1. ASSUME NEW t \in Tasks, Step(t)
      PROVE  LocksTyped' /\ RegistriesTyped'
  BY <1>1, StepLocksTyped, StepBarrierTyped DEF RegistriesTyped
<1>2. ASSUME NEW t \in Tasks, NEW u \in Users, StartCall(t, u) \/ SendCall(t, u) \/ ClearCall(t, u)
      PROVE  LocksTyped' /\ RegistriesTyped'
  BY <1>2, EnterLocksTyped DEF StartCall, SendCall, ClearCall
<1>3. CASE Gathered
  <2>1. Barrier \in Locks
    BY <1>3, BarrierIs DEF Gathered
  <2>2. [lock EXCEPT ![Barrier].queue = Append(@, Deleter)] \in [Locks -> LockType]
    BY <2>1, QueuedIs DEF LocksTyped
  <2> QED
    BY <1>3, <2>1, <2>2 DEF Gathered, LocksTyped, RegistriesTyped
<1>4. CASE CleanupBegins
  <2>1. LocksTyped'
    <3>1. CASE deletion.barrier \in Locks
      BY <1>4, <3>1, TakenIs DEF CleanupBegins, LocksTyped
    <3>2. CASE deletion.barrier \notin Locks
      BY <1>4, <3>2 DEF CleanupBegins, Taken, LocksTyped
    <3> QED
      BY <3>1, <3>2
  <2> QED
    BY <1>4, <2>1 DEF CleanupBegins, RegistriesTyped
<1>5. CASE CleanupEnds
  BY <1>5, WithoutIs DEF CleanupEnds, LocksTyped, RegistriesTyped, DiscardIdleBarrier
<1>6. ASSUME AbortRead \/ AbortMark \/ Delete \/ MarkDeleting \/ DetachedWrites \/ \E u \in Users : AbortCall(u)
      PROVE  UNCHANGED registries
  BY <1>6 DEF AbortRead, AbortMark, Delete, MarkDeleting, DetachedWrites, AbortCall
<1> QED
  BY <1>1, <1>2, <1>3, <1>4, <1>5, <1>6 DEF Next, Deletion, LocksTyped, RegistriesTyped, registries

(* The rows are of their type, and so is what the rest of the state holds. *)
LEMMA NewStatus ==
    ASSUME RowsTyped, NEW id, NEW status \in {"pending", "completed", "failed"}
    PROVE  WithStatus(id, status) \subseteq RowType
  BY DEF WithStatus, RowsTyped, RowType

(* A step of a handler keeps the rows of their type.                       *)
LEMMA StepRowsTyped ==
    ASSUME TasksTyped, RowsTyped, NEW t \in Tasks, Step(t)
    PROVE  RowsTyped'
<1>1. task[t].user \in Users /\ task[t].session \in 0..MaxSessions
  BY DEF TasksTyped, TaskType
<1>2. ASSUME lastRow < MaxRows
      PROVE  /\ lastRow + 1 \in 0..MaxRows
             /\ NewRow(t, "pending", 0, FALSE) \in RowType
             /\ NewRow(t, "completed", task[t].session, TRUE) \in RowType
  BY <1>1, <1>2, BoundsAssumption DEF RowsTyped, NewRow, RowType
<1>3. rows \subseteq RowType /\ lastRow \in 0..MaxRows /\ lastSession \in 0..MaxSessions
  BY DEF RowsTyped
<1>4. ASSUME SaveStart(t)
      PROVE  rows' \subseteq RowType /\ lastRow' \in 0..MaxRows
  BY <1>1, <1>2, <1>3, <1>4 DEF SaveStart
<1>5. ASSUME UNCHANGED chatVars
      PROVE  RowsTyped'
  BY <1>5 DEF RowsTyped, chatVars
<1>6. CASE LockTaken(t)
  BY <1>5, <1>6 DEF LockTaken
<1>7. CASE BarrierTaken(t)
  BY <1>5, <1>7 DEF BarrierTaken
<1>8. CASE StartLook(t)
  BY <1>5, <1>8 DEF StartLook
<1>9. CASE StartChoose(t)
  BY <1>5, <1>9 DEF StartChoose
<1>10. CASE StartPrepared(t)
  BY <1>5, <1>10 DEF StartPrepared
<1>11. CASE StartCreated(t)
  BY <1>3, <1>11, BoundsAssumption DEF StartCreated, RowsTyped
<1>12. CASE StartSaved(t)
  BY <1>3, <1>4, <1>12 DEF StartSaved, RowsTyped
<1>13. CASE SendCheck(t)
  BY <1>5, <1>13 DEF SendCheck
<1>14. CASE SendPair(t)
  <2>1. CASE lastRow < MaxRows /\ lastRow' = lastRow + 1 /\ rows' = rows \union {NewRow(t, "pending", 0, FALSE)}
    <3>1. NewRow(t, "pending", 0, FALSE) \in RowType /\ lastRow + 1 \in 0..MaxRows
      BY <1>2, <2>1, BoundsAssumption
    <3> QED
      BY <1>3, <1>14, <2>1, <3>1 DEF SendPair, RowsTyped
  <2>2. CASE UNCHANGED <<rows, lastRow>>
    BY <1>3, <1>14, <2>2 DEF SendPair, RowsTyped
  <2> QED
    BY <1>14, <2>1, <2>2 DEF SendPair
<1>15. CASE TurnBegin(t)
  BY <1>5, <1>15 DEF TurnBegin
<1>16. CASE TurnLook(t)
  BY <1>5, <1>16 DEF TurnLook
<1>17. CASE TurnPrepared(t)
  BY <1>5, <1>17 DEF TurnPrepared
<1>18. CASE TurnAnswered(t)
  BY <1>3, <1>18, BoundsAssumption DEF TurnAnswered, RowsTyped
<1>19. CASE TurnStatus(t)
  BY <1>5, <1>19 DEF TurnStatus
<1>20. CASE TurnComplete(t)
  BY <1>1, <1>3, <1>20 DEF TurnComplete, RowsTyped, RowType
<1>21. CASE TurnClose(t)
  BY <1>3, <1>21, NewStatus DEF TurnClose, Closed, RowsTyped
<1>22. CASE TurnFail(t)
  BY <1>3, <1>22, NewStatus DEF TurnFail, RowsTyped
<1>23. CASE StartCancelled(t)
  BY <1>3, <1>4, <1>23 DEF StartCancelled, RowsTyped
<1>24. CASE TurnCancelled(t)
  BY <1>5, <1>24 DEF TurnCancelled
<1>25. CASE TurnUnwound(t)
  BY <1>3, <1>25, NewStatus DEF TurnUnwound, RowsTyped
<1>26. CASE ClearCheck(t)
  BY <1>5, <1>26 DEF ClearCheck
<1>27. CASE ClearWipe(t)
  BY <1>3, <1>27 DEF ClearWipe, RowsTyped
<1>28. CASE ClearDone(t)
  BY <1>5, <1>28 DEF ClearDone
<1> QED
  BY <1>6, <1>7, <1>8, <1>9, <1>10, <1>11, <1>12, <1>13, <1>14, <1>15, <1>16, <1>17, <1>18, <1>19,
                                        <1>20, <1>21, <1>22, <1>23, <1>24, <1>25, <1>26, <1>27,
                                        <1>28 DEF Step

(* It keeps the types of what the other handlers share with it.            *)
LEMMA StepRestTyped ==
    ASSUME TasksTyped, AbortsTyped, RestTyped, NEW t \in Tasks, Step(t)
    PROVE  AbortsTyped' /\ RestTyped'
<1>1. task[t].user \in Users
  BY DEF TasksTyped, TaskType
<1>2. signal' \in {signal, [signal EXCEPT ![task[t].user] = 0]} /\ UNCHANGED abortVars
  BY DEF Step, LockTaken, BarrierTaken, StartLook, StartChoose, StartPrepared, StartCreated,
         StartSaved, SendCheck, SendPair, TurnBegin, TurnLook, TurnPrepared, TurnAnswered,
         TurnStatus, TurnComplete, TurnClose, TurnFail, StartCancelled, TurnCancelled, TurnUnwound,
         ClearCheck, ClearWipe, ClearDone, FinishTurn
<1>3. tracked' \in {tracked, tracked \union {t}, tracked \ {t}} /\ UNCHANGED deletionVars
  BY DEF Step, LockTaken, BarrierTaken, StartLook, StartChoose, StartPrepared, StartCreated,
         StartSaved, SendCheck, SendPair, TurnBegin, TurnLook, TurnPrepared, TurnAnswered,
         TurnStatus, TurnComplete, TurnClose, TurnFail, StartCancelled, TurnCancelled, TurnUnwound,
         ClearCheck, ClearWipe, ClearDone, FinishTurn, Finish
<1>4. files' \in {files, files \union {task[t].user}} /\ detached' \in {detached, detached \union {task[t].user}}
  BY DEF Step, LockTaken, BarrierTaken, StartLook, StartChoose, StartPrepared, StartCreated,
         StartSaved, SendCheck, SendPair, TurnBegin, TurnLook, TurnPrepared, TurnAnswered,
         TurnStatus, TurnComplete, TurnClose, TurnFail, StartCancelled, TurnCancelled, TurnUnwound,
         ClearCheck, ClearWipe, ClearDone, MayDetach, fileVars
<1>5. AbortsTyped'
  BY <1>1, <1>2 DEF AbortsTyped, abortVars
<1> QED
  BY <1>1, <1>3, <1>4, <1>5 DEF RestTyped, deletionVars

(* Every variable is of its type after every step.                         *)
LEMMA NextTyped ==
    ASSUME Typed, HeldOK, RefsOK, ControlOK, RowsOK, Next
    PROVE  Typed'
<1> USE DEF Typed
<1>1. TasksTyped' /\ LocksTyped' /\ RegistriesTyped'
  BY NextTasksTyped, NextLocksTyped
<1>2. ASSUME NEW t \in Tasks, Step(t)
      PROVE  RowsTyped' /\ AbortsTyped' /\ RestTyped'
  BY <1>2, StepRowsTyped, StepRestTyped
<1>3. ASSUME NEW t \in Tasks, NEW u \in Users, StartCall(t, u) \/ SendCall(t, u) \/ ClearCall(t, u)
      PROVE  RowsTyped' /\ AbortsTyped' /\ RestTyped'
  BY <1>3 DEF StartCall, SendCall, ClearCall, RowsTyped, AbortsTyped, RestTyped, chatVars,
              abortVars,
              deletionVars, fileVars
<1>4. ASSUME NEW u \in Users, AbortCall(u)
      PROVE  RowsTyped' /\ AbortsTyped' /\ RestTyped'
  <2>1. Sends(u) \in Nat
    <3> DEFINE sends == {t \in Tasks : task[t].user = u /\ task[t].kind = "send"
                                       /\ task[t].pc \in {"lock", "send", "pair"}}
    <3>1. sends \subseteq EngagedOf(u)
      BY DEF EngagedOf, Engaged
    <3>2. IsFiniteSet(sends)
      BY <3>1, FS_Subset DEF RefsOK
    <3> QED
      BY <3>2, FS_CardinalityType DEF Sends
  <2>2. lastRow + 1 + Sends(u) \in Nat
    BY <2>1, BoundsAssumption DEF RowsTyped
  <2>3. AbortsTyped'
    BY <1>4, <2>2, BoundsAssumption DEF AbortCall, AbortsTyped
  <2> QED
    BY <1>4, <2>3 DEF AbortCall, RowsTyped, RestTyped, chatVars, deletionVars, fileVars
<1>5. ASSUME AbortRead
      PROVE  RowsTyped' /\ AbortsTyped' /\ RestTyped'
  <2>1. {r.id : r \in {x \in rows : x.user = abort.user /\ x.status = "pending"}} \subseteq 1..MaxRows
    BY DEF RowsTyped, RowType
  <2>2. NoAbort \in [pc : {"idle", "read", "mark"}, user : Users, pending : SUBSET (1..MaxRows)]
    BY NamesAssumption DEF NoAbort, Idle
  <2>3. AbortsTyped'
    BY <1>5, <2>1, <2>2 DEF AbortRead, AbortsTyped
  <2> QED
    BY <1>5, <2>3 DEF AbortRead, RowsTyped, RestTyped, chatVars, deletionVars, fileVars
<1>6. ASSUME AbortMark
      PROVE  RowsTyped' /\ AbortsTyped' /\ RestTyped'
  <2>1. PICK id \in abort.pending : /\ rows' = WithStatus(id, "failed")
                                    /\ abort' \in {NoAbort, [abort EXCEPT !.pending = @ \ {id}]}
    BY <1>6 DEF AbortMark
  <2>2. NoAbort \in [pc : {"idle", "read", "mark"}, user : Users, pending : SUBSET (1..MaxRows)]
    BY NamesAssumption DEF NoAbort, Idle
  <2>3. AbortsTyped'
    BY <1>6, <2>1, <2>2 DEF AbortMark, AbortsTyped
  <2>4. RowsTyped'
    BY <1>6, <2>1, NewStatus DEF AbortMark, RowsTyped
  <2> QED
    BY <1>6, <2>3, <2>4 DEF AbortMark, RestTyped, deletionVars, fileVars
<1>7. ASSUME Delete \/ MarkDeleting \/ CleanupBegins \/ CleanupEnds \/ DetachedWrites
      PROVE  RowsTyped' /\ AbortsTyped' /\ RestTyped'
  <2>1. RowsTyped' /\ AbortsTyped'
    BY <1>7 DEF Delete, MarkDeleting, CleanupBegins, CleanupEnds, DetachedWrites, RowsTyped,
                AbortsTyped,
                chatVars, abortVars
  <2>2. RestTyped'
    <3>1. CASE Delete
      BY <3>1 DEF Delete, RestTyped, fileVars
    <3>2. CASE MarkDeleting
      BY <3>2 DEF MarkDeleting, RestTyped, fileVars
    <3>3. CASE CleanupBegins
      BY <3>3 DEF CleanupBegins, RestTyped, fileVars
    <3>4. CASE CleanupEnds
      BY <3>4 DEF CleanupEnds, RestTyped
    <3>5. CASE DetachedWrites
      BY <3>5 DEF DetachedWrites, RestTyped, deletionVars
    <3> QED
      BY <1>7, <3>1, <3>2, <3>3, <3>4, <3>5
  <2> QED
    BY <2>1, <2>2
<1>8. ASSUME Gathered
      PROVE  RowsTyped' /\ AbortsTyped' /\ RestTyped'
  <2>1. Barrier \in Locks
    BY <1>8, BarrierIs DEF Gathered
  <2> QED
    BY <1>8, <2>1 DEF Gathered, RowsTyped, AbortsTyped, RestTyped, chatVars, abortVars, fileVars
<1> QED
  BY <1>1, <1>2, <1>3, <1>4, <1>5, <1>6, <1>7, <1>8 DEF Next, Deletion

-----------------------------------------------------------------------------
(* Whom the deletion can cancel, and what it need not wait for, stays so.  *)
LEMMA StepControl ==
    ASSUME TasksTyped, ControlOK, DeletionOK, NEW t \in Tasks, Step(t)
    PROVE  ControlOK' /\ DeletionOK'
<1> DEFINE New == /\ Others(t) /\ tracked' \subseteq tracked \union {t} /\ tracked \subseteq tracked' \union {t}
                  /\ AtPoint(task'[t])
                  /\ t \in tracked' \/ task'[t].cancelled =>
                        task'[t].kind \in {"start", "turn"} /\ task'[t].pc # "idle"
                  /\ deletion.pc \in {"none", "unlink"} /\ task'[t].kind \in {"start", "turn"}
                     /\ task'[t].pc # "idle" => t \in tracked'
                  /\ deletion.pc \notin {"none", "unlink"} /\ Making(t)' => task'[t].cancelled
                  /\ task'[t].cancelled => deletion.pc = "gather"
<1>1. /\ task[t] \in TaskType /\ task \in [Tasks -> TaskType]
      /\ AtPoint(task[t])
      /\ t \in tracked \/ task[t].cancelled => task[t].kind \in {"start", "turn"} /\ task[t].pc # "idle"
      /\ deletion.pc \in {"none", "unlink"} /\ task[t].kind \in {"start", "turn"} /\ task[t].pc # "idle" =>
            t \in tracked
      /\ deletion.pc \notin {"none", "unlink"} /\ Making(t) => task[t].cancelled
      /\ task[t].cancelled => deletion.pc = "gather"
      /\ job <=> deletion.pc = "none"
  BY DEF TasksTyped, ControlOK, DeletionOK
<1>2. ASSUME NEW pc, Goto(t, pc)
      PROVE  /\ Others(t) /\ task'[t].pc = pc /\ task'[t].kind = task[t].kind
             /\ task'[t].cancelled = task[t].cancelled
  BY <1>1, <1>2 DEF Goto, Others
<1>3. ASSUME NEW pc, NEW session, task' = [task EXCEPT ![t].pc = pc, ![t].session = session]
      PROVE  /\ Others(t) /\ task'[t].pc = pc /\ task'[t].kind = task[t].kind
             /\ task'[t].cancelled = task[t].cancelled
  BY <1>1, <1>3 DEF Others
<1>4. ASSUME Finish(t) \/ FinishTurn(t)
      PROVE  New
  BY <1>1, <1>4 DEF Finish, FinishTurn, Others, Idle, Making, AtPoint
<1>5. ASSUME NEW u, NEW kind, NEW row, NEW session, Enter(t, u, kind, row, session)
      PROVE  Others(t) /\ task'[t].pc = "lock" /\ task'[t].kind = kind /\ ~task'[t].cancelled
  BY <1>1, <1>5 DEF Enter, Idle, Others
<1>6. New
  <2> USE DEF AtPoint, Making, At, deletionVars
  <2>1. CASE LockTaken(t)
    BY <1>1, <1>2, <2>1 DEF LockTaken, Others, TaskType
  <2>2. CASE BarrierTaken(t)
    BY <1>1, <1>2, <1>4, <2>2 DEF BarrierTaken
  <2>3. CASE StartLook(t)
    BY <1>1, <1>2, <1>4, <2>3 DEF StartLook
  <2>4. CASE StartChoose(t)
    BY <1>1, <1>2, <1>4, <2>4 DEF StartChoose
  <2>5. CASE StartPrepared(t)
    BY <1>1, <1>2, <1>4, <2>5 DEF StartPrepared
  <2>6. CASE StartCreated(t)
    BY <1>1, <1>3, <1>4, <2>6 DEF StartCreated
  <2>7. CASE StartSaved(t)
    BY <1>1, <1>4, <2>7 DEF StartSaved
  <2>8. CASE SendCheck(t)
    BY <1>1, <1>2, <1>4, <2>8 DEF SendCheck
  <2>9. CASE SendPair(t)
    <3>1. CASE Finish(t)
      BY <1>4, <3>1
    <3>2. CASE /\ UNCHANGED tracked
               /\ task' = [task EXCEPT ![t] = [Idle EXCEPT !.pc = "queued", !.kind = "send",
                                                          !.user = task[t].user, !.row = lastRow + 1]]
      <4>1. Others(t) /\ task'[t].pc = "queued" /\ task'[t].kind = "send" /\ ~task'[t].cancelled
        BY <1>1, <3>2 DEF Idle, Others
      <4>2. t \notin tracked
        BY <1>1, <2>9 DEF SendPair
      <4> QED
        BY <3>2, <4>1, <4>2
    <3> QED
      BY <2>9, <3>1, <3>2 DEF SendPair
  <2>10. CASE TurnBegin(t)
    BY <1>1, <1>5, <2>10 DEF TurnBegin
  <2>11. CASE TurnLook(t)
    BY <1>1, <1>2, <1>3, <2>11 DEF TurnLook
  <2>12. CASE TurnPrepared(t)
    BY <1>1, <1>2, <2>12 DEF TurnPrepared
  <2>13. CASE TurnAnswered(t)
    BY <1>1, <1>2, <1>3, <2>13 DEF TurnAnswered
  <2>14. CASE TurnStatus(t)
    BY <1>1, <1>2, <1>4, <2>14 DEF TurnStatus
  <2>15. CASE TurnComplete(t)
    <3>1. CASE Goto(t, "close") /\ tracked' = tracked
      <4>1. /\ Others(t) /\ task'[t].pc = "close" /\ task'[t].kind = "turn" /\ task[t].kind = "turn"
            /\ task'[t].cancelled = task[t].cancelled /\ task[t].pc # "idle"
        BY <1>1, <1>2, <2>15, <3>1 DEF TurnComplete
      <4> QED
        BY <1>1, <3>1, <4>1
    <3>2. CASE FinishTurn(t)
      BY <1>4, <3>2
    <3> QED
      BY <2>15, <3>1, <3>2 DEF TurnComplete
  <2>16. CASE TurnClose(t)
    BY <1>1, <1>4, <2>16 DEF TurnClose
  <2>17. CASE TurnFail(t)
    BY <1>1, <1>4, <2>17 DEF TurnFail
  <2>18. CASE StartCancelled(t)
    BY <1>1, <1>4, <2>18 DEF StartCancelled
  <2>19. CASE TurnCancelled(t)
    <3>1. CASE Goto(t, "unwinding") /\ tracked' = tracked
      <4>1. /\ Others(t) /\ task'[t].pc = "unwinding" /\ task'[t].kind = "turn" /\ task[t].kind = "turn"
            /\ task'[t].cancelled = task[t].cancelled /\ task[t].pc # "idle"
        BY <1>1, <1>2, <2>19, <3>1 DEF TurnCancelled
      <4> QED
        BY <1>1, <3>1, <4>1
    <3>2. CASE FinishTurn(t)
      BY <1>4, <3>2
    <3> QED
      BY <2>19, <3>1, <3>2 DEF TurnCancelled
  <2>20. CASE TurnUnwound(t)
    BY <1>1, <2>20 DEF TurnUnwound, Idle, Others
  <2>21. CASE ClearCheck(t)
    BY <1>1, <1>2, <1>4, <2>21 DEF ClearCheck
  <2>22. CASE ClearWipe(t)
    BY <1>1, <1>2, <2>22 DEF ClearWipe
  <2>23. CASE ClearDone(t)
    BY <1>1, <1>4, <2>23 DEF ClearDone
  <2> QED
    BY <2>1, <2>2, <2>3, <2>4, <2>5, <2>6, <2>7, <2>8, <2>9, <2>10, <2>11, <2>12, <2>13, <2>14,
                                        <2>15, <2>16, <2>17, <2>18, <2>19, <2>20, <2>21, <2>22,
                                        <2>23 DEF Step
<1>7. UNCHANGED deletionVars
  BY DEF Step, LockTaken, BarrierTaken, StartLook, StartChoose, StartPrepared, StartCreated,
         StartSaved, SendCheck, SendPair, TurnBegin, TurnLook, TurnPrepared, TurnAnswered,
         TurnStatus, TurnComplete, TurnClose, TurnFail, StartCancelled, TurnCancelled, TurnUnwound,
         ClearCheck, ClearWipe, ClearDone
<1>8. \/ files' = files /\ detached \subseteq detached'
      \/ (Making(t) \/ job) /\ ~task[t].cancelled /\ detached' = detached
  BY <1>1 DEF Step, LockTaken, BarrierTaken, StartLook, StartChoose, StartPrepared, StartCreated,
              StartSaved, SendCheck, SendPair, TurnBegin, TurnLook, TurnPrepared, TurnAnswered,
              TurnStatus, TurnComplete, TurnClose, TurnFail, StartCancelled, TurnCancelled,
              TurnUnwound, ClearCheck, ClearWipe, ClearDone, At, MayDetach, fileVars, Making
<1>9. CleanupIsComplete'
  BY <1>1, <1>7, <1>8 DEF DeletionOK, CleanupIsComplete, deletionVars
<1> QED
  <2>1. ASSUME NEW s \in Tasks \ {t}
        PROVE  task'[s] = task[s] /\ (s \in tracked' <=> s \in tracked) /\ Making(s)' = Making(s)
    BY <1>6 DEF Others, Making
  <2>2. ControlOK'
    BY <1>6, <2>1 DEF ControlOK
  <2> QED
    BY <1>6, <1>7, <1>9, <2>1, <2>2 DEF DeletionOK, deletionVars

(* So it stays at the steps of the callers, of Abort and of the deletion.  *)
LEMMA NextControl ==
    ASSUME Typed, ControlOK, DeletionOK, Next
    PROVE  ControlOK' /\ DeletionOK'
<1> USE DEF Typed
<1>1. ASSUME NEW t \in Tasks, Step(t)
      PROVE  ControlOK' /\ DeletionOK'
  BY <1>1, StepControl
<1>2. ASSUME NEW t \in Tasks, NEW u \in Users, StartCall(t, u) \/ SendCall(t, u) \/ ClearCall(t, u)
      PROVE  ControlOK' /\ DeletionOK'
  <2>1. /\ Others(t) /\ task'[t].pc = "lock" /\ ~task'[t].cancelled
        /\ \/ task'[t].kind = "start" /\ tracked' = tracked \union {t}
           \/ task'[t].kind \in {"send", "clear"} /\ tracked' = tracked
        /\ UNCHANGED <<deletionVars, fileVars>>
    <3>1. ASSUME NEW kind, NEW row, NEW session, Enter(t, u, kind, row, session)
          PROVE  Others(t) /\ task'[t].pc = "lock" /\ task'[t].kind = kind /\ ~task'[t].cancelled
      BY <3>1 DEF Enter, Idle, Others, TasksTyped
    <3> QED
      BY <1>2, <3>1 DEF StartCall, SendCall, ClearCall
  <2>2. t \notin tracked
    BY <1>2 DEF ControlOK, StartCall, SendCall, ClearCall
  <2>3. ASSUME NEW s \in Tasks \ {t}
        PROVE  task'[s] = task[s] /\ (s \in tracked' <=> s \in tracked) /\ Making(s)' = Making(s)
    BY <2>1 DEF Others, Making
  <2>4. ~Making(t)'
    BY <2>1 DEF Making
  <2>5. ControlOK'
    BY <2>1, <2>2, <2>3 DEF ControlOK, AtPoint
  <2> QED
    BY <2>1, <2>2, <2>3, <2>4, <2>5 DEF DeletionOK, CleanupIsComplete, deletionVars, fileVars
<1>3. ASSUME AbortRead \/ AbortMark \/ \E u \in Users : AbortCall(u)
      PROVE  ControlOK' /\ DeletionOK'
  <2>1. UNCHANGED <<task, tracked, deletionVars, fileVars>>
    BY <1>3 DEF AbortRead, AbortMark, AbortCall
  <2> QED
    BY <2>1 DEF ControlOK, DeletionOK, CleanupIsComplete, Making, deletionVars, fileVars
<1>4. ASSUME Delete
      PROVE  ControlOK' /\ DeletionOK'
  BY <1>4 DEF Delete, ControlOK, DeletionOK, CleanupIsComplete
<1>5. ASSUME MarkDeleting
      PROVE  ControlOK' /\ DeletionOK'
  <2>1. \A t \in Tasks : /\ task'[t].pc = task[t].pc /\ task'[t].kind = task[t].kind
                         /\ task'[t].cancelled <=> t \in tracked
    BY <1>5 DEF MarkDeleting, Cancelled, TasksTyped, TaskType
  <2>2. deletion.pc = "unlink" /\ deletion'.pc = "gather" /\ UNCHANGED <<job, tracked, files, detached>>
    BY <1>5 DEF MarkDeleting, fileVars
  <2>3. \A t \in Tasks : Making(t)' => t \in tracked
    BY <2>1, <2>2 DEF DeletionOK, Making
  <2> QED
    <3>1. ControlOK'
      BY <2>1, <2>2 DEF ControlOK, AtPoint
    <3>2. DeletionOK'
      BY <2>1, <2>2, <2>3 DEF DeletionOK, CleanupIsComplete
    <3> QED
      BY <3>1, <3>2
<1>6. ASSUME Gathered \/ CleanupBegins
      PROVE  ControlOK' /\ DeletionOK'
  <2>1. /\ deletion.pc \in {"gather", "barrier"} /\ deletion'.pc \in {"barrier", "clean"}
        /\ UNCHANGED <<job, tracked, task, files, detached>>
        /\ deletion.pc = "gather" => \A t \in Tasks : ~task[t].cancelled
    BY <1>6 DEF Gathered, CleanupBegins, RestTyped, fileVars
  <2> QED
    BY <2>1 DEF ControlOK, DeletionOK, CleanupIsComplete, Making
<1>7. ASSUME CleanupEnds
      PROVE  ControlOK' /\ DeletionOK'
  BY <1>7 DEF CleanupEnds, ControlOK, DeletionOK, CleanupIsComplete, Making
<1>8. ASSUME DetachedWrites
      PROVE  ControlOK' /\ DeletionOK'
  BY <1>8 DEF DetachedWrites, ControlOK, DeletionOK, CleanupIsComplete, Making, deletionVars
<1> QED
  BY <1>1, <1>2, <1>3, <1>4, <1>5, <1>6, <1>7, <1>8 DEF Next, Deletion

-----------------------------------------------------------------------------
(* A row is one that was there, or one that t has just inserted.           *)
OldOrNew(t) ==
    \A x \in rows' :
        \/ \E r \in rows : x.id = r.id /\ x.user = r.user /\ x.start = r.start /\ (x.start => x.session = r.session)
        \/ x.id = lastRow + 1 /\ (x.start => x.user = task[t].user /\ InSection(t))

(* The rows stay in order when some of them fail, *)
LEMMA FailedRows ==
    ASSUME RowsTyped, RowsOK, NEW id, rows' \in {rows, WithStatus(id, "failed")}, lastRow' = lastRow,
           lastSession' \in Nat, lastSession <= lastSession'
    PROVE  /\ RowsOK'
           /\ \A x \in rows' : \E r \in rows : /\ x.id = r.id /\ x.user = r.user /\ x.start = r.start
                                               /\ x.session = r.session
<1> DEFINE f(r) == IF r.id = id /\ rows' # rows THEN [r EXCEPT !.status = "failed"] ELSE r
<1>1. rows' = {f(r) : r \in rows}
  BY DEF WithStatus
<1>2. ASSUME NEW r \in rows
      PROVE  /\ f(r) \in rows' /\ f(r).id = r.id /\ f(r).user = r.user /\ f(r).session = r.session
             /\ f(r).start = r.start /\ f(r).status \in {r.status, "failed"}
             /\ r.id \in 1..MaxRows /\ r.session \in 0..MaxSessions /\ r.user \in Users
  <2>1. r \in RowType
    BY DEF RowsTyped
  <2> QED
    BY <1>1, <2>1 DEF RowType
<1> HIDE DEF f
<1>3. \A x \in rows' : \E r \in rows : x = f(r)
  BY <1>1
<1>4. \A r \in rows' : r.id <= lastRow' /\ r.session <= lastSession'
  BY <1>2, <1>3, BoundsAssumption DEF RowsOK, RowsTyped
<1>5. \A r, s \in rows' : r.id = s.id => r = s
  BY <1>2, <1>3 DEF RowsOK
<1>6. \A r \in rows' : r.start => r.session # 0 /\ r.status # "pending"
  BY <1>2, <1>3 DEF RowsOK
<1>7. ASSUME NEW u \in Users, NamedOf(u)' # {}
      PROVE  \E r \in NamedOf(u)' : \A s \in NamedOf(u)' : s.id <= r.id
  <2>1. \A x \in NamedOf(u)' : \E r \in NamedOf(u) : x = f(r)
    BY <1>2, <1>3 DEF NamedOf
  <2>2. PICK r \in NamedOf(u) : \A s \in NamedOf(u) : s.id <= r.id
    BY <1>7, <2>1 DEF RowsOK
  <2>3. f(r) \in NamedOf(u)'
    BY <1>2 DEF NamedOf
  <2>4. \A s \in NamedOf(u) : f(s).id = s.id
    BY <1>2 DEF NamedOf
  <2> QED
    BY <2>1, <2>2, <2>3, <2>4
<1>8. \A r, s \in rows' : r.start /\ s.session # 0 /\ r.user = s.user /\ r.id < s.id => r.session <= s.session
  BY <1>2, <1>3 DEF RowsOK
<1>9. \A x \in rows' : \E r \in rows : x.id = r.id /\ x.user = r.user /\ x.start = r.start /\ x.session = r.session
  BY <1>2, <1>3
<1> QED
  BY <1>4, <1>5, <1>6, <1>7, <1>8, <1>9 DEF RowsOK

(* or go, *)
LEMMA WipedRows ==
    ASSUME RowsTyped, RowsOK, NEW u, rows' = {r \in rows : r.user # u}, lastRow' = lastRow,
           lastSession' = lastSession
    PROVE  RowsOK'
<1>1. ASSUME NEW v \in Users, NamedOf(v)' # {}
      PROVE  \E r \in NamedOf(v)' : \A s \in NamedOf(v)' : s.id <= r.id
  <2>1. NamedOf(v)' = NamedOf(v)
    BY <1>1 DEF NamedOf
  <2> QED
    BY <1>1, <2>1 DEF RowsOK
<1> QED
  BY <1>1 DEF RowsOK

(* when a message or a Start is inserted, *)
LEMMA InsertedRows ==
    ASSUME RowsTyped, RowsOK, NEW t \in Tasks, NEW status, NEW s \in Nat, NEW start \in BOOLEAN,
           task[t].user \in Users,
           rows' = rows \union {NewRow(t, status, s, start)}, lastRow' = lastRow + 1,
           lastSession' = lastSession, s <= lastSession,
           start => s # 0 /\ status # "pending",
           s # 0 => Knows(task[t].user, s)
    PROVE  RowsOK'
<1> DEFINE new == NewRow(t, status, s, start)
<1>1. /\ new.id = lastRow + 1 /\ new.user = task[t].user /\ new.session = s /\ new.start = start
      /\ new.status = status
  BY DEF NewRow
<1>2. rows' = rows \union {new}
  OBVIOUS
<1> HIDE DEF new
<1>3. lastRow \in Nat /\ lastSession \in Nat
  BY BoundsAssumption DEF RowsTyped
<1>4. \A r \in rows : r.id \in Nat /\ r.session \in Nat /\ r.id <= lastRow /\ r.id # new.id
  BY <1>1, <1>3, BoundsAssumption DEF RowsTyped, RowType, RowsOK
<1>5. \A r \in rows' : r.id <= lastRow' /\ r.session <= lastSession'
  BY <1>1, <1>2, <1>3, <1>4 DEF RowsOK
<1>6. \A r, x \in rows' : r.id = x.id => r = x
  BY <1>2, <1>4 DEF RowsOK
<1>7. \A r \in rows' : r.start => r.session # 0 /\ r.status # "pending"
  BY <1>1, <1>2 DEF RowsOK
<1>8. ASSUME NEW v \in Users, NamedOf(v)' # {}
      PROVE  \E r \in NamedOf(v)' : \A x \in NamedOf(v)' : x.id <= r.id
  <2>1. CASE v = task[t].user /\ s # 0
    <3>1. new \in NamedOf(v)'
      BY <1>1, <1>2, <2>1 DEF NamedOf
    <3>2. \A x \in NamedOf(v)' : x.id <= new.id
      BY <1>1, <1>2, <1>3, <1>4 DEF NamedOf
    <3> QED
      BY <3>1, <3>2
  <2>2. CASE ~(v = task[t].user /\ s # 0)
    <3>1. NamedOf(v)' = NamedOf(v)
      BY <1>1, <1>2, <2>2 DEF NamedOf
    <3> QED
      BY <1>8, <3>1 DEF RowsOK
  <2> QED
    BY <2>1, <2>2
<1>9. \A r, x \in rows' : r.start /\ x.session # 0 /\ r.user = x.user /\ r.id < x.id => r.session <= x.session
  <2> SUFFICES ASSUME NEW r \in rows', NEW x \in rows', r.start, x.session # 0, r.user = x.user, r.id < x.id
               PROVE  r.session <= x.session
    OBVIOUS
  <2>1. r \in rows
    BY <1>1, <1>2, <1>3, <1>4
  <2>2. CASE x \in rows
    BY <2>1, <2>2 DEF RowsOK
  <2>3. CASE x = new
    BY <1>1, <2>1, <2>3 DEF Knows
  <2> QED
    BY <1>2, <2>2, <2>3
<1> QED
  BY <1>5, <1>6, <1>7, <1>8, <1>9 DEF RowsOK

(* or are answered with a session that is new enough.                     *)
Answered(id, latest) ==
    {IF r.id = id THEN [r EXCEPT !.status = "completed", !.session = latest] ELSE r : r \in rows}

(* The rows stay in order when a message is answered.                      *)
LEMMA AnsweredRows ==
    ASSUME RowsTyped, RowsOK, NEW id \in Nat, NEW latest \in Nat \ {0}, NEW v \in Users,
           \A r \in rows : r.id = id => r.user = v /\ ~r.start,
           rows' = Answered(id, latest),
           lastRow' = lastRow, lastSession' = lastSession, latest <= lastSession, Knows(v, latest)
    PROVE  /\ RowsOK'
           /\ \A x \in rows' : \E r \in rows : /\ x.id = r.id /\ x.user = r.user /\ x.start = r.start
                                               /\ x.start => x.session = r.session
<1> DEFINE Now(r, x) == /\ x.id = r.id /\ x.user = r.user /\ x.start = r.start
                        /\ r.id # id => x = r
                        /\ r.id = id => x.session = latest
<1>1. \A r \in rows : /\ r.id \in Nat /\ r.session \in Nat /\ r.user \in Users
                      /\ r.id <= lastRow /\ r.session <= lastSession
  BY BoundsAssumption DEF RowsTyped, RowType, RowsOK
<1>2. ASSUME NEW r \in rows
      PROVE  Now(r, IF r.id = id THEN [r EXCEPT !.status = "completed", !.session = latest] ELSE r)
  <2>1. r \in [id : 1..MaxRows, user : Users, status : {"pending", "completed", "failed"},
              session : 0..MaxSessions, start : BOOLEAN]
    BY DEF RowsTyped, RowType
  <2> DEFINE y == [r EXCEPT !.status = "completed", !.session = latest]
  <2>2. y.id = r.id /\ y.user = r.user /\ y.start = r.start /\ y.session = latest
    BY <2>1
  <2> HIDE DEF y
  <2>3. Now(r, IF r.id = id THEN y ELSE r)
    BY <2>2
  <2> QED
    BY <2>3 DEF y
<1> HIDE DEF Now
<1>3. \A x \in rows' : \E r \in rows : Now(r, x)
  BY <1>2 DEF Answered
<1>4. \A r \in rows : \E x \in rows' : Now(r, x)
  BY <1>2 DEF Answered
<1> USE DEF Now
<1>5. \A r \in rows' : r.id <= lastRow' /\ r.session <= lastSession'
  BY <1>1, <1>3
<1>6. \A r, s \in rows' : r.id = s.id => r = s
  <2> SUFFICES ASSUME NEW r \in rows', NEW s \in rows', r.id = s.id
               PROVE  r = s
    OBVIOUS
  <2>1. PICK a \in rows : r = IF a.id = id THEN [a EXCEPT !.status = "completed", !.session = latest] ELSE a
    BY DEF Answered
  <2>2. PICK b \in rows : s = IF b.id = id THEN [b EXCEPT !.status = "completed", !.session = latest] ELSE b
    BY DEF Answered
  <2>3. Now(a, r) /\ Now(b, s)
    BY <1>2, <2>1, <2>2
  <2>4. a = b
    BY <2>3 DEF RowsOK
  <2> QED
    BY <2>1, <2>2, <2>4
<1>7. \A r \in rows' : r.start => r.session # 0 /\ r.status # "pending"
  BY <1>3 DEF RowsOK
<1>8. ASSUME NEW u \in Users, NamedOf(u)' # {}
      PROVE  \E r \in NamedOf(u)' : \A s \in NamedOf(u)' : s.id <= r.id
  <2>1. \A x \in NamedOf(u)' : \E r \in rows : Now(r, x) /\ (r \in NamedOf(u) \/ x.id = id)
    BY <1>3 DEF NamedOf
  <2>2. CASE NamedOf(u) = {}
    <3>1. \A x \in NamedOf(u)' : x.id = id
      BY <2>1, <2>2
    <3>2. PICK x \in NamedOf(u)' : TRUE
      BY <1>8
    <3> QED
      BY <3>1, <3>2
  <2>3. CASE NamedOf(u) # {}
    <3>1. PICK r \in NamedOf(u) : \A s \in NamedOf(u) : s.id <= r.id
      BY <2>3 DEF RowsOK
    <3>2. PICK y \in NamedOf(u)' : y.id = r.id
      BY <1>4 DEF NamedOf
    <3>3. \A x \in NamedOf(u)' : x.id \in Nat /\ (x.id <= r.id \/ x.id = id)
      BY <1>1, <2>1, <3>1
    <3>4. r.id \in Nat
      BY <1>1 DEF NamedOf
    <3>5. CASE \A x \in NamedOf(u)' : x.id <= r.id
      BY <3>2, <3>5
    <3>6. CASE \E x \in NamedOf(u)' : ~(x.id <= r.id)
      <4>1. PICK x \in NamedOf(u)' : ~(x.id <= r.id)
        BY <3>6
      <4>2. x.id = id
        BY <3>3, <4>1
      <4>3. \A z \in NamedOf(u)' : z.id <= x.id
        BY <3>3, <3>4, <4>1, <4>2
      <4> QED
        BY <4>3
    <3> QED
      BY <3>5, <3>6
  <2> QED
    BY <2>2, <2>3
<1>9. \A r, s \in rows' : r.start /\ s.session # 0 /\ r.user = s.user /\ r.id < s.id => r.session <= s.session
  <2> SUFFICES ASSUME NEW r \in rows', NEW s \in rows', r.start, s.session # 0, r.user = s.user, r.id < s.id
               PROVE  r.session <= s.session
    OBVIOUS
  <2>1. PICK a \in rows : Now(a, r)
    BY <1>3
  <2>2. PICK b \in rows : Now(b, s)
    BY <1>3
  <2>3. r = a
    BY <2>1
  <2>4. CASE b.id = id
    BY <2>1, <2>2, <2>3, <2>4 DEF Knows
  <2>5. CASE b.id # id
    BY <2>2, <2>3, <2>5 DEF RowsOK
  <2> QED
    BY <2>4, <2>5
<1>10. \A x \in rows' : \E r \in rows : /\ x.id = r.id /\ x.user = r.user /\ x.start = r.start
                                        /\ x.start => x.session = r.session
  BY <1>3
<1> QED
  BY <1>5, <1>6, <1>7, <1>8, <1>9, <1>10 DEF RowsOK

(* What a step of a handler does to the rows, and to the last ids.         *)
RowsStay == UNCHANGED <<rows, lastRow>> /\ lastSession' \in {lastSession, lastSession + 1}
RowFails(t) ==
    rows' \in {rows, WithStatus(task[t].row, "failed")} /\ UNCHANGED <<lastRow, lastSession>>
StartIsSaved(t) == /\ task[t].kind = "start" /\ task[t].pc = "save"
                   /\ SaveStart(t) /\ UNCHANGED lastSession
MessageIsSent(t) == /\ rows' = rows \union {NewRow(t, "pending", 0, FALSE)}
                    /\ lastRow' = lastRow + 1 /\ UNCHANGED lastSession
MessageIsAnswered(t) == /\ task[t].kind = "turn" /\ task[t].pc = "complete"
                        /\ Completes(t) /\ rows' = Answered(task[t].row, task[t].session)
                        /\ UNCHANGED <<lastRow, lastSession>>
RowsGo(t) == rows' = {r \in rows : r.user # task[t].user} /\ UNCHANGED <<lastRow, lastSession>>
             /\ task[t].kind = "clear" /\ task[t].pc = "wipe"

(* A step of a handler does one of these things to the rows.               *)
LEMMA RowShapes ==
    ASSUME NEW t \in Tasks, Step(t)
    PROVE  \/ RowsStay \/ RowFails(t) \/ StartIsSaved(t) \/ MessageIsSent(t)
           \/ MessageIsAnswered(t) \/ RowsGo(t)
<1> USE DEF At
<1>1. ASSUME LockTaken(t) \/ BarrierTaken(t) \/ StartLook(t) \/ StartChoose(t) \/ StartPrepared(t) \/ StartCreated(t) \/ SendCheck(t) \/ TurnBegin(t) \/ TurnLook(t) \/ TurnPrepared(t) \/ TurnAnswered(t) \/ TurnStatus(t) \/ TurnCancelled(t) \/ ClearCheck(t) \/ ClearDone(t)
      PROVE  RowsStay
  BY <1>1 DEF RowsStay, chatVars, LockTaken, BarrierTaken, StartLook, StartChoose, StartPrepared,
              StartCreated, SendCheck, TurnBegin, TurnLook, TurnPrepared, TurnAnswered, TurnStatus,
              TurnCancelled, ClearCheck, ClearDone
<1>2. CASE StartSaved(t)
  BY <1>2 DEF StartSaved, StartIsSaved, RowsStay
<1>3. CASE SendPair(t)
  BY <1>3 DEF SendPair, MessageIsSent, RowsStay
<1>4. CASE TurnComplete(t)
  BY <1>4 DEF TurnComplete, MessageIsAnswered, RowsStay, Answered
<1>5. CASE TurnClose(t)
  BY <1>5 DEF TurnClose, RowFails, Closed
<1>6. CASE TurnFail(t)
  BY <1>6 DEF TurnFail, RowFails
<1>7. CASE StartCancelled(t)
  BY <1>7 DEF StartCancelled, StartIsSaved, RowsStay
<1>8. CASE TurnUnwound(t)
  BY <1>8 DEF TurnUnwound, RowFails
<1>9. CASE ClearWipe(t)
  BY <1>9 DEF ClearWipe, RowsGo
<1> QED
  BY <1>1, <1>2, <1>3, <1>4, <1>5, <1>6, <1>7, <1>8, <1>9 DEF Step

(* A step of a handler keeps the rows in order, and adds no Start but its own. *)
LEMMA StepOrder ==
    ASSUME TasksTyped, RowsTyped, RowsOK, KnowledgeOK, NEW t \in Tasks, Step(t)
    PROVE  RowsOK' /\ OldOrNew(t) /\ lastRow <= lastRow' /\ lastSession <= lastSession'
<1>1. /\ task[t].user \in Users /\ task[t].session \in Nat /\ task[t].row \in Nat
      /\ lastRow \in Nat /\ lastSession \in Nat
  BY BoundsAssumption DEF TasksTyped, TaskType, RowsTyped
<1>2. Informed(t)
  BY DEF KnowledgeOK
<1>3. CASE RowsStay \/ RowFails(t)
  <2>1. /\ rows' \in {rows, WithStatus(task[t].row, "failed")} /\ lastRow' = lastRow
        /\ lastSession' \in Nat /\ lastSession <= lastSession'
    BY <1>1, <1>3 DEF RowsStay, RowFails
  <2>2. /\ RowsOK'
        /\ \A x \in rows' : \E r \in rows : /\ x.id = r.id /\ x.user = r.user /\ x.start = r.start
                                            /\ x.session = r.session
    BY <2>1, FailedRows
  <2> QED
    BY <1>1, <2>1, <2>2 DEF OldOrNew
<1>4. CASE StartIsSaved(t)
  <2>1. /\ task[t].session # 0 /\ task[t].session <= lastSession
        /\ Knows(task[t].user, task[t].session) /\ InSection(t)
    BY <1>2, <1>4 DEF StartIsSaved, Informed, Knowing, InSection
  <2>2. /\ rows' = rows \union {NewRow(t, "completed", task[t].session, TRUE)}
        /\ lastRow' = lastRow + 1 /\ lastSession' = lastSession
    BY <1>4 DEF StartIsSaved, SaveStart
  <2>3. RowsOK'
    BY <1>1, <2>1, <2>2, InsertedRows
  <2> QED
    BY <1>1, <2>1, <2>2, <2>3 DEF OldOrNew, NewRow
<1>5. CASE MessageIsSent(t)
  <2>1. /\ rows' = rows \union {NewRow(t, "pending", 0, FALSE)}
        /\ lastRow' = lastRow + 1 /\ lastSession' = lastSession
    BY <1>5 DEF MessageIsSent
  <2>2. 0 \in Nat /\ FALSE \in BOOLEAN /\ 0 <= lastSession
    BY <1>1
  <2>3. RowsOK'
    BY <1>1, <2>1, <2>2, InsertedRows
  <2> QED
    BY <1>1, <2>1, <2>3 DEF OldOrNew, NewRow
<1>6. CASE MessageIsAnswered(t)
  <2>1. /\ task[t].session # 0 /\ task[t].session <= lastSession
        /\ Knows(task[t].user, task[t].session)
        /\ \A r \in rows : r.id = task[t].row => r.user = task[t].user
    BY <1>2, <1>6 DEF MessageIsAnswered, Informed, Knowing
  <2>2. \A r \in rows : r.id = task[t].row => ~r.start
    BY <1>6 DEF MessageIsAnswered, Completes, StatusIs, RowsOK
  <2>3. rows' = Answered(task[t].row, task[t].session) /\ lastRow' = lastRow /\ lastSession' = lastSession
    BY <1>6 DEF MessageIsAnswered
  <2>4. /\ RowsOK'
        /\ \A x \in rows' : \E r \in rows : /\ x.id = r.id /\ x.user = r.user /\ x.start = r.start
                                            /\ x.start => x.session = r.session
    BY <1>1, <2>1, <2>2, <2>3, AnsweredRows
  <2> QED
    BY <1>1, <2>3, <2>4 DEF OldOrNew
<1>7. CASE RowsGo(t)
  <2>1. RowsOK'
    BY <1>7, WipedRows DEF RowsGo
  <2> QED
    BY <1>1, <1>7, <2>1 DEF RowsGo, OldOrNew
<1> QED
  BY <1>3, <1>4, <1>5, <1>6, <1>7, RowShapes

(* What a handler knows stays true as long as no other Start of its user is saved. *)
LEMMA StillInformed ==
    ASSUME RowsTyped, NEW s \in Tasks, Informed(s), lastRow <= lastRow', lastSession <= lastSession',
           task[s].row \in Nat, task[s].session \in Nat, lastRow' \in Nat, lastSession' \in Nat,
           task'[s].kind = task[s].kind, task'[s].user = task[s].user,
           task'[s].row = task[s].row, task'[s].session = task[s].session,
           \A x \in rows' :
              \/ \E r \in rows : x.id = r.id /\ x.user = r.user /\ x.start = r.start /\ (x.start => x.session = r.session)
              \/ x.id = lastRow + 1 /\ (x.start /\ Knowing(s)' => x.user # task[s].user),
           Knowing(s)' => \/ Knowing(s)
                          \/ Knows(task[s].user, task[s].session) /\ (task[s].kind # "clear" => task[s].session # 0)
    PROVE  Informed(s)'
<1>1. lastRow \in Nat /\ lastSession \in Nat
  BY BoundsAssumption DEF RowsTyped
<1>2. task[s].row <= lastRow' /\ (task[s].kind # "clear" => task[s].session <= lastSession')
  BY <1>1 DEF Informed
<1>3. \A x \in rows' : x.id = task[s].row => x.user = task[s].user
  BY <1>1 DEF Informed
<1>4. ASSUME Knowing(s)'
      PROVE  /\ Knows(task[s].user, task[s].session)'
             /\ task[s].kind # "clear" => task[s].session # 0
  <2>1. Knows(task[s].user, task[s].session) /\ (task[s].kind # "clear" => task[s].session # 0)
    BY <1>4 DEF Informed
  <2>2. ASSUME NEW x \in rows', x.user = task[s].user, x.start
        PROVE  x.session <= task[s].session
    BY <1>4, <2>1, <2>2 DEF Knows
  <2>3. \A x \in rows' : x.user = task'[s].user /\ x.start => x.session <= task'[s].session
    BY <2>2
  <2> QED
    BY <2>1, <2>3 DEF Knows
<1> QED
  BY <1>2, <1>3, <1>4 DEF Informed

(* A handler that has returned knows nothing, one that comes in nothing yet. *)
LEMMA NewlyInformed ==
    ASSUME RowsTyped', NEW s \in Tasks, task'[s].session \in {0} \/ task'[s].kind = "clear",
           task'[s].pc \in {"idle", "lock", "queued"}, task'[s].row <= lastRow',
           \A x \in rows' : x.id = task'[s].row => x.user = task'[s].user
    PROVE  Informed(s)'
  BY BoundsAssumption DEF Informed, Knowing, RowsTyped

(* A handler that comes in knows nothing yet, and the rows stay as they are. *)
LEMMA EnteredInformed ==
    ASSUME RowsTyped, RowsTyped', TasksTyped, NEW t \in Tasks, NEW u \in Users, NEW kind, NEW row, NEW session,
           UNCHANGED chatVars, Enter(t, u, kind, row, session), row <= lastRow,
           session = 0 \/ kind = "clear", \A x \in rows : x.id = row => x.user = u
    PROVE  Others(t) /\ Informed(t)'
<1>1. /\ Others(t) /\ task'[t].pc = "lock" /\ task'[t].kind = kind /\ task'[t].user = u
      /\ task'[t].row = row /\ task'[t].session = session
  BY DEF TasksTyped, Enter, Others
<1> QED
  BY <1>1, NewlyInformed DEF chatVars

(* What the other handlers know stays true: they are of other users.       *)
LEMMA OthersInformed ==
    ASSUME TasksTyped, RowsTyped, RowsTyped', HeldOK, KnowledgeOK, NEW t \in Tasks, OldOrNew(t),
           lastRow <= lastRow', lastSession <= lastSession', NEW s \in Tasks \ {t}, task'[s] = task[s]
    PROVE  Informed(s)'
<1>1. Informed(s) /\ task[s].row \in Nat /\ task[s].session \in Nat /\ lastRow' \in Nat /\ lastSession' \in Nat
  BY BoundsAssumption DEF KnowledgeOK, TasksTyped, TaskType, RowsTyped
<1>2. Knowing(s)' = Knowing(s) /\ (Knowing(s) => InSection(s))
  BY DEF Knowing, InSection
<1>3. InSection(s) /\ InSection(t) => task[s].user # task[t].user
  BY Exclusive DEF OneAtATime
<1>4. \A x \in rows' :
         \/ \E r \in rows : x.id = r.id /\ x.user = r.user /\ x.start = r.start /\ (x.start => x.session = r.session)
         \/ x.id = lastRow + 1 /\ (x.start /\ Knowing(s)' => x.user # task[s].user)
  BY <1>2, <1>3 DEF OldOrNew
<1> QED
  BY <1>1, <1>2, <1>4, StillInformed

(* A handler that goes on, and learns nothing but the latest session.      *)
LEMMA GoneOnInformed ==
    ASSUME TasksTyped, RowsTyped, RowsTyped', NEW t \in Tasks, Informed(t), RowsOK,
           UNCHANGED <<rows, lastRow>>, lastSession' \in {lastSession, lastSession + 1},
           task'[t].kind = task[t].kind, task'[t].user = task[t].user, task'[t].row = task[t].row,
           task'[t].session = task[t].session \/ (task'[t].session # 0 /\ task'[t].session <= lastSession'),
           Knowing(t)' => \/ Knowing(t) /\ task'[t].session = task[t].session
                          \/ task[t].kind = "clear" /\ Knows(task[t].user, task'[t].session)
                          \/ Knows(task[t].user, task'[t].session) /\ task'[t].session # 0
    PROVE  Informed(t)'
<1>1. lastRow \in Nat /\ lastSession \in Nat /\ task[t].session \in Nat /\ lastSession <= lastSession'
  BY BoundsAssumption DEF RowsTyped, TasksTyped, TaskType
<1>2. /\ task'[t].row <= lastRow' /\ \A r \in rows' : r.id = task'[t].row => r.user = task'[t].user
      /\ task'[t].kind # "clear" => task'[t].session <= lastSession'
  BY <1>1 DEF Informed
<1>3. Knowing(t)' => /\ Knows(task[t].user, task'[t].session)
                     /\ task'[t].kind # "clear" => task'[t].session # 0
  BY DEF Informed
<1>4. Knowing(t)' => Knows(task[t].user, task[t].session)'
  BY <1>3 DEF Knows
<1> QED
  BY <1>2, <1>3, <1>4 DEF Informed

(* What the handlers know stays true at a step of one of them.             *)
LEMMA StepKnowledge ==
    ASSUME Typed, Typed', HeldOK, ControlOK, RowsOK, KnowledgeOK, NEW t \in Tasks, Step(t)
    PROVE  KnowledgeOK'
<1> USE DEF Typed
<1>1. /\ task[t] \in TaskType /\ task \in [Tasks -> TaskType] /\ AtPoint(task[t])
      /\ task[t].user \in Users /\ task[t].session \in Nat /\ task[t].row \in Nat
      /\ lastRow \in Nat /\ lastSession \in Nat /\ lastRow' \in Nat /\ lastSession' \in Nat
      /\ rows' \subseteq RowType /\ Informed(t)
      /\ task[t].cancelled => task[t].kind \in {"start", "turn"}
  BY BoundsAssumption DEF TasksTyped, TaskType, RowsTyped, ControlOK, KnowledgeOK
<1>2. OldOrNew(t) /\ lastRow <= lastRow' /\ lastSession <= lastSession'
  BY StepOrder
<1>3. ASSUME task' = [task EXCEPT ![t] = Idle]
      PROVE  Others(t) /\ Informed(t)'
  <2>1. Others(t) /\ task'[t] = Idle
    BY <1>1, <1>3 DEF Others
  <2>2. task'[t].session = 0 /\ task'[t].pc = "idle" /\ task'[t].row = 0
    BY <2>1 DEF Idle
  <2>3. \A x \in rows' : x.id # 0
    BY <1>1, BoundsAssumption DEF RowType
  <2> QED
    BY <1>1, <2>1, <2>2, <2>3, NewlyInformed
<1>4. ASSUME NEW pc, Goto(t, pc), UNCHANGED chatVars,
             \/ pc \in {"barrier", "send", "version", "failing", "look", "choose", "create", "pair", "close", "unwinding"}
             \/ pc = "prep" /\ task[t].kind = "start"
             \/ pc \in {"asking", "status", "complete"} /\ Knowing(t)
             \/ pc = "wipe" /\ Unchanged(t) /\ task[t].kind = "clear"
      PROVE  Others(t) /\ Informed(t)'
  <2>1. /\ Others(t) /\ task'[t].pc = pc /\ task'[t].kind = task[t].kind /\ task'[t].user = task[t].user
        /\ task'[t].row = task[t].row /\ task'[t].session = task[t].session
    BY <1>1, <1>4 DEF Goto, Others
  <2>2. Unchanged(t) => Knows(task[t].user, task[t].session)
    BY <1>1, LatestIs DEF Unchanged
  <2>3. Knowing(t)' => Knowing(t) \/ (task[t].kind = "clear" /\ Unchanged(t))
    BY <1>1, <1>4, <2>1 DEF Knowing
  <2> QED
    BY <1>1, <1>4, <2>1, <2>2, <2>3, GoneOnInformed DEF chatVars
<1>5. ASSUME NEW pc, NEW session, task' = [task EXCEPT ![t].pc = pc, ![t].session = session],
             UNCHANGED <<rows, lastRow>>, lastSession' \in {lastSession, lastSession + 1},
             session # 0, session <= lastSession', Knows(task[t].user, session)
      PROVE  Others(t) /\ Informed(t)'
  <2>1. /\ Others(t) /\ task'[t].kind = task[t].kind /\ task'[t].user = task[t].user
        /\ task'[t].row = task[t].row /\ task'[t].session = session
    BY <1>1, <1>5 DEF Others
  <2> QED
    BY <1>1, <1>5, <2>1, GoneOnInformed
<1>6. Knows(task[t].user, lastSession + 1) /\ lastSession + 1 # 0
  <2>1. ASSUME NEW r \in rows
        PROVE  r.session <= lastSession + 1
    <3>1. r.session \in Nat /\ r.session <= lastSession
      BY BoundsAssumption DEF RowsTyped, RowType, RowsOK
    <3> QED
      BY <1>1, <3>1
  <2> QED
    BY <1>1, <2>1 DEF Knows
<1>7. Others(t) /\ Informed(t)'
  <2> USE DEF At, chatVars, Finish, FinishTurn
  <2>1. CASE LockTaken(t)
    <3>1. /\ Others(t) /\ task'[t].kind = task[t].kind /\ task'[t].user = task[t].user
          /\ task'[t].row = task[t].row /\ task'[t].session = task[t].session
          /\ task'[t].pc \in {"barrier", "send", "version"} /\ UNCHANGED chatVars
      BY <1>1, <2>1 DEF LockTaken, Goto, Others, TaskType
    <3>2. ~Knowing(t)'
      BY <3>1 DEF Knowing
    <3> QED
      BY <1>1, <3>1, <3>2, GoneOnInformed
  <2>2. CASE BarrierTaken(t)
    BY <1>1, <1>3, <1>4, <2>2 DEF BarrierTaken
  <2>3. CASE StartLook(t)
    BY <1>1, <1>3, <1>4, <2>3 DEF StartLook
  <2>4. CASE StartChoose(t)
    BY <1>1, <1>3, <1>4, <2>4 DEF StartChoose
  <2>5. CASE StartPrepared(t)
    BY <1>1, <1>3, <1>4, <2>5 DEF StartPrepared
  <2>6. CASE StartCreated(t)
    <3>1. CASE Finish(t)
      BY <1>3, <3>1
    <3>2. CASE /\ lastSession' = lastSession + 1
               /\ task' = [task EXCEPT ![t].pc = "save", ![t].session = lastSession + 1]
      <4>1. UNCHANGED <<rows, lastRow>> /\ lastSession + 1 <= lastSession'
        BY <1>1, <2>6, <3>2 DEF StartCreated
      <4> QED
        BY <1>5, <1>6, <3>2, <4>1
    <3> QED
      BY <2>6, <3>1, <3>2 DEF StartCreated
  <2>7. CASE StartSaved(t)
    BY <1>3, <2>7 DEF StartSaved
  <2>8. CASE SendCheck(t)
    BY <1>1, <1>3, <1>4, <2>8 DEF SendCheck
  <2>9. CASE SendPair(t)
    <3>1. CASE Finish(t)
      BY <1>3, <3>1
    <3>2. CASE /\ lastRow' = lastRow + 1 /\ rows' = rows \union {NewRow(t, "pending", 0, FALSE)}
               /\ task' = [task EXCEPT ![t] = [Idle EXCEPT !.pc = "queued", !.kind = "send",
                                                          !.user = task[t].user, !.row = lastRow + 1]]
      <4>1. /\ Others(t) /\ task'[t].session = 0 /\ task'[t].pc = "queued" /\ task'[t].row = lastRow + 1
            /\ task'[t].user = task[t].user
        BY <1>1, <3>2 DEF Idle, Others
      <4>2. NewRow(t, "pending", 0, FALSE).user = task[t].user
        BY DEF NewRow
      <4>3. \A x \in rows : x.id # lastRow + 1
        <5>1. \A x \in rows : x.id \in Nat /\ x.id <= lastRow
          BY BoundsAssumption DEF RowsTyped, RowType, RowsOK
        <5> QED
          BY <1>1, <5>1
      <4>4. \A x \in rows' : x.id = task'[t].row => x.user = task'[t].user
        BY <3>2, <4>1, <4>2, <4>3
      <4>5. task'[t].row <= lastRow'
        BY <1>1, <3>2, <4>1
      <4> QED
        BY <4>1, <4>4, <4>5, NewlyInformed
    <3> QED
      BY <2>9, <3>1, <3>2 DEF SendPair
  <2>10. CASE TurnBegin(t)
    <3>1. UNCHANGED chatVars /\ Enter(t, task[t].user, "turn", task[t].row, 0)
      BY <2>10 DEF TurnBegin
    <3>2. task[t].row <= lastRow /\ \A x \in rows : x.id = task[t].row => x.user = task[t].user
      BY <1>1 DEF Informed
    <3> QED
      BY <1>1, <3>1, <3>2, EnteredInformed
  <2>11. CASE TurnLook(t)
    <3>1. CASE Goto(t, "failing")
      BY <1>4, <2>11, <3>1 DEF TurnLook
    <3>2. CASE /\ LatestSession(task[t].user) # 0
               /\ task' = [task EXCEPT ![t].pc = "prep", ![t].session = LatestSession(task[t].user)]
      <4>1. UNCHANGED <<rows, lastRow, lastSession>>
        BY <2>11 DEF TurnLook
      <4>2. /\ LatestSession(task[t].user) <= lastSession'
            /\ Knows(task[t].user, LatestSession(task[t].user))
        BY <1>1, <4>1, LatestIs
      <4> QED
        BY <1>5, <3>2, <4>1, <4>2
    <3> QED
      BY <2>11, <3>1, <3>2 DEF TurnLook
  <2>12. CASE TurnPrepared(t)
    BY <1>1, <1>3, <1>4, <2>12 DEF TurnPrepared, Knowing
  <2>13. CASE TurnAnswered(t)
    <3>1. CASE Goto(t, "failing") /\ UNCHANGED lastSession
      BY <1>4, <2>13, <3>1 DEF TurnAnswered
    <3>2. CASE Goto(t, "status") /\ UNCHANGED lastSession
      BY <1>4, <2>13, <3>2 DEF TurnAnswered, Knowing
    <3>3. CASE /\ lastSession' = lastSession + 1
               /\ task' = [task EXCEPT ![t].pc = "status", ![t].session = lastSession + 1]
      <4>1. UNCHANGED <<rows, lastRow>> /\ lastSession + 1 <= lastSession'
        BY <1>1, <2>13, <3>3 DEF TurnAnswered
      <4> QED
        BY <1>5, <1>6, <3>3, <4>1
    <3> QED
      BY <2>13, <3>1, <3>2, <3>3 DEF TurnAnswered
  <2>14. CASE TurnStatus(t)
    BY <1>1, <1>3, <1>4, <2>14 DEF TurnStatus, Knowing
  <2>15. CASE TurnComplete(t)
    BY <1>3, <1>4, <2>15 DEF TurnComplete
  <2>16. CASE TurnClose(t)
    BY <1>3, <2>16 DEF TurnClose
  <2>17. CASE TurnFail(t)
    BY <1>3, <2>17 DEF TurnFail
  <2>18. CASE StartCancelled(t)
    BY <1>3, <2>18 DEF StartCancelled
  <2>19. CASE TurnCancelled(t)
    BY <1>1, <1>3, <1>4, <2>19 DEF TurnCancelled
  <2>20. CASE TurnUnwound(t)
    BY <1>3, <2>20 DEF TurnUnwound
  <2>21. CASE ClearCheck(t)
    BY <1>1, <1>3, <1>4, <2>21 DEF ClearCheck
  <2>22. CASE ClearWipe(t)
    <3>1. /\ Others(t) /\ task'[t].kind = task[t].kind /\ task'[t].user = task[t].user
          /\ task'[t].row = task[t].row /\ task'[t].session = task[t].session /\ task'[t].pc = "swept"
          /\ rows' = {r \in rows : r.user # task[t].user} /\ UNCHANGED <<lastRow, lastSession>>
      BY <1>1, <2>22 DEF ClearWipe, Goto, Others
    <3>2. ~Knowing(t)'
      BY <3>1 DEF Knowing
    <3>3. \A x \in rows' : x \in rows
      BY <3>1
    <3> QED
      BY <1>1, <1>2, <3>1, <3>2, <3>3, StillInformed
  <2>23. CASE ClearDone(t)
    BY <1>3, <2>23 DEF ClearDone
  <2> QED
    BY <2>1, <2>2, <2>3, <2>4, <2>5, <2>6, <2>7, <2>8, <2>9, <2>10, <2>11, <2>12, <2>13, <2>14,
                                        <2>15, <2>16, <2>17, <2>18, <2>19, <2>20, <2>21, <2>22,
                                        <2>23 DEF Step
<1> QED
  BY <1>2, <1>7, OthersInformed DEF Others, KnowledgeOK

(* And when no handler moves.                                              *)
LEMMA OutsideKnowledge ==
    ASSUME Typed, Typed', KnowledgeOK, UNCHANGED <<lastRow, lastSession>>,
           \A s \in Tasks : /\ task'[s].kind = task[s].kind /\ task'[s].user = task[s].user
                            /\ task'[s].row = task[s].row /\ task'[s].session = task[s].session
                            /\ task'[s].pc = task[s].pc,
           \A x \in rows' : \E r \in rows : x.id = r.id /\ x.user = r.user /\ x.start = r.start /\ x.session = r.session
    PROVE  KnowledgeOK'
<1> SUFFICES ASSUME NEW s \in Tasks
             PROVE  Informed(s)'
  BY DEF KnowledgeOK
<1>1. /\ Informed(s) /\ task[s].row \in Nat /\ task[s].session \in Nat
      /\ lastRow' \in Nat /\ lastSession' \in Nat /\ lastRow <= lastRow' /\ lastSession <= lastSession'
  BY BoundsAssumption DEF KnowledgeOK, Typed, TasksTyped, TaskType, RowsTyped
<1>2. Knowing(s)' => Knowing(s)
  BY DEF Knowing
<1> QED
  BY <1>1, <1>2, StillInformed DEF Typed

(* The rows stay in order, and what the handlers know of them stays true.  *)
LEMMA NextOrder ==
    ASSUME Typed, Typed', HeldOK, ControlOK, RowsOK, KnowledgeOK, Next
    PROVE  RowsOK' /\ KnowledgeOK'
<1> USE DEF Typed
<1>1. lastSession \in Nat /\ lastSession <= lastSession /\ lastRow <= lastRow /\ lastRow \in Nat
  BY BoundsAssumption DEF RowsTyped
<1>2. ASSUME NEW t \in Tasks, Step(t)
      PROVE  RowsOK' /\ KnowledgeOK'
  BY <1>2, StepOrder, StepKnowledge
<1>3. ASSUME UNCHANGED chatVars
      PROVE  /\ RowsOK' /\ UNCHANGED <<lastRow, lastSession>>
             /\ \A x \in rows' : \E r \in rows : x.id = r.id /\ x.user = r.user /\ x.start = r.start /\ x.session = r.session
  <2>1. UNCHANGED <<rows, lastRow, lastSession>>
    BY <1>3 DEF chatVars
  <2>2. RowsOK'
    BY <1>1, <2>1, FailedRows
  <2> QED
    BY <2>1, <2>2
<1>4. ASSUME NEW t \in Tasks, NEW u \in Users, StartCall(t, u) \/ SendCall(t, u) \/ ClearCall(t, u)
      PROVE  RowsOK' /\ KnowledgeOK'
  <2>1. UNCHANGED chatVars
    BY <1>4 DEF StartCall, SendCall, ClearCall
  <2>2. RowsOK' /\ OldOrNew(t) /\ lastRow <= lastRow' /\ lastSession <= lastSession'
    BY <1>1, <1>3, <2>1 DEF OldOrNew
  <2>3. \A x \in rows : x.id # 0
    BY BoundsAssumption DEF RowsTyped, RowType
  <2>4. Others(t) /\ Informed(t)'
    <3>1. CASE StartCall(t, u)
      BY <1>1, <2>1, <2>3, <3>1, EnteredInformed DEF StartCall
    <3>2. CASE SendCall(t, u)
      BY <1>1, <2>1, <2>3, <3>2, EnteredInformed DEF SendCall
    <3>3. CASE ClearCall(t, u)
      BY <1>1, <2>1, <2>3, <3>3, EnteredInformed DEF ClearCall
    <3> QED
      BY <1>4, <3>1, <3>2, <3>3
  <2> QED
    BY <2>2, <2>4, OthersInformed DEF Others, KnowledgeOK
<1>5. ASSUME AbortRead \/ DetachedWrites \/ Gathered \/ CleanupBegins \/ CleanupEnds \/ \E u \in Users : AbortCall(u)
      PROVE  RowsOK' /\ KnowledgeOK'
  <2>1. UNCHANGED <<task, chatVars>>
    BY <1>5 DEF AbortRead, DetachedWrites, Gathered, CleanupBegins, CleanupEnds, AbortCall
  <2> QED
    BY <1>3, <2>1, OutsideKnowledge
<1>6. CASE MarkDeleting
  <2>1. \A s \in Tasks : /\ task'[s].kind = task[s].kind /\ task'[s].user = task[s].user
                         /\ task'[s].row = task[s].row /\ task'[s].session = task[s].session
                         /\ task'[s].pc = task[s].pc
    BY <1>6 DEF MarkDeleting, Cancelled, TasksTyped, TaskType
  <2>2. UNCHANGED chatVars
    BY <1>6 DEF MarkDeleting
  <2> QED
    BY <1>3, <2>1, <2>2, OutsideKnowledge
<1>7. CASE AbortMark
  <2>1. PICK id \in abort.pending : rows' = WithStatus(id, "failed")
    BY <1>7 DEF AbortMark
  <2>2. UNCHANGED <<task, lastRow, lastSession>>
    BY <1>7 DEF AbortMark
  <2>3. /\ RowsOK'
        /\ \A x \in rows' : \E r \in rows : x.id = r.id /\ x.user = r.user /\ x.start = r.start /\ x.session = r.session
    BY <1>1, <2>1, <2>2, FailedRows
  <2> QED
    BY <2>2, <2>3, OutsideKnowledge
<1>8. CASE Delete
  <2>1. rows' = {} /\ UNCHANGED <<task, lastRow, lastSession>>
    BY <1>8 DEF Delete
  <2>2. RowsOK'
    BY <2>1 DEF RowsOK, NamedOf
  <2> QED
    BY <2>1, <2>2, OutsideKnowledge
<1> QED
  BY <1>2, <1>4, <1>5, <1>6, <1>7, <1>8 DEF Next, Deletion

-----------------------------------------------------------------------------
(* The invariant holds at the start.                                       *)
LEMMA InitInv ==
    ASSUME Init
    PROVE  IInv
<1>1. /\ Idle \in TaskType /\ Idle.pc = "idle" /\ Idle.kind = "start" /\ ~Idle.cancelled
      /\ Idle.session = 0 /\ Idle.row = 0
  BY NamesAssumption, BoundsAssumption DEF Idle, TaskType, PCs, Kinds
<1>2. Unlocked \in LockType
  BY DEF Unlocked, LockType
<1>3. \A t \in Tasks : task[t] = Idle
  BY DEF Init
<1>4. Typed
  <2>1. TasksTyped /\ LocksTyped
    BY <1>1, <1>2 DEF Init, TasksTyped, LocksTyped
  <2>2. RegistriesTyped
    BY DEF Init, RegistriesTyped
  <2>5. RowsTyped
    BY BoundsAssumption DEF Init, RowsTyped
  <2>6. RestTyped
    BY DEF Init, RestTyped
  <2>3. NoAbort \in [pc : {"idle", "read", "mark"}, user : Users, pending : SUBSET (1..MaxRows)]
    BY NamesAssumption DEF NoAbort, Idle
  <2>4. AbortsTyped
    BY <2>3, BoundsAssumption DEF Init, AbortsTyped
  <2> QED
    BY <2>1, <2>2, <2>4, <2>5, <2>6 DEF Typed
<1>5. HeldOK
  BY <1>1, <1>3 DEF HeldOK, Engaged, InSection, InBarrier
<1>6. RefsOK
  <2>1. \A u \in Users : EngagedOf(u) = {}
    BY <1>1, <1>3 DEF EngagedOf, Engaged
  <2>2. \A u \in Users : refs[u] = 0
    BY DEF Init
  <2> QED
    BY <2>1, <2>2, FS_EmptySet DEF RefsOK
<1>7. ControlOK
  BY <1>1, <1>3 DEF Init, ControlOK, AtPoint
<1>8. DeletionOK
  BY <1>1, <1>3 DEF Init, DeletionOK, CleanupIsComplete
<1>9. RowsOK /\ KnowledgeOK
  BY <1>1, <1>3, BoundsAssumption DEF Init, RowsOK, NamedOf, KnowledgeOK, Informed, Knowing
<1> QED
  BY <1>4, <1>5, <1>6, <1>7, <1>8, <1>9 DEF IInv

(* Every step keeps it.                                                    *)
LEMMA NextInv ==
    ASSUME IInv, [Next]_vars
    PROVE  IInv'
<1> USE DEF IInv
<1>1. CASE Next
  <2>1. Typed'
    BY <1>1, NextTyped
  <2>2. HeldOK' /\ RefsOK' /\ ControlOK' /\ DeletionOK'
    BY <1>1, NextHeld, NextControl
  <2>3. RowsOK' /\ KnowledgeOK'
    BY <1>1, <2>1, NextOrder
  <2> QED
    BY <2>1, <2>2, <2>3
<1>2. CASE UNCHANGED vars
  <2> USE <1>2 DEF vars, chatVars, registries
  <2>1. Typed'
    BY DEF Typed, TasksTyped, LocksTyped, RegistriesTyped, RowsTyped, AbortsTyped, RestTyped
  <2>2. HeldOK' /\ RefsOK'
    BY DEF HeldOK, RefsOK, EngagedOf, Engaged, InSection, InBarrier
  <2>3. ControlOK' /\ DeletionOK'
    BY DEF ControlOK, DeletionOK, Making, CleanupIsComplete
  <2>4. RowsOK' /\ KnowledgeOK'
    BY DEF RowsOK, NamedOf, KnowledgeOK, Informed, Knowing, Knows
  <2> QED
    BY <2>1, <2>2, <2>3, <2>4
<1> QED
  BY <1>1, <1>2

(* The inductive invariant: the lock that is registered for a user is the  *)
(* one its handlers hold or wait for, as many as the registry counts, and  *)
(* what a handler read inside it stays true.                               *)
THEOREM Invariance == Spec => []IInv
<1>1. Init => IInv
  BY InitInv
<1>2. IInv /\ [Next]_vars => IInv'
  BY NextInv
<1> QED
  BY <1>1, <1>2, PTL DEF Spec

(* Every variable has its type at all times.                               *)
THEOREM TypeCorrect == Spec => []TypeOK
<1>1. IInv => TypeOK
  <2> SUFFICES ASSUME Typed
               PROVE  TypeOK
    BY DEF IInv
  <2>1. \A o \in Locks : /\ lock[o].holder \in Tasks \union {Nobody, Deleter}
                         /\ lock[o].queue \in Seq(Tasks \union {Deleter})
    BY DEF Typed, LocksTyped, LockType
  <2> QED
    BY <2>1 DEF Typed, TasksTyped, RegistriesTyped, RowsTyped, AbortsTyped, RestTyped, TypeOK,
                TaskType, Kinds
<1> QED
  BY <1>1, Invariance, PTL

(* Handlers of one user exclude each other (_hold_chat_lock).              *)
THEOREM HandlersExclude == Spec => []OneAtATime
<1>1. IInv => OneAtATime
  BY Exclusive DEF IInv, Typed
<1> QED
  BY <1>1, Invariance, PTL

(* A deletion that is over leaves no files but those of threads that       *)
(* outlived their coroutine (_cleanup_deleted_job_chat_workspaces).        *)
THEOREM CleanupStaysComplete == Spec => []CleanupIsComplete
<1>1. IInv => CleanupIsComplete
  BY DEF IInv, DeletionOK
<1> QED
  BY <1>1, Invariance, PTL

(* A reply that failed stays failed: whatever is inserted has a new id,    *)
(* and only a pending row is completed.                                    *)
THEOREM FailuresAreFinal == Spec => FailedIsFinal
<1> DEFINE Final == \A r \in rows : r.status = "failed" => \A s \in rows' : s.id = r.id => s.status = "failed"
<1>1. ASSUME IInv, Next
      PROVE  Final
  <2> SUFFICES ASSUME NEW r \in rows, r.status = "failed", NEW s \in rows', s.id = r.id
               PROVE  s.status = "failed"
    OBVIOUS
  <2>1. /\ \A a, b \in rows : a.id = b.id => a = b
        /\ \A a \in rows : a \in RowType /\ a.id \in Nat /\ a.id # lastRow + 1
    <3>1. \A a \in rows : a \in RowType /\ a.id \in Nat /\ a.id <= lastRow /\ lastRow \in Nat
      BY <1>1, BoundsAssumption DEF IInv, Typed, RowsTyped, RowsOK, RowType
    <3> QED
      BY <1>1, <3>1 DEF IInv, RowsOK
  <2>2. CASE s \in rows
    BY <2>1, <2>2
  <2>3. ASSUME NEW id, rows' = WithStatus(id, "failed")
        PROVE  s.status = "failed"
    <3>1. PICK a \in rows : s = IF a.id = id THEN [a EXCEPT !.status = "failed"] ELSE a
      BY <2>3 DEF WithStatus
    <3>2. a.id = s.id
      BY <2>1, <3>1 DEF RowType
    <3>3. a = r
      BY <2>1, <3>2
    <3> QED
      BY <2>1, <3>1, <3>3 DEF RowType
  <2>4. ASSUME NEW t \in Tasks, Step(t)
        PROVE  s.status = "failed"
    <3>1. CASE RowsStay \/ RowsGo(t)
      BY <2>2, <3>1 DEF RowsStay, RowsGo
    <3>2. CASE RowFails(t)
      BY <2>2, <2>3, <3>2 DEF RowFails
    <3>3. CASE StartIsSaved(t) \/ MessageIsSent(t)
      BY <2>1, <2>2, <3>3 DEF StartIsSaved, MessageIsSent, SaveStart, NewRow
    <3>4. CASE MessageIsAnswered(t)
      <4>1. PICK a \in rows : s = IF a.id = task[t].row
                                  THEN [a EXCEPT !.status = "completed", !.session = task[t].session] ELSE a
        BY <3>4 DEF MessageIsAnswered, Answered
      <4>2. PICK b \in rows : b.id = task[t].row /\ b.status = "pending"
        BY <3>4 DEF MessageIsAnswered, Completes, StatusIs
      <4>3. a.id = s.id
        BY <2>1, <4>1 DEF RowType
      <4>4. a = r /\ r # b
        BY <2>1, <4>2, <4>3
      <4>5. r.id # task[t].row
        BY <2>1, <4>2, <4>4
      <4> QED
        BY <4>1, <4>4, <4>5
    <3> QED
      BY <2>4, <3>1, <3>2, <3>3, <3>4, RowShapes
  <2>5. CASE AbortMark
    BY <2>3, <2>5 DEF AbortMark
  <2>6. CASE Delete
    BY <2>6 DEF Delete
  <2>7. ASSUME UNCHANGED chatVars
        PROVE  s.status = "failed"
    BY <2>2, <2>7 DEF chatVars
  <2>8. ASSUME \/ \E t \in Tasks, u \in Users : StartCall(t, u) \/ SendCall(t, u) \/ ClearCall(t, u)
               \/ \E u \in Users : AbortCall(u)
               \/ AbortRead \/ Deletion \/ DetachedWrites
        PROVE  UNCHANGED chatVars
    BY <2>8 DEF StartCall, SendCall, ClearCall, AbortCall, AbortRead, Deletion, MarkDeleting,
                Gathered,
                CleanupBegins, CleanupEnds, DetachedWrites
  <2> QED
    BY <1>1, <2>4, <2>5, <2>6, <2>7, <2>8 DEF Next
<1>2. IInv /\ [Next]_vars => [Final]_vars
  BY <1>1
<1> QED
  BY <1>2, Invariance, PTL DEF Spec, FailedIsFinal

(* A Clear removes no Start that is newer than what its caller has seen:   *)
(* only a Clear that has found the version unchanged removes rows, and     *)
(* inside the lock no Start of its user is saved.                          *)
THEOREM ClearsSpareNewerStarts == Spec => ClearSparesNewerStart
<1> DEFINE Spared ==
      \A r \in rows : r.start /\ job' /\ (\A s \in rows' : s.id # r.id) =>
          \E t \in Tasks : task[t].pc = "wipe" /\ task[t].user = r.user /\ r.session <= task[t].session
<1>1. ASSUME IInv, Next
      PROVE  Spared
  <2> SUFFICES ASSUME NEW r \in rows, r.start, job', \A s \in rows' : s.id # r.id
               PROVE  \E t \in Tasks : task[t].pc = "wipe" /\ task[t].user = r.user /\ r.session <= task[t].session
    OBVIOUS
  <2>1. r \notin rows'
    OBVIOUS
  <2>2. r \in RowType
    BY <1>1 DEF IInv, Typed, RowsTyped
  <2>3. \A id : rows' # WithStatus(id, "failed")
    <3> SUFFICES ASSUME NEW id, rows' = WithStatus(id, "failed")
                 PROVE  FALSE
      OBVIOUS
    <3>1. (IF r.id = id THEN [r EXCEPT !.status = "failed"] ELSE r) \in rows'
      BY DEF WithStatus
    <3>2. (IF r.id = id THEN [r EXCEPT !.status = "failed"] ELSE r).id = r.id
      BY <2>2 DEF RowType
    <3> QED
      BY <3>1, <3>2
  <2>4. ASSUME NEW t \in Tasks, Step(t)
        PROVE  RowsGo(t)
    <3>1. ~RowsStay /\ ~RowFails(t) /\ ~StartIsSaved(t) /\ ~MessageIsSent(t)
      BY <2>1, <2>3 DEF RowsStay, RowFails, StartIsSaved, SaveStart, MessageIsSent
    <3>2. ~MessageIsAnswered(t)
      <4> SUFFICES ASSUME MessageIsAnswered(t)
                   PROVE  FALSE
        OBVIOUS
      <4> DEFINE s == IF r.id = task[t].row
                      THEN [r EXCEPT !.status = "completed", !.session = task[t].session] ELSE r
      <4>1. s \in rows'
        BY DEF MessageIsAnswered, Answered
      <4>2. s.id = r.id
        BY <2>2 DEF RowType
      <4> QED
        BY <4>1, <4>2
    <3> QED
      BY <2>4, <3>1, <3>2, RowShapes
  <2>5. ASSUME NEW t \in Tasks, Step(t)
        PROVE  task[t].pc = "wipe" /\ task[t].user = r.user /\ r.session <= task[t].session
    <3>1. task[t].kind = "clear" /\ task[t].pc = "wipe" /\ task[t].user = r.user
      BY <2>1, <2>4, <2>5 DEF RowsGo
    <3>2. Informed(t) /\ Knowing(t)
      BY <1>1, <3>1 DEF IInv, KnowledgeOK, Knowing
    <3> QED
      BY <3>1, <3>2 DEF Informed, Knows
  <2>6. ~AbortMark /\ ~Delete
    BY <2>3 DEF AbortMark, Delete
  <2>7. ~UNCHANGED chatVars
    BY <2>1 DEF chatVars
  <2>8. ASSUME \/ \E t \in Tasks, u \in Users : StartCall(t, u) \/ SendCall(t, u) \/ ClearCall(t, u)
               \/ \E u \in Users : AbortCall(u)
               \/ AbortRead \/ Deletion \/ DetachedWrites
        PROVE  UNCHANGED chatVars
    BY <2>8 DEF StartCall, SendCall, ClearCall, AbortCall, AbortRead, Deletion, MarkDeleting,
                Gathered,
                CleanupBegins, CleanupEnds, DetachedWrites
  <2> QED
    BY <1>1, <2>5, <2>6, <2>7, <2>8 DEF Next
<1>2. IInv /\ [Next]_vars => [Spared]_vars
  BY <1>1
<1> QED
  BY <1>2, Invariance, PTL DEF Spec, ClearSparesNewerStart
=============================================================================
