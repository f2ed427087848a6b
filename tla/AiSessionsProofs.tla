-------------------------- MODULE AiSessionsProofs --------------------------
(***************************************************************************)
(* Which key a session has, which sessions are deleted and which replies   *)
(* are delivered, for any sessions, requests, workers and crashes.         *)
(***************************************************************************)
EXTENDS AiSessions, TLAPS

(* Where a creator has a session, and where the session has its row.       *)
Having == {"created", "cleanup", "persisted", "drop", "discard"}
Recording == {"persisted", "drop", "discard"}

(* The sessions that are older than the table live, and have no row.       *)
LegacyOK == \A s \in legacy : source[s] = "none" /\ held[s] # None

(* A session that its row describes lives, until the row is done with.     *)
TrackedOK == \A s \in tracked : held[s] # None /\ source[s] # "deleted"

(* The key of the server has no generation.                                *)
KindOK == \A c \in Creators : /\ create[c].kind = "server" => create[c].key[2] = 0
                              /\ create[c].pc \in Having => create[c].id \in Sessions

(* A session without a row is that of the creator that is about to record  *)
(* or delete it, and of nobody else.                                       *)
UnrecordedOK ==
    \A c \in Creators :
        /\ create[c].pc = "cleanup" => source[create[c].id] = "none"
        /\ create[c].pc \in {"created", "cleanup"} /\ source[create[c].id] = "none" =>
              /\ held[create[c].id] = create[c].key
              /\ create[c].id \notin stray \union legacy
              /\ \A d \in Creators \ {c} : create[d].pc \in Having => create[d].id # create[c].id

(* So is a session between its recording and its publication.              *)
RecordedOK ==
    \A c \in Creators : create[c].pc \in Recording =>
        /\ source[create[c].id] # "none" /\ create[c].id \notin published
        /\ \A d \in Creators \ {c} : create[d].pc \in Recording => create[d].id # create[c].id
        /\ source[create[c].id] \in Live =>
              /\ create[c].id \notin stray
              /\ create[c].pc \in {"persisted", "drop"} => create[c].id \in tracked

(* A delete on its way is for a session that is to go.                     *)
StrayOK ==
    \A s \in stray : /\ source[s] = "none" => held[s] # None /\ s \notin legacy
                     /\ source[s] \in Live => s \notin published

(* What is published is recorded, and lives as long as its row does.       *)
PublishedOK == \A s \in published : source[s] # "none" /\ (source[s] \in Live => s \in tracked)

(* A worker deletes what was revoked.                                      *)
WorkersOK ==
    \A w \in Workers : work[w].pc # "idle" =>
        /\ work[w].target \in Sessions /\ source[work[w].target] \in Tombstone
        /\ work[w].pc = "gone" => work[w].target \notin tracked

(* A live row says what the session was created with.                      *)
RowsAreTrue ==
    \A s \in tracked \ straddled : source[s] \in Live =>
        held[s] = <<account, IF source[s] = "user" THEN recorded[s] ELSE 0>>

(* A reply is from the session that was looked up, if it is still good.    *)
CallsOK ==
    \A u \in Calls : call[u].pc # "idle" =>
        /\ call[u].id \in published
        /\ source[call[u].id] \in Live =>
              /\ call[u].kind = source[call[u].id]
              /\ call[u].pc = "prompted" => call[u].key = held[call[u].id]

UsersType ==
    /\ account \in 0..registered /\ registered \in 1..MaxAccounts
    /\ generation \in 0..MaxGeneration /\ hasKey \in BOOLEAN
RowsType ==
    /\ source \in [Sessions -> Live \union Tombstone \union {"none"}]
    /\ recorded \in [Sessions -> 0..MaxGeneration]
    /\ claim \in [Sessions -> Workers \union {NoClaim, Crashed}]
    /\ expired \subseteq Sessions /\ legacy \subseteq Sessions
SidecarType ==
    /\ held \in [Sessions -> Keys \union {None}]
    /\ stray \subseteq Sessions /\ tracked \subseteq Sessions
    /\ published \subseteq Sessions /\ straddled \subseteq Sessions
    /\ crashes \in 0..MaxCrashes
CreatorsType == create \in [Creators -> CreatorState]
WorkersType == work \in [Workers -> WorkerState]
CallsType == call \in [Calls -> CallState]
Types == UsersType /\ RowsType /\ SidecarType /\ CreatorsType /\ WorkersType /\ CallsType

IInv ==
    /\ Types
    /\ LegacyOK /\ TrackedOK /\ KindOK /\ UnrecordedOK /\ RecordedOK /\ StrayOK
    /\ PublishedOK /\ WorkersOK /\ RowsAreTrue /\ CallsOK

USE BoundsAssumption, ClaimAssumption, NoneAssumption

-----------------------------------------------------------------------------
(* What the steps of a creator do to the creators.                         *)
LEMMA EndFacts ==
    ASSUME CreatorsType, NEW c \in Creators, End(c)
    PROVE  /\ CreatorsType'
           /\ create'[c].pc = "idle" /\ create'[c].key[2] = 0
           /\ \A d \in Creators \ {c} : create'[d] = create[d]
<1>1. Idle \in CreatorState /\ Idle.pc = "idle" /\ Idle.key[2] = 0
  BY DEF Idle, CreatorState, Live, Keys
<1> QED
  BY <1>1 DEF CreatorsType, End

(* What a creator that goes on keeps.                                      *)
LEMMA GotoFacts ==
    ASSUME CreatorsType, NEW c \in Creators,
           NEW p \in {"cleanup", "persisted", "drop", "discard"}, Goto(c, p)
    PROVE  /\ CreatorsType'
           /\ create'[c].pc = p /\ create'[c].id = create[c].id
           /\ create'[c].kind = create[c].kind /\ create'[c].key = create[c].key
           /\ \A d \in Creators \ {c} : create'[d] = create[d]
<1>1. create[c] \in CreatorState
  BY DEF CreatorsType
<1>2. /\ create'[c] = [create[c] EXCEPT !.pc = p]
      /\ \A d \in Creators \ {c} : create'[d] = create[d]
  BY DEF Goto, CreatorsType
<1>3. [create[c] EXCEPT !.pc = p] \in CreatorState
  BY <1>1 DEF CreatorState
<1> QED
  BY <1>1, <1>2, <1>3 DEF CreatorsType, Goto

(* What a creator that begins has.                                         *)
LEMMA BeginFacts ==
    ASSUME CreatorsType, NEW c \in Creators, NEW kind \in Live, NEW key \in Keys, Begin(c, kind, key)
    PROVE  /\ CreatorsType'
           /\ create'[c].pc = "selected" /\ create'[c].kind = kind /\ create'[c].key = key
           /\ \A d \in Creators \ {c} : create'[d] = create[d]
<1> DEFINE q == [Idle EXCEPT !.pc = "selected", !.kind = kind, !.key = key]
<1>0. Idle \in CreatorState
  BY DEF Idle, CreatorState, Live, Keys
<1>1. q \in CreatorState /\ q.pc = "selected" /\ q.kind = kind /\ q.key = key
  BY <1>0 DEF CreatorState
<1>2. create' = [create EXCEPT ![c] = q]
  BY DEF Begin
<1> HIDE DEF q
<1> QED
  BY <1>1, <1>2 DEF CreatorsType

(* What a creator is about to delete is nobody else's.                     *)
LEMMA DoomedFacts ==
    ASSUME IInv, NEW c \in Creators, create[c].pc \in {"cleanup", "drop"},
           NEW s \in Sessions, s = create[c].id
    PROVE  /\ s \notin legacy /\ s \notin published
           /\ source[s] = "none" => s \notin stray /\ held[s] # None
           /\ \A d \in Creators \ {c} : create[d].pc \in Recording => create[d].id # s
           /\ \A d \in Creators \ {c} :
                 create[d].pc \in {"created", "cleanup"} /\ source[create[d].id] = "none" =>
                     create[d].id # s
<1> USE DEF IInv, Types
<1>1. create[c].key \in Keys
  BY DEF CreatorsType, CreatorState
<1>2. CASE create[c].pc = "cleanup"
  <2>1. source[s] = "none" /\ held[s] = create[c].key /\ s \notin stray \union legacy
    BY <1>2 DEF UnrecordedOK
  <2>2. \A d \in Creators \ {c} : create[d].pc \in Having => create[d].id # s
    BY <1>2, <2>1 DEF UnrecordedOK
  <2> QED
    BY <1>1, <2>1, <2>2, NoneAssumption DEF PublishedOK, Having, Recording
<1>3. CASE create[c].pc = "drop"
  <2>1. /\ source[s] # "none" /\ s \notin published
        /\ \A d \in Creators \ {c} : create[d].pc \in Recording => create[d].id # s
    BY <1>3 DEF RecordedOK, Recording
  <2> QED
    BY <2>1 DEF LegacyOK
<1> QED
  BY <1>2, <1>3

(* A call changes its own state only.                                      *)
LEMMA CallFacts ==
    ASSUME CallsType, NEW u \in Calls, NEW q \in CallState, call' = [call EXCEPT ![u] = q]
    PROVE  /\ CallsType' /\ call'[u] = q
           /\ \A v \in Calls \ {u} : call'[v] = call[v]
  BY DEF CallsType

-----------------------------------------------------------------------------
(* The initial states satisfy the invariant.                               *)
LEMMA InitInv ==
    ASSUME Init
    PROVE  IInv
<1>1. UsersType /\ RowsType /\ SidecarType
  <2>1. <<1, 0>> \in Keys
    BY DEF Keys
  <2>2. UsersType
    <3>1. hasKey \in BOOLEAN
      BY DEF Init
    <3>2. account \in 0..registered /\ registered \in 1..MaxAccounts /\ generation \in 0..MaxGeneration
      BY DEF Init
    <3> QED
      BY <3>1, <3>2 DEF UsersType
  <2>3. RowsType
    BY DEF Init, RowsType
  <2>4. held \in [Sessions -> Keys \union {None}]
    BY <2>1 DEF Init
  <2>5. SidecarType
    BY <2>4 DEF Init, SidecarType
  <2> QED
    BY <2>2, <2>3, <2>5
<1>2. CreatorsType /\ WorkersType /\ CallsType
  BY DEF Init, CreatorsType, WorkersType, CallsType, CreatorState, WorkerState, CallState, Idle,
         IdleWorker, IdleCall, Live, Keys
<1>3. LegacyOK /\ TrackedOK /\ StrayOK /\ PublishedOK /\ RowsAreTrue
  <2>1. <<1, 0>> # None
    BY DEF Keys
  <2> QED
    BY <2>1 DEF Init, LegacyOK, TrackedOK, StrayOK, PublishedOK, RowsAreTrue, Live
<1>4. KindOK /\ UnrecordedOK /\ RecordedOK /\ WorkersOK /\ CallsOK
  BY DEF Init, KindOK, UnrecordedOK, RecordedOK, WorkersOK, CallsOK, Idle, IdleWorker, IdleCall,
         Having,
         Recording
<1> QED
  BY <1>1, <1>2, <1>3, <1>4 DEF IInv, Types

(* Every step keeps the invariant.                                         *)
LEMMA StepInv ==
    ASSUME IInv, Next
    PROVE  IInv'
<1>1. ASSUME Register
      PROVE  IInv'
  <2> USE <1>1 DEF Register, IInv, Types, rowVars, sidecarVars, createVars
  <2>1. UsersType'
    <3>1. hasKey' \in BOOLEAN
      OBVIOUS
    <3>2. account' \in 0..registered' /\ registered' \in 1..MaxAccounts /\ generation' \in 0..MaxGeneration
      BY DEF UsersType
    <3> QED
      BY <3>1, <3>2 DEF UsersType
  <2>2. RowsAreTrue'
    BY DEF RowsAreTrue, SidecarType, TrackedOK, Keys
  <2>3. RowsType' /\ SidecarType' /\ CreatorsType' /\ WorkersType' /\ CallsType' /\ LegacyOK' /\ TrackedOK' /\ KindOK' /\ UnrecordedOK' /\ RecordedOK' /\ StrayOK' /\ PublishedOK' /\ WorkersOK' /\ CallsOK'
    BY DEF RowsType, SidecarType, CreatorsType, WorkersType, CallsType, LegacyOK, TrackedOK,
           KindOK, UnrecordedOK, RecordedOK, StrayOK, PublishedOK, WorkersOK, CallsOK
  <2> QED
    BY <2>1, <2>2, <2>3
<1>2. ASSUME DeleteUser
      PROVE  IInv'
  <2> USE <1>2 DEF DeleteUser, IInv, Types, sidecarVars, createVars
  <2>1. UsersType'
    <3>1. hasKey' \in BOOLEAN
      OBVIOUS
    <3>2. account' \in 0..registered' /\ registered' \in 1..MaxAccounts /\ generation' \in 0..MaxGeneration
      BY DEF UsersType
    <3> QED
      BY <3>1, <3>2 DEF UsersType
  <2>2. RowsType'
    BY DEF RowsType, Tombstone
  <2>3. LegacyOK'
    BY DEF LegacyOK
  <2>4. TrackedOK'
    BY DEF TrackedOK, SidecarType
  <2>5. UnrecordedOK'
    BY DEF UnrecordedOK, Live, Having, KindOK
  <2>6. RecordedOK'
    BY DEF RecordedOK, Live, Having, Recording, KindOK
  <2>7. StrayOK'
    BY DEF StrayOK, SidecarType, Live
  <2>8. PublishedOK'
    BY DEF PublishedOK, SidecarType, Live
  <2>9. WorkersOK'
    BY DEF WorkersOK, Tombstone
  <2>10. RowsAreTrue'
    BY DEF RowsAreTrue, SidecarType, Live
  <2>11. CallsOK'
    BY DEF CallsOK, SidecarType, Live
  <2>12. SidecarType' /\ CreatorsType' /\ WorkersType' /\ CallsType' /\ KindOK'
    BY DEF SidecarType, CreatorsType, WorkersType, CallsType, KindOK
  <2> QED
    BY <2>1, <2>2, <2>3, <2>4, <2>5, <2>6, <2>7, <2>8, <2>9, <2>10, <2>11, <2>12
<1>3. ASSUME Rotate
      PROVE  IInv'
  <2> USE <1>3 DEF Rotate, IInv, Types, sidecarVars, createVars
  <2>1. UsersType'
    <3>1. hasKey' = TRUE \/ hasKey' = FALSE
      OBVIOUS
    <3>2. hasKey' \in BOOLEAN
      BY <3>1
    <3>3. account' \in 0..registered' /\ registered' \in 1..MaxAccounts /\ generation' \in 0..MaxGeneration
      BY DEF UsersType
    <3> QED
      BY <3>2, <3>3 DEF UsersType
  <2>2. RowsType'
    BY DEF RowsType, Tombstone
  <2>3. LegacyOK'
    BY DEF LegacyOK
  <2>4. TrackedOK'
    BY DEF TrackedOK, SidecarType
  <2>5. UnrecordedOK'
    BY DEF UnrecordedOK, Having, KindOK
  <2>6. RecordedOK'
    BY DEF RecordedOK, Live, Having, Recording, KindOK
  <2>7. StrayOK'
    BY DEF StrayOK, SidecarType, Live
  <2>8. PublishedOK'
    BY DEF PublishedOK, SidecarType, Live
  <2>9. WorkersOK'
    BY DEF WorkersOK, Tombstone
  <2>10. RowsAreTrue'
    BY DEF RowsAreTrue, SidecarType, Live
  <2>11. CallsOK'
    BY DEF CallsOK, SidecarType, Live
  <2>12. SidecarType' /\ CreatorsType' /\ WorkersType' /\ CallsType' /\ KindOK'
    BY DEF SidecarType, CreatorsType, WorkersType, CallsType, KindOK
  <2> QED
    BY <2>1, <2>2, <2>3, <2>4, <2>5, <2>6, <2>7, <2>8, <2>9, <2>10, <2>11, <2>12
<1>4. ASSUME NEW c \in Creators, Select(c)
      PROVE  IInv'
  <2> USE <1>4 DEF IInv, Types
  <2>1. /\ CreatorsType'
        /\ create'[c].pc = "selected" /\ (create'[c].kind = "server" => create'[c].key[2] = 0)
        /\ \A d \in Creators \ {c} : create'[d] = create[d]
    <3>1. account \in 1..MaxAccounts /\ generation \in 0..MaxGeneration
      BY DEF Select, UsersType
    <3>2. <<account, 0>> \in Keys /\ <<account, generation>> \in Keys
      BY <3>1 DEF Keys
    <3>3. CASE Begin(c, "server", <<account, 0>>)
      BY <3>2, <3>3, BeginFacts DEF Live
    <3>4. CASE Begin(c, "user", <<account, generation>>)
      BY <3>2, <3>4, BeginFacts DEF Live
    <3> QED
      BY <3>3, <3>4 DEF Select
  <2>2. UNCHANGED <<userVars, rowVars, sidecarVars, published, straddled, work, call, crashes>>
    BY DEF Select
  <2> USE DEF userVars, rowVars, sidecarVars
  <2>3. KindOK'
    BY <2>1 DEF KindOK, Having
  <2>4. UnrecordedOK'
    BY <2>1, <2>2 DEF UnrecordedOK, Having
  <2>5. RecordedOK'
    BY <2>1, <2>2 DEF RecordedOK, Recording
  <2>6. UsersType' /\ RowsType' /\ SidecarType' /\ WorkersType' /\ CallsType'
    BY <2>2 DEF UsersType, RowsType, SidecarType, WorkersType, CallsType
  <2>7. LegacyOK' /\ TrackedOK' /\ StrayOK' /\ PublishedOK' /\ WorkersOK' /\ RowsAreTrue' /\ CallsOK'
    BY <2>2 DEF LegacyOK, TrackedOK, StrayOK, PublishedOK, WorkersOK, RowsAreTrue, CallsOK
  <2> QED
    BY <2>1, <2>3, <2>4, <2>5, <2>6, <2>7
<1>5. ASSUME NEW c \in Creators, Identify(c)
      PROVE  IInv'
  <2> USE <1>5 DEF Identify, IInv, Types, userVars, rowVars, sidecarVars
  <2>1. CreatorsType'
    BY DEF CreatorsType, CreatorState
  <2>2. KindOK'
    BY DEF KindOK, CreatorsType, Having
  <2>3. UnrecordedOK'
    BY DEF UnrecordedOK, CreatorsType, Having
  <2>4. RecordedOK'
    BY DEF RecordedOK, CreatorsType, Recording
  <2>5. UsersType' /\ RowsType' /\ SidecarType' /\ WorkersType' /\ CallsType' /\ LegacyOK' /\ TrackedOK' /\ StrayOK' /\ PublishedOK' /\ WorkersOK' /\ RowsAreTrue' /\ CallsOK'
    BY DEF UsersType, RowsType, SidecarType, WorkersType, CallsType, LegacyOK, TrackedOK, StrayOK,
           PublishedOK, WorkersOK, RowsAreTrue, CallsOK
  <2> QED
    BY <2>1, <2>2, <2>3, <2>4, <2>5
<1>6. ASSUME NEW c \in Creators, SidecarCreates(c)
      PROVE  IInv'
  <2> USE <1>6 DEF SidecarCreates, IInv, Types, userVars, rowVars
  <2>1. SidecarType'
    BY DEF CreatorsType, CreatorState
  <2>2. CreatorsType'
    BY DEF RowsType, SidecarType, CreatorsType, CreatorState
  <2>3. LegacyOK'
    BY DEF LegacyOK
  <2>4. TrackedOK'
    BY DEF TrackedOK
  <2>5. KindOK'
    BY DEF KindOK, CreatorsType
  <2>6. UnrecordedOK'
    <3>1. PICK s \in Sessions :
             /\ held[s] = None /\ held' = [held EXCEPT ![s] = create[c].key]
             /\ create' = [create EXCEPT ![c].id = s, ![c].pc = "created"]
      OBVIOUS
    <3>2. /\ create'[c].pc = "created" /\ create'[c].id = s /\ create'[c].key = create[c].key
          /\ \A d \in Creators \ {c} : create'[d] = create[d]
          /\ held'[s] = create[c].key /\ \A t \in Sessions \ {s} : held'[t] = held[t]
      BY <3>1 DEF CreatorsType, CreatorState
    <3>3. source[s] = "none" =>
             /\ s \notin stray \union legacy
             /\ \A d \in Creators \ {c} : create[d].pc \in Having => create[d].id # s
      <4>1. ASSUME source[s] = "none", NEW d \in Creators, create[d].pc \in {"created", "cleanup"}
            PROVE  create[d].id # s
        <5>1. create[d].key # None
          BY NoneAssumption DEF CreatorsType, CreatorState
        <5> QED
          BY <3>1, <4>1, <5>1 DEF UnrecordedOK
      <4> QED
        BY <3>1, <4>1 DEF StrayOK, LegacyOK, RecordedOK, Having, Recording
    <3>4. \A d \in Creators \ {c} : create[d].pc \in {"created", "cleanup"}
              /\ source[create[d].id] = "none" => create[d].id \in Sessions \ {s}
      BY <3>3 DEF KindOK, Having
    <3>5. ASSUME NEW d \in Creators \ {c}
          PROVE  /\ create'[d].pc = "cleanup" => source'[create'[d].id] = "none"
                 /\ create'[d].pc \in {"created", "cleanup"} /\ source'[create'[d].id] = "none" =>
                       /\ held'[create'[d].id] = create'[d].key
                       /\ create'[d].id \notin stray' \union legacy'
                       /\ \A e \in Creators \ {d} :
                             create'[e].pc \in Having => create'[e].id # create'[d].id
      <4>1. create'[d] = create[d] /\ source' = source /\ stray' = stray /\ legacy' = legacy
        BY <3>2
      <4>2. create[d].pc = "cleanup" => source[create[d].id] = "none"
        BY DEF UnrecordedOK
      <4>3. ASSUME create[d].pc \in {"created", "cleanup"}, source[create[d].id] = "none"
            PROVE  /\ held'[create[d].id] = create[d].key
                   /\ create[d].id \notin stray \union legacy
                   /\ \A e \in Creators \ {d} : create'[e].pc \in Having => create'[e].id # create[d].id
        <5>1. /\ held[create[d].id] = create[d].key /\ create[d].id \notin stray \union legacy
              /\ \A e \in Creators \ {d} : create[e].pc \in Having => create[e].id # create[d].id
          BY <4>3 DEF UnrecordedOK
        <5>2. create[d].id \in Sessions \ {s}
          BY <3>4, <4>3
        <5> QED
          BY ZenonT(30), <3>2, <5>1, <5>2
      <4> QED
        BY <4>1, <4>2, <4>3
    <3>6. /\ create'[c].pc # "cleanup" /\ held'[s] = create'[c].key
          /\ source'[s] = "none" =>
                /\ s \notin stray' \union legacy'
                /\ \A e \in Creators \ {c} : create'[e].pc \in Having => create'[e].id # s
      BY <3>2, <3>3
    <3> QED
      BY ZenonT(30), <3>2, <3>5, <3>6 DEF UnrecordedOK
  <2>7. RecordedOK'
    BY DEF RecordedOK, CreatorsType, Recording
  <2>8. StrayOK'
    BY DEF StrayOK
  <2>9. RowsAreTrue'
    BY DEF CreatorsType, CreatorState
  <2>10. CallsOK'
    BY DEF CallsOK, PublishedOK, TrackedOK
  <2>11. UsersType' /\ RowsType' /\ WorkersType' /\ CallsType' /\ PublishedOK' /\ WorkersOK'
    BY DEF UsersType, RowsType, WorkersType, CallsType, PublishedOK, WorkersOK
  <2> QED
    BY <2>1, <2>2, <2>3, <2>4, <2>5, <2>6, <2>7, <2>8, <2>9, <2>10, <2>11
<1>7. ASSUME NEW c \in Creators, Persist(c)
      PROVE  IInv'
  <2> USE <1>7 DEF IInv, Types
  <2>0. PICK s \in Sessions : s = create[c].id
    BY DEF Persist, KindOK, Having
  <2>1. /\ create[c].pc = "created"
        /\ UNCHANGED <<userVars, claim, expired, legacy, held, stray, published, work, call, crashes>>
    BY DEF Persist
  <2> USE DEF userVars
  <2>2. CASE source[s] = "none" /\ ~Changed(c) /\ Record(c)
    <3>1. /\ CreatorsType' /\ create'[c].pc = "persisted" /\ create'[c].id = s
          /\ create'[c].kind = create[c].kind /\ create'[c].key = create[c].key
          /\ \A d \in Creators \ {c} : create'[d] = create[d]
      BY <2>0, <2>2, GotoFacts DEF Record
    <3>2. /\ create[c].kind \in Live /\ create[c].key \in Keys /\ create[c].identity \in 0..MaxAccounts
          /\ create[c].kind = "server" => create[c].key[2] = 0
      BY DEF CreatorsType, CreatorState, KindOK
    <3>3. /\ source' = [source EXCEPT ![s] = create[c].kind]
          /\ recorded' = [recorded EXCEPT ![s] = generation]
          /\ tracked' = tracked \union {s}
          /\ straddled' = IF create[c].identity = create[c].key[1] THEN straddled
                          ELSE straddled \union {s}
      BY <2>0, <2>2 DEF Record
    <3>4. /\ held[s] = create[c].key /\ s \notin stray /\ s \notin legacy /\ s \notin published
          /\ \A d \in Creators \ {c} : create[d].pc \in Having => create[d].id # s
      BY <2>0, <2>1, <2>2 DEF UnrecordedOK, PublishedOK
    <3>5. /\ source'[s] = create[c].kind /\ source'[s] \in Live /\ source[s] = "none"
          /\ \A t \in Sessions \ {s} : source'[t] = source[t] /\ recorded'[t] = recorded[t]
          /\ recorded'[s] = generation
      BY <2>2, <3>2, <3>3 DEF RowsType
    <3>6. UsersType' /\ WorkersType' /\ CallsType'
      BY <2>1 DEF UsersType, WorkersType, CallsType
    <3>7. RowsType'
      BY <2>1, <3>2, <3>3 DEF RowsType, UsersType
    <3>8. SidecarType'
      BY <2>1, <3>3 DEF SidecarType
    <3>9. LegacyOK' /\ StrayOK' /\ PublishedOK'
      BY <2>1, <3>3, <3>4, <3>5 DEF LegacyOK, StrayOK, PublishedOK
    <3>10. TrackedOK'
      BY <2>1, <3>2, <3>3, <3>4, <3>5, NoneAssumption DEF TrackedOK, Live
    <3>11. KindOK'
      BY <3>1, <3>2 DEF KindOK
    <3>12. UnrecordedOK'
      BY <2>1, <3>1, <3>4, <3>5 DEF UnrecordedOK, KindOK, Having
    <3>13. RecordedOK'
      <4>1. ASSUME NEW d \in Creators \ {c}, create'[d].pc \in Recording
            PROVE  create'[d].id # s /\ create'[d] = create[d] /\ create[d].id \in Sessions
        BY <3>1, <3>4, <4>1 DEF Recording, Having, KindOK
      <4>2. ASSUME NEW d \in Creators \ {c}, create'[d].pc \in Recording
            PROVE  /\ source'[create'[d].id] # "none" /\ create'[d].id \notin published'
                   /\ \A e \in Creators \ {d} : create'[e].pc \in Recording => create'[e].id # create'[d].id
                   /\ source'[create'[d].id] \in Live =>
                         /\ create'[d].id \notin stray'
                         /\ create'[d].pc \in {"persisted", "drop"} => create'[d].id \in tracked'
        <5>1. /\ create'[d] = create[d] /\ create[d].pc \in Recording /\ create[d].id \in Sessions \ {s}
              /\ source'[create[d].id] = source[create[d].id]
          BY <3>5, <4>1, <4>2
        <5>2. \A e \in Creators \ {d} : create'[e].pc \in Recording => create'[e].id # create[d].id
          BY <3>1, <5>1 DEF RecordedOK
        <5> QED
          BY <2>1, <3>3, <5>1, <5>2 DEF RecordedOK
      <4>3. /\ source'[s] # "none" /\ s \notin published' /\ s \notin stray' /\ s \in tracked'
            /\ \A e \in Creators \ {c} : create'[e].pc \in Recording => create'[e].id # s
        BY <2>1, <3>3, <3>4, <3>5, <4>1 DEF Live
      <4> QED
        BY <3>1, <4>2, <4>3 DEF RecordedOK
    <3>14. WorkersOK'
      BY <2>1, <3>3, <3>5 DEF WorkersOK, Tombstone
    <3>15. RowsAreTrue'
      <4>1. ASSUME s \notin straddled'
            PROVE  held[s] = <<account, IF source'[s] = "user" THEN recorded'[s] ELSE 0>>
        <5>1. create[c].identity = create[c].key[1]
          BY <3>3, <4>1
        <5>2. create[c].key = <<create[c].key[1], create[c].key[2]>> /\ create[c].key[1] # 0
          BY <3>2 DEF Keys
        <5>3. /\ account = create[c].key[1]
              /\ create[c].kind = "user" => generation = create[c].key[2]
          BY <2>2, <5>1, <5>2 DEF Changed
        <5> QED
          BY <3>2, <3>4, <3>5, <5>2, <5>3 DEF Live
      <4> QED
        BY <2>1, <3>3, <3>5, <4>1 DEF RowsAreTrue
    <3>16. CallsOK'
      BY <2>1, <3>4, <3>5 DEF CallsOK, SidecarType
    <3> QED
      BY <3>1, <3>6, <3>7, <3>8, <3>9, <3>10, <3>11, <3>12, <3>13, <3>14, <3>15, <3>16
  <2>3. CASE source[s] # "none" /\ End(c) /\ UNCHANGED <<source, recorded, tracked, straddled>>
    <3>1. /\ CreatorsType' /\ create'[c].pc = "idle" /\ create'[c].key[2] = 0
          /\ \A d \in Creators \ {c} : create'[d] = create[d]
      BY <2>3, EndFacts
    <3>2. KindOK' /\ UnrecordedOK' /\ RecordedOK'
      BY <2>1, <2>3, <3>1 DEF KindOK, UnrecordedOK, RecordedOK, Having, Recording
    <3> QED
      BY <2>1, <2>3, <3>1, <3>2
         DEF UsersType, RowsType, SidecarType, WorkersType, CallsType, LegacyOK, TrackedOK, StrayOK,
             PublishedOK, WorkersOK, RowsAreTrue, CallsOK
  <2>4. CASE source[s] = "none" /\ Goto(c, "cleanup") /\ UNCHANGED <<source, recorded, tracked, straddled>>
    <3>1. /\ CreatorsType' /\ create'[c].pc = "cleanup" /\ create'[c].id = s
          /\ create'[c].kind = create[c].kind /\ create'[c].key = create[c].key
          /\ \A d \in Creators \ {c} : create'[d] = create[d]
      BY <2>0, <2>4, GotoFacts
    <3>2. KindOK'
      BY <3>1 DEF KindOK
    <3>3. UnrecordedOK'
      BY <2>0, <2>1, <2>4, <3>1 DEF UnrecordedOK, Having
    <3>4. RecordedOK'
      BY <2>1, <2>4, <3>1 DEF RecordedOK, Recording
    <3> QED
      BY <2>1, <2>4, <3>1, <3>2, <3>3, <3>4
         DEF UsersType, RowsType, SidecarType, WorkersType, CallsType, LegacyOK, TrackedOK, StrayOK,
             PublishedOK, WorkersOK, RowsAreTrue, CallsOK
  <2> QED
    BY <2>0, <2>2, <2>3, <2>4 DEF Persist
<1>8. ASSUME NEW c \in Creators, CreatorDeletes(c)
      PROVE  IInv'
  <2> USE <1>8 DEF IInv, Types
  <2>0. PICK s \in Sessions : s = create[c].id
    BY DEF CreatorDeletes, KindOK, Having
  <2>1. /\ held' = [held EXCEPT ![s] = None] /\ tracked' = tracked \ {s}
        /\ UNCHANGED <<userVars, rowVars, stray, published, straddled, work, call, crashes>>
        /\ create[c].pc \in {"cleanup", "drop"}
    BY <2>0 DEF CreatorDeletes, SidecarDeletes
  <2> USE DEF userVars, rowVars
  <2>2. /\ CreatorsType' /\ \A d \in Creators \ {c} : create'[d] = create[d]
        /\ create'[c].kind = "server" => create'[c].key[2] = 0
        /\ \/ create'[c].pc = "idle"
           \/ create'[c].pc = "discard" /\ create[c].pc = "drop" /\ create'[c].id = s
    <3>1. CASE create[c].pc = "drop"
      BY <2>0, <3>1, GotoFacts DEF CreatorDeletes, KindOK
    <3>2. CASE create[c].pc = "cleanup"
      BY <3>2, EndFacts DEF CreatorDeletes
    <3> QED
      BY <2>1, <3>1, <3>2
  <2>3. /\ s \notin legacy /\ s \notin published /\ (source[s] = "none" => s \notin stray)
        /\ \A d \in Creators \ {c} : create[d].pc \in Recording => create[d].id # s
        /\ \A d \in Creators \ {c} :
              create[d].pc \in {"created", "cleanup"} /\ source[create[d].id] = "none" =>
                  create[d].id # s
    BY <2>0, <2>1, DoomedFacts
  <2>4. \A t \in Sessions \ {s} : held'[t] = held[t] /\ (t \in tracked' <=> t \in tracked)
    BY <2>1 DEF SidecarType
  <2>5. SidecarType' /\ UsersType' /\ RowsType' /\ WorkersType' /\ CallsType'
    BY <2>1 DEF SidecarType, UsersType, RowsType, WorkersType, CallsType
  <2>6. LegacyOK' /\ StrayOK'
    BY <2>1, <2>3, <2>4 DEF LegacyOK, StrayOK
  <2>7. TrackedOK' /\ RowsAreTrue'
    BY <2>1, <2>4 DEF TrackedOK, RowsAreTrue
  <2>8. PublishedOK' /\ WorkersOK'
    BY <2>1, <2>3, <2>4 DEF PublishedOK, WorkersOK
  <2>9. KindOK'
    BY <2>1, <2>2 DEF KindOK, Having
  <2>10. UnrecordedOK'
    BY <2>1, <2>2, <2>3, <2>4 DEF UnrecordedOK, Having
  <2>11. RecordedOK'
    <3>1. ASSUME create'[c].pc \in Recording
          PROVE  /\ create'[c].id = s /\ source'[s] # "none" /\ s \notin published'
                 /\ source'[s] \in Live => s \notin stray'
                 /\ create'[c].pc = "discard"
      BY <2>0, <2>1, <2>2, <3>1 DEF RecordedOK, Recording
    <3>2. ASSUME NEW d \in Creators \ {c}, create'[d].pc \in Recording
          PROVE  create'[d] = create[d] /\ create[d].id \in Sessions \ {s}
      BY <2>2, <2>3, <3>2 DEF KindOK, Recording, Having
    <3>3. create'[c].pc \in Recording => create[c].pc \in Recording /\ create[c].id = create'[c].id
      BY <2>0, <2>2 DEF Recording
    <3> QED
      BY <2>1, <2>4, <3>1, <3>2, <3>3 DEF RecordedOK
  <2>12. CallsOK'
    BY <2>1, <2>3, <2>4 DEF CallsOK
  <2> QED
    BY <2>2, <2>5, <2>6, <2>7, <2>8, <2>9, <2>10, <2>11, <2>12
<1>9. ASSUME NEW c \in Creators, CreatorFails(c)
      PROVE  IInv'
  <2> USE <1>9 DEF IInv, Types
  <2>1. /\ CreatorsType' /\ create'[c].pc = "idle" /\ create'[c].key[2] = 0
        /\ \A d \in Creators \ {c} : create'[d] = create[d]
    BY EndFacts DEF CreatorFails
  <2>2. UNCHANGED <<userVars, rowVars, held, tracked, published, straddled, work, call, crashes>>
    BY DEF CreatorFails
  <2> USE DEF userVars, rowVars
  <2>3. KindOK'
    BY <2>1 DEF KindOK, Having
  <2>4. UsersType' /\ RowsType' /\ WorkersType' /\ CallsType' /\ LegacyOK' /\ TrackedOK' /\ PublishedOK'
        /\ WorkersOK' /\ RowsAreTrue' /\ CallsOK'
    BY <2>2 DEF UsersType, RowsType, WorkersType, CallsType, LegacyOK, TrackedOK, PublishedOK,
                WorkersOK,
                RowsAreTrue, CallsOK
  <2>5. CASE stray' = stray
    <3>1. SidecarType' /\ StrayOK'
      BY <2>2, <2>5 DEF SidecarType, StrayOK
    <3>2. UnrecordedOK' /\ RecordedOK'
      BY <2>1, <2>2, <2>5 DEF UnrecordedOK, RecordedOK, Having, Recording
    <3> QED
      BY <2>1, <2>3, <2>4, <3>1, <3>2
  <2>6. CASE create[c].pc \in {"cleanup", "drop"} /\ stray' = stray \union {create[c].id}
    <3>0. PICK s \in Sessions : s = create[c].id
      BY <2>6 DEF KindOK, Having
    <3>1. /\ s \notin legacy /\ s \notin published /\ (source[s] = "none" => held[s] # None)
          /\ \A d \in Creators \ {c} : create[d].pc \in Recording => create[d].id # s
          /\ \A d \in Creators \ {c} :
                create[d].pc \in {"created", "cleanup"} /\ source[create[d].id] = "none" =>
                    create[d].id # s
      BY <2>6, <3>0, DoomedFacts
    <3>2. SidecarType' /\ StrayOK'
      BY <2>2, <2>6, <3>0, <3>1 DEF SidecarType, StrayOK
    <3>3. UnrecordedOK'
      BY <2>1, <2>2, <2>6, <3>0, <3>1 DEF UnrecordedOK, Having
    <3>4. RecordedOK'
      BY <2>1, <2>2, <2>6, <3>0, <3>1 DEF RecordedOK, Recording
    <3> QED
      BY <2>1, <2>3, <2>4, <3>2, <3>3, <3>4
  <2> QED
    BY <2>5, <2>6 DEF CreatorFails, GivenUp
<1>10. ASSUME NEW c \in Creators, Persisted(c)
      PROVE  IInv'
  <2> USE <1>10 DEF IInv, Types
  <2>0. PICK s \in Sessions : s = create[c].id
    BY DEF Persisted, KindOK, Having
  <2>1. create[c].pc = "persisted" /\ UNCHANGED <<userVars, rowVars, sidecarVars, straddled, work, call, crashes>>
    BY DEF Persisted
  <2> USE DEF userVars, rowVars, sidecarVars
  <2>2. /\ source[s] # "none" /\ s \notin published
        /\ \A d \in Creators \ {c} : create[d].pc \in Recording => create[d].id # s
        /\ source[s] \in Live => s \notin stray /\ s \in tracked
    BY <2>0, <2>1 DEF RecordedOK, Recording
  <2>3. /\ CreatorsType' /\ \A d \in Creators \ {c} : create'[d] = create[d]
        /\ create'[c].kind = "server" => create'[c].key[2] = 0
        /\ \/ create'[c].pc = "idle" /\ published' \in {published, published \union {s}}
           \/ create'[c].pc \in {"drop", "discard"} /\ create'[c].id = s /\ published' = published
    <3>1. CASE End(c)
      BY <2>0, <3>1, EndFacts DEF Persisted
    <3>2. CASE Goto(c, "drop") /\ published' = published
      BY <2>0, <3>2, GotoFacts DEF KindOK
    <3>3. CASE Goto(c, "discard") /\ published' = published
      BY <2>0, <3>3, GotoFacts DEF KindOK
    <3> QED
      BY <3>1, <3>2, <3>3 DEF Persisted
  <2>4. published \subseteq published' /\ published' \subseteq published \union {s}
    BY <2>3
  <2>5. SidecarType' /\ UsersType' /\ RowsType' /\ WorkersType' /\ CallsType'
    BY <2>1, <2>4 DEF SidecarType, UsersType, RowsType, WorkersType, CallsType
  <2>6. LegacyOK' /\ TrackedOK' /\ WorkersOK' /\ RowsAreTrue'
    BY <2>1 DEF LegacyOK, TrackedOK, WorkersOK, RowsAreTrue
  <2>7. KindOK'
    BY <2>3 DEF KindOK, Having
  <2>8. UnrecordedOK'
    BY <2>0, <2>1, <2>3 DEF UnrecordedOK, Having
  <2>9. RecordedOK'
    BY <2>0, <2>1, <2>2, <2>3, <2>4 DEF RecordedOK, Recording
  <2>10. StrayOK' /\ PublishedOK'
    BY <2>1, <2>2, <2>4 DEF StrayOK, PublishedOK
  <2>11. CallsOK'
    BY <2>1, <2>4 DEF CallsOK
  <2> QED
    BY <2>3, <2>5, <2>6, <2>7, <2>8, <2>9, <2>10, <2>11
<1>11. ASSUME NEW c \in Creators, Discard(c)
      PROVE  IInv'
  <2> USE <1>11 DEF Discard, IInv, Types, Revoke, End, userVars, sidecarVars
  <2>1. RowsType'
    BY DEF RowsType, Tombstone
  <2>2. CreatorsType'
    BY DEF CreatorsType, CreatorState, Idle, Live, Keys
  <2>3. LegacyOK'
    BY DEF LegacyOK, Recording, RecordedOK
  <2>4. TrackedOK'
    BY DEF TrackedOK
  <2>5. KindOK'
    BY DEF KindOK, Having, Idle
  <2>6. UnrecordedOK'
    BY DEF UnrecordedOK, Having, Idle
  <2>7. RecordedOK'
    BY DEF RecordedOK, Live, Recording, Idle
  <2>8. StrayOK'
    BY DEF StrayOK, Recording, RecordedOK
  <2>9. PublishedOK'
    BY DEF PublishedOK, Recording, RecordedOK
  <2>10. WorkersOK'
    BY DEF WorkersOK, Tombstone
  <2>11. RowsAreTrue'
    BY DEF RowsAreTrue, Live
  <2>12. CallsOK'
    BY DEF CallsOK, Recording, RecordedOK
  <2>13. UsersType' /\ SidecarType' /\ WorkersType' /\ CallsType'
    BY DEF UsersType, SidecarType, WorkersType, CallsType
  <2> QED
    BY <2>1, <2>2, <2>3, <2>4, <2>5, <2>6, <2>7, <2>8, <2>9, <2>10, <2>11, <2>12, <2>13
<1>12. ASSUME NEW w \in Workers, WorkerDeletes(w)
      PROVE  IInv'
  <2> USE <1>12 DEF WorkerDeletes, IInv, Types, SidecarDeletes, userVars, rowVars, createVars
  <2>1. SidecarType'
    BY DEF SidecarType
  <2>2. WorkersType'
    BY DEF WorkersType, WorkerState
  <2>3. LegacyOK'
    BY DEF LegacyOK, Tombstone, WorkersOK
  <2>4. TrackedOK'
    BY DEF TrackedOK
  <2>5. UnrecordedOK'
    BY DEF UnrecordedOK, Tombstone, WorkersOK
  <2>6. RecordedOK'
    BY DEF RecordedOK, Live, Tombstone, WorkersOK
  <2>7. StrayOK'
    BY DEF StrayOK, Tombstone, WorkersOK
  <2>8. PublishedOK'
    BY DEF PublishedOK, Live, Tombstone, WorkersOK
  <2>9. WorkersOK'
    BY DEF WorkersOK
  <2>10. RowsAreTrue'
    BY DEF RowsAreTrue
  <2>11. CallsOK'
    BY DEF CallsOK, Live, Tombstone, WorkersOK
  <2>12. UsersType' /\ RowsType' /\ CreatorsType' /\ CallsType' /\ KindOK'
    BY DEF UsersType, RowsType, CreatorsType, CallsType, KindOK
  <2> QED
    BY <2>1, <2>2, <2>3, <2>4, <2>5, <2>6, <2>7, <2>8, <2>9, <2>10, <2>11, <2>12
<1>13. ASSUME NEW w \in Workers, Finish(w)
      PROVE  IInv'
  <2> USE <1>13 DEF Finish, IInv, Types, FinishAs, Owns, Release, Over, userVars, sidecarVars,
                    createVars
  <2>1. RowsType'
    BY DEF RowsType, CreatorsType, Tombstone
  <2>2. WorkersType'
    BY DEF WorkersType, WorkerState, IdleWorker
  <2>3. LegacyOK'
    BY DEF LegacyOK, RowsType
  <2>4. TrackedOK'
    BY DEF TrackedOK, RowsType, SidecarType, WorkersOK
  <2>5. UnrecordedOK'
    BY DEF UnrecordedOK, RowsType, Having, KindOK
  <2>6. RecordedOK'
    BY DEF RecordedOK, RowsType, Live, Having, Recording, KindOK
  <2>7. StrayOK'
    BY DEF StrayOK, RowsType, SidecarType, Live
  <2>8. PublishedOK'
    BY DEF PublishedOK, RowsType, SidecarType, Live
  <2>9. WorkersOK'
    BY DEF WorkersOK, RowsType, Tombstone, IdleWorker
  <2>10. RowsAreTrue'
    BY DEF RowsAreTrue, RowsType, SidecarType, Live
  <2>11. CallsOK'
    BY DEF CallsOK, RowsType, SidecarType, Live
  <2>12. UsersType' /\ SidecarType' /\ CreatorsType' /\ CallsType' /\ KindOK'
    BY DEF UsersType, SidecarType, CreatorsType, CallsType, KindOK
  <2> QED
    BY <2>1, <2>2, <2>3, <2>4, <2>5, <2>6, <2>7, <2>8, <2>9, <2>10, <2>11, <2>12
<1>14. ASSUME NEW w \in Workers, WorkerFails(w)
      PROVE  IInv'
  <2> USE <1>14 DEF WorkerFails, IInv, Types, GivenUp, Release, Owns, Over, userVars, createVars
  <2>1. RowsType'
    BY DEF RowsType
  <2>2. SidecarType'
    <3>1. stray' = stray \/ (work[w].pc = "sent" /\ stray' = stray \union {work[w].target})
      OBVIOUS
    <3>2. work[w].pc = "sent" => work[w].target \in Sessions
      BY DEF WorkersOK
    <3> QED
      BY <3>1, <3>2 DEF SidecarType
  <2>3. WorkersType'
    BY DEF WorkersType, WorkerState, IdleWorker
  <2>4. UnrecordedOK'
    BY DEF UnrecordedOK, Tombstone, WorkersOK
  <2>5. RecordedOK'
    BY DEF RecordedOK, Live, Tombstone, WorkersOK
  <2>6. StrayOK'
    BY DEF StrayOK, Live, Tombstone, WorkersOK
  <2>7. WorkersOK'
    BY DEF WorkersOK, IdleWorker
  <2>8. UsersType' /\ CreatorsType' /\ CallsType' /\ LegacyOK' /\ TrackedOK' /\ KindOK' /\ PublishedOK' /\ RowsAreTrue' /\ CallsOK'
    BY DEF UsersType, CreatorsType, CallsType, LegacyOK, TrackedOK, KindOK, PublishedOK,
           RowsAreTrue, CallsOK
  <2> QED
    BY <2>1, <2>2, <2>3, <2>4, <2>5, <2>6, <2>7, <2>8
<1>15. ASSUME NEW w \in Workers, RenewalDies(w)
      PROVE  IInv'
  <2> USE <1>15 DEF RenewalDies, IInv, Types, userVars, rowVars, sidecarVars, createVars
  <2>1. WorkersType'
    BY ZenonT(30) DEF UsersType, RowsType, SidecarType, CreatorsType, WorkersType, CallsType, WorkerState,
           IdleWorker
  <2>2. WorkersOK'
    BY DEF WorkersOK
  <2>3. UsersType' /\ RowsType' /\ SidecarType' /\ CreatorsType' /\ CallsType' /\ LegacyOK' /\ TrackedOK' /\ KindOK' /\ UnrecordedOK' /\ RecordedOK' /\ StrayOK' /\ PublishedOK' /\ RowsAreTrue' /\ CallsOK'
    BY DEF UsersType, RowsType, SidecarType, CreatorsType, CallsType, LegacyOK, TrackedOK, KindOK,
           UnrecordedOK, RecordedOK, StrayOK, PublishedOK, RowsAreTrue, CallsOK
  <2> QED
    BY <2>1, <2>2, <2>3
<1>16. ASSUME NEW s \in Sessions, DeleteChat(s)
      PROVE  IInv'
  <2> USE <1>16 DEF DeleteChat, IInv, Types, Revoke, userVars, sidecarVars, createVars
  <2>1. RowsType'
    BY DEF RowsType, Tombstone
  <2>2. LegacyOK'
    BY DEF LegacyOK
  <2>3. TrackedOK'
    BY DEF TrackedOK
  <2>4. UnrecordedOK'
    BY DEF UnrecordedOK, Live
  <2>5. RecordedOK'
    BY DEF RecordedOK, Live
  <2>6. StrayOK'
    BY DEF StrayOK, Live
  <2>7. PublishedOK'
    BY DEF PublishedOK, Live
  <2>8. WorkersOK'
    BY DEF WorkersOK, Tombstone
  <2>9. RowsAreTrue'
    BY DEF RowsAreTrue, Live
  <2>10. CallsOK'
    BY DEF CallsOK, Live
  <2>11. UsersType' /\ SidecarType' /\ CreatorsType' /\ WorkersType' /\ CallsType' /\ KindOK'
    BY DEF UsersType, SidecarType, CreatorsType, WorkersType, CallsType, KindOK
  <2> QED
    BY <2>1, <2>2, <2>3, <2>4, <2>5, <2>6, <2>7, <2>8, <2>9, <2>10, <2>11
<1>17. ASSUME NEW s \in Sessions, Expire(s)
      PROVE  IInv'
  <2> USE <1>17 DEF Expire, IInv, Types, Owns, userVars, sidecarVars, createVars
  <2>1. RowsType'
    BY DEF RowsType
  <2>2. UsersType' /\ SidecarType' /\ CreatorsType' /\ WorkersType' /\ CallsType' /\ LegacyOK' /\ TrackedOK' /\ KindOK' /\ UnrecordedOK' /\ RecordedOK' /\ StrayOK' /\ PublishedOK' /\ WorkersOK' /\ RowsAreTrue' /\ CallsOK'
    BY DEF UsersType, SidecarType, CreatorsType, WorkersType, CallsType, LegacyOK, TrackedOK,
           KindOK, UnrecordedOK, RecordedOK, StrayOK, PublishedOK, WorkersOK, RowsAreTrue, CallsOK
  <2> QED
    BY <2>1, <2>2
<1>18. ASSUME NEW s \in Sessions, StrayDelete(s)
      PROVE  IInv'
  <2> USE <1>18 DEF StrayDelete, IInv, Types, SidecarDeletes, userVars, rowVars, createVars
  <2>1. SidecarType'
    BY DEF SidecarType
  <2>2. LegacyOK'
    BY DEF LegacyOK, StrayOK
  <2>3. TrackedOK'
    BY DEF TrackedOK
  <2>4. UnrecordedOK'
    BY DEF UnrecordedOK
  <2>5. RecordedOK'
    BY DEF RecordedOK
  <2>6. StrayOK'
    BY DEF StrayOK
  <2>7. PublishedOK'
    BY DEF PublishedOK, StrayOK
  <2>8. WorkersOK'
    BY DEF WorkersOK
  <2>9. RowsAreTrue'
    BY DEF RowsAreTrue
  <2>10. CallsOK'
    BY DEF CallsOK, StrayOK
  <2>11. UsersType' /\ RowsType' /\ CreatorsType' /\ WorkersType' /\ CallsType' /\ KindOK'
    BY DEF UsersType, RowsType, CreatorsType, WorkersType, CallsType, KindOK
  <2> QED
    BY <2>1, <2>2, <2>3, <2>4, <2>5, <2>6, <2>7, <2>8, <2>9, <2>10, <2>11
<1>19. ASSUME NEW w \in Workers, NEW s \in Sessions, Claim(w, s)
      PROVE  IInv'
  <2> USE <1>19 DEF Claim, IInv, Types, ClaimIf, userVars, sidecarVars, createVars
  <2>1. RowsType'
    BY DEF RowsType, Tombstone
  <2>2. WorkersType'
    BY DEF WorkersType, WorkerState
  <2>3. LegacyOK'
    BY DEF LegacyOK
  <2>4. TrackedOK'
    BY DEF TrackedOK
  <2>5. UnrecordedOK'
    BY DEF UnrecordedOK
  <2>6. RecordedOK'
    BY DEF RecordedOK, Live
  <2>7. StrayOK'
    BY DEF StrayOK, Live
  <2>8. PublishedOK'
    BY DEF PublishedOK, Live
  <2>9. WorkersOK'
    BY DEF WorkersOK, Tombstone
  <2>10. RowsAreTrue'
    BY DEF RowsAreTrue, Live
  <2>11. CallsOK'
    BY DEF CallsOK, Live
  <2>12. UsersType' /\ SidecarType' /\ CreatorsType' /\ CallsType' /\ KindOK'
    BY DEF UsersType, SidecarType, CreatorsType, CallsType, KindOK
  <2> QED
    BY <2>1, <2>2, <2>3, <2>4, <2>5, <2>6, <2>7, <2>8, <2>9, <2>10, <2>11, <2>12
<1>20. ASSUME NEW u \in Calls, CallCheck(u)
      PROVE  IInv'
  <2> USE <1>20 DEF CallCheck, IInv, Types, Accepts, userVars, rowVars, sidecarVars, createVars
  <2>1. CallsType'
    <3>1. PICK s \in published :
             /\ Accepts(s)
             /\ call' = [call EXCEPT ![u] = [IdleCall EXCEPT !.pc = "checked", !.id = s, !.kind = source[s]]]
      BY DEF CallCheck
    <3>2. s \in Sessions /\ source[s] \in Live
      BY <3>1 DEF SidecarType, Live
    <3>3. [IdleCall EXCEPT !.pc = "checked", !.id = s, !.kind = source[s]] \in CallState
      BY <3>2 DEF IdleCall, CallState
    <3> QED
      BY <3>1, <3>3, CallFacts
  <2>2. CallsOK'
    BY DEF CallsOK
  <2>3. UsersType' /\ RowsType' /\ SidecarType' /\ CreatorsType' /\ WorkersType' /\ LegacyOK' /\ TrackedOK' /\ KindOK' /\ UnrecordedOK' /\ RecordedOK' /\ StrayOK' /\ PublishedOK' /\ WorkersOK' /\ RowsAreTrue'
    BY DEF UsersType, RowsType, SidecarType, CreatorsType, WorkersType, LegacyOK, TrackedOK,
           KindOK, UnrecordedOK, RecordedOK, StrayOK, PublishedOK, WorkersOK, RowsAreTrue
  <2> QED
    BY <2>1, <2>2, <2>3
<1>21. ASSUME NEW u \in Calls, CallPrompt(u)
      PROVE  IInv'
  <2> USE <1>21 DEF CallPrompt, IInv, Types, Return, userVars, rowVars, sidecarVars, createVars
  <2>1. CallsType'
    BY DEF CallsType, CallState, IdleCall, Live
  <2>2. CallsOK'
    <3>1. \A v \in Calls \ {u} : call'[v] = call[v]
      BY DEF CallsType
    <3>2. \/ call'[u].pc = "idle"
          \/ /\ call'[u].pc = "prompted" /\ call'[u].id = call[u].id /\ call'[u].kind = call[u].kind
             /\ call'[u].key = held[call[u].id] /\ call[u].pc = "checked"
      BY DEF CallsType, CallState, IdleCall
    <3> QED
      BY <3>1, <3>2 DEF CallsOK
  <2>3. UsersType' /\ RowsType' /\ SidecarType' /\ CreatorsType' /\ WorkersType' /\ LegacyOK' /\ TrackedOK' /\ KindOK' /\ UnrecordedOK' /\ RecordedOK' /\ StrayOK' /\ PublishedOK' /\ WorkersOK' /\ RowsAreTrue'
    BY DEF UsersType, RowsType, SidecarType, CreatorsType, WorkersType, LegacyOK, TrackedOK,
           KindOK, UnrecordedOK, RecordedOK, StrayOK, PublishedOK, WorkersOK, RowsAreTrue
  <2> QED
    BY <2>1, <2>2, <2>3
<1>22. ASSUME NEW u \in Calls, CallReturn(u)
      PROVE  IInv'
  <2> USE <1>22 DEF CallReturn, IInv, Types, ReturnIf, Return, Accepts, userVars, rowVars,
                    sidecarVars, createVars
  <2>1. CallsType'
    BY DEF CallsType, CallState, IdleCall, Live
  <2>2. CallsOK'
    <3>1. \A v \in Calls \ {u} : call'[v] = call[v]
      BY DEF CallsType
    <3>2. \/ call'[u].pc = "idle"
          \/ /\ call'[u].pc = "delivered" /\ call'[u].id = call[u].id /\ call'[u].kind = call[u].kind
             /\ call[u].pc = "prompted"
      BY DEF CallsType, CallState, IdleCall
    <3> QED
      BY <3>1, <3>2 DEF CallsOK
  <2>3. UsersType' /\ RowsType' /\ SidecarType' /\ CreatorsType' /\ WorkersType' /\ LegacyOK' /\ TrackedOK' /\ KindOK' /\ UnrecordedOK' /\ RecordedOK' /\ StrayOK' /\ PublishedOK' /\ WorkersOK' /\ RowsAreTrue'
    BY DEF UsersType, RowsType, SidecarType, CreatorsType, WorkersType, LegacyOK, TrackedOK,
           KindOK, UnrecordedOK, RecordedOK, StrayOK, PublishedOK, WorkersOK, RowsAreTrue
  <2> QED
    BY <2>1, <2>2, <2>3
<1>23. ASSUME NEW u \in Calls, CallEnds(u)
      PROVE  IInv'
  <2> USE <1>23 DEF CallEnds, IInv, Types, Return, userVars, rowVars, sidecarVars, createVars
  <2>1. CallsType'
    BY DEF CallsType, CallState, IdleCall, Live
  <2>2. CallsOK'
    BY DEF CallsOK, IdleCall
  <2>3. UsersType' /\ RowsType' /\ SidecarType' /\ CreatorsType' /\ WorkersType' /\ LegacyOK' /\ TrackedOK' /\ KindOK' /\ UnrecordedOK' /\ RecordedOK' /\ StrayOK' /\ PublishedOK' /\ WorkersOK' /\ RowsAreTrue'
    BY DEF UsersType, RowsType, SidecarType, CreatorsType, WorkersType, LegacyOK, TrackedOK,
           KindOK, UnrecordedOK, RecordedOK, StrayOK, PublishedOK, WorkersOK, RowsAreTrue
  <2> QED
    BY <2>1, <2>2, <2>3
<1>24. ASSUME Crash
      PROVE  IInv'
  <2> USE <1>24 DEF Crash, IInv, Types, Sent, userVars
  <2>1. RowsType'
    BY DEF RowsType
  <2>2. SidecarType'
    <3>1. PICK late \in SUBSET Sent : stray' = stray \union late
      BY DEF Crash
    <3>2. \A w \in Workers : work[w].pc = "sent" => work[w].target \in Sessions
      BY DEF WorkersOK
    <3>3. \A c \in Creators : create[c].pc \in {"cleanup", "drop"} => create[c].id \in Sessions
      BY DEF KindOK, Having
    <3> QED
      BY <3>1, <3>2, <3>3, BoundsAssumption DEF SidecarType
  <2>3. CreatorsType'
    BY DEF CreatorsType, CreatorState, Idle, Live, Keys
  <2>4. WorkersType'
    BY DEF WorkersType, WorkerState, IdleWorker
  <2>5. CallsType'
    BY DEF CallsType, CallState, IdleCall, Live
  <2>6. KindOK'
    BY DEF KindOK, Having, Idle
  <2>7. UnrecordedOK'
    BY DEF UnrecordedOK, Idle
  <2>8. RecordedOK'
    BY DEF RecordedOK, Recording, Idle
  <2>9. StrayOK'
    <3>1. PICK late \in SUBSET Sent : stray' = stray \union late
      BY DEF Crash
    <3>2. ASSUME NEW t \in late
          PROVE  t \in Sessions /\ (source[t] = "none" => held[t] # None /\ t \notin legacy)
                 /\ (source[t] \in Live => t \notin published)
      <4>1. CASE \E w \in Workers : work[w].pc = "sent" /\ t = work[w].target
        BY <4>1 DEF WorkersOK, Tombstone, Live
      <4>2. CASE \E c \in Creators : create[c].pc \in {"cleanup", "drop"} /\ t = create[c].id
        <5>1. t \in Sessions
          BY <4>2 DEF KindOK, Having
        <5> QED
          BY <4>2, <5>1, DoomedFacts
      <4> QED
        BY <4>1, <4>2 DEF Sent
    <3> QED
      BY <3>1, <3>2 DEF StrayOK
  <2>10. WorkersOK'
    BY DEF WorkersOK, IdleWorker
  <2>11. CallsOK'
    BY DEF CallsOK, IdleCall
  <2>12. UsersType' /\ LegacyOK' /\ TrackedOK' /\ PublishedOK' /\ RowsAreTrue'
    BY DEF UsersType, LegacyOK, TrackedOK, PublishedOK, RowsAreTrue
  <2> QED
    BY <2>1, <2>2, <2>3, <2>4, <2>5, <2>6, <2>7, <2>8, <2>9, <2>10, <2>11, <2>12
<1> QED
  BY <1>1, <1>2, <1>3, <1>4, <1>5, <1>6, <1>7, <1>8, <1>9, <1>10, <1>11, <1>12, <1>13, <1>14,
                                        <1>15, <1>16, <1>17, <1>18, <1>19, <1>20, <1>21, <1>22,
                                        <1>23, <1>24 DEF Next, CreateStep, CallStep

(* Stuttering does too.                                                    *)
LEMMA StutterInv ==
    ASSUME IInv, UNCHANGED vars
    PROVE  IInv'
  BY DEF vars, userVars, rowVars, sidecarVars, createVars, IInv, Types, UsersType, RowsType,
         SidecarType, CreatorsType, WorkersType, CallsType, LegacyOK, TrackedOK, KindOK, UnrecordedOK,
         RecordedOK, StrayOK, PublishedOK, WorkersOK, RowsAreTrue, CallsOK

(* The inductive invariant: what the rows say of a session is true of the  *)
(* sidecar, and so is what each creator, worker and call has read.         *)
THEOREM Invariance == Spec => []IInv
<1>1. Init => IInv
  BY InitInv
<1>2. IInv /\ [Next]_vars => IInv'
  BY StepInv, StutterInv
<1> QED
  BY <1>1, <1>2, PTL DEF Spec

-----------------------------------------------------------------------------
(* Every variable stays in its range.                                      *)
THEOREM TypeCorrect == Spec => []TypeOK
<1>1. IInv => TypeOK
  BY DEF IInv, Types, UsersType, RowsType, SidecarType, CreatorsType, WorkersType, CallsType,
         TypeOK
<1> QED
  BY <1>1, Invariance, PTL

(* A row is marked deleted when its session is gone, and no delete that is *)
(* still on its way hits a session in use.                                 *)
THEOREM DeletesStayExact == Spec => []DeletesAreExact
<1>1. ASSUME IInv PROVE DeletedIsGone
  BY <1>1 DEF IInv, TrackedOK, DeletedIsGone
<1>2. ASSUME IInv PROVE DelayedDeleteIsHarmless
  <2>1. ASSUME NEW w \in Workers, work[w].pc = "sent"
        PROVE  source[work[w].target] \notin Live
    BY <1>2, <2>1 DEF IInv, WorkersOK, Tombstone, Live
  <2>2. ASSUME NEW c \in Creators, create[c].pc \in {"cleanup", "drop"}
        PROVE  create[c].id \notin published
    <3>1. create[c].id \in Sessions
      BY <1>2, <2>2 DEF IInv, KindOK, Having
    <3> QED
      BY <1>2, <2>2, <3>1, DoomedFacts
  <2>3. \A s \in stray : source[s] \in Live => s \notin published
    BY <1>2 DEF IInv, StrayOK
  <2> QED
    BY <2>1, <2>2, <2>3 DEF DelayedDeleteIsHarmless, Sent
<1>3. IInv => DeletesAreExact
  BY <1>1, <1>2 DEF DeletesAreExact
<1> QED
  BY <1>3, Invariance, PTL

(* A session that may be used holds the current key of the account.        *)
THEOREM KeysAreCurrent == Spec => []KeyIsCurrent
<1>1. IInv => KeyIsCurrent
  BY DEF IInv, RowsAreTrue, KeyIsCurrent, Accepts, Own, Live
<1> QED
  BY <1>1, Invariance, PTL

(* A session id is never used again.                                       *)
LEMMA TombstoneStep ==
    ASSUME IInv, Next, NEW s \in Sessions, source[s] \in Tombstone
    PROVE  source'[s] \in Tombstone
<1> USE DEF IInv, Types, Tombstone
<1>1. ASSUME Register
      PROVE  source'[s] \in Tombstone
  BY <1>1 DEF Register, rowVars
<1>2. ASSUME DeleteUser
      PROVE  source'[s] \in Tombstone
  BY <1>2 DEF DeleteUser
<1>3. ASSUME Rotate
      PROVE  source'[s] \in Tombstone
  BY <1>3 DEF Rotate
<1>4. ASSUME NEW c \in Creators, Select(c)
      PROVE  source'[s] \in Tombstone
  BY <1>4 DEF Select, rowVars
<1>5. ASSUME NEW c \in Creators, Identify(c)
      PROVE  source'[s] \in Tombstone
  BY <1>5 DEF Identify, rowVars
<1>6. ASSUME NEW c \in Creators, SidecarCreates(c)
      PROVE  source'[s] \in Tombstone
  BY <1>6 DEF SidecarCreates, rowVars
<1>7. ASSUME NEW c \in Creators, Persist(c)
      PROVE  source'[s] \in Tombstone
  BY <1>7 DEF Persist, Record, RowsType
<1>8. ASSUME NEW c \in Creators, CreatorDeletes(c)
      PROVE  source'[s] \in Tombstone
  BY <1>8 DEF CreatorDeletes, rowVars
<1>9. ASSUME NEW c \in Creators, CreatorFails(c)
      PROVE  source'[s] \in Tombstone
  BY <1>9 DEF CreatorFails, rowVars
<1>10. ASSUME NEW c \in Creators, Persisted(c)
      PROVE  source'[s] \in Tombstone
  BY <1>10 DEF Persisted, rowVars
<1>11. ASSUME NEW c \in Creators, Discard(c)
      PROVE  source'[s] \in Tombstone
  BY <1>11 DEF Discard, Revoke
<1>12. ASSUME NEW w \in Workers, WorkerDeletes(w)
      PROVE  source'[s] \in Tombstone
  BY <1>12 DEF WorkerDeletes, rowVars
<1>13. ASSUME NEW w \in Workers, Finish(w)
      PROVE  source'[s] \in Tombstone
  BY <1>13 DEF Finish, FinishAs, RowsType
<1>14. ASSUME NEW w \in Workers, WorkerFails(w)
      PROVE  source'[s] \in Tombstone
  BY <1>14 DEF WorkerFails
<1>15. ASSUME NEW w \in Workers, RenewalDies(w)
      PROVE  source'[s] \in Tombstone
  BY <1>15 DEF RenewalDies, rowVars
<1>16. ASSUME NEW t \in Sessions, DeleteChat(t)
      PROVE  source'[s] \in Tombstone
  BY <1>16 DEF DeleteChat, Revoke
<1>17. ASSUME NEW t \in Sessions, Expire(t)
      PROVE  source'[s] \in Tombstone
  BY <1>17 DEF Expire
<1>18. ASSUME NEW t \in Sessions, StrayDelete(t)
      PROVE  source'[s] \in Tombstone
  BY <1>18 DEF StrayDelete, rowVars
<1>19. ASSUME NEW w \in Workers, NEW t \in Sessions, Claim(w, t)
      PROVE  source'[s] \in Tombstone
  BY <1>19 DEF Claim, ClaimIf
<1>20. ASSUME NEW u \in Calls, CallCheck(u)
      PROVE  source'[s] \in Tombstone
  BY <1>20 DEF CallCheck, rowVars
<1>21. ASSUME NEW u \in Calls, CallPrompt(u)
      PROVE  source'[s] \in Tombstone
  BY <1>21 DEF CallPrompt, rowVars
<1>22. ASSUME NEW u \in Calls, CallReturn(u)
      PROVE  source'[s] \in Tombstone
  BY <1>22 DEF CallReturn, ReturnIf, rowVars
<1>23. ASSUME NEW u \in Calls, CallEnds(u)
      PROVE  source'[s] \in Tombstone
  BY <1>23 DEF CallEnds, rowVars
<1>24. ASSUME Crash
      PROVE  source'[s] \in Tombstone
  BY <1>24 DEF Crash
<1> QED
  BY <1>1, <1>2, <1>3, <1>4, <1>5, <1>6, <1>7, <1>8, <1>9, <1>10, <1>11, <1>12, <1>13, <1>14,
                                        <1>15, <1>16, <1>17, <1>18, <1>19, <1>20, <1>21, <1>22,
                                        <1>23, <1>24 DEF Next, CreateStep, CallStep

(* A session id is never used again: a tombstone stays one.                *)
THEOREM TombstonesStay == Spec => TombstoneStays
<1>1. IInv /\ [Next]_vars =>
          [\A s \in Sessions : source[s] \in Tombstone => source'[s] \in Tombstone]_source
  BY TombstoneStep DEF vars, rowVars
<1> QED
  BY <1>1, Invariance, PTL DEF Spec, TombstoneStays

(* A reply obtained with a user's key is delivered only while it is valid. *)
LEMMA ReplyStep ==
    ASSUME IInv, Next, NEW u \in Calls, call[u].pc = "prompted", call'[u].pc = "delivered",
           call[u].kind = "user", call[u].id \notin straddled
    PROVE  call[u].key = <<account, generation>>
<1>1. call'[u] # call[u]
  OBVIOUS
<1>2. CallReturn(u)
  <2>1. ASSUME Register
        PROVE  FALSE
    BY <1>1, <2>1 DEF Register
  <2>2. ASSUME DeleteUser
        PROVE  FALSE
    BY <1>1, <2>2 DEF DeleteUser
  <2>3. ASSUME Rotate
        PROVE  FALSE
    BY <1>1, <2>3 DEF Rotate
  <2>4. ASSUME NEW c \in Creators, Select(c)
        PROVE  FALSE
    BY <1>1, <2>4 DEF Select
  <2>5. ASSUME NEW c \in Creators, Identify(c)
        PROVE  FALSE
    BY <1>1, <2>5 DEF Identify
  <2>6. ASSUME NEW c \in Creators, SidecarCreates(c)
        PROVE  FALSE
    BY <1>1, <2>6 DEF SidecarCreates
  <2>7. ASSUME NEW c \in Creators, Persist(c)
        PROVE  FALSE
    BY <1>1, <2>7 DEF Persist
  <2>8. ASSUME NEW c \in Creators, CreatorDeletes(c)
        PROVE  FALSE
    BY <1>1, <2>8 DEF CreatorDeletes
  <2>9. ASSUME NEW c \in Creators, CreatorFails(c)
        PROVE  FALSE
    BY <1>1, <2>9 DEF CreatorFails
  <2>10. ASSUME NEW c \in Creators, Persisted(c)
        PROVE  FALSE
    BY <1>1, <2>10 DEF Persisted
  <2>11. ASSUME NEW c \in Creators, Discard(c)
        PROVE  FALSE
    BY <1>1, <2>11 DEF Discard
  <2>12. ASSUME NEW w \in Workers, WorkerDeletes(w)
        PROVE  FALSE
    BY <1>1, <2>12 DEF WorkerDeletes
  <2>13. ASSUME NEW w \in Workers, Finish(w)
        PROVE  FALSE
    BY <1>1, <2>13 DEF Finish, FinishAs
  <2>14. ASSUME NEW w \in Workers, WorkerFails(w)
        PROVE  FALSE
    BY <1>1, <2>14 DEF WorkerFails
  <2>15. ASSUME NEW w \in Workers, RenewalDies(w)
        PROVE  FALSE
    BY <1>1, <2>15 DEF RenewalDies
  <2>16. ASSUME NEW s \in Sessions, DeleteChat(s)
        PROVE  FALSE
    BY <1>1, <2>16 DEF DeleteChat
  <2>17. ASSUME NEW s \in Sessions, Expire(s)
        PROVE  FALSE
    BY <1>1, <2>17 DEF Expire
  <2>18. ASSUME NEW s \in Sessions, StrayDelete(s)
        PROVE  FALSE
    BY <1>1, <2>18 DEF StrayDelete
  <2>19. ASSUME NEW w \in Workers, NEW s \in Sessions, Claim(w, s)
        PROVE  FALSE
    BY <1>1, <2>19 DEF Claim, ClaimIf
  <2>20. ASSUME NEW t \in Calls, CallCheck(t)
        PROVE  FALSE
    BY <1>1, <2>20 DEF CallCheck
  <2>21. ASSUME NEW t \in Calls, CallPrompt(t)
        PROVE  FALSE
    BY <1>1, <2>21 DEF CallPrompt, Return, IInv, Types, CallsType
  <2>22. ASSUME NEW t \in Calls, CallReturn(t)
        PROVE  t = u
    BY <1>1, <2>22 DEF CallReturn, ReturnIf, Return, IInv, Types, CallsType
  <2>23. ASSUME NEW t \in Calls, CallEnds(t)
        PROVE  FALSE
    BY <1>1, <2>23 DEF CallEnds, Return
  <2>24. ASSUME Crash
        PROVE  FALSE
    BY <1>1, <2>24 DEF Crash, IdleCall
  <2> QED
    BY <2>1, <2>2, <2>3, <2>4, <2>5, <2>6, <2>7, <2>8, <2>9, <2>10, <2>11, <2>12, <2>13, <2>14,
                                        <2>15, <2>16, <2>17, <2>18, <2>19, <2>20, <2>21, <2>22,
                                        <2>23, <2>24 DEF Next, CreateStep, CallStep
<1>3. Accepts(call[u].id)
  BY <1>2 DEF CallReturn, ReturnIf, Return, IInv, Types, CallsType, IdleCall
<1>4. /\ source[call[u].id] = "user" /\ recorded[call[u].id] = generation
      /\ call[u].id \in tracked /\ call[u].key = held[call[u].id]
  BY <1>3 DEF IInv, CallsOK, PublishedOK, Accepts, Live
<1> QED
  BY <1>4 DEF IInv, RowsAreTrue, Live

(* A reply obtained with a user's key is delivered only if the key is      *)
(* still the user's current one.                                           *)
THEOREM RepliesAreCurrent == Spec => ReplyIsCurrent
<1>1. IInv /\ [Next]_vars =>
          [\A u \in Calls : call[u].pc = "prompted" /\ call'[u].pc = "delivered"
                            /\ call[u].kind = "user" /\ call[u].id \notin straddled
              => call[u].key = <<account, generation>>]_vars
  BY ReplyStep
<1> QED
  BY <1>1, Invariance, PTL DEF Spec, ReplyIsCurrent
=============================================================================
