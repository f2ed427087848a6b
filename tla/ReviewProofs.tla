---------------------------- MODULE ReviewProofs ----------------------------
(***************************************************************************)
(* What people and analyses say about a job: the links between jobs and    *)
(* their re-analyses are exact, an override stands for every reader, and   *)
(* nothing is pushed that nobody looked at, for any jobs, tests, builds,   *)
(* scopes and requests.  The module extends the one that runs the three    *)
(* parts, so that the theorems are about the properties it checks.         *)
(***************************************************************************)
EXTENDS MCReview, TLAPS, FiniteSetTheorems, WellFoundedInduction

----------------------------------------------------------------------------
(* The links. *)

(* A listed job names the job that lists it, and both were queued.         *)
ListedWasQueued ==
    \A o, j \in Jobs : j \in links[o] => origin[j] = o /\ row[j] # "new" /\ row[o] # "new"

(* So were a job that has an origin, the origin, and a job that is linked. *)
OriginWasQueued ==
    /\ \A j \in Jobs : origin[j] # NoJob => row[origin[j]] # "new"
    /\ \A j \in linking : row[j] # "new" /\ origin[j] # NoJob

(* A deletion deals with jobs that were queued ...                         *)
DoomedWasQueued ==
    \A d \in Deletions : /\ origins[d] \subseteq doomed[d]
                         /\ \A j \in doomed[d] : row[j] # "new"

(* ... passes over those that are no re-analyses, or none any more, ...    *)
PassedOver ==
    \A d \in Deletions : deleting[d] = "reading" =>
        \A j \in gone[d] : /\ row[j] # "new"
                           /\ row[j] = "deleted" \/ origin[j] = NoJob \/ j \in forgotten

(* ... and takes off the lists only what it, or another one, deleted.      *)
UnlinkedIsDeleted ==
    \A d \in Deletions : deleting[d] = "unlinking" => \A j \in origins[d] : row[j] = "deleted"

IInv ==
    /\ TypeOK /\ ListedWasQueued /\ OriginWasQueued /\ DoomedWasQueued /\ PassedOver
    /\ UnlinkedIsDeleted /\ LinksAreExact

-----------------------------------------------------------------------------
(* The initial states satisfy the invariant.                               *)
LEMMA InitInv ==
    ASSUME NoJobAssumption, Init
    PROVE  IInv
<1>1. TypeOK
  BY DEF Init, TypeOK
<1>2. ListedWasQueued /\ OriginWasQueued /\ DoomedWasQueued /\ PassedOver /\ UnlinkedIsDeleted
  BY DEF Init, ListedWasQueued, OriginWasQueued, DoomedWasQueued, PassedOver, UnlinkedIsDeleted
<1>3. LinksAreExact
  BY DEF Init, LinksAreExact, Present
<1> QED
  BY <1>1, <1>2, <1>3 DEF IInv

(* Every step keeps the invariant.                                         *)
LEMMA StepInv ==
    ASSUME NoJobAssumption, IInv, [Next]_linkState
    PROVE  IInv'
<1> USE DEF Present
<1>0. CASE UNCHANGED linkState
  BY <1>0 DEF IInv, linkState, rowVars, delVars, writeVars, TypeOK, ListedWasQueued,
              OriginWasQueued,
              DoomedWasQueued, PassedOver, UnlinkedIsDeleted, LinksAreExact
<1>1. ASSUME NEW j \in Jobs, NEW o \in Jobs \union {NoJob}, Enqueue(j, o)
      PROVE  IInv'
  <2> USE <1>1 DEF Enqueue, delVars, writeVars, IInv
  <2>1. TypeOK'
    BY DEF TypeOK
  <2>a. /\ row[j] = "new" /\ row'[j] = "present" /\ origin'[j] = o /\ o # j
        /\ \A k \in Jobs : k # j => row'[k] = row[k] /\ origin'[k] = origin[k]
    BY DEF TypeOK
  <2>b. \A k \in Jobs : row[k] # "new" =>
            k # j /\ row'[k] # "new" /\ row'[k] = row[k] /\ origin'[k] = origin[k]
    BY <2>a
  <2>2. ListedWasQueued' /\ OriginWasQueued'
    <3>3. ListedWasQueued'
      BY <2>a, <2>b DEF ListedWasQueued
    <3>4. \A k \in Jobs : origin'[k] # NoJob => row'[origin'[k]] # "new"
      <4>1. ASSUME NEW k \in Jobs, origin'[k] # NoJob, k = j
            PROVE  row'[origin'[k]] # "new"
        <5>1. o \in Jobs /\ row[o] # "new" /\ origin'[k] = o
          BY <2>a, <4>1
        <5> QED
          BY <2>b, <5>1
      <4>2. ASSUME NEW k \in Jobs, origin'[k] # NoJob, k # j
            PROVE  row'[origin'[k]] # "new"
        <5>1. origin[k] \in Jobs /\ row[origin[k]] # "new" /\ origin'[k] = origin[k]
          BY <2>a, <4>2 DEF TypeOK, OriginWasQueued
        <5> QED
          BY <2>b, <5>1
      <4> QED
        BY <4>1, <4>2
    <3>5. \A k \in linking' : row'[k] # "new" /\ origin'[k] # NoJob
      BY <2>a, <2>b DEF TypeOK, OriginWasQueued
    <3> QED
      BY <3>3, <3>4, <3>5 DEF OriginWasQueued
  <2>3. DoomedWasQueued' /\ PassedOver' /\ UnlinkedIsDeleted'
    <3>1. \A d \in Deletions : \A k \in doomed[d] : k \in Jobs /\ row[k] # "new"
      BY DEF TypeOK, DoomedWasQueued
    <3>2. DoomedWasQueued'
      BY <2>b, <3>1 DEF DoomedWasQueued
    <3>3. ASSUME NEW d \in Deletions, deleting[d] = "reading", NEW k \in gone[d]
          PROVE  /\ row'[k] # "new"
                 /\ row'[k] = "deleted" \/ origin'[k] = NoJob \/ k \in forgotten
      BY <3>3, <2>b DEF TypeOK, PassedOver
    <3>4. UnlinkedIsDeleted'
      BY <2>b, <3>1 DEF DoomedWasQueued, UnlinkedIsDeleted
    <3> QED
      BY <3>2, <3>3, <3>4 DEF PassedOver
  <2>4. LinksAreExact'
    BY DEF TypeOK, ListedWasQueued, OriginWasQueued, LinksAreExact, NoJobAssumption
  <2> QED
    BY <2>1, <2>2, <2>3, <2>4
<1>2. ASSUME NEW j \in Jobs, LinkForward(j)
      PROVE  IInv'
  <2> USE <1>2 DEF LinkForward, MayLink, delVars, writeVars, IInv
  <2>1. TypeOK'
    BY DEF TypeOK
  <2>2. ListedWasQueued' /\ OriginWasQueued'
    BY DEF TypeOK, ListedWasQueued, OriginWasQueued, NoJobAssumption
  <2>3. DoomedWasQueued' /\ PassedOver' /\ UnlinkedIsDeleted'
    BY DEF TypeOK, DoomedWasQueued, PassedOver, UnlinkedIsDeleted
  <2>4. LinksAreExact'
    BY DEF TypeOK, LinksAreExact, OriginWasQueued
  <2> QED
    BY <2>1, <2>2, <2>3, <2>4
<1>3. ASSUME NEW j \in Jobs, LinkFails(j)
      PROVE  IInv'
  <2> USE <1>3 DEF LinkFails, rowVars, delVars, writeVars, IInv
  <2>1. TypeOK'
    BY DEF TypeOK
  <2>2. ListedWasQueued' /\ OriginWasQueued'
    BY DEF TypeOK, ListedWasQueued, OriginWasQueued, NoJobAssumption
  <2>3. DoomedWasQueued' /\ PassedOver' /\ UnlinkedIsDeleted'
    BY DEF TypeOK, DoomedWasQueued, PassedOver, UnlinkedIsDeleted
  <2>4. LinksAreExact'
    BY DEF TypeOK, LinksAreExact
  <2> QED
    BY <2>1, <2>2, <2>3, <2>4
<1>4. ASSUME NEW d \in Deletions, NEW js \in SUBSET Jobs, DeleteBegins(d, js)
      PROVE  IInv'
  <2> USE <1>4 DEF DeleteBegins, rowVars, writeVars, IInv
  <2>1. TypeOK'
    BY DEF TypeOK
  <2>2. ListedWasQueued' /\ OriginWasQueued'
    BY DEF ListedWasQueued, OriginWasQueued
  <2>3. DoomedWasQueued' /\ PassedOver' /\ UnlinkedIsDeleted'
    BY DEF TypeOK, DoomedWasQueued, PassedOver, UnlinkedIsDeleted
  <2>4. LinksAreExact'
    BY DEF TypeOK, LinksAreExact
  <2> QED
    BY <2>1, <2>2, <2>3, <2>4
<1>5. ASSUME NEW d \in Deletions, NEW j \in Jobs, ReadOrigin(d, j)
      PROVE  IInv'
  <2> USE <1>5 DEF ReadOrigin, rowVars, writeVars, IInv
  <2>1. TypeOK'
    BY DEF TypeOK
  <2>2. ListedWasQueued' /\ OriginWasQueued'
    BY DEF ListedWasQueued, OriginWasQueued
  <2>3. DoomedWasQueued'
    BY DEF TypeOK, DoomedWasQueued
  <2>4. PassedOver' /\ UnlinkedIsDeleted'
    <3>1. /\ j \in Jobs /\ row[j] # "new" /\ row' = row /\ origin' = origin
          /\ forgotten' = forgotten /\ deleting' = deleting
      BY DEF TypeOK, DoomedWasQueued
    <3>2. \A e \in Deletions : \A k \in gone'[e] :
              k \in gone[e] \/ (k = j /\ (row[j] = "deleted" \/ origin[j] = NoJob))
      BY <3>1 DEF TypeOK
    <3>3. \A e \in Deletions : deleting[e] = "unlinking" => origins'[e] = origins[e]
      BY DEF TypeOK
    <3>4. PassedOver'
      BY <3>1, <3>2 DEF PassedOver
    <3>5. UnlinkedIsDeleted'
      BY <3>1, <3>3 DEF UnlinkedIsDeleted
    <3> QED
      BY <3>4, <3>5
  <2>5. LinksAreExact'
    BY DEF TypeOK, LinksAreExact
  <2> QED
    BY <2>1, <2>2, <2>3, <2>4, <2>5
<1>6. ASSUME NEW d \in Deletions, NEW j \in Jobs, LookupFails(d, j)
      PROVE  IInv'
  <2> USE <1>6 DEF LookupFails, rowVars, writeVars, IInv
  <2>1. TypeOK'
    BY DEF TypeOK
  <2>2. ListedWasQueued' /\ OriginWasQueued' /\ DoomedWasQueued'
    BY DEF ListedWasQueued, OriginWasQueued, DoomedWasQueued
  <2>3. PassedOver' /\ UnlinkedIsDeleted'
    <3>1. /\ j \in Jobs /\ row[j] # "new" /\ j \in forgotten' /\ forgotten \subseteq forgotten'
          /\ row' = row /\ origin' = origin /\ deleting' = deleting /\ origins' = origins
      BY DEF TypeOK, DoomedWasQueued
    <3>2. \A e \in Deletions : \A k \in gone'[e] : k \in gone[e] \/ k = j
      BY DEF TypeOK
    <3>3. PassedOver'
      BY <3>1, <3>2 DEF PassedOver
    <3>4. UnlinkedIsDeleted'
      BY <3>1 DEF UnlinkedIsDeleted
    <3> QED
      BY <3>3, <3>4
  <2>4. LinksAreExact'
    BY DEF TypeOK, LinksAreExact
  <2> QED
    BY <2>1, <2>2, <2>3, <2>4
<1>7. ASSUME NEW d \in Deletions, NEW js \in SUBSET Jobs, DeleteRows(d, js)
      PROVE  IInv'
  <2> USE <1>7 DEF DeleteRows, writeVars, IInv
  <2>1. TypeOK'
    BY DEF TypeOK
  <2>2. ListedWasQueued' /\ OriginWasQueued'
    BY DEF TypeOK, ListedWasQueued, OriginWasQueued
  <2>3. DoomedWasQueued' /\ PassedOver'
    BY DEF TypeOK, DoomedWasQueued, PassedOver
  <2>4. \A j \in js : row'[j] = "deleted"
    BY DEF TypeOK, DoomedWasQueued
  <2>5. UnlinkedIsDeleted'
    BY <2>4 DEF TypeOK, UnlinkedIsDeleted
  <2>6. LinksAreExact'
    <3> SUFFICES ASSUME NEW o \in Jobs, NEW j \in Jobs, Present(o)', j \notin forgotten
                 PROVE  /\ j \in links'[o] =>
                             /\ origin[j] = o
                             /\ \/ Present(j)'
                                \/ \E e \in Deletions : deleting'[e] = "unlinking" /\ j \in origins'[e]
                        /\ Present(j)' /\ origin[j] = o /\ j \notin linking => j \in links'[o]
      BY DEF LinksAreExact
    <3>1. Present(o) /\ o \notin js /\ links'[o] = links[o]
      BY <2>4 DEF TypeOK
    <3>2. ASSUME j \in links[o], ~Present(j)'
          PROVE  \E e \in Deletions : deleting'[e] = "unlinking" /\ j \in origins'[e]
      <4>1. CASE Present(j)
        <5>1. j \in js /\ origin[j] = o
          BY <3>1, <3>2, <4>1 DEF TypeOK, LinksAreExact
        <5>2. j \in origins[d]
          BY <4>1, <5>1 DEF TypeOK, PassedOver, NoJobAssumption
        <5> QED
          BY <5>1, <5>2 DEF TypeOK
      <4>2. CASE ~Present(j)
        <5>1. PICK e \in Deletions : deleting[e] = "unlinking" /\ j \in origins[e]
          BY <3>1, <3>2, <4>2 DEF LinksAreExact
        <5> QED
          BY <5>1 DEF TypeOK
      <4> QED
        BY <4>1, <4>2
    <3> QED
      BY <3>1, <3>2 DEF LinksAreExact, TypeOK
  <2> QED
    BY <2>1, <2>2, <2>3, <2>5, <2>6
<1>8. ASSUME NEW d \in Deletions, NEW j \in Jobs, Unlink(d, j)
      PROVE  IInv'
  <2> USE <1>8 DEF Unlink, writeVars, IInv
  <2>1. TypeOK'
    BY DEF TypeOK
  <2>2. ListedWasQueued' /\ OriginWasQueued'
    BY DEF TypeOK, ListedWasQueued, OriginWasQueued
  <2>3. DoomedWasQueued' /\ PassedOver' /\ UnlinkedIsDeleted'
    BY DEF TypeOK, DoomedWasQueued, PassedOver, UnlinkedIsDeleted
  <2>4. row[j] = "deleted"
    BY DEF UnlinkedIsDeleted
  <2>5. LinksAreExact'
    BY <2>4 DEF TypeOK, LinksAreExact
  <2> QED
    BY <2>1, <2>2, <2>3, <2>5
<1>9. ASSUME NEW d \in Deletions, NEW j \in Jobs, UnlinkFails(d, j)
      PROVE  IInv'
  <2> USE <1>9 DEF UnlinkFails, rowVars, writeVars, IInv
  <2>1. TypeOK'
    BY DEF TypeOK
  <2>2. ListedWasQueued' /\ OriginWasQueued' /\ DoomedWasQueued'
    BY DEF TypeOK, ListedWasQueued, OriginWasQueued, DoomedWasQueued
  <2>3. PassedOver' /\ UnlinkedIsDeleted'
    BY DEF TypeOK, PassedOver, UnlinkedIsDeleted
  <2>4. LinksAreExact'
    BY DEF TypeOK, LinksAreExact
  <2> QED
    BY <2>1, <2>2, <2>3, <2>4
<1>10. ASSUME NEW d \in Deletions, DeleteEnds(d)
       PROVE  IInv'
  <2> USE <1>10 DEF DeleteEnds, rowVars, writeVars, IInv
  <2>1. TypeOK'
    BY DEF TypeOK
  <2>2. ListedWasQueued' /\ OriginWasQueued' /\ DoomedWasQueued'
    BY DEF TypeOK, ListedWasQueued, OriginWasQueued, DoomedWasQueued
  <2>3. PassedOver' /\ UnlinkedIsDeleted'
    BY DEF TypeOK, PassedOver, UnlinkedIsDeleted
  <2>4. LinksAreExact'
    BY DEF TypeOK, LinksAreExact
  <2> QED
    BY <2>1, <2>2, <2>3, <2>4
<1>11. ASSUME NEW w \in Writers, WriteResult(w)
       PROVE  IInv'
  <2> USE <1>11 DEF WriteResult, Written, delVars, IInv
  <2>1. TypeOK' /\ links' = links
    BY DEF TypeOK, NoJobAssumption
  <2>2. ListedWasQueued' /\ OriginWasQueued' /\ DoomedWasQueued' /\ PassedOver' /\ UnlinkedIsDeleted'
    BY <2>1 DEF ListedWasQueued, OriginWasQueued, DoomedWasQueued, PassedOver, UnlinkedIsDeleted
  <2>3. LinksAreExact'
    BY <2>1 DEF LinksAreExact
  <2> QED
    BY <2>1, <2>2, <2>3
<1>12. ASSUME NEW w \in Writers, NEW j \in Jobs, ReadParams(w, j)
       PROVE  IInv'
  <2> USE <1>12 DEF ReadParams, rowVars, delVars, IInv
  <2>1. TypeOK'
    BY DEF TypeOK
  <2>2. ListedWasQueued' /\ OriginWasQueued' /\ DoomedWasQueued' /\ PassedOver' /\ UnlinkedIsDeleted'
    BY DEF ListedWasQueued, OriginWasQueued, DoomedWasQueued, PassedOver, UnlinkedIsDeleted
  <2>3. LinksAreExact'
    BY DEF LinksAreExact
  <2> QED
    BY <2>1, <2>2, <2>3
<1> QED
  BY <1>0, <1>1, <1>2, <1>3, <1>4, <1>5, <1>6, <1>7, <1>8, <1>9, <1>10, <1>11, <1>12 DEF Next

-----------------------------------------------------------------------------
(* The invariant holds always.                                             *)
THEOREM Invariance ==
    ASSUME NoJobAssumption
    PROVE  Spec => []IInv
<1>1. Init => IInv
  BY InitInv
<1>2. IInv /\ [Next]_linkState => IInv'
  BY StepInv
<1> QED
  BY <1>1, <1>2, PTL DEF Spec

(* The variables have their types.                                         *)
THEOREM TypeCorrect ==
    ASSUME NoJobAssumption
    PROVE  Spec => []TypeOK
<1>1. IInv => TypeOK
  BY DEF IInv
<1> QED
  BY <1>1, Invariance, PTL

(* Whatever deletions, enqueues and finishing origins do to each other, a  *)
(* list names the re-analyses that exist, and those about to be taken off. *)
THEOREM LinksStayExact ==
    ASSUME NoJobAssumption
    PROVE  Spec => []LinksAreExact
<1>1. IInv => LinksAreExact
  BY DEF IInv
<1> QED
  BY <1>1, Invariance, PTL


----------------------------------------------------------------------------
(* Numbers. *)

(* A set of numbers has a least one. *)
LEMMA LeastNumber ==
    ASSUME NEW T, T \subseteq Nat, T # {} PROVE \E x \in T : \A y \in T : x <= y
<1>1. PICK x \in T : \A y \in T : ~ (<<y, x>> \in OpToRel(<, Nat))
  BY NatLessThanWellFounded, WFMin, Zenon
<1>2. ASSUME NEW y \in T PROVE x <= y
  <2>1. x \in Nat /\ y \in Nat
    OBVIOUS
  <2>2. <<y, x>> \notin OpToRel(<, Nat)
    BY <1>1, Zenon
  <2>3. <<y, x>> \in OpToRel(<, Nat) <=> y < x
    BY <2>1 DEF OpToRel
  <2>4. ~(y < x)
    BY <2>2, <2>3, Zenon
  <2> QED BY <2>1, <2>4
<1> QED BY <1>1, <1>2

(* And one that is bounded has a greatest. *)
LEMMA GreatestNumber ==
    ASSUME NEW B \in Nat, NEW T, T \subseteq 0 .. B, T # {} PROVE \E x \in T : \A y \in T : y <= x
<1> DEFINE U == {B - y : y \in T}
<1>1. U \subseteq Nat /\ U # {}
  <2>1. ASSUME NEW y \in T PROVE B - y \in Nat
    OBVIOUS
  <2> QED BY <2>1
<1> HIDE DEF U
<1>2. PICK u \in U : \A v \in U : u <= v
  BY <1>1, LeastNumber
<1>3. PICK x \in T : u = B - x
  BY <1>2 DEF U
<1>4. ASSUME NEW y \in T PROVE y <= x
  <2>1. B - y \in U
    BY DEF U
  <2>2. B - x <= B - y
    BY <1>2, <1>3, <2>1
  <2> QED BY <2>2
<1> QED BY <1>4

----------------------------------------------------------------------------
(* The reviews.  A failure somebody looked at: a person in its own scope,  *)
(* or an analysis on the strength of one.                                  *)
LookedAt(j, f) ==
    \/ \E k \in R!Keys : R!Covers(k, f) /\ <<j, k>> \in everHuman
    \/ R!Precedented(j, f) /\ <<j, f>> \in everAny

HumansAreRemembered ==
    \A j \in Jobs, k \in R!Keys : reviews[j][k] = "human" => <<j, k>> \in everHuman

AnalysesHavePrecedents ==
    \A j \in Jobs, k \in R!Keys : reviews[j][k] = "ai" =>
        k \in R!Present(j) /\ R!Precedented(j, k) /\ <<j, k>> \in everAny

(* What a job fails with is known once it is ingested or analysed.         *)
NewShowsNothing == \A j \in Jobs : reviewPhase[j] = "new" => R!Present(j) = {}

(* The auto-review of a job: how far it is, and what it found.             *)
FoundHasPrecedent ==
    \A j \in Jobs : reviewPhase[j] = "found" =>
        Scopes[at[j]] \in R!Present(j) /\ R!Precedented(j, Scopes[at[j]])

CountsAreBehind ==
    \A j \in Jobs :
        /\ reviewPhase[j] \in {"new", "submitted"} => counted[j] = 0
        /\ reviewPhase[j] = "looking" => at[j] \in 1 .. Len(Scopes) + 1 /\ counted[j] < at[j]
        /\ reviewPhase[j] \in {"found", "commenting"} =>
             at[j] \in 1 .. Len(Scopes) /\ counted[j] < at[j]

GatedIsLookedAt ==
    /\ DOMAIN push = Pushes
    /\ \A p \in Pushes : push[p].step = "gated" =>
         \E j \in Jobs, s \in R!Failures :
             /\ push[p].job = j /\ push[p].scope = s /\ reviewPhase[j] # "new"
             /\ \A f \in R!Exported(j, s) : LookedAt(j, f)

PushedIsLookedAt ==
    \A x \in autoPushed \union pushed : x[2] \in R!Present(x[1]) /\ LookedAt(x[1], x[2])

ReviewInv ==
    /\ R!TypeOK /\ analysed \in Seq(Jobs)
    /\ HumansAreRemembered /\ AnalysesHavePrecedents /\ NewShowsNothing
    /\ FoundHasPrecedent /\ CountsAreBehind /\ GatedIsLookedAt /\ PushedIsLookedAt

----------------------------------------------------------------------------
LEMMA ScopesType ==
    ASSUME R!ScopesAssumption
    PROVE  /\ Len(Scopes) \in Nat /\ DOMAIN Scopes = 1 .. Len(Scopes)
           /\ \A i \in 1 .. Len(Scopes) : Scopes[i] \in R!Failures
           /\ R!Failures \subseteq R!Keys
BY DEF R!ScopesAssumption, R!Failures, R!Keys

(* The newest of the candidates is one of them.                            *)
LEMMA NewestIsOne ==
    ASSUME NEW M \in Nat, NEW N \in Nat, NEW c, c \subseteq (1 .. M) \X (1 .. N), c # {}
    PROVE  R!Newest(c) \in c
<1>1. PICK m \in {x[1] : x \in c} : \A y \in {x[1] : x \in c} : y <= m
  <2> DEFINE T == {x[1] : x \in c}
  <2>1. T \subseteq 0 .. M /\ T # {}
    OBVIOUS
  <2> HIDE DEF T
  <2>2. \E x \in T : \A y \in T : y <= x
    BY <2>1, GreatestNumber
  <2> QED BY <2>2 DEF T
<1> DEFINE U == {x[2] : x \in {y \in c : y[1] = m}}
<1>2. PICK n \in U : \A i \in U : i <= n
  <2>1. U \subseteq 0 .. N /\ U # {}
    OBVIOUS
  <2> HIDE DEF U
  <2> QED BY <2>1, GreatestNumber
<1>3. PICK x \in c : x[1] = m /\ x[2] = n
  BY <1>2
<1>4. ASSUME NEW y \in c PROVE y[1] < x[1] \/ (y[1] = x[1] /\ y[2] <= x[2])
  <2>1. y[1] \in 1 .. M /\ x[1] \in 1 .. M /\ y[1] <= m
    BY <1>1
  <2>2. y[1] = m => y[2] \in U
    OBVIOUS
  <2>3. y[1] = m => y[2] <= n
    BY <1>2, <2>2
  <2> QED BY <1>3, <2>1, <2>3
<1> DEFINE Newer(x1) == \A y \in c : y[1] < x1[1] \/ (y[1] = x1[1] /\ y[2] <= x1[2])
<1>5. \E x1 \in c : Newer(x1)
  BY <1>4
<1>6. R!Newest(c) = CHOOSE x1 \in c : Newer(x1)
  BY DEF R!Newest
<1> HIDE DEF Newer
<1> QED BY <1>5, <1>6

(* A precedent stays one: what a job fails with does not change, and what  *)
(* was reviewed once is remembered.                                        *)
LEMMA PrecedentsStay ==
    ASSUME \A k \in Jobs : R!Present(k) # {} => signature'[k] = signature[k],
           everHuman \subseteq everHuman', everAny \subseteq everAny',
           NEW j \in Jobs, NEW f \in R!Present(j)
    PROVE  /\ f \in R!Present(j)'
           /\ R!Precedented(j, f) => R!Precedented(j, f)'
           /\ LookedAt(j, f) => LookedAt(j, f)'
<1>1. f \in R!Present(j)' /\ signature'[j] = signature[j]
  BY DEF R!Present
<1>2. ASSUME R!Precedented(j, f) PROVE R!Precedented(j, f)'
  <2>1. PICK k \in Jobs \ {j}, g \in R!Failures, key \in R!Keys :
          /\ g \in R!Present(k) /\ g[1] = f[1] /\ signature[k][g] = signature[j][f]
          /\ R!Covers(key, g) /\ <<k, key>> \in everHuman
    BY <1>2 DEF R!Precedented, R!Present
  <2>2. signature'[k] = signature[k] /\ g \in R!Present(k)'
    BY <2>1 DEF R!Present
  <2>3. /\ g[1] = f[1] /\ signature'[k][g] = signature'[j][f]
        /\ R!Covers(key, g) /\ <<k, key>> \in everHuman'
    BY <1>1, <2>1, <2>2
  <2> QED BY <2>1, <2>2, <2>3 DEF R!Precedented, R!Covers
<1>3. ASSUME LookedAt(j, f) PROVE LookedAt(j, f)'
  BY <1>2, <1>3 DEF LookedAt, R!Covers
<1> QED BY <1>1, <1>2, <1>3

(* So what was looked at stays looked at, whatever is pushed or gated.     *)
LEMMA LooksStay ==
    ASSUME ReviewInv,
           \A k \in Jobs : reviewPhase[k] # "new" =>
               signature'[k] = signature[k] /\ reviewPhase'[k] # "new",
           everHuman \subseteq everHuman', everAny \subseteq everAny'
    PROVE  /\ \A j \in Jobs : \A f \in R!Present(j) :
                /\ f \in R!Present(j)'
                /\ R!Precedented(j, f) => R!Precedented(j, f)'
                /\ LookedAt(j, f) => LookedAt(j, f)'
           /\ UNCHANGED <<autoPushed, pushed>> => PushedIsLookedAt'
           /\ push' = push => GatedIsLookedAt'
<1>1. \A k \in Jobs : R!Present(k) # {} => signature'[k] = signature[k]
  BY DEF ReviewInv, NewShowsNothing
<1>2. ASSUME NEW j \in Jobs, NEW f \in R!Present(j)
      PROVE  /\ f \in R!Present(j)' /\ (R!Precedented(j, f) => R!Precedented(j, f)')
             /\ LookedAt(j, f) => LookedAt(j, f)'
  BY <1>1, PrecedentsStay
<1>3. ASSUME UNCHANGED <<autoPushed, pushed>> PROVE PushedIsLookedAt'
  <2>1. ASSUME NEW x \in autoPushed \union pushed
        PROVE  x[2] \in R!Present(x[1])' /\ LookedAt(x[1], x[2])'
    <3>1. x[1] \in Jobs /\ x[2] \in R!Present(x[1]) /\ LookedAt(x[1], x[2])
      BY DEF ReviewInv, R!TypeOK, PushedIsLookedAt
    <3> QED BY <1>2, <3>1
  <2> QED BY <1>3, <2>1 DEF PushedIsLookedAt
<1>4. ASSUME push' = push PROVE GatedIsLookedAt'
  <2>1. ASSUME NEW p \in Pushes, push[p].step = "gated"
        PROVE  \E j \in Jobs, s \in R!Failures :
                 /\ push[p].job = j /\ push[p].scope = s /\ reviewPhase'[j] # "new"
                 /\ \A f \in R!Exported(j, s)' : LookedAt(j, f)'
    <3>1. PICK j \in Jobs, s \in R!Failures :
            /\ push[p].job = j /\ push[p].scope = s /\ reviewPhase[j] # "new"
            /\ \A f \in R!Exported(j, s) : LookedAt(j, f)
      BY <2>1 DEF ReviewInv, GatedIsLookedAt
    <3>2. signature'[j] = signature[j] /\ reviewPhase'[j] # "new"
      BY <3>1
    <3>3. ASSUME NEW f \in R!Exported(j, s)' PROVE LookedAt(j, f)'
      <4>1. f \in R!Exported(j, s) /\ f \in R!Present(j)
        BY <3>2 DEF R!Exported, R!Present
      <4> QED BY <1>2, <3>1, <4>1
    <3> QED BY <3>1, <3>2, <3>3
  <2> QED BY <1>4, <2>1 DEF ReviewInv, GatedIsLookedAt
<1> QED BY <1>2, <1>3, <1>4

(* The same on a step that changes no review, and none that is gated.      *)
LEMMA ReviewsUntouched ==
    ASSUME ReviewInv, UNCHANGED <<signature, reviews, everHuman, everAny>>
    PROVE  HumansAreRemembered' /\ AnalysesHavePrecedents'
<1>1. HumansAreRemembered'
  BY DEF ReviewInv, HumansAreRemembered
<1>2. ASSUME NEW j \in Jobs, NEW k \in R!Keys, reviews[j][k] = "ai"
      PROVE  k \in R!Present(j)' /\ R!Precedented(j, k)' /\ <<j, k>> \in everAny
  <2>1. k \in R!Present(j) /\ R!Precedented(j, k) /\ <<j, k>> \in everAny
    BY <1>2 DEF ReviewInv, AnalysesHavePrecedents
  <2> QED BY <2>1, PrecedentsStay
<1> QED BY <1>1, <1>2 DEF AnalysesHavePrecedents

LEMMA GatesKept ==
    ASSUME ReviewInv, UNCHANGED <<reviewPhase, signature, everHuman, everAny>>, DOMAIN push' = Pushes,
           \A q \in Pushes : push'[q].step = "gated" =>
               \E j \in Jobs, s \in R!Failures :
                   /\ push'[q].job = j /\ push'[q].scope = s /\ reviewPhase[j] # "new"
                   /\ \A g \in R!Exported(j, s) : LookedAt(j, g)
    PROVE  GatedIsLookedAt'
<1>1. ASSUME NEW j \in Jobs, NEW s \in R!Failures, \A g \in R!Exported(j, s) : LookedAt(j, g)
      PROVE  \A g \in R!Exported(j, s)' : LookedAt(j, g)'
  <2>1. \A g \in R!Exported(j, s)' : g \in R!Present(j) /\ LookedAt(j, g)
    BY <1>1 DEF R!Exported, R!Present
  <2> QED BY <2>1, PrecedentsStay
<1> QED BY <1>1 DEF GatedIsLookedAt

LEMMA ReviewInit == ASSUME R!ScopesAssumption, R!Init PROVE ReviewInv
<1>1. R!TypeOK /\ analysed \in Seq(Jobs)
  <2>1. /\ reviewPhase \in [Jobs -> {"new"}] /\ signature \in [Jobs -> [R!Failures -> {""}]]
        /\ reviews \in [Jobs -> [R!Keys -> {"none"}]] /\ autoPushed = {} /\ pushed = {}
        /\ everHuman = {} /\ everAny = {} /\ analysed = <<>>
    BY DEF R!Init
  <2>2. at \in [Jobs -> 0 .. Len(Scopes) + 1] /\ counted \in [Jobs -> 0 .. Len(Scopes)]
    <3>1. 0 \in 0 .. Len(Scopes) + 1 /\ 0 \in 0 .. Len(Scopes)
      BY ScopesType
    <3> QED BY <3>1 DEF R!Init
  <2>3. signature \in [Jobs -> [R!Failures -> Signatures \union {""}]]
    BY <2>1
  <2>4. reviews \in [Jobs -> [R!Keys -> {"none", "human", "ai", "cleared"}]]
    BY DEF R!Init
  <2>5. reviewPhase \in [Jobs -> {"new", "submitted", "looking", "found", "commenting", "completed"}]
    BY <2>1
  <2>6. analysed \in Seq(Jobs)
    <3>1. <<>> \in Seq(Jobs)
      OBVIOUS
    <3>2. analysed = <<>>
      BY DEF R!Init
    <3> QED BY <3>1, <3>2
  <2>7. R!TypeOK
    BY <2>1, <2>2, <2>3, <2>4, <2>5 DEF R!TypeOK
  <2> QED BY <2>6, <2>7
<1>2. HumansAreRemembered /\ AnalysesHavePrecedents /\ NewShowsNothing
  BY DEF R!Init, HumansAreRemembered, AnalysesHavePrecedents, NewShowsNothing, R!Present
<1>3. FoundHasPrecedent /\ CountsAreBehind
  BY DEF R!Init, FoundHasPrecedent, CountsAreBehind
<1>4. GatedIsLookedAt /\ PushedIsLookedAt
  <2>1. \A p \in Pushes : push[p].step = "idle"
    BY DEF R!Init, R!Idle
  <2> QED BY <2>1 DEF R!Init, GatedIsLookedAt, PushedIsLookedAt
<1> QED BY <1>1, <1>2, <1>3, <1>4 DEF ReviewInv

(* A job is ingested or analysed: what it fails with becomes known, if it  *)
(* was not, and the auto-review begins.                                    *)
LEMMA Appearing ==
    ASSUME R!ScopesAssumption, R!OutcomesAssumption, ReviewInv,
           NEW j \in Jobs, R!Ingest(j) \/ R!Analyze(j)
    PROVE  ReviewInv'
<1>1. /\ UNCHANGED <<reviews, counted, push, autoPushed, pushed, everHuman, everAny>>
      /\ R!TypeOK /\ analysed \in Seq(Jobs) /\ reviewPhase[j] \in {"new", "submitted"}
  BY DEF ReviewInv, R!Ingest, R!Analyze, R!autoVars, R!ghosts
<1>2. /\ signature' \in [Jobs -> [R!Failures -> Signatures \union {""}]]
      /\ \A k \in Jobs : reviewPhase[k] # "new" => signature'[k] = signature[k]
  <2>1. R!FailuresAppear(j) /\ (R!Ingest(j) => reviewPhase[j] = "new")
    BY DEF R!Ingest, R!Analyze
  <2>2. CASE reviewPhase[j] = "submitted"
    BY <1>1, <2>1, <2>2 DEF R!FailuresAppear, R!TypeOK
  <2>3. CASE reviewPhase[j] = "new"
    <3>1. PICK o \in Outcomes : signature' = [signature EXCEPT ![j] = o]
      BY <2>1, <2>3 DEF R!FailuresAppear
    <3>2. o \in [R!Failures -> Signatures \union {""}]
      BY <3>1 DEF R!OutcomesAssumption
    <3> QED BY <1>1, <2>3, <3>1, <3>2 DEF R!TypeOK
  <2> QED BY <1>1, <2>2, <2>3
<1>3. PICK next \in {"submitted", "looking"} :
        /\ reviewPhase' = [reviewPhase EXCEPT ![j] = next]
        /\ next = "submitted" => at' = at
        /\ next = "looking" => at' = [at EXCEPT ![j] = 1]
  BY DEF R!Ingest, R!Analyze, R!autoVars
<1>4. /\ reviewPhase' \in [Jobs -> {"new", "submitted", "looking", "found", "commenting", "completed"}]
      /\ reviewPhase'[j] = next /\ \A k \in Jobs \ {j} : reviewPhase'[k] = reviewPhase[k]
  BY <1>1, <1>3 DEF R!TypeOK
<1>5. /\ at' \in [Jobs -> 0 .. Len(Scopes) + 1]
      /\ next = "looking" => at'[j] = 1
      /\ \A k \in Jobs \ {j} : at'[k] = at[k]
  <2>1. at \in [Jobs -> 0 .. Len(Scopes) + 1] /\ 1 \in 0 .. Len(Scopes) + 1
    <3>1. 1 \in 0 .. Len(Scopes) + 1
      BY ScopesType
    <3> QED BY <1>1, <3>1 DEF R!TypeOK
  <2> QED BY <1>3, <2>1
<1>6. analysed' \in Seq(Jobs)
  BY <1>1 DEF R!Ingest, R!Analyze
<1>7. R!TypeOK'
  BY <1>1, <1>2, <1>4, <1>5 DEF R!TypeOK
<1>8. /\ \A k \in Jobs : \A f \in R!Present(k) :
           /\ f \in R!Present(k)'
           /\ R!Precedented(k, f) => R!Precedented(k, f)'
           /\ LookedAt(k, f) => LookedAt(k, f)'
      /\ PushedIsLookedAt' /\ GatedIsLookedAt'
  <2>1. \A k \in Jobs : reviewPhase[k] # "new" =>
            signature'[k] = signature[k] /\ reviewPhase'[k] # "new"
    BY <1>2, <1>4
  <2> QED BY <1>1, <2>1, LooksStay
<1>9. HumansAreRemembered' /\ AnalysesHavePrecedents'
  BY <1>1, <1>8 DEF ReviewInv, HumansAreRemembered, AnalysesHavePrecedents
<1>10. NewShowsNothing'
  <2>1. \A k \in Jobs : reviewPhase'[k] = "new" => k # j /\ reviewPhase[k] = "new"
    BY <1>3, <1>4
  <2>2. \A k \in Jobs \ {j} : signature'[k] = signature[k]
    BY <1>1 DEF R!Ingest, R!Analyze, R!FailuresAppear, R!TypeOK
  <2>3. ASSUME NEW k \in Jobs, reviewPhase'[k] = "new" PROVE R!Present(k)' = {}
    <3>1. R!Present(k) = {} /\ signature'[k] = signature[k]
      BY <2>1, <2>2, <2>3 DEF ReviewInv, NewShowsNothing
    <3> QED BY <3>1 DEF R!Present
  <2> QED BY <2>3 DEF NewShowsNothing
<1>11. FoundHasPrecedent' /\ CountsAreBehind'
  <2>1. ASSUME NEW k \in Jobs, reviewPhase'[k] = "found"
        PROVE  Scopes[at'[k]] \in R!Present(k)' /\ R!Precedented(k, Scopes[at[k]])'
    <3>1. k # j /\ reviewPhase[k] = "found" /\ at'[k] = at[k]
      BY <1>4, <1>5, <2>1
    <3>2. PICK f \in R!Present(k) : f = Scopes[at[k]] /\ R!Precedented(k, f)
      BY <3>1 DEF ReviewInv, FoundHasPrecedent
    <3>3. f \in R!Present(k)' /\ R!Precedented(k, f)'
      BY <1>8, <3>2
    <3>4. Scopes[at'[k]] = f
      BY <3>1, <3>2
    <3> QED BY <3>3, <3>4
  <2>2. CountsAreBehind'
    <3>1. Len(Scopes) \in Nat
      BY ScopesType
    <3> QED BY <1>1, <1>4, <1>5, <3>1 DEF ReviewInv, CountsAreBehind
  <2> QED BY <2>1, <2>2 DEF FoundHasPrecedent
<1> QED BY <1>6, <1>7, <1>8, <1>9, <1>10, <1>11 DEF ReviewInv

(* A step of the auto-review that turns to the next failure or ends.       *)
LEMMA LookingUp ==
    ASSUME R!ScopesAssumption, ReviewInv, NEW j \in Jobs, R!Lookup(j)
    PROVE  ReviewInv'
<1>1. /\ UNCHANGED <<signature, analysed, reviews, counted, push, autoPushed, pushed, everHuman, everAny>>
      /\ R!TypeOK /\ analysed \in Seq(Jobs) /\ reviewPhase[j] = "looking" /\ at[j] \in DOMAIN Scopes
  BY DEF ReviewInv, R!Lookup, R!ghosts
<1>2. Len(Scopes) \in Nat /\ DOMAIN Scopes = 1 .. Len(Scopes)
  BY ScopesType
<1> DEFINE f == Scopes[at[j]]
           c == R!Candidates(j, f)
           x == R!Newest(c)
<1>3. \/ reviewPhase' = reviewPhase /\ at' = [at EXCEPT ![j] = @ + 1]
      \/ /\ reviewPhase' = [reviewPhase EXCEPT ![j] = "found"] /\ at' = at
         /\ f \in R!Present(j) /\ c # {} /\ R!Matches(j, f, x)
  BY DEF R!Lookup, R!NextFailure
<1>4. /\ at \in [Jobs -> 0 .. Len(Scopes) + 1] /\ counted \in [Jobs -> 0 .. Len(Scopes)]
      /\ reviewPhase \in [Jobs -> {"new", "submitted", "looking", "found", "commenting", "completed"}]
  BY <1>1 DEF R!TypeOK
<1>5. /\ reviewPhase' \in [Jobs -> {"new", "submitted", "looking", "found", "commenting", "completed"}]
      /\ at' \in [Jobs -> 0 .. Len(Scopes) + 1]
      /\ \A k \in Jobs \ {j} : reviewPhase'[k] = reviewPhase[k] /\ at'[k] = at[k]
      /\ \/ reviewPhase'[j] = "looking" /\ at'[j] = at[j] + 1
         \/ reviewPhase'[j] = "found" /\ at'[j] = at[j]
  <2>1. CASE reviewPhase' = reviewPhase /\ at' = [at EXCEPT ![j] = @ + 1]
    <3>1. at[j] + 1 \in 0 .. Len(Scopes) + 1
      BY <1>1, <1>2
    <3> QED BY <1>1, <1>4, <2>1, <3>1
  <2>2. CASE reviewPhase' = [reviewPhase EXCEPT ![j] = "found"] /\ at' = at
    BY <1>4, <2>2
  <2> QED BY <1>3, <2>1, <2>2
<1>6. ASSUME reviewPhase'[j] = "found" PROVE f \in R!Present(j) /\ R!Precedented(j, f)
  <2>1. f \in R!Present(j) /\ c # {} /\ R!Matches(j, f, x)
    BY <1>1, <1>3, <1>6
  <2>2. x \in c
    <3>1. Len(analysed) \in Nat /\ c \subseteq (1 .. Len(analysed)) \X (1 .. Len(Scopes))
      BY <1>1, <1>2 DEF R!Candidates
    <3> HIDE DEF c
    <3> QED BY <1>2, <2>1, <3>1, NewestIsOne
  <2>3. PICK k \in Jobs, g \in R!Failures :
          /\ k # j /\ g \in R!Present(k)
          /\ g[1] = f[1] /\ R!HumanReviewed(k, g) /\ signature[k][g] = signature[j][f]
    <3>1. analysed[x[1]] \in Jobs
      <4>1. x[1] \in DOMAIN analysed
        <5> HIDE DEF x
        <5> QED BY <2>2 DEF R!Candidates
      <4> HIDE DEF x
      <4> QED BY <1>1, <4>1
    <3>2. /\ analysed[x[1]] # j /\ Scopes[x[2]] \in R!Present(analysed[x[1]])
          /\ Scopes[x[2]][1] = f[1] /\ R!HumanReviewed(analysed[x[1]], Scopes[x[2]])
      BY <2>2 DEF R!Candidates
    <3>3. signature[analysed[x[1]]][Scopes[x[2]]] = signature[j][f]
      BY <2>1 DEF R!Matches
    <3> HIDE DEF x
    <3> QED BY <3>1, <3>2, <3>3 DEF R!Present
  <2>4. PICK key \in R!Keys : R!Covers(key, g) /\ <<k, key>> \in everHuman
    BY <2>3 DEF R!HumanReviewed, ReviewInv, HumansAreRemembered
  <2> QED BY <2>1, <2>3, <2>4 DEF R!Precedented
<1>7. R!TypeOK'
  BY <1>1, <1>5 DEF R!TypeOK
<1>8. PushedIsLookedAt' /\ GatedIsLookedAt'
  <2>1. \A k \in Jobs : reviewPhase[k] # "new" =>
            signature'[k] = signature[k] /\ reviewPhase'[k] # "new"
    BY <1>1, <1>5
  <2> QED BY <1>1, <2>1, LooksStay
<1>9. HumansAreRemembered' /\ AnalysesHavePrecedents'
  BY <1>1, ReviewsUntouched
<1>10. NewShowsNothing'
  <2>1. \A k \in Jobs : reviewPhase'[k] = "new" => reviewPhase[k] = "new"
    BY <1>5
  <2>2. \A k \in Jobs : R!Present(k)' = R!Present(k)
    BY <1>1 DEF R!Present
  <2> QED BY <2>1, <2>2 DEF ReviewInv, NewShowsNothing
<1>11. FoundHasPrecedent'
  <2>1. ASSUME NEW k \in Jobs, reviewPhase'[k] = "found"
        PROVE  Scopes[at'[k]] \in R!Present(k) /\ R!Precedented(k, Scopes[at'[k]])
    <3>1. CASE k = j
      BY <1>5, <1>6, <2>1, <3>1
    <3>2. CASE k # j
      BY <1>5, <2>1, <3>2 DEF ReviewInv, FoundHasPrecedent
    <3> QED BY <3>1, <3>2
  <2> QED BY <1>1, <2>1 DEF FoundHasPrecedent, R!Present, R!Precedented
<1>12. CountsAreBehind'
  BY <1>1, <1>2, <1>4, <1>5 DEF ReviewInv, CountsAreBehind
<1> QED BY <1>1, <1>7, <1>8, <1>9, <1>10, <1>11, <1>12 DEF ReviewInv

(* A review is written or taken back: a person's is remembered, and an     *)
(* analysis writes only those with a precedent.                            *)
LEMMA TableChanges ==
    ASSUME ReviewInv, signature' = signature,
           everHuman \subseteq everHuman', everAny \subseteq everAny',
           NEW j \in Jobs, NEW k \in R!Keys, NEW v \in {"human", "ai", "cleared"},
           reviews' = [reviews EXCEPT ![j][k] = v],
           v = "human" => <<j, k>> \in everHuman',
           v = "ai" => k \in R!Present(j) /\ R!Precedented(j, k) /\ <<j, k>> \in everAny'
    PROVE  /\ reviews' \in [Jobs -> [R!Keys -> {"none", "human", "ai", "cleared"}]]
           /\ HumansAreRemembered' /\ AnalysesHavePrecedents'
<1>1. reviews \in [Jobs -> [R!Keys -> {"none", "human", "ai", "cleared"}]]
  BY DEF ReviewInv, R!TypeOK
<1>2. /\ reviews' \in [Jobs -> [R!Keys -> {"none", "human", "ai", "cleared"}]]
      /\ \A i \in Jobs, l \in R!Keys :
           reviews'[i][l] = IF i = j /\ l = k THEN v ELSE reviews[i][l]
  BY <1>1
<1>3. HumansAreRemembered'
  BY <1>2 DEF ReviewInv, HumansAreRemembered, R!Keys, R!Failures
<1>4. ASSUME NEW i \in Jobs, NEW l \in R!Keys, reviews'[i][l] = "ai"
      PROVE  l \in R!Present(i)' /\ R!Precedented(i, l)' /\ <<i, l>> \in everAny'
  <2>1. l \in R!Present(i) /\ R!Precedented(i, l) /\ <<i, l>> \in everAny'
    <3>1. CASE i = j /\ l = k
      BY <1>2, <1>4, <3>1
    <3>2. CASE ~(i = j /\ l = k)
      <4>1. reviews[i][l] = "ai"
        BY <1>2, <1>4, <3>2
      <4> QED BY <4>1 DEF ReviewInv, AnalysesHavePrecedents
    <3> QED BY <3>1, <3>2
  <2> QED BY <2>1, PrecedentsStay
<1> QED BY <1>2, <1>3, <1>4 DEF AnalysesHavePrecedents, R!Keys, R!Failures

(* What the auto-reviews hold on to, on a step that is none of theirs.     *)
LEMMA LooksUntouched ==
    ASSUME ReviewInv, UNCHANGED <<signature, reviewPhase, at, counted>>,
           everHuman \subseteq everHuman', everAny \subseteq everAny'
    PROVE  NewShowsNothing' /\ FoundHasPrecedent' /\ CountsAreBehind'
<1>1. ASSUME NEW j \in Jobs, reviewPhase[j] = "found"
      PROVE  Scopes[at[j]] \in R!Present(j)' /\ R!Precedented(j, Scopes[at[j]])'
  <2>1. PICK f \in R!Present(j) : f = Scopes[at[j]] /\ R!Precedented(j, f)
    BY <1>1 DEF ReviewInv, FoundHasPrecedent
  <2>2. f \in R!Present(j)' /\ R!Precedented(j, f)'
    BY <2>1, PrecedentsStay
  <2>3. Scopes[at'[j]] = f /\ Scopes[at[j]] = f
    BY <2>1
  <2> QED BY <2>2, <2>3
<1>2. FoundHasPrecedent'
  BY <1>1 DEF FoundHasPrecedent
<1>3. NewShowsNothing' /\ CountsAreBehind'
  BY DEF ReviewInv, NewShowsNothing, CountsAreBehind, R!Present
<1> QED BY <1>2, <1>3

LEMMA Applying ==
    ASSUME R!ScopesAssumption, ReviewInv, NEW j \in Jobs, R!ApplyReview(j)
    PROVE  ReviewInv'
<1>1. /\ UNCHANGED <<signature, analysed, at, counted, push, autoPushed, pushed, everHuman>>
      /\ R!TypeOK /\ reviewPhase[j] = "found"
      /\ reviewPhase' = [reviewPhase EXCEPT ![j] = "commenting"]
  BY DEF ReviewInv, R!ApplyReview, R!autoVars
<1>2. PICK f \in R!Present(j) : f = Scopes[at[j]] /\ R!Precedented(j, f)
  BY <1>1 DEF ReviewInv, FoundHasPrecedent
<1>3. f \in R!Keys
  BY <1>2, ScopesType DEF R!Present
<1>4. reviews' = [reviews EXCEPT ![j][f] = "ai"] /\ everAny' = everAny \union {<<j, f>>}
  BY <1>2 DEF R!ApplyReview
<1>5. /\ reviewPhase' \in [Jobs -> {"new", "submitted", "looking", "found", "commenting", "completed"}]
      /\ reviewPhase'[j] = "commenting" /\ \A k \in Jobs \ {j} : reviewPhase'[k] = reviewPhase[k]
  BY <1>1 DEF R!TypeOK
<1>6. PushedIsLookedAt' /\ GatedIsLookedAt'
  <2>1. \A k \in Jobs : reviewPhase[k] # "new" =>
            signature'[k] = signature[k] /\ reviewPhase'[k] # "new"
    BY <1>1, <1>5
  <2> QED BY <1>1, <1>4, <2>1, LooksStay
<1>7. /\ reviews' \in [Jobs -> [R!Keys -> {"none", "human", "ai", "cleared"}]]
      /\ HumansAreRemembered' /\ AnalysesHavePrecedents'
  BY <1>1, <1>2, <1>3, <1>4, TableChanges
<1>8. everAny' \subseteq Jobs \X R!Keys /\ everHuman' \subseteq everAny'
  <2>1. <<j, f>> \in Jobs \X R!Keys
    BY <1>3
  <2> QED BY <1>1, <1>4, <2>1 DEF R!TypeOK
<1>9. R!TypeOK'
  BY <1>1, <1>5, <1>7, <1>8 DEF R!TypeOK
<1>10. NewShowsNothing'
  <2>1. \A k \in Jobs : reviewPhase'[k] = "new" => reviewPhase[k] = "new"
    BY <1>5
  <2>2. \A k \in Jobs : R!Present(k)' = R!Present(k)
    BY <1>1 DEF R!Present
  <2> QED BY <2>1, <2>2 DEF ReviewInv, NewShowsNothing
<1>11. CountsAreBehind'
  BY <1>1, <1>5 DEF ReviewInv, CountsAreBehind
<1>12. FoundHasPrecedent'
  <2>1. ASSUME NEW k \in Jobs, reviewPhase'[k] = "found"
        PROVE  Scopes[at[k]] \in R!Present(k) /\ R!Precedented(k, Scopes[at[k]])
    BY <1>1, <1>5, <2>1 DEF ReviewInv, FoundHasPrecedent
  <2> QED BY <1>1, <2>1 DEF FoundHasPrecedent, R!Present, R!Precedented
<1>13. analysed' \in Seq(Jobs)
  BY <1>1 DEF ReviewInv
<1> QED BY <1>6, <1>7, <1>9, <1>10, <1>11, <1>12, <1>13 DEF ReviewInv

(* The comment on it, or the end of the auto-review by an error.           *)
LEMMA Commenting ==
    ASSUME R!ScopesAssumption, ReviewInv, NEW j \in Jobs, R!Comment(j) \/ R!ReviewRaises(j)
    PROVE  ReviewInv'
<1>1. /\ UNCHANGED <<signature, analysed, reviews, push, autoPushed, pushed, everHuman, everAny>>
      /\ R!TypeOK /\ reviewPhase[j] \in {"looking", "found", "commenting"} /\ analysed \in Seq(Jobs)
  BY DEF ReviewInv, R!Comment, R!ReviewRaises, R!ghosts
<1>2. Len(Scopes) \in Nat
  BY ScopesType
<1>3. /\ at \in [Jobs -> 0 .. Len(Scopes) + 1] /\ counted \in [Jobs -> 0 .. Len(Scopes)]
      /\ reviewPhase \in [Jobs -> {"new", "submitted", "looking", "found", "commenting", "completed"}]
  BY <1>1 DEF R!TypeOK
<1>4. /\ at' \in [Jobs -> 0 .. Len(Scopes) + 1] /\ counted' \in [Jobs -> 0 .. Len(Scopes)]
      /\ reviewPhase' \in [Jobs -> {"new", "submitted", "looking", "found", "commenting", "completed"}]
      /\ \A k \in Jobs \ {j} :
           reviewPhase'[k] = reviewPhase[k] /\ at'[k] = at[k] /\ counted'[k] = counted[k]
      /\ \/ /\ reviewPhase'[j] = "looking" /\ at'[j] \in 1 .. Len(Scopes) + 1
            /\ counted'[j] < at'[j]
         \/ reviewPhase'[j] = "completed"
  <2>1. CASE R!Comment(j)
    <3>1. at[j] \in 1 .. Len(Scopes) /\ counted[j] \in 0 .. Len(Scopes) /\ counted[j] < at[j]
      BY <1>3, <2>1 DEF ReviewInv, CountsAreBehind, R!Comment
    <3>2. /\ reviewPhase' = [reviewPhase EXCEPT ![j] = "looking"]
          /\ at' = [at EXCEPT ![j] = at[j] + 1] /\ counted' = [counted EXCEPT ![j] = counted[j] + 1]
      BY <2>1 DEF R!Comment, R!NextFailure, R!CountReviewed
    <3>3. /\ at[j] + 1 \in 1 .. Len(Scopes) + 1 /\ counted[j] + 1 \in 0 .. Len(Scopes)
          /\ counted[j] + 1 < at[j] + 1
      BY <1>2, <3>1
    <3> QED BY <1>2, <1>3, <3>2, <3>3
  <2>2. CASE R!ReviewRaises(j)
    BY <1>3, <2>2 DEF R!ReviewRaises, R!autoVars
  <2> QED BY <2>1, <2>2
<1>5. R!TypeOK'
  BY <1>1, <1>4 DEF R!TypeOK
<1>6. PushedIsLookedAt' /\ GatedIsLookedAt'
  <2>1. \A k \in Jobs : reviewPhase[k] # "new" =>
            signature'[k] = signature[k] /\ reviewPhase'[k] # "new"
    BY <1>1, <1>4
  <2> QED BY <1>1, <2>1, LooksStay
<1>7. HumansAreRemembered' /\ AnalysesHavePrecedents'
  BY <1>1, ReviewsUntouched
<1>8. NewShowsNothing' /\ CountsAreBehind'
  BY <1>1, <1>4 DEF ReviewInv, NewShowsNothing, CountsAreBehind, R!Present
<1>9. FoundHasPrecedent'
  <2>1. ASSUME NEW k \in Jobs, reviewPhase'[k] = "found"
        PROVE  Scopes[at'[k]] \in R!Present(k) /\ R!Precedented(k, Scopes[at'[k]])
    BY <1>4, <2>1 DEF ReviewInv, FoundHasPrecedent
  <2> QED BY <1>1, <2>1 DEF FoundHasPrecedent, R!Present, R!Precedented
<1> QED BY <1>1, <1>5, <1>6, <1>7, <1>8, <1>9 DEF ReviewInv

(* What has been reviewed was looked at: a person's review is of a key     *)
(* that covers the failure, an analysis' of the failure itself.            *)
LEMMA ReviewedIsLookedAt ==
    ASSUME R!ScopesAssumption, ReviewInv, NEW j \in Jobs, NEW f \in R!Failures, R!Reviewed(j, f)
    PROVE  LookedAt(j, f)
<1>1. PICK k \in R!Keys : R!Covers(k, f) /\ reviews[j][k] \in {"human", "ai"}
  BY DEF R!Reviewed, R!Stands
<1>2. CASE reviews[j][k] = "human"
  BY <1>1, <1>2 DEF ReviewInv, HumansAreRemembered, LookedAt
<1>3. CASE reviews[j][k] = "ai"
  <2>1. k \in R!Failures /\ R!Precedented(j, k) /\ <<j, k>> \in everAny
    BY <1>1, <1>3 DEF ReviewInv, AnalysesHavePrecedents, R!Present
  <2>2. k = f
    <3>1. CASE f[1] # Top /\ k = <<f[1], 0>>
      <4>1. k[1] = f[1] /\ k[2] = 0
        BY <3>1
      <4>2. (k[2] = 0) = (k[1] = Top)
        BY <2>1 DEF R!Failures, R!ScopesAssumption
      <4> QED BY <3>1, <4>1, <4>2
    <3> QED BY <1>1, <3>1 DEF R!Covers
  <2> QED BY <2>1, <2>2 DEF LookedAt
<1> QED BY <1>1, <1>2, <1>3

(* With nothing left to review, the analysis pushes what it has.           *)
LEMMA AutoPushing ==
    ASSUME R!ScopesAssumption, ReviewInv, NEW j \in Jobs, R!AutoPush(j)
    PROVE  ReviewInv'
<1>1. /\ UNCHANGED <<signature, analysed, reviews, at, counted, push, pushed, everHuman, everAny>>
      /\ R!TypeOK /\ reviewPhase[j] = "looking"
      /\ reviewPhase' = [reviewPhase EXCEPT ![j] = "completed"]
  BY DEF ReviewInv, R!AutoPush, R!autoVars
<1>2. /\ reviewPhase' \in [Jobs -> {"new", "submitted", "looking", "found", "commenting", "completed"}]
      /\ reviewPhase'[j] = "completed" /\ \A k \in Jobs \ {j} : reviewPhase'[k] = reviewPhase[k]
  BY <1>1 DEF R!TypeOK
<1>3. PICK fs \in SUBSET R!Present(j) :
        /\ autoPushed' = autoPushed \union ({j} \X fs)
        /\ \A f \in fs : R!Reviewed(j, f)
  <2>1. CASE counted[j] > 0 /\ R!AllReviewed(j, R!Present(j))
    <3>1. PICK fs \in SUBSET R!Present(j) : autoPushed' = autoPushed \union ({j} \X fs)
      BY <2>1 DEF R!AutoPush, R!PushScopes
    <3> QED BY <2>1, <3>1 DEF R!AllReviewed
  <2>2. CASE ~(counted[j] > 0 /\ R!AllReviewed(j, R!Present(j)))
    <3>1. autoPushed' = autoPushed \union ({j} \X {})
      BY <2>2 DEF R!AutoPush
    <3>2. {} \in SUBSET R!Present(j) /\ \A f \in {} : R!Reviewed(j, f)
      OBVIOUS
    <3> QED BY <3>1, <3>2
  <2> QED BY <2>1, <2>2
<1>4. \A f \in fs : f \in R!Present(j) /\ LookedAt(j, f)
  BY <1>3, ReviewedIsLookedAt DEF R!Present
<1>5. fs \subseteq R!Failures
  BY DEF R!Present
<1>6. R!TypeOK'
  <2>1. {j} \X fs \subseteq Jobs \X R!Failures
    BY <1>5
  <2> QED BY <1>1, <1>2, <1>3, <2>1 DEF R!TypeOK
<1>7. /\ \A k \in Jobs : reviewPhase[k] # "new" =>
            signature'[k] = signature[k] /\ reviewPhase'[k] # "new"
  BY <1>1, <1>2
<1>8. GatedIsLookedAt' /\ \A k \in Jobs : \A f \in R!Present(k) :
        f \in R!Present(k)' /\ (LookedAt(k, f) => LookedAt(k, f)')
  BY <1>1, <1>7, LooksStay
<1>9. PushedIsLookedAt'
  <2>1. ASSUME NEW x \in autoPushed' \union pushed'
        PROVE  x[1] \in Jobs /\ x[2] \in R!Present(x[1]) /\ LookedAt(x[1], x[2])
    <3>1. CASE x \in autoPushed \union pushed
      BY <3>1 DEF ReviewInv, R!TypeOK, PushedIsLookedAt
    <3>2. CASE x \in {j} \X fs
      BY <1>4, <3>2
    <3> QED BY <1>1, <1>3, <2>1, <3>1, <3>2
  <2> QED BY <1>8, <2>1 DEF PushedIsLookedAt
<1>10. HumansAreRemembered' /\ AnalysesHavePrecedents'
  BY <1>1, ReviewsUntouched
<1>11. NewShowsNothing'
  <2>1. \A k \in Jobs : reviewPhase'[k] = "new" => reviewPhase[k] = "new"
    BY <1>2
  <2>2. \A k \in Jobs : R!Present(k)' = R!Present(k)
    BY <1>1 DEF R!Present
  <2> QED BY <2>1, <2>2 DEF ReviewInv, NewShowsNothing
<1>12. CountsAreBehind'
  BY <1>1, <1>2 DEF ReviewInv, CountsAreBehind
<1>13. FoundHasPrecedent'
  <2>1. ASSUME NEW k \in Jobs, reviewPhase'[k] = "found"
        PROVE  Scopes[at[k]] \in R!Present(k) /\ R!Precedented(k, Scopes[at[k]])
    BY <1>1, <1>2, <2>1 DEF ReviewInv, FoundHasPrecedent
  <2> QED BY <1>1, <2>1 DEF FoundHasPrecedent, R!Present, R!Precedented
<1>14. analysed' \in Seq(Jobs)
  BY <1>1 DEF ReviewInv
<1> QED BY <1>6, <1>8, <1>9, <1>10, <1>11, <1>12, <1>13, <1>14 DEF ReviewInv

(* A person reviews a failure, or takes a review back.                     *)
LEMMA PeopleReviewing ==
    ASSUME ReviewInv, NEW j \in Jobs, NEW k \in R!Keys, R!SetReviewed(j, k) \/ R!ClearReviewed(j, k)
    PROVE  ReviewInv'
<1>1. /\ UNCHANGED <<reviewPhase, signature, analysed, at, counted, push, autoPushed, pushed>>
      /\ R!TypeOK /\ analysed \in Seq(Jobs)
  BY DEF ReviewInv, R!SetReviewed, R!ClearReviewed, R!autoVars, R!ghosts
<1>2. PICK v \in {"human", "cleared"} :
        /\ reviews' = [reviews EXCEPT ![j][k] = v]
        /\ \/ /\ everHuman' = everHuman \union {<<j, k>>} /\ everAny' = everAny \union {<<j, k>>}
           \/ v = "cleared" /\ everHuman' = everHuman /\ everAny' = everAny
  BY DEF R!SetReviewed, R!ClearReviewed, R!ghosts
<1>3. /\ everHuman \subseteq everHuman' /\ everAny \subseteq everAny'
      /\ v = "human" => <<j, k>> \in everHuman'
  BY <1>2
<1>4. everHuman' \subseteq everAny' /\ everAny' \subseteq Jobs \X R!Keys
  <2>1. <<j, k>> \in Jobs \X R!Keys
    OBVIOUS
  <2> QED BY <1>1, <1>2, <2>1 DEF R!TypeOK
<1>5. /\ reviews' \in [Jobs -> [R!Keys -> {"none", "human", "ai", "cleared"}]]
      /\ HumansAreRemembered' /\ AnalysesHavePrecedents'
  BY <1>1, <1>2, <1>3, TableChanges
<1>6. R!TypeOK'
  BY <1>1, <1>4, <1>5 DEF R!TypeOK
<1>7. PushedIsLookedAt' /\ GatedIsLookedAt'
  BY <1>1, <1>3, LooksStay
<1>8. NewShowsNothing' /\ FoundHasPrecedent' /\ CountsAreBehind'
  BY <1>1, <1>3, LooksUntouched
<1> QED BY <1>1, <1>5, <1>6, <1>7, <1>8 DEF ReviewInv

(* A push is gated on what it exports, and more.                           *)
LEMMA Requesting ==
    ASSUME R!ScopesAssumption, ReviewInv, NEW p \in Pushes, NEW j \in Jobs, NEW f \in R!Failures,
           R!RequestPush(p, j, f)
    PROVE  ReviewInv'
<1>1. /\ UNCHANGED <<reviewPhase, signature, analysed, reviews, at, counted, autoPushed, pushed,
                     everHuman, everAny>>
      /\ reviewPhase[j] # "new" /\ R!TypeOK /\ analysed \in Seq(Jobs) /\ DOMAIN push = Pushes
  BY DEF ReviewInv, R!RequestPush, R!autoVars, R!ghosts, GatedIsLookedAt
<1> DEFINE r == IF R!GateOpens(j, f) THEN [step |-> "gated", job |-> j, scope |-> f]
                ELSE [step |-> "refused"]
<1>2. /\ push' = [push EXCEPT ![p] = r]
      /\ r.step = "gated" => r.job = j /\ r.scope = f /\ R!GateOpens(j, f)
  <2>1. push' = [push EXCEPT ![p] = r]
    BY DEF R!RequestPush
  <2>2. CASE R!GateOpens(j, f)
    BY <2>1, <2>2
  <2>3. CASE ~R!GateOpens(j, f)
    <3>1. r = [step |-> "refused"]
      BY <2>3
    <3>2. r.step # "gated"
      BY <3>1
    <3> HIDE DEF r
    <3> QED BY <2>1, <3>2
  <2> QED BY <2>2, <2>3
<1> HIDE DEF r
<1>3. DOMAIN push' = Pushes /\ push'[p] = r /\ \A q \in Pushes \ {p} : push'[q] = push[q]
  BY <1>1, <1>2
<1>4. ASSUME R!GateOpens(j, f), NEW g \in R!Exported(j, f) PROVE LookedAt(j, g)
  <2>1. g \in R!Gated(j, f) /\ g \in R!Failures
    BY DEF R!Gated, R!Exported, R!Present
  <2>2. R!Reviewed(j, g)
    BY <1>4, <2>1 DEF R!GateOpens, R!AllReviewed
  <2> QED BY <2>1, <2>2, ReviewedIsLookedAt
<1>5. ASSUME NEW q \in Pushes, push'[q].step = "gated"
      PROVE  \E i \in Jobs, s \in R!Failures :
               /\ push'[q].job = i /\ push'[q].scope = s /\ reviewPhase[i] # "new"
               /\ \A g \in R!Exported(i, s) : LookedAt(i, g)
  <2>1. CASE q = p
    BY <1>1, <1>2, <1>3, <1>4, <1>5, <2>1
  <2>2. CASE q # p
    BY <1>3, <1>5, <2>2 DEF ReviewInv, GatedIsLookedAt
  <2> QED BY <2>1, <2>2
<1>6. GatedIsLookedAt'
  BY <1>1, <1>3, <1>5, GatesKept
<1>7. R!TypeOK'
  BY <1>1 DEF R!TypeOK
<1>8. HumansAreRemembered' /\ AnalysesHavePrecedents'
  BY <1>1, ReviewsUntouched
<1>9. NewShowsNothing' /\ FoundHasPrecedent' /\ CountsAreBehind' /\ PushedIsLookedAt'
  BY <1>1, LooksUntouched, LooksStay
<1> QED BY <1>1, <1>6, <1>7, <1>8, <1>9 DEF ReviewInv

(* And exports what it was gated on, whatever was taken back meanwhile.    *)
LEMMA Exporting ==
    ASSUME ReviewInv, NEW p \in Pushes, R!Export(p)
    PROVE  ReviewInv'
<1>1. /\ UNCHANGED <<reviewPhase, signature, analysed, reviews, at, counted, autoPushed,
                     everHuman, everAny>>
      /\ R!TypeOK /\ analysed \in Seq(Jobs) /\ DOMAIN push = Pushes
      /\ push[p].step = "gated" /\ push' = [push EXCEPT ![p] = [step |-> "done"]]
  BY DEF ReviewInv, R!Export, R!autoVars, GatedIsLookedAt
<1>2. PICK j \in Jobs, s \in R!Failures :
        /\ push[p].job = j /\ push[p].scope = s
        /\ \A f \in R!Exported(j, s) : LookedAt(j, f)
  BY <1>1 DEF ReviewInv, GatedIsLookedAt
<1>3. pushed' \in {pushed, pushed \union ({j} \X R!Exported(j, s))}
  BY <1>2 DEF R!Export
<1>4. R!Exported(j, s) \subseteq R!Present(j) /\ R!Present(j) \subseteq R!Failures
  BY DEF R!Exported, R!Present
<1>5. R!TypeOK'
  <2>1. {j} \X R!Exported(j, s) \subseteq Jobs \X R!Failures
    BY <1>4
  <2> QED BY <1>1, <1>3, <2>1 DEF R!TypeOK
<1>6. ASSUME NEW x \in autoPushed' \union pushed'
      PROVE  x[2] \in R!Present(x[1]) /\ LookedAt(x[1], x[2])
  <2>1. CASE x \in autoPushed \union pushed
    BY <2>1 DEF ReviewInv, PushedIsLookedAt
  <2>2. CASE x \in {j} \X R!Exported(j, s)
    BY <1>2, <1>4, <2>2
  <2> QED BY <1>1, <1>3, <1>6, <2>1, <2>2
<1>7. PushedIsLookedAt'
  BY <1>1, <1>6 DEF PushedIsLookedAt, LookedAt, R!Present, R!Precedented
<1>8. DOMAIN push' = Pushes /\ push'[p].step # "gated" /\ \A q \in Pushes \ {p} : push'[q] = push[q]
  BY <1>1
<1>9. ASSUME NEW q \in Pushes, push'[q].step = "gated"
      PROVE  \E i \in Jobs, t \in R!Failures :
               /\ push'[q].job = i /\ push'[q].scope = t /\ reviewPhase[i] # "new"
               /\ \A g \in R!Exported(i, t) : LookedAt(i, g)
  BY <1>8, <1>9 DEF ReviewInv, GatedIsLookedAt
<1>10. GatedIsLookedAt'
  BY <1>1, <1>8, <1>9, GatesKept
<1>11. HumansAreRemembered' /\ AnalysesHavePrecedents'
  BY <1>1, ReviewsUntouched
<1>12. NewShowsNothing' /\ FoundHasPrecedent' /\ CountsAreBehind'
  BY <1>1, LooksUntouched
<1> QED BY <1>1, <1>5, <1>7, <1>10, <1>11, <1>12 DEF ReviewInv

LEMMA ReviewStutters == ASSUME ReviewInv, UNCHANGED reviewVars PROVE ReviewInv'
<1>1. UNCHANGED <<reviewPhase, signature, analysed, reviews, at, counted, push, autoPushed, pushed,
                  everHuman, everAny>>
  BY DEF reviewVars
<1>2. R!TypeOK' /\ analysed' \in Seq(Jobs)
  BY <1>1 DEF ReviewInv, R!TypeOK
<1>3. HumansAreRemembered' /\ AnalysesHavePrecedents'
  BY <1>1, ReviewsUntouched
<1>4. NewShowsNothing' /\ FoundHasPrecedent' /\ CountsAreBehind' /\ PushedIsLookedAt' /\ GatedIsLookedAt'
  BY <1>1, LooksUntouched, LooksStay
<1> QED BY <1>2, <1>3, <1>4 DEF ReviewInv

LEMMA ReviewNext ==
    ASSUME R!ScopesAssumption, R!OutcomesAssumption, ReviewInv, R!Next PROVE ReviewInv'
<1>1. ASSUME NEW j \in Jobs, R!Ingest(j) \/ R!Analyze(j) PROVE ReviewInv'
  BY <1>1, Appearing
<1>2. ASSUME NEW j \in Jobs, R!Lookup(j) PROVE ReviewInv'
  BY <1>2, LookingUp
<1>3. ASSUME NEW j \in Jobs, R!ApplyReview(j) PROVE ReviewInv'
  BY <1>3, Applying
<1>4. ASSUME NEW j \in Jobs, R!Comment(j) \/ R!ReviewRaises(j) PROVE ReviewInv'
  BY <1>4, Commenting
<1>5. ASSUME NEW j \in Jobs, R!AutoPush(j) PROVE ReviewInv'
  BY <1>5, AutoPushing
<1>6. ASSUME NEW j \in Jobs, NEW k \in R!Keys, R!SetReviewed(j, k) \/ R!ClearReviewed(j, k)
      PROVE  ReviewInv'
  BY <1>6, PeopleReviewing
<1>7. ASSUME NEW p \in Pushes, R!Export(p) PROVE ReviewInv'
  BY <1>7, Exporting
<1>8. ASSUME NEW p \in Pushes, NEW j \in Jobs, NEW f \in R!Failures, R!RequestPush(p, j, f)
      PROVE  ReviewInv'
  BY <1>8, Requesting
<1> QED BY <1>1, <1>2, <1>3, <1>4, <1>5, <1>6, <1>7, <1>8 DEF R!Next

LEMMA ReviewsAreTrue ==
    ASSUME R!ScopesAssumption, ReviewInv PROVE R!AutoReviewIsPrecedented /\ R!PushedIsReviewed
<1>1. R!AutoReviewIsPrecedented
  BY ScopesType DEF ReviewInv, R!AutoReviewIsPrecedented, AnalysesHavePrecedents
<1>2. R!PushedIsReviewed
  BY DEF ReviewInv, R!PushedIsReviewed, PushedIsLookedAt, LookedAt
<1> QED BY <1>1, <1>2

----------------------------------------------------------------------------
(* The classifications.  The rows, and what was said last of a failure or  *)
(* of a test in the other jobs.                                            *)
RowType == [job : Jobs, failure : C!Failures, class : Classes \union {C!None},
            pattern : Patterns \union {C!None}, by : {"ai", "user"}, visible : BOOLEAN]

RequestType == [step : {"valid", "committed"}, job : Jobs, tests : (SUBSET Tests) \ {{}},
                scope : Builds \union {0}, field : {"class", "pattern"},
                value : Classes \union Patterns]

Fits(q) ==
    \/ q.field = "class" /\ q.value \in Classes
    \/ q.field = "pattern" /\ q.value \in Patterns

LastClass(ks) == IF ks = {} THEN C!None ELSE rows[C!Latest(ks)].class
Stated(j, f) == C!Classified(C!RowsOf(j, f))
SaidLast(j, f) == LastClass(Stated(j, f))
CarriedLast(j, t) == LastClass(C!Precedents(j, t))

(* Only reviewers state classifications, and those are never hidden.       *)
StatedIsVisible ==
    \A k \in DOMAIN rows : rows[k].class # C!None => rows[k].visible /\ rows[k].by = "user"

SaidIsLast == \A j \in Jobs, f \in C!Failures : said[j][f] = SaidLast(j, f)

(* As long as every override found a history, the tests of a group have    *)
(* been treated alike: in the other jobs, in what was said and in what is  *)
(* shown.                                                                  *)
CarriedAlike == early = {} => \A j \in Jobs, s, t \in Tests : CarriedLast(j, s) = CarriedLast(j, t)

SaidAlike ==
    early = {} => \A j \in Jobs, s, t \in Tests, b \in Builds : said[j][<<s, b>>] = said[j][<<t, b>>]

ShownAlike ==
    early = {} /\ reanalysed = {} => \A j \in Jobs, s, t \in Tests, b \in Builds :
        shown[j][<<s, b>>].class = shown[j][<<t, b>>].class

(* Where nothing was said, the history and the result hold the answer of   *)
(* the analysis.                                                           *)
RecordedLate ==
    \A j \in Jobs : phase[j] \in {"new", "submitted", "analyzing"} => ~C!Recorded(j)

HistoryAnswers ==
    \A j \in Jobs : C!Recorded(j) =>
        \A f \in C!Failures : said[j][f] = C!None => history[j][f].class = answer[j]

ResultAnswers ==
    \A j \in Jobs : phase[j] \in {"completed", "over"} /\ j \notin early =>
        \A f \in C!Failures : said[j][f] = C!None /\ <<j, f>> \notin reanalysed =>
            shown[j][f].class = answer[j]

(* The requests under way, and what one that is committed has said.        *)
RequestsFit ==
    /\ DOMAIN review = OverrideRequests
    /\ \A r \in OverrideRequests :
         \/ review[r] = C!Idle \/ review[r] = C!Done
         \/ review[r] \in RequestType /\ Fits(review[r])

RequestsReach ==
    \A r \in OverrideRequests : review[r].step = "committed" =>
        /\ early = {} => review[r].tests = Tests
        /\ review[r].field = "class" /\ review[r].job \notin early =>
             \A f \in C!Failures : f \in C!Scoped(review[r].tests, review[r].scope) =>
                 said[review[r].job][f] # C!None

ClassInv ==
    /\ C!TypeOK /\ rows \in Seq(RowType)
    /\ StatedIsVisible /\ SaidIsLast
    /\ CarriedAlike /\ SaidAlike /\ ShownAlike
    /\ RecordedLate /\ HistoryAnswers /\ ResultAnswers
    /\ RequestsFit /\ RequestsReach

----------------------------------------------------------------------------
LEMMA LatestIsGreatest ==
    ASSUME NEW N \in Nat, NEW ks, ks \subseteq 1 .. N, ks # {}
    PROVE  C!Latest(ks) \in ks /\ \A i \in ks : i <= C!Latest(ks)
<1>1. ks \subseteq 0 .. N
  OBVIOUS
<1>2. \E k \in ks : \A i \in ks : i <= k
  BY <1>1, GreatestNumber
<1> QED BY <1>2 DEF C!Latest

(* A set of rows that are at the table, as a sequence.                     *)
LEMMA ListOfAll ==
    ASSUME NEW S, IsFiniteSet(S)
    PROVE  /\ C!SetToSeq(S) \in Seq(S)
           /\ \A x \in S : \E i \in 1 .. Len(C!SetToSeq(S)) : C!SetToSeq(S)[i] = x
<1> DEFINE n == Cardinality(S)
           q == C!SetToSeq(S)
<1>1. n \in Nat /\ \E f \in [1 .. n -> S] : IsInjective(f)
  BY FS_CardinalityType DEF ExistsBijection, Bijection, Injection
<1>2. q = CHOOSE f \in [1 .. n -> S] : IsInjective(f)
  BY DEF C!SetToSeq, C!Cardinality, Cardinality, C!IsInjective, IsInjective
<1> HIDE DEF q
<1>3. q \in [1 .. n -> S] /\ IsInjective(q)
  BY <1>1, <1>2
<1>4. q \in Surjection(1 .. n, S)
  <2>1. q \in Injection(1 .. n, S)
    BY <1>3 DEF Injection
  <2>2. IsFiniteSet(1 .. n) /\ Cardinality(1 .. n) = n
    BY <1>1, FS_Interval
  <2> QED BY <2>1, <2>2, FS_Injection
<1>5. \A x \in S : \E i \in 1 .. n : q[i] = x
  BY <1>4 DEF Surjection
<1>6. q \in Seq(S) /\ Len(q) = n
  BY <1>1, <1>3
<1> QED BY <1>5, <1>6 DEF q

(* Rows are only added at the end. *)
Extends == /\ Len(rows') >= Len(rows) /\ \A i \in 1 .. Len(rows) : rows'[i] = rows[i]

(* What was said last of a set of rows: as before if none of them is new,  *)
(* else what the new ones say, if they say the same.                       *)
LEMMA LastOfSame ==
    ASSUME rows \in Seq(RowType), rows' \in Seq(RowType), Extends,
           NEW ks, NEW kn, ks \subseteq 1 .. Len(rows), kn \subseteq 1 .. Len(rows'),
           kn \cap (1 .. Len(rows)) = ks, \A i \in kn : i <= Len(rows)
    PROVE  LastClass(kn)' = LastClass(ks)
<1>1. Len(rows) \in Nat /\ Len(rows') \in Nat
  OBVIOUS
<1>2. kn = ks
  <2>1. kn \subseteq 1 .. Len(rows)
    BY <1>1
  <2> QED BY <2>1
<1>3. CASE ks = {}
  BY <1>2, <1>3 DEF LastClass
<1>4. CASE ks # {}
  <2>1. C!Latest(ks) \in 1 .. Len(rows)
    BY <1>1, <1>4, LatestIsGreatest
  <2>2. rows'[C!Latest(ks)] = rows[C!Latest(ks)]
    BY <2>1 DEF Extends
  <2> QED BY <1>2, <1>4, <2>2 DEF LastClass, C!Latest
<1> QED BY <1>3, <1>4

NewSay(kn, n, c) ==
    /\ kn \subseteq 1 .. Len(rows')
    /\ \E i \in kn : i > n
    /\ \A i \in kn : i > n => rows'[i].class = c

LEMMA LastOfNew ==
    ASSUME rows' \in Seq(RowType), NEW n \in Nat, NEW kn, NEW c, NewSay(kn, n, c)
    PROVE  LastClass(kn)' = c
<1> DEFINE m == CHOOSE k \in kn : \A x \in kn : x <= k
<1>1. Len(rows') \in Nat
  OBVIOUS
<1>0. PICK i \in kn : i > n
  BY DEF NewSay
<1>2. C!Latest(kn) \in kn /\ i <= C!Latest(kn)
  BY <1>0, <1>1, LatestIsGreatest DEF NewSay
<1>3. m \in kn /\ i <= m
  BY <1>2 DEF C!Latest
<1>4. LastClass(kn)' = rows'[m].class
  BY <1>0 DEF LastClass, C!Latest
<1> HIDE DEF m
<1>5. m > n
  BY <1>0, <1>1, <1>3 DEF NewSay
<1> QED BY <1>3, <1>4, <1>5 DEF NewSay

(* The rows an override adds, or a job that carries over what was said.    *)
Batch(k, T, B, v, p) == {C!Row(k, f, v[f[1]], p, "user", TRUE) : f \in T \X B}

IsBatch(q, k, T, B, v, p) ==
    /\ q \in Seq(RowType)
    /\ \A i \in 1 .. Len(q) : \E f \in T \X B : q[i] = C!Row(k, f, v[f[1]], p, "user", TRUE)
    /\ \A f \in T \X B : \E i \in 1 .. Len(q) : q[i] = C!Row(k, f, v[f[1]], p, "user", TRUE)

LEMMA BatchIsListed ==
    ASSUME C!TestsAssumption, NEW k \in Jobs, NEW T \in SUBSET Tests, NEW B \in SUBSET Builds,
           NEW v \in [T -> Classes \union {C!None}], NEW p \in Patterns \union {C!None}
    PROVE  IsBatch(C!SetToSeq(Batch(k, T, B, v, p)), k, T, B, v, p)
<1> DEFINE Added(f) == C!Row(k, f, v[f[1]], p, "user", TRUE)
           S == Batch(k, T, B, v, p)
           q == C!SetToSeq(S)
<1>1. IsFiniteSet(Tests) /\ IsFiniteSet(Builds)
  BY DEF C!TestsAssumption, C!IsFiniteSet, IsFiniteSet
<1>2. IsFiniteSet(T \X B)
  <2>1. IsFiniteSet(T) /\ IsFiniteSet(B)
    BY <1>1, FS_Subset
  <2> QED BY <2>1, FS_Product
<1>3. S = {Added(f) : f \in T \X B}
  BY DEF Batch
<1>4. ASSUME NEW f \in T \X B PROVE Added(f) \in RowType
  <2>1. f[1] \in T /\ f \in C!Failures
    BY DEF C!Failures
  <2>2. v[f[1]] \in Classes \union {C!None}
    BY <2>1
  <2> QED BY <2>1, <2>2 DEF C!Row, RowType
<1> HIDE DEF Added
<1>5. IsFiniteSet(S)
  <2> DEFINE h == [f \in T \X B |-> Added(f)]
  <2>1. h \in [T \X B -> S] /\ \A x \in S : \E f \in T \X B : h[f] = x
    BY <1>3
  <2> HIDE DEF h, S
  <2>2. h \in Surjection(T \X B, S)
    BY <2>1 DEF Surjection
  <2> QED BY <1>2, <2>2, FS_Surjection
<1>6. S \subseteq RowType
  BY <1>3, <1>4
<1> HIDE DEF S
<1>7. q \in Seq(S) /\ \A x \in S : \E i \in 1 .. Len(q) : q[i] = x
  BY <1>5, ListOfAll
<1> HIDE DEF q
<1>8. q \in Seq(RowType)
  BY <1>6, <1>7
<1>9. \A i \in 1 .. Len(q) : \E f \in T \X B : q[i] = Added(f)
  <2>1. \A i \in 1 .. Len(q) : q[i] \in S
    BY <1>7
  <2> QED BY <1>3, <2>1
<1>10. \A f \in T \X B : \E i \in 1 .. Len(q) : q[i] = Added(f)
  <2>1. \A f \in T \X B : Added(f) \in S
    BY <1>3
  <2> QED BY <1>7, <2>1
<1> QED BY <1>8, <1>9, <1>10 DEF q, S, Added, IsBatch

(* Appended rows leave the others where they are.                          *)
LEMMA Appended ==
    ASSUME rows \in Seq(RowType), NEW q \in Seq(RowType), rows' = rows \o q
    PROVE  /\ rows' \in Seq(RowType) /\ Extends
           /\ DOMAIN rows = 1 .. Len(rows) /\ DOMAIN rows' = 1 .. Len(rows')
           /\ \A i \in 1 .. Len(rows') : i > Len(rows) =>
                i - Len(rows) \in 1 .. Len(q) /\ rows'[i] = q[i - Len(rows)]
           /\ \A n \in 1 .. Len(q) : Len(rows) + n \in 1 .. Len(rows')
                                     /\ Len(rows) + n > Len(rows) /\ rows'[Len(rows) + n] = q[n]
<1>1. Len(rows) \in Nat /\ Len(q) \in Nat /\ Len(rows') = Len(rows) + Len(q)
  OBVIOUS
<1>2. rows' \in Seq(RowType) /\ DOMAIN rows = 1 .. Len(rows) /\ DOMAIN rows' = 1 .. Len(rows')
  OBVIOUS
<1>3. \A i \in 1 .. Len(rows') : rows'[i] = IF i <= Len(rows) THEN rows[i] ELSE q[i - Len(rows)]
  BY <1>1
<1>4. Extends
  BY <1>1, <1>3 DEF Extends
<1>5. \A i \in 1 .. Len(rows') : i > Len(rows) =>
        i - Len(rows) \in 1 .. Len(q) /\ rows'[i] = q[i - Len(rows)]
  BY <1>1, <1>3
<1>6. ASSUME NEW n \in 1 .. Len(q)
      PROVE  Len(rows) + n \in 1 .. Len(rows') /\ Len(rows) + n > Len(rows) /\ rows'[Len(rows) + n] = q[n]
  <2>1. n \in Nat /\ n >= 1 /\ n <= Len(q)
    BY <1>1
  <2>2. Len(rows) + n \in 1 .. Len(rows') /\ Len(rows) + n > Len(rows)
    BY <1>1, <2>1
  <2>3. (Len(rows) + n) - Len(rows) = n
    BY <1>1, <2>1
  <2> QED BY <1>5, <2>2, <2>3
<1> QED BY <1>2, <1>4, <1>5, <1>6

(* Who is meant by a row does not change when others are added.            *)
LEMMA OldStatements ==
    ASSUME rows \in Seq(RowType), rows' \in Seq(RowType), Extends, NEW j, NEW f, NEW t
    PROVE  /\ Stated(j, f) \subseteq 1 .. Len(rows) /\ Stated(j, f)' \subseteq 1 .. Len(rows')
           /\ Stated(j, f)' \cap (1 .. Len(rows)) = Stated(j, f)
           /\ C!Precedents(j, t) \subseteq 1 .. Len(rows)
           /\ C!Precedents(j, t)' \subseteq 1 .. Len(rows')
           /\ C!Precedents(j, t)' \cap (1 .. Len(rows)) = C!Precedents(j, t)
<1>1. DOMAIN rows = 1 .. Len(rows) /\ DOMAIN rows' = 1 .. Len(rows') /\ Len(rows) \in Nat
      /\ Len(rows') \in Nat
  OBVIOUS
<1>2. \A i \in DOMAIN rows : i \in DOMAIN rows' /\ rows'[i] = rows[i]
  BY <1>1 DEF Extends
<1> USE DEF Stated, C!Classified, C!RowsOf, C!Precedents
<1>3. Stated(j, f)' \cap DOMAIN rows = Stated(j, f) /\ C!Precedents(j, t)' \cap DOMAIN rows = C!Precedents(j, t)
  BY <1>2
<1>4. /\ Stated(j, f) \subseteq DOMAIN rows /\ Stated(j, f)' \subseteq DOMAIN rows'
      /\ C!Precedents(j, t) \subseteq DOMAIN rows /\ C!Precedents(j, t)' \subseteq DOMAIN rows'
  OBVIOUS
<1> QED BY <1>1, <1>3, <1>4

(* Rows about patterns alone change nothing of what was said.              *)
LEMMA PatternsSayNothing ==
    ASSUME rows \in Seq(RowType), NEW q \in Seq(RowType), rows' = rows \o q, StatedIsVisible,
           \A i \in 1 .. Len(q) : q[i].class = C!None
    PROVE  /\ rows' \in Seq(RowType) /\ StatedIsVisible'
           /\ \A j, f : SaidLast(j, f)' = SaidLast(j, f)
           /\ \A j, t : CarriedLast(j, t)' = CarriedLast(j, t)
<1>1. \A i \in 1 .. Len(rows') : i > Len(rows) => rows'[i].class = C!None
  BY Appended
<1>2. rows' \in Seq(RowType) /\ Extends /\ DOMAIN rows = 1 .. Len(rows) /\ DOMAIN rows' = 1 .. Len(rows')
  BY Appended
<1>3. StatedIsVisible'
  <2>1. \A k \in DOMAIN rows' : k > Len(rows) \/ k \in DOMAIN rows
    BY <1>2
  <2> QED BY <1>1, <1>2, <2>1 DEF StatedIsVisible, Extends
<1>4. ASSUME NEW j, NEW f PROVE SaidLast(j, f)' = SaidLast(j, f)
  <2>1. \A i \in Stated(j, f)' : rows'[i].class # C!None /\ i \in 1 .. Len(rows')
    BY <1>2 DEF Stated, C!Classified, C!RowsOf
  <2>2. \A i \in Stated(j, f)' : i <= Len(rows)
    BY <1>1, <1>2, <2>1
  <2> QED BY <1>2, <2>2, OldStatements, LastOfSame DEF SaidLast
<1>5. ASSUME NEW j, NEW t PROVE CarriedLast(j, t)' = CarriedLast(j, t)
  <2>1. \A i \in C!Precedents(j, t)' : rows'[i].class # C!None /\ i \in 1 .. Len(rows')
    BY <1>2 DEF C!Precedents
  <2>2. \A i \in C!Precedents(j, t)' : i <= Len(rows)
    BY <1>1, <1>2, <2>1
  <2> QED BY <1>2, <2>2, OldStatements, LastOfSame DEF CarriedLast
<1> QED BY <1>2, <1>3, <1>4, <1>5

(* A batch of classifications is what was said last of its failures, and,  *)
(* in the other jobs, of its tests.                                        *)
BatchSays(k, T, B, v) ==
    /\ rows' \in Seq(RowType) /\ StatedIsVisible'
    /\ \A j \in Jobs : \A f \in C!Failures : SaidLast(j, f)' =
         IF j = k /\ f \in T \X B THEN v[f[1]] ELSE SaidLast(j, f)
    /\ \A j \in Jobs : \A t \in Tests : CarriedLast(j, t)' =
         IF j # k /\ t \in T /\ B # {} THEN v[t] ELSE CarriedLast(j, t)

LEMMA BatchIsSaid ==
    ASSUME C!TestsAssumption, rows \in Seq(RowType), StatedIsVisible,
           NEW k \in Jobs, NEW T \in SUBSET Tests, NEW B \in SUBSET Builds,
           NEW v \in [T -> Classes], NEW p \in Patterns \union {C!None},
           rows' = rows \o C!SetToSeq(Batch(k, T, B, v, p))
    PROVE  BatchSays(k, T, B, v)
<1> DEFINE q == C!SetToSeq(Batch(k, T, B, v, p))
           Added(f) == C!Row(k, f, v[f[1]], p, "user", TRUE)
           n == Len(rows)
<1>1. v \in [T -> Classes \union {C!None}]
  OBVIOUS
<1>2. /\ q \in Seq(RowType)
      /\ \A i \in 1 .. Len(q) : \E f \in T \X B : q[i] = Added(f)
      /\ \A f \in T \X B : \E i \in 1 .. Len(q) : q[i] = Added(f)
  BY <1>1, BatchIsListed DEF IsBatch
<1>3. rows' = rows \o q
  OBVIOUS
<1> HIDE DEF q, Added
<1>4. /\ rows' \in Seq(RowType) /\ Extends
      /\ DOMAIN rows = 1 .. n /\ DOMAIN rows' = 1 .. Len(rows') /\ n \in Nat
      /\ \A i \in 1 .. Len(rows') : i > n => \E f \in T \X B : rows'[i] = Added(f)
      /\ \A f \in T \X B : \E i \in 1 .. Len(rows') : i > n /\ rows'[i] = Added(f)
  <2>1. /\ \A i \in 1 .. Len(rows') : i > n => i - n \in 1 .. Len(q) /\ rows'[i] = q[i - n]
        /\ \A m \in 1 .. Len(q) : n + m \in 1 .. Len(rows') /\ n + m > n /\ rows'[n + m] = q[m]
        /\ rows' \in Seq(RowType) /\ Extends /\ DOMAIN rows = 1 .. n /\ DOMAIN rows' = 1 .. Len(rows')
    BY <1>2, <1>3, Appended
  <2>2. ASSUME NEW f \in T \X B PROVE \E i \in 1 .. Len(rows') : i > n /\ rows'[i] = Added(f)
    <3>1. PICK m \in 1 .. Len(q) : q[m] = Added(f)
      BY <1>2
    <3>2. n + m \in 1 .. Len(rows') /\ n + m > n /\ rows'[n + m] = q[m]
      BY <2>1
    <3> QED BY <3>1, <3>2
  <2>3. ASSUME NEW i \in 1 .. Len(rows'), i > n PROVE \E f \in T \X B : rows'[i] = Added(f)
    <3>1. i - n \in 1 .. Len(q) /\ rows'[i] = q[i - n]
      BY <2>1, <2>3
    <3> HIDE DEF n
    <3> QED BY <1>2, <3>1
  <2>4. n \in Nat
    OBVIOUS
  <2> QED BY <2>1, <2>2, <2>3, <2>4
<1>5. ASSUME NEW f \in T \X B
      PROVE  /\ Added(f).job = k /\ Added(f).failure = f /\ Added(f).class = v[f[1]] /\ Added(f).visible = TRUE
             /\ Added(f).by = "user" /\ Added(f).class # C!None /\ f[1] \in T /\ f[2] \in B /\ f = <<f[1], f[2]>>
  <2>1. f[1] \in T /\ f[2] \in B /\ f = <<f[1], f[2]>>
    OBVIOUS
  <2>2. v[f[1]] \in Classes
    BY <2>1
  <2>3. C!None \notin Classes
    BY DEF C!TestsAssumption
  <2> QED BY <2>1, <2>2, <2>3 DEF Added, C!Row
<1>6. StatedIsVisible'
  <2>1. ASSUME NEW i \in DOMAIN rows', rows'[i].class # C!None PROVE rows'[i].visible /\ rows'[i].by = "user"
    <3>1. CASE i > n
      <4>1. PICK f \in T \X B : rows'[i] = Added(f)
        BY <1>4, <3>1
      <4> QED BY <1>5, <4>1
    <3>2. CASE ~(i > n)
      <4>1. i \in 1 .. n /\ rows'[i] = rows[i]
        BY <1>4, <3>2 DEF Extends
      <4> QED BY <1>4, <2>1, <4>1 DEF StatedIsVisible
    <3> QED BY <3>1, <3>2
  <2> QED BY <2>1 DEF StatedIsVisible
<1>7. ASSUME NEW j \in Jobs, NEW f \in C!Failures
      PROVE  SaidLast(j, f)' = IF j = k /\ f \in T \X B THEN v[f[1]] ELSE SaidLast(j, f)
  <2>0. PICK kn : kn = Stated(j, f)'
    OBVIOUS
  <2>1. \A i : i \in kn <=> /\ i \in 1 .. Len(rows') /\ rows'[i].job = j /\ rows'[i].failure = f
                            /\ rows'[i].visible /\ rows'[i].class # C!None
    BY <1>4, <2>0 DEF Stated, C!Classified, C!RowsOf
  <2>2. /\ Stated(j, f) \subseteq 1 .. n /\ kn \subseteq 1 .. Len(rows')
        /\ kn \cap (1 .. n) = Stated(j, f)
    BY <1>4, <2>0, OldStatements
  <2>3. SaidLast(j, f)' = LastClass(kn)' /\ SaidLast(j, f) = LastClass(Stated(j, f))
    BY <2>0 DEF SaidLast, LastClass, C!Latest
  <2>4. \A i \in kn : i > n => j = k /\ f \in T \X B /\ rows'[i].class = v[f[1]]
    <3>1. ASSUME NEW i \in kn, i > n PROVE j = k /\ f \in T \X B /\ rows'[i].class = v[f[1]]
      <4>1. PICK g \in T \X B : rows'[i] = Added(g)
        BY <1>4, <2>1, <3>1
      <4>2. Added(g).job = k /\ Added(g).failure = g /\ Added(g).class = v[g[1]]
        BY <1>5
      <4>3. rows'[i].job = j /\ rows'[i].failure = f
        BY <2>1, <3>1
      <4> QED BY <4>1, <4>2, <4>3
    <3> QED BY <3>1
  <2>5. CASE j = k /\ f \in T \X B
    <3>1. PICK i \in 1 .. Len(rows') : i > n /\ rows'[i] = Added(f)
      BY <1>4, <2>5
    <3>2. i \in kn
      <4>1. /\ Added(f).job = k /\ Added(f).failure = f /\ Added(f).class # C!None
            /\ Added(f).visible = TRUE
        BY <1>5, <2>5
      <4> QED BY <2>1, <2>5, <3>1, <4>1
    <3>3. LastClass(kn)' = v[f[1]]
      <4>0. PICK c : c = v[f[1]]
        OBVIOUS
      <4>1. \A x \in kn : x > n => rows'[x].class = c
        BY <2>4, <4>0
      <4>2. n \in Nat /\ kn \subseteq 1 .. Len(rows') /\ rows' \in Seq(RowType)
        BY <1>4, <2>2
      <4> HIDE DEF n
      <4>3. NewSay(kn, n, c)
        BY <3>1, <3>2, <4>1, <4>2 DEF NewSay
      <4>4. LastClass(kn)' = c
        BY <4>2, <4>3, LastOfNew
      <4> QED BY <4>0, <4>4
    <3> QED BY <2>3, <2>5, <3>3
  <2>6. CASE ~(j = k /\ f \in T \X B)
    <3>1. \A i \in kn : i <= n
      BY <1>4, <2>2, <2>4, <2>6
    <3>2. LastClass(kn)' = LastClass(Stated(j, f))
      BY <1>4, <2>2, <3>1, LastOfSame
    <3> QED BY <2>3, <2>6, <3>2
  <2> QED BY <2>5, <2>6
<1>8. ASSUME NEW j \in Jobs, NEW t \in Tests
      PROVE  CarriedLast(j, t)' = IF j # k /\ t \in T /\ B # {} THEN v[t] ELSE CarriedLast(j, t)
  <2>0. PICK kn : kn = C!Precedents(j, t)'
    OBVIOUS
  <2>1. \A i : i \in kn <=> /\ i \in 1 .. Len(rows') /\ rows'[i].job # j /\ rows'[i].failure[1] = t
                            /\ rows'[i].visible /\ rows'[i].by # "ai" /\ rows'[i].class # C!None
    BY <1>4, <2>0 DEF C!Precedents
  <2>2. /\ C!Precedents(j, t) \subseteq 1 .. n /\ kn \subseteq 1 .. Len(rows')
        /\ kn \cap (1 .. n) = C!Precedents(j, t)
    BY <1>4, <2>0, OldStatements
  <2>3. CarriedLast(j, t)' = LastClass(kn)' /\ CarriedLast(j, t) = LastClass(C!Precedents(j, t))
    BY <2>0 DEF CarriedLast, LastClass, C!Latest
  <2>4. \A i \in kn : i > n => j # k /\ t \in T /\ B # {} /\ rows'[i].class = v[t]
    <3>1. ASSUME NEW i \in kn, i > n PROVE j # k /\ t \in T /\ B # {} /\ rows'[i].class = v[t]
      <4>1. PICK g \in T \X B : rows'[i] = Added(g)
        BY <1>4, <2>1, <3>1
      <4>2. /\ Added(g).job = k /\ Added(g).failure = g /\ Added(g).class = v[g[1]]
            /\ g[1] \in T /\ g[2] \in B
        BY <1>5
      <4>3. rows'[i].job # j /\ rows'[i].failure[1] = t
        BY <2>1, <3>1
      <4>4. g[1] = t
        BY <4>1, <4>2, <4>3
      <4> QED BY <4>1, <4>2, <4>3, <4>4
    <3> QED BY <3>1
  <2>5. CASE j # k /\ t \in T /\ B # {}
    <3>1. PICK b : b \in B
      BY <2>5
    <3> DEFINE f == <<t, b>>
    <3>2. f \in T \X B /\ f[1] = t
      BY <2>5, <3>1
    <3> HIDE DEF f
    <3>3. PICK i \in 1 .. Len(rows') : i > n /\ rows'[i] = Added(f)
      BY <1>4, <3>2
    <3>4. i \in kn
      <4>1. /\ Added(f).job = k /\ Added(f).failure = f /\ Added(f).class # C!None
            /\ Added(f).visible = TRUE /\ Added(f).by = "user"
        BY <1>5, <3>2
      <4>2. Added(f).failure[1] = t
        BY <3>2, <4>1
      <4> QED BY <2>1, <2>5, <3>3, <4>1, <4>2
    <3>5. LastClass(kn)' = v[t]
      <4>0. PICK c : c = v[t]
        OBVIOUS
      <4>1. \A x \in kn : x > n => rows'[x].class = c
        BY <2>4, <4>0
      <4>2. n \in Nat /\ kn \subseteq 1 .. Len(rows') /\ rows' \in Seq(RowType)
        BY <1>4, <2>2
      <4> HIDE DEF n
      <4>3. NewSay(kn, n, c)
        BY <3>3, <3>4, <4>1, <4>2 DEF NewSay
      <4>4. LastClass(kn)' = c
        BY <4>2, <4>3, LastOfNew
      <4> QED BY <4>0, <4>4
    <3> QED BY <2>3, <2>5, <3>5
  <2>6. CASE ~(j # k /\ t \in T /\ B # {})
    <3>1. \A i \in kn : i <= n
      BY <1>4, <2>2, <2>4, <2>6
    <3>2. LastClass(kn)' = LastClass(C!Precedents(j, t))
      BY <1>4, <2>2, <3>1, LastOfSame
    <3> QED BY <2>3, <2>6, <3>2
  <2> QED BY <2>5, <2>6
<1> QED BY <1>4, <1>6, <1>7, <1>8 DEF BatchSays

----------------------------------------------------------------------------
(* What a step that leaves part of the tables alone keeps.                 *)
LEMMA RowsStay ==
    ASSUME rows' = rows
    PROVE  /\ \A j, f : SaidLast(j, f)' = SaidLast(j, f)
           /\ \A j, t : CarriedLast(j, t)' = CarriedLast(j, t)
           /\ StatedIsVisible => StatedIsVisible'
BY DEF SaidLast, CarriedLast, LastClass, Stated, StatedIsVisible, C!Classified, C!RowsOf,
       C!Precedents,
       C!Latest

LEMMA NothingIsSaid ==
    ASSUME ClassInv, said' = said, early' = early,
           \A j, f : SaidLast(j, f)' = SaidLast(j, f), \A j, t : CarriedLast(j, t)' = CarriedLast(j, t)
    PROVE  SaidIsLast' /\ CarriedAlike' /\ SaidAlike'
<1>1. SaidIsLast'
  BY DEF ClassInv, SaidIsLast
<1>2. CarriedAlike'
  BY DEF ClassInv, CarriedAlike
<1>3. SaidAlike'
  BY DEF ClassInv, SaidAlike
<1> QED BY <1>1, <1>2, <1>3

LEMMA ShownStays ==
    ASSUME ClassInv, shown' = shown, early \subseteq early', reanalysed' = reanalysed
    PROVE  ShownAlike'
<1>1. ShownAlike
  BY DEF ClassInv
<1>2. ASSUME early' = {}, reanalysed = {}, NEW j \in Jobs, NEW s \in Tests, NEW t \in Tests,
             NEW b \in Builds
      PROVE  shown[j][<<s, b>>].class = shown[j][<<t, b>>].class
  <2>1. early = {}
    BY <1>2
  <2> QED BY <1>1, <1>2, <2>1 DEF ShownAlike
<1> QED BY <1>2 DEF ShownAlike

LEMMA RequestsStay ==
    ASSUME ClassInv, review' = review, early \subseteq early',
           \A j \in Jobs : \A f \in C!Failures : said[j][f] # C!None => said'[j][f] # C!None
    PROVE  RequestsFit' /\ RequestsReach'
<1>1. RequestsFit'
  BY DEF ClassInv, RequestsFit, Fits, C!Idle, C!Done, RequestType
<1>2. ASSUME NEW r \in OverrideRequests, review[r].step = "committed"
      PROVE  review[r].job \in Jobs
  BY <1>2 DEF ClassInv, RequestsFit, RequestType, C!Idle, C!Done
<1>3. RequestsReach'
  BY <1>2 DEF ClassInv, RequestsReach, C!Scoped, C!InScope
<1> QED BY <1>1, <1>3

(* A job before its completion moves on.                                   *)
LEMMA MovingOn ==
    ASSUME ClassInv, NEW j \in Jobs, C!Ingest(j) \/ C!Analyze(j)
    PROVE  ClassInv'
<1>1. /\ rows' = rows /\ said' = said /\ early' = early /\ review' = review /\ history' = history
      /\ shown' = shown /\ answer' = answer /\ reanalysed' = reanalysed
      /\ phase[j] \in {"new", "submitted"}
      /\ phase' = [phase EXCEPT ![j] = "submitted"] \/ phase' = [phase EXCEPT ![j] = "analyzing"]
  BY DEF C!Ingest, C!Analyze, C!tables, C!ghosts
<1>2. C!TypeOK' /\ rows' \in Seq(RowType)
  <2>1. phase' \in [Jobs -> {"new", "submitted", "analyzing", "saving", "carried", "completed", "over"}]
    BY <1>1 DEF ClassInv, C!TypeOK
  <2> QED BY <1>1, <2>1 DEF ClassInv, C!TypeOK, C!Recorded
<1>3. /\ StatedIsVisible'
      /\ \A i, f : SaidLast(i, f)' = SaidLast(i, f)
      /\ \A i, t : CarriedLast(i, t)' = CarriedLast(i, t)
  BY <1>1, RowsStay DEF ClassInv
<1>4. SaidIsLast' /\ CarriedAlike' /\ SaidAlike'
  BY <1>1, <1>3, NothingIsSaid
<1>5. ShownAlike'
  BY <1>1, ShownStays
<1>6. \A i \in Jobs : phase'[i] = IF i = j THEN phase'[j] ELSE phase[i]
  BY <1>1 DEF ClassInv, C!TypeOK
<1>7. phase'[j] \in {"submitted", "analyzing"}
  BY <1>1 DEF ClassInv, C!TypeOK
<1>8. RecordedLate' /\ HistoryAnswers' /\ ResultAnswers'
  BY <1>1, <1>6, <1>7 DEF ClassInv, RecordedLate, HistoryAnswers, ResultAnswers, C!Recorded
<1>9. RequestsFit' /\ RequestsReach'
  BY <1>1, RequestsStay
<1> QED BY <1>2, <1>3, <1>4, <1>5, <1>8, <1>9 DEF ClassInv

(* A pattern is stated, by the analysis or by a reviewer.                  *)
LEMMA Classifying ==
    ASSUME ClassInv, NEW j \in Jobs, NEW f \in C!Failures, NEW p \in Patterns,
           NEW by \in {"ai", "user"}, C!Classify(j, f, p, by)
    PROVE  ClassInv'
<1> DEFINE q == <<C!Row(j, f, C!None, p, by, by # "ai")>>
<1>1. /\ said' = said /\ early' = early /\ review' = review /\ history' = history
      /\ shown' = shown /\ answer' = answer /\ reanalysed' = reanalysed /\ phase' = phase
      /\ rows' = Append(rows, C!Row(j, f, C!None, p, by, by # "ai"))
  BY DEF C!Classify, C!ghosts
<1>2. C!Row(j, f, C!None, p, by, by # "ai") \in RowType
  BY DEF C!Row, RowType
<1>3. C!Row(j, f, C!None, p, by, by # "ai").class = C!None
  BY DEF C!Row
<1>4. q \in Seq(RowType) /\ \A i \in 1 .. Len(q) : q[i].class = C!None
  BY <1>2, <1>3
<1>5. rows' = rows \o q
  BY <1>1, <1>2 DEF ClassInv
<1> HIDE DEF q
<1>6. /\ rows' \in Seq(RowType) /\ StatedIsVisible'
      /\ \A i, g : SaidLast(i, g)' = SaidLast(i, g)
      /\ \A i, t : CarriedLast(i, t)' = CarriedLast(i, t)
  BY <1>4, <1>5, PatternsSayNothing DEF ClassInv
<1>7. C!TypeOK'
  <2>1. \A k \in DOMAIN rows' : rows'[k] \in RowType
    BY <1>6
  <2>2. \A k \in DOMAIN rows' : rows'[k].job \in Jobs /\ rows'[k].failure \in C!Failures
    BY <2>1 DEF RowType
  <2> QED BY <1>1, <2>2 DEF ClassInv, C!TypeOK, C!Recorded
<1>8. SaidIsLast' /\ CarriedAlike' /\ SaidAlike'
  BY <1>1, <1>6, NothingIsSaid
<1>9. ShownAlike' /\ RecordedLate' /\ HistoryAnswers' /\ ResultAnswers'
  BY <1>1 DEF ClassInv, ShownAlike, RecordedLate, HistoryAnswers, ResultAnswers, C!Recorded
<1>10. RequestsFit' /\ RequestsReach'
  BY <1>1, RequestsStay
<1> QED BY <1>6, <1>7, <1>8, <1>9, <1>10 DEF ClassInv

(* The rows of an analysis are written to the history, or not.             *)
LEMMA Populating ==
    ASSUME ClassInv, NEW j \in Jobs, NEW c \in Classes, C!Populate(j, c)
    PROVE  ClassInv'
<1>1. /\ rows' = rows /\ said' = said /\ early' = early /\ review' = review
      /\ shown' = shown /\ reanalysed' = reanalysed /\ phase[j] = "analyzing"
      /\ phase' = [phase EXCEPT ![j] = "saving"] /\ answer' = [answer EXCEPT ![j] = c]
      /\ history' = history \/ history' = [history EXCEPT ![j] = C!AllSay(c)]
  BY DEF C!Populate, C!ghosts
<1>2. C!AllSay(c) \in [C!Failures -> C!Analyses] /\ \A f \in C!Failures : C!AllSay(c)[f].class = c
  BY DEF C!AllSay, C!Analyses
<1>3. ~C!Recorded(j)
  BY <1>1 DEF ClassInv, RecordedLate
<1>4. \A i \in Jobs : /\ phase'[i] = IF i = j THEN "saving" ELSE phase[i]
                      /\ answer'[i] = IF i = j THEN c ELSE answer[i]
  BY <1>1 DEF ClassInv, C!TypeOK
<1>5. /\ \A i \in Jobs : i # j => history'[i] = history[i]
      /\ history'[j] = history[j] \/ history'[j] = C!AllSay(c)
      /\ history' \in [Jobs -> {<<>>} \union [C!Failures -> C!Analyses]]
  <2>1. history \in [Jobs -> {<<>>} \union [C!Failures -> C!Analyses]]
    BY DEF ClassInv, C!TypeOK
  <2>2. PICK all \in [C!Failures -> C!Analyses] : all = C!AllSay(c)
    BY <1>2
  <2>3. history' = history \/ history' = [history EXCEPT ![j] = all]
    BY <1>1, <2>2
  <2>4. all \in {<<>>} \union [C!Failures -> C!Analyses]
    BY <2>2
  <2> HIDE DEF C!AllSay
  <2> QED BY <2>1, <2>2, <2>3, <2>4
<1>6. C!TypeOK' /\ rows' \in Seq(RowType)
  <2>1. phase' \in [Jobs -> {"new", "submitted", "analyzing", "saving", "carried", "completed", "over"}]
    BY <1>1 DEF ClassInv, C!TypeOK
  <2>2. answer' \in [Jobs -> Classes \union {C!None}]
    BY <1>1 DEF ClassInv, C!TypeOK
  <2> QED BY <1>1, <1>5, <2>1, <2>2 DEF ClassInv, C!TypeOK
<1>7. /\ StatedIsVisible'
      /\ \A i, f : SaidLast(i, f)' = SaidLast(i, f)
      /\ \A i, t : CarriedLast(i, t)' = CarriedLast(i, t)
  BY <1>1, RowsStay DEF ClassInv
<1>8. SaidIsLast' /\ CarriedAlike' /\ SaidAlike'
  BY <1>1, <1>7, NothingIsSaid
<1>9. ShownAlike'
  BY <1>1, ShownStays
<1>10. RecordedLate'
  BY <1>4, <1>5 DEF ClassInv, RecordedLate, C!Recorded
<1>11. HistoryAnswers'
  <2>1. \A i \in Jobs : C!Recorded(i)' <=> history'[i] # <<>>
    BY DEF C!Recorded
  <2>2. ASSUME NEW i \in Jobs, i # j, C!Recorded(i)', NEW f \in C!Failures, said'[i][f] = C!None
        PROVE  history'[i][f].class = answer'[i]
    BY <1>1, <1>4, <1>5, <2>1, <2>2 DEF ClassInv, HistoryAnswers, C!Recorded
  <2>3. ASSUME C!Recorded(j)', NEW f \in C!Failures PROVE history'[j][f].class = answer'[j]
    BY <1>2, <1>3, <1>4, <1>5, <2>1, <2>3 DEF C!Recorded
  <2> QED BY <2>2, <2>3 DEF HistoryAnswers
<1>12. ResultAnswers'
  BY <1>1, <1>4 DEF ClassInv, ResultAnswers
<1>13. RequestsFit' /\ RequestsReach'
  BY <1>1, RequestsStay
<1> QED BY <1>6, <1>7, <1>8, <1>9, <1>10, <1>11, <1>12, <1>13 DEF ClassInv

(* What reviewers said of the other jobs is carried over to a job.         *)
LEMMA CarryingForward ==
    ASSUME C!TestsAssumption, ClassInv, NEW j \in Jobs, C!CarryForward(j)
    PROVE  ClassInv'
<1> DEFINE T == {t \in Tests : C!Precedents(j, t) # {}}
           v == [t \in T |-> CarriedLast(j, t)]
           fs == {f \in C!Failures : C!Precedents(j, f[1]) # {}}
           list == rows \o C!SetToSeq({C!CarriedRow(j, f) : f \in fs})
           told == [said EXCEPT ![j] = [f \in C!Failures |->
                       IF f \in fs THEN C!CarriedRow(j, f).class ELSE @[f]]]
<1>1. /\ early' = early /\ review' = review /\ history' = history /\ answer' = answer
      /\ shown' = shown /\ reanalysed' = reanalysed /\ phase[j] = "saving"
      /\ phase' = [phase EXCEPT ![j] = "carried"]
      /\ \/ rows' = list /\ said' = told
         \/ rows' = rows /\ said' = said
  BY DEF C!CarryForward
<1>2. \A t \in Tests : /\ t \in T => CarriedLast(j, t) \in Classes
                       /\ t \notin T => CarriedLast(j, t) = C!None
  <2>1. ASSUME NEW t \in Tests, t \in T PROVE CarriedLast(j, t) \in Classes
    <3>1. DOMAIN rows = 1 .. Len(rows) /\ Len(rows) \in Nat
      BY DEF ClassInv
    <3>2. C!Precedents(j, t) \subseteq 1 .. Len(rows)
      BY <3>1 DEF C!Precedents
    <3>3. PICK m : m = C!Latest(C!Precedents(j, t))
      OBVIOUS
    <3>4. m \in C!Precedents(j, t)
      BY <2>1, <3>1, <3>2, <3>3, LatestIsGreatest
    <3>5. m \in DOMAIN rows /\ rows[m].class # C!None
      BY <3>4 DEF C!Precedents
    <3>6. rows[m] \in RowType
      BY <3>5 DEF ClassInv
    <3>7. rows[m].class \in Classes
      BY <3>5, <3>6 DEF RowType
    <3> QED BY <2>1, <3>3, <3>7 DEF CarriedLast, LastClass
  <2> QED BY <2>1 DEF CarriedLast, LastClass
<1>3. T \in SUBSET Tests /\ v \in [T -> Classes]
  BY <1>2
<1>4. \A f \in C!Failures : (f \in fs <=> f \in T \X Builds) /\ f[1] \in Tests /\ f[2] \in Builds
  BY DEF C!Failures
<1>5. \A f \in fs : f[1] \in T /\ C!CarriedRow(j, f) = C!Row(j, f, v[f[1]], C!None, "user", TRUE)
  <2>1. ASSUME NEW f \in fs PROVE f[1] \in T /\ C!CarriedRow(j, f) = C!Row(j, f, v[f[1]], C!None, "user", TRUE)
    <3>1. f[1] \in T
      BY <1>4
    <3>2. v[f[1]] = CarriedLast(j, f[1])
      BY <3>1
    <3>3. CarriedLast(j, f[1]) = rows[C!Precedent(j, f[1])].class
      BY <3>1 DEF CarriedLast, LastClass, C!Precedent
    <3> QED BY <3>1, <3>2, <3>3 DEF C!CarriedRow
  <2> QED BY <2>1
<1>6. fs = T \X Builds
  <2>1. fs \subseteq C!Failures /\ T \X Builds \subseteq C!Failures
    BY DEF C!Failures
  <2> QED BY <1>4, <2>1
<1>7. {C!CarriedRow(j, f) : f \in fs} = Batch(j, T, Builds, v, C!None)
  <2> HIDE DEF v, fs, T
  <2> QED BY <1>5, <1>6 DEF Batch
<1>8. \A f \in fs : C!CarriedRow(j, f).class = v[f[1]]
  BY <1>5 DEF C!Row
<1>9. \A i \in Jobs : phase'[i] = IF i = j THEN "carried" ELSE phase[i]
  BY <1>1 DEF ClassInv, C!TypeOK
<1>10. C!None \notin Classes /\ Builds # {}
  BY DEF C!TestsAssumption
<1>11. CASE rows' = list /\ said' = told
  <2>1. rows' = rows \o C!SetToSeq(Batch(j, T, Builds, v, C!None))
    BY <1>7, <1>11
  <2>2. BatchSays(j, T, Builds, v)
    <3>1. C!None \in Patterns \union {C!None} /\ Builds \in SUBSET Builds
      OBVIOUS
    <3>2. rows \in Seq(RowType) /\ StatedIsVisible
      BY DEF ClassInv
    <3> HIDE DEF T, v, list, told, fs
    <3> QED BY <1>3, <2>1, <3>1, <3>2, BatchIsSaid
  <2>3. \A t \in T : v[t] = CarriedLast(j, t)
    OBVIOUS
  <2> HIDE DEF T, v, list, fs
  <2>4. told[j] = [f \in C!Failures |-> IF f \in fs THEN C!CarriedRow(j, f).class ELSE said[j][f]]
        /\ \A i \in Jobs \ {j} : told[i] = said[i]
    BY DEF ClassInv, C!TypeOK
  <2>5. \A f \in C!Failures : told[j][f] = IF f \in T \X Builds THEN v[f[1]] ELSE said[j][f]
    BY <1>6, <1>8, <2>4
  <2>6. told \in [Jobs -> [C!Failures -> Classes \union {C!None}]]
    <3>1. ASSUME NEW f \in C!Failures PROVE told[j][f] \in Classes \union {C!None}
      <4>1. CASE f \in T \X Builds
        <5>1. f[1] \in T
          BY <4>1
        <5>2. v[f[1]] \in Classes
          BY <1>3, <5>1
        <5> QED BY <2>5, <4>1, <5>2
      <4>2. CASE f \notin T \X Builds
        BY <2>5, <4>2 DEF ClassInv, C!TypeOK
      <4> QED BY <4>1, <4>2
    <3>2. told[j] \in [C!Failures -> Classes \union {C!None}]
      BY <2>4, <3>1
    <3>3. \A i \in Jobs \ {j} : told[i] \in [C!Failures -> Classes \union {C!None}]
      BY <2>4 DEF ClassInv, C!TypeOK
    <3>4. told = [i \in Jobs |-> told[i]]
      <4>1. said = [i \in Jobs |-> said[i]]
        BY DEF ClassInv, C!TypeOK
      <4> QED BY <4>1 DEF told
    <3> QED BY <3>2, <3>3, <3>4
  <2>7. \A i \in Jobs : \A f \in C!Failures :
           said'[i][f] = IF i = j /\ f \in T \X Builds THEN v[f[1]] ELSE said[i][f]
    BY <1>11, <2>4, <2>5
  <2> HIDE DEF told
  <2>8. C!TypeOK'
    <3>1. \A k \in DOMAIN rows' : rows'[k] \in RowType
      BY <2>2 DEF BatchSays
    <3>2. \A k \in DOMAIN rows' : rows'[k].job \in Jobs /\ rows'[k].failure \in C!Failures
      BY <3>1 DEF RowType
    <3>3. phase' \in [Jobs -> {"new", "submitted", "analyzing", "saving", "carried", "completed", "over"}]
      BY <1>1 DEF ClassInv, C!TypeOK
    <3> QED BY <1>1, <1>11, <2>6, <3>2, <3>3 DEF ClassInv, C!TypeOK
  <2>9. SaidIsLast'
    BY <2>2, <2>7 DEF BatchSays, ClassInv, SaidIsLast
  <2>10. CarriedAlike'
    <3>1. ASSUME early = {}, NEW i \in Jobs, NEW s \in Tests, NEW t \in Tests
          PROVE  CarriedLast(i, s)' = CarriedLast(i, t)'
      <4>1. CarriedLast(i, s) = CarriedLast(i, t) /\ CarriedLast(j, s) = CarriedLast(j, t)
        BY <3>1 DEF ClassInv, CarriedAlike
      <4>2. s \in T <=> t \in T
        BY <1>2, <1>10, <4>1
      <4> QED BY <2>2, <2>3, <4>1, <4>2 DEF BatchSays
    <3> QED BY <1>1, <3>1 DEF CarriedAlike
  <2>11. SaidAlike'
    <3>1. ASSUME early = {}, NEW i \in Jobs, NEW s \in Tests, NEW t \in Tests, NEW b \in Builds
          PROVE  said'[i][<<s, b>>] = said'[i][<<t, b>>]
      <4>1. said[i][<<s, b>>] = said[i][<<t, b>>] /\ CarriedLast(j, s) = CarriedLast(j, t)
        BY <3>1 DEF ClassInv, CarriedAlike, SaidAlike
      <4>2. s \in T <=> t \in T
        BY <1>2, <1>10, <4>1
      <4>3. \A u \in Tests : /\ <<u, b>> \in C!Failures /\ (<<u, b>> \in T \X Builds <=> u \in T)
                             /\ <<u, b>>[1] = u
        BY DEF C!Failures
      <4>4. \A u \in Tests : said'[i][<<u, b>>] = IF i = j /\ u \in T THEN v[u] ELSE said[i][<<u, b>>]
        BY <2>7, <4>3
      <4> QED BY <2>3, <4>1, <4>2, <4>4
    <3> QED BY <1>1, <3>1 DEF SaidAlike
  <2>12. \A i \in Jobs : \A f \in C!Failures : said[i][f] # C!None => said'[i][f] # C!None
    <3>1. \A f \in T \X Builds : v[f[1]] \in Classes
      BY <1>3
    <3> QED BY <1>10, <2>7, <3>1
  <2>13. HistoryAnswers' /\ ResultAnswers'
    BY <1>1, <1>9, <2>12 DEF ClassInv, HistoryAnswers, ResultAnswers, C!Recorded
  <2>14. ShownAlike' /\ RecordedLate'
    BY <1>1, <1>9 DEF ClassInv, ShownAlike, RecordedLate, C!Recorded
  <2>15. RequestsFit' /\ RequestsReach'
    BY <1>1, <2>12, RequestsStay
  <2> QED BY <2>2, <2>8, <2>9, <2>10, <2>11, <2>13, <2>14, <2>15 DEF BatchSays, ClassInv
<1>12. CASE rows' = rows /\ said' = said
  <2> HIDE DEF T, v, fs, list, told
  <2>1. C!TypeOK'
    <3>1. phase' \in [Jobs -> {"new", "submitted", "analyzing", "saving", "carried", "completed", "over"}]
      BY <1>1 DEF ClassInv, C!TypeOK
    <3> QED BY <1>1, <1>12, <3>1 DEF ClassInv, C!TypeOK
  <2>2. /\ StatedIsVisible'
        /\ \A i, f : SaidLast(i, f)' = SaidLast(i, f)
        /\ \A i, t : CarriedLast(i, t)' = CarriedLast(i, t)
    BY <1>12, RowsStay DEF ClassInv
  <2>3. SaidIsLast' /\ CarriedAlike' /\ SaidAlike'
    BY <1>1, <1>12, <2>2, NothingIsSaid
  <2>4. HistoryAnswers' /\ ResultAnswers' /\ ShownAlike' /\ RecordedLate'
    BY <1>1, <1>9, <1>12 DEF ClassInv, HistoryAnswers, ResultAnswers, ShownAlike, RecordedLate,
                             C!Recorded
  <2>5. RequestsFit' /\ RequestsReach'
    BY <1>1, <1>12, RequestsStay
  <2> QED BY <1>12, <2>1, <2>2, <2>3, <2>4, <2>5 DEF ClassInv
<1> QED BY <1>1, <1>11, <1>12

(* The analysis' own classifications become the result.                    *)
LEMMA Completing ==
    ASSUME ClassInv, NEW j \in Jobs, C!Complete(j)
    PROVE  ClassInv'
<1> DEFINE all == C!AllSay(answer[j])
<1>1. /\ rows' = rows /\ said' = said /\ early' = early /\ review' = review /\ history' = history
      /\ answer' = answer /\ reanalysed' = reanalysed /\ phase[j] = "carried"
      /\ phase' = [phase EXCEPT ![j] = "completed"] /\ shown' = [shown EXCEPT ![j] = all]
  BY DEF C!Complete, C!tables, C!ghosts
<1>2. all \in [C!Failures -> C!Analyses] /\ \A f \in C!Failures : all[f].class = answer[j]
  <2>1. answer[j] \in Classes \union {C!None}
    BY DEF ClassInv, C!TypeOK
  <2> QED BY <2>1 DEF C!AllSay, C!Analyses
<1> HIDE DEF all
<1>3. C!TypeOK' /\ rows' \in Seq(RowType)
  <2>1. phase' \in [Jobs -> {"new", "submitted", "analyzing", "saving", "carried", "completed", "over"}]
    BY <1>1 DEF ClassInv, C!TypeOK
  <2>2. shown' \in [Jobs -> [C!Failures -> C!Analyses]]
    BY <1>1, <1>2 DEF ClassInv, C!TypeOK
  <2> QED BY <1>1, <2>1, <2>2 DEF ClassInv, C!TypeOK
<1>4. /\ StatedIsVisible'
      /\ \A i, f : SaidLast(i, f)' = SaidLast(i, f)
      /\ \A i, t : CarriedLast(i, t)' = CarriedLast(i, t)
  BY <1>1, RowsStay DEF ClassInv
<1>5. SaidIsLast' /\ CarriedAlike' /\ SaidAlike'
  BY <1>1, <1>4, NothingIsSaid
<1>6. \A i \in Jobs : /\ phase'[i] = IF i = j THEN "completed" ELSE phase[i]
                      /\ shown'[i] = IF i = j THEN all ELSE shown[i]
  BY <1>1 DEF ClassInv, C!TypeOK
<1>7. ShownAlike'
  <2>1. \A u \in Tests, b \in Builds : <<u, b>> \in C!Failures
    BY DEF C!Failures
  <2>2. ASSUME early = {}, reanalysed = {}, NEW i \in Jobs, NEW s \in Tests, NEW t \in Tests,
               NEW b \in Builds
        PROVE  shown'[i][<<s, b>>].class = shown'[i][<<t, b>>].class
    <3>1. i # j => shown'[i] = shown[i]
      BY <1>6
    <3>2. shown[i][<<s, b>>].class = shown[i][<<t, b>>].class
      BY <2>2 DEF ClassInv, ShownAlike
    <3>3. shown'[j] = all /\ all[<<s, b>>].class = all[<<t, b>>].class
      BY <1>2, <1>6, <2>1
    <3> QED BY <3>1, <3>2, <3>3
  <2> QED BY <1>1, <2>2 DEF ShownAlike
<1>8. RecordedLate' /\ HistoryAnswers'
  BY <1>1, <1>6 DEF ClassInv, RecordedLate, HistoryAnswers, C!Recorded
<1>9. ResultAnswers'
  BY <1>1, <1>2, <1>6 DEF ClassInv, ResultAnswers
<1>10. RequestsFit' /\ RequestsReach'
  BY <1>1, RequestsStay
<1> QED BY <1>3, <1>4, <1>5, <1>7, <1>8, <1>9, <1>10 DEF ClassInv

(* What was stated is visible already, so that nothing else shows up.      *)
LEMMA RevealingSaysNothing ==
    ASSUME rows \in Seq(RowType), StatedIsVisible, NEW j,
           rows' = [k \in DOMAIN rows |->
                      IF rows[k].job = j THEN [rows[k] EXCEPT !.visible = TRUE] ELSE rows[k]]
    PROVE  /\ rows' \in Seq(RowType) /\ StatedIsVisible'
           /\ \A i, f : SaidLast(i, f)' = SaidLast(i, f)
           /\ \A i, t : CarriedLast(i, t)' = CarriedLast(i, t)
<1>1. DOMAIN rows = 1 .. Len(rows) /\ Len(rows) \in Nat
  OBVIOUS
<1>2. DOMAIN rows' = DOMAIN rows
  OBVIOUS
<1>3. ASSUME NEW k \in DOMAIN rows
      PROVE  /\ rows'[k] \in RowType
             /\ rows'[k].job = rows[k].job /\ rows'[k].failure = rows[k].failure
             /\ rows'[k].class = rows[k].class /\ rows'[k].by = rows[k].by
             /\ rows'[k].visible = TRUE \/ rows'[k].visible = rows[k].visible
  <2>1. rows[k] \in RowType
    OBVIOUS
  <2>2. rows'[k] = rows[k] \/ rows'[k] = [rows[k] EXCEPT !.visible = TRUE]
    OBVIOUS
  <2> QED BY <2>1, <2>2 DEF RowType
<1>4. rows' \in Seq(RowType)
  <2>1. PICK n \in Nat : DOMAIN rows = 1 .. n
    BY <1>1
  <2>2. rows' = [k \in 1 .. n |-> rows'[k]]
    BY <2>1
  <2>3. rows' \in [1 .. n -> RowType]
    BY <1>3, <2>1, <2>2
  <2> QED BY <2>3
<1>5. \A k \in DOMAIN rows : rows[k].class # C!None => rows'[k].visible /\ rows[k].visible
  BY <1>3 DEF StatedIsVisible
<1>6. StatedIsVisible'
  BY <1>2, <1>3, <1>5 DEF StatedIsVisible
<1>7. ASSUME NEW ks, ks \subseteq DOMAIN rows PROVE LastClass(ks)' = LastClass(ks)
  <2>1. PICK m : m = C!Latest(ks)
    OBVIOUS
  <2>2. ks # {} => m \in DOMAIN rows
    BY <1>1, <1>7, <2>1, LatestIsGreatest
  <2>3. LastClass(ks)' = (IF ks = {} THEN C!None ELSE rows'[m].class)
    BY <2>1 DEF LastClass, C!Latest
  <2>4. LastClass(ks) = (IF ks = {} THEN C!None ELSE rows[m].class)
    BY <2>1 DEF LastClass
  <2> QED BY <1>3, <2>2, <2>3, <2>4
<1>8. ASSUME NEW i, NEW f PROVE SaidLast(i, f)' = SaidLast(i, f)
  <2>1. PICK ks : ks = Stated(i, f)
    OBVIOUS
  <2>2. Stated(i, f)' = ks /\ ks \subseteq DOMAIN rows
    BY <1>2, <1>3, <1>5, <2>1 DEF Stated, C!Classified, C!RowsOf
  <2>3. SaidLast(i, f)' = LastClass(ks)'
    BY <2>2 DEF SaidLast, LastClass, C!Latest
  <2> QED BY <1>7, <2>1, <2>2, <2>3 DEF SaidLast
<1>9. ASSUME NEW i, NEW t PROVE CarriedLast(i, t)' = CarriedLast(i, t)
  <2>1. PICK ks : ks = C!Precedents(i, t)
    OBVIOUS
  <2>2. C!Precedents(i, t)' = ks /\ ks \subseteq DOMAIN rows
    BY <1>2, <1>3, <1>5, <2>1 DEF C!Precedents
  <2>3. CarriedLast(i, t)' = LastClass(ks)'
    BY <2>2 DEF CarriedLast, LastClass, C!Latest
  <2> QED BY <1>7, <2>1, <2>2, <2>3 DEF CarriedLast
<1> QED BY <1>4, <1>6, <1>8, <1>9

LEMMA Revealing ==
    ASSUME ClassInv, NEW j \in Jobs, C!Reveal(j)
    PROVE  ClassInv'
<1>1. /\ said' = said /\ early' = early /\ review' = review /\ history' = history
      /\ shown' = shown /\ answer' = answer /\ reanalysed' = reanalysed /\ phase[j] = "completed"
      /\ phase' = [phase EXCEPT ![j] = "over"]
  BY DEF C!Reveal, C!ghosts
<1>2. /\ rows' \in Seq(RowType) /\ StatedIsVisible'
      /\ \A i, f : SaidLast(i, f)' = SaidLast(i, f)
      /\ \A i, t : CarriedLast(i, t)' = CarriedLast(i, t)
  <2>1. rows \in Seq(RowType) /\ StatedIsVisible
    BY DEF ClassInv
  <2>2. CASE rows' = rows
    BY <2>1, <2>2, RowsStay
  <2>3. CASE rows' = [k \in DOMAIN rows |->
                 IF rows[k].job = j THEN [rows[k] EXCEPT !.visible = TRUE] ELSE rows[k]]
    BY <2>1, <2>3, RevealingSaysNothing
  <2> QED BY <2>2, <2>3 DEF C!Reveal
<1>3. C!TypeOK'
  <2>1. phase' \in [Jobs -> {"new", "submitted", "analyzing", "saving", "carried", "completed", "over"}]
    BY <1>1 DEF ClassInv, C!TypeOK
  <2>2. \A k \in DOMAIN rows' : rows'[k] \in RowType
    BY <1>2
  <2>3. \A k \in DOMAIN rows' : rows'[k].job \in Jobs /\ rows'[k].failure \in C!Failures
    BY <2>2 DEF RowType
  <2> QED BY <1>1, <2>1, <2>3 DEF ClassInv, C!TypeOK
<1>4. SaidIsLast' /\ CarriedAlike' /\ SaidAlike'
  BY <1>1, <1>2, NothingIsSaid
<1>5. \A i \in Jobs : phase'[i] = IF i = j THEN "over" ELSE phase[i]
  BY <1>1 DEF ClassInv, C!TypeOK
<1>6. ShownAlike' /\ RecordedLate' /\ HistoryAnswers' /\ ResultAnswers'
  BY <1>1, <1>5 DEF ClassInv, ShownAlike, RecordedLate, HistoryAnswers, ResultAnswers, C!Recorded
<1>7. RequestsFit' /\ RequestsReach'
  BY <1>1, RequestsStay
<1> QED BY <1>2, <1>3, <1>4, <1>6, <1>7 DEF ClassInv

(* A failure is analysed again.                                            *)
LEMMA Reanalyzing ==
    ASSUME ClassInv, NEW j \in Jobs, NEW f \in C!Failures, NEW c \in Classes, C!Reanalyze(j, f, c)
    PROVE  ClassInv'
<1>1. /\ rows' = rows /\ said' = said /\ early' = early /\ review' = review /\ history' = history
      /\ answer' = answer /\ phase' = phase /\ reanalysed' = reanalysed \union {<<j, f>>}
      /\ shown' = [shown EXCEPT ![j][f] = [class |-> c, pattern |-> C!None]]
  BY DEF C!Reanalyze, C!tables
<1>2. C!TypeOK' /\ rows' \in Seq(RowType)
  <2>1. [class |-> c, pattern |-> C!None] \in C!Analyses
    BY DEF C!Analyses
  <2>2. shown' \in [Jobs -> [C!Failures -> C!Analyses]]
    BY <1>1, <2>1 DEF ClassInv, C!TypeOK
  <2>3. reanalysed' \subseteq Jobs \X C!Failures
    BY <1>1 DEF ClassInv, C!TypeOK
  <2> QED BY <1>1, <2>2, <2>3 DEF ClassInv, C!TypeOK
<1>3. /\ StatedIsVisible'
      /\ \A i, g : SaidLast(i, g)' = SaidLast(i, g)
      /\ \A i, t : CarriedLast(i, t)' = CarriedLast(i, t)
  BY <1>1, RowsStay DEF ClassInv
<1>4. SaidIsLast' /\ CarriedAlike' /\ SaidAlike'
  BY <1>1, <1>3, NothingIsSaid
<1>5. \A i \in Jobs : \A g \in C!Failures : i # j \/ g # f => shown'[i][g] = shown[i][g]
  BY <1>1 DEF ClassInv, C!TypeOK
<1>6. ShownAlike'
  BY <1>1 DEF ShownAlike
<1>7. RecordedLate' /\ HistoryAnswers'
  BY <1>1 DEF ClassInv, RecordedLate, HistoryAnswers, C!Recorded
<1>8. ResultAnswers'
  <2>1. ASSUME NEW i \in Jobs, phase[i] \in {"completed", "over"}, i \notin early, NEW g \in C!Failures,
               said[i][g] = C!None, <<i, g>> \notin reanalysed'
        PROVE  shown'[i][g].class = answer[i]
    <3>1. <<i, g>> \notin reanalysed /\ (i # j \/ g # f)
      BY <1>1, <2>1
    <3> QED BY <1>5, <2>1, <3>1 DEF ClassInv, ResultAnswers
  <2> QED BY <1>1, <2>1 DEF ResultAnswers
<1>9. RequestsFit' /\ RequestsReach'
  BY <1>1, RequestsStay
<1> QED BY <1>2, <1>3, <1>4, <1>6, <1>7, <1>8, <1>9 DEF ClassInv

(* A request is validated.                                                 *)
LEMMA Validating ==
    ASSUME ClassInv, NEW r \in OverrideRequests, NEW j \in Jobs, NEW t \in Tests,
           NEW scope \in Builds \union {0}, NEW field, NEW value,
           (field = "class" /\ value \in Classes) \/ (field = "pattern" /\ value \in Patterns),
           C!Validate(r, j, t, scope, field, value)
    PROVE  ClassInv'
<1> DEFINE q == [step |-> "valid", job |-> j, tests |-> {t}, scope |-> scope, field |-> field,
                 value |-> value]
<1>1. /\ rows' = rows /\ said' = said /\ early' = early /\ history' = history /\ shown' = shown
      /\ answer' = answer /\ phase' = phase /\ reanalysed' = reanalysed
      /\ review' = [review EXCEPT ![r] = q]
  BY DEF C!Validate, C!tables, C!ghosts
<1>2. q \in RequestType /\ Fits(q) /\ q.step = "valid"
  BY DEF RequestType, Fits
<1> HIDE DEF q
<1>3. C!TypeOK' /\ rows' \in Seq(RowType)
  BY <1>1 DEF ClassInv, C!TypeOK
<1>4. /\ StatedIsVisible'
      /\ \A i, g : SaidLast(i, g)' = SaidLast(i, g)
      /\ \A i, u : CarriedLast(i, u)' = CarriedLast(i, u)
  BY <1>1, RowsStay DEF ClassInv
<1>5. SaidIsLast' /\ CarriedAlike' /\ SaidAlike'
  BY <1>1, <1>4, NothingIsSaid
<1>6. ShownAlike' /\ RecordedLate' /\ HistoryAnswers' /\ ResultAnswers'
  BY <1>1 DEF ClassInv, ShownAlike, RecordedLate, HistoryAnswers, ResultAnswers, C!Recorded
<1>7. /\ DOMAIN review' = OverrideRequests /\ review'[r] = q
      /\ \A x \in OverrideRequests : x # r => review'[x] = review[x]
  BY <1>1 DEF ClassInv, RequestsFit
<1>8. RequestsFit'
  BY <1>2, <1>7 DEF ClassInv, RequestsFit, Fits, RequestType, C!Idle, C!Done
<1>9. RequestsReach'
  BY <1>1, <1>2, <1>7 DEF ClassInv, RequestsReach, C!Scoped, C!InScope
<1> QED BY <1>3, <1>4, <1>5, <1>6, <1>8, <1>9 DEF ClassInv

(* What an override does, for the tests T and the builds B it reaches.     *)
Overrides(r, q, T, B) ==
    /\ T # {}
    /\ C!Recorded(q.job) => /\ T = Tests /\ B # {}
                            /\ \A f \in C!Failures : f \in T \X B <=> f \in C!Scoped(T, q.scope)
    /\ review' = [review EXCEPT ![r].step = "committed", ![r].tests = T]
    /\ history' = IF ~C!Recorded(q.job) THEN history
                  ELSE [history EXCEPT ![q.job] = [f \in C!Failures |->
                          IF f \in C!Scoped(T, q.scope) THEN C!With(q.field, @[f], q.value) ELSE @[f]]]
    /\ rows' = rows \o C!SetToSeq(Batch(q.job, T, B,
                          [t \in T |-> IF q.field = "class" THEN q.value ELSE C!None],
                          IF q.field = "class" THEN C!None ELSE q.value))
    /\ said' = IF q.field # "class" THEN said
               ELSE [said EXCEPT ![q.job] = [f \in C!Failures |->
                       IF f \in T \X B THEN q.value ELSE @[f]]]
    /\ early' = IF C!Recorded(q.job) THEN early ELSE early \union {q.job}
    /\ phase' = phase /\ answer' = answer /\ shown' = shown /\ reanalysed' = reanalysed

LEMMA OverrideReaches ==
    ASSUME C!TestsAssumption, ClassInv, NEW r \in OverrideRequests, review[r].step = "valid",
           C!OverrideField(r), NEW q, q = review[r]
    PROVE  /\ q \in RequestType /\ Fits(q)
           /\ \E T \in SUBSET Tests : \E B \in SUBSET Builds : Overrides(r, q, T, B)
<1>1. q \in RequestType /\ Fits(q)
  BY DEF ClassInv, RequestsFit, C!Idle, C!Done
<1> DEFINE T == UNION {C!GroupOf(q.job, t) : t \in q.tests}
           B == C!RowBuilds(q.job, q.scope)
           e == C!With(q.field, C!NoAnalysis, q.value)
<1>2. q.tests \subseteq Tests /\ q.tests # {} /\ q.scope \in Builds \union {0} /\ Builds # {}
  BY <1>1 DEF RequestType, C!TestsAssumption
<1>3. T \subseteq Tests /\ T # {} /\ (C!Recorded(q.job) => T = Tests)
  BY <1>2 DEF C!GroupOf
<1>4. B \subseteq Builds /\ (C!Recorded(q.job) => B # {})
  BY <1>2 DEF C!RowBuilds
<1>5. C!Recorded(q.job) => \A f \in C!Failures : f \in T \X B <=> f \in C!Scoped(T, q.scope)
  BY <1>2 DEF C!RowBuilds, C!Scoped, C!InScope, C!Failures
<1>6. /\ e.class = (IF q.field = "class" THEN q.value ELSE C!None)
      /\ e.pattern = (IF q.field = "class" THEN C!None ELSE q.value)
  BY DEF C!With, C!NoAnalysis
<1>7. {C!Row(q.job, f, e.class, e.pattern, "user", TRUE) : f \in T \X B}
        = Batch(q.job, T, B, [t \in T |-> IF q.field = "class" THEN q.value ELSE C!None],
                IF q.field = "class" THEN C!None ELSE q.value)
  <2> HIDE DEF T, B, e
  <2> QED BY <1>6 DEF Batch
<1> HIDE DEF e
<1>8. Overrides(r, q, T, B)
  <2>1. /\ review' = [review EXCEPT ![r].step = "committed", ![r].tests = T]
        /\ history' = IF ~C!Recorded(q.job) THEN history
                      ELSE [history EXCEPT ![q.job] = [f \in C!Failures |->
                          IF f \in C!Scoped(T, q.scope) THEN C!With(q.field, @[f], q.value) ELSE @[f]]]
        /\ rows' = rows \o C!SetToSeq({C!Row(q.job, f, e.class, e.pattern, "user", TRUE) : f \in T \X B})
        /\ said' = IF q.field # "class" THEN said
                   ELSE [said EXCEPT ![q.job] = [f \in C!Failures |->
                           IF f \in T \X B THEN q.value ELSE @[f]]]
        /\ early' = IF C!Recorded(q.job) THEN early ELSE early \union {q.job}
        /\ phase' = phase /\ answer' = answer /\ shown' = shown /\ reanalysed' = reanalysed
    BY DEF C!OverrideField, e
  <2> HIDE DEF T, B
  <2> QED BY <1>3, <1>4, <1>5, <1>7, <2>1 DEF Overrides
<1> HIDE DEF T, B
<1> QED BY <1>1, <1>3, <1>4, <1>8

OverrideTells(q, T, B) ==
    /\ rows' \in Seq(RowType) /\ StatedIsVisible'
    /\ \A i \in Jobs : \A f \in C!Failures : SaidLast(i, f)' =
         IF q.field = "class" /\ i = q.job /\ f \in T \X B THEN q.value ELSE SaidLast(i, f)
    /\ \A i \in Jobs : \A t \in Tests : CarriedLast(i, t)' =
         IF q.field = "class" /\ i # q.job /\ t \in T /\ B # {} THEN q.value ELSE CarriedLast(i, t)

LEMMA OverrideSays ==
    ASSUME C!TestsAssumption, ClassInv, NEW r, NEW q, q \in RequestType, Fits(q),
           NEW T \in SUBSET Tests, NEW B \in SUBSET Builds, Overrides(r, q, T, B)
    PROVE  OverrideTells(q, T, B)
<1> DEFINE v == [t \in T |-> IF q.field = "class" THEN q.value ELSE C!None]
           p == IF q.field = "class" THEN C!None ELSE q.value
           new == C!SetToSeq(Batch(q.job, T, B, v, p))
<1>1. q.job \in Jobs /\ rows \in Seq(RowType) /\ StatedIsVisible
  BY DEF ClassInv, RequestType
<1>2. p \in Patterns \union {C!None}
  BY DEF Fits
<1>3. rows' = rows \o new
  BY DEF Overrides
<1>4. CASE q.field = "class"
  <2>1. v \in [T -> Classes] /\ \A t \in T : v[t] = q.value
    BY <1>4 DEF Fits
  <2> HIDE DEF v, p
  <2>2. BatchSays(q.job, T, B, v)
    BY <1>1, <1>2, <1>3, <2>1, BatchIsSaid
  <2>3. \A f \in T \X B : v[f[1]] = q.value
    BY <2>1
  <2> QED BY <1>4, <2>1, <2>2, <2>3 DEF BatchSays, OverrideTells
<1>5. CASE q.field # "class"
  <2>1. v \in [T -> Classes \union {C!None}] /\ \A t \in T : v[t] = C!None
    BY <1>5
  <2> HIDE DEF v, p
  <2>2. IsBatch(new, q.job, T, B, v, p)
    BY <1>1, <1>2, <2>1, BatchIsListed
  <2>3. /\ new \in Seq(RowType)
        /\ \A i \in 1 .. Len(new) : \E f \in T \X B : new[i] = C!Row(q.job, f, v[f[1]], p, "user", TRUE)
    BY <2>2 DEF IsBatch
  <2>4. \A f \in T \X B : C!Row(q.job, f, v[f[1]], p, "user", TRUE).class = C!None
    BY <2>1 DEF C!Row
  <2> HIDE DEF new
  <2>5. \A i \in 1 .. Len(new) : new[i].class = C!None
    BY <2>3, <2>4
  <2>6. /\ rows' \in Seq(RowType) /\ StatedIsVisible'
        /\ \A i, f : SaidLast(i, f)' = SaidLast(i, f)
        /\ \A i, t : CarriedLast(i, t)' = CarriedLast(i, t)
    BY <1>1, <1>3, <2>3, <2>5, PatternsSayNothing
  <2> QED BY <1>5, <2>6 DEF OverrideTells
<1> QED BY <1>4, <1>5

(* An analysis with one of its fields overridden.                          *)
LEMMA OverriddenAnalysis ==
    ASSUME NEW q, Fits(q), NEW a \in C!Analyses
    PROVE  /\ C!With(q.field, a, q.value) \in C!Analyses
           /\ C!With(q.field, a, q.value).class = IF q.field = "class" THEN q.value ELSE a.class
BY DEF Fits, C!With, C!Analyses

LEMMA Overriding ==
    ASSUME C!TestsAssumption, ClassInv, NEW r \in OverrideRequests, NEW q, q = review[r],
           q \in RequestType, Fits(q), NEW T \in SUBSET Tests, NEW B \in SUBSET Builds,
           Overrides(r, q, T, B)
    PROVE  ClassInv'
<1>1. /\ phase' = phase /\ answer' = answer /\ shown' = shown /\ reanalysed' = reanalysed
      /\ early' = IF C!Recorded(q.job) THEN early ELSE early \union {q.job}
      /\ review' = [review EXCEPT ![r].step = "committed", ![r].tests = T]
  BY DEF Overrides
<1>2. C!None \notin Classes /\ q.job \in Jobs /\ (q.field = "class" => q.value # C!None)
  BY DEF C!TestsAssumption, RequestType, Fits
<1>3. /\ T # {}
      /\ C!Recorded(q.job) => /\ T = Tests /\ B # {}
                              /\ \A f \in C!Failures : f \in T \X B <=> f \in C!Scoped(T, q.scope)
  BY DEF Overrides
<1>0. OverrideTells(q, T, B)
  BY OverrideSays
<1>4. /\ rows' \in Seq(RowType) /\ StatedIsVisible'
      /\ \A i \in Jobs : \A f \in C!Failures : SaidLast(i, f)' =
           IF q.field = "class" /\ i = q.job /\ f \in T \X B THEN q.value ELSE SaidLast(i, f)
      /\ \A i \in Jobs : \A t \in Tests : CarriedLast(i, t)' =
           IF q.field = "class" /\ i # q.job /\ t \in T /\ B # {} THEN q.value ELSE CarriedLast(i, t)
  BY <1>0 DEF OverrideTells
<1>5. /\ said' \in [Jobs -> [C!Failures -> Classes \union {C!None}]]
      /\ \A i \in Jobs : \A f \in C!Failures : said'[i][f] =
           IF q.field = "class" /\ i = q.job /\ f \in T \X B THEN q.value ELSE said[i][f]
  <2>1. CASE q.field # "class"
    BY <2>1 DEF Overrides, ClassInv, C!TypeOK
  <2>2. CASE q.field = "class"
    <3>1. PICK s : s = [f \in C!Failures |-> IF f \in T \X B THEN q.value ELSE said[q.job][f]]
      OBVIOUS
    <3>2. said' = [said EXCEPT ![q.job] = s]
      BY <2>2, <3>1 DEF Overrides
    <3>3. s \in [C!Failures -> Classes \union {C!None}]
      BY <1>2, <2>2, <3>1 DEF ClassInv, C!TypeOK, Fits
    <3> QED BY <1>2, <2>2, <3>1, <3>2, <3>3 DEF ClassInv, C!TypeOK
  <2> QED BY <2>1, <2>2
<1>6. /\ history' \in [Jobs -> {<<>>} \union [C!Failures -> C!Analyses]]
      /\ \A i \in Jobs : C!Recorded(i)' => C!Recorded(i)
      /\ \A i \in Jobs : i # q.job => history'[i] = history[i]
      /\ C!Recorded(q.job) => \A f \in C!Failures : history'[q.job][f].class =
           IF q.field = "class" /\ f \in C!Scoped(T, q.scope) THEN q.value ELSE history[q.job][f].class
  <2>0. history \in [Jobs -> {<<>>} \union [C!Failures -> C!Analyses]]
    BY DEF ClassInv, C!TypeOK
  <2>1. CASE ~C!Recorded(q.job)
    BY <2>0, <2>1 DEF Overrides, C!Recorded
  <2>2. CASE C!Recorded(q.job)
    <3>1. PICK h : h = [f \in C!Failures |-> IF f \in C!Scoped(T, q.scope)
                           THEN C!With(q.field, history[q.job][f], q.value) ELSE history[q.job][f]]
      OBVIOUS
    <3>2. history' = [history EXCEPT ![q.job] = h]
      BY <2>2, <3>1 DEF Overrides
    <3>3. history[q.job] \in [C!Failures -> C!Analyses]
      BY <1>2, <2>0, <2>2 DEF C!Recorded
    <3>4. ASSUME NEW f \in C!Failures
          PROVE  /\ h[f] \in C!Analyses
                 /\ h[f].class = IF q.field = "class" /\ f \in C!Scoped(T, q.scope) THEN q.value
                                 ELSE history[q.job][f].class
      <4>1. history[q.job][f] \in C!Analyses
        BY <3>3
      <4>2. h[f] = IF f \in C!Scoped(T, q.scope) THEN C!With(q.field, history[q.job][f], q.value)
                   ELSE history[q.job][f]
        BY <3>1
      <4> QED BY <4>1, <4>2, OverriddenAnalysis
    <3>5. h \in [C!Failures -> C!Analyses]
      BY <3>1, <3>4
    <3>6. history'[q.job] = h /\ \A i \in Jobs : i # q.job => history'[i] = history[i]
      BY <1>2, <2>0, <3>2
    <3>7. history' \in [Jobs -> {<<>>} \union [C!Failures -> C!Analyses]]
      BY <1>2, <2>0, <3>2, <3>5
    <3> QED BY <2>2, <3>4, <3>6, <3>7 DEF C!Recorded
  <2> QED BY <2>1, <2>2
<1>7. C!TypeOK'
  <2>1. \A k \in DOMAIN rows' : rows'[k] \in RowType
    BY <1>4
  <2>2. \A k \in DOMAIN rows' : rows'[k].job \in Jobs /\ rows'[k].failure \in C!Failures
    BY <2>1 DEF RowType
  <2>3. early' \subseteq Jobs
    BY <1>1, <1>2 DEF ClassInv, C!TypeOK
  <2> QED BY <1>1, <1>5, <1>6, <2>2, <2>3 DEF ClassInv, C!TypeOK
<1>8. SaidIsLast'
  BY <1>4, <1>5 DEF ClassInv, SaidIsLast
<1>9. early \subseteq early' /\ (early' = {} => early = {} /\ C!Recorded(q.job))
      /\ (q.job \notin early' => C!Recorded(q.job))
  BY <1>1
<1>10. CarriedAlike'
  BY <1>3, <1>4, <1>9 DEF ClassInv, CarriedAlike
<1>11. SaidAlike'
  <2>1. ASSUME early' = {}, NEW i \in Jobs, NEW s \in Tests, NEW t \in Tests, NEW b \in Builds
        PROVE  said'[i][<<s, b>>] = said'[i][<<t, b>>]
    <3>1. said[i][<<s, b>>] = said[i][<<t, b>>]
      BY <1>9, <2>1 DEF ClassInv, SaidAlike
    <3>2. \A u \in Tests : <<u, b>> \in C!Failures /\ (<<u, b>> \in T \X B <=> b \in B)
      BY <1>3, <1>9, <2>1 DEF C!Failures
    <3>3. \A u \in Tests : said'[i][<<u, b>>] =
             IF q.field = "class" /\ i = q.job /\ b \in B THEN q.value ELSE said[i][<<u, b>>]
      BY <1>5, <3>2
    <3> QED BY <3>1, <3>3
  <2> QED BY <2>1 DEF SaidAlike
<1>12. ShownAlike' /\ RecordedLate'
  BY <1>1, <1>6, <1>9 DEF ClassInv, ShownAlike, RecordedLate
<1>13. \A i \in Jobs : \A f \in C!Failures : said[i][f] # C!None => said'[i][f] # C!None
  BY <1>2, <1>5
<1>14. ResultAnswers'
  BY <1>1, <1>9, <1>13 DEF ClassInv, ResultAnswers
<1>15. HistoryAnswers'
  <2>1. ASSUME NEW i \in Jobs, C!Recorded(i)', NEW f \in C!Failures, said'[i][f] = C!None
        PROVE  history'[i][f].class = answer'[i]
    <3>1. C!Recorded(i) /\ said[i][f] = C!None
      BY <1>6, <1>13, <2>1
    <3>2. history[i][f].class = answer[i]
      BY <2>1, <3>1 DEF ClassInv, HistoryAnswers
    <3>3. i = q.job /\ q.field = "class" => f \notin C!Scoped(T, q.scope)
      BY <1>2, <1>3, <1>5, <2>1, <3>1
    <3>4. i = q.job => history'[i][f].class = history[i][f].class
      BY <1>6, <2>1, <3>1, <3>3
    <3> QED BY <1>1, <1>6, <2>1, <3>2, <3>4
  <2> QED BY <2>1 DEF HistoryAnswers
<1>16. /\ DOMAIN review' = OverrideRequests
       /\ \A x \in OverrideRequests : x # r => review'[x] = review[x]
       /\ review'[r] = [q EXCEPT !.step = "committed", !.tests = T]
  BY <1>1 DEF ClassInv, RequestsFit
<1>17. /\ review'[r] \in RequestType /\ Fits(review'[r]) /\ review'[r].step = "committed"
       /\ review'[r].tests = T /\ review'[r].job = q.job /\ review'[r].scope = q.scope
       /\ review'[r].field = q.field
  <2>1. PICK w : w = [q EXCEPT !.step = "committed", !.tests = T]
    OBVIOUS
  <2>2. /\ w \in RequestType /\ Fits(w) /\ w.step = "committed" /\ w.tests = T /\ w.job = q.job
        /\ w.scope = q.scope /\ w.field = q.field
    BY <1>3, <2>1 DEF RequestType, Fits
  <2> QED BY <1>16, <2>1, <2>2
<1>18. RequestsFit'
  <2>1. \A x \in OverrideRequests : \/ review'[x] = C!Idle \/ review'[x] = C!Done
                                    \/ review'[x] \in RequestType /\ Fits(review'[x])
    BY <1>16, <1>17 DEF ClassInv, RequestsFit
  <2> QED BY <1>16, <2>1 DEF RequestsFit, Fits, RequestType, C!Idle, C!Done
<1>19. RequestsReach'
  <2>1. ASSUME NEW x \in OverrideRequests, x # r, review[x].step = "committed"
        PROVE  /\ early' = {} => review[x].tests = Tests
               /\ review[x].field = "class" /\ review[x].job \notin early' =>
                    \A f \in C!Failures : f \in C!Scoped(review[x].tests, review[x].scope) =>
                        said'[review[x].job][f] # C!None
    <3>1. review[x].job \in Jobs
      BY <2>1 DEF ClassInv, RequestsFit, RequestType, C!Idle, C!Done
    <3> QED BY <1>9, <1>13, <2>1, <3>1 DEF ClassInv, RequestsReach
  <2>2. /\ early' = {} => T = Tests
        /\ q.field = "class" /\ q.job \notin early' =>
             \A f \in C!Failures : f \in C!Scoped(T, q.scope) => said'[q.job][f] # C!None
    BY <1>2, <1>3, <1>5, <1>9
  <2>3. \A x \in OverrideRequests : review'[x].step = "committed" =>
           /\ early' = {} => review'[x].tests = Tests
           /\ review'[x].field = "class" /\ review'[x].job \notin early' =>
                \A f \in C!Failures : f \in C!Scoped(review'[x].tests, review'[x].scope) =>
                    said'[review'[x].job][f] # C!None
    <3>1. ASSUME NEW x \in OverrideRequests, review'[x].step = "committed"
          PROVE  /\ early' = {} => review'[x].tests = Tests
                 /\ review'[x].field = "class" /\ review'[x].job \notin early' =>
                      \A f \in C!Failures : f \in C!Scoped(review'[x].tests, review'[x].scope) =>
                          said'[review'[x].job][f] # C!None
      <4>1. CASE x = r
        BY <1>17, <2>2, <4>1
      <4>2. CASE x # r
        <5>1. review'[x] = review[x]
          BY <1>16, <4>2
        <5> QED BY <2>1, <3>1, <4>2, <5>1
      <4> QED BY <4>1, <4>2
    <3> QED BY <3>1
  <2> QED BY <2>3 DEF RequestsReach, C!Scoped, C!InScope, C!Failures
<1> QED BY <1>4, <1>7, <1>8, <1>10, <1>11, <1>12, <1>14, <1>15, <1>18, <1>19 DEF ClassInv

(* The result is patched, or not.                                          *)
LEMMA Patching ==
    ASSUME ClassInv, NEW r \in OverrideRequests, review[r].step = "committed", C!PatchResult(r)
    PROVE  ClassInv'
<1>1. PICK q : q = review[r]
  OBVIOUS
<1>2. q \in RequestType /\ Fits(q) /\ q.job \in Jobs /\ q.step = "committed"
  BY <1>1 DEF ClassInv, RequestsFit, RequestType, C!Idle, C!Done
<1>3. PICK w : w = C!Patched(q)
  OBVIOUS
<1>4. /\ rows' = rows /\ said' = said /\ early' = early /\ history' = history
      /\ answer' = answer /\ phase' = phase /\ reanalysed' = reanalysed
      /\ review' = [review EXCEPT ![r] = C!Done]
      /\ shown' = shown \/ shown' = [shown EXCEPT ![q.job] = w]
  BY <1>1, <1>3 DEF C!PatchResult, C!tables, C!ghosts
<1>5. /\ w \in [C!Failures -> C!Analyses]
      /\ \A f \in C!Failures : w[f].class =
           IF q.field = "class" /\ f \in C!Scoped(q.tests, q.scope) THEN q.value
           ELSE shown[q.job][f].class
  <2>1. ASSUME NEW f \in C!Failures
        PROVE  /\ w[f] \in C!Analyses
               /\ w[f].class = IF q.field = "class" /\ f \in C!Scoped(q.tests, q.scope) THEN q.value
                               ELSE shown[q.job][f].class
    <3>1. shown[q.job][f] \in C!Analyses
      BY <1>2 DEF ClassInv, C!TypeOK
    <3>2. w[f] = IF f \in C!Scoped(q.tests, q.scope) THEN C!With(q.field, shown[q.job][f], q.value)
                 ELSE shown[q.job][f]
      BY <1>3 DEF C!Patched
    <3> QED BY <1>2, <3>1, <3>2, OverriddenAnalysis
  <2> QED BY <1>3, <2>1 DEF C!Patched
<1>6. C!TypeOK' /\ rows' \in Seq(RowType)
  <2>1. shown' \in [Jobs -> [C!Failures -> C!Analyses]]
    BY <1>2, <1>4, <1>5 DEF ClassInv, C!TypeOK
  <2> QED BY <1>4, <2>1 DEF ClassInv, C!TypeOK
<1>7. /\ StatedIsVisible'
      /\ \A i, g : SaidLast(i, g)' = SaidLast(i, g)
      /\ \A i, u : CarriedLast(i, u)' = CarriedLast(i, u)
  BY <1>4, RowsStay DEF ClassInv
<1>8. SaidIsLast' /\ CarriedAlike' /\ SaidAlike'
  BY <1>4, <1>7, NothingIsSaid
<1>9. /\ shown'[q.job] = shown[q.job] \/ shown'[q.job] = w
      /\ \A i \in Jobs : i # q.job => shown'[i] = shown[i]
  BY <1>2, <1>4 DEF ClassInv, C!TypeOK
<1>10. /\ early = {} => q.tests = Tests
       /\ q.field = "class" /\ q.job \notin early =>
            \A f \in C!Failures : f \in C!Scoped(q.tests, q.scope) => said[q.job][f] # C!None
  BY <1>1, <1>2 DEF ClassInv, RequestsReach
<1>11. ShownAlike'
  <2>1. ASSUME early = {}, reanalysed = {}, NEW i \in Jobs, NEW s \in Tests, NEW t \in Tests,
               NEW b \in Builds
        PROVE  shown'[i][<<s, b>>].class = shown'[i][<<t, b>>].class
    <3>1. shown[i][<<s, b>>].class = shown[i][<<t, b>>].class
      BY <2>1 DEF ClassInv, ShownAlike
    <3>2. \A u \in Tests : /\ <<u, b>> \in C!Failures
                           /\ <<u, b>> \in C!Scoped(q.tests, q.scope) <=> C!InScope(b, q.scope)
      BY <1>10, <2>1 DEF C!Failures, C!Scoped
    <3>3. \A u \in Tests : w[<<u, b>>].class =
             IF q.field = "class" /\ C!InScope(b, q.scope) THEN q.value ELSE shown[q.job][<<u, b>>].class
      BY <1>5, <3>2
    <3> QED BY <1>9, <3>1, <3>3
  <2> QED BY <1>4, <2>1 DEF ShownAlike
<1>12. RecordedLate' /\ HistoryAnswers'
  BY <1>4 DEF ClassInv, RecordedLate, HistoryAnswers, C!Recorded
<1>13. ResultAnswers'
  <2>1. ASSUME NEW i \in Jobs, phase[i] \in {"completed", "over"}, i \notin early, NEW g \in C!Failures,
               said[i][g] = C!None, <<i, g>> \notin reanalysed
        PROVE  shown'[i][g].class = answer[i]
    <3>1. shown[i][g].class = answer[i]
      BY <2>1 DEF ClassInv, ResultAnswers
    <3> QED BY <1>5, <1>9, <1>10, <2>1, <3>1
  <2> QED BY <1>4, <2>1 DEF ResultAnswers
<1>14. /\ DOMAIN review' = OverrideRequests /\ review'[r] = C!Done
       /\ \A x \in OverrideRequests : x # r => review'[x] = review[x]
  BY <1>4 DEF ClassInv, RequestsFit
<1>15. RequestsFit'
  BY <1>14 DEF ClassInv, RequestsFit, Fits, RequestType, C!Idle, C!Done
<1>16. RequestsReach'
  <2>1. C!Done.step # "committed"
    BY DEF C!Done
  <2> QED BY <1>4, <1>14, <2>1 DEF ClassInv, RequestsReach, C!Scoped, C!InScope
<1> QED BY <1>6, <1>7, <1>8, <1>11, <1>12, <1>13, <1>15, <1>16 DEF ClassInv

----------------------------------------------------------------------------
LEMMA ClassInit ==
    ASSUME C!Init PROVE ClassInv
<1>1. rows = <<>> /\ rows \in Seq(RowType) /\ DOMAIN rows = {}
  BY DEF C!Init
<1>2. \A j, f : SaidLast(j, f) = C!None
  BY <1>1 DEF SaidLast, LastClass, Stated, C!Classified, C!RowsOf
<1>3. \A j, t : CarriedLast(j, t) = C!None
  BY <1>1 DEF CarriedLast, LastClass, C!Precedents
<1>4. \A j \in Jobs : phase[j] = "new" /\ history[j] = <<>> /\ answer[j] = C!None
  BY DEF C!Init
<1>5. \A j \in Jobs : \A f \in C!Failures : said[j][f] = C!None /\ shown[j][f] = C!NoAnalysis
  BY DEF C!Init
<1>6. C!TypeOK
  <2>1. C!NoAnalysis \in C!Analyses
    BY DEF C!NoAnalysis, C!Analyses
  <2>2. shown \in [Jobs -> [C!Failures -> C!Analyses]]
    BY <2>1 DEF C!Init
  <2>3. history \in [Jobs -> {<<>>} \union [C!Failures -> C!Analyses]]
    BY DEF C!Init
  <2>4. /\ phase \in [Jobs -> {"new", "submitted", "analyzing", "saving", "carried", "completed", "over"}]
        /\ answer \in [Jobs -> Classes \union {C!None}]
        /\ said \in [Jobs -> [C!Failures -> Classes \union {C!None}]]
        /\ reanalysed = {} /\ early = {}
    BY DEF C!Init
  <2> QED BY <1>1, <2>2, <2>3, <2>4 DEF C!TypeOK
<1>7. StatedIsVisible /\ SaidIsLast /\ CarriedAlike
  BY <1>1, <1>2, <1>3, <1>5 DEF StatedIsVisible, SaidIsLast, CarriedAlike
<1>8. SaidAlike /\ ShownAlike
  <2>1. \A u \in Tests, b \in Builds : <<u, b>> \in C!Failures
    BY DEF C!Failures
  <2> QED BY <1>5, <2>1 DEF SaidAlike, ShownAlike
<1>9. RecordedLate /\ HistoryAnswers /\ ResultAnswers
  BY <1>4 DEF RecordedLate, HistoryAnswers, ResultAnswers, C!Recorded
<1>10. RequestsFit /\ RequestsReach
  <2>1. DOMAIN review = OverrideRequests /\ \A r \in OverrideRequests : review[r] = C!Idle
    BY DEF C!Init
  <2> QED BY <2>1 DEF RequestsFit, RequestsReach, C!Idle
<1> QED BY <1>1, <1>6, <1>7, <1>8, <1>9, <1>10 DEF ClassInv

LEMMA ClassStutters ==
    ASSUME ClassInv, UNCHANGED classVars PROVE ClassInv'
<1>1. /\ rows' = rows /\ said' = said /\ early' = early /\ review' = review /\ history' = history
      /\ shown' = shown /\ answer' = answer /\ reanalysed' = reanalysed /\ phase' = phase
  BY DEF classVars
<1>2. C!TypeOK' /\ rows' \in Seq(RowType)
  BY <1>1 DEF ClassInv, C!TypeOK
<1>3. /\ StatedIsVisible'
      /\ \A i, g : SaidLast(i, g)' = SaidLast(i, g)
      /\ \A i, u : CarriedLast(i, u)' = CarriedLast(i, u)
  BY <1>1, RowsStay DEF ClassInv
<1>4. SaidIsLast' /\ CarriedAlike' /\ SaidAlike'
  BY <1>1, <1>3, NothingIsSaid
<1>5. ShownAlike' /\ RecordedLate' /\ HistoryAnswers' /\ ResultAnswers'
  BY <1>1 DEF ClassInv, ShownAlike, RecordedLate, HistoryAnswers, ResultAnswers, C!Recorded
<1>6. RequestsFit' /\ RequestsReach'
  BY <1>1, RequestsStay
<1> QED BY <1>2, <1>3, <1>4, <1>5, <1>6 DEF ClassInv

LEMMA ClassNext ==
    ASSUME C!TestsAssumption, ClassInv, C!Next PROVE ClassInv'
<1>1. ASSUME NEW j \in Jobs,
             \/ C!Ingest(j) \/ C!Analyze(j) \/ C!CarryForward(j) \/ C!Complete(j) \/ C!Reveal(j)
             \/ \E c \in Classes : C!Populate(j, c) \/ \E f \in C!Failures : C!Reanalyze(j, f, c)
             \/ \E f \in C!Failures, p \in Patterns, by \in {"ai", "user"} : C!Classify(j, f, p, by)
      PROVE  ClassInv'
  BY <1>1, MovingOn, Classifying, Populating, CarryingForward, Completing, Revealing, Reanalyzing
<1>2. ASSUME NEW r \in OverrideRequests, review[r].step = "valid", C!OverrideField(r) PROVE ClassInv'
  <2>1. PICK q : q = review[r]
    OBVIOUS
  <2>2. /\ q \in RequestType /\ Fits(q)
        /\ \E T \in SUBSET Tests : \E B \in SUBSET Builds : Overrides(r, q, T, B)
    BY <1>2, <2>1, OverrideReaches
  <2> QED BY <2>1, <2>2, Overriding
<1>3. ASSUME NEW r \in OverrideRequests, NEW j \in Jobs, NEW t \in Tests, NEW b \in Builds \union {0},
             \/ \E c \in Classes : C!Validate(r, j, t, b, "class", c)
             \/ \E p \in Patterns : C!Validate(r, j, t, b, "pattern", p)
      PROVE  ClassInv'
  BY <1>3, Validating
<1>4. ASSUME NEW r \in OverrideRequests,
             \/ C!OverrideClassification(r) \/ C!OverridePattern(r)
             \/ C!PatchClassification(r) \/ C!PatchPattern(r)
      PROVE  ClassInv'
  BY <1>2, <1>4, Patching DEF C!OverrideClassification, C!OverridePattern, C!PatchClassification,
                              C!PatchPattern
<1> QED BY <1>1, <1>3, <1>4 DEF C!Next

(* What the readers see, in terms of what was said last.                   *)
LEMMA ReadersSeeWhatWasSaid ==
    ASSUME C!TestsAssumption, ClassInv, NEW j \in Jobs, NEW f \in C!Failures
    PROVE  /\ C!InResult(j, f) = IF said[j][f] # C!None THEN said[j][f] ELSE shown[j][f].class
           /\ C!Effective(j, f) = IF said[j][f] # C!None THEN said[j][f]
                                  ELSE IF C!Recorded(j) THEN history[j][f].class ELSE C!None
<1>1. PICK ks : ks = Stated(j, f)
  OBVIOUS
<1>2. said[j][f] = LastClass(ks)
  BY <1>1 DEF ClassInv, SaidIsLast, SaidLast
<1>3. ks # {} => LastClass(ks) # C!None
  <2>1. DOMAIN rows = 1 .. Len(rows) /\ Len(rows) \in Nat
    BY DEF ClassInv
  <2>2. ks \subseteq 1 .. Len(rows)
    BY <1>1, <2>1 DEF Stated, C!Classified, C!RowsOf
  <2>3. PICK m : m = C!Latest(ks)
    OBVIOUS
  <2>4. ASSUME ks # {} PROVE rows[m].class # C!None
    <3>1. m \in ks
      BY <2>1, <2>2, <2>3, <2>4, LatestIsGreatest
    <3> QED BY <1>1, <3>1 DEF Stated, C!Classified
  <2> QED BY <2>3, <2>4 DEF LastClass
<1>4. /\ C!InResult(j, f) = IF ks # {} THEN rows[C!Latest(ks)].class ELSE shown[j][f].class
      /\ C!Effective(j, f) = IF ks # {} THEN rows[C!Latest(ks)].class
                             ELSE IF C!Recorded(j) THEN history[j][f].class ELSE C!None
  BY <1>1 DEF Stated, C!InResult, C!Effective
<1> QED BY <1>2, <1>3, <1>4 DEF LastClass

LEMMA OverridesAreSeen ==
    ASSUME C!TestsAssumption, ClassInv
    PROVE  C!OverrideStands /\ C!GroupAgrees /\ C!IssueAgrees
<1>1. C!OverrideStands
  BY ReadersSeeWhatWasSaid DEF C!OverrideStands
<1>2. C!GroupAgrees
  <2>1. ASSUME early = {}, reanalysed = {}, NEW j \in Jobs, NEW s \in Tests, NEW t \in Tests,
               NEW b \in Builds
        PROVE  C!InResult(j, <<s, b>>) = C!InResult(j, <<t, b>>)
    <3>1. <<s, b>> \in C!Failures /\ <<t, b>> \in C!Failures
      BY DEF C!Failures
    <3>2. said[j][<<s, b>>] = said[j][<<t, b>>]
      BY <2>1 DEF ClassInv, SaidAlike
    <3>3. shown[j][<<s, b>>].class = shown[j][<<t, b>>].class
      BY <2>1 DEF ClassInv, ShownAlike
    <3> QED BY <3>1, <3>2, <3>3, ReadersSeeWhatWasSaid
  <2> QED BY <2>1 DEF C!GroupAgrees
<1>3. C!IssueAgrees
  <2>1. ASSUME NEW j \in Jobs, NEW f \in C!Failures, phase[j] \in {"completed", "over"},
               <<j, f>> \notin reanalysed, j \notin early
        PROVE  C!InIssue(j, f) = C!InResult(j, f)
    <3>1. said[j][f] = C!None => shown[j][f].class = answer[j]
      BY <2>1 DEF ClassInv, ResultAnswers
    <3>2. said[j][f] = C!None /\ C!Recorded(j) => history[j][f].class = answer[j]
      BY <2>1 DEF ClassInv, HistoryAnswers
    <3> QED BY <3>1, <3>2, ReadersSeeWhatWasSaid DEF C!InIssue
  <2> QED BY <2>1 DEF C!IssueAgrees
<1> QED BY <1>1, <1>2, <1>3

----------------------------------------------------------------------------
(* The overrides and the reviews keep their invariants.                    *)
SayInv == ClassInv /\ ReviewInv

LEMMA SayStep ==
    ASSUME C!TestsAssumption, R!ScopesAssumption, R!OutcomesAssumption, SayInv,
           [SuiteNext /\ UNCHANGED moves]_<<moves, linkState, classVars, reviewVars>>
    PROVE  SayInv'
<1>1. ASSUME C!Next, UNCHANGED reviewVars PROVE SayInv'
  BY <1>1, ClassNext, ReviewStutters DEF SayInv
<1>2. ASSUME R!Next, UNCHANGED classVars PROVE SayInv'
  BY <1>2, ReviewNext, ClassStutters DEF SayInv
<1>3. ASSUME UNCHANGED classVars, UNCHANGED reviewVars PROVE SayInv'
  BY <1>3, ReviewStutters, ClassStutters DEF SayInv
<1>4. \/ C!Next /\ UNCHANGED reviewVars
      \/ R!Next /\ UNCHANGED classVars
      \/ UNCHANGED classVars /\ UNCHANGED reviewVars
  BY DEF SuiteNext
<1> QED BY <1>1, <1>2, <1>3, <1>4

(* The invariants of the overrides and of the reviews hold always.         *)
THEOREM SayingInvariance ==
    ASSUME C!TestsAssumption, R!ScopesAssumption, R!OutcomesAssumption
    PROVE  SuiteSpec => []SayInv
<1>1. SuiteInit => SayInv
  BY ClassInit, ReviewInit DEF SuiteInit, SayInv
<1>2. SayInv /\ [SuiteNext /\ UNCHANGED moves]_<<moves, linkState, classVars, reviewVars>> => SayInv'
  BY SayStep
<1> QED BY <1>1, <1>2, PTL DEF SuiteSpec

(* What a reviewer said last of a failure, or what was carried to it       *)
(* later, is its classification in the result and in every issue, and that *)
(* of the tests of its signature, whatever overrides, analyses and         *)
(* patches interleave.  An analysis reviews a failure on a person's        *)
(* precedent only, and nothing is pushed that nobody looked at.            *)
THEOREM SaidAndReviewedStand ==
    ASSUME C!TestsAssumption, R!ScopesAssumption, R!OutcomesAssumption
    PROVE  SuiteSpec => []ReviewsStand
<1>1. SayInv => ReviewsStand
  BY OverridesAreSeen, ReviewsAreTrue DEF SayInv, ReviewsStand
<1> QED BY <1>1, SayingInvariance, PTL

(* Every variable of the part that moves stays in its range.               *)
THEOREM PartsTypeCorrect ==
    ASSUME NoJobAssumption, C!TestsAssumption, R!ScopesAssumption, R!OutcomesAssumption
    PROVE  SuiteSpec => []TypesOK
<1>1. SuiteInit => IInv
  BY InitInv DEF SuiteInit
<1>2. IInv /\ [SuiteNext /\ UNCHANGED moves]_<<moves, linkState, classVars, reviewVars>> => IInv'
  BY StepInv DEF SuiteNext
<1>3. IInv /\ SayInv => TypesOK
  BY DEF IInv, SayInv, ClassInv, ReviewInv, TypesOK
<1> QED BY <1>1, <1>2, <1>3, SayingInvariance, PTL DEF SuiteSpec
=============================================================================
