--------------------------- MODULE AnalysisProofs ---------------------------
(***************************************************************************)
(* What holds of an analysis that runs, of any size: of the debates about  *)
(* the failure groups of a job, and of any number of requests to re-analyse*)
(* any failures of one result, with any repositories to clone.             *)
(*                                                                         *)
(* Re-analyses: a failure that is still found is running exactly while     *)
(* some task is at work on it, and that task is the only one; so the       *)
(* identified operations of the progress are the clones of the tasks, and  *)
(* a name is shown exactly while an operation has it.  A request's         *)
(* analysis is put in once, by the step that ends its task, so it is not   *)
(* among those that are archived.                                          *)
(*                                                                         *)
(* Debates: between two rounds no answer is outstanding and every session  *)
(* is kept, so the last round alone tells whether there was a consensus,   *)
(* and what is deleted at the end is all there is.  The round the fallback *)
(* takes has the most usable votes: if it has none, no round has any.      *)
(***************************************************************************)
EXTENDS MCAnalysis, TLAPS, FiniteSetTheorems, SequenceTheorems, WellFoundedInduction

Repos == Additional \union {TestsRepo}

(* A request that came has a failure, and clones are made by a task that   *)
(* waits for them.                                                         *)
TargetsAreKnown == \A q \in Requests : step[q] # "idle" => target[q] \in Failures
ClonesAreWaitedFor ==
    \A q \in Requests, r \in Additional : adding[q][r] # "no" => step[q] = "additional"

(* What a failure shows was put in by requests that are done.              *)
AnalysesAreDone ==
    \A f \in Failures : \A i \in DOMAIN AnalysesOf(f) :
        AnalysesOf(f)[i] \in Requests => step[AnalysesOf(f)[i]] = "done"

(* The task of a failure that is found: one while it is running, else none.*)
Works(q, f) == step[q] \in AtWork /\ target[q] = f
TasksAreExact ==
    ~restarted => \A f \in Failures : Found(f) =>
        /\ status[f] = "running" => \E q \in Requests : Works(q, f)
        /\ \A q \in Requests : Works(q, f) => status[f] = "running"
        /\ \A p, q \in Requests : Works(p, f) /\ Works(q, f) => p = q

(* The clone a task is making.                                             *)
Clones(q, r) ==
    \/ r = TestsRepo /\ step[q] = "cloningTests"
    \/ r \in Additional /\ adding[q][r] \in {"cloning", "ended"}

OperationsAreExact ==
    ~restarted /\ kept /\ parent # "absent" =>
        /\ \A f \in Failures, r \in Repos :
             <<f, r>> \in active <=> \E q \in Requests : target[q] = f /\ Clones(q, r)
        /\ \A r \in Repos : r \in names <=> \E f \in Failures : <<f, r>> \in active

NothingLeft == ~kept \/ parent = "absent" => active = {} /\ names = {}

IInv ==
    /\ TypeOK /\ TargetsAreKnown /\ ClonesAreWaitedFor /\ AnalysesAreDone /\ NoAnalysisLost
    /\ TasksAreExact /\ OperationsAreExact /\ NothingLeft

----------------------------------------------------------------------------
(* The analyses of a failure are a sequence that begins with what it shows.*)
LEMMA AnalysesType ==
    ASSUME TypeOK, NEW f \in Failures
    PROVE  /\ AnalysesOf(f) \in Seq(Requests \union {First})
           /\ Len(AnalysesOf(f)) = Len(previous[f]) + 1 /\ Len(previous[f]) \in Nat
           /\ DOMAIN AnalysesOf(f) = 1 .. Len(previous[f]) + 1
<1> DEFINE S == Requests \union {First}
<1>1. analysis[f] \in S /\ previous[f] \in Seq(S)
  BY DEF TypeOK
<1>2. <<analysis[f]>> \in Seq(S) /\ Len(<<analysis[f]>>) = 1
  BY <1>1
<1> HIDE DEF S
<1>3. /\ <<analysis[f]>> \o previous[f] \in Seq(S)
      /\ Len(<<analysis[f]>> \o previous[f]) = 1 + Len(previous[f])
  BY <1>1, <1>2, ConcatProperties
<1>4. Len(previous[f]) \in Nat
  BY <1>1, LenProperties
<1>5. DOMAIN (<<analysis[f]>> \o previous[f]) = 1 .. Len(<<analysis[f]>> \o previous[f])
  BY <1>3, LenProperties
<1> QED BY <1>3, <1>4, <1>5 DEF AnalysesOf, S

(* One more in front of them keeps the others, each one place further on.  *)
LEMMA OneMore ==
    ASSUME NEW S, NEW s \in Seq(S), NEW x \in S
    PROVE  /\ <<x>> \o s \in Seq(S) /\ Len(<<x>> \o s) = Len(s) + 1 /\ Len(s) \in Nat
           /\ DOMAIN (<<x>> \o s) = 1 .. Len(s) + 1
           /\ \A i \in 1 .. Len(s) + 1 : (<<x>> \o s)[i] = IF i = 1 THEN x ELSE s[i - 1]
<1>1. <<x>> \in Seq(S) /\ Len(<<x>>) = 1 /\ <<x>>[1] = x
  OBVIOUS
<1>2. Len(s) \in Nat
  BY LenProperties
<1>3. /\ <<x>> \o s \in Seq(S) /\ Len(<<x>> \o s) = 1 + Len(s)
      /\ \A i \in 1 .. 1 + Len(s) : (<<x>> \o s)[i] = IF i <= 1 THEN <<x>>[i] ELSE s[i - 1]
  BY <1>1, ConcatProperties
<1>4. DOMAIN (<<x>> \o s) = 1 .. Len(<<x>> \o s)
  BY <1>3, LenProperties
<1> QED BY <1>1, <1>2, <1>3, <1>4

(* The initial state satisfies the invariant.                              *)
LEMMA InitIInv == ASSUME AnalysisAssumption, Init PROVE IInv
<1>1. TypeOK
  <2>1. previous \in [Failures -> Seq(Requests \union {First})]
    <3>1. <<>> \in Seq(Requests \union {First})
      OBVIOUS
    <3> QED BY <3>1 DEF Init
  <2>2. /\ status \in [Failures -> {"none", "running", "failed"}]
        /\ analysis \in [Failures -> Requests \union {First}]
        /\ step \in [Requests -> AtWork \union Over \union {"idle", "checking"}]
        /\ target \in [Requests -> Failures \union {NoFailure}]
    BY DEF Init
  <2>3. adding \in [Requests -> [Additional -> {"no", "waiting", "slot", "cloning", "ended"}]]
    BY DEF Init
  <2> QED BY <2>1, <2>2, <2>3 DEF Init, TypeOK
<1>2. \A f \in Failures : AnalysesOf(f) = <<First>>
  BY DEF Init, AnalysesOf
<1>3. NoAnalysisLost /\ AnalysesAreDone
  BY <1>2 DEF NoAnalysisLost, AnalysesAreDone, AnalysisAssumption
<1> QED BY <1>1, <1>3 DEF Init, IInv, TargetsAreKnown, ClonesAreWaitedFor, TasksAreExact, Works, Found,
        OperationsAreExact, Clones, NothingLeft, AtWork, Repos

----------------------------------------------------------------------------
(* A task that makes a clone is at work.                                   *)
LEMMA CloneAtWork ==
    ASSUME IInv, NEW q \in Requests, NEW r \in Repos, Clones(q, r) PROVE step[q] \in AtWork
BY DEF IInv, ClonesAreWaitedFor, Clones, AtWork

(* The analyses of failures stay what they are.                            *)
LEMMA AnalysesKept ==
    ASSUME IInv, UNCHANGED <<analysis, previous>>,
           \A q \in Requests : step[q] = "done" => step'[q] = "done"
    PROVE  NoAnalysisLost' /\ AnalysesAreDone'
<1>1. \A f \in Failures : AnalysesOf(f)' = AnalysesOf(f)
  BY DEF AnalysesOf
<1>2. NoAnalysisLost'
  BY <1>1 DEF IInv, NoAnalysisLost
<1>3. AnalysesAreDone'
  BY <1>1 DEF IInv, AnalysesAreDone
<1> QED BY <1>2, <1>3

(* The same tasks are at work on the failures that are still found.        *)
LEMMA TasksKept ==
    ASSUME IInv, restarted' = restarted, status' = status,
           \A f \in Failures : Found(f)' => Found(f),
           \A q \in Requests, f \in Failures : Works(q, f)' <=> Works(q, f)
    PROVE  TasksAreExact'
BY DEF IInv, TasksAreExact

(* The same clones are made and shown.                                     *)
LEMMA OperationsKept ==
    ASSUME IInv, UNCHANGED <<kept, parent, active, names, restarted>>,
           \A q \in Requests, r \in Repos :
              /\ Clones(q, r)' <=> Clones(q, r)
              /\ Clones(q, r) => target'[q] = target[q]
    PROVE  OperationsAreExact' /\ NothingLeft'
BY DEF IInv, OperationsAreExact, NothingLeft

(* A request that moves on within its work, or ends without any.           *)
LEMMA Moves ==
    ASSUME IInv, NEW q \in Requests, NEW s \in AtWork \union Over,
           step' = [step EXCEPT ![q] = s],
           UNCHANGED <<resultVars, cloneVars, target, adding, other, restarted>>,
           step[q] # "done", step[q] # "idle",
           step[q] \in AtWork <=> s \in AtWork,
           step[q] # "cloningTests", s # "cloningTests",
           \A r \in Additional : adding[q][r] = "no"
    PROVE  IInv'
<1>1. /\ parent' = parent /\ kept' = kept /\ status' = status /\ analysis' = analysis
      /\ previous' = previous /\ active' = active /\ names' = names
      /\ target' = target /\ adding' = adding /\ other' = other /\ restarted' = restarted
  BY DEF resultVars, cloneVars
<1>2. /\ step' \in [Requests -> AtWork \union Over \union {"idle", "checking"}]
      /\ step'[q] = s /\ \A p \in Requests \ {q} : step'[p] = step[p]
  BY DEF IInv, TypeOK
<1>3. TypeOK'
  BY <1>1, <1>2 DEF IInv, TypeOK
<1>4. TargetsAreKnown'
  BY <1>1, <1>2 DEF IInv, TargetsAreKnown
<1>5. ClonesAreWaitedFor'
  BY <1>1, <1>2 DEF IInv, ClonesAreWaitedFor
<1>6. NoAnalysisLost' /\ AnalysesAreDone'
  BY <1>1, <1>2, AnalysesKept
<1>7. TasksAreExact'
  <2>1. \A f \in Failures : Found(f)' <=> Found(f)
    BY <1>1 DEF Found
  <2>2. \A p \in Requests, f \in Failures : Works(p, f)' <=> Works(p, f)
    BY <1>1, <1>2 DEF Works
  <2> QED BY <1>1, <2>1, <2>2, TasksKept
<1>8. OperationsAreExact' /\ NothingLeft'
  <2>1. \A p \in Requests, r \in Repos : Clones(p, r)' <=> Clones(p, r)
    BY <1>1, <1>2 DEF Clones
  <2> QED BY <1>1, <2>1, OperationsKept
<1> QED BY <1>3, <1>4, <1>5, <1>6, <1>7, <1>8 DEF IInv

(* A clone that starts is shown, if its failure is still found: no other   *)
(* task has the same operation.                                            *)
LEMMA Starts ==
    ASSUME IInv, NEW q \in Requests, NEW r \in Repos, step[q] \in AtWork, ~Clones(q, r),
           CloneStarts(target[q], r), UNCHANGED <<kept, parent, target, restarted>>,
           \A p \in Requests, x \in Repos : Clones(p, x)' <=> Clones(p, x) \/ (p = q /\ x = r)
    PROVE  /\ OperationsAreExact' /\ NothingLeft'
           /\ active' \subseteq Failures \X Repos /\ names' \subseteq Repos
<1> DEFINE f == target[q]
<1>1. f \in Failures
  BY DEF IInv, TargetsAreKnown, AtWork
<1>2. active \subseteq Failures \X Repos /\ names \subseteq Repos
  BY DEF IInv, TypeOK, Repos
<1>3. \/ active' = active /\ names' = names
      \/ active' = active \union {<<f, r>>} /\ names' = names \union {r}
  BY DEF CloneStarts, cloneVars
<1>4. active' \subseteq Failures \X Repos /\ names' \subseteq Repos
  BY <1>1, <1>2, <1>3
<1>5. NothingLeft'
  BY DEF IInv, NothingLeft, CloneStarts, cloneVars, Patchable, Found
<1>6. OperationsAreExact'
  <2> SUFFICES ASSUME ~restarted, kept, parent # "absent"
               PROVE  /\ \A g \in Failures, x \in Repos :
                           <<g, x>> \in active' <=> \E p \in Requests : target[p] = g /\ Clones(p, x)'
                      /\ \A x \in Repos : x \in names' <=> \E g \in Failures : <<g, x>> \in active'
    BY DEF OperationsAreExact
  <2>1. /\ \A g \in Failures, x \in Repos :
             <<g, x>> \in active <=> \E p \in Requests : target[p] = g /\ Clones(p, x)
        /\ \A x \in Repos : x \in names <=> \E g \in Failures : <<g, x>> \in active
    BY DEF IInv, OperationsAreExact
  <2>2. Found(f)
    BY <1>1 DEF Found
  <2>3. /\ Works(q, f) /\ status[f] = "running"
        /\ \A p \in Requests : Works(p, f) => p = q
    BY <1>1, <2>2 DEF IInv, TasksAreExact, Works
  <2>4. <<f, r>> \notin active
    <3> SUFFICES ASSUME <<f, r>> \in active PROVE FALSE
      OBVIOUS
    <3>1. PICK p \in Requests : target[p] = f /\ Clones(p, r)
      BY <1>1, <2>1
    <3>2. p = q
      BY <2>3, <3>1, CloneAtWork DEF Works
    <3> QED BY <3>1, <3>2
  <2>5. active' = active \union {<<f, r>>} /\ names' = names \union {r}
    BY <2>2, <2>3, <2>4 DEF CloneStarts, Patchable
  <2> HIDE DEF f
  <2>6. ASSUME NEW g \in Failures, NEW x \in Repos
        PROVE  <<g, x>> \in active' <=> <<g, x>> \in active \/ (g = f /\ x = r)
    BY <2>5
  <2>7. ASSUME NEW g \in Failures, NEW x \in Repos
        PROVE  <<g, x>> \in active' <=> \E p \in Requests : target[p] = g /\ Clones(p, x)'
    BY <2>1, <2>6 DEF f
  <2>8. ASSUME NEW x \in Repos
        PROVE  x \in names' <=> \E g \in Failures : <<g, x>> \in active'
    BY <1>1, <2>1, <2>5, <2>6
  <2> QED BY <2>7, <2>8
<1> QED BY <1>4, <1>5, <1>6

(* A clone that ends is shown no more, and its name only while another has *)
(* it.                                                                     *)
LEMMA Stops ==
    ASSUME IInv, NEW q \in Requests, NEW r \in Repos, Clones(q, r),
           CloneEnds(target[q], r), UNCHANGED <<kept, parent, target, restarted>>,
           \A p \in Requests, x \in Repos : Clones(p, x)' <=> Clones(p, x) /\ ~(p = q /\ x = r)
    PROVE  /\ OperationsAreExact' /\ NothingLeft'
           /\ active' \subseteq Failures \X Repos /\ names' \subseteq Repos
<1> DEFINE f == target[q]
<1>1. f \in Failures /\ step[q] \in AtWork
  BY CloneAtWork DEF IInv, TargetsAreKnown, AtWork
<1>2. active \subseteq Failures \X Repos /\ names \subseteq Repos
  BY DEF IInv, TypeOK, Repos
<1>3. \/ active' = active /\ names' = names
      \/ active' = active \ {<<f, r>>} /\ names' = NamesWithout(f, r)
  BY DEF CloneEnds, cloneVars
<1>4. active' \subseteq Failures \X Repos /\ names' \subseteq Repos
  BY <1>2, <1>3 DEF NamesWithout
<1>5. NothingLeft'
  BY DEF IInv, NothingLeft, CloneEnds, cloneVars, Patchable, Found
<1>6. OperationsAreExact'
  <2> SUFFICES ASSUME ~restarted, kept, parent # "absent"
               PROVE  /\ \A g \in Failures, x \in Repos :
                           <<g, x>> \in active' <=> \E p \in Requests : target[p] = g /\ Clones(p, x)'
                      /\ \A x \in Repos : x \in names' <=> \E g \in Failures : <<g, x>> \in active'
    BY DEF OperationsAreExact
  <2>1. /\ \A g \in Failures, x \in Repos :
             <<g, x>> \in active <=> \E p \in Requests : target[p] = g /\ Clones(p, x)
        /\ \A x \in Repos : x \in names <=> \E g \in Failures : <<g, x>> \in active
    BY DEF IInv, OperationsAreExact
  <2>2. Found(f)
    BY <1>1 DEF Found
  <2>3. /\ Works(q, f) /\ status[f] = "running"
        /\ \A p \in Requests : Works(p, f) => p = q
    BY <1>1, <2>2 DEF IInv, TasksAreExact, Works
  <2>4. <<f, r>> \in active
    BY <1>1, <2>1
  <2>5. active' = active \ {<<f, r>>} /\ names' = NamesWithout(f, r)
    BY <2>2, <2>3, <2>4 DEF CloneEnds, Patchable
  <2>6. ASSUME NEW p \in Requests, NEW x \in Repos, target[p] = f, Clones(p, x) PROVE p = q
    BY <2>3, <2>6, CloneAtWork DEF Works
  <2> HIDE DEF f
  <2>7. ASSUME NEW g \in Failures, NEW x \in Repos
        PROVE  <<g, x>> \in active' <=> <<g, x>> \in active /\ ~(g = f /\ x = r)
    BY <2>5
  <2>8. ASSUME NEW g \in Failures, NEW x \in Repos
        PROVE  <<g, x>> \in active' <=> \E p \in Requests : target[p] = g /\ Clones(p, x)'
    <3>1. CASE g = f /\ x = r
      BY <3>1, <2>6, <2>7
    <3>2. CASE ~(g = f /\ x = r)
      BY <3>2, <2>1, <2>7 DEF f
    <3> QED BY <3>1, <3>2
  <2>9. ASSUME NEW x \in Repos
        PROVE  x \in names' <=> \E g \in Failures : <<g, x>> \in active'
    <3>1. (\E op \in active \ {<<f, r>>} : op[2] = r) <=> \E g \in Failures : <<g, r>> \in active'
      <4>1. \A op \in active : op = <<op[1], op[2]>> /\ op[1] \in Failures /\ op[2] \in Repos
        BY <1>2
      <4>2. ASSUME NEW op \in active \ {<<f, r>>}, op[2] = r
            PROVE  \E g \in Failures : <<g, r>> \in active'
        BY <4>1, <4>2, <2>5
      <4>3. ASSUME NEW g \in Failures, <<g, r>> \in active'
            PROVE  \E op \in active \ {<<f, r>>} : op[2] = r
        <5>1. <<g, r>> \in active \ {<<f, r>>} /\ <<g, r>>[2] = r
          BY <4>3, <2>5
        <5> QED BY <5>1
      <4> QED BY <4>2, <4>3
    <3>2. CASE x = r
      <4>1. r \in names
        BY <1>1, <2>1, <2>4 DEF f
      <4> QED BY <3>1, <3>2, <4>1, <2>5 DEF NamesWithout
    <3>3. CASE x # r
      <4>1. x \in names' <=> x \in names
        BY <3>3, <2>5 DEF NamesWithout
      <4> QED BY <3>3, <4>1, <2>1, <2>7
    <3> QED BY <3>2, <3>3
  <2> QED BY <2>8, <2>9
<1> QED BY <1>4, <1>5, <1>6

----------------------------------------------------------------------------
(* A request comes: it has no task yet.                                    *)
LEMMA Requesting ==
    ASSUME IInv, NEW q \in Requests, NEW f \in Failures, Request(q, f) PROVE IInv'
<1>1. /\ parent' = parent /\ kept' = kept /\ status' = status /\ analysis' = analysis
      /\ previous' = previous /\ active' = active /\ names' = names
      /\ adding' = adding /\ other' = other /\ restarted' = restarted /\ step[q] = "idle"
  BY DEF Request, resultVars, cloneVars
<1>2. /\ step' \in [Requests -> AtWork \union Over \union {"idle", "checking"}]
      /\ step'[q] = "checking" /\ \A p \in Requests \ {q} : step'[p] = step[p]
  BY DEF IInv, TypeOK, Request
<1>3. /\ target' \in [Requests -> Failures \union {NoFailure}]
      /\ target'[q] = f /\ \A p \in Requests \ {q} : target'[p] = target[p]
  BY DEF IInv, TypeOK, Request
<1>4. TypeOK'
  BY <1>1, <1>2, <1>3 DEF IInv, TypeOK
<1>5. TargetsAreKnown'
  BY <1>2, <1>3 DEF IInv, TargetsAreKnown
<1>6. ClonesAreWaitedFor'
  BY <1>1, <1>2 DEF IInv, ClonesAreWaitedFor
<1>7. NoAnalysisLost' /\ AnalysesAreDone'
  BY <1>1, <1>2, AnalysesKept
<1>8. TasksAreExact'
  <2>1. \A g \in Failures : Found(g)' <=> Found(g)
    BY <1>1 DEF Found
  <2>2. \A p \in Requests, g \in Failures : Works(p, g)' <=> Works(p, g)
    BY <1>1, <1>2, <1>3 DEF Works, AtWork
  <2> QED BY <1>1, <2>1, <2>2, TasksKept
<1>9. OperationsAreExact' /\ NothingLeft'
  <2>1. \A p \in Requests, r \in Repos :
          (Clones(p, r)' <=> Clones(p, r)) /\ (Clones(p, r) => target'[p] = target[p])
    BY <1>1, <1>2, <1>3 DEF IInv, ClonesAreWaitedFor, Clones
  <2> QED BY <1>1, <2>1, OperationsKept
<1> QED BY <1>4, <1>5, <1>6, <1>7, <1>8, <1>9 DEF IInv

(* It becomes a task unless its failure is running; then it runs.          *)
LEMMA Accepting == ASSUME IInv, NEW q \in Requests, Accept(q) PROVE IInv'
<1> DEFINE f == target[q]
<1>1. /\ parent' = parent /\ kept' = kept /\ analysis' = analysis
      /\ previous' = previous /\ active' = active /\ names' = names /\ target' = target
      /\ adding' = adding /\ other' = other /\ restarted' = restarted /\ step[q] = "checking"
  BY DEF Accept, cloneVars
<1>2. f \in Failures
  BY <1>1 DEF IInv, TargetsAreKnown
<1>3. CASE AlreadyRunning(f)
  <2>1. step' = [step EXCEPT ![q] = "done"] /\ status' = status
    BY <1>3 DEF Accept
  <2>2. \A r \in Additional : adding[q][r] = "no"
    BY <1>1 DEF IInv, ClonesAreWaitedFor
  <2> QED BY <1>1, <2>1, <2>2, Moves DEF resultVars, cloneVars, AtWork, Over
<1>4. CASE ~AlreadyRunning(f)
  <2>1. /\ step' = [step EXCEPT ![q] = "tests"]
        /\ status' = IF Found(f) THEN [status EXCEPT ![f] = "running"] ELSE status
    BY <1>4 DEF Accept
  <2>2. /\ step' \in [Requests -> AtWork \union Over \union {"idle", "checking"}]
        /\ step'[q] = "tests" /\ \A p \in Requests \ {q} : step'[p] = step[p]
    BY <2>1 DEF IInv, TypeOK, AtWork
  <2>3. /\ status' \in [Failures -> {"none", "running", "failed"}]
        /\ Found(f) => status'[f] = "running"
        /\ \A g \in Failures \ {f} : status'[g] = status[g]
    BY <1>2, <2>1 DEF IInv, TypeOK
  <2>4. TypeOK'
    BY <1>1, <2>2, <2>3 DEF IInv, TypeOK
  <2>5. TargetsAreKnown'
    BY <1>1, <1>2, <2>2 DEF IInv, TargetsAreKnown
  <2>6. ClonesAreWaitedFor'
    BY <1>1, <2>2 DEF IInv, ClonesAreWaitedFor
  <2>7. NoAnalysisLost' /\ AnalysesAreDone'
    BY <1>1, <2>2, AnalysesKept
  <2>8. TasksAreExact'
    <3> SUFFICES ASSUME ~restarted, NEW g \in Failures, Found(g)
                 PROVE  /\ status'[g] = "running" => \E p \in Requests : Works(p, g)'
                        /\ \A p \in Requests : Works(p, g)' => status'[g] = "running"
                        /\ \A p, o \in Requests : Works(p, g)' /\ Works(o, g)' => p = o
      BY <1>1 DEF TasksAreExact, Found
    <3>1. /\ status[g] = "running" => \E p \in Requests : Works(p, g)
          /\ \A p \in Requests : Works(p, g) => status[g] = "running"
          /\ \A p, o \in Requests : Works(p, g) /\ Works(o, g) => p = o
      BY DEF IInv, TasksAreExact
    <3>2. \A p \in Requests : Works(p, g)' <=> Works(p, g) \/ (p = q /\ g = f)
      BY <1>1, <2>2 DEF Works, AtWork
    <3>3. CASE g = f
      <4>1. status[f] # "running"
        BY <1>4, <3>3 DEF AlreadyRunning
      <4> QED BY <2>3, <3>1, <3>2, <3>3, <4>1
    <3>4. CASE g # f
      BY <2>3, <3>1, <3>2, <3>4
    <3> QED BY <3>3, <3>4
  <2>9. OperationsAreExact' /\ NothingLeft'
    <3>1. \A p \in Requests, r \in Repos : Clones(p, r)' <=> Clones(p, r)
      BY <1>1, <2>2 DEF Clones
    <3> QED BY <1>1, <3>1, OperationsKept
  <2> QED BY <2>4, <2>5, <2>6, <2>7, <2>8, <2>9 DEF IInv
<1> QED BY <1>3, <1>4

(* The end of a task settles its failure, if that is still found.          *)
LEMMA Settles ==
    ASSUME IInv, NEW q \in Requests, step[q] \in {"patching", "failing"},
           step' = [step EXCEPT ![q] = "done"],
           NEW s \in {"none", "failed"},
           status' = IF Found(target[q]) THEN [status EXCEPT ![target[q]] = s] ELSE status,
           UNCHANGED <<parent, kept, cloneVars, target, adding, other, restarted>>
    PROVE  /\ TargetsAreKnown' /\ ClonesAreWaitedFor' /\ TasksAreExact'
           /\ OperationsAreExact' /\ NothingLeft'
           /\ analysis' \in [Failures -> Requests \union {First}]
              /\ previous' \in [Failures -> Seq(Requests \union {First})] => TypeOK'
<1> DEFINE f == target[q]
<1>1. /\ parent' = parent /\ kept' = kept /\ active' = active /\ names' = names
      /\ target' = target /\ adding' = adding /\ other' = other /\ restarted' = restarted
  BY DEF cloneVars
<1>2. f \in Failures
  BY DEF IInv, TargetsAreKnown
<1>3. /\ step' \in [Requests -> AtWork \union Over \union {"idle", "checking"}]
      /\ step'[q] = "done" /\ \A p \in Requests \ {q} : step'[p] = step[p]
  BY DEF IInv, TypeOK, Over
<1>4. /\ status' \in [Failures -> {"none", "running", "failed"}]
      /\ Found(f) => status'[f] = s
      /\ \A g \in Failures \ {f} : status'[g] = status[g]
  BY <1>2 DEF IInv, TypeOK
<1>5. ASSUME analysis' \in [Failures -> Requests \union {First}],
             previous' \in [Failures -> Seq(Requests \union {First})]
      PROVE  TypeOK'
  BY <1>1, <1>3, <1>4, <1>5 DEF IInv, TypeOK
<1>6. TargetsAreKnown'
  BY <1>1, <1>3 DEF IInv, TargetsAreKnown
<1>7. ClonesAreWaitedFor'
  BY <1>1, <1>3 DEF IInv, ClonesAreWaitedFor
<1>8. TasksAreExact'
  <2> SUFFICES ASSUME ~restarted, NEW g \in Failures, Found(g)
               PROVE  /\ status'[g] = "running" => \E p \in Requests : Works(p, g)'
                      /\ \A p \in Requests : Works(p, g)' => status'[g] = "running"
                      /\ \A p, o \in Requests : Works(p, g)' /\ Works(o, g)' => p = o
    BY <1>1 DEF TasksAreExact, Found
  <2>1. /\ status[g] = "running" => \E p \in Requests : Works(p, g)
        /\ \A p \in Requests : Works(p, g) => status[g] = "running"
        /\ \A p, o \in Requests : Works(p, g) /\ Works(o, g) => p = o
    BY DEF IInv, TasksAreExact
  <2>2. \A p \in Requests : Works(p, g)' <=> Works(p, g) /\ p # q
    BY <1>1, <1>3 DEF Works, AtWork
  <2>3. CASE g = f
    <3>1. Works(q, g)
      BY <2>3 DEF Works, AtWork
    <3> QED BY <1>4, <2>1, <2>2, <2>3, <3>1
  <2>4. CASE g # f
    <3>1. ~Works(q, g)
      BY <2>4 DEF Works
    <3> QED BY <1>4, <2>1, <2>2, <2>4, <3>1
  <2> QED BY <2>3, <2>4
<1>9. OperationsAreExact' /\ NothingLeft'
  <2>1. \A p \in Requests, r \in Repos : Clones(p, r)' <=> Clones(p, r)
    BY <1>1, <1>3 DEF Clones
  <2> QED BY <1>1, <2>1, OperationsKept
<1> QED BY <1>5, <1>6, <1>7, <1>8, <1>9

(* A new analysis goes in front of the others, and is none of them.        *)
LEMMA Succeeding == ASSUME AnalysisAssumption, IInv, NEW q \in Requests, PatchSuccess(q) PROVE IInv'
<1> DEFINE S == Requests \union {First}
<1>1. /\ step[q] = "patching" /\ step' = [step EXCEPT ![q] = "done"]
      /\ UNCHANGED <<parent, kept, cloneVars, target, adding, other, restarted>>
  BY DEF PatchSuccess
<1>2. PICK f \in Failures : f = target[q]
  BY <1>1 DEF IInv, TargetsAreKnown
<1>3. step'[q] = "done" /\ \A p \in Requests \ {q} : step'[p] = step[p]
  BY <1>1 DEF IInv, TypeOK
<1>4. /\ analysis \in [Failures -> S] /\ previous \in [Failures -> Seq(S)]
      /\ \A g \in Failures : AnalysesOf(g) \in Seq(S) /\ Len(AnalysesOf(g)) \in Nat
  BY AnalysesType DEF IInv, TypeOK
<1>5. CASE ~Found(f)
  <2>1. status' = status /\ analysis' = analysis /\ previous' = previous
    BY <1>2, <1>5 DEF PatchSuccess
  <2>2. NoAnalysisLost' /\ AnalysesAreDone'
    BY <1>3, <2>1, AnalysesKept
  <2> QED BY <1>1, <1>2, <1>4, <1>5, <2>1, <2>2, Settles DEF IInv
<1>6. CASE Found(f)
  <2>1. /\ previous' = [previous EXCEPT ![f] = AnalysesOf(f)]
        /\ analysis' = [analysis EXCEPT ![f] = q] /\ status' = [status EXCEPT ![f] = "none"]
    BY <1>2, <1>6 DEF PatchSuccess, Archived, AnalysesOf
  <2>2. q \in S
    OBVIOUS
  <2>3. analysis' \in [Failures -> S] /\ previous' \in [Failures -> Seq(S)]
    BY <1>4, <2>1
  <2>4. AnalysesOf(f)' = <<q>> \o AnalysesOf(f)
    BY <1>2, <1>4, <2>1 DEF AnalysesOf
  <2>5. \A g \in Failures \ {f} : AnalysesOf(g)' = AnalysesOf(g)
    BY <1>4, <2>1 DEF AnalysesOf
  <2>6. /\ \A i \in DOMAIN AnalysesOf(f) : AnalysesOf(f)[i] # q
        /\ \A i \in DOMAIN AnalysesOf(f) : AnalysesOf(f)[i] \in Requests => step'[AnalysesOf(f)[i]] = "done"
    BY <1>1, <1>2, <1>3 DEF IInv, AnalysesAreDone
  <2>7. /\ AnalysesOf(f)[Len(AnalysesOf(f))] = First
        /\ \A i, j \in DOMAIN AnalysesOf(f) : AnalysesOf(f)[i] = AnalysesOf(f)[j] => i = j
    BY <1>2 DEF IInv, NoAnalysisLost
  <2>8. Len(AnalysesOf(f)) >= 1 /\ DOMAIN AnalysesOf(f) = 1 .. Len(AnalysesOf(f))
    BY <1>2, AnalysesType DEF IInv
  <2> DEFINE s == AnalysesOf(f)
             t == <<q>> \o s
  <2>9. /\ Len(t) = Len(s) + 1 /\ Len(s) \in Nat /\ DOMAIN t = 1 .. Len(s) + 1
        /\ \A i \in 1 .. Len(s) + 1 : t[i] = IF i = 1 THEN q ELSE s[i - 1]
    BY <1>2, <1>4, <2>2, OneMore
  <2> HIDE DEF s, t, S
  <2>10. t[Len(t)] = First
    BY <2>7, <2>8, <2>9 DEF s
  <2>11. ASSUME NEW i \in DOMAIN t, NEW j \in DOMAIN t, t[i] = t[j] PROVE i = j
    <3>1. /\ i \in 1 .. Len(s) + 1 /\ j \in 1 .. Len(s) + 1 /\ DOMAIN s = 1 .. Len(s)
          /\ \A k \in 1 .. Len(s) : s[k] # q
          /\ \A k, l \in 1 .. Len(s) : s[k] = s[l] => k = l
      BY <2>6, <2>7, <2>8, <2>9, <2>11 DEF s
    <3>2. /\ i = 1 \/ (i - 1 \in 1 .. Len(s) /\ t[i] = s[i - 1])
          /\ j = 1 \/ (j - 1 \in 1 .. Len(s) /\ t[j] = s[j - 1])
          /\ t[1] = q
      BY <2>9, <3>1
    <3> QED BY <2>9, <2>11, <3>1, <3>2
  <2>12. ASSUME NEW i \in DOMAIN t, t[i] \in Requests PROVE step'[t[i]] = "done"
    <3>1. i \in 1 .. Len(s) + 1 /\ DOMAIN s = 1 .. Len(s)
      BY <2>8, <2>9 DEF s
    <3>2. CASE i = 1
      BY <1>3, <2>9, <3>1, <3>2
    <3>3. CASE i # 1
      <4>1. i - 1 \in DOMAIN s /\ t[i] = s[i - 1]
        BY <2>9, <3>1, <3>3
      <4> QED BY <2>6, <2>12, <4>1 DEF s
    <3> QED BY <3>2, <3>3
  <2>13. NoAnalysisLost'
    <3> SUFFICES ASSUME NEW g \in Failures
                 PROVE  /\ AnalysesOf(g)'[Len(AnalysesOf(g)')] = First
                        /\ \A i, j \in DOMAIN AnalysesOf(g)' :
                             AnalysesOf(g)'[i] = AnalysesOf(g)'[j] => i = j
      BY DEF NoAnalysisLost
    <3>1. CASE g = f
      BY <2>4, <2>10, <2>11, <3>1 DEF s, t
    <3>2. CASE g # f
      BY <2>5, <3>2 DEF IInv, NoAnalysisLost
    <3> QED BY <3>1, <3>2
  <2>14. AnalysesAreDone'
    <3>1. \A p \in Requests : step[p] = "done" => step'[p] = "done"
      BY <1>3
    <3> SUFFICES ASSUME NEW g \in Failures
                 PROVE  \A i \in DOMAIN AnalysesOf(g)' :
                          AnalysesOf(g)'[i] \in Requests => step'[AnalysesOf(g)'[i]] = "done"
      BY DEF AnalysesAreDone
    <3>2. CASE g = f
      BY <2>4, <2>12, <3>2 DEF s, t
    <3>3. CASE g # f
      <4>1. AnalysesOf(g)' = AnalysesOf(g)
        BY <2>5, <3>3
      <4>2. \A i \in DOMAIN AnalysesOf(g) :
              AnalysesOf(g)[i] \in Requests => step[AnalysesOf(g)[i]] = "done"
        BY DEF IInv, AnalysesAreDone
      <4> QED BY <3>1, <4>1, <4>2
    <3> QED BY <3>2, <3>3
  <2> QED BY <1>1, <1>2, <1>6, <2>1, <2>3, <2>13, <2>14, Settles DEF IInv, S
<1> QED BY <1>5, <1>6

(* A task that fails leaves what its failure shows.                        *)
LEMMA Failing == ASSUME IInv, NEW q \in Requests, PatchError(q) PROVE IInv'
<1>1. /\ step[q] = "failing" /\ step' = [step EXCEPT ![q] = "done"]
      /\ status' = IF Found(target[q]) THEN [status EXCEPT ![target[q]] = "failed"] ELSE status
      /\ UNCHANGED <<parent, kept, analysis, previous, cloneVars, target, adding, other, restarted>>
  BY DEF PatchError
<1>2. \A p \in Requests : step[p] = "done" => step'[p] = "done"
  BY <1>1 DEF IInv, TypeOK
<1>3. NoAnalysisLost' /\ AnalysesAreDone'
  BY <1>1, <1>2, AnalysesKept
<1>4. analysis' \in [Failures -> Requests \union {First}]
      /\ previous' \in [Failures -> Seq(Requests \union {First})]
  BY <1>1 DEF IInv, TypeOK
<1> QED BY <1>1, <1>3, <1>4, Settles DEF IInv

----------------------------------------------------------------------------
(* The clone of the tests repository starts, or there is none.             *)
LEMMA CloningTests == ASSUME RepoAssumption, IInv, NEW q \in Requests, CloneTests(q) PROVE IInv'
<1>1. /\ parent' = parent /\ kept' = kept /\ status' = status /\ analysis' = analysis
      /\ previous' = previous /\ target' = target /\ adding' = adding /\ other' = other
      /\ restarted' = restarted /\ step[q] = "tests"
  BY DEF CloneTests, resultVars
<1>2. \A r \in Additional : adding[q][r] = "no"
  BY <1>1 DEF IInv, ClonesAreWaitedFor
<1>3. CASE step' = [step EXCEPT ![q] = "resolving"] /\ UNCHANGED cloneVars
  BY <1>1, <1>2, <1>3, Moves DEF resultVars, AtWork
<1>4. CASE step' = [step EXCEPT ![q] = "cloningTests"] /\ CloneStarts(target[q], TestsRepo)
  <2>1. /\ step' \in [Requests -> AtWork \union Over \union {"idle", "checking"}]
        /\ step'[q] = "cloningTests" /\ \A p \in Requests \ {q} : step'[p] = step[p]
    BY <1>4 DEF IInv, TypeOK, AtWork
  <2>2. \A p \in Requests, x \in Repos : Clones(p, x)' <=> Clones(p, x) \/ (p = q /\ x = TestsRepo)
    BY <1>1, <1>2, <2>1 DEF Clones
  <2>3. ~Clones(q, TestsRepo) /\ TestsRepo \in Repos /\ step[q] \in AtWork
    BY <1>1 DEF Clones, Repos, AtWork, RepoAssumption
  <2>4. /\ OperationsAreExact' /\ NothingLeft'
        /\ active' \subseteq Failures \X Repos /\ names' \subseteq Repos
    BY <1>1, <1>4, <2>2, <2>3, Starts
  <2>5. TypeOK'
    BY <1>1, <2>1, <2>4 DEF IInv, TypeOK, Repos
  <2>6. TargetsAreKnown' /\ ClonesAreWaitedFor'
    BY <1>1, <1>2, <2>1 DEF IInv, TargetsAreKnown, ClonesAreWaitedFor
  <2>7. NoAnalysisLost' /\ AnalysesAreDone'
    BY <1>1, <2>1, AnalysesKept
  <2>8. TasksAreExact'
    <3>1. \A g \in Failures : Found(g)' <=> Found(g)
      BY <1>1 DEF Found
    <3>2. \A p \in Requests, g \in Failures : Works(p, g)' <=> Works(p, g)
      BY <1>1, <2>1 DEF Works, AtWork
    <3> QED BY <1>1, <3>1, <3>2, TasksKept
  <2> QED BY <2>4, <2>5, <2>6, <2>7, <2>8 DEF IInv
<1> QED BY <1>3, <1>4 DEF CloneTests

(* It ends.                                                                *)
LEMMA TestsCloned == ASSUME RepoAssumption, IInv, NEW q \in Requests, TestsEnd(q) PROVE IInv'
<1>1. /\ parent' = parent /\ kept' = kept /\ status' = status /\ analysis' = analysis
      /\ previous' = previous /\ target' = target /\ adding' = adding /\ other' = other
      /\ restarted' = restarted /\ step[q] = "cloningTests"
  BY DEF TestsEnd, resultVars
<1>2. \A r \in Additional : adding[q][r] = "no"
  BY <1>1 DEF IInv, ClonesAreWaitedFor
<1>3. /\ step' \in [Requests -> AtWork \union Over \union {"idle", "checking"}]
      /\ step'[q] = "resolving" /\ \A p \in Requests \ {q} : step'[p] = step[p]
  BY DEF TestsEnd, IInv, TypeOK, AtWork
<1>4. \A p \in Requests, x \in Repos : Clones(p, x)' <=> Clones(p, x) /\ ~(p = q /\ x = TestsRepo)
  BY <1>1, <1>2, <1>3 DEF Clones, RepoAssumption
<1>5. Clones(q, TestsRepo) /\ TestsRepo \in Repos
  BY <1>1 DEF Clones, Repos
<1>6. /\ OperationsAreExact' /\ NothingLeft'
      /\ active' \subseteq Failures \X Repos /\ names' \subseteq Repos
  BY <1>1, <1>4, <1>5, Stops DEF TestsEnd
<1>7. TypeOK'
  BY <1>1, <1>3, <1>6 DEF IInv, TypeOK, Repos
<1>8. TargetsAreKnown' /\ ClonesAreWaitedFor'
  BY <1>1, <1>2, <1>3 DEF IInv, TargetsAreKnown, ClonesAreWaitedFor
<1>9. NoAnalysisLost' /\ AnalysesAreDone'
  BY <1>1, <1>3, AnalysesKept
<1>10. TasksAreExact'
  <2>1. \A g \in Failures : Found(g)' <=> Found(g)
    BY <1>1 DEF Found
  <2>2. \A p \in Requests, g \in Failures : Works(p, g)' <=> Works(p, g)
    BY <1>1, <1>3 DEF Works, AtWork
  <2> QED BY <1>1, <2>1, <2>2, TasksKept
<1> QED BY <1>6, <1>7, <1>8, <1>9, <1>10 DEF IInv

(* The additional repositories are known.                                  *)
LEMMA Resolving == ASSUME IInv, NEW q \in Requests, Resolved(q) PROVE IInv'
<1>1. /\ parent' = parent /\ kept' = kept /\ status' = status /\ analysis' = analysis
      /\ previous' = previous /\ active' = active /\ names' = names /\ target' = target
      /\ other' = other /\ restarted' = restarted /\ step[q] = "resolving"
  BY DEF Resolved, resultVars, cloneVars
<1>2. PICK rs \in SUBSET Additional :
        /\ adding' = [adding EXCEPT ![q] = [r \in Additional |-> IF r \in rs THEN "waiting" ELSE "no"]]
        /\ step' = [step EXCEPT ![q] = IF rs = {} THEN "analyzing" ELSE "additional"]
  BY DEF Resolved
<1>3. \A r \in Additional : adding[q][r] = "no"
  BY <1>1 DEF IInv, ClonesAreWaitedFor
<1>4. /\ step' \in [Requests -> AtWork \union Over \union {"idle", "checking"}]
      /\ step'[q] \in {"analyzing", "additional"} /\ \A p \in Requests \ {q} : step'[p] = step[p]
      /\ step'[q] = "analyzing" => rs = {}
  BY <1>2 DEF IInv, TypeOK, AtWork
<1>5. /\ adding' \in [Requests -> [Additional -> {"no", "waiting", "slot", "cloning", "ended"}]]
      /\ \A r \in Additional : adding'[q][r] = IF r \in rs THEN "waiting" ELSE "no"
      /\ \A p \in Requests \ {q} : adding'[p] = adding[p]
  <2>1. [r \in Additional |-> IF r \in rs THEN "waiting" ELSE "no"] \in
          [Additional -> {"no", "waiting", "slot", "cloning", "ended"}]
    OBVIOUS
  <2> QED BY <1>2, <2>1 DEF IInv, TypeOK
<1>6. TypeOK'
  BY <1>1, <1>4, <1>5 DEF IInv, TypeOK
<1>7. TargetsAreKnown'
  BY <1>1, <1>4 DEF IInv, TargetsAreKnown
<1>8. ClonesAreWaitedFor'
  BY <1>1, <1>4, <1>5 DEF IInv, ClonesAreWaitedFor
<1>9. NoAnalysisLost' /\ AnalysesAreDone'
  BY <1>1, <1>4, AnalysesKept
<1>10. TasksAreExact'
  <2>1. \A g \in Failures : Found(g)' <=> Found(g)
    BY <1>1 DEF Found
  <2>2. \A p \in Requests, g \in Failures : Works(p, g)' <=> Works(p, g)
    BY <1>1, <1>4 DEF Works, AtWork
  <2> QED BY <1>1, <2>1, <2>2, TasksKept
<1>11. OperationsAreExact' /\ NothingLeft'
  <2>1. \A p \in Requests, r \in Repos : Clones(p, r)' <=> Clones(p, r)
    BY <1>1, <1>3, <1>4, <1>5 DEF Clones
  <2> QED BY <1>1, <2>1, OperationsKept
<1> QED BY <1>6, <1>7, <1>8, <1>9, <1>10, <1>11 DEF IInv

(* An error of the settings fails the job: its failures are gone.          *)
LEMMA Failed == ASSUME IInv, NEW q \in Requests, SettingsError(q) PROVE IInv'
<1>1. /\ status' = status /\ analysis' = analysis /\ previous' = previous /\ target' = target
      /\ adding' = adding /\ other' = other /\ restarted' = restarted /\ step[q] = "resolving"
  BY DEF SettingsError
<1>2. \/ parent' = parent /\ kept' = kept /\ active' = active /\ names' = names /\ parent = "absent"
      \/ parent' = "failed" /\ kept' = FALSE /\ active' = {} /\ names' = {}
  BY DEF SettingsError, FailParent, cloneVars
<1>3. /\ step' \in [Requests -> AtWork \union Over \union {"idle", "checking"}]
      /\ step'[q] = "done" /\ \A p \in Requests \ {q} : step'[p] = step[p]
  BY DEF SettingsError, IInv, TypeOK, Over
<1>4. TypeOK'
  BY <1>1, <1>2, <1>3 DEF IInv, TypeOK
<1>5. TargetsAreKnown' /\ ClonesAreWaitedFor'
  BY <1>1, <1>3 DEF IInv, TargetsAreKnown, ClonesAreWaitedFor
<1>6. NoAnalysisLost' /\ AnalysesAreDone'
  BY <1>1, <1>3, AnalysesKept
<1>7. TasksAreExact' /\ OperationsAreExact' /\ NothingLeft'
  BY <1>2 DEF IInv, NothingLeft, TasksAreExact, OperationsAreExact, Found
<1> QED BY <1>4, <1>5, <1>6, <1>7 DEF IInv

(* An additional clone of a task moves.                                    *)
LEMMA AddingMoves ==
    ASSUME IInv, NEW q \in Requests, NEW r \in Additional, NEW a \in {"slot", "cloning", "ended", "no"},
           adding' = [adding EXCEPT ![q][r] = a], step' = step, step[q] = "additional",
           UNCHANGED <<resultVars, target, other, restarted>>,
           active' \subseteq Failures \X Repos, names' \subseteq Repos,
           OperationsAreExact', NothingLeft'
    PROVE  IInv'
<1>1. /\ parent' = parent /\ kept' = kept /\ status' = status /\ analysis' = analysis
      /\ previous' = previous
  BY DEF resultVars
<1>2. /\ adding' \in [Requests -> [Additional -> {"no", "waiting", "slot", "cloning", "ended"}]]
      /\ \A p \in Requests, x \in Additional :
           adding'[p][x] = IF p = q /\ x = r THEN a ELSE adding[p][x]
  BY DEF IInv, TypeOK
<1>3. TypeOK'
  BY <1>1, <1>2 DEF IInv, TypeOK, Repos
<1>4. TargetsAreKnown' /\ ClonesAreWaitedFor'
  BY <1>2 DEF IInv, TargetsAreKnown, ClonesAreWaitedFor
<1>5. NoAnalysisLost' /\ AnalysesAreDone'
  BY <1>1, AnalysesKept
<1>6. TasksAreExact'
  <2>1. \A g \in Failures : Found(g)' <=> Found(g)
    BY <1>1 DEF Found
  <2>2. \A p \in Requests, g \in Failures : Works(p, g)' <=> Works(p, g)
    BY DEF Works
  <2> QED BY <1>1, <2>1, <2>2, TasksKept
<1> QED BY <1>3, <1>4, <1>5, <1>6 DEF IInv

(* Places, clones that start, and clones that end, one repository at a     *)
(* time.                                                                   *)
LEMMA AddingClones ==
    ASSUME RepoAssumption, IInv, NEW q \in Requests, NEW r \in Additional,
           TakeSlot(q, r) \/ CloneAdditional(q, r) \/ AdditionalEnds(q, r) \/ AdditionalDone(q, r)
    PROVE  IInv'
<1>1. /\ step' = step /\ UNCHANGED <<resultVars, target, other, restarted>>
      /\ parent' = parent /\ kept' = kept /\ target' = target /\ restarted' = restarted
      /\ r \in Repos /\ r # TestsRepo
  BY DEF TakeSlot, CloneAdditional, AdditionalEnds, AdditionalDone, resultVars, Repos,
         RepoAssumption
<1>2. step[q] = "additional" /\ step[q] \in AtWork
  BY DEF TakeSlot, CloneAdditional, AdditionalEnds, AdditionalDone, IInv, ClonesAreWaitedFor,
         AtWork
<1>3. ASSUME NEW a \in {"slot", "cloning", "ended", "no"}, adding' = [adding EXCEPT ![q][r] = a]
      PROVE  \A p \in Requests, x \in Additional :
               adding'[p][x] = IF p = q /\ x = r THEN a ELSE adding[p][x]
  BY <1>3 DEF IInv, TypeOK
<1>4. active \subseteq Failures \X Repos /\ names \subseteq Repos
  BY DEF IInv, TypeOK, Repos
<1>5. ASSUME NEW a \in {"slot", "ended"}, adding' = [adding EXCEPT ![q][r] = a], UNCHANGED cloneVars,
             a = "ended" <=> adding[q][r] \in {"cloning", "ended"}
      PROVE  IInv'
  <2>1. \A p \in Requests, x \in Repos : Clones(p, x)' <=> Clones(p, x)
    BY <1>1, <1>3, <1>5 DEF Clones
  <2>2. active' = active /\ names' = names
    BY <1>5 DEF cloneVars
  <2>3. OperationsAreExact' /\ NothingLeft'
    BY <1>1, <2>1, <2>2, OperationsKept
  <2> QED BY <1>1, <1>2, <1>4, <1>5, <2>2, <2>3, AddingMoves
<1>6. CASE TakeSlot(q, r)
  BY <1>5, <1>6 DEF TakeSlot
<1>7. CASE AdditionalEnds(q, r)
  BY <1>5, <1>7 DEF AdditionalEnds
<1>8. CASE CloneAdditional(q, r)
  <2>1. adding' = [adding EXCEPT ![q][r] = "cloning"] /\ adding[q][r] = "slot" /\ CloneStarts(target[q], r)
    BY <1>8 DEF CloneAdditional
  <2>2. \A p \in Requests, x \in Repos : Clones(p, x)' <=> Clones(p, x) \/ (p = q /\ x = r)
    BY <1>1, <1>3, <2>1 DEF Clones
  <2>3. ~Clones(q, r)
    BY <1>1, <2>1 DEF Clones
  <2>4. /\ OperationsAreExact' /\ NothingLeft'
        /\ active' \subseteq Failures \X Repos /\ names' \subseteq Repos
    BY <1>1, <1>2, <2>1, <2>2, <2>3, Starts
  <2> QED BY <1>1, <1>2, <2>1, <2>4, AddingMoves
<1>9. CASE AdditionalDone(q, r)
  <2>1. adding' = [adding EXCEPT ![q][r] = "no"] /\ adding[q][r] = "ended" /\ CloneEnds(target[q], r)
    BY <1>9 DEF AdditionalDone
  <2>2. \A p \in Requests, x \in Repos : Clones(p, x)' <=> Clones(p, x) /\ ~(p = q /\ x = r)
    BY <1>1, <1>3, <2>1 DEF Clones
  <2>3. Clones(q, r)
    BY <2>1 DEF Clones
  <2>4. /\ OperationsAreExact' /\ NothingLeft'
        /\ active' \subseteq Failures \X Repos /\ names' \subseteq Repos
    BY <1>1, <2>1, <2>2, <2>3, Stops
  <2> QED BY <1>1, <1>2, <2>1, <2>4, AddingMoves
<1> QED BY <1>6, <1>7, <1>8, <1>9

(* The other steps of a task.                                              *)
LEMMA Working ==
    ASSUME IInv, NEW q \in Requests, Refuse(q) \/ Gathered(q) \/ Analyzed(q) \/ TaskRaises(q)
    PROVE  IInv'
<1>1. step[q] \in {"checking", "additional", "tests", "resolving", "analyzing", "patching"}
  BY DEF Refuse, Gathered, Analyzed, TaskRaises
<1>2. \A r \in Additional : adding[q][r] = "no"
  BY DEF Refuse, Gathered, Analyzed, TaskRaises, IInv, ClonesAreWaitedFor
<1>3. UNCHANGED <<resultVars, cloneVars, target, adding, other, restarted>>
  BY DEF Refuse, Gathered, Analyzed, TaskRaises
<1>4. PICK s \in {"done", "analyzing", "patching", "failing"} :
        step' = [step EXCEPT ![q] = s] /\ (s = "done" <=> step[q] = "checking")
  BY DEF Refuse, Gathered, Analyzed, TaskRaises
<1>5. /\ s \in AtWork \union Over /\ s # "cloningTests"
      /\ s \in AtWork <=> s # "done"
      /\ step[q] \in AtWork <=> step[q] # "checking"
      /\ step[q] # "done" /\ step[q] # "idle" /\ step[q] # "cloningTests"
  BY <1>1 DEF AtWork, Over
<1> QED BY <1>2, <1>3, <1>4, <1>5, Moves

----------------------------------------------------------------------------
(* Another job's clone takes a place and gives it back.                    *)
LEMMA Others == ASSUME IInv, OtherJob \/ OtherJobEnds PROVE IInv'
<1>1. /\ parent' = parent /\ kept' = kept /\ status' = status /\ analysis' = analysis
      /\ previous' = previous /\ active' = active /\ names' = names /\ step' = step
      /\ target' = target /\ adding' = adding /\ restarted' = restarted
      /\ other' \in {"idle", "cloning", "orphaned", "ended"}
  BY DEF OtherJob, OtherJobEnds, OtherClone, OtherEnds, resultVars, cloneVars
<1>2. TypeOK'
  BY <1>1 DEF IInv, TypeOK
<1>3. NoAnalysisLost' /\ AnalysesAreDone'
  BY <1>1, AnalysesKept
<1>4. TargetsAreKnown' /\ ClonesAreWaitedFor'
  BY <1>1 DEF IInv, TargetsAreKnown, ClonesAreWaitedFor
<1>5. TasksAreExact'
  BY <1>1, TasksKept DEF Found, Works
<1>6. OperationsAreExact' /\ NothingLeft'
  BY <1>1, OperationsKept DEF Clones
<1> QED BY <1>2, <1>3, <1>4, <1>5, <1>6 DEF IInv

(* Nothing moves.                                                          *)
LEMMA Stutters == ASSUME IInv, UNCHANGED vars PROVE IInv'
<1>1. /\ parent' = parent /\ kept' = kept /\ status' = status /\ analysis' = analysis
      /\ previous' = previous /\ active' = active /\ names' = names /\ step' = step
      /\ target' = target /\ adding' = adding /\ restarted' = restarted /\ other' = other
  BY DEF vars, resultVars, cloneVars
<1>2. TypeOK'
  BY <1>1 DEF IInv, TypeOK
<1>3. NoAnalysisLost' /\ AnalysesAreDone'
  BY <1>1, AnalysesKept
<1>4. TargetsAreKnown' /\ ClonesAreWaitedFor'
  BY <1>1 DEF IInv, TargetsAreKnown, ClonesAreWaitedFor
<1>5. TasksAreExact'
  BY <1>1, TasksKept DEF Found, Works
<1>6. OperationsAreExact' /\ NothingLeft'
  BY <1>1, OperationsKept DEF Clones
<1> QED BY <1>2, <1>3, <1>4, <1>5, <1>6 DEF IInv

(* The job goes, and its progress with it; its tasks do not.               *)
LEMMA Deleting == ASSUME IInv, DeleteParent PROVE IInv'
<1>1. /\ parent' = "absent" /\ active' = {} /\ names' = {} /\ kept' = kept /\ status' = status
      /\ analysis' = analysis /\ previous' = previous /\ step' = step /\ target' = target
      /\ adding' = adding /\ other' = other /\ restarted' = restarted
  BY DEF DeleteParent
<1>2. TypeOK'
  BY <1>1 DEF IInv, TypeOK
<1>3. NoAnalysisLost' /\ AnalysesAreDone'
  BY <1>1, AnalysesKept
<1>4. TargetsAreKnown' /\ ClonesAreWaitedFor'
  BY <1>1 DEF IInv, TargetsAreKnown, ClonesAreWaitedFor
<1>5. TasksAreExact' /\ OperationsAreExact' /\ NothingLeft'
  BY <1>1 DEF NothingLeft, TasksAreExact, OperationsAreExact, Found
<1> QED BY <1>2, <1>3, <1>4, <1>5 DEF IInv

(* The process ends: what was under way is lost, what was done stays.      *)
LEMMA Restarting == ASSUME IInv, Restart PROVE IInv'
<1>1. /\ parent' = parent /\ kept' = kept /\ status' = status /\ analysis' = analysis
      /\ previous' = previous /\ active' = active /\ names' = names /\ target' = target
      /\ restarted' = TRUE /\ other' = "ended"
      /\ adding' = [q \in Requests |-> [r \in Additional |-> "no"]]
  BY DEF Restart, resultVars, cloneVars
<1>2. \A q \in Requests : step'[q] = IF step[q] \in AtWork \union {"checking"} THEN "lost" ELSE step[q]
  BY DEF Restart
<1>3. step' \in [Requests -> AtWork \union Over \union {"idle", "checking"}]
  <2>1. \A q \in Requests : step[q] \in AtWork \union Over \union {"idle", "checking"}
    BY DEF IInv, TypeOK
  <2> QED BY <2>1 DEF Restart, Over
<1>4. adding' \in [Requests -> [Additional -> {"no", "waiting", "slot", "cloning", "ended"}]]
  BY <1>1
<1>5. TypeOK'
  BY <1>1, <1>3, <1>4 DEF IInv, TypeOK
<1>6. \A q \in Requests : step[q] = "done" => step'[q] = "done"
  BY <1>2 DEF AtWork
<1>7. NoAnalysisLost' /\ AnalysesAreDone'
  BY <1>1, <1>6, AnalysesKept
<1>8. TargetsAreKnown' /\ ClonesAreWaitedFor'
  BY <1>1, <1>2 DEF IInv, TargetsAreKnown, ClonesAreWaitedFor, AtWork
<1>9. TasksAreExact' /\ OperationsAreExact' /\ NothingLeft'
  BY <1>1 DEF IInv, NothingLeft, TasksAreExact, OperationsAreExact
<1> QED BY <1>5, <1>7, <1>8, <1>9 DEF IInv

----------------------------------------------------------------------------
(* Every step keeps the invariant.                                         *)
LEMMA NextIInv ==
    ASSUME RepoAssumption, AnalysisAssumption, IInv, [Next]_vars
    PROVE  IInv'
<1>1. ASSUME NEW q \in Requests, TaskStep(q) PROVE IInv'
  BY <1>1, CloningTests, TestsCloned, Resolving, Failed, AddingClones, Working, Succeeding, Failing
     DEF TaskStep
<1>2. CASE UNCHANGED vars
  BY <1>2, Stutters
<1> QED BY <1>1, <1>2, Requesting, Working, Accepting, Others, Deleting, Restarting DEF Next

(* The invariant always holds.                                             *)
THEOREM Invariance == ASSUME RepoAssumption, AnalysisAssumption PROVE Spec => []IInv
<1>1. Init => IInv
  BY InitIInv
<1>2. IInv /\ [Next]_vars => IInv'
  BY NextIInv
<1> QED BY <1>1, <1>2, PTL DEF Spec

(* Every variable stays in its range.                                      *)
THEOREM TypeCorrect == ASSUME RepoAssumption, AnalysisAssumption PROVE Spec => []TypeOK
<1>1. IInv => TypeOK
  BY DEF IInv
<1> QED BY <1>1, Invariance, PTL

(* A failure that is being re-analysed has exactly one task and others     *)
(* none, no analysis of a failure is lost, and the clones that the result  *)
(* shows are those its tasks are making.                                   *)
THEOREM ResultStaysTrue ==
    ASSUME RepoAssumption, AnalysisAssumption PROVE Spec => []ResultIsTrue
<1>1. ASSUME IInv PROVE OneTaskPerFailure
  <2> SUFFICES ASSUME ~restarted, NEW f \in Failures, Found(f)
               PROVE  Cardinality(TasksOf(f)) = IF status[f] = "running" THEN 1 ELSE 0
    BY DEF OneTaskPerFailure
  <2>1. /\ status[f] = "running" => \E q \in Requests : Works(q, f)
        /\ \A q \in Requests : Works(q, f) => status[f] = "running"
        /\ \A p, q \in Requests : Works(p, f) /\ Works(q, f) => p = q
    BY <1>1 DEF IInv, TasksAreExact
  <2>2. TasksOf(f) = {q \in Requests : Works(q, f)}
    BY DEF TasksOf, Works
  <2>3. CASE status[f] = "running"
    <3>1. PICK q \in Requests : TasksOf(f) = {q}
      BY <2>1, <2>2, <2>3
    <3> QED BY <2>3, <3>1, FS_Singleton
  <2>4. CASE status[f] # "running"
    <3>1. TasksOf(f) = {}
      BY <2>1, <2>2, <2>4
    <3> QED BY <2>4, <3>1, FS_EmptySet
  <2> QED BY <2>3, <2>4
<1>2. ASSUME IInv PROVE ProgressIsTrue
  <2> SUFFICES ASSUME ~restarted, parent # "absent" PROVE names = IF kept THEN Cloning ELSE {}
    BY DEF ProgressIsTrue
  <2>1. CASE kept
    <3>1. /\ \A f \in Failures, r \in Repos :
               <<f, r>> \in active <=> \E q \in Requests : target[q] = f /\ Clones(q, r)
          /\ \A r \in Repos : r \in names <=> \E f \in Failures : <<f, r>> \in active
      BY <1>2, <2>1 DEF IInv, OperationsAreExact
    <3>2. ASSUME NEW q \in Requests, NEW r \in Repos, Clones(q, r) PROVE target[q] \in Failures
      <4>1. step[q] \in AtWork
        BY <1>2, <3>2, CloneAtWork
      <4> QED BY <1>2, <4>1 DEF IInv, TargetsAreKnown, AtWork
    <3>3. \A r \in Repos : r \in names <=> \E q \in Requests : Clones(q, r)
      BY <3>1, <3>2
    <3>4. \A r : r \in Cloning <=> r \in Repos /\ \E q \in Requests : Clones(q, r)
      BY DEF Cloning, Clones, Repos
    <3>5. names \subseteq Repos
      BY <1>2 DEF IInv, TypeOK, Repos
    <3> QED BY <2>1, <3>3, <3>4, <3>5
  <2>2. CASE ~kept
    BY <1>2, <2>2 DEF IInv, NothingLeft
  <2> QED BY <2>1, <2>2
<1>3. IInv => ResultIsTrue
  BY <1>1, <1>2 DEF IInv, ResultIsTrue
<1> QED BY <1>3, Invariance, PTL

----------------------------------------------------------------------------
(* The debates.  What is known of a group, wherever its debate stands.     *)

(* Who answered in a round was called in it, and only the peers of the job *)
(* are; while the job goes on, a call is out only in a round.              *)
CallsAreDebated(g) ==
    /\ \A p \in got[g] : vote[g][p] # "waiting"
    /\ \A p \in Peers \ peers : vote[g][p] = "waiting"
    /\ ~cancelled => \A p \in Peers : vote[g][p] = "calling" => pc[g] = "peers"

(* Before its debate a group has no round, session or consensus.           *)
NothingBefore(g) ==
    /\ rounds[g] = <<>> => sessions[g] = {}
    /\ pc[g] \in {"queued", "asking"} =>
         rounds[g] = <<>> /\ sessions[g] = {} /\ got[g] = {} /\ live[g] = {} /\ ~consensus[g]

(* A debate knows the sessions of its ended rounds and of this one.        *)
SessionsAreKnown(g) ==
    /\ pc[g] \in {"peers", "revising", "conclude"} => live[g] \subseteq sessions[g] \union got[g]
    /\ pc[g] \in {"revising", "conclude"} => got[g] = {} /\ rounds[g] # <<>>
    /\ pc[g] \in G!Ended => live[g] \subseteq (IF cancelled THEN got[g] ELSE {})

LastRound(g) == rounds[g][Len(rounds[g])]
ConsensusStands(g) ==
    /\ pc[g] \in {"peers", "revising"} => ~consensus[g]
    /\ pc[g] \in {"conclude", "done"} /\ consensus[g] =>
         /\ class[g] \in Classes /\ G!Valid(LastRound(g)) # {}
         /\ \A p \in G!Valid(LastRound(g)) : LastRound(g)[p] = class[g]

NothingMissed(g) ==
    pc[g] = "done" /\ peers # {} /\ class[g] = NoClass =>
        \A r \in DOMAIN rounds[g] : G!Valid(rounds[g][r]) = {}

(* Who is not a group of the job is never started.                         *)
DebateOK(g) ==
    /\ CallsAreDebated(g) /\ NothingBefore(g) /\ SessionsAreKnown(g)
    /\ ConsensusStands(g) /\ NothingMissed(g)
    /\ g \notin groups => pc[g] \in {"queued", "cancelled"}
    /\ pc[g] = "cancelled" => cancelled

(* Nothing is analysed before it is routed, and all is when patterns are   *)
(* looked for: what falls back leaves no debate behind.                    *)
PhasesInOrder ==
    /\ phase = "routing" /\ ~cancelled => \A g \in Groups : pc[g] = "queued"
    /\ phase = "cross" => \A g \in groups : pc[g] \in G!Ended

DebateInv == G!TypeOK /\ PhasesInOrder /\ \A g \in Groups : DebateOK(g)

----------------------------------------------------------------------------
(* A step that leaves a group alone keeps what is known of it.             *)
LEMMA GroupUntouched ==
    ASSUME NEW g \in Groups, DebateOK(g), groups' = groups, peers' = peers, cancelled' = cancelled,
           pc'[g] = pc[g], class'[g] = class[g], vote'[g] = vote[g], rounds'[g] = rounds[g],
           got'[g] = got[g], sessions'[g] = sessions[g], live'[g] = live[g],
           consensus'[g] = consensus[g]
    PROVE  DebateOK(g)'
BY DEF DebateOK, CallsAreDebated, NothingBefore, SessionsAreKnown, ConsensusStands, NothingMissed,
       LastRound, G!Valid, G!Ended

LEMMA DebateInit ==
    ASSUME G!ShapesAssumption, G!Init PROVE DebateInv
<1>1. groups \subseteq Groups /\ peers \subseteq Peers
  <2>1. PICK s \in Shapes : groups = s[1] /\ peers = s[2]
    BY DEF G!Init
  <2>2. s \in (SUBSET Groups) \X (SUBSET Peers)
    BY DEF G!ShapesAssumption
  <2> QED BY <2>1, <2>2
<1>2. G!TypeOK
  <2>1. /\ phase \in {"routing", "groups"} /\ tries \in 1 .. G!MaxAttempts /\ cancelled = FALSE
        /\ attempt \in [Groups -> 1 .. G!MaxAttempts]
    BY DEF G!Init, G!Fresh, G!MaxAttempts
  <2>2. /\ pc \in [Groups -> {"queued"}] /\ class \in [Groups -> {NoClass}]
        /\ vote \in [Groups -> [Peers -> {"waiting"}]] /\ consensus \in [Groups -> {FALSE}]
    BY DEF G!Init, G!Fresh
  <2>3. /\ got \in [Groups -> SUBSET Peers] /\ sessions \in [Groups -> SUBSET Peers]
        /\ live \in [Groups -> SUBSET Peers]
    BY DEF G!Init, G!Fresh
  <2>4. rounds \in [Groups -> Seq([Peers -> G!Answers \union {"waiting", "calling"}])]
    <3>1. <<>> \in Seq([Peers -> G!Answers \union {"waiting", "calling"}])
      OBVIOUS
    <3> QED BY <3>1 DEF G!Init, G!Fresh
  <2>5. vote \in [Groups -> [Peers -> G!Answers \union {"waiting", "calling"}]]
    BY <2>2
  <2> QED BY <1>1, <2>1, <2>2, <2>3, <2>4, <2>5 DEF G!TypeOK, G!Ended, G!Answers
<1>3. PhasesInOrder
  BY DEF PhasesInOrder, G!Init, G!Fresh
<1>4. ASSUME NEW g \in Groups PROVE DebateOK(g)
  <2>1. pc[g] = "queued" /\ rounds[g] = <<>> /\ got[g] = {} /\ sessions[g] = {} /\ live[g] = {}
        /\ consensus[g] = FALSE /\ \A p \in Peers : vote[g][p] = "waiting"
    BY DEF G!Init, G!Fresh
  <2> QED BY <2>1 DEF DebateOK, CallsAreDebated, NothingBefore, SessionsAreKnown, ConsensusStands,
                      NothingMissed, G!Ended
<1> QED BY <1>2, <1>3, <1>4 DEF DebateInv

(* The phases do not turn on a step inside a group.                        *)
LEMMA PhasesKept ==
    ASSUME DebateInv, G!Running, phase' = phase, groups' = groups, cancelled' = cancelled
    PROVE  PhasesInOrder'
BY DEF DebateInv, PhasesInOrder, G!Running

(* What holds of the group that moved holds of all.                        *)
LEMMA OneGroup ==
    ASSUME DebateInv, G!Running, NEW g \in groups, G!TypeOK', DebateOK(g)',
           UNCHANGED <<groups, peers, phase, cancelled>>,
           \A h \in Groups \ {g} :
               /\ pc'[h] = pc[h] /\ class'[h] = class[h] /\ vote'[h] = vote[h]
               /\ rounds'[h] = rounds[h] /\ got'[h] = got[h] /\ sessions'[h] = sessions[h]
               /\ live'[h] = live[h] /\ consensus'[h] = consensus[h]
    PROVE  DebateInv'
<1>1. PhasesInOrder'
  BY PhasesKept
<1>2. ASSUME NEW h \in Groups PROVE DebateOK(h)'
  <2>1. CASE h = g
    BY <2>1
  <2>2. CASE h # g
    <3>1. DebateOK(h)
      BY DEF DebateInv
    <3> QED BY <2>2, <3>1, GroupUntouched
  <2> QED BY <2>1, <2>2
<1> QED BY <1>1, <1>2 DEF DebateInv

(* Before the debate, and where it cannot begin.                           *)
LEMMA Asking ==
    ASSUME G!MarksAssumption, DebateInv, NEW g \in groups,
           G!StartGroup(g) \/ G!Answered(g) \/ G!AskAgain(g) \/ G!GroupRaises(g) \/ G!DebateRaises(g)
    PROVE  DebateInv'
<1>1. g \in Groups /\ DebateOK(g) /\ G!TypeOK /\ G!Running /\ ~cancelled
  BY DEF DebateInv, G!TypeOK, G!StartGroup, G!Answered, G!AskAgain, G!GroupRaises, G!DebateRaises,
         G!Running
<1>2. /\ UNCHANGED <<groups, peers, phase, tries, cancelled>>
      /\ UNCHANGED <<vote, rounds, got, sessions, live, consensus>>
  BY DEF G!StartGroup, G!Answered, G!AskAgain, G!GroupRaises, G!DebateRaises,
         G!runVars, G!debateVars
<1>3. pc \in [Groups -> G!Ended \union {"queued", "asking", "peers", "revising", "conclude"}]
      /\ class \in [Groups -> G!Answers] /\ attempt \in [Groups -> 1 .. G!MaxAttempts]
  BY <1>1 DEF G!TypeOK
<1>4. /\ pc' \in [Groups -> G!Ended \union {"queued", "asking", "peers", "revising", "conclude"}]
      /\ class' \in [Groups -> G!Answers]
      /\ attempt' \in [Groups -> 1 .. G!MaxAttempts]
      /\ \A h \in Groups \ {g} : pc'[h] = pc[h] /\ class'[h] = class[h]
  <2>1. CASE G!StartGroup(g)
    BY <1>1, <1>3, <2>1 DEF G!StartGroup
  <2>2. CASE G!Answered(g)
    BY <1>1, <1>3, <2>2 DEF G!Answered, G!AfterAnswer, G!Ended
  <2>3. CASE G!AskAgain(g)
    BY <1>1, <1>3, <2>3 DEF G!AskAgain, G!MaxAttempts
  <2>4. CASE G!GroupRaises(g)
    BY <1>1, <1>3, <2>4 DEF G!GroupRaises, G!Ended
  <2>5. CASE G!DebateRaises(g)
    BY <1>1, <1>3, <2>5 DEF G!DebateRaises, G!Ended
  <2> QED BY <2>1, <2>2, <2>3, <2>4, <2>5
<1>5. G!TypeOK'
  BY <1>1, <1>2, <1>4 DEF G!TypeOK
<1>6. \/ pc[g] = "queued" /\ pc'[g] = "asking" /\ class'[g] = class[g]
      \/ pc[g] = "asking" /\ pc'[g] = "asking" /\ class'[g] = class[g]
      \/ pc[g] = "asking" /\ pc'[g] = "failed" /\ class'[g] = class[g]
      \/ pc[g] = "asking" /\ pc'[g] = "done" /\ peers = {}
      \/ pc[g] = "asking" /\ pc'[g] = "peers"
      \/ /\ pc[g] = "peers" /\ pc'[g] = "failed" /\ class'[g] = class[g] /\ rounds[g] = <<>>
         /\ \A p \in peers : vote[g][p] = "waiting"
  <2>1. ASSUME G!StartGroup(g) PROVE pc[g] = "queued" /\ pc'[g] = "asking" /\ class'[g] = class[g]
    BY <1>1, <1>3, <2>1 DEF G!StartGroup
  <2>2. ASSUME G!Answered(g)
        PROVE  pc[g] = "asking" /\ (pc'[g] = "peers" \/ (pc'[g] = "done" /\ peers = {}))
    BY <1>1, <1>3, <2>2 DEF G!Answered, G!AfterAnswer
  <2>3. ASSUME G!AskAgain(g) PROVE pc[g] = "asking" /\ pc'[g] = "asking" /\ class'[g] = class[g]
    BY <2>3 DEF G!AskAgain
  <2>4. ASSUME G!GroupRaises(g)
        PROVE  pc[g] = "asking" /\ pc'[g] = "failed" /\ class'[g] = class[g]
    BY <1>1, <1>3, <2>4 DEF G!GroupRaises
  <2>5. ASSUME G!DebateRaises(g)
        PROVE  /\ pc[g] = "peers" /\ pc'[g] = "failed" /\ class'[g] = class[g]
               /\ rounds[g] = <<>> /\ \A p \in peers : vote[g][p] = "waiting"
    BY <1>1, <1>3, <2>5 DEF G!DebateRaises
  <2> QED BY <2>1, <2>2, <2>3, <2>4, <2>5
<1>7. DebateOK(g)'
  <2>1. CASE pc[g] \in {"queued", "asking"}
    <3>1. \A p \in Peers : vote[g][p] # "calling"
      BY <1>1, <2>1 DEF DebateOK, CallsAreDebated
    <3>2. pc'[g] \in {"asking", "failed", "done", "peers"} /\ (pc'[g] = "done" => peers = {})
      BY <1>6, <2>1
    <3> QED BY <1>1, <1>2, <2>1, <3>1, <3>2
            DEF DebateOK, CallsAreDebated, NothingBefore, SessionsAreKnown, ConsensusStands,
                NothingMissed, G!Ended
  <2>2. CASE pc[g] = "peers"
    <3>1. rounds[g] = <<>> /\ pc'[g] = "failed" /\ \A p \in peers : vote[g][p] = "waiting"
      BY <1>6, <2>2
    <3>2. got[g] = {} /\ sessions[g] = {} /\ live[g] = {} /\ ~consensus[g]
      <4>1. got[g] \subseteq Peers
        BY <1>1 DEF G!TypeOK
      <4>2. got[g] = {}
        BY <1>1, <3>1, <4>1 DEF DebateOK, CallsAreDebated
      <4> QED BY <1>1, <2>2, <3>1, <4>2
              DEF DebateOK, NothingBefore, SessionsAreKnown, ConsensusStands
    <3>3. \A p \in Peers : vote[g][p] = "waiting"
      BY <1>1, <3>1 DEF DebateOK, CallsAreDebated
    <3> QED BY <1>1, <1>2, <2>2, <3>1, <3>2, <3>3
            DEF DebateOK, CallsAreDebated, NothingBefore, SessionsAreKnown, ConsensusStands,
                NothingMissed, G!Ended
  <2> QED BY <1>6, <2>1, <2>2
<1> QED BY <1>1, <1>2, <1>4, <1>5, <1>7, OneGroup

(* A peer is called, and its call ends.                                    *)
LEMMA Polling ==
    ASSUME G!MarksAssumption, DebateInv, NEW g \in groups, NEW p \in peers,
           G!CallPeer(g, p) \/ G!PeerEnds(g, p)
    PROVE  DebateInv'
<1>1. /\ g \in Groups /\ p \in Peers /\ DebateOK(g) /\ G!TypeOK /\ G!Running /\ ~cancelled
      /\ UNCHANGED <<groups, peers, phase, tries, cancelled, pc, attempt, class, rounds, sessions,
                     consensus>>
  BY DEF DebateInv, G!TypeOK, G!CallPeer, G!PeerEnds, G!Running, G!runVars
<1>2. /\ vote \in [Groups -> [Peers -> G!Answers \union {"waiting", "calling"}]]
      /\ got \in [Groups -> SUBSET Peers] /\ live \in [Groups -> SUBSET Peers]
  BY <1>1 DEF G!TypeOK
<1>3. PICK v \in G!Answers \union {"calling"} :
        /\ vote' = [vote EXCEPT ![g][p] = v]
        /\ \/ got' = got /\ live' = live
           \/ /\ v # "calling" /\ got' = [got EXCEPT ![g] = @ \union {p}]
              /\ live' = [live EXCEPT ![g] = @ \union {p}]
  <2>1. CASE G!CallPeer(g, p)
    BY <2>1 DEF G!CallPeer
  <2>2. CASE G!PeerEnds(g, p)
    BY <2>2 DEF G!PeerEnds, G!PeerAnswers, G!Answers, G!MarksAssumption
  <2> QED BY <2>1, <2>2
<1>4. v # "waiting"
  BY <1>3 DEF G!MarksAssumption, G!Answers
<1>5. pc[g] = "peers"
  <2>1. CASE G!CallPeer(g, p)
    BY <2>1 DEF G!CallPeer
  <2>2. CASE G!PeerEnds(g, p)
    BY <1>1, <2>2 DEF G!PeerEnds, DebateOK, CallsAreDebated
  <2> QED BY <2>1, <2>2
<1>6. /\ vote' \in [Groups -> [Peers -> G!Answers \union {"waiting", "calling"}]]
      /\ \A h \in Groups \ {g} : vote'[h] = vote[h] /\ got'[h] = got[h] /\ live'[h] = live[h]
      /\ \A q \in Peers : vote'[g][q] = IF q = p THEN v ELSE vote[g][q]
  BY <1>1, <1>2, <1>3
<1>7. /\ got' \in [Groups -> SUBSET Peers] /\ live' \in [Groups -> SUBSET Peers]
      /\ \/ got'[g] = got[g] /\ live'[g] = live[g]
         \/ got'[g] = got[g] \union {p} /\ live'[g] = live[g] \union {p}
  <2>1. CASE got' = got /\ live' = live
    BY <1>2, <2>1
  <2>2. CASE got' = [got EXCEPT ![g] = @ \union {p}] /\ live' = [live EXCEPT ![g] = @ \union {p}]
    BY <1>1, <1>2, <2>2
  <2> QED BY <1>3, <2>1, <2>2
<1>8. G!TypeOK'
  BY <1>1, <1>6, <1>7 DEF G!TypeOK
<1>9. DebateOK(g)'
  <2>1. CallsAreDebated(g)'
    <3>1. got[g] \subseteq Peers
      BY <1>1, <1>2
    <3> QED BY <1>1, <1>4, <1>5, <1>6, <1>7, <3>1 DEF DebateOK, CallsAreDebated
  <2>2. NothingBefore(g)' /\ SessionsAreKnown(g)'
    BY <1>1, <1>5, <1>7 DEF DebateOK, NothingBefore, SessionsAreKnown, G!Ended
  <2>3. ConsensusStands(g)' /\ NothingMissed(g)'
    BY <1>1, <1>5 DEF DebateOK, ConsensusStands, NothingMissed
  <2> QED BY <1>1, <1>5, <2>1, <2>2, <2>3 DEF DebateOK
<1> QED BY <1>1, <1>6, <1>8, <1>9, OneGroup

(* A round ends: its votes are recorded, and the sessions kept.            *)
LEMMA RoundEnding ==
    ASSUME G!MarksAssumption, DebateInv, NEW g \in groups, G!RoundEnds(g)
    PROVE  DebateInv'
<1> DEFINE Votes == [Peers -> G!Answers \union {"waiting", "calling"}]
<1>1. /\ g \in Groups /\ DebateOK(g) /\ G!TypeOK /\ G!Running /\ ~cancelled
      /\ UNCHANGED <<groups, peers, phase, tries, cancelled, attempt, class, vote, live>>
      /\ pc[g] = "peers" /\ peers \subseteq Peers
  BY DEF DebateInv, G!TypeOK, G!RoundEnds, G!Running, G!runVars
<1>2. /\ vote[g] \in Votes /\ rounds[g] \in Seq(Votes) /\ rounds \in [Groups -> Seq(Votes)]
      /\ class[g] \in G!Answers
  BY <1>1 DEF G!TypeOK
<1>3. PICK s \in Seq(Votes) : s = Append(rounds[g], vote[g])
  <2>1. rounds[g] \in Seq(Votes) /\ vote[g] \in Votes
    BY <1>2
  <2> HIDE DEF Votes
  <2>2. Append(rounds[g], vote[g]) \in Seq(Votes)
    BY <2>1
  <2> QED BY <2>2
<1>4. Len(s) = Len(rounds[g]) + 1 /\ s[Len(s)] = vote[g] /\ s # <<>>
  BY <1>2, <1>3
<1>5. /\ rounds' = [rounds EXCEPT ![g] = s] /\ rounds'[g] = s
      /\ rounds' \in [Groups -> Seq(Votes)] /\ \A h \in Groups \ {g} : rounds'[h] = rounds[h]
  <2>1. rounds' = [rounds EXCEPT ![g] = s]
    BY <1>1, <1>2, <1>3 DEF G!RoundEnds
  <2> HIDE DEF Votes
  <2> QED BY <2>1, <1>1, <1>2
<1>6. /\ got' \in [Groups -> SUBSET Peers] /\ sessions' \in [Groups -> SUBSET Peers]
      /\ got'[g] = {} /\ sessions'[g] = sessions[g] \union got[g]
      /\ \A h \in Groups \ {g} : got'[h] = got[h] /\ sessions'[h] = sessions[h]
  BY <1>1 DEF G!RoundEnds, G!TypeOK
<1>7. PICK a \in BOOLEAN : a = G!Agreed(g)
  BY DEF G!Agreed
<1>8. /\ consensus' \in [Groups -> BOOLEAN] /\ consensus'[g] = a
      /\ \A h \in Groups \ {g} : consensus'[h] = consensus[h]
  BY <1>1, <1>7 DEF G!RoundEnds, G!TypeOK
<1>9. PICK next \in {"conclude", "revising"} :
        pc' = [pc EXCEPT ![g] = next] /\ (a => next = "conclude")
  <2> DEFINE next == IF G!Valid(vote[g]) = {} \/ G!Agreed(g) \/ Len(rounds[g]) + 1 = MaxRounds
                     THEN "conclude" ELSE "revising"
  <2>1. pc' = [pc EXCEPT ![g] = next]
    BY DEF G!RoundEnds
  <2>2. next \in {"conclude", "revising"} /\ (a => next = "conclude")
    BY <1>7
  <2> HIDE DEF next
  <2> QED BY <2>1, <2>2
<1>10. /\ pc' \in [Groups -> G!Ended \union {"queued", "asking", "peers", "revising", "conclude"}]
       /\ pc'[g] = next /\ \A h \in Groups \ {g} : pc'[h] = pc[h]
  BY <1>1, <1>9 DEF G!TypeOK
<1>11. G!TypeOK'
  BY <1>1, <1>5, <1>6, <1>8, <1>10 DEF G!TypeOK
<1>12. LastRound(g)' = vote[g]
  BY <1>4, <1>5 DEF LastRound
<1>13. DebateOK(g)'
  <2>1. CallsAreDebated(g)'
    <3>1. \A p \in peers : vote[g][p] # "calling"
      BY DEF G!RoundEnds, G!Answers, G!MarksAssumption
    <3>2. \A p \in Peers : vote[g][p] # "calling"
      BY <1>1, <3>1 DEF DebateOK, CallsAreDebated
    <3> QED BY <1>1, <1>6, <3>2 DEF DebateOK, CallsAreDebated
  <2>2. NothingBefore(g)' /\ SessionsAreKnown(g)'
    BY <1>1, <1>4, <1>5, <1>6, <1>10
       DEF DebateOK, NothingBefore, SessionsAreKnown, G!Ended
  <2>3. ConsensusStands(g)'
    <3>1. ASSUME a PROVE /\ class[g] \in Classes /\ G!Valid(vote[g]) # {}
                         /\ \A p \in G!Valid(vote[g]) : vote[g][p] = class[g]
      BY <1>7, <3>1 DEF G!Agreed, G!Valid
    <3>2. pc'[g] \notin {"peers", "done"} /\ (pc'[g] = "revising" => ~consensus'[g])
      BY <1>8, <1>9, <1>10
    <3>3. \A v : G!Valid(v)' = G!Valid(v')
      BY <1>1 DEF G!Valid
    <3> QED BY <1>1, <1>8, <1>12, <3>1, <3>2 DEF ConsensusStands, G!Valid
  <2>4. NothingMissed(g)'
    BY <1>10 DEF NothingMissed
  <2> QED BY <1>1, <1>10, <2>1, <2>2, <2>3, <2>4 DEF DebateOK
<1> QED BY <1>1, <1>5, <1>6, <1>8, <1>10, <1>11, <1>13, OneGroup

(* The main AI revises its answer, and the next round begins.              *)
LEMMA Revising ==
    ASSUME G!MarksAssumption, DebateInv, NEW g \in groups, G!Revise(g)
    PROVE  DebateInv'
<1>1. /\ g \in Groups /\ DebateOK(g) /\ G!TypeOK /\ G!Running /\ ~cancelled
      /\ UNCHANGED <<groups, peers, phase, tries, cancelled, attempt, rounds, got, sessions, live,
                     consensus>>
      /\ pc[g] = "revising" /\ peers \subseteq Peers
  BY DEF DebateInv, G!TypeOK, G!Revise, G!Running, G!runVars
<1>2. PICK c \in G!Answers : class' = [class EXCEPT ![g] = c]
  <2>1. PICK c \in G!Answers : class' = [class EXCEPT ![g] = G!Revised(g, c)]
    BY DEF G!Revise
  <2>2. G!Revised(g, c) \in G!Answers
    BY <1>1, <2>1 DEF G!Revised, G!Answers, G!TypeOK
  <2> QED BY <2>1, <2>2
<1>3. class' \in [Groups -> G!Answers] /\ \A h \in Groups \ {g} : class'[h] = class[h]
  BY <1>1, <1>2 DEF G!TypeOK
<1>4. PICK v \in [Peers -> {"waiting"}] : vote' = [vote EXCEPT ![g] = v]
  BY DEF G!Revise
<1>5. /\ vote' \in [Groups -> [Peers -> G!Answers \union {"waiting", "calling"}]]
      /\ vote'[g] = v /\ \A h \in Groups \ {g} : vote'[h] = vote[h]
  <2>1. v \in [Peers -> G!Answers \union {"waiting", "calling"}]
    BY <1>4
  <2> QED BY <1>1, <1>4, <2>1 DEF G!TypeOK
<1>6. /\ pc' \in [Groups -> G!Ended \union {"queued", "asking", "peers", "revising", "conclude"}]
      /\ pc'[g] = "peers" /\ \A h \in Groups \ {g} : pc'[h] = pc[h]
  BY <1>1 DEF G!TypeOK, G!Revise
<1>7. G!TypeOK'
  BY <1>1, <1>3, <1>5, <1>6 DEF G!TypeOK
<1>8. DebateOK(g)'
  <2>1. CallsAreDebated(g)'
    <3>1. got[g] = {} /\ \A p \in Peers : v[p] = "waiting"
      BY <1>1, <1>4 DEF DebateOK, SessionsAreKnown
    <3> QED BY <1>1, <1>5, <1>6, <3>1 DEF DebateOK, CallsAreDebated
  <2>2. NothingBefore(g)' /\ SessionsAreKnown(g)'
    BY <1>1, <1>6 DEF DebateOK, NothingBefore, SessionsAreKnown, G!Ended
  <2>3. ConsensusStands(g)' /\ NothingMissed(g)'
    BY <1>1, <1>6 DEF DebateOK, ConsensusStands, NothingMissed
  <2> QED BY <1>1, <1>6, <2>1, <2>2, <2>3 DEF DebateOK
<1> QED BY <1>1, <1>3, <1>5, <1>6, <1>7, <1>8, OneGroup

(* Finite sets and cardinalities are the same in the instance as here.     *)
LEMMA SameCounts ==
    ASSUME NEW S
    PROVE  G!IsFiniteSet(S) = IsFiniteSet(S) /\ G!Cardinality(S) = Cardinality(S)
BY DEF G!IsFiniteSet, IsFiniteSet, G!Cardinality, Cardinality

LEMMA FinitePeers ==
    ASSUME G!PeersAssumption PROVE IsFiniteSet(Peers)
BY SameCounts DEF G!PeersAssumption

(* A set of numbers has a least one. *)
LEMMA LeastNumber ==
    ASSUME NEW T, T \subseteq Nat, T # {} PROVE \E x \in T : \A y \in T : x <= y
<1>1. PICK x \in T : \A y \in T : ~ (<<y, x>> \in OpToRel(<, Nat))
  BY NatLessThanWellFounded, WFMin, Zenon
<1>2. ASSUME NEW y \in T PROVE x <= y
  <2>1. x \in Nat /\ y \in Nat
    OBVIOUS
  <2>2. <<y, x>> \notin OpToRel(<, Nat)
    BY <1>1, Zenon
  <2>3. <<y, x>> \in OpToRel(<, Nat) <=> y < x
    BY <2>1 DEF OpToRel
  <2>4. ~(y < x)
    BY <2>2, <2>3, Zenon
  <2> QED BY <2>1, <2>4
<1> QED BY <1>1, <1>2

(* The round of the fallback is one with the most usable votes.            *)
LEMMA BestRoundIsBest ==
    ASSUME G!PeersAssumption, G!TypeOK, NEW g \in Groups, rounds[g] # <<>>
    PROVE  /\ G!BestRound(g) \in DOMAIN rounds[g]
           /\ \A q \in DOMAIN rounds[g] :
                /\ Cardinality(G!Valid(rounds[g][q])) \in Nat
                /\ Cardinality(G!Valid(rounds[g][q]))
                     <= Cardinality(G!Valid(rounds[g][G!BestRound(g)]))
<1> DEFINE N(i) == Cardinality(G!Valid(rounds[g][i]))
           Best(r) == \A q \in DOMAIN rounds[g] : N(q) < N(r) \/ (N(q) = N(r) /\ q <= r)
<1>1. PICK L \in Nat \ {0} : DOMAIN rounds[g] = 1 .. L
  BY DEF G!TypeOK
<1>2. PICK B \in Nat : \A i \in 1 .. L : N(i) \in 0 .. B
  <2>1. Cardinality(Peers) \in Nat
    BY FS_CardinalityType, FinitePeers
  <2>2. ASSUME NEW i \in 1 .. L PROVE N(i) \in 0 .. Cardinality(Peers)
    <3>1. G!Valid(rounds[g][i]) \subseteq Peers
      BY DEF G!Valid, G!TypeOK
    <3> QED BY <2>1, <3>1, FS_Subset, FS_CardinalityType, FinitePeers
  <2> QED BY <2>1, <2>2
<1>3. PICK c \in [1 .. L -> 0 .. B] : \A i \in 1 .. L : c[i] = N(i)
  <2>1. [i \in 1 .. L |-> N(i)] \in [1 .. L -> 0 .. B]
    BY <1>2
  <2> HIDE DEF N
  <2> QED BY <2>1
<1> HIDE DEF N
<1>4. PICK b \in {B - c[i] : i \in 1 .. L} : \A y \in {B - c[i] : i \in 1 .. L} : b <= y
  <2> DEFINE T == {B - c[i] : i \in 1 .. L}
  <2>1. T # {} /\ T \subseteq Nat
    <3>1. 1 \in 1 .. L
      OBVIOUS
    <3>2. ASSUME NEW i \in 1 .. L PROVE B - c[i] \in Nat
      OBVIOUS
    <3> QED BY <3>1, <3>2
  <2> HIDE DEF T
  <2>2. \E x \in T : \A y \in T : x <= y
    BY <2>1, LeastNumber
  <2> QED BY <2>2 DEF T
<1>5. PICK m \in 1 .. L : b = B - c[m]
  BY <1>4
<1>6. \A i \in 1 .. L : c[i] <= c[m]
  <2>1. ASSUME NEW i \in 1 .. L PROVE c[i] <= c[m]
    <3>1. b <= B - c[i]
      BY <1>4
    <3>2. c[i] \in 0 .. B /\ c[m] \in 0 .. B
      OBVIOUS
    <3> QED BY <1>5, <3>1, <3>2
  <2> QED BY <2>1
<1> DEFINE M == {i \in 1 .. L : c[i] = c[m]}
<1>7. PICK r \in M : \A i \in M : i <= r
  <2> DEFINE T == {L - i : i \in M}
  <2>1. T # {} /\ T \subseteq Nat
    <3>1. m \in M
      OBVIOUS
    <3>2. ASSUME NEW i \in M PROVE L - i \in Nat
      OBVIOUS
    <3> HIDE DEF M
    <3> QED BY <3>1, <3>2
  <2> HIDE DEF T
  <2>2. PICK x \in T : \A y \in T : x <= y
    BY <2>1, LeastNumber
  <2>3. PICK r \in M : x = L - r
    BY <2>2 DEF T
  <2>4. ASSUME NEW i \in M PROVE i <= r
    <3>1. L - i \in T
      BY DEF T
    <3>2. L - r <= L - i
      BY <2>2, <2>3, <3>1
    <3> QED BY <3>2
  <2> QED BY <2>4
<1>8. Best(r) /\ r \in DOMAIN rounds[g]
  <2>1. ASSUME NEW q \in 1 .. L PROVE N(q) < N(r) \/ (N(q) = N(r) /\ q <= r)
    <3>1. c[q] <= c[r] /\ (c[q] = c[r] => q <= r)
      BY <1>6, <1>7
    <3>2. c[q] = N(q) /\ c[r] = N(r) /\ c[q] \in 0 .. B /\ c[r] \in 0 .. B
      BY <1>3, <1>7
    <3> QED BY <3>1, <3>2
  <2> QED BY <1>1, <1>7, <2>1
<1>9. G!BestRound(g) = CHOOSE x \in DOMAIN rounds[g] : Best(x)
  <2>1. \A i : G!Cardinality(G!Valid(rounds[g][i])) = N(i)
    BY SameCounts DEF N
  <2> QED BY <2>1 DEF G!BestRound
<1> HIDE DEF Best
<1>10. G!BestRound(g) \in DOMAIN rounds[g] /\ Best(G!BestRound(g))
  BY <1>8, <1>9
<1>11. \A q \in DOMAIN rounds[g] : N(q) \in Nat /\ N(q) <= N(G!BestRound(g))
  <2>1. ASSUME NEW q \in 1 .. L PROVE N(q) \in Nat /\ N(q) <= N(G!BestRound(g))
    <3>1. N(q) \in 0 .. B /\ N(G!BestRound(g)) \in 0 .. B
      BY <1>1, <1>2, <1>10
    <3>2. N(q) < N(G!BestRound(g)) \/ N(q) = N(G!BestRound(g))
      BY <1>1, <1>10 DEF Best
    <3> QED BY <3>1, <3>2
  <2> QED BY <1>1, <2>1
<1> QED BY <1>10, <1>11 DEF N

(* What the fallback says is a classification, unless no vote was usable.  *)
LEMMA FallbackRecovers ==
    ASSUME G!NoClassAssumption, G!PeersAssumption, G!TypeOK, NEW g \in Groups, rounds[g] # <<>>,
           NEW c \in G!Fallbacks(g)
    PROVE  /\ c \in G!Answers
           /\ c = NoClass => \A r \in DOMAIN rounds[g] : G!Valid(rounds[g][r]) = {}
<1> DEFINE best == rounds[g][G!BestRound(g)]
<1>1. CASE G!Valid(best) = {}
  <2>1. c = NoClass
    BY <1>1 DEF G!Fallbacks
  <2>2. ASSUME NEW r \in DOMAIN rounds[g] PROVE G!Valid(rounds[g][r]) = {}
    <3>1. Cardinality(G!Valid(best)) = 0
      BY <1>1, FS_EmptySet
    <3>2. Cardinality(G!Valid(rounds[g][r])) = 0
      BY <3>1, BestRoundIsBest
    <3>3. G!Valid(rounds[g][r]) \subseteq Peers
      BY DEF G!Valid, G!TypeOK
    <3>4. IsFiniteSet(G!Valid(rounds[g][r]))
      BY <3>3, FS_Subset, FinitePeers
    <3> QED BY <3>2, <3>4, FS_EmptySet
  <2> QED BY <2>1, <2>2 DEF G!Answers
<1>2. CASE G!Valid(best) # {}
  <2>1. c \in Classes
    BY <1>2 DEF G!Fallbacks
  <2> QED BY <2>1 DEF G!NoClassAssumption, G!Answers
<1> QED BY <1>1, <1>2

(* The debate is over: a missing classification is recovered, and the      *)
(* sessions it knows are deleted.                                          *)
LEMMA Concluding ==
    ASSUME G!NoClassAssumption, G!PeersAssumption, DebateInv, NEW g \in groups, G!Conclude(g)
    PROVE  DebateInv'
<1>1. /\ g \in Groups /\ DebateOK(g) /\ G!TypeOK /\ G!Running /\ ~cancelled
      /\ UNCHANGED <<groups, peers, phase, tries, cancelled, attempt, vote, rounds, got, sessions,
                     consensus>>
      /\ pc[g] = "conclude" /\ peers \subseteq Peers
  BY DEF DebateInv, G!TypeOK, G!Conclude, G!Running, G!runVars
<1>2. rounds[g] # <<>> /\ got[g] = {} /\ live[g] \subseteq sessions[g]
  BY <1>1 DEF DebateOK, SessionsAreKnown
<1>3. PICK c \in G!Answers :
        /\ class' = [class EXCEPT ![g] = c]
        /\ class[g] # NoClass => c = class[g]
        /\ c = NoClass => \A r \in DOMAIN rounds[g] : G!Valid(rounds[g][r]) = {}
  <2>1. CASE class[g] = NoClass
    <3>1. PICK c \in G!Fallbacks(g) : class' = [class EXCEPT ![g] = c]
      BY <2>1 DEF G!Conclude
    <3> QED BY <1>1, <1>2, <2>1, <3>1, FallbackRecovers
  <2>2. CASE class[g] # NoClass
    <3>1. class' = class /\ class \in [Groups -> G!Answers]
      BY <1>1, <2>2 DEF G!Conclude, G!TypeOK
    <3>2. class' = [class EXCEPT ![g] = class[g]] /\ class[g] \in G!Answers
      BY <1>1, <3>1
    <3> QED BY <2>2, <3>2
  <2> QED BY <2>1, <2>2
<1>4. /\ class' \in [Groups -> G!Answers] /\ class'[g] = c
      /\ \A h \in Groups \ {g} : class'[h] = class[h]
  BY <1>1, <1>3 DEF G!TypeOK
<1>5. /\ pc' \in [Groups -> G!Ended \union {"queued", "asking", "peers", "revising", "conclude"}]
      /\ pc'[g] = "done" /\ \A h \in Groups \ {g} : pc'[h] = pc[h]
  BY <1>1 DEF G!TypeOK, G!Conclude, G!Ended
<1>6. /\ live' \in [Groups -> SUBSET Peers] /\ live'[g] = {}
      /\ \A h \in Groups \ {g} : live'[h] = live[h]
  BY <1>1, <1>2 DEF G!TypeOK, G!Conclude, G!Closed
<1>7. G!TypeOK'
  BY <1>1, <1>4, <1>5, <1>6 DEF G!TypeOK
<1>8. DebateOK(g)'
  <2>1. CallsAreDebated(g)'
    <3>1. \A p \in Peers : vote[g][p] # "calling"
      BY <1>1 DEF DebateOK, CallsAreDebated
    <3> QED BY <1>1, <3>1 DEF DebateOK, CallsAreDebated
  <2>2. NothingBefore(g)' /\ SessionsAreKnown(g)'
    BY <1>1, <1>5, <1>6 DEF DebateOK, NothingBefore, SessionsAreKnown, G!Ended
  <2>3. ConsensusStands(g)'
    <3>1. ASSUME consensus[g]
          PROVE  /\ class[g] \in Classes /\ G!Valid(LastRound(g)) # {}
                 /\ \A p \in G!Valid(LastRound(g)) : LastRound(g)[p] = class[g]
      BY <1>1, <3>1 DEF DebateOK, ConsensusStands
    <3>2. consensus[g] => c = class[g]
      BY <1>3, <3>1 DEF G!NoClassAssumption
    <3> QED BY <1>1, <1>4, <1>5, <3>1, <3>2 DEF ConsensusStands, LastRound, G!Valid
  <2>4. NothingMissed(g)'
    BY <1>1, <1>3, <1>4 DEF NothingMissed, G!Valid
  <2> QED BY <1>1, <1>5, <2>1, <2>2, <2>3, <2>4 DEF DebateOK
<1> QED BY <1>1, <1>4, <1>5, <1>6, <1>7, <1>8, OneGroup

(* The run turns its phase, or tries its call once more.                   *)
LEMMA Phasing ==
    ASSUME DebateInv, G!Route \/ G!GroupsEnd \/ G!Cross PROVE DebateInv'
<1>1. /\ UNCHANGED <<groups, peers, pc, attempt, class, cancelled>>
      /\ UNCHANGED <<vote, rounds, got, sessions, live, consensus>>
  BY DEF G!Route, G!GroupsEnd, G!Cross, G!RetryCall, G!debateVars
<1>2. /\ phase' \in {"routing", "groups", "cross", "fallback", "reported"}
      /\ tries' \in 1 .. G!MaxAttempts
      /\ phase' = "routing" => phase = "routing"
      /\ phase' = "cross" => \A g \in groups : pc[g] \in G!Ended
  <2>1. CASE G!Route
    BY <2>1 DEF G!Route, G!RetryCall, DebateInv, G!TypeOK, G!MaxAttempts
  <2>2. CASE G!GroupsEnd
    BY <2>2 DEF G!GroupsEnd, DebateInv, G!TypeOK
  <2>3. CASE G!Cross
    BY <2>3 DEF G!Cross, G!RetryCall, DebateInv, G!TypeOK, G!MaxAttempts, PhasesInOrder
  <2> QED BY <2>1, <2>2, <2>3
<1>3. G!TypeOK'
  BY <1>1, <1>2 DEF DebateInv, G!TypeOK
<1>4. PhasesInOrder'
  BY <1>1, <1>2 DEF DebateInv, PhasesInOrder, G!Ended
<1>5. ASSUME NEW g \in Groups PROVE DebateOK(g)'
  <2>1. DebateOK(g)
    BY DEF DebateInv
  <2> QED BY <1>1, <2>1, GroupUntouched
<1> QED BY <1>3, <1>4, <1>5 DEF DebateInv

(* Everything is analysed again: nothing was begun, or all of it ended, so *)
(* no session of an earlier debate is there.                               *)
LEMMA FallingBack ==
    ASSUME DebateInv, G!FallBack PROVE DebateInv'
<1>1. /\ UNCHANGED <<groups, peers, live>> /\ cancelled' = cancelled /\ ~cancelled
      /\ phase' = "fallback" /\ tries' = 1 /\ phase \in {"routing", "cross"}
  BY DEF G!FallBack
<1>2. /\ pc' \in [Groups -> {"queued"}] /\ attempt' \in [Groups -> 1 .. G!MaxAttempts]
      /\ class' \in [Groups -> {NoClass}] /\ vote' \in [Groups -> [Peers -> {"waiting"}]]
      /\ got' \in [Groups -> SUBSET Peers] /\ sessions' \in [Groups -> SUBSET Peers]
      /\ consensus' \in [Groups -> {FALSE}]
  BY DEF G!FallBack, G!MaxAttempts
<1>3. rounds' \in [Groups -> Seq([Peers -> G!Answers \union {"waiting", "calling"}])]
  <2>1. <<>> \in Seq([Peers -> G!Answers \union {"waiting", "calling"}])
    OBVIOUS
  <2> QED BY <2>1 DEF G!FallBack
<1>4. G!TypeOK'
  <2>1. vote' \in [Groups -> [Peers -> G!Answers \union {"waiting", "calling"}]]
    BY <1>2
  <2>2. class' \in [Groups -> G!Answers] /\ consensus' \in [Groups -> BOOLEAN]
    BY <1>2 DEF G!Answers
  <2>3. pc' \in [Groups -> G!Ended \union {"queued", "asking", "peers", "revising", "conclude"}]
    BY <1>2
  <2> QED BY <1>1, <1>2, <1>3, <2>1, <2>2, <2>3 DEF DebateInv, G!TypeOK, G!MaxAttempts
<1>5. PhasesInOrder'
  BY <1>1 DEF PhasesInOrder
<1>6. ASSUME NEW g \in Groups PROVE DebateOK(g)'
  <2>1. /\ pc'[g] = "queued" /\ rounds'[g] = <<>> /\ got'[g] = {} /\ sessions'[g] = {}
        /\ ~consensus'[g] /\ \A p \in Peers : vote'[g][p] = "waiting"
    BY DEF G!FallBack
  <2>2. live[g] = {}
    <3>1. CASE phase = "routing"
      BY <1>1, <3>1 DEF DebateInv, PhasesInOrder, DebateOK, NothingBefore
    <3>2. CASE phase = "cross" /\ g \in groups
      BY <1>1, <3>2 DEF DebateInv, PhasesInOrder, DebateOK, SessionsAreKnown
    <3>3. CASE phase = "cross" /\ g \notin groups
      BY <1>1, <3>3 DEF DebateInv, DebateOK, NothingBefore
    <3> QED BY <1>1, <3>1, <3>2, <3>3
  <2> QED BY <1>1, <2>1, <2>2
          DEF DebateOK, CallsAreDebated, NothingBefore, SessionsAreKnown, ConsensusStands,
              NothingMissed, G!Ended
<1> QED BY <1>4, <1>5, <1>6 DEF DebateInv

(* A cancelled debate leaves only the sessions of the round it was in.     *)
LEMMA Cancelling ==
    ASSUME DebateInv, G!Cancel PROVE DebateInv'
<1>1. /\ cancelled' = TRUE /\ ~cancelled
      /\ UNCHANGED <<groups, peers, phase, tries, attempt, class, vote, rounds, got, sessions,
                     consensus>>
  BY DEF G!Cancel, G!runVars
<1>2. ASSUME NEW g \in Groups
      PROVE  /\ pc'[g] = IF g \in G!Active \/ pc[g] = "queued" THEN "cancelled" ELSE pc[g]
             /\ live'[g] = IF g \in G!Active THEN live[g] \ sessions[g] ELSE live[g]
  BY <1>2 DEF G!Cancel, G!Closed
<1>3. /\ pc' \in [Groups -> G!Ended \union {"queued", "asking", "peers", "revising", "conclude"}]
      /\ live' \in [Groups -> SUBSET Peers]
  BY DEF DebateInv, G!TypeOK, G!Cancel, G!Closed, G!Ended
<1>4. G!TypeOK'
  BY <1>1, <1>3 DEF DebateInv, G!TypeOK
<1>5. PhasesInOrder'
  BY <1>1, <1>2 DEF DebateInv, PhasesInOrder, G!Ended, G!TypeOK
<1>6. ASSUME NEW g \in Groups PROVE DebateOK(g)'
  <2>1. /\ DebateOK(g) /\ (g \notin groups => pc[g] = "queued")
        /\ pc[g] \in G!Ended \union {"queued", "asking", "peers", "revising", "conclude"}
    BY <1>1 DEF DebateInv, DebateOK, G!TypeOK
  <2>2. CASE pc[g] \in G!Ended
    <3>1. pc'[g] = pc[g] /\ live'[g] = live[g] /\ live[g] = {} /\ pc[g] # "cancelled"
      BY <1>1, <1>2, <2>1, <2>2 DEF G!Active, G!Ended, DebateOK, SessionsAreKnown
    <3> QED BY <1>1, <2>1, <2>2, <3>1
            DEF DebateOK, CallsAreDebated, NothingBefore, SessionsAreKnown, ConsensusStands,
                NothingMissed, LastRound, G!Valid, G!Ended
  <2>3. CASE pc[g] \notin G!Ended
    <3>1. pc'[g] = "cancelled"
      BY <1>2, <2>1, <2>3 DEF G!Active
    <3>2. live'[g] \subseteq got[g]
      BY <1>2, <2>1, <2>3 DEF G!Active, DebateOK, NothingBefore, SessionsAreKnown
    <3> QED BY <1>1, <2>1, <3>1, <3>2
            DEF DebateOK, CallsAreDebated, NothingBefore, SessionsAreKnown, ConsensusStands,
                NothingMissed, G!Ended
  <2> QED BY <2>2, <2>3
<1> QED BY <1>4, <1>5, <1>6 DEF DebateInv

LEMMA DebateStutters ==
    ASSUME DebateInv, UNCHANGED debateVars PROVE DebateInv'
<1>1. UNCHANGED <<groups, peers, phase, tries, pc, attempt, class, vote, rounds, got, sessions, live,
                  consensus, cancelled>>
  BY DEF debateVars
<1>2. ASSUME NEW g \in Groups PROVE DebateOK(g)'
  <2>1. DebateOK(g)
    BY DEF DebateInv
  <2> QED BY <1>1, <2>1, GroupUntouched
<1>3. G!TypeOK' /\ PhasesInOrder'
  BY <1>1 DEF DebateInv, PhasesInOrder, G!TypeOK
<1> QED BY <1>2, <1>3 DEF DebateInv

LEMMA DebateNext ==
    ASSUME G!NoClassAssumption, G!PeersAssumption, G!MarksAssumption, DebateInv, G!Next
    PROVE  DebateInv'
<1>1. CASE G!RunStep
  BY <1>1, Phasing, FallingBack DEF G!RunStep
<1>2. CASE G!Cancel
  BY <1>2, Cancelling
<1>3. CASE G!Over
  <2>1. UNCHANGED debateVars
    BY <1>3 DEF G!Over, G!vars, G!runVars, G!debateVars, debateVars
  <2> QED BY <2>1, DebateStutters
<1>4. ASSUME NEW g \in groups, G!GroupStep(g) PROVE DebateInv'
  <2>1. CASE \E p \in peers : G!CallPeer(g, p) \/ G!PeerEnds(g, p)
    BY <2>1, Polling
  <2>2. CASE G!RoundEnds(g)
    BY <2>2, RoundEnding
  <2>3. CASE G!Revise(g)
    BY <2>3, Revising
  <2>4. CASE G!Conclude(g)
    BY <2>4, Concluding
  <2> QED BY <1>4, <2>1, <2>2, <2>3, <2>4, Asking DEF G!GroupStep
<1> QED BY <1>1, <1>2, <1>3, <1>4 DEF G!Next

(* What is known of the debates stays true, whichever part moves.          *)
THEOREM DebatesInvariance ==
    ASSUME G!NoClassAssumption, G!PeersAssumption, G!MarksAssumption, G!ShapesAssumption
    PROVE  SuiteSpec => []DebateInv
<1>1. SuiteInit => DebateInv
  BY DebateInit DEF SuiteInit
<1>2. DebateInv /\ [SuiteNext]_suiteVars => DebateInv'
  BY DebateNext, DebateStutters DEF SuiteNext, suiteVars, Debates, Reanalyses
<1> QED BY <1>1, <1>2, PTL DEF SuiteSpec

(* A debate that reports a consensus ends with what every usable peer of   *)
(* its last round voted for, one that ends without a classification had no *)
(* usable vote in any round, and unless it is cancelled it leaves no       *)
(* session of a peer behind.                                               *)
THEOREM DebatesEndTrue ==
    ASSUME G!NoClassAssumption, G!PeersAssumption, G!MarksAssumption, G!ShapesAssumption
    PROVE  SuiteSpec => []ConsensusIsReal
<1>1. ASSUME DebateInv PROVE ConsensusIsReal
  <2>1. groups \subseteq Groups /\ \A g \in groups : DebateOK(g)
    BY <1>1 DEF DebateInv, G!TypeOK
  <2>2. G!ConsensusIsReal
    BY <2>1 DEF G!ConsensusIsReal, DebateOK, ConsensusStands, LastRound
  <2>3. G!ClassificationRecovered
    BY <2>1 DEF G!ClassificationRecovered, DebateOK, NothingMissed
  <2>4. G!PeerSessionsDeleted
    BY <2>1 DEF G!PeerSessionsDeleted, DebateOK, SessionsAreKnown
  <2> QED BY <2>2, <2>3, <2>4 DEF ConsensusIsReal
<1>2. DebateInv => ConsensusIsReal
  BY <1>1
<1> QED BY <1>2, DebatesInvariance, PTL

(* Every variable of the part that moves stays in its range.               *)
THEOREM PartsTypeCorrect ==
    ASSUME RepoAssumption, AnalysisAssumption, G!NoClassAssumption, G!PeersAssumption,
           G!MarksAssumption, G!ShapesAssumption
    PROVE  SuiteSpec => []TypesOK
<1>1. SuiteInit => IInv /\ DebateInv
  BY InitIInv, DebateInit DEF SuiteInit
<1>2. IInv /\ DebateInv /\ [SuiteNext]_suiteVars => (IInv /\ DebateInv)'
  BY NextIInv, DebateNext, DebateStutters, Stutters DEF SuiteNext, suiteVars, Debates, Reanalyses
<1>3. IInv /\ DebateInv => TypesOK
  BY DEF IInv, DebateInv, TypesOK
<1> QED BY <1>1, <1>2, <1>3, PTL DEF SuiteSpec
=============================================================================
