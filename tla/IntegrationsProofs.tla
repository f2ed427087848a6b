------------------------- MODULE IntegrationsProofs -------------------------
(***************************************************************************)
(* What the server does with other systems, for any number of requests,    *)
(* users, links, issues, pushes and failures.                              *)
(*                                                                         *)
(* The server's own keys: no key wears the listing of another, and no free *)
(* model is hidden by a selection but those that were declared free while  *)
(* nothing managed their provider.  A capture that is under way knows a    *)
(* generation.  While the generation is still the row's, the key it was    *)
(* stored with is the row's key: only a write of the key changes it, and   *)
(* gives it a generation nobody knows.  A refresh reads the key and the    *)
(* generation apart, so it may know a key that does not belong to its      *)
(* generation, until it compared them.  A listing that another key left is *)
(* always about to be replaced, by the capture of the request that stored  *)
(* the key, and never by a refresh, which may keep it.                     *)
(*                                                                         *)
(* Links, calls to Jira and pushes: an id that a request knows is that of  *)
(* the link it was read with, or of none, since no id is given twice; a    *)
(* token is used by the user whose secret it was made with, and is good    *)
(* for as long as a call may take; the Datadog series of a scope are all   *)
(* those of one accepted push; and what a push to Report Portal reports is *)
(* what it wrote, whatever another push wrote since.                       *)
(***************************************************************************)
EXTENDS MCIntegrations, TLAPS, FiniteSetTheorems, NaturalsInduction, WellFoundedInduction

-----------------------------------------------------------------------------
(* The server's own keys of a provider, its listing and its selections    *)

Captures == {"discovering", "comparing", "saving"}

Founds == [status : {"unavailable", "unsupported", "supported"}, models : SUBSET Models]

(* A request is at a step, and knows what its step needs.                  *)
Requests ==
    [step : {"idle", "done", "looking", "free", "listing", "sweeping", "clearing"}] \union
    [step : {"verifying", "checking", "storing"}, key : Keys, add : BOOLEAN] \union
    [step : {"discovering"}, key : Keys, add : BOOLEAN, generation : Nat, keep : BOOLEAN] \union
    [step : {"comparing", "saving"}, key : Keys, add : BOOLEAN, generation : Nat,
     keep : BOOLEAN, found : Founds] \union
    [step : {"base"}, free : SUBSET Models] \union
    [step : {"selecting"}, models : SUBSET Models, free : SUBSET Models, seeds : BOOLEAN] \union
    [step : {"editing"}, seen : SUBSET Models] \union
    [step : {"including", "offering"}, models : SUBSET Models] \union
    [step : {"refreshing"}, key : Keys]

Types == TypeOK /\ sequence \in Nat /\ op \in [Ops -> Requests]

(* What a capture knows of the stored key.                                 *)
Knows(r) ==
    r.step \in Captures =>
        /\ r.generation \in 1 .. sequence
        /\ r.generation = generation /\ (~r.keep \/ r.step = "saving") => r.key = key

KeysAreKnown == \A o \in Ops : Knows(op[o])

(* The capture of the request that stored the current key.                 *)
Replaces(r) == r.step \in Captures /\ ~r.keep /\ r.generation = generation

OldListing == Stored /\ listing.has /\ listing.of # key

OldListingIsReplaced == OldListing => \E o \in Ops : Replaces(op[o])

(* An editor of the free models will include this one.                     *)
Includes(r, m) == r.step = "including" /\ m \in r.models

FreeIsIncluded == \A m \in free \ (selected \union adrift) : \E o \in Ops : Includes(op[o], m)

IInv == Types /\ KeysAreKnown /\ OldListingIsReplaced /\ FreeIsIncluded

----------------------------------------------------------------------------
(* The initial state satisfies the invariant.                              *)
LEMMA InitIInv == ASSUME KeysAssumption, Init PROVE IInv
BY DEF KeysAssumption, Init, IInv, Types, TypeOK, KeysAreKnown, Knows, Captures,
       OldListingIsReplaced, OldListing, Stored, FreeIsIncluded, NoListing, Idle, Requests

(* A request that moves and writes nothing keeps the invariant, if what it *)
(* knows then is right, and if it neither gives up the capture that will   *)
(* replace an old listing, nor models it has to include.                   *)
LEMMA OpStep ==
    ASSUME IInv, NEW o \in Ops, NEW new \in Requests, op' = [op EXCEPT ![o] = new],
           UNCHANGED <<row, listing, choice>>,
           op[o].step # "including",
           Knows(new),
           OldListing /\ Replaces(op[o]) => Replaces(new)
    PROVE  IInv'
<1>1. /\ op' \in [Ops -> Requests] /\ op'[o] = new
      /\ \A i \in Ops \ {o} : op'[i] = op[i]
  BY DEF IInv, Types
<1>2. /\ key' = key /\ generation' = generation /\ captured' = captured /\ sequence' = sequence
      /\ listing' = listing /\ selected' = selected /\ free' = free /\ adrift' = adrift
  BY DEF row, choice
<1>3. Types'
  BY <1>1, <1>2 DEF IInv, Types, TypeOK, Stored
<1>4. KeysAreKnown'
  BY <1>1, <1>2 DEF IInv, KeysAreKnown, Knows
<1>5. OldListingIsReplaced'
  <2> SUFFICES ASSUME OldListing' PROVE \E i \in Ops : Replaces(op[i])'
    BY DEF OldListingIsReplaced
  <2>1. OldListing
    BY <1>2 DEF OldListing, Stored
  <2>2. PICK i \in Ops : Replaces(op[i])
    BY <2>1 DEF IInv, OldListingIsReplaced
  <2>3. CASE i = o
    BY <2>1, <2>2, <2>3, <1>1, <1>2 DEF Replaces
  <2>4. CASE i # o
    BY <2>2, <2>4, <1>1, <1>2 DEF Replaces
  <2> QED BY <2>3, <2>4
<1>6. FreeIsIncluded'
  BY <1>1, <1>2 DEF IInv, FreeIsIncluded, Includes
<1> QED BY <1>3, <1>4, <1>5, <1>6 DEF IInv

(* What a request of these steps knows has its type.                       *)
LEMMA AtStep ==
    ASSUME IInv, NEW o \in Ops
    PROVE  /\ op[o].step \in {"verifying", "checking", "storing"} =>
                op[o] \in [step : {"verifying", "checking", "storing"}, key : Keys, add : BOOLEAN]
           /\ op[o].step = "discovering" =>
                op[o] \in [step : {"discovering"}, key : Keys, add : BOOLEAN, generation : Nat, keep : BOOLEAN]
           /\ op[o].step \in {"comparing", "saving"} =>
                op[o] \in [step : {"comparing", "saving"}, key : Keys, add : BOOLEAN, generation : Nat,
                           keep : BOOLEAN, found : Founds]
           /\ op[o].step \in {"idle", "looking", "free"} =>
                op[o] \in [step : {"idle", "done", "looking", "free", "listing", "sweeping", "clearing"}]
           /\ op[o].step = "base" => op[o] \in [step : {"base"}, free : SUBSET Models]
           /\ op[o].step = "selecting" =>
                op[o] \in [step : {"selecting"}, models : SUBSET Models, free : SUBSET Models, seeds : BOOLEAN]
           /\ op[o].step \in {"including", "offering"} =>
                op[o] \in [step : {"including", "offering"}, models : SUBSET Models]
           /\ op[o].step = "refreshing" => op[o] \in [step : {"refreshing"}, key : Keys]
<1>1. op[o] \in Requests
  BY DEF IInv, Types
<1> QED BY <1>1 DEF Requests

(* Most requests are over with a step, or read nothing.                    *)
LEMMA Plain == 
    ASSUME NEW step \in {"idle", "done", "looking", "free", "listing", "sweeping", "clearing"}
    PROVE  [step |-> step] \in Requests /\ Knows([step |-> step])
BY DEF Requests, Knows, Captures

(* Storing: only the write of the key disturbs anything.                   *)
LEMMA Storing ==
    ASSUME KeysAssumption, IInv, NEW o \in Ops,
           \/ \E k \in Keys, add \in BOOLEAN : StartStore(o, k, add)
           \/ Promote(o) \/ Verify(o) \/ Recheck(o)
    PROVE  IInv'
<1>1. CASE \E k \in Keys, add \in BOOLEAN : StartStore(o, k, add)
  <2> PICK k \in Keys, add \in BOOLEAN : StartStore(o, k, add)
    BY <1>1
  <2> DEFINE new == [step |-> "verifying", key |-> k, add |-> add]
  <2>1. new \in Requests /\ Knows(new)
    BY DEF Requests, Knows, Captures
  <2>2. op[o].step = "idle" /\ op' = [op EXCEPT ![o] = new] /\ UNCHANGED <<row, listing, choice>>
    BY DEF StartStore, At
  <2>3. ~Replaces(op[o])
    BY <2>2 DEF Replaces, Captures
  <2> HIDE DEF new
  <2> QED BY <2>1, <2>2, <2>3, OpStep
<1>2. CASE Promote(o)
  <2> DEFINE new == [step |-> "verifying", key |-> Deployed, add |-> TRUE]
  <2>1. new \in Requests /\ Knows(new)
    BY DEF Requests, Knows, Captures, KeysAssumption
  <2>2. op[o].step = "idle" /\ op' = [op EXCEPT ![o] = new] /\ UNCHANGED <<row, listing, choice>>
    BY <1>2 DEF Promote, StartStore, At
  <2>3. ~Replaces(op[o])
    BY <2>2 DEF Replaces, Captures
  <2> HIDE DEF new
  <2> QED BY <2>1, <2>2, <2>3, OpStep
<1>3. ASSUME NEW step \in {"checking", "storing"},
             op[o].step \in {"verifying", "checking"}, Go(o, step), UNCHANGED <<row, listing, choice>>
      PROVE  IInv'
  <2> DEFINE new == [op[o] EXCEPT !.step = step]
  <2>1. op[o] \in [step : {"verifying", "checking", "storing"}, key : Keys, add : BOOLEAN]
    BY <1>3, AtStep
  <2>2. new \in [step : {"verifying", "checking", "storing"}, key : Keys, add : BOOLEAN] /\ new.step = step
    BY <2>1
  <2>3. new \in Requests /\ Knows(new)
    BY <2>2 DEF Requests, Knows, Captures
  <2>4. op' = [op EXCEPT ![o] = new]
    BY <1>3 DEF Go
  <2>5. ~Replaces(op[o]) /\ op[o].step # "including"
    BY <1>3 DEF Replaces, Captures
  <2> HIDE DEF new
  <2> QED BY <2>3, <2>4, <2>5, <1>3, OpStep
<1>4. ASSUME op[o].step \in {"verifying", "checking"}, End(o), UNCHANGED <<row, listing, choice>>
      PROVE  IInv'
  <2>1. Done \in Requests /\ Knows(Done)
    BY Plain DEF Done
  <2>2. ~Replaces(op[o]) /\ op[o].step # "including"
    BY <1>4 DEF Replaces, Captures
  <2> QED BY <2>1, <2>2, <1>4, OpStep DEF End
<1>5. CASE Verify(o)
  BY <1>5, <1>3, <1>4 DEF Verify, At
<1>6. CASE Recheck(o)
  BY <1>6, <1>3, <1>4 DEF Recheck, At
<1> QED BY <1>1, <1>2, <1>5, <1>6

(* The write of a key: nobody knows the generation it gets, and the request*)
(* captures the models of the key next.                                    *)
LEMMA Stores == ASSUME KeysAssumption, IInv, NEW o \in Ops, StoreKey(o) PROVE IInv'
<1> DEFINE next == sequence + 1
<1> DEFINE new == [step |-> "discovering", key |-> op[o].key, add |-> op[o].add,
                   generation |-> next, keep |-> FALSE]
<1>1. op[o] \in [step : {"verifying", "checking", "storing"}, key : Keys, add : BOOLEAN]
      /\ op[o].step = "storing"
  BY AtStep DEF StoreKey, At
<1>2. sequence \in Nat /\ next \in Nat /\ next > sequence /\ next > 0
  BY DEF IInv, Types
<1>3. new \in Requests
  BY <1>1, <1>2 DEF Requests
<1>4. /\ key' = op[o].key /\ sequence' = next /\ generation' = next
      /\ listing' = listing /\ selected' = selected /\ free' = free /\ adrift' = adrift
      /\ captured' = (IF Stored THEN captured ELSE "none")
      /\ op' = [op EXCEPT ![o] = new]
  BY DEF StoreKey, choice
<1>5. new.step = "discovering" /\ new.key = op[o].key /\ new.generation = next /\ new.keep = FALSE
  OBVIOUS
<1> HIDE DEF new, next
<1>6. /\ op' \in [Ops -> Requests] /\ op'[o] = new
      /\ \A i \in Ops \ {o} : op'[i] = op[i]
  BY <1>3, <1>4 DEF IInv, Types
<1>7. Types'
  BY <1>1, <1>2, <1>4, <1>6 DEF IInv, Types, TypeOK, Stored, KeysAssumption
<1>8. KeysAreKnown'
  <2> SUFFICES ASSUME NEW i \in Ops PROVE Knows(op[i])'
    BY DEF KeysAreKnown
  <2>1. CASE i = o
    BY <2>1, <1>2, <1>4, <1>5, <1>6 DEF Knows
  <2>2. CASE i # o
    <3>1. Knows(op[i]) /\ op'[i] = op[i]
      BY <2>2, <1>6 DEF IInv, KeysAreKnown
    <3>2. op[i].step \in Captures => op[i].generation \in 1 .. sequence
      BY <3>1 DEF Knows
    <3>3. op[i].step \in Captures => op[i].generation \in 1 .. next /\ op[i].generation # next
      BY <3>2, <1>2
    <3> QED BY <3>1, <3>3, <1>4 DEF Knows
  <2> QED BY <2>1, <2>2
<1>9. OldListingIsReplaced'
  BY <1>4, <1>5, <1>6 DEF OldListingIsReplaced, Replaces, Captures
<1>10. FreeIsIncluded'
  BY <1>1, <1>4, <1>5, <1>6 DEF IInv, FreeIsIncluded, Includes
<1> QED BY <1>7, <1>8, <1>9, <1>10 DEF IInv

----------------------------------------------------------------------------
(* The sidecar answers: the capture goes on with what it knew.             *)
LEMMA Discovers ==
    ASSUME ModelsAssumption, IInv, NEW o \in Ops, Discover(o) PROVE IInv'
<1>1. PICK found \in Outcomes(op[o].key) :
        op' = [op EXCEPT ![o] = [step |-> "comparing", key |-> op[o].key, add |-> op[o].add,
                                 generation |-> op[o].generation, keep |-> op[o].keep, found |-> found]]
  BY DEF Discover
<1> DEFINE new == [step |-> "comparing", key |-> op[o].key, add |-> op[o].add,
                   generation |-> op[o].generation, keep |-> op[o].keep, found |-> found]
<1>2. op[o] \in [step : {"discovering"}, key : Keys, add : BOOLEAN, generation : Nat, keep : BOOLEAN]
      /\ op[o].step = "discovering"
  BY AtStep DEF Discover, At
<1>3. found \in Founds
  <2>1. Reach[op[o].key] \in SUBSET SUBSET Models
    BY <1>2 DEF ModelsAssumption
  <2> QED BY <2>1 DEF Outcomes, Founds
<1>4. new \in Requests
  BY <1>2, <1>3 DEF Requests
<1>5. Knows(op[o])
  BY DEF IInv, KeysAreKnown
<1>6. Knows(new)
  BY <1>2, <1>5 DEF Knows, Captures
<1>7. Replaces(op[o]) => Replaces(new)
  BY <1>2 DEF Replaces, Captures
<1>8. UNCHANGED <<row, listing, choice>>
  BY DEF Discover
<1>9. op[o].step # "including"
  BY <1>2
<1> HIDE DEF new
<1>10. op' = [op EXCEPT ![o] = new]
  BY <1>1 DEF new
<1> QED BY <1>4, <1>6, <1>7, <1>8, <1>9, <1>10, OpStep

(* After a capture, an added key is given a selection.                     *)
LEMMA After ==
    ASSUME IInv, NEW o \in Ops, AfterCapture(o)
    PROVE  \E new \in Requests : /\ op' = [op EXCEPT ![o] = new] /\ Knows(new)
                                 /\ new.step \in {"looking", "done"}
<1>1. CASE op[o].add
  BY <1>1, Plain DEF AfterCapture
<1>2. CASE ~op[o].add
  BY <1>2, Plain DEF AfterCapture, Done
<1> QED BY <1>1, <1>2

(* The capture gives up only if it is superseded, which the request that   *)
(* stored the current key is not; else it knows the key.                   *)
LEMMA Compares == ASSUME IInv, NEW o \in Ops, Compare(o) PROVE IInv'
<1>1. op[o] \in [step : {"comparing", "saving"}, key : Keys, add : BOOLEAN, generation : Nat,
                 keep : BOOLEAN, found : Founds]
      /\ op[o].step = "comparing"
  BY AtStep DEF Compare, At
<1>2. Knows(op[o])
  BY DEF IInv, KeysAreKnown
<1>3. UNCHANGED <<row, listing, choice>> /\ op[o].step # "including"
  BY <1>1 DEF Compare
<1>4. CASE key = op[o].key /\ generation = op[o].generation
  <2> DEFINE new == [op[o] EXCEPT !.step = "saving"]
  <2>1. /\ new \in [step : {"comparing", "saving"}, key : Keys, add : BOOLEAN, generation : Nat,
                    keep : BOOLEAN, found : Founds]
        /\ new.step = "saving" /\ new.key = op[o].key /\ new.generation = op[o].generation
        /\ new.keep = op[o].keep
    BY <1>1
  <2>2. new \in Requests
    BY <2>1 DEF Requests
  <2>3. Knows(new)
    BY <2>1, <1>1, <1>2, <1>4 DEF Knows, Captures
  <2>4. Replaces(op[o]) => Replaces(new)
    BY <2>1 DEF Replaces, Captures
  <2>5. op' = [op EXCEPT ![o] = new]
    BY <1>4 DEF Compare, Go
  <2> HIDE DEF new
  <2> QED BY <2>2, <2>3, <2>4, <2>5, <1>3, OpStep
<1>5. CASE ~(key = op[o].key /\ generation = op[o].generation)
  <2>1. ~Replaces(op[o])
    BY <1>1, <1>2, <1>5 DEF Replaces, Knows, Captures
  <2>2. PICK new \in Requests : op' = [op EXCEPT ![o] = new] /\ Knows(new)
    BY <1>5, After DEF Compare
  <2> QED BY <2>1, <2>2, <1>3, OpStep
<1> QED BY <1>4, <1>5

(* The listing is written only while the generation is still the row's,    *)
(* and then it is the key's.                                               *)
LEMMA Saves == ASSUME IInv, NEW o \in Ops, SaveListing(o) PROVE IInv'
<1> DEFINE found == op[o].found
<1>1. op[o] \in [step : {"comparing", "saving"}, key : Keys, add : BOOLEAN, generation : Nat,
                 keep : BOOLEAN, found : Founds]
      /\ op[o].step = "saving"
  BY AtStep DEF SaveListing, At
<1>2. op[o].key \in Keys /\ found.status \in {"unavailable", "unsupported", "supported"}
      /\ found.models \in SUBSET Models
  BY <1>1 DEF Founds
<1>3. PICK new \in Requests : /\ op' = [op EXCEPT ![o] = new] /\ Knows(new)
                              /\ new.step \in {"looking", "done"}
  BY After DEF SaveListing
<1>4. /\ key' = key /\ generation' = generation /\ sequence' = sequence
      /\ selected' = selected /\ free' = free /\ adrift' = adrift
  BY DEF SaveListing, choice
<1>5. /\ op' \in [Ops -> Requests] /\ op'[o] = new
      /\ \A i \in Ops \ {o} : op'[i] = op[i]
  BY <1>3 DEF IInv, Types
<1>6. Knows(op[o])
  BY DEF IInv, KeysAreKnown
<1>7. ASSUME GenerationIs(o)
      PROVE  /\ captured' = found.status
             /\ listing' = IF found.status = "supported" THEN Listing(found.models, op[o].key)
                           ELSE IF found.status = "unavailable" /\ op[o].keep THEN listing
                           ELSE NoListing
             /\ op[o].generation = generation /\ op[o].key = key
  BY <1>7, <1>1, <1>6 DEF SaveListing, GenerationIs, Knows, Captures
<1>8. ~GenerationIs(o) => UNCHANGED <<captured, listing>>
  BY DEF SaveListing
<1>9. Types'
  <2>1. listing' \in [has : BOOLEAN, models : SUBSET Models, of : Keys \union {NoKey}]
    <3>1. listing \in [has : BOOLEAN, models : SUBSET Models, of : Keys \union {NoKey}]
      BY DEF IInv, Types, TypeOK
    <3>2. NoListing \in [has : BOOLEAN, models : SUBSET Models, of : Keys \union {NoKey}]
      BY DEF NoListing
    <3>3. Listing(found.models, op[o].key) \in
            [has : BOOLEAN, models : SUBSET Models, of : Keys \union {NoKey}]
      BY <1>2 DEF Listing
    <3> QED BY <1>7, <1>8, <3>1, <3>2, <3>3
  <2>2. captured' \in {"none", "supported", "unsupported", "unavailable"}
    BY <1>2, <1>7, <1>8 DEF IInv, Types, TypeOK
  <2> QED BY <2>1, <2>2, <1>4, <1>5 DEF IInv, Types, TypeOK, Stored
<1>10. KeysAreKnown'
  BY <1>3, <1>4, <1>5 DEF IInv, KeysAreKnown, Knows
<1>11. OldListingIsReplaced'
  <2> SUFFICES ASSUME OldListing' PROVE \E i \in Ops : Replaces(op[i])'
    BY DEF OldListingIsReplaced
  <2>1. GenerationIs(o) => listing' = listing /\ op[o].keep
    BY <1>2, <1>4, <1>7 DEF OldListing, Listing, NoListing
  <2>2. OldListing
    BY <2>1, <1>4, <1>8 DEF OldListing, Stored
  <2>3. PICK i \in Ops : Replaces(op[i])
    BY <2>2 DEF IInv, OldListingIsReplaced
  <2>4. i # o
    BY <2>1, <2>2, <2>3, <1>1 DEF Replaces, GenerationIs, OldListing
  <2> QED BY <2>3, <2>4, <1>4, <1>5 DEF Replaces
<1>12. FreeIsIncluded'
  BY <1>1, <1>3, <1>4, <1>5 DEF IInv, FreeIsIncluded, Includes
<1> QED BY <1>9, <1>10, <1>11, <1>12 DEF IInv

----------------------------------------------------------------------------
(* Seeding and choosing: requests that only read.                          *)
LEMMA Choosing ==
    ASSUME ModelsAssumption, IInv, NEW o \in Ops,
           \/ SeedLook(o) \/ SeedFree(o) \/ SeedBase(o)
           \/ \E models, frees \in SUBSET Models : Select(o, models, frees)
           \/ OpenFree(o)
    PROVE  IInv'
<1>1. TypeOK
  BY DEF IInv, Types
<1>2. ASSUME NEW new \in Requests, Knows(new), op' = [op EXCEPT ![o] = new],
             UNCHANGED <<row, listing, choice>>,
             op[o].step \in {"idle", "looking", "free", "base"}
      PROVE  IInv'
  <2>1. ~Replaces(op[o]) /\ op[o].step # "including"
    BY <1>2 DEF Replaces, Captures
  <2> QED BY <1>2, <2>1, OpStep
<1>3. CASE SeedLook(o)
  <2>1. CASE selected = {}
    <3> DEFINE new == [op[o] EXCEPT !.step = "free"]
    <3>1. op[o] \in [step : {"idle", "done", "looking", "free", "listing", "sweeping", "clearing"}]
          /\ op[o].step = "looking"
      BY <1>3, AtStep DEF SeedLook, At
    <3>2. new \in [step : {"idle", "done", "looking", "free", "listing", "sweeping", "clearing"}]
          /\ new.step = "free"
      BY <3>1
    <3>3. new \in Requests /\ Knows(new)
      BY <3>2 DEF Requests, Knows, Captures
    <3>4. op' = [op EXCEPT ![o] = new]
      BY <1>3, <2>1 DEF SeedLook, Go
    <3> HIDE DEF new
    <3> QED BY <1>2, <1>3, <3>1, <3>3, <3>4 DEF SeedLook
  <2>2. CASE selected # {}
    BY <1>2, <1>3, <2>2, Plain DEF SeedLook, At, End, Done
  <2> QED BY <2>1, <2>2
<1>4. CASE SeedFree(o)
  <2> DEFINE new == [step |-> "base", free |-> free]
  <2>1. new \in Requests /\ Knows(new)
    BY <1>1 DEF TypeOK, Requests, Knows, Captures
  <2>2. op' = [op EXCEPT ![o] = new]
    BY <1>4 DEF SeedFree
  <2> HIDE DEF new
  <2> QED BY <1>2, <1>4, <2>1, <2>2 DEF SeedFree, At
<1>5. CASE SeedBase(o)
  <2> DEFINE base == IF listing.has THEN listing.models ELSE Catalog
  <2> DEFINE new == [step |-> "selecting", free |-> op[o].free, seeds |-> TRUE, models |-> base]
  <2>1. op[o] \in [step : {"base"}, free : SUBSET Models] /\ op[o].step = "base"
    BY <1>5, AtStep DEF SeedBase, At
  <2>2. base \in SUBSET Models
    BY <1>1 DEF TypeOK, ModelsAssumption
  <2>3. op' = [op EXCEPT ![o] = new]
    BY <1>5 DEF SeedBase
  <2> HIDE DEF base
  <2>4. new \in Requests /\ Knows(new)
    BY <2>1, <2>2 DEF Requests, Knows, Captures
  <2> HIDE DEF new
  <2> QED BY <1>2, <1>5, <2>1, <2>3, <2>4 DEF SeedBase
<1>6. CASE \E models, frees \in SUBSET Models : Select(o, models, frees)
  <2> PICK models \in SUBSET Models, frees \in SUBSET Models : Select(o, models, frees)
    BY <1>6
  <2> DEFINE new == [step |-> "selecting", models |-> models, free |-> frees, seeds |-> FALSE]
  <2>1. new \in Requests /\ Knows(new)
    BY DEF Requests, Knows, Captures
  <2>2. op' = [op EXCEPT ![o] = new]
    BY DEF Select
  <2> HIDE DEF new
  <2> QED BY <1>2, <2>1, <2>2 DEF Select, At
<1>7. CASE OpenFree(o)
  <2> DEFINE new == [step |-> "editing", seen |-> free]
  <2>1. new \in Requests /\ Knows(new)
    BY <1>1 DEF TypeOK, Requests, Knows, Captures
  <2>2. op' = [op EXCEPT ![o] = new]
    BY <1>7 DEF OpenFree
  <2> HIDE DEF new
  <2> QED BY <1>2, <1>7, <2>1, <2>2 DEF OpenFree, At
<1> QED BY <1>3, <1>4, <1>5, <1>6, <1>7

(* A request that ends keeps what others know and replace.                 *)
LEMMA Ends ==
    ASSUME IInv, NEW o \in Ops, NEW new \in Requests, op' = [op EXCEPT ![o] = new],
           Knows(new), UNCHANGED <<key, generation, sequence, listing>>,
           op[o].step \notin Captures
    PROVE  /\ op' \in [Ops -> Requests] /\ op'[o] = new
           /\ \A i \in Ops \ {o} : op'[i] = op[i]
           /\ KeysAreKnown' /\ OldListingIsReplaced'
<1>1. /\ op' \in [Ops -> Requests] /\ op'[o] = new
      /\ \A i \in Ops \ {o} : op'[i] = op[i]
  BY DEF IInv, Types
<1>2. KeysAreKnown'
  BY <1>1 DEF IInv, KeysAreKnown, Knows
<1>3. OldListingIsReplaced'
  <2> SUFFICES ASSUME OldListing' PROVE \E i \in Ops : Replaces(op[i])'
    BY DEF OldListingIsReplaced
  <2>1. OldListing
    BY DEF OldListing, Stored
  <2>2. PICK i \in Ops : Replaces(op[i])
    BY <2>1 DEF IInv, OldListingIsReplaced
  <2>3. i # o
    BY <2>2 DEF Replaces
  <2> QED BY <2>2, <2>3, <1>1 DEF Replaces
<1> QED BY <1>1, <1>2, <1>3

(* A selection is written with the free models in it.                      *)
LEMMA Selects == ASSUME IInv, NEW o \in Ops, SetModels(o) PROVE IInv'
<1>1. op[o] \in [step : {"selecting"}, models : SUBSET Models, free : SUBSET Models, seeds : BOOLEAN]
      /\ op[o].step = "selecting"
  BY AtStep DEF SetModels, At
<1>2. op' = [op EXCEPT ![o] = Done] /\ Done \in Requests /\ Knows(Done)
  BY Plain DEF SetModels, End, Done
<1>3. UNCHANGED <<key, generation, captured, sequence, listing>>
  BY DEF SetModels, row
<1>4. /\ op' \in [Ops -> Requests] /\ op'[o] = Done
      /\ \A i \in Ops \ {o} : op'[i] = op[i]
      /\ KeysAreKnown' /\ OldListingIsReplaced'
  BY <1>1, <1>2, <1>3, Ends DEF Captures
<1>5. Included(o) \subseteq Models
  BY <1>1 DEF Included
<1>6. Types'
  BY <1>1, <1>3, <1>4, <1>5 DEF SetModels, choice, IInv, Types, TypeOK, Stored
<1>7. FreeIsIncluded'
  <2>1. CASE UNCHANGED choice
    BY <2>1, <1>1, <1>4 DEF choice, IInv, FreeIsIncluded, Includes
  <2>2. CASE selected' = Included(o) /\ free' = op[o].free /\ adrift' = {}
    BY <2>2 DEF FreeIsIncluded, Included
  <2> QED BY <2>1, <2>2 DEF SetModels
<1> QED BY <1>4, <1>6, <1>7 DEF IInv

(* The free models that are saved are the ones their editor will include.  *)
LEMMA SavesFree ==
    ASSUME IInv, NEW o \in Ops, NEW models \in SUBSET Models, SetFree(o, models)
    PROVE  IInv'
<1>1. UNCHANGED <<key, generation, captured, sequence, listing, selected, adrift>>
      /\ op[o].step = "editing"
  BY DEF SetFree, row, At
<1>2. CASE free = op[o].seen
  <2> DEFINE new == [step |-> "including", models |-> models]
  <2>1. op' = [op EXCEPT ![o] = new] /\ free' = models
    BY <1>2 DEF SetFree
  <2>2. new \in Requests /\ Knows(new) /\ new.step = "including" /\ new.models = models
    BY DEF Requests, Knows, Captures
  <2> HIDE DEF new
  <2>3. /\ op' \in [Ops -> Requests] /\ op'[o] = new
        /\ \A i \in Ops \ {o} : op'[i] = op[i]
        /\ KeysAreKnown' /\ OldListingIsReplaced'
    BY <1>1, <2>1, <2>2, Ends DEF Captures
  <2>4. Types'
    BY <1>1, <2>1, <2>3 DEF IInv, Types, TypeOK, Stored
  <2>5. FreeIsIncluded'
    BY <2>1, <2>2, <2>3 DEF FreeIsIncluded, Includes
  <2> QED BY <2>3, <2>4, <2>5 DEF IInv
<1>3. CASE free # op[o].seen
  <2>1. op' = [op EXCEPT ![o] = Done] /\ UNCHANGED <<row, listing, choice>>
    BY <1>1, <1>3 DEF SetFree, End, row, choice
  <2>2. Done \in Requests /\ Knows(Done)
    BY Plain DEF Done
  <2>3. ~Replaces(op[o])
    BY <1>1 DEF Replaces, Captures
  <2> QED BY <1>1, <2>1, <2>2, <2>3, OpStep
<1> QED BY <1>2, <1>3

(* The editor includes what it saved, or nothing manages the provider.     *)
LEMMA IncludesFree == ASSUME IInv, NEW o \in Ops, AutoInclude(o) PROVE IInv'
<1>1. op[o] \in [step : {"including", "offering"}, models : SUBSET Models] /\ op[o].step = "including"
  BY AtStep DEF AutoInclude, At
<1>2. op' = [op EXCEPT ![o] = Done] /\ Done \in Requests /\ Knows(Done)
  BY Plain DEF AutoInclude, End, Done
<1>3. UNCHANGED <<key, generation, captured, sequence, listing, free>>
  BY DEF AutoInclude, row
<1>4. /\ op' \in [Ops -> Requests] /\ op'[o] = Done
      /\ \A i \in Ops \ {o} : op'[i] = op[i]
      /\ KeysAreKnown' /\ OldListingIsReplaced'
  BY <1>1, <1>2, <1>3, Ends DEF Captures
<1>5. \/ selected' = selected \union op[o].models /\ adrift' = adrift \ op[o].models
      \/ selected' = selected /\ adrift' = adrift \union op[o].models
  BY DEF AutoInclude
<1>6. Types'
  BY <1>1, <1>3, <1>4, <1>5 DEF IInv, Types, TypeOK, Stored
<1>7. FreeIsIncluded'
  <2> SUFFICES ASSUME NEW m \in free \ (selected' \union adrift')
               PROVE  \E i \in Ops : Includes(op[i], m)'
    BY <1>3 DEF FreeIsIncluded
  <2>1. m \notin op[o].models /\ m \in free \ (selected \union adrift)
    BY <1>5
  <2>2. PICK i \in Ops : Includes(op[i], m)
    BY <2>1 DEF IInv, FreeIsIncluded
  <2>3. i # o
    BY <2>1, <2>2 DEF Includes
  <2> QED BY <2>2, <2>3, <1>4 DEF Includes
<1> QED BY <1>4, <1>6, <1>7 DEF IInv

----------------------------------------------------------------------------
(* A refresh reads the key and then the generation, which may be newer: it *)
(* keeps a listing, so nothing relies on it until it compared them.        *)
LEMMA Refreshing ==
    ASSUME IInv, NEW o \in Ops,
           RefreshKey(o) \/ RefreshGeneration(o) \/ RefreshDeployment(o)
    PROVE  IInv'
<1>1. ASSUME NEW new \in Requests, Knows(new), op' = [op EXCEPT ![o] = new],
             UNCHANGED <<row, listing, choice>>, op[o].step \in {"idle", "refreshing"}
      PROVE  IInv'
  <2>1. ~Replaces(op[o]) /\ op[o].step # "including"
    BY <1>1 DEF Replaces, Captures
  <2> QED BY <1>1, <2>1, OpStep
<1>2. CASE RefreshKey(o)
  <2> DEFINE new == [step |-> "refreshing", key |-> key]
  <2>1. key \in Keys
    BY <1>2 DEF RefreshKey, Stored, IInv, Types, TypeOK
  <2>2. new \in Requests /\ Knows(new)
    BY <2>1 DEF Requests, Knows, Captures
  <2>3. op' = [op EXCEPT ![o] = new]
    BY <1>2 DEF RefreshKey
  <2> HIDE DEF new
  <2> QED BY <1>1, <1>2, <2>2, <2>3 DEF RefreshKey, At
<1>3. CASE RefreshGeneration(o)
  <2>1. CASE Stored
    <3> DEFINE new == [step |-> "discovering", key |-> op[o].key, add |-> FALSE,
                       generation |-> generation, keep |-> TRUE]
    <3>1. op[o] \in [step : {"refreshing"}, key : Keys] /\ op[o].step = "refreshing"
      BY <1>3, AtStep DEF RefreshGeneration, At
    <3>2. generation \in 1 .. sequence /\ generation \in Nat
      <4>1. generation > 0
        BY <2>1 DEF IInv, Types, TypeOK, Stored
      <4> QED BY <4>1 DEF IInv, Types, TypeOK
    <3>3. new \in Requests /\ Knows(new)
      BY <3>1, <3>2 DEF Requests, Knows, Captures
    <3>4. op' = [op EXCEPT ![o] = new]
      BY <1>3, <2>1 DEF RefreshGeneration
    <3> HIDE DEF new
    <3> QED BY <1>1, <1>3, <3>1, <3>3, <3>4 DEF RefreshGeneration
  <2>2. CASE ~Stored
    BY <1>1, <1>3, <2>2, Plain DEF RefreshGeneration, At, Done
  <2> QED BY <2>1, <2>2
<1>4. CASE RefreshDeployment(o)
  BY <1>1, <1>4, Plain DEF RefreshDeployment, At
<1> QED BY <1>2, <1>3, <1>4

(* The deployment's listing is looked up and a sweep looks for rows.       *)
LEMMA Looking ==
    ASSUME ModelsAssumption, KeysAssumption, IInv, NEW o \in Ops,
           DiscoverDeployment(o) \/ StartPass(o) \/ SweepRead(o)
    PROVE  IInv'
<1>1. ASSUME NEW new \in Requests, Knows(new), op' = [op EXCEPT ![o] = new],
             UNCHANGED <<row, listing, choice>>, op[o].step \in {"idle", "listing", "sweeping"}
      PROVE  IInv'
  <2>1. ~Replaces(op[o]) /\ op[o].step # "including"
    BY <1>1 DEF Replaces, Captures
  <2> QED BY <1>1, <2>1, OpStep
<1>2. op[o].step \in {"idle", "listing", "sweeping"} /\ UNCHANGED <<row, listing, choice>>
  BY DEF DiscoverDeployment, StartPass, SweepRead, At
<1>3. op[o] \in [step : {"idle", "done", "looking", "free", "listing", "sweeping", "clearing"}]
  BY <1>2 DEF IInv, Types, Requests
<1>4. ASSUME NEW step \in {"listing", "sweeping", "clearing"}, Go(o, step) PROVE IInv'
  <2> DEFINE new == [op[o] EXCEPT !.step = step]
  <2>1. new \in [step : {"idle", "done", "looking", "free", "listing", "sweeping", "clearing"}]
        /\ new.step = step
    BY <1>3
  <2>2. new \in Requests /\ Knows(new)
    BY <2>1 DEF Requests, Knows, Captures
  <2>3. op' = [op EXCEPT ![o] = new]
    BY <1>4 DEF Go
  <2> HIDE DEF new
  <2> QED BY <1>1, <1>2, <2>2, <2>3
<1>5. End(o) => IInv'
  BY <1>1, <1>2, Plain DEF End, Done
<1>6. ASSUME NEW models \in Reach[Deployed],
             op' = [op EXCEPT ![o] = [step |-> "offering", models |-> models]]
      PROVE  IInv'
  <2> DEFINE new == [step |-> "offering", models |-> models]
  <2>1. models \in SUBSET Models
    BY <1>6 DEF ModelsAssumption, KeysAssumption
  <2>2. new \in Requests /\ Knows(new)
    BY <2>1 DEF Requests, Knows, Captures
  <2>3. op' = [op EXCEPT ![o] = new]
    BY <1>6
  <2> HIDE DEF new
  <2> QED BY <1>1, <1>2, <2>2, <2>3
<1>7. CASE DiscoverDeployment(o)
  BY <1>5, <1>6, <1>7 DEF DiscoverDeployment
<1>8. CASE StartPass(o)
  BY <1>4, <1>8 DEF StartPass
<1>9. CASE SweepRead(o)
  BY <1>4, <1>5, <1>9 DEF SweepRead
<1> QED BY <1>7, <1>8, <1>9

(* What a deployment lists is written only while no key is stored; a sweep *)
(* may clear the listing of a key, and leaves none.                        *)
LEMMA Offering ==
    ASSUME KeysAssumption, IInv, NEW o \in Ops, SaveDeployment(o) \/ SweepClear(o)
    PROVE  IInv'
<1>1. op' = [op EXCEPT ![o] = Done] /\ Done \in Requests /\ Knows(Done)
  BY Plain DEF SaveDeployment, SweepClear, End, Done
<1>2. /\ UNCHANGED <<key, generation, captured, sequence, selected, free, adrift>>
      /\ op[o].step \in {"offering", "clearing"}
  BY DEF SaveDeployment, SweepClear, row, choice, At
<1>3. /\ op' \in [Ops -> Requests] /\ op'[o] = Done
      /\ \A i \in Ops \ {o} : op'[i] = op[i]
  BY <1>1 DEF IInv, Types
<1>4. listing' \in [has : BOOLEAN, models : SUBSET Models, of : Keys \union {NoKey}]
  <2>1. CASE SweepClear(o)
    BY <2>1 DEF SweepClear, NoListing
  <2>2. CASE SaveDeployment(o)
    <3>1. op[o] \in [step : {"including", "offering"}, models : SUBSET Models]
      BY <2>2, AtStep DEF SaveDeployment, At
    <3>2. Listing(op[o].models, Deployed) \in
            [has : BOOLEAN, models : SUBSET Models, of : Keys \union {NoKey}]
      BY <3>1 DEF Listing, KeysAssumption
    <3> QED BY <2>2, <3>2 DEF SaveDeployment, IInv, Types, TypeOK
  <2> QED BY <2>1, <2>2
<1>5. Types'
  BY <1>2, <1>3, <1>4 DEF IInv, Types, TypeOK, Stored
<1>6. KeysAreKnown'
  BY <1>1, <1>2, <1>3 DEF IInv, KeysAreKnown, Knows
<1>7. OldListingIsReplaced'
  <2> SUFFICES ASSUME OldListing' PROVE \E i \in Ops : Replaces(op[i])'
    BY DEF OldListingIsReplaced
  <2>1. listing' = listing
    BY <1>2 DEF OldListing, Stored, SaveDeployment, MayOffer, SweepClear, NoListing
  <2>2. OldListing
    BY <2>1, <1>2 DEF OldListing, Stored
  <2>3. PICK i \in Ops : Replaces(op[i])
    BY <2>2 DEF IInv, OldListingIsReplaced
  <2>4. i # o
    BY <2>3, <1>2 DEF Replaces, Captures
  <2> QED BY <2>3, <2>4, <1>2, <1>3 DEF Replaces
<1>8. FreeIsIncluded'
  BY <1>2, <1>3 DEF IInv, FreeIsIncluded, Includes
<1> QED BY <1>5, <1>6, <1>7, <1>8 DEF IInv

(* A removal leaves no key, and a generation that no capture knows.        *)
LEMMA Deletes == ASSUME IInv, NEW o \in Ops, Delete(o) PROVE IInv'
<1>1. op' = [op EXCEPT ![o] = Done] /\ Done \in Requests /\ Knows(Done)
  BY Plain DEF Delete, End, Done
<1>2. /\ key' = NoKey /\ generation' = 0 /\ captured' = "none" /\ sequence' = sequence
      /\ listing' = NoListing /\ selected' = {} /\ free' = {} /\ adrift' = {}
  BY DEF Delete
<1>3. /\ op' \in [Ops -> Requests] /\ op'[o] = Done
      /\ \A i \in Ops \ {o} : op'[i] = op[i]
  BY <1>1 DEF IInv, Types
<1>4. Types'
  BY <1>2, <1>3 DEF IInv, Types, TypeOK, Stored, NoListing
<1>5. KeysAreKnown'
  <2> SUFFICES ASSUME NEW i \in Ops, op'[i].step \in Captures
               PROVE  op'[i].generation \in 1 .. sequence
    BY <1>2 DEF KeysAreKnown, Knows, IInv, Types
  <2>1. i # o
    BY <1>3 DEF Done, Captures
  <2> QED BY <2>1, <1>3 DEF IInv, KeysAreKnown, Knows
<1>6. OldListingIsReplaced' /\ FreeIsIncluded'
  BY <1>2 DEF OldListingIsReplaced, OldListing, Stored, FreeIsIncluded
<1> QED BY <1>4, <1>5, <1>6 DEF IInv

(* Nothing but the deployment changes.                                     *)
LEMMA Elsewhere == ASSUME IInv, UNCHANGED <<row, listing, choice, op>> PROVE IInv'
<1>1. /\ key' = key /\ generation' = generation /\ captured' = captured /\ sequence' = sequence
      /\ listing' = listing /\ selected' = selected /\ free' = free /\ adrift' = adrift
      /\ op' = op
  BY DEF row, choice
<1> QED BY <1>1 DEF IInv, Types, TypeOK, Stored, KeysAreKnown, Knows, OldListingIsReplaced,
                    OldListing, Replaces, FreeIsIncluded, Includes

----------------------------------------------------------------------------
(* Every step of every request keeps the invariant.                        *)
LEMMA NextIInv ==
    ASSUME KeysAssumption, ModelsAssumption, IInv, [Next]_vars
    PROVE  IInv'
<1>1. CASE ManifestChanges
  BY <1>1, Elsewhere DEF ManifestChanges
<1>2. CASE UNCHANGED vars
  BY <1>2, Elsewhere DEF vars
<1>3. ASSUME NEW o \in Ops,
             \/ \E k \in Keys, add \in BOOLEAN : StartStore(o, k, add)
             \/ Promote(o) \/ Verify(o) \/ Recheck(o) \/ StoreKey(o)
             \/ Discover(o) \/ Compare(o) \/ SaveListing(o)
      PROVE  IInv'
  BY <1>3, Storing, Stores, Discovers, Compares, Saves
<1>4. ASSUME NEW o \in Ops,
             \/ SeedLook(o) \/ SeedFree(o) \/ SeedBase(o)
             \/ \E models, frees \in SUBSET Models : Select(o, models, frees)
             \/ SetModels(o) \/ OpenFree(o) \/ AutoInclude(o)
             \/ \E models \in SUBSET Models : SetFree(o, models)
      PROVE  IInv'
  BY <1>4, Choosing, Selects, SavesFree, IncludesFree
<1>5. ASSUME NEW o \in Ops,
             \/ RefreshKey(o) \/ RefreshGeneration(o) \/ RefreshDeployment(o)
             \/ DiscoverDeployment(o) \/ SaveDeployment(o)
             \/ StartPass(o) \/ SweepRead(o) \/ SweepClear(o) \/ Delete(o)
      PROVE  IInv'
  BY <1>5, Refreshing, Looking, Offering, Deletes
<1> QED BY <1>1, <1>2, <1>3, <1>4, <1>5 DEF Next

(* The invariant always holds: what captures know, what is to be replaced, *)
(* and what is to be included.                                             *)
THEOREM Invariance == ASSUME KeysAssumption, ModelsAssumption PROVE Spec => []IInv
<1>1. Init => IInv
  BY InitIInv
<1>2. IInv /\ [Next]_vars => IInv'
  BY NextIInv
<1> QED BY <1>1, <1>2, PTL DEF Spec

(* Every variable stays in its range, and a row has a generation exactly   *)
(* when it has a key.                                                      *)
THEOREM TypeCorrect == ASSUME KeysAssumption, ModelsAssumption PROVE Spec => []TypeOK
<1>1. IInv => TypeOK
  BY DEF IInv, Types
<1> QED BY <1>1, Invariance, PTL

(* One key never wears another key's listing, and a model that is free for *)
(* everyone is hidden by no selection, but while its editor includes it or *)
(* if it was declared free while nothing managed the provider.             *)
THEOREM PoolIsTrue == ASSUME KeysAssumption, ModelsAssumption PROVE Spec => []ListingIsTheKeys
<1>1. ASSUME IInv PROVE OneKeyOneListing
  BY <1>1 DEF IInv, OldListingIsReplaced, OldListing, Replaces, Captures, OneKeyOneListing,
              Capturing
<1>2. ASSUME IInv PROVE FreeIsOffered
  <2> SUFFICES ASSUME \A o \in Ops : ~At(o, "including"), NEW m \in (free \ adrift) \cap Offered
               PROVE  m \in Pool
    BY DEF FreeIsOffered
  <2>1. m \in selected
    BY <1>2 DEF IInv, FreeIsIncluded, Includes, At
  <2> QED BY <2>1 DEF Pool
<1>3. IInv => ListingIsTheKeys
  BY <1>1, <1>2 DEF ListingIsTheKeys
<1> QED BY <1>3, Invariance, PTL

-----------------------------------------------------------------------------
(* Tracked links                                                           *)

Rows == [id : Nat \ {0}, scope : Scopes, url : Urls, by : Users \union {T!Nobody}]
Places == [scope : Scopes, url : Urls]

(* A request that links, that removes, that was refused and that creates.  *)
Setting == [op : {"set"}, step : {"look", "write", "over"}, answer : Nat, user : Users,
            scope : Scopes, url : Urls, known : BOOLEAN, linkId : Nat]
Deleting == [op : {"delete"}, step : {"write", "over"}, answer : Nat, user : Users, link : Rows]
Refused == [op : {"delete"}, step : {"over"}, answer : Nat]
Creating == [op : {"create"}, step : {"post", "comment", "link", "over"}, answer : Nat,
             user : Users, scope : Scopes, url : Urls \union {T!Nowhere}, commented : BOOLEAN]
LinkRequests == {T!Silent} \union Setting \union Deleting \union Refused \union Creating

(* The table keeps its unique index, and its ids are below its sequence.   *)
TableOK ==
    /\ lastId \in Nat /\ links \subseteq Rows
    /\ \A l \in links : l.id <= lastId
    /\ \A l, m \in links : T!Key(l) = T!Key(m) \/ l.id = m.id => l = m
    /\ legacy \subseteq Legacy

MayRemove(q, l) == T!Key(l) = T!Key(q.link) /\ (q.user \in Admins \/ l.by = q.user)

(* What a request holds an id of is that id's only link, or is gone.       *)
KnowsIds(q) ==
    /\ q.op = "set" => q.linkId <= lastId
    /\ q.op = "set" /\ q.step = "over" /\ q.answer = 200 =>
         \A l \in links : l.id = q.linkId => T!Key(l) = T!Key(q)
    /\ q.op = "delete" /\ q.step = "write" =>
         q.link.id <= lastId /\ \A l \in links : l.id = q.link.id => MayRemove(q, l)
    /\ q.op = "create" /\ q.step \in {"comment", "link"} => q.url \in Urls

LinksInv ==
    TableOK /\ request \in [Handlers -> LinkRequests] /\ \A r \in Handlers : KnowsIds(request[r])

(* A step that gives new ids only to new links, and changes an owner only  *)
(* where there was none.                                                   *)
IdsStay ==
    /\ lastId <= lastId'
    /\ \A l \in links' : l.id <= lastId =>
         \E m \in links : /\ m.id = l.id /\ T!Key(m) = T!Key(l)
                          /\ m.by = T!Nobody \/ m.by = l.by

(* What a request knows of an id stays true through such a step.           *)
LEMMA KnownIdsStay ==
    ASSUME TableOK, TableOK', IdsStay, T!LinksAssumption, NEW q \in LinkRequests, KnowsIds(q)
    PROVE  KnowsIds(q)'
<1> USE DEF T!LinksAssumption
<1>1. lastId \in Nat /\ lastId' \in Nat /\ lastId <= lastId' /\ links' \subseteq Rows
  BY DEF TableOK, IdsStay
<1>2. q.op = "set" => q.linkId \in Nat
  BY DEF LinkRequests, Setting, Deleting, Refused, Creating, T!Silent
<1>3. q.op = "delete" /\ q.step = "write" => q.link.id \in Nat /\ q.user \in Users
  BY DEF LinkRequests, Setting, Deleting, Refused, Creating, T!Silent, Rows
<1>4. q.op = "set" => q.linkId <= lastId'
  BY <1>1, <1>2 DEF KnowsIds
<1>5. ASSUME q.op = "set", q.step = "over", q.answer = 200, NEW l \in links', l.id = q.linkId
      PROVE  T!Key(l) = T!Key(q)
  BY <1>5, <1>1, <1>2 DEF KnowsIds, IdsStay
<1>6. ASSUME q.op = "delete", q.step = "write"
      PROVE  q.link.id <= lastId' /\ \A l \in links' : l.id = q.link.id => MayRemove(q, l)
  <2>1. q.link.id <= lastId'
    BY <1>1, <1>3, <1>6 DEF KnowsIds
  <2>2. ASSUME NEW l \in links', l.id = q.link.id PROVE MayRemove(q, l)
    <3>1. PICK m \in links : /\ m.id = l.id /\ T!Key(m) = T!Key(l)
                             /\ m.by = T!Nobody \/ m.by = l.by
      BY <1>6, <2>2 DEF KnowsIds, IdsStay
    <3>2. MayRemove(q, m)
      BY <1>6, <2>2, <3>1 DEF KnowsIds
    <3> QED BY <1>3, <1>6, <3>1, <3>2 DEF MayRemove
  <2> QED BY <2>1, <2>2
<1> QED BY <1>4, <1>5, <1>6 DEF KnowsIds, MayRemove

(* LinkIsStored a link gives it a new id, or gives its row an owner.            *)
LEMMA LinkIsStored ==
    ASSUME TableOK, T!LinksAssumption, NEW s \in Scopes, NEW url \in Urls, NEW user \in Users,
           T!Upsert(s, url, user), UNCHANGED legacy
    PROVE  /\ TableOK' /\ IdsStay
           /\ lastId' # lastId =>
                lastId' \in Nat \ {0} /\ \A l \in links' : l.id = lastId' => l.scope = s /\ l.url = url
<1> DEFINE same == {l \in links : l.scope = s /\ l.url = url}
<1>0. lastId \in Nat /\ links \subseteq Rows /\ legacy' \subseteq Legacy
  BY DEF TableOK
<1>1. CASE same = {}
  <2> DEFINE new == [id |-> lastId + 1, scope |-> s, url |-> url, by |-> user]
  <2>1. links' = links \union {new} /\ lastId' = lastId + 1
    BY <1>1 DEF T!Upsert, T!FreshId
  <2>2. new \in Rows /\ new.id = lastId + 1 /\ T!Key(new) = [scope |-> s, url |-> url]
    BY <1>0 DEF Rows, T!Key
  <2>3. \A l \in links : l.id <= lastId /\ l.id \in Nat
    BY <1>0 DEF TableOK, Rows
  <2>4. \A l \in links : T!Key(l) # T!Key(new) /\ l.id # new.id
    BY <1>0, <1>1, <2>2, <2>3 DEF T!Key
  <2>5. TableOK'
    <3>1. lastId' \in Nat /\ links' \subseteq Rows /\ \A l \in links' : l.id <= lastId'
      BY <1>0, <2>1, <2>2, <2>3
    <3>2. \A l, m \in links' : T!Key(l) = T!Key(m) \/ l.id = m.id => l = m
      BY <2>1, <2>4 DEF TableOK
    <3> QED BY <1>0, <3>1, <3>2 DEF TableOK
  <2>6. IdsStay
    BY <1>0, <2>1, <2>2, <2>3 DEF IdsStay
  <2>7. \A l \in links' : l.id = lastId' => l = new
    BY <1>0, <2>1, <2>3
  <2> QED BY <1>0, <2>1, <2>5, <2>6, <2>7
<1>2. CASE same # {}
  <2>1. links' = (links \ same) \union {T!Adopted(l, user) : l \in same} /\ lastId' = lastId
    BY <1>2 DEF T!Upsert
  <2>2. \A l \in links : /\ T!Adopted(l, user) \in Rows /\ T!Adopted(l, user).id = l.id
                         /\ T!Key(T!Adopted(l, user)) = T!Key(l)
                         /\ l.by = T!Nobody \/ T!Adopted(l, user).by = l.by
    BY <1>0 DEF T!Adopted, Rows, T!Key
  <2>3. \A l \in links' : \E m \in links : /\ m.id = l.id /\ T!Key(m) = T!Key(l) /\ l \in Rows
                                           /\ m.by = T!Nobody \/ m.by = l.by
                                           /\ l = IF m \in same THEN T!Adopted(m, user) ELSE m
    BY <1>0, <2>1, <2>2
  <2>4. TableOK'
    <3>1. lastId' \in Nat /\ links' \subseteq Rows /\ \A l \in links' : l.id <= lastId'
      BY <1>0, <2>1, <2>3 DEF TableOK
    <3>2. ASSUME NEW l \in links', NEW m \in links', T!Key(l) = T!Key(m) \/ l.id = m.id
          PROVE  l = m
      <4>1. PICK a \in links : /\ a.id = l.id /\ T!Key(a) = T!Key(l)
                               /\ l = IF a \in same THEN T!Adopted(a, user) ELSE a
        BY <2>3
      <4>2. PICK b \in links : /\ b.id = m.id /\ T!Key(b) = T!Key(m)
                               /\ m = IF b \in same THEN T!Adopted(b, user) ELSE b
        BY <2>3
      <4>3. a = b
        BY <3>2, <4>1, <4>2 DEF TableOK
      <4> QED BY <4>1, <4>2, <4>3
    <3> QED BY <1>0, <3>1, <3>2 DEF TableOK
  <2>5. IdsStay
    BY <1>0, <2>1, <2>3 DEF IdsStay
  <2> QED BY <2>1, <2>4, <2>5
<1> QED BY <1>1, <1>2

(* The copy at the start gives old links new ids, in a table without rows. *)
LEMMA Copying ==
    ASSUME LinksInv, T!LinksAssumption, T!Restart
    PROVE  LinksInv'
<1>0. lastId \in Nat /\ links \subseteq Rows /\ legacy \subseteq Legacy /\ legacy' = legacy
  BY DEF LinksInv, TableOK, T!Restart
<1>1. request' = [r \in Handlers |-> T!Silent]
  BY DEF T!Restart
<1>2. TableOK'
  <2>1. CASE links = {}
    <3>0. IsFiniteSet(Legacy)
      BY DEF T!LinksAssumption, T!IsFiniteSet, IsFiniteSet
    <3>1. IsFiniteSet(legacy) /\ Cardinality(legacy) \in Nat
      BY <1>0, <3>0, FS_Subset, FS_CardinalityType
    <3>2. T!Cardinality(legacy) = Cardinality(legacy)
      BY DEF T!Cardinality, Cardinality, T!IsFiniteSet, IsFiniteSet
    <3>3. PICK order \in [legacy -> (lastId + 1)..lastId'] :
            /\ lastId' = lastId + Cardinality(legacy)
            /\ \A a, b \in legacy : order[a] = order[b] => a = b
            /\ links' = {[id |-> order[k], scope |-> k.scope, url |-> k.url, by |-> T!Nobody]
                           : k \in legacy}
      BY <2>1, <3>2 DEF T!Restart, T!CopiesLegacy
    <3> DEFINE copied(k) == [id |-> order[k], scope |-> k.scope, url |-> k.url, by |-> T!Nobody]
    <3>4. lastId' \in Nat
      BY <1>0, <3>1, <3>3
    <3>5. \A k \in legacy : k \in Places
      BY <1>0 DEF T!LinksAssumption, Places
    <3>6. \A k \in legacy : copied(k) \in Rows /\ copied(k).id <= lastId' /\ T!Key(copied(k)) = k
      BY <1>0, <3>3, <3>4, <3>5 DEF Rows, Places, T!Key
    <3>7. \A a, b \in legacy : copied(a).id = copied(b).id => a = b
      BY <3>3
    <3>8. \A l \in links' : \E k \in legacy : l = copied(k)
      BY <3>3
    <3> HIDE DEF copied
    <3>9. \A l, m \in links' : T!Key(l) = T!Key(m) \/ l.id = m.id => l = m
      BY <3>6, <3>7, <3>8
    <3> QED BY <1>0, <3>4, <3>6, <3>8, <3>9 DEF TableOK
  <2>2. CASE links # {}
    BY <2>2 DEF T!Restart, T!CopiesLegacy, LinksInv, TableOK, T!Key
  <2> QED BY <2>1, <2>2
<1>3. T!Silent \in LinkRequests /\ KnowsIds(T!Silent)'
  BY DEF LinkRequests, KnowsIds, T!Silent
<1> QED BY <1>1, <1>2, <1>3 DEF LinksInv

(* A step of one request: the others know what they knew.                  *)
LEMMA Serving ==
    ASSUME LinksInv, T!LinksAssumption, NEW r \in Handlers, NEW q,
           request' = [request EXCEPT ![r] = q], TableOK', IdsStay,
           q \in LinkRequests, KnowsIds(q)'
    PROVE  LinksInv'
<1>1. \A p \in Handlers : request'[p] = IF p = r THEN q ELSE request[p]
  BY DEF LinksInv
<1>2. \A p \in Handlers : request[p] \in LinkRequests /\ KnowsIds(request[p])
  BY DEF LinksInv
<1>3. ASSUME NEW p \in Handlers, p # r PROVE KnowsIds(request[p])'
  <2>1. PICK o \in LinkRequests : o = request[p]
    BY <1>2
  <2>2. KnowsIds(o)'
    BY <1>2, <2>1, KnownIdsStay DEF LinksInv
  <2> QED BY <1>1, <1>3, <2>1, <2>2 DEF KnowsIds, MayRemove
<1>4. KnowsIds(request[r])'
  BY <1>1 DEF KnowsIds, MayRemove
<1> QED BY <1>1, <1>3, <1>4 DEF LinksInv

(* Where the table is left alone.                                          *)
LEMMA LookingOn ==
    ASSUME LinksInv, T!LinksAssumption, NEW r \in Handlers, NEW q,
           request' = [request EXCEPT ![r] = q], UNCHANGED <<links, lastId, legacy>>,
           q \in LinkRequests, KnowsIds(q)
    PROVE  LinksInv'
<1>1. TableOK' /\ IdsStay /\ lastId \in Nat
  BY DEF LinksInv, TableOK, IdsStay, T!Key
<1>2. KnowsIds(q)'
  BY DEF KnowsIds, MayRemove
<1> QED BY <1>1, <1>2, Serving

Over(q, a) == [q EXCEPT !.step = "over", !.answer = a]
(* A request that is answered knows nothing any more.                      *)
LEMMA Answered ==
    ASSUME NEW q \in Creating, NEW a \in Nat
    PROVE  Over(q, a) \in LinkRequests /\ KnowsIds(Over(q, a)) /\ KnowsIds(Over(q, a))'
<1>1. PICK k, c, u, s, w, b :
        /\ u \in Users /\ s \in Scopes /\ w \in Urls \union {T!Nowhere} /\ b \in BOOLEAN
        /\ q = [op |-> "create", step |-> k, answer |-> c, user |-> u, scope |-> s, url |-> w,
                commented |-> b]
  BY DEF Creating
<1>2. PICK m : m = [q EXCEPT !.step = "over"]
  OBVIOUS
<1>3. m = [op |-> "create", step |-> "over", answer |-> c, user |-> u, scope |-> s, url |-> w,
           commented |-> b]
  BY <1>1, <1>2
<1>4. PICK n : n = Over(q, a)
  OBVIOUS
<1>5. n = [m EXCEPT !.answer = a]
  BY <1>2, <1>4 DEF Over
<1>6. n = [op |-> "create", step |-> "over", answer |-> a, user |-> u, scope |-> s, url |-> w,
           commented |-> b]
  BY <1>3, <1>5
<1>7. n \in Creating /\ n.step = "over" /\ n.op = "create"
  BY <1>1, <1>6 DEF Creating
<1> QED BY <1>4, <1>7 DEF KnowsIds, LinkRequests

(* Every step of a request keeps what the requests know of the ids.        *)
LEMMA ServeLinks ==
    ASSUME LinksInv, T!LinksAssumption, NEW r \in Handlers, T!Serve(r) PROVE LinksInv'
<1>0. PICK q : q = request[r]
  OBVIOUS
<1>1. q \in LinkRequests /\ KnowsIds(q) /\ TableOK /\ lastId \in Nat /\ links \subseteq Rows
  BY <1>0 DEF LinksInv, TableOK
<1>2. q.op = "set" => q \in Setting
  BY <1>1 DEF LinkRequests, Deleting, Refused, Creating, T!Silent
<1>3. q.op = "create" => q \in Creating
  BY <1>1 DEF LinkRequests, Deleting, Refused, Setting, T!Silent
<1>4. q.op = "delete" /\ q.step = "write" => q \in Deleting
  BY <1>1 DEF LinkRequests, Creating, Refused, Setting, T!Silent
<1>5. ASSUME NEW user \in Users, NEW s \in Scopes, NEW url \in Urls, T!BeginSet(r, user, s, url)
      PROVE  LinksInv'
  <2> DEFINE n == [op |-> "set", step |-> IF job THEN "look" ELSE "over", answer |-> 404,
                   user |-> user, scope |-> s, url |-> url, known |-> FALSE, linkId |-> 0]
  <2>1. request' = [request EXCEPT ![r] = n] /\ UNCHANGED <<links, lastId, legacy>>
    BY <1>5 DEF T!BeginSet
  <2>2. n \in LinkRequests
    BY DEF LinkRequests, Setting
  <2>3. KnowsIds(n)
    BY <1>1 DEF KnowsIds
  <2>4. PICK m : m = n
    OBVIOUS
  <2> HIDE DEF n
  <2> QED BY <2>1, <2>2, <2>3, <2>4, LookingOn
<1>6. ASSUME NEW user \in Users, NEW s \in Scopes, T!BeginCreate(r, user, s)
      PROVE  LinksInv'
  <2> DEFINE n == [op |-> "create", step |-> IF job THEN "post" ELSE "over", answer |-> 404,
                   user |-> user, scope |-> s, url |-> T!Nowhere, commented |-> FALSE]
  <2>1. request' = [request EXCEPT ![r] = n] /\ UNCHANGED <<links, lastId, legacy>>
    BY <1>6 DEF T!BeginCreate
  <2>2. n \in LinkRequests
    BY DEF LinkRequests, Creating
  <2>3. KnowsIds(n)
    BY DEF KnowsIds
  <2>4. PICK m : m = n
    OBVIOUS
  <2> HIDE DEF n
  <2> QED BY <2>1, <2>2, <2>3, <2>4, LookingOn
<1>7. ASSUME NEW user \in Users, NEW id \in 0..MaxId, T!BeginDelete(r, user, id)
      PROVE  LinksInv'
  <2> DEFINE refusal(a) == [op |-> "delete", step |-> "over", answer |-> a]
             n(l) == [op |-> "delete", step |-> "write", answer |-> 0, user |-> user, link |-> l]
  <2>1. PICK l \in links \union {[id |-> 0]} :
          /\ l.id = id
          /\ request' = [request EXCEPT ![r] = IF id = 0 THEN refusal(404)
                           ELSE IF ~T!MayDelete(user, l) THEN refusal(403) ELSE n(l)]
    BY <1>7 DEF T!BeginDelete
  <2>2. UNCHANGED <<links, lastId, legacy>>
    BY <1>7 DEF T!BeginDelete
  <2>3. refusal(404) \in LinkRequests /\ refusal(403) \in LinkRequests
    BY DEF LinkRequests, Refused
  <2>4. KnowsIds(refusal(404)) /\ KnowsIds(refusal(403))
    BY DEF KnowsIds
  <2>5. ASSUME id # 0, T!MayDelete(user, l) PROVE n(l) \in LinkRequests /\ KnowsIds(n(l))
    <3>1. l \in links /\ l \in Rows
      BY <1>1, <2>1, <2>5
    <3>2. n(l) \in LinkRequests
      BY <3>1 DEF LinkRequests, Deleting
    <3>3. \A m \in links : m.id = l.id => MayRemove(n(l), m)
      BY <2>5, <3>1 DEF LinksInv, TableOK, MayRemove, T!MayDelete
    <3>4. l.id <= lastId
      BY <3>1 DEF LinksInv, TableOK
    <3> QED BY <3>2, <3>3, <3>4 DEF KnowsIds
  <2> HIDE DEF refusal, n
  <2>6. PICK m : m = IF id = 0 THEN refusal(404)
                     ELSE IF ~T!MayDelete(user, l) THEN refusal(403) ELSE n(l)
    OBVIOUS
  <2>7. m \in LinkRequests /\ KnowsIds(m)
    BY <2>3, <2>4, <2>5, <2>6
  <2>8. request' = [request EXCEPT ![r] = m]
    BY <2>1, <2>6
  <2> QED BY <2>2, <2>7, <2>8, LookingOn
<1>8. ASSUME T!LookBeforeSet(r) PROVE LinksInv'
  <2> DEFINE sees == request[r].url \in {l.url : l \in T!ForScope(request[r].scope)}
             n == [q EXCEPT !.step = "write", !.known = sees]
  <2>1. request' = [request EXCEPT ![r] = n] /\ UNCHANGED <<links, lastId, legacy>> /\ q.op = "set"
    BY <1>0, <1>8 DEF T!LookBeforeSet, LinksInv
  <2>2. sees \in BOOLEAN
    OBVIOUS
  <2> HIDE DEF sees
  <2>3. n \in Setting /\ n.step = "write" /\ n.linkId = q.linkId /\ n.op = "set"
    BY <1>2, <2>1, <2>2 DEF Setting
  <2>4. n \in LinkRequests /\ KnowsIds(n)
    BY <1>1, <2>1, <2>3 DEF KnowsIds, LinkRequests
  <2> QED BY <2>1, <2>4, LookingOn
<1>9. ASSUME T!WriteSet(r) PROVE LinksInv'
  <2> DEFINE id == IF lastId' # lastId THEN lastId' ELSE 0
             n == [q EXCEPT !.step = "over", !.answer = 200, !.linkId = id]
  <2>1. q.op = "set" /\ q \in Setting /\ request' = [request EXCEPT ![r] = n]
        /\ T!Upsert(q.scope, q.url, q.user) /\ UNCHANGED legacy
    BY <1>0, <1>2, <1>9 DEF T!WriteSet
  <2>2. q.scope \in Scopes /\ q.url \in Urls /\ q.user \in Users
    BY <2>1 DEF Setting
  <2>3. /\ TableOK' /\ IdsStay
        /\ lastId' # lastId => lastId' \in Nat \ {0} /\
             \A l \in links' : l.id = lastId' => l.scope = q.scope /\ l.url = q.url
    BY <1>1, <2>1, <2>2, LinkIsStored
  <2>4. id \in Nat /\ id <= lastId' /\ lastId' \in Nat
    BY <2>3, <1>1 DEF TableOK
  <2>5. \A l \in links' : l.id = id => l.scope = q.scope /\ l.url = q.url
    BY <2>3 DEF TableOK, Rows
  <2>6. PICK k : k = id
    OBVIOUS
  <2>7. PICK m : m = [q EXCEPT !.step = "over", !.answer = 200, !.linkId = k]
    OBVIOUS
  <2> HIDE DEF id
  <2>8. m \in Setting /\ m.op = "set" /\ m.scope = q.scope /\ m.url = q.url /\ m.linkId = k
    <3>1. PICK e, a, u, s, w, b, i :
            /\ u \in Users /\ s \in Scopes /\ w \in Urls /\ b \in BOOLEAN
            /\ q = [op |-> "set", step |-> e, answer |-> a, user |-> u, scope |-> s, url |-> w,
                    known |-> b, linkId |-> i]
      BY <2>1 DEF Setting
    <3>2. PICK n1 : n1 = [q EXCEPT !.step = "over"]
      OBVIOUS
    <3>3. n1 = [op |-> "set", step |-> "over", answer |-> a, user |-> u, scope |-> s, url |-> w,
                known |-> b, linkId |-> i]
      BY <3>1, <3>2
    <3>4. PICK n2 : n2 = [n1 EXCEPT !.answer = 200]
      OBVIOUS
    <3>5. n2 = [op |-> "set", step |-> "over", answer |-> 200, user |-> u, scope |-> s, url |-> w,
                known |-> b, linkId |-> i]
      BY <3>3, <3>4
    <3>6. m = [n2 EXCEPT !.linkId = k]
      BY <2>7, <3>2, <3>4
    <3>7. m = [op |-> "set", step |-> "over", answer |-> 200, user |-> u, scope |-> s,
               url |-> w, known |-> b, linkId |-> k]
      BY <3>5, <3>6
    <3> QED BY <2>4, <2>6, <3>1, <3>7 DEF Setting
  <2>9. m \in LinkRequests /\ KnowsIds(m)'
    BY <2>4, <2>5, <2>6, <2>8 DEF KnowsIds, LinkRequests, T!Key
  <2> QED BY <2>1, <2>3, <2>6, <2>7, <2>9, Serving
<1>10. ASSUME T!WriteDelete(r) PROVE LinksInv'
  <2> DEFINE n == [q EXCEPT !.step = "over", !.answer = 200]
  <2>1. q \in Deleting /\ request' = [request EXCEPT ![r] = n] /\ links' \subseteq links
        /\ UNCHANGED <<lastId, legacy>>
    BY <1>0, <1>4, <1>10 DEF T!WriteDelete, T!Answer, LinksInv
  <2>2. TableOK' /\ IdsStay
    BY <1>1, <2>1 DEF TableOK, IdsStay, T!Key
  <2>3. n \in Deleting /\ n.step = "over" /\ n.op = "delete"
    <3>1. PICK k, a, u, l :
            /\ u \in Users /\ l \in Rows
            /\ q = [op |-> "delete", step |-> k, answer |-> a, user |-> u, link |-> l]
      BY <2>1 DEF Deleting
    <3>2. PICK m : m = [q EXCEPT !.step = "over"]
      OBVIOUS
    <3>3. m = [op |-> "delete", step |-> "over", answer |-> a, user |-> u, link |-> l]
      BY <3>1, <3>2
    <3>4. n = [m EXCEPT !.answer = 200]
      BY <3>2
    <3>5. n = [op |-> "delete", step |-> "over", answer |-> 200, user |-> u, link |-> l]
      BY <3>3, <3>4
    <3> QED BY <3>1, <3>5 DEF Deleting
  <2>4. n \in LinkRequests /\ KnowsIds(n)'
    BY <2>3 DEF KnowsIds, LinkRequests
  <2> QED BY <2>1, <2>2, <2>4, Serving
<1>11. ASSUME NEW url \in Issues, T!Posted(r, url) PROVE LinksInv'
  <2> DEFINE n == [q EXCEPT !.step = "comment", !.url = url]
  <2>1. q \in Creating /\ request' = [request EXCEPT ![r] = n] /\ UNCHANGED <<links, lastId, legacy>>
    BY <1>0, <1>3, <1>11 DEF T!Posted, LinksInv
  <2>2. n \in Creating /\ n.url = url /\ url \in Urls /\ n.op = "create"
    BY <2>1 DEF Creating, T!LinksAssumption
  <2>3. n \in LinkRequests /\ KnowsIds(n)
    BY <2>2 DEF KnowsIds, LinkRequests
  <2> QED BY <2>1, <2>3, LookingOn
<1>12. ASSUME T!PostFails(r) PROVE LinksInv'
  <2>0. q \in Creating /\ 502 \in Nat
    BY <1>0, <1>3, <1>12 DEF T!PostFails
  <2>1. request' = [request EXCEPT ![r] = Over(request[r], 502)] /\ UNCHANGED <<links, lastId, legacy>>
    <3>1. T!Answer(r, 502) /\ UNCHANGED <<links, lastId, legacy>>
      BY <1>12 DEF T!PostFails
    <3>2. request' = [request EXCEPT ![r] = Over(request[r], 502)]
      BY <3>1 DEF T!Answer, Over
    <3> QED BY <3>1, <3>2
  <2>2. PICK m : m = Over(q, 502)
    OBVIOUS
  <2>3. m \in LinkRequests /\ KnowsIds(m)
    BY <2>0, <2>2, Answered
  <2> QED BY <1>0, <2>1, <2>2, <2>3, LookingOn
<1>13. ASSUME T!AddComment(r) PROVE LinksInv'
  <2> DEFINE n == [q EXCEPT !.step = "link", !.commented = TRUE]
             m == [q EXCEPT !.step = "link"]
  <2>1. q \in Creating /\ UNCHANGED <<links, lastId, legacy>> /\ q.op = "create" /\ q.step = "comment"
    BY <1>0, <1>3, <1>13 DEF T!AddComment
  <2>2. request' = [request EXCEPT ![r] = n] \/ request' = [request EXCEPT ![r] = m]
    BY <1>0, <1>13 DEF T!AddComment, LinksInv
  <2>3. n \in Creating /\ n.url = q.url /\ m \in Creating /\ m.url = q.url
        /\ n.op = "create" /\ m.op = "create"
    BY <2>1 DEF Creating
  <2>4. n \in LinkRequests /\ KnowsIds(n) /\ m \in LinkRequests /\ KnowsIds(m)
    BY <1>1, <2>1, <2>3 DEF KnowsIds, LinkRequests
  <2> QED BY <2>1, <2>2, <2>4, LookingOn
<1>14. ASSUME T!AddLink(r) PROVE LinksInv'
  <2>0. q \in Creating /\ q.op = "create" /\ q.step = "link" /\ 201 \in Nat
    BY <1>0, <1>3, <1>14 DEF T!AddLink
  <2>1. PICK m : m = Over(q, 201)
    OBVIOUS
  <2>2. UNCHANGED legacy /\ request' = [request EXCEPT ![r] = m]
    <3>1. request' = [request EXCEPT ![r] = Over(request[r], 201)] /\ UNCHANGED legacy
      BY <1>14 DEF T!AddLink, T!Answer, Over
    <3> QED BY <1>0, <2>1, <3>1
  <2>3. m \in LinkRequests /\ KnowsIds(m) /\ KnowsIds(m)'
    <3>1. KnowsIds(Over(q, 201))'
      BY <2>0, Answered
    <3> QED BY <2>0, <2>1, <3>1, Answered DEF KnowsIds, MayRemove
  <2>4. CASE T!Upsert(q.scope, q.url, q.user)
    <3>1. q.scope \in Scopes /\ q.url \in Urls /\ q.user \in Users
      BY <1>1, <2>0 DEF Creating, KnowsIds
    <3>2. TableOK' /\ IdsStay
      BY <1>1, <2>2, <2>4, <3>1, LinkIsStored
    <3> QED BY <2>2, <2>3, <3>2, Serving
  <2>5. CASE UNCHANGED <<links, lastId>>
    BY <2>2, <2>3, <2>5, LookingOn
  <2> QED BY <1>0, <1>14, <2>4, <2>5 DEF T!AddLink
<1> QED BY <1>5, <1>6, <1>7, <1>8, <1>9, <1>10, <1>11, <1>12, <1>13, <1>14 DEF T!Serve

(* At the start no request is under way.                                   *)
LEMMA LinksInit ==
    ASSUME T!LinksAssumption, T!Init PROVE LinksInv
<1>1. T!Silent \in LinkRequests /\ KnowsIds(T!Silent)
  BY DEF LinkRequests, KnowsIds, T!Silent
<1> QED BY <1>1 DEF LinksInv, TableOK, T!Init

(* The other parts change no link.                                         *)
LEMMA LinksStutter ==
    ASSUME LinksInv, UNCHANGED linkVars PROVE LinksInv'
BY DEF LinksInv, TableOK, KnowsIds, MayRemove, T!Key, linkVars

(* Every step of the links keeps their invariant.                          *)
LEMMA LinksNext ==
    ASSUME T!LinksAssumption, LinksInv, T!Next PROVE LinksInv'
<1>1. CASE T!DeleteJob
  BY <1>1 DEF T!DeleteJob, LinksInv, TableOK, KnowsIds, MayRemove, T!Key
<1> QED BY <1>1, ServeLinks, Copying DEF T!Next

(* With the invariant the id a removal uses is that of its link.           *)
LEMMA LinksHold ==
    ASSUME LinksInv PROVE T!IdsNameOneLink
BY DEF LinksInv, KnowsIds, MayRemove, T!IdsNameOneLink

-----------------------------------------------------------------------------
(* Calls to Jira                                                           *)

Owners == Users \union {J!Server}
Secrets == [owner : Owners \union {J!Unset}, kind : J!Kinds \union {J!None},
            field : {"sa", "token", "server", J!Unset}]
Minted == [owner : Owners \union {J!Unset}, kind : {"access"},
           field : {"sa", "token", "server", J!Unset}, expires : Nat]

(* A connection as it is chosen, located, and completed.                   *)
Connections ==
    [mode : {J!None, "sa", "atst", "cloud", "server"},
     base : {J!Unset, "gateway", "cloud", "server"}, email : Owners \union {J!None},
     bearer : Secrets \union Minted, client : ClientIds \union {J!NoClient},
     secret : Secrets, site : BOOLEAN]

(* The secrets of a connection are those of one user.                      *)
IsOf(c, user) ==
    /\ c.email \in {J!None, user}
    /\ c.mode = "sa" => c.secret.owner = user
    /\ c.mode = "atst" => c.bearer.owner = user /\ c.bearer.kind = "ATST"
    /\ c.mode \in {"cloud", "server"} =>
         c.bearer.owner = user /\ c.bearer.kind \in J!Kinds /\ c.base \in {"cloud", "server"}
    /\ c.mode \in {"sa", "atst"} => c.base \in {J!Unset, "gateway"}

(* Credentials that a method is chosen from, of one user.                  *)
Offers == [mode : J!Modes, oauth : Secrets, atst : Secrets, api : Secrets, pat : Secrets,
           email : Owners \union {J!None}]
AreOf(e, user) ==
    /\ e.email \in {J!None, user}
    /\ \A s \in {e.oauth, e.atst, e.api, e.pat} :
         s # J!NoSecret => s.owner = user /\ s.kind \in J!Kinds
    /\ e.atst # J!NoSecret => e.atst.kind = "ATST"

(* A secret is a secret of its owner.                                      *)
LEMMA SecretsAre ==
    ASSUME NEW owner \in Owners, NEW kind \in J!Kinds, NEW field \in {"sa", "token", "server"}
    PROVE  J!Secret(owner, kind, field) \in Secrets
           /\ J!Secret(owner, kind, field).owner = owner
           /\ J!Secret(owner, kind, field).kind = kind
           /\ J!NoSecret \in Secrets /\ J!NoSecret.kind = J!None
BY DEF J!Secret, Secrets, J!NoSecret

(* No credentials are credentials of anyone.                               *)
LEMMA NoneOffered ==
    ASSUME NEW user PROVE J!NoCredentials \in Offers /\ AreOf(J!NoCredentials, user)
<1>1. J!NoSecret \in Secrets
  BY DEF Secrets, J!NoSecret
<1>2. J!NoCredentials \in Offers
  BY <1>1 DEF J!NoCredentials, Offers, J!Modes
<1>3. AreOf(J!NoCredentials, user)
  BY DEF J!NoCredentials, AreOf
<1> QED BY <1>2, <1>3

(* One secret offers itself, under its kind.                               *)
LEMMA ByKindOffers ==
    ASSUME NEW user \in Owners, NEW s \in Secrets, s.owner = user, s.kind \in {"ATOA", "ATST"}
    PROVE  J!ByKind(s) \in Offers /\ AreOf(J!ByKind(s), user)
<1>0. J!NoSecret \in Secrets /\ J!NoCredentials \in Offers /\ s.kind \in J!Kinds
  BY NoneOffered DEF Secrets, J!NoSecret, J!Kinds
<1>1. PICK e : e = J!ByKind(s)
  OBVIOUS
<1>2. CASE s.kind = "ATOA"
  <2>1. e = [mode |-> "oauth", oauth |-> s, atst |-> J!NoSecret, api |-> J!NoSecret,
             pat |-> J!NoSecret, email |-> J!None]
    BY <1>1, <1>2 DEF J!ByKind, J!NoCredentials
  <2>2. e \in Offers
    BY <1>0, <2>1 DEF Offers, J!Modes
  <2>3. AreOf(e, user)
    BY <1>0, <2>1 DEF AreOf
  <2> QED BY <1>1, <2>2, <2>3
<1>3. CASE s.kind = "ATST"
  <2>1. e = [mode |-> "atst", oauth |-> J!NoSecret, atst |-> s, api |-> J!NoSecret,
             pat |-> J!NoSecret, email |-> J!None]
    BY <1>1, <1>3 DEF J!ByKind, J!NoCredentials
  <2>2. e \in Offers
    BY <1>0, <2>1 DEF Offers, J!Modes
  <2>3. AreOf(e, user)
    BY <1>0, <1>3, <2>1 DEF AreOf
  <2> QED BY <1>1, <2>2, <2>3
<1> QED BY <1>2, <1>3

(* A regular token offers itself with or without an email.                 *)
LEMMA RegularOffers ==
    ASSUME NEW user \in Owners, NEW s \in Secrets, s.owner = user, s.kind \in J!Kinds,
           NEW email \in {user, J!None}
    PROVE  J!Regular(s, email) \in Offers /\ AreOf(J!Regular(s, email), user)
<1>0. J!NoSecret \in Secrets
  BY DEF Secrets, J!NoSecret
<1>1. PICK e : e = J!Regular(s, email)
  OBVIOUS
<1>2. CASE email # J!None
  <2>1. e = [mode |-> "basic", oauth |-> J!NoSecret, atst |-> J!NoSecret, api |-> s,
             pat |-> J!NoSecret, email |-> email]
    BY <1>1, <1>2 DEF J!Regular, J!NoCredentials
  <2>2. e \in Offers
    BY <1>0, <2>1 DEF Offers, J!Modes
  <2>3. AreOf(e, user)
    BY <1>0, <2>1 DEF AreOf
  <2> QED BY <1>1, <2>2, <2>3
<1>3. CASE email = J!None
  <2>1. e = [mode |-> "pat", oauth |-> J!NoSecret, atst |-> J!NoSecret, api |-> J!NoSecret,
             pat |-> s, email |-> J!None]
    BY <1>1, <1>3 DEF J!Regular, J!NoCredentials
  <2>2. e \in Offers
    BY <1>0, <2>1 DEF Offers, J!Modes
  <2>3. AreOf(e, user)
    BY <1>0, <2>1 DEF AreOf
  <2> QED BY <1>1, <2>2, <2>3
<1> QED BY <1>2, <1>3

(* The server's settings offer the server's secrets.                       *)
LEMMA ServerOffers ==
    ASSUME NEW s \in J!Settings
    PROVE  J!OfServer(s) \in Offers /\ AreOf(J!OfServer(s), J!Server)
BY SecretsAre DEF J!OfServer, Offers, AreOf, J!Settings, J!Modes, J!Secret, Secrets, J!Kinds,
                  Owners

(* A form of a user's, or the server's own credentials where it has none.  *)
LEMMA EffectiveOffers ==
    ASSUME NEW s \in J!Settings, NEW user \in Users, NEW f \in J!Fields,
           f.sa # J!None \/ f.token # J!None
    PROVE  J!Effective(s, user, f) \in Offers /\ AreOf(J!Effective(s, user, f), user)
<1>1. user \in Owners
  BY DEF Owners
<1>2. CASE J!Classified(f.sa)
  <2>1. f.sa \in {"ATOA", "ATST"} /\ f.sa \in J!Kinds
    BY <1>2 DEF J!Classified, J!Kinds
  <2> QED BY <1>1, <1>2, <2>1, SecretsAre, ByKindOffers DEF J!Effective
<1>3. CASE ~J!Classified(f.sa) /\ J!Classified(f.token)
  <2>1. f.token \in {"ATOA", "ATST"} /\ f.token \in J!Kinds
    BY <1>3 DEF J!Classified, J!Kinds
  <2> QED BY <1>1, <1>3, <2>1, SecretsAre, ByKindOffers DEF J!Effective
<1>4. CASE ~J!Classified(f.sa) /\ ~J!Classified(f.token)
  <2>1. f.sa = J!None /\ f.token \in J!Kinds /\ f.token # J!None
    BY <1>4 DEF J!Classified, J!Fields, J!None
  <2>2. J!EmailOf(user, f) \in {user, J!None}
    BY DEF J!EmailOf
  <2> QED BY <1>1, <1>4, <2>1, <2>2, SecretsAre, RegularOffers DEF J!Effective
<1> QED BY <1>2, <1>3, <1>4

(* A form offers the secrets it holds, all of one user.                    *)
LEMMA ParamsOffer ==
    ASSUME NEW s \in J!Settings, NEW user \in Users, NEW f \in J!Fields
    PROVE  J!FromParams(s, user, f) \in Offers /\ AreOf(J!FromParams(s, user, f), user)
<1> DEFINE bare == f.sa = J!None /\ J!Classified(f.token)
           oauth == IF bare /\ f.token = "ATOA" THEN J!Secret(user, "ATOA", "token")
                    ELSE IF f.sa = "ATOA" THEN J!Secret(user, "ATOA", "sa") ELSE J!NoSecret
           atst == IF bare /\ f.token = "ATST" THEN J!Secret(user, "ATST", "token")
                   ELSE IF f.sa = "ATST" THEN J!Secret(user, "ATST", "sa") ELSE J!NoSecret
           token == IF bare \/ f.token = J!None THEN J!NoSecret
                    ELSE J!Secret(user, f.token, "token")
<1>1. user \in Owners /\ "ATOA" \in J!Kinds /\ "ATST" \in J!Kinds
      /\ (f.token # J!None => f.token \in J!Kinds)
  BY DEF Owners, J!Kinds, J!Fields
<1>2. oauth \in Secrets /\ (oauth # J!NoSecret => oauth.owner = user /\ oauth.kind = "ATOA")
  BY <1>1, SecretsAre
<1>3. atst \in Secrets /\ (atst # J!NoSecret => atst.owner = user /\ atst.kind = "ATST")
  BY <1>1, SecretsAre
<1>4. token \in Secrets /\ (token # J!NoSecret => token.owner = user /\ token.kind \in J!Kinds)
  BY <1>1, SecretsAre
<1>5. J!EmailOf(user, f) \in {user, J!None}
  BY DEF J!EmailOf
<1>6. J!FromParams(s, user, f) = IF atst # J!NoSecret THEN J!ByKind(atst)
        ELSE IF oauth # J!NoSecret /\ s.client # J!NoClient THEN J!ByKind(oauth)
        ELSE IF token # J!NoSecret THEN J!Regular(token, J!EmailOf(user, f))
        ELSE J!NoCredentials
  BY DEF J!FromParams
<1> HIDE DEF bare, oauth, atst, token
<1>7. CASE atst # J!NoSecret
  BY <1>1, <1>3, <1>6, <1>7, ByKindOffers
<1>8. CASE atst = J!NoSecret /\ oauth # J!NoSecret /\ s.client # J!NoClient
  BY <1>1, <1>2, <1>6, <1>8, ByKindOffers
<1>9. CASE atst = J!NoSecret /\ ~(oauth # J!NoSecret /\ s.client # J!NoClient) /\ token # J!NoSecret
  BY <1>1, <1>4, <1>5, <1>6, <1>9, RegularOffers
<1>10. CASE atst = J!NoSecret /\ ~(oauth # J!NoSecret /\ s.client # J!NoClient) /\ token = J!NoSecret
  BY <1>6, <1>10, NoneOffered
<1> QED BY <1>7, <1>8, <1>9, <1>10

(* A connection is of whom its credentials are, and has a method if they   *)
(* are complete.                                                           *)
LEMMA ConnectionIsOf ==
    ASSUME NEW s \in J!Settings, NEW user, NEW e \in Offers, AreOf(e, user)
    PROVE  /\ J!Connection(s, e) \in Connections /\ IsOf(J!Connection(s, e), user)
           /\ J!Configured(s, e) => J!Connection(s, e).mode # J!None
<1> DEFINE gateway == IF s.cloudId THEN "gateway" ELSE J!Unset
           plain(m, b, to, bearer, client, secret) ==
               [mode |-> m, base |-> b, email |-> to, bearer |-> bearer,
                client |-> client, secret |-> secret, site |-> s.site]
<1>0. /\ s.site \in BOOLEAN /\ gateway \in {J!Unset, "gateway"} /\ J!NoSecret \in Secrets
      /\ s.client \in ClientIds \union {J!NoClient}
  BY DEF J!Settings, Secrets, J!NoSecret
<1>1. PICK c : c = J!Connection(s, e)
  OBVIOUS
<1>2. CASE e.mode = "oauth" /\ e.oauth # J!NoSecret /\ s.client # J!NoClient
  <2>1. c = plain("sa", gateway, J!None, J!NoSecret, s.client, e.oauth)
    BY <1>1, <1>2 DEF J!Connection
  <2>2. c \in Connections
    BY <1>0, <2>1 DEF Connections, Offers
  <2>3. IsOf(c, user)
    BY <1>0, <1>2, <2>1 DEF IsOf, AreOf
  <2>4. c.mode # J!None
    BY <2>1 DEF J!None
  <2> QED BY <1>1, <2>2, <2>3, <2>4
<1>3. CASE e.mode = "atst" /\ e.atst # J!NoSecret
  <2>1. c = plain("atst", gateway, J!None, e.atst, J!NoClient, J!NoSecret)
    BY <1>1, <1>3 DEF J!Connection
  <2>2. c \in Connections
    BY <1>0, <2>1 DEF Connections, Offers
  <2>3. IsOf(c, user)
    BY <1>0, <1>3, <2>1 DEF IsOf, AreOf
  <2>4. c.mode # J!None
    BY <2>1 DEF J!None
  <2> QED BY <1>1, <2>2, <2>3, <2>4
<1>4. CASE e.mode = "basic" /\ e.email # J!None /\ e.api # J!NoSecret
  <2>1. c = plain("cloud", "cloud", e.email, e.api, J!NoClient, J!NoSecret)
    BY <1>1, <1>4 DEF J!Connection
  <2>2. c \in Connections
    BY <1>0, <2>1 DEF Connections, Offers
  <2>3. IsOf(c, user)
    BY <1>0, <1>4, <2>1 DEF IsOf, AreOf
  <2>4. c.mode # J!None
    BY <2>1 DEF J!None
  <2> QED BY <1>1, <2>2, <2>3, <2>4
<1>5. CASE e.mode = "pat" /\ e.pat # J!NoSecret
  <2>1. c = plain("server", "server", J!None, e.pat, J!NoClient, J!NoSecret)
    BY <1>1, <1>5 DEF J!Connection
  <2>2. c \in Connections
    BY <1>0, <2>1 DEF Connections, Offers
  <2>3. IsOf(c, user)
    BY <1>0, <1>5, <2>1 DEF IsOf, AreOf
  <2>4. c.mode # J!None
    BY <2>1 DEF J!None
  <2> QED BY <1>1, <2>2, <2>3, <2>4
<1>6. CASE /\ ~(e.mode = "oauth" /\ e.oauth # J!NoSecret /\ s.client # J!NoClient)
           /\ ~(e.mode = "atst" /\ e.atst # J!NoSecret)
           /\ ~(e.mode = "basic" /\ e.email # J!None /\ e.api # J!NoSecret)
           /\ ~(e.mode = "pat" /\ e.pat # J!NoSecret)
  <2>1. c = plain(J!None, J!Unset, J!None, J!NoSecret, J!NoClient, J!NoSecret)
    BY <1>1, <1>6 DEF J!Connection
  <2>2. c \in Connections
    BY <1>0, <2>1 DEF Connections, Offers
  <2>3. IsOf(c, user)
    BY <2>1 DEF IsOf, J!None
  <2>4. ~J!Configured(s, e)
    BY <1>6 DEF J!Configured, J!Missing, Offers, J!Modes
  <2> QED BY <1>1, <2>2, <2>3, <2>4
<1> QED BY <1>2, <1>3, <1>4, <1>5, <1>6
(* A chat about to read its user's tokens, and a connection on its way.    *)
Asking == [op : {"chat"}, user : Users, step : {"tokens"}, seen : Configs]
Underway == [op : {"own", "chat"}, user : Owners, step : {"locate", "mint", "call"},
             connection : Connections, at : Nat]
JiraRequests == {J!Silent} \union Asking \union Underway

(* A token that is kept was minted from the secret it is kept for.         *)
TokensOK ==
    \A k \in DOMAIN tokens : tokens[k] \in Minted /\ tokens[k].owner = k[2].owner

(* What is located, minted for and called with, is the user's, and lasts.  *)
Ready(q) ==
    LET c == q.connection IN
    /\ q.step = "locate" => IsOf(c, q.user) /\ c.mode \in {"sa", "atst"}
    /\ q.step = "mint" =>
         IsOf(c, q.user) /\ c.mode = "sa" /\ c.base = "gateway"
         /\ q.at <= clock /\ clock < q.at + Margin
    /\ q.step = "call" =>
         /\ c.base # J!Unset /\ c.bearer # J!NoSecret
         /\ c.bearer.owner = q.user /\ c.email \in {J!None, q.user}
         /\ c.base = "gateway" => c.bearer.kind # "ATOA"
         /\ q.at <= clock
         /\ q.op # "chat" =>
              /\ clock < q.at + Margin
              /\ c.bearer.kind = "access" => q.at + Margin <= c.bearer.expires

JiraInv ==
    /\ clock \in Nat /\ settings \in Configs /\ stored \in [Users -> J!Fields]
    /\ TokensOK /\ call \in [Handlers -> JiraRequests]
    /\ \A r \in Handlers : Ready(call[r])

(* A request that is idle is ready.                                        *)
LEMMA SilentIsReady ==
    J!Silent \in JiraRequests /\ Ready(J!Silent) /\ Ready(J!Silent)'
BY DEF J!Silent, JiraRequests, Ready

(* With a cloud id: a token is at hand, or is minted.                      *)
LEMMA WithTokenIsReady ==
    ASSUME J!JiraAssumption, JiraInv, NEW op_ \in {"own", "chat"}, NEW user \in Owners,
           NEW c \in Connections, IsOf(c, user), c.mode \in {"sa", "atst"}, c.base = "gateway",
           NEW q, q = J!Doing(op_, user, J!WithToken(c))
    PROVE  q \in JiraRequests /\ Ready(q)
<1>0. clock \in Nat /\ Margin \in Nat \ {0} /\ J!NoSecret.kind = J!None /\ TokensOK
  BY DEF J!JiraAssumption, JiraInv, J!NoSecret
<1>1. CASE c.mode = "atst"
  <2>1. q = [op |-> op_, user |-> user, step |-> "call", connection |-> c, at |-> clock]
    BY <1>1 DEF J!Doing, J!WithToken, J!Calling
  <2>2. q \in Underway
    BY <1>0, <2>1 DEF Underway
  <2>3. c.bearer.owner = user /\ c.bearer.kind = "ATST" /\ c.email \in {J!None, user}
    BY <1>1 DEF IsOf
  <2>4. c.bearer # J!NoSecret /\ c.base # J!Unset
    BY <1>0, <2>3 DEF J!None, J!Unset
  <2>5. Ready(q)
    BY <1>0, <2>1, <2>3, <2>4 DEF Ready
  <2> QED BY <2>2, <2>5 DEF JiraRequests
<1>2. CASE c.mode = "sa" /\ J!CacheKey(c.client, c.secret) \in DOMAIN tokens
           /\ J!Fresh(tokens[J!CacheKey(c.client, c.secret)])
  <2>1. PICK token : token = tokens[J!CacheKey(c.client, c.secret)]
    OBVIOUS
  <2>2. token \in Minted /\ token.owner = c.secret.owner /\ token.expires > clock + Margin
    BY <1>0, <1>2, <2>1 DEF TokensOK, J!CacheKey, J!Fresh
  <2>3. q = [op |-> op_, user |-> user, step |-> "call",
             connection |-> [c EXCEPT !.bearer = token], at |-> clock]
    BY <1>2, <2>1 DEF J!Doing, J!WithToken, J!Calling, J!Bearing
  <2>4. PICK d : d = [c EXCEPT !.bearer = token]
    OBVIOUS
  <2>5. d \in Connections /\ d.bearer = token /\ d.email = c.email /\ d.base = "gateway"
    BY <2>2, <2>4 DEF Connections
  <2>6. q \in Underway
    BY <1>0, <2>3, <2>4, <2>5 DEF Underway
  <2>7. token.owner = user /\ c.email \in {J!None, user} /\ token.kind = "access"
        /\ token.expires \in Nat
    BY <1>2, <2>2 DEF IsOf, Minted
  <2>8. token # J!NoSecret /\ d.base # J!Unset
    BY <1>0, <2>5, <2>7 DEF J!None, J!Unset
  <2>9. q.op = op_ /\ q.user = user /\ q.step = "call" /\ q.connection = d /\ q.at = clock
    BY <2>3, <2>4
  <2>10. clock + Margin <= token.expires /\ clock <= clock /\ clock < clock + Margin
    BY <1>0, <2>2, <2>7
  <2>11. Ready(q)
    BY <2>5, <2>7, <2>8, <2>9, <2>10 DEF Ready
  <2> QED BY <2>6, <2>11 DEF JiraRequests
<1>3. CASE c.mode = "sa" /\ ~(J!CacheKey(c.client, c.secret) \in DOMAIN tokens
           /\ J!Fresh(tokens[J!CacheKey(c.client, c.secret)]))
  <2>1. q = [op |-> op_, user |-> user, step |-> "mint", connection |-> c, at |-> clock]
    BY <1>3 DEF J!Doing, J!WithToken
  <2>2. q \in Underway
    BY <1>0, <2>1 DEF Underway
  <2>3. Ready(q)
    BY <1>0, <1>3, <2>1 DEF Ready
  <2> QED BY <2>2, <2>3 DEF JiraRequests
<1> QED BY <1>1, <1>2, <1>3

(* A located connection is of the same user.                               *)
LEMMA LocatedIsOf ==
    ASSUME NEW user, NEW c \in Connections, IsOf(c, user), c.mode \in {"sa", "atst"},
           NEW d, d = J!Located(c)
    PROVE  d \in Connections /\ IsOf(d, user) /\ d.mode = c.mode /\ d.base = "gateway"
<1>1. /\ d \in Connections /\ d.base = "gateway" /\ d.mode = c.mode /\ d.email = c.email
      /\ d.secret = c.secret /\ d.bearer = c.bearer
  BY DEF J!Located, Connections
<1> QED BY <1>1 DEF IsOf

(* A connection with a method is completed, or given up.                   *)
LEMMA ResolvedIsReady ==
    ASSUME J!JiraAssumption, JiraInv, NEW op_ \in {"own", "chat"}, NEW user \in Owners,
           NEW c \in Connections, IsOf(c, user), c.mode # J!None,
           J!Resolved(c).step # "idle", NEW q, q = J!Doing(op_, user, J!Resolved(c))
    PROVE  q \in JiraRequests /\ Ready(q)
<1>0. clock \in Nat /\ Margin \in Nat \ {0} /\ J!NoSecret.kind = J!None
  BY DEF J!JiraAssumption, JiraInv, J!NoSecret
<1>1. CASE c.mode \notin {"sa", "atst"}
  <2>1. q = [op |-> op_, user |-> user, step |-> "call", connection |-> c, at |-> clock]
    BY <1>1 DEF J!Doing, J!Resolved, J!Calling
  <2>2. q \in Underway
    BY <1>0, <2>1 DEF Underway
  <2>3. c.mode \in {"cloud", "server"}
    BY <1>1 DEF Connections
  <2>4. /\ c.bearer.owner = user /\ c.bearer.kind \in J!Kinds /\ c.email \in {J!None, user}
        /\ c.base \in {"cloud", "server"}
    BY <2>3 DEF IsOf
  <2>5. c.bearer # J!NoSecret /\ c.base # J!Unset /\ c.bearer.kind # "access"
    BY <1>0, <2>4 DEF J!None, J!Unset, J!Kinds
  <2>6. Ready(q)
    BY <1>0, <2>1, <2>4, <2>5 DEF Ready
  <2> QED BY <2>2, <2>6 DEF JiraRequests
<1>2. CASE c.mode \in {"sa", "atst"} /\ (c.base # J!Unset \/ (c.site /\ cloudIds))
  <2>1. PICK d : d = J!Located(c)
    OBVIOUS
  <2>2. q = J!Doing(op_, user, J!WithToken(d))
    BY <1>2, <2>1 DEF J!Resolved
  <2>3. d \in Connections /\ IsOf(d, user) /\ d.mode \in {"sa", "atst"} /\ d.base = "gateway"
    BY <1>2, <2>1, LocatedIsOf
  <2> QED BY <2>2, <2>3, WithTokenIsReady
<1>3. CASE c.mode \in {"sa", "atst"} /\ ~(c.base # J!Unset \/ (c.site /\ cloudIds))
  <2>1. c.site
    BY <1>3 DEF J!Resolved, J!Silent
  <2>2. q = [op |-> op_, user |-> user, step |-> "locate", connection |-> c, at |-> 0]
    BY <1>3, <2>1 DEF J!Doing, J!Resolved
  <2>3. q \in Underway
    BY <2>2 DEF Underway
  <2>4. Ready(q)
    BY <1>3, <2>2 DEF Ready
  <2> QED BY <2>3, <2>4 DEF JiraRequests
<1> QED BY <1>1, <1>2, <1>3

(* A step of one request, after which the clock is the same.               *)
LEMMA OneAsks ==
    ASSUME JiraInv, NEW r \in Handlers, NEW q \in JiraRequests, Ready(q),
           call' = [call EXCEPT ![r] = q], TokensOK', UNCHANGED <<clock, settings, stored>>
    PROVE  JiraInv'
<1>1. call' \in [Handlers -> JiraRequests]
  BY DEF JiraInv
<1>2. \A p \in Handlers : call'[p] = IF p = r THEN q ELSE call[p]
  BY DEF JiraInv
<1>3. \A p \in Handlers : Ready(call[p])'
  BY <1>2 DEF JiraInv, Ready
<1> QED BY <1>1, <1>3 DEF JiraInv

(* A request that starts is ready for its first step.                      *)
LEMMA Starting ==
    ASSUME J!JiraAssumption, JiraInv, NEW r \in Handlers, NEW user \in Owners,
           NEW c \in Connections, IsOf(c, user), c.mode # J!None, J!Starts(r, user, c)
    PROVE  JiraInv'
<1>1. PICK q : q = J!Doing("own", user, J!Resolved(c))
  OBVIOUS
<1>2. /\ call' = [call EXCEPT ![r] = q] /\ J!Resolved(c).step # "idle"
      /\ UNCHANGED <<clock, settings, stored, tokens>>
  BY <1>1 DEF J!Starts
<1>3. q \in JiraRequests /\ Ready(q)
  BY <1>1, <1>2, ResolvedIsReady
<1>4. TokensOK'
  BY <1>2 DEF JiraInv, TokensOK
<1> QED BY <1>2, <1>3, <1>4, OneAsks

(* Every step of a request keeps the requests ready.                       *)
LEMMA ServeJira ==
    ASSUME J!JiraAssumption, JiraInv, NEW r \in Handlers, J!Serve(r) PROVE JiraInv'
<1>0. PICK q : q = call[r]
  OBVIOUS
<1>1. /\ q \in JiraRequests /\ Ready(q) /\ clock \in Nat /\ Margin \in Nat \ {0} /\ TokensOK
      /\ settings \in J!Settings /\ Forms \subseteq J!Fields /\ Lifetime \in Nat
  BY <1>0 DEF JiraInv, J!JiraAssumption
<1>2. q.step \in {"locate", "mint", "call"} => q \in Underway
  BY <1>1 DEF JiraRequests, Asking, J!Silent
<1>3. q.step = "tokens" => q \in Asking
  BY <1>1 DEF JiraRequests, Underway, J!Silent
<1>4. \A u \in Users : u \in Owners
  BY DEF Owners
<1>5. ASSUME NEW u \in Users, NEW f \in Forms, J!Create(r, u, f) \/ J!Preview(r, u, f)
      PROVE  JiraInv'
  <2>1. PICK e : e = J!Effective(settings, u, f)
    OBVIOUS
  <2>2. /\ f.sa # J!None \/ f.token # J!None
        /\ J!Configured(settings, e) /\ J!Starts(r, u, J!Connection(settings, e))
    BY <1>5, <2>1 DEF J!Create, J!Preview, J!UsersOwn
  <2>3. f \in J!Fields
    BY <1>1
  <2>4. e \in Offers /\ AreOf(e, u)
    BY <1>1, <2>1, <2>2, <2>3, EffectiveOffers
  <2> QED BY <1>1, <1>4, <2>2, <2>4, ConnectionIsOf, Starting
<1>6. ASSUME NEW u \in Users, NEW f \in Forms, J!Validate(r, u, f) PROVE JiraInv'
  <2>1. PICK e : e = J!FromParams(settings, u, f)
    OBVIOUS
  <2>2. J!Connection(settings, e).mode # J!None /\ J!Starts(r, u, J!Connection(settings, e))
    BY <1>6, <2>1 DEF J!Validate
  <2>3. f \in J!Fields
    BY <1>1
  <2>4. e \in Offers /\ AreOf(e, u)
    BY <1>1, <2>1, <2>3, ParamsOffer
  <2> QED BY <1>1, <1>4, <2>2, <2>4, ConnectionIsOf, Starting
<1>7. ASSUME J!Enrich(r) PROVE JiraInv'
  <2>1. PICK e : e = J!OfServer(settings)
    OBVIOUS
  <2>2. J!Configured(settings, e) /\ J!Starts(r, J!Server, J!Connection(settings, e))
    BY <1>7, <2>1 DEF J!Enrich, J!Enabled
  <2>3. e \in Offers /\ AreOf(e, J!Server) /\ J!Server \in Owners
    BY <1>1, <2>1, ServerOffers DEF Owners
  <2> QED BY <1>1, <2>2, <2>3, ConnectionIsOf, Starting
<1>8. ASSUME NEW u \in Users, J!StartChat(r, u) PROVE JiraInv'
  <2>1. PICK n : n = [op |-> "chat", user |-> u, step |-> "tokens", seen |-> settings]
    OBVIOUS
  <2>2. call' = [call EXCEPT ![r] = n] /\ UNCHANGED <<clock, settings, stored, tokens>>
    BY <1>8, <2>1 DEF J!StartChat
  <2>3. n \in JiraRequests
    BY <2>1 DEF JiraInv, JiraRequests, Asking
  <2>4. Ready(n)
    BY <2>1 DEF Ready
  <2>5. TokensOK'
    BY <1>1, <2>2 DEF TokensOK
  <2> QED BY <2>2, <2>3, <2>4, <2>5, OneAsks
<1>9. ASSUME J!ReadTokens(r) PROVE JiraInv'
  <2>1. PICK e : e = J!FromParams(q.seen, q.user, stored[q.user])
    OBVIOUS
  <2>2. PICK c : c = J!Connection(q.seen, e)
    OBVIOUS
  <2>3. q \in Asking /\ UNCHANGED <<clock, settings, stored, tokens>>
    BY <1>0, <1>3, <1>9 DEF J!ReadTokens
  <2>4. q.user \in Users /\ q.user \in Owners /\ q.seen \in J!Settings /\ stored[q.user] \in J!Fields
    BY <1>4, <2>3 DEF Asking, JiraInv, J!JiraAssumption
  <2>5. e \in Offers /\ AreOf(e, q.user)
    BY <2>1, <2>4, ParamsOffer
  <2>6. c \in Connections /\ IsOf(c, q.user)
    BY <2>2, <2>4, <2>5, ConnectionIsOf
  <2>7. TokensOK'
    BY <1>1, <2>3 DEF TokensOK
  <2>8. call' = [call EXCEPT ![r] = IF c.mode = J!None \/ J!Resolved(c).step = "idle"
                    THEN J!Silent ELSE J!Doing("chat", q.user, J!Resolved(c))]
    BY <1>0, <1>9, <2>1, <2>2 DEF J!ReadTokens
  <2>9. CASE c.mode = J!None \/ J!Resolved(c).step = "idle"
    BY <2>3, <2>7, <2>8, <2>9, SilentIsReady, OneAsks
  <2>10. CASE c.mode # J!None /\ J!Resolved(c).step # "idle"
    <3>1. PICK n : n = J!Doing("chat", q.user, J!Resolved(c))
      OBVIOUS
    <3>2. n \in JiraRequests /\ Ready(n)
      BY <2>4, <2>6, <2>10, <3>1, ResolvedIsReady
    <3> QED BY <2>3, <2>7, <2>8, <2>10, <3>1, <3>2, OneAsks
  <2> QED BY <2>9, <2>10
<1>10. ASSUME J!End(r), UNCHANGED <<clock, settings, stored, tokens>> PROVE JiraInv'
  <2>1. TokensOK'
    BY <1>1, <1>10 DEF TokensOK
  <2> QED BY <1>10, <2>1, SilentIsReady, OneAsks DEF J!End
<1>11. ASSUME J!FindCloudId(r) PROVE JiraInv'
  <2>1. q \in Underway /\ q.step = "locate" /\ UNCHANGED <<clock, settings, stored, tokens>>
    BY <1>0, <1>2, <1>11 DEF J!FindCloudId
  <2>2. J!Goes(r, J!WithToken(J!Located(q.connection))) \/ J!End(r)
    BY <1>0, <1>11 DEF J!FindCloudId
  <2>3. CASE J!Goes(r, J!WithToken(J!Located(q.connection)))
    <3>1. PICK d : d = J!Located(q.connection)
      OBVIOUS
    <3>2. PICK n : n = J!Doing(q.op, q.user, J!WithToken(d))
      OBVIOUS
    <3>3. call' = [call EXCEPT ![r] = n]
      BY <1>0, <2>3, <3>1, <3>2 DEF J!Goes, JiraInv
    <3>4. q.op \in {"own", "chat"} /\ q.user \in Owners /\ q.connection \in Connections
      BY <2>1 DEF Underway
    <3>5. IsOf(q.connection, q.user) /\ q.connection.mode \in {"sa", "atst"}
      BY <1>1, <2>1 DEF Ready
    <3>6. d \in Connections /\ IsOf(d, q.user) /\ d.mode \in {"sa", "atst"} /\ d.base = "gateway"
      BY <3>1, <3>4, <3>5, LocatedIsOf
    <3>7. n \in JiraRequests /\ Ready(n)
      BY <3>2, <3>4, <3>6, WithTokenIsReady
    <3>8. TokensOK'
      BY <1>1, <2>1 DEF TokensOK
    <3> QED BY <2>1, <3>3, <3>7, <3>8, OneAsks
  <2> QED BY <1>10, <2>1, <2>2, <2>3
<1>12. ASSUME J!Mint(r) PROVE JiraInv'
  <2>1. PICK c : c = q.connection
    OBVIOUS
  <2>2. PICK k : k = J!CacheKey(c.client, c.secret)
    OBVIOUS
  <2>3. PICK token : token = [owner |-> c.secret.owner, kind |-> "access",
                              field |-> c.secret.field, expires |-> q.at + Lifetime]
    OBVIOUS
  <2>4. q \in Underway /\ q.step = "mint" /\ UNCHANGED <<clock, settings, stored>>
    BY <1>0, <1>2, <1>12 DEF J!Mint
  <2>5. \/ /\ tokens' = [x \in DOMAIN tokens \union {k} |-> IF x = k THEN token ELSE tokens[x]]
           /\ J!Goes(r, J!Calling(J!Bearing(c, token)))
        \/ J!End(r) /\ UNCHANGED tokens
    BY <1>0, <1>12, <2>1, <2>2, <2>3 DEF J!Mint
  <2>6. CASE /\ tokens' = [x \in DOMAIN tokens \union {k} |-> IF x = k THEN token ELSE tokens[x]]
             /\ J!Goes(r, J!Calling(J!Bearing(c, token)))
    <3>1. /\ c \in Connections /\ q.user \in Owners /\ q.at \in Nat /\ q.op \in {"own", "chat"}
          /\ c.secret \in Secrets
      BY <2>1, <2>4 DEF Underway, Connections
    <3>2. /\ IsOf(c, q.user) /\ c.mode = "sa" /\ c.base = "gateway"
          /\ q.at <= clock /\ clock < q.at + Margin
      BY <1>1, <2>1, <2>4 DEF Ready
    <3>3. token \in Minted /\ token.owner = c.secret.owner /\ token.kind = "access"
          /\ token.expires = q.at + Lifetime
      BY <1>1, <2>3, <3>1 DEF Minted, Secrets
    <3>4. k[2] = c.secret
      BY <2>2 DEF J!CacheKey
    <3>5. TokensOK'
      BY <1>1, <2>6, <3>3, <3>4 DEF TokensOK
    <3>6. PICK d : d = [c EXCEPT !.bearer = token]
      OBVIOUS
    <3>7. d \in Connections /\ d.bearer = token /\ d.email = c.email /\ d.base = "gateway"
      BY <3>1, <3>2, <3>3, <3>6 DEF Connections
    <3>8. PICK n : n = [op |-> q.op, user |-> q.user, step |-> "call", connection |-> d,
                        at |-> clock]
      OBVIOUS
    <3>9. call' = [call EXCEPT ![r] = n]
      BY <1>0, <2>6, <3>6, <3>8 DEF J!Goes, J!Doing, J!Calling, J!Bearing, JiraInv
    <3>10. n \in Underway
      BY <1>1, <3>1, <3>7, <3>8 DEF Underway
    <3>11. token.owner = q.user /\ c.email \in {J!None, q.user}
      BY <3>2, <3>3 DEF IsOf
    <3>12. token # J!NoSecret /\ d.base # J!Unset
      BY <3>3, <3>7 DEF J!NoSecret, J!None, J!Unset
    <3>13. clock + Margin <= token.expires
      BY <1>1, <3>1, <3>2, <3>3 DEF J!JiraAssumption
    <3>14. Ready(n)
      BY <1>1, <3>3, <3>7, <3>8, <3>11, <3>12, <3>13 DEF Ready
    <3> QED BY <2>4, <3>5, <3>9, <3>10, <3>14, OneAsks DEF JiraRequests
  <2> QED BY <1>10, <2>4, <2>5, <2>6
<1>13. ASSUME J!Call(r) PROVE JiraInv'
  BY <1>10, <1>13 DEF J!Call
<1> QED BY <1>5, <1>6, <1>7, <1>8, <1>9, <1>11, <1>12, <1>13 DEF J!Serve

(* While a call or a mint is under way, the clock stays within its margin. *)
LEMMA JiraTicks ==
    ASSUME J!JiraAssumption, JiraInv, J!Tick PROVE JiraInv'
<1>1. /\ clock' = clock + 1 /\ clock \in Nat /\ Margin \in Nat
      /\ UNCHANGED <<settings, stored, tokens, call>>
  BY DEF J!Tick, JiraInv, J!JiraAssumption
<1>2. ASSUME NEW r \in Handlers PROVE Ready(call[r])'
  <2>1. PICK q \in JiraRequests : q = call[r]
    BY DEF JiraInv
  <2>2. Ready(q) /\ (q.step \in {"mint", "call"} => q \in Underway)
    BY <2>1 DEF JiraInv, JiraRequests, Asking, J!Silent
  <2>3. q.step \in {"mint", "call"} => q.at \in Nat
    BY <2>2 DEF Underway
  <2>4. q.step = "mint" \/ (q.step = "call" /\ q.op # "chat") => clock + 1 < q.at + Margin
    BY <2>1 DEF J!Tick
  <2>5. Ready(q)'
    BY <1>1, <2>2, <2>3, <2>4 DEF Ready
  <2> QED BY <1>1, <2>1, <2>5
<1> QED BY <1>1, <1>2 DEF JiraInv, TokensOK

(* At the start no token is cached and no request is under way.            *)
LEMMA JiraInit ==
    ASSUME J!JiraAssumption, J!Init PROVE JiraInv
<1>1. stored \in [Users -> J!Fields]
  BY DEF J!Init, J!Fields
<1>2. TokensOK
  BY DEF J!Init, TokensOK
<1> QED BY <1>1, <1>2, SilentIsReady DEF J!Init, JiraInv

(* The other parts change no token and no request.                         *)
LEMMA JiraStutters ==
    ASSUME JiraInv, UNCHANGED jiraVars PROVE JiraInv'
BY DEF JiraInv, TokensOK, Ready, jiraVars

(* Every step of the Jira connections keeps their invariant.               *)
LEMMA JiraNext ==
    ASSUME J!JiraAssumption, JiraInv, J!Next PROVE JiraInv'
<1>1. ASSUME NEW u \in Users, NEW f \in Forms, J!SaveTokens(u, f) PROVE JiraInv'
  <2>1. f \in J!Fields
    BY DEF J!JiraAssumption
  <2>2. stored' \in [Users -> J!Fields] /\ UNCHANGED <<clock, settings, tokens, call>>
    BY <1>1, <2>1 DEF J!SaveTokens, JiraInv
  <2> QED BY <2>2 DEF JiraInv, TokensOK, Ready
<1>2. ASSUME NEW s \in Configs, J!ChangeSettings(s) PROVE JiraInv'
  BY <1>2 DEF J!ChangeSettings, JiraInv, TokensOK, Ready
<1> QED BY <1>1, <1>2, ServeJira, JiraTicks DEF J!Next

(* A request that is ready is filed as its user.                           *)
LEMMA JiraHolds ==
    ASSUME J!JiraAssumption, JiraInv PROVE J!FiledAsTheUser
<1>1. ASSUME NEW r \in Handlers, call[r].step = "call"
      PROVE  call[r] \in Underway /\ Ready(call[r])
  BY <1>1 DEF JiraInv, JiraRequests, Asking, J!Silent
<1>2. ASSUME NEW r \in Handlers, call[r].step = "call",
             call[r].connection.bearer.kind = "access", call[r].op # "chat"
      PROVE  call[r].connection.bearer.expires > clock
  <2>1. PICK q \in Underway : q = call[r]
    BY <1>1, <1>2
  <2>2. q.connection.bearer \in Secrets \union Minted /\ q.at \in Nat
    BY <2>1 DEF Underway, Connections
  <2>3. q.connection.bearer \in Minted
    BY <1>2, <2>1, <2>2 DEF Secrets, J!Kinds, J!None
  <2>4. q.connection.bearer.expires \in Nat /\ clock \in Nat /\ Margin \in Nat
    BY <2>3 DEF Minted, JiraInv, J!JiraAssumption
  <2>5. clock < q.at + Margin /\ q.at + Margin <= q.connection.bearer.expires
    BY <1>1, <1>2, <2>1 DEF Ready
  <2> QED BY <2>1, <2>2, <2>4, <2>5
<1> QED BY <1>1, <1>2 DEF Ready, J!FiledAsTheUser

-----------------------------------------------------------------------------
(* Pushes to Datadog                                                       *)

Pushes ==
    [step : {"context", "create", "event", "series", "over"}, scope : Targets, classify : BOOLEAN,
     failures : Seq(D!Values), next : Nat, pushed : Nat, errors : Nat, skipped : Nat,
     consecutive : Nat, at : Nat, success : BOOLEAN]

Series == [at : Nat, classify : BOOLEAN, failures : Seq(D!Values)]

(* What a push has counted at each step.                                   *)
Counts(q) ==
    /\ q.step \in {"context", "create", "event"} => q.next = 1 + q.pushed + q.errors /\ q.skipped = 0
    /\ q.step \in {"context", "create"} => q.pushed = 0 /\ q.errors = 0 /\ q.consecutive = 0
    /\ q.step = "event" => q.next <= Len(q.failures) /\ q.consecutive < Threshold
    /\ q.step \in {"series", "over"} =>
         /\ q.pushed + q.errors + q.skipped = Len(q.failures)
         /\ q.consecutive <= Threshold
         /\ q.errors = 0 => q.skipped = 0
    /\ q.consecutive <= q.errors
    /\ q.success => q.step = "over"

(* A success: everything was emitted, and the board took the push.         *)
IsTaken(q) == q.scope \in DOMAIN accepted /\ accepted[q.scope].at >= q.at
Earned(q) == q.success => q.pushed > 0 /\ q.errors = 0 /\ IsTaken(q)

(* The board of a scope is all of its accepted push, and nothing else.     *)
Shows(s, label) ==
    LET k == <<D!Identity(s), label>> IN
    k \in DOMAIN board /\ board[k] = [at |-> accepted[s].at, value |-> D!Counted(accepted[s], label)]
BoardOK ==
    /\ DOMAIN accepted \subseteq Targets /\ \A s \in DOMAIN accepted : accepted[s] \in Series
    /\ \A s \in DOMAIN accepted, label \in Vocabulary : Shows(s, label)
    /\ \A k \in DOMAIN board : \E s \in DOMAIN accepted, label \in Vocabulary :
         k = <<D!Identity(s), label>>

DatadogInv ==
    /\ time \in Nat /\ BoardOK /\ push \in [Handlers -> {D!NoPush} \union Pushes]
    /\ \A p \in Handlers : push[p] # D!NoPush => Counts(push[p]) /\ Earned(push[p])
(* Two scopes never share their series.                                    *)
LEMMA IdentityIsInjective ==
    ASSUME NEW s, NEW t, D!Identity(s) = D!Identity(t) PROVE s = t
BY DEF D!Identity

(* The board takes all of a push that is its scope's newest, and nothing   *)
(* of one that is not.                                                     *)
LEMMA Taking ==
    ASSUME BoardOK, NEW q \in Pushes, D!Took(q)
    PROVE  /\ BoardOK'
           /\ q.scope \in DOMAIN accepted' /\ accepted'[q.scope].at >= q.at
           /\ \A s \in DOMAIN accepted : s \in DOMAIN accepted' /\ accepted'[s].at >= accepted[s].at
<1> DEFINE ks == {<<D!Identity(q.scope), label>> : label \in Vocabulary}
           newer(k) == k \in DOMAIN board /\ board[k].at > q.at
<1>1. /\ DOMAIN board' = ks \union DOMAIN board
      /\ \A k \in DOMAIN board' : board'[k] =
            IF k \in ks /\ ~newer(k) THEN [at |-> q.at, value |-> D!Counted(q, k[2])] ELSE board[k]
  BY DEF D!Took, D!Posted, D!Reported
<1>2. q.scope \in Targets /\ q.at \in Nat
  BY DEF Pushes
<1>3. \A s \in DOMAIN accepted : accepted[s] \in Series /\ accepted[s].at \in Nat
  BY DEF BoardOK, Series
<1>4. \A s \in Targets : \A label \in Vocabulary : s # q.scope => <<D!Identity(s), label>> \notin ks
  BY IdentityIsInjective
<1>5. CASE D!Newest(q)
  <2> DEFINE new == [at |-> q.at, classify |-> q.classify, failures |-> q.failures]
  <2>1. /\ DOMAIN accepted' = DOMAIN accepted \union {q.scope}
        /\ \A s \in DOMAIN accepted' : accepted'[s] = IF s = q.scope THEN new ELSE accepted[s]
    BY <1>5 DEF D!Took
  <2>2. new \in Series
    BY DEF Series, Pushes
  <2>3. \A k \in ks : ~newer(k)
    <3>1. ASSUME NEW k \in ks, newer(k) PROVE FALSE
      <4>1. PICK label \in Vocabulary : k = <<D!Identity(q.scope), label>>
        OBVIOUS
      <4>2. PICK s \in DOMAIN accepted, l \in Vocabulary : k = <<D!Identity(s), l>>
        BY <3>1 DEF BoardOK
      <4>3. s = q.scope /\ l = label
        BY <4>1, <4>2, IdentityIsInjective
      <4>4. Shows(s, l)
        BY <4>2 DEF BoardOK
      <4>5. board[k] = [at |-> accepted[s].at, value |-> D!Counted(accepted[s], l)]
        BY <4>2, <4>4 DEF Shows
      <4>6. board[k].at = accepted[q.scope].at
        BY <4>3, <4>5
      <4> QED BY <1>2, <1>3, <1>5, <3>1, <4>2, <4>3, <4>6 DEF D!Newest
    <3> QED BY <3>1
  <2>4. \A label \in Vocabulary : D!Counted(new, label) = D!Counted(q, label)
    BY DEF D!Counted
  <2> HIDE DEF new
  <2>5. new.at = q.at
    BY DEF new
  <2>6. ASSUME NEW s \in DOMAIN accepted', NEW label \in Vocabulary PROVE Shows(s, label)'
    <3> DEFINE k == <<D!Identity(s), label>>
    <3>1. CASE s = q.scope
      <4>1. k \in ks /\ k[2] = label
        BY <3>1
      <4>2. k \in DOMAIN board' /\ board'[k] = [at |-> q.at, value |-> D!Counted(q, label)]
        BY <1>1, <2>3, <4>1
      <4>3. accepted'[s] = new
        BY <2>1, <3>1
      <4> QED BY <2>4, <2>5, <4>2, <4>3 DEF Shows
    <3>2. CASE s # q.scope
      <4>1. s \in DOMAIN accepted /\ accepted'[s] = accepted[s] /\ s \in Targets
        BY <2>1, <3>2 DEF BoardOK
      <4>2. k \notin ks /\ Shows(s, label)
        BY <1>4, <3>2, <4>1 DEF BoardOK
      <4>3. k \in DOMAIN board' /\ board'[k] = board[k]
        BY <1>1, <4>2 DEF Shows
      <4> QED BY <4>1, <4>2, <4>3 DEF Shows
    <3> QED BY <3>1, <3>2
  <2>7. \A k \in DOMAIN board' : \E s \in DOMAIN accepted', label \in Vocabulary :
          k = <<D!Identity(s), label>>
    BY <1>1, <2>1 DEF BoardOK
  <2>8. DOMAIN accepted' \subseteq Targets /\ \A s \in DOMAIN accepted' : accepted'[s] \in Series
    BY <1>2, <1>3, <2>1, <2>2 DEF BoardOK
  <2>9. BoardOK'
    BY <2>6, <2>7, <2>8 DEF BoardOK
  <2>10. \A s \in DOMAIN accepted : s \in DOMAIN accepted' /\ accepted'[s].at >= accepted[s].at
    BY <1>2, <1>3, <1>5, <2>1, <2>5 DEF D!Newest
  <2> QED BY <1>2, <2>1, <2>5, <2>9, <2>10
<1>6. CASE ~D!Newest(q)
  <2>1. accepted' = accepted
    BY <1>6 DEF D!Took
  <2>2. q.scope \in DOMAIN accepted /\ accepted[q.scope].at > q.at
    BY <1>2, <1>3, <1>6 DEF D!Newest
  <2>3. ASSUME NEW k \in ks PROVE newer(k)
    <3>1. PICK label \in Vocabulary : k = <<D!Identity(q.scope), label>>
      OBVIOUS
    <3>2. Shows(q.scope, label)
      BY <2>2 DEF BoardOK
    <3>3. k \in DOMAIN board /\ board[k] = [at |-> accepted[q.scope].at,
                                           value |-> D!Counted(accepted[q.scope], label)]
      BY <3>1, <3>2 DEF Shows
    <3>4. board[k].at = accepted[q.scope].at
      BY <3>3
    <3> QED BY <2>2, <3>3, <3>4
  <2>4. DOMAIN board' = DOMAIN board /\ \A k \in DOMAIN board : board'[k] = board[k]
    BY <1>1, <2>3
  <2>5. \A s \in DOMAIN accepted, label \in Vocabulary : Shows(s, label)'
    BY <2>1, <2>4 DEF BoardOK, Shows
  <2>6. BoardOK'
    BY <2>1, <2>4, <2>5 DEF BoardOK
  <2> QED BY <1>2, <1>3, <2>1, <2>2, <2>6
<1> QED BY <1>5, <1>6

(* A step of one push, which the others' successes outlast.                *)
LEMMA OnePushes ==
    ASSUME DatadogInv, NEW p \in Handlers, NEW q \in {D!NoPush} \union Pushes,
           push' = [push EXCEPT ![p] = q], BoardOK', UNCHANGED time,
           \A s \in DOMAIN accepted : s \in DOMAIN accepted' /\ accepted'[s].at >= accepted[s].at,
           q # D!NoPush => Counts(q) /\ Earned(q)'
    PROVE  DatadogInv'
<1>1. push' \in [Handlers -> {D!NoPush} \union Pushes]
  BY DEF DatadogInv
<1>2. \A o \in Handlers : push'[o] = IF o = p THEN q ELSE push[o]
  BY DEF DatadogInv
<1>3. ASSUME NEW o \in Handlers, o # p, push[o] # D!NoPush PROVE Earned(push[o])'
  <2>1. push[o] \in Pushes /\ Earned(push[o]) /\ push'[o] = push[o]
    BY <1>2, <1>3 DEF DatadogInv
  <2>2. push[o].at \in Nat /\ \A s \in DOMAIN accepted : accepted[s].at \in Nat
    BY <2>1 DEF Pushes, DatadogInv, BoardOK, Series
  <2>3. \A s \in DOMAIN accepted' : accepted'[s].at \in Nat
    BY DEF BoardOK, Series
  <2> QED BY <2>1, <2>2, <2>3 DEF Earned, IsTaken
<1>4. ASSUME NEW o \in Handlers, push'[o] # D!NoPush PROVE Counts(push'[o]) /\ Earned(push[o])'
  <2>1. CASE o = p
    BY <1>2, <1>4, <2>1 DEF Earned, IsTaken
  <2>2. CASE o # p
    BY <1>2, <1>3, <1>4, <2>2 DEF DatadogInv
  <2> QED BY <2>1, <2>2
<1> QED BY <1>1, <1>4 DEF DatadogInv, Counts

(* Where the board is left alone.                                          *)
LEMMA OneGoesOn ==
    ASSUME DatadogInv, NEW p \in Handlers, NEW q \in Pushes, push' = [push EXCEPT ![p] = q],
           UNCHANGED <<time, board, accepted>>, Counts(q), q.success = FALSE
    PROVE  DatadogInv'
<1>1. BoardOK'
  BY DEF DatadogInv, BoardOK, Shows
<1>2. \A s \in DOMAIN accepted : s \in DOMAIN accepted' /\ accepted'[s].at >= accepted[s].at
  BY DEF DatadogInv, BoardOK, Series
<1>3. Earned(q)'
  BY DEF Earned
<1> QED BY <1>1, <1>2, <1>3, OnePushes

(* A push that ends leaves the others and the board alone.                 *)
LEMMA OneIsOver ==
    ASSUME DatadogInv, NEW p \in Handlers, push' = [push EXCEPT ![p] = D!NoPush],
           UNCHANGED <<time, board, accepted>>
    PROVE  DatadogInv'
<1>1. BoardOK'
  BY DEF DatadogInv, BoardOK, Shows
<1>2. \A s \in DOMAIN accepted : s \in DOMAIN accepted' /\ accepted'[s].at >= accepted[s].at
  BY DEF DatadogInv, BoardOK, Series
<1> QED BY <1>1, <1>2, OnePushes

(* The sums of a push that meets one more failure.                         *)
LEMMA OneMoreFailure ==
    ASSUME NEW q \in Pushes, q.step = "event", Counts(q), D!DatadogAssumption
    PROVE  /\ q.pushed + (q.errors + 1) + (Len(q.failures) - q.next) = Len(q.failures)
           /\ q.errors + 1 # 0 /\ q.consecutive + 1 <= Threshold /\ q.consecutive <= Threshold
           /\ q.consecutive + 1 <= q.errors + 1 /\ q.consecutive <= q.errors + 1
           /\ q.next = Len(q.failures) => q.pushed + (q.errors + 1) + 0 = Len(q.failures)
           /\ q.next # Len(q.failures) =>
                q.next + 1 = 1 + q.pushed + (q.errors + 1) /\ q.next + 1 <= Len(q.failures)
           /\ ~(q.consecutive + 1 >= Threshold) => q.consecutive + 1 < Threshold
<1>1. PICK pushed, errors, next, streak, len :
         /\ pushed = q.pushed /\ errors = q.errors /\ next = q.next /\ streak = q.consecutive
         /\ len = Len(q.failures)
  OBVIOUS
<1>2. /\ pushed \in Nat /\ errors \in Nat /\ next \in Nat /\ streak \in Nat /\ len \in Nat
      /\ Threshold \in Nat
  BY <1>1 DEF Pushes, D!DatadogAssumption
<1>3. next = 1 + pushed + errors /\ next <= len /\ streak <= errors /\ streak < Threshold
  BY <1>1 DEF Counts
<1>4. /\ pushed + (errors + 1) + (len - next) = len
      /\ errors + 1 # 0 /\ streak + 1 <= Threshold /\ streak <= Threshold
      /\ streak + 1 <= errors + 1 /\ streak <= errors + 1
      /\ next = len => pushed + (errors + 1) + 0 = len
      /\ next # len => next + 1 = 1 + pushed + (errors + 1) /\ next + 1 <= len
      /\ ~(streak + 1 >= Threshold) => streak + 1 < Threshold
  BY <1>2, <1>3
<1> QED BY <1>1, <1>4

(* A push whose event failed counts it, and what it then skips.            *)
LEMMA FailedCounts ==
    ASSUME D!DatadogAssumption, NEW q \in Pushes, q.step = "event", Counts(q)
    PROVE  D!Failed(q) \in Pushes /\ Counts(D!Failed(q)) /\ D!Failed(q).success = FALSE
<1>1. PICK n : n = D!Failed(q)
  OBVIOUS
<1>2. /\ q.next \in Nat /\ q.pushed \in Nat /\ q.errors \in Nat /\ q.consecutive \in Nat
      /\ Len(q.failures) \in Nat /\ q.skipped \in Nat /\ Threshold \in Nat \ {0}
  BY DEF Pushes, D!DatadogAssumption
<1>3. /\ q.next = 1 + q.pushed + q.errors /\ q.skipped = 0 /\ q.next <= Len(q.failures)
      /\ q.consecutive < Threshold /\ q.consecutive <= q.errors /\ q.success = FALSE
  BY DEF Counts, Pushes
<1>4. PICK k : k = D!Skipping(q)
  OBVIOUS
<1>5. PICK s : s = IF D!Tripped(q) \/ q.next = Len(q.failures) THEN "series" ELSE "event"
  OBVIOUS
<1>6. k \in Nat /\ (k = IF q.consecutive + 1 >= Threshold THEN Len(q.failures) - q.next ELSE 0)
  BY <1>2, <1>3, <1>4 DEF D!Skipping, D!Tripped
<1>7. /\ n.errors = q.errors + 1 /\ n.consecutive = q.consecutive + 1 /\ n.next = q.next + 1
      /\ n.skipped = k /\ n.step = s /\ n.pushed = q.pushed /\ n.failures = q.failures
      /\ n.success = FALSE
  BY <1>1, <1>3, <1>4, <1>5 DEF D!Failed, Pushes
<1>8. n \in Pushes
  <2>1. PICK e : e = q.errors + 1
    OBVIOUS
  <2>2. PICK c : c = q.consecutive + 1
    OBVIOUS
  <2>3. PICK x : x = q.next + 1
    OBVIOUS
  <2>4. e \in Nat /\ c \in Nat /\ x \in Nat /\ k \in Nat /\ s \in {"event", "series"}
    BY <1>2, <1>5, <1>6, <2>1, <2>2, <2>3
  <2>5. n = [q EXCEPT !.errors = e, !.consecutive = c, !.next = x, !.skipped = k, !.step = s]
    BY <1>1, <1>4, <1>5, <2>1, <2>2, <2>3 DEF D!Failed
  <2> QED BY <2>4, <2>5 DEF Pushes
<1>12. /\ q.pushed + (q.errors + 1) + (Len(q.failures) - q.next) = Len(q.failures)
       /\ q.errors + 1 # 0 /\ q.consecutive + 1 <= Threshold
       /\ q.consecutive + 1 <= q.errors + 1
       /\ q.next = Len(q.failures) => q.pushed + (q.errors + 1) + 0 = Len(q.failures)
       /\ q.next # Len(q.failures) =>
            q.next + 1 = 1 + q.pushed + (q.errors + 1) /\ q.next + 1 <= Len(q.failures)
       /\ ~(q.consecutive + 1 >= Threshold) => q.consecutive + 1 < Threshold
  BY OneMoreFailure
<1>9. CASE q.consecutive + 1 >= Threshold
  <2>1. n.step = "series" /\ n.skipped = Len(q.failures) - q.next
    BY <1>5, <1>6, <1>7, <1>9 DEF D!Tripped
  <2>2. n.pushed + n.errors + n.skipped = Len(n.failures) /\ n.errors # 0
        /\ n.consecutive <= Threshold /\ n.consecutive <= n.errors
    BY <1>7, <1>12, <2>1
  <2> QED BY <1>1, <1>7, <1>8, <2>1, <2>2 DEF Counts
<1>10. CASE ~(q.consecutive + 1 >= Threshold) /\ q.next = Len(q.failures)
  <2>1. n.step = "series" /\ n.skipped = 0
    BY <1>5, <1>6, <1>7, <1>10 DEF D!Tripped
  <2>2. n.pushed + n.errors + n.skipped = Len(n.failures) /\ n.errors # 0
        /\ n.consecutive <= Threshold /\ n.consecutive <= n.errors
    BY <1>7, <1>10, <1>12, <2>1
  <2> QED BY <1>1, <1>7, <1>8, <2>1, <2>2 DEF Counts
<1>11. CASE ~(q.consecutive + 1 >= Threshold) /\ q.next # Len(q.failures)
  <2>1. n.step = "event" /\ n.skipped = 0
    BY <1>5, <1>6, <1>7, <1>11 DEF D!Tripped
  <2>2. n.next = 1 + n.pushed + n.errors /\ n.next <= Len(n.failures)
        /\ n.consecutive < Threshold /\ n.consecutive <= n.errors
    BY <1>7, <1>11, <1>12, <2>1
  <2> QED BY <1>1, <1>7, <1>8, <2>1, <2>2 DEF Counts
<1> QED BY <1>9, <1>10, <1>11

(* A push whose event was taken counts it.                                 *)
LEMMA EmittedCounts ==
    ASSUME D!DatadogAssumption, NEW q \in Pushes, q.step = "event", Counts(q)
    PROVE  D!Emitted(q) \in Pushes /\ Counts(D!Emitted(q)) /\ D!Emitted(q).success = FALSE
<1>1. PICK n : n = D!Emitted(q)
  OBVIOUS
<1>2. /\ q.next \in Nat /\ q.pushed \in Nat /\ q.errors \in Nat /\ q.consecutive \in Nat
      /\ Len(q.failures) \in Nat /\ q.skipped \in Nat /\ Threshold \in Nat \ {0}
  BY DEF Pushes, D!DatadogAssumption
<1>3. /\ q.next = 1 + q.pushed + q.errors /\ q.skipped = 0 /\ q.next <= Len(q.failures)
      /\ q.success = FALSE
  BY DEF Counts, Pushes
<1>4. PICK s : s = IF q.next = Len(q.failures) THEN "series" ELSE "event"
  OBVIOUS
<1>5. /\ n.errors = q.errors /\ n.consecutive = 0 /\ n.next = q.next + 1
      /\ n.skipped = 0 /\ n.step = s /\ n.pushed = q.pushed + 1 /\ n.failures = q.failures
      /\ n.success = FALSE
  BY <1>1, <1>3, <1>4 DEF D!Emitted, Pushes
<1>6. n \in Pushes
  <2>1. PICK e : e = q.pushed + 1
    OBVIOUS
  <2>2. PICK x : x = q.next + 1
    OBVIOUS
  <2>3. e \in Nat /\ x \in Nat /\ 0 \in Nat /\ s \in {"event", "series"}
    BY <1>2, <1>4, <2>1, <2>2
  <2>4. n = [q EXCEPT !.pushed = e, !.consecutive = 0, !.next = x, !.step = s]
    BY <1>1, <1>4, <2>1, <2>2 DEF D!Emitted
  <2> QED BY <2>3, <2>4 DEF Pushes
<1>7. Counts(n)
  BY <1>2, <1>3, <1>4, <1>5 DEF Counts
<1> QED BY <1>1, <1>5, <1>6, <1>7

(* Every step of a push keeps the counts and the board.                    *)
LEMMA ServeDatadog ==
    ASSUME D!DatadogAssumption, DatadogInv, NEW p \in Handlers, D!Serve(p) PROVE DatadogInv'
<1>0. PICK q : q = push[p]
  OBVIOUS
<1>1. D!NoPush.step = "idle"
  BY DEF D!NoPush
<1>2. q.step # "idle" => q \in Pushes /\ Counts(q) /\ Earned(q)
  BY <1>0, <1>1 DEF DatadogInv
<1>3. time \in Nat /\ Threshold \in Nat \ {0}
  BY DEF DatadogInv, D!DatadogAssumption
<1>4. ASSUME NEW s \in Targets, NEW classify \in BOOLEAN, NEW found \in Entries[s],
             D!Begin(p, s, found, classify)
      PROVE  DatadogInv'
  <2>1. PICK n : n = [step |-> "context", scope |-> s, classify |-> classify,
           failures |-> found, next |-> 1, pushed |-> 0, errors |-> 0, skipped |-> 0,
           consecutive |-> 0, at |-> 0, success |-> FALSE]
    OBVIOUS
  <2>2. push' = [push EXCEPT ![p] = n] /\ UNCHANGED <<time, board, accepted>>
    BY <1>4, <2>1 DEF D!Begin
  <2>3. found \in Seq(D!Values)
    BY DEF D!DatadogAssumption
  <2>4. n \in Pushes
    BY <2>1, <2>3 DEF Pushes
  <2>5. Counts(n) /\ n.success = FALSE
    BY <2>1 DEF Counts
  <2> QED BY <2>2, <2>4, <2>5, OneGoesOn
<1>5. ASSUME D!BuildContext(p) PROVE DatadogInv'
  <2>1. q.step = "context" /\ UNCHANGED <<time, board, accepted>> /\ q \in Pushes /\ Counts(q)
    BY <1>0, <1>2, <1>5 DEF D!BuildContext
  <2>2. PICK n : n = [q EXCEPT !.step = "create"]
    OBVIOUS
  <2>3. push' = [push EXCEPT ![p] = n]
    BY <1>0, <1>5, <2>2 DEF D!BuildContext
  <2>4. n \in Pushes
    BY <2>1, <2>2 DEF Pushes
  <2>5. Counts(n) /\ n.success = FALSE
    BY <2>1, <2>2 DEF Counts, Pushes
  <2> QED BY <2>1, <2>3, <2>4, <2>5, OneGoesOn
<1>6. ASSUME D!CreateExporter(p) PROVE DatadogInv'
  <2>1. q.step = "create" /\ UNCHANGED <<time, board, accepted>> /\ q \in Pushes /\ Counts(q)
    BY <1>0, <1>2, <1>6 DEF D!CreateExporter
  <2>2. PICK s : s = IF q.failures = <<>> THEN "series" ELSE "event"
    OBVIOUS
  <2>3. PICK n : n = [q EXCEPT !.at = time, !.step = s]
    OBVIOUS
  <2>4. push' = [push EXCEPT ![p] = n] \/ push' = [push EXCEPT ![p] = D!NoPush]
    BY <1>0, <1>6, <2>2, <2>3 DEF D!CreateExporter, D!Becomes
  <2>5. n \in Pushes
    BY <1>3, <2>1, <2>2, <2>3 DEF Pushes
  <2>6. /\ n.step = s /\ n.next = q.next /\ n.pushed = q.pushed /\ n.errors = q.errors
        /\ n.skipped = q.skipped /\ n.consecutive = q.consecutive /\ n.failures = q.failures
        /\ n.success = q.success
    BY <2>1, <2>3 DEF Pushes
  <2>7. /\ q.failures \in Seq(D!Values) /\ (q.failures = <<>> <=> Len(q.failures) = 0)
        /\ Len(q.failures) \in Nat
    BY <2>1 DEF Pushes
  <2>8. /\ q.next = 1 /\ q.pushed = 0 /\ q.errors = 0 /\ q.skipped = 0 /\ q.consecutive = 0
        /\ q.success = FALSE
    BY <2>1 DEF Counts, Pushes
  <2>9. Counts(n) /\ n.success = FALSE
    BY <1>3, <2>2, <2>6, <2>7, <2>8 DEF Counts
  <2> QED BY <2>1, <2>4, <2>5, <2>9, OneGoesOn, OneIsOver
<1>7. ASSUME D!Event(p) PROVE DatadogInv'
  <2>1. q.step = "event" /\ UNCHANGED <<time, board, accepted>> /\ q \in Pushes /\ Counts(q)
    BY <1>0, <1>2, <1>7 DEF D!Event
  <2>2. push' = [push EXCEPT ![p] = D!Failed(q)] \/ push' = [push EXCEPT ![p] = D!Emitted(q)]
    BY <1>0, <1>7 DEF D!Event, D!Becomes
  <2> QED BY <2>1, <2>2, FailedCounts, EmittedCounts, OneGoesOn
<1>8. ASSUME D!Refused(p) PROVE DatadogInv'
  <2>1. q.step = "event" /\ UNCHANGED <<time, board, accepted>> /\ q \in Pushes /\ Counts(q)
    BY <1>0, <1>2, <1>8 DEF D!Refused
  <2>2. PICK n : n = [q EXCEPT !.step = "over", !.errors = @ + 1,
                               !.skipped = Len(q.failures) - q.next]
    OBVIOUS
  <2>3. push' = [push EXCEPT ![p] = n]
    BY <1>0, <1>8, <2>2 DEF D!Refused, D!Becomes
  <2>4. /\ q.next \in Nat /\ q.pushed \in Nat /\ q.errors \in Nat /\ q.consecutive \in Nat
        /\ Len(q.failures) \in Nat /\ q.next <= Len(q.failures) /\ q.next = 1 + q.pushed + q.errors
        /\ q.consecutive < Threshold /\ q.consecutive <= q.errors /\ q.success = FALSE
    BY <2>1 DEF Pushes, Counts
  <2>5. n \in Pushes
    <3>1. PICK e : e = q.errors + 1
      OBVIOUS
    <3>2. PICK k : k = Len(q.failures) - q.next
      OBVIOUS
    <3>3. e \in Nat /\ k \in Nat /\ n = [q EXCEPT !.step = "over", !.errors = e, !.skipped = k]
      BY <2>2, <2>4, <3>1, <3>2
    <3> QED BY <2>1, <3>3 DEF Pushes
  <2>6. /\ n.step = "over" /\ n.pushed = q.pushed /\ n.errors = q.errors + 1
        /\ n.skipped = Len(q.failures) - q.next /\ n.consecutive = q.consecutive
        /\ n.failures = q.failures /\ n.success = FALSE
    BY <2>1, <2>2, <2>4 DEF Pushes
  <2>7. n.pushed + n.errors + n.skipped = Len(n.failures) /\ n.errors # 0
        /\ n.consecutive <= Threshold /\ n.consecutive <= n.errors
    <3>1. /\ q.pushed + (q.errors + 1) + (Len(q.failures) - q.next) = Len(q.failures)
          /\ q.errors + 1 # 0 /\ q.consecutive <= Threshold /\ q.consecutive <= q.errors + 1
      BY <2>1, OneMoreFailure
    <3> QED BY <2>6, <3>1
  <2>8. Counts(n)
    BY <2>6, <2>7 DEF Counts
  <2> QED BY <2>1, <2>3, <2>5, <2>6, <2>8, OneGoesOn
<1>9. ASSUME D!PostSeries(p) PROVE DatadogInv'
  <2>1. q.step = "series" /\ UNCHANGED time /\ q \in Pushes /\ Counts(q)
    BY <1>0, <1>2, <1>9 DEF D!PostSeries
  <2>2. PICK n : n = [q EXCEPT !.step = "over", !.success = D!Succeeded(q)]
    OBVIOUS
  <2>3. PICK m : m = [q EXCEPT !.step = "over"]
    OBVIOUS
  <2>4. /\ q.pushed \in Nat /\ q.errors \in Nat /\ q.success = FALSE /\ D!Succeeded(q) \in BOOLEAN
    BY <2>1 DEF Pushes, Counts, D!Succeeded
  <2>5. n \in Pushes /\ m \in Pushes
    BY <2>1, <2>2, <2>3, <2>4 DEF Pushes
  <2>6. /\ n.step = "over" /\ n.pushed = q.pushed /\ n.errors = q.errors
        /\ n.skipped = q.skipped /\ n.consecutive = q.consecutive /\ n.failures = q.failures
        /\ n.success = D!Succeeded(q) /\ n.scope = q.scope /\ n.at = q.at
    BY <2>1, <2>2 DEF Pushes
  <2>7. /\ m.step = "over" /\ m.pushed = q.pushed /\ m.errors = q.errors
        /\ m.skipped = q.skipped /\ m.consecutive = q.consecutive /\ m.failures = q.failures
        /\ m.success = FALSE
    BY <2>1, <2>3, <2>4 DEF Pushes
  <2>8. Counts(n) /\ Counts(m)
    BY <2>1, <2>6, <2>7 DEF Counts
  <2>9. \/ D!Took(q) /\ push' = [push EXCEPT ![p] = n]
        \/ D!Took(q) /\ push' = [push EXCEPT ![p] = m]
        \/ UNCHANGED <<board, accepted>> /\ push' = [push EXCEPT ![p] = m]
    BY <1>0, <1>9, <2>2, <2>3 DEF D!PostSeries, D!Becomes
  <2>10. CASE D!Took(q)
    <3>1. /\ BoardOK' /\ q.scope \in DOMAIN accepted' /\ accepted'[q.scope].at >= q.at
          /\ \A s \in DOMAIN accepted : s \in DOMAIN accepted' /\ accepted'[s].at >= accepted[s].at
      BY <2>1, <2>10, Taking DEF DatadogInv
    <3>2. Earned(n)' /\ Earned(m)'
      BY <2>6, <2>7, <3>1 DEF Earned, IsTaken, D!Succeeded
    <3>3. n # D!NoPush /\ m # D!NoPush
      BY <1>1, <2>6, <2>7
    <3>4. push' = [push EXCEPT ![p] = n] \/ push' = [push EXCEPT ![p] = m]
      BY <2>9
    <3> QED BY <2>1, <2>5, <2>8, <3>1, <3>2, <3>4, OnePushes
  <2>11. CASE UNCHANGED <<board, accepted>> /\ push' = [push EXCEPT ![p] = m]
    BY <2>1, <2>5, <2>7, <2>8, <2>11, OneGoesOn
  <2> QED BY <2>9, <2>10, <2>11
<1>10. ASSUME D!Finish(p) PROVE DatadogInv'
  BY <1>10, OneIsOver DEF D!Finish
<1> QED BY <1>4, <1>5, <1>6, <1>7, <1>8, <1>9, <1>10 DEF D!Serve

(* At the start nothing was pushed.                                        *)
LEMMA DatadogInit ==
    ASSUME D!DatadogAssumption, D!Init PROVE DatadogInv
BY DEF D!Init, DatadogInv, BoardOK, Shows

(* The other parts change no push and no series.                           *)
LEMMA DatadogStutters ==
    ASSUME DatadogInv, UNCHANGED boardVars PROVE DatadogInv'
BY DEF DatadogInv, BoardOK, Shows, Earned, IsTaken, Counts, boardVars

(* Every step of the pushes keeps their invariant.                         *)
LEMMA DatadogNext ==
    ASSUME D!DatadogAssumption, DatadogInv, D!Next PROVE DatadogInv'
<1>1. CASE D!Tick
  BY <1>1 DEF D!Tick, DatadogInv, BoardOK, Shows, Earned, IsTaken, Counts
<1> QED BY <1>1, ServeDatadog DEF D!Next

(* With the invariant a board is of one push, and a push adds up.          *)
LEMMA DatadogHolds ==
    ASSUME D!DatadogAssumption, DatadogInv PROVE D!BoardIsOnePush /\ D!PushAddsUp
<1>1. D!BoardIsOnePush
  <2>1. \A s \in DOMAIN accepted, label \in Vocabulary : Shows(s, label)
    BY DEF DatadogInv, BoardOK
  <2>2. \A k \in DOMAIN board : k[2] \in Vocabulary
    BY DEF DatadogInv, BoardOK
  <2>3. ASSUME NEW s \in DOMAIN accepted, NEW label \in Vocabulary
        PROVE  LET k == <<D!Identity(s), label>> IN
               k \in DOMAIN board /\ board[k].value = D!Counted(accepted[s], label)
    <3>1. PICK k : k = <<D!Identity(s), label>>
      OBVIOUS
    <3>2. k \in DOMAIN board
          /\ board[k] = [at |-> accepted[s].at, value |-> D!Counted(accepted[s], label)]
      BY <2>1, <3>1 DEF Shows
    <3>3. board[k].value = D!Counted(accepted[s], label)
      BY <3>2
    <3> QED BY <3>1, <3>2, <3>3
  <2> QED BY <2>2, <2>3 DEF D!BoardIsOnePush
<1>2. ASSUME NEW p \in Handlers, push[p].step = "over"
      PROVE  /\ push[p].pushed + push[p].errors + push[p].skipped = Len(push[p].failures)
             /\ push[p].consecutive <= Threshold
             /\ push[p].success =>
                  /\ push[p].pushed = Len(push[p].failures) /\ push[p].pushed > 0
                  /\ push[p].scope \in DOMAIN accepted
                  /\ accepted[push[p].scope].at >= push[p].at
  <2>1. PICK q : q = push[p]
    OBVIOUS
  <2>2. q \in Pushes /\ Counts(q) /\ Earned(q)
    BY <1>2, <2>1 DEF DatadogInv, D!NoPush
  <2>3. q.pushed \in Nat /\ q.errors \in Nat /\ q.skipped \in Nat
    BY <2>2 DEF Pushes
  <2> QED BY <1>2, <2>1, <2>2, <2>3 DEF Counts, Earned, IsTaken
<1> QED BY <1>1, <1>2 DEF D!PushAddsUp

-----------------------------------------------------------------------------
(* Pushes to Report Portal                                                 *)

Matchings == UNION {[S -> R!Tests] : S \in SUBSET Items}
Histories == [R!Tests -> {R!NoHistory, "INFRASTRUCTURE"}]

(* A push that is under way, and one that has reported.                    *)
Matching ==
    [step : {"context", "launch", "items", "locators", "put"}, classify : BOOLEAN,
     class : [R!Tests -> Classes], history : Histories, matched : Matchings]
Reported ==
    [step : {"over"}, pushed : Nat, errors : Nat, unmatched : SUBSET Items, matched : Matchings,
     wrote : Nat]

(* The issue of an item: one of a test it matches, of one of the updates;  *)
(* an update gives one test one type.                                      *)
MarksOK ==
    /\ puts \in Nat /\ marks = [i \in Items |-> marks[i]]
    /\ \A i \in Items :
         /\ marks[i].by \in 0..puts
         /\ marks[i].by = 0 => marks[i] = R!Untouched
         /\ marks[i].by > 0 => <<i, marks[i].test>> \in R!Related
    /\ \A i, j \in Items :
         marks[i].by = marks[j].by /\ marks[i].test = marks[j].test =>
            marks[i].type = marks[j].type

Kept(q) == DOMAIN q.matched \ (Nameless \union q.unmatched)
IsRelated(q) == \A i \in DOMAIN q.matched : <<i, q.matched[i]>> \in R!Related
Tells(q) ==
    /\ q.pushed > 0 => q.pushed = R!Cardinality(Kept(q))
    /\ q.errors = 0 => q.pushed = R!Cardinality(Kept(q))
    /\ q.pushed = 0 /\ q.errors = 0 => q.wrote = 0
Stands(q) == q.pushed > 0 => \A i \in Kept(q) : marks[i].by >= q.wrote

PortalInv ==
    /\ MarksOK /\ class \in [R!Tests -> Classes] /\ history \in Histories
    /\ update \in [Handlers -> {R!NoPush} \union Matching \union Reported]
    /\ \A p \in Handlers :
         /\ update[p] \in Matching => IsRelated(update[p])
         /\ update[p] \in Reported => Tells(update[p]) /\ Stands(update[p])

(* A set of numbers has a least one.                                       *)
LEMMA LeastNumber ==
    ASSUME NEW S, S \subseteq Nat, S # {} PROVE \E x \in S : \A y \in S : x <= y
<1>1. PICK x \in S : \A y \in S : ~ (<<y, x>> \in OpToRel(<, Nat))
  BY NatLessThanWellFounded, WFMin, Zenon
<1>2. ASSUME NEW y \in S PROVE x <= y
  <2>1. x \in Nat /\ y \in Nat
    OBVIOUS
  <2>2. <<y, x>> \notin OpToRel(<, Nat)
    BY <1>1, Zenon
  <2>3. <<y, x>> \in OpToRel(<, Nat) <=> y < x
    BY <2>1, Zenon DEF OpToRel
  <2>4. ~(y < x)
    BY <2>2, <2>3, Zenon
  <2> QED BY <2>1, <2>4
<1> QED BY <1>1, <1>2

(* The sets of items are finite, and their sizes numbers.                  *)
LEMMA ItemsCount ==
    ASSUME R!PortalAssumption, NEW S \in SUBSET Items
    PROVE  R!Cardinality(S) \in Nat /\ (R!Cardinality(S) = 0 <=> S = {})
<1>1. R!IsFiniteSet(Items) <=> IsFiniteSet(Items)
  BY DEF R!IsFiniteSet, IsFiniteSet
<1>2. R!Cardinality(S) = Cardinality(S)
  BY DEF R!Cardinality, Cardinality, R!IsFiniteSet, IsFiniteSet
<1>3. IsFiniteSet(S)
  BY <1>1, FS_Subset DEF R!PortalAssumption
<1> QED BY <1>2, <1>3, FS_CardinalityType, FS_EmptySet

(* An item is matched to a failure that it is named after.                 *)
LEMMA MatchesRelate ==
    ASSUME R!PortalAssumption, NEW found \in SUBSET Items, NEW m, m = R!MatchFailures(found)
    PROVE  m \in Matchings /\ \A i \in DOMAIN m : <<i, m[i]>> \in R!Related
<1> DEFINE hits(i) == {n \in DOMAIN Names : <<i, Names[n]>> \in R!Related}
<1>1. m = [i \in {x \in found : hits(x) # {}} |-> Names[R!Min(hits(i))]]
  BY DEF R!MatchFailures
<1>2. Names \in Seq(R!Tests) /\ DOMAIN Names \subseteq Nat
  BY DEF R!PortalAssumption
<1>3. ASSUME NEW i \in DOMAIN m
      PROVE  i \in Items /\ m[i] \in R!Tests /\ <<i, m[i]>> \in R!Related
  <2>1. i \in found /\ hits(i) # {} /\ hits(i) \subseteq Nat /\ m[i] = Names[R!Min(hits(i))]
    BY <1>1, <1>2
  <2>2. R!Min(hits(i)) \in hits(i)
    <3>1. PICK S : S = hits(i)
      OBVIOUS
    <3>2. \E x \in S : \A y \in S : x <= y
      BY <2>1, <3>1, LeastNumber
    <3>3. R!Min(S) \in S
      BY <3>2 DEF R!Min
    <3> QED BY <3>1, <3>3
  <2>3. R!Min(hits(i)) \in DOMAIN Names /\ <<i, Names[R!Min(hits(i))]>> \in R!Related
    BY <2>2
  <2> QED BY <1>2, <2>1, <2>3 DEF R!Tests
<1>4. m \in [DOMAIN m -> R!Tests] /\ DOMAIN m \in SUBSET Items
  BY <1>1, <1>3
<1>5. m \in Matchings
  BY <1>4 DEF Matchings
<1> QED BY <1>3, <1>5

(* The items of an update are those the push keeps.                        *)
LEMMA UpdatesTheKept ==
    ASSUME NEW q \in Matching
    PROVE  /\ DOMAIN R!BulkIssues(q) = DOMAIN q.matched \ (Nameless \union R!Unmatched(q))
           /\ DOMAIN q.matched \in SUBSET Items /\ R!Unmatched(q) \in SUBSET Items
<1>1. DOMAIN q.matched \in SUBSET Items
  BY DEF Matching, Matchings
<1> QED BY <1>1 DEF R!BulkIssues, R!Named, R!Unmatched

(* An update: new numbers, related items, one type for each test.          *)
LEMMA Updating ==
    ASSUME R!PortalAssumption, MarksOK, NEW q \in Matching, IsRelated(q), R!Written(q)
    PROVE  /\ MarksOK' /\ puts' = puts + 1
           /\ \A i \in DOMAIN R!BulkIssues(q) : marks'[i].by = puts'
           /\ \A i \in Items : marks'[i].by >= marks[i].by
<1> DEFINE bulk == DOMAIN R!BulkIssues(q)
           kind(t) == IF q.classify THEN R!ClassificationMap[R!Mapped(q, t)] ELSE "TO_INVESTIGATE"
           entry(i) == [test |-> q.matched[i], by |-> puts + 1, type |-> kind(q.matched[i])]
<1>1. bulk \subseteq DOMAIN q.matched /\ bulk \subseteq Items
  BY UpdatesTheKept
<1>2. \A i \in bulk : R!BulkIssues(q)[i] = entry(i)
  BY DEF R!BulkIssues
<1>3. puts \in Nat /\ puts' = puts + 1 /\ marks' = [i \in Items |-> marks'[i]]
  BY DEF R!Written, MarksOK
<1> HIDE DEF bulk, kind
<1>4. \A i \in Items : marks'[i] = IF i \in bulk THEN entry(i) ELSE marks[i]
  BY <1>2 DEF R!Written, bulk
<1>5. ASSUME NEW i \in bulk
      PROVE  /\ marks'[i].by = puts + 1 /\ marks'[i].test = q.matched[i]
             /\ marks'[i].type = kind(q.matched[i])
  <2>1. PICK t, k : t = q.matched[i] /\ k = kind(q.matched[i])
    OBVIOUS
  <2>2. marks'[i] = [test |-> t, by |-> puts + 1, type |-> k]
    BY <1>1, <1>4, <2>1, Zenon
  <2> QED BY <2>1, <2>2
<1>6. \A i \in Items \ bulk : marks'[i] = marks[i] /\ marks[i].by \in 0..puts
  BY <1>4 DEF MarksOK
<1>7. ASSUME NEW i \in Items
      PROVE  /\ marks'[i].by \in 0..(puts + 1) /\ marks'[i].by >= marks[i].by
             /\ marks'[i].by = 0 => marks'[i] = R!Untouched
             /\ marks'[i].by > 0 => <<i, marks'[i].test>> \in R!Related
  <2>1. CASE i \in bulk
    <3>1. marks'[i].by = puts + 1 /\ marks'[i].test = q.matched[i]
      BY <1>5, <2>1
    <3>2. <<i, q.matched[i]>> \in R!Related
      BY <1>1, <2>1 DEF IsRelated
    <3>3. marks[i].by \in 0..puts
      BY DEF MarksOK
    <3>4. PICK n, m : n = marks[i].by /\ m = marks'[i].by
      OBVIOUS
    <3>5. m \in 0..(puts + 1) /\ m >= n /\ m # 0
      BY <1>3, <3>1, <3>3, <3>4
    <3> QED BY <3>1, <3>2, <3>4, <3>5
  <2>2. CASE i \notin bulk
    BY <1>3, <1>6, <2>2 DEF MarksOK
  <2> QED BY <2>1, <2>2
<1>8. ASSUME NEW i \in Items, NEW j \in Items, marks'[i].by = marks'[j].by,
             marks'[i].test = marks'[j].test
      PROVE  marks'[i].type = marks'[j].type
  <2>1. CASE i \in bulk /\ j \in bulk
    BY <1>5, <1>8, <2>1
  <2>2. CASE i \notin bulk /\ j \notin bulk
    BY <1>6, <1>8, <2>2 DEF MarksOK
  <2>3. CASE ~(i \in bulk <=> j \in bulk)
    BY <1>3, <1>5, <1>6, <1>8, <2>3
  <2> QED BY <2>1, <2>2, <2>3
<1>9. MarksOK'
  BY <1>3, <1>7, <1>8 DEF MarksOK
<1> QED BY <1>3, <1>5, <1>7, <1>9 DEF bulk

Pushing == {R!NoPush} \union Matching \union Reported

(* The number of an update is a number.                                    *)
LEMMA NumbersAreNumbers ==
    ASSUME MarksOK, NEW i \in Items PROVE marks[i].by \in Nat
<1>1. PICK m, n : m = puts /\ n = marks[i].by
  OBVIOUS
<1>2. m \in Nat /\ n \in 0..m
  BY <1>1 DEF MarksOK
<1> QED BY <1>1, <1>2

(* So is the number after a step.                                          *)
LEMMA NumbersStayNumbers ==
    ASSUME MarksOK', NEW i \in Items PROVE marks'[i].by \in Nat
<1>1. PICK m, n : m = puts' /\ n = marks'[i].by
  OBVIOUS
<1>2. m \in Nat /\ n \in 0..m
  BY <1>1 DEF MarksOK
<1> QED BY <1>1, <1>2

(* A push writes or reports nothing of another: the issues keep the number *)
(* of an update or get a later one.                                        *)
LEMMA OnePushMoves ==
    ASSUME R!PortalAssumption, PortalInv, NEW p \in Handlers, NEW q \in Pushing,
           update' = [update EXCEPT ![p] = q], MarksOK',
           class' \in [R!Tests -> Classes], history' \in Histories,
           \A i \in Items : marks'[i].by >= marks[i].by,
           q \in Matching => IsRelated(q),
           q \in Reported => Tells(q),
           q \in Reported => (q.pushed > 0 => \A i \in Kept(q) : marks'[i].by >= q.wrote)
    PROVE  PortalInv'
<1>1. update \in [Handlers -> Pushing] /\ update' \in [Handlers -> Pushing]
  BY DEF PortalInv, Pushing
<1>2. ASSUME NEW h \in Handlers
      PROVE  /\ update'[h] \in Matching => IsRelated(update'[h])
             /\ update'[h] \in Reported => Tells(update'[h]) /\ Stands(update[h])'
  <2>1. PICK r \in Pushing : r = update'[h]
    BY <1>1
  <2>2. r \in Matching => IsRelated(r)
    BY <1>1, <2>1 DEF PortalInv
  <2>3. CASE h = p
    <3>1. r = q
      BY <1>1, <2>1, <2>3
    <3> QED BY <2>1, <2>2, <3>1 DEF Stands
  <2>4. CASE h # p
    <3>1. r = update[h]
      BY <1>1, <2>1, <2>4
    <3>2. ASSUME r \in Reported PROVE Tells(r) /\ (r.pushed > 0 => \A i \in Kept(r) : marks[i].by >= r.wrote)
      BY <3>1, <3>2 DEF PortalInv, Stands
    <3>3. ASSUME r \in Reported, r.pushed > 0, NEW i \in Kept(r) PROVE marks'[i].by >= r.wrote
      <4>1. marks[i].by >= r.wrote
        BY <3>2, <3>3
      <4>2. i \in Items
        BY <3>3 DEF Kept, Reported, Matchings
      <4>3. marks[i].by \in Nat /\ marks'[i].by \in Nat /\ r.wrote \in Nat
        BY <3>3, <4>2, NumbersAreNumbers, NumbersStayNumbers DEF PortalInv, Reported
      <4>4. PICK m, n, w : m = marks[i].by /\ n = marks'[i].by /\ w = r.wrote
        OBVIOUS
      <4>5. n >= m
        BY <4>2, <4>4
      <4> QED BY <4>1, <4>3, <4>4, <4>5
    <3> QED BY <2>1, <2>2, <3>2, <3>3 DEF Stands
  <2> QED BY <2>3, <2>4
<1> QED BY <1>1, <1>2 DEF PortalInv, Pushing

(* A push that goes on writes nothing.                                     *)
LEMMA OnePushGoesOn ==
    ASSUME R!PortalAssumption, PortalInv, NEW p \in Handlers, NEW q \in Matching, IsRelated(q),
           update' = [update EXCEPT ![p] = q], UNCHANGED <<class, history, marks, puts>>
    PROVE  PortalInv'
<1>1. MarksOK /\ MarksOK' /\ class' \in [R!Tests -> Classes] /\ history' \in Histories
  BY DEF PortalInv, MarksOK
<1>2. ASSUME NEW i \in Items PROVE marks'[i].by >= marks[i].by
  <2>1. PICK n : n = marks[i].by /\ n \in Nat
    BY <1>1, NumbersAreNumbers
  <2> QED BY <2>1
<1>3. q \notin Reported /\ q \in Pushing
  BY DEF Matching, Reported, Pushing
<1> QED BY <1>1, <1>2, <1>3, OnePushMoves

(* One that fails says so.                                                 *)
LEMMA OnePushFails ==
    ASSUME R!PortalAssumption, PortalInv, NEW p \in Handlers, R!FailureResult(p),
           UNCHANGED <<class, history, marks, puts>>
    PROVE  PortalInv'
<1>1. PICK q : q = [step |-> "over", pushed |-> 0, errors |-> 1, unmatched |-> {},
                    matched |-> R!Nothing, wrote |-> 0]
  OBVIOUS
<1>2. update' = [update EXCEPT ![p] = q]
  BY <1>1, Zenon DEF R!FailureResult
<1>3. R!Nothing \in Matchings
  <2>1. R!Nothing \in [{} -> R!Tests]
    BY DEF R!Nothing
  <2> QED BY <2>1 DEF Matchings
<1>4. q \in Reported
  BY <1>1, <1>3 DEF Reported
<1>5. Tells(q) /\ ~(q.pushed > 0)
  BY <1>1 DEF Tells
<1>6. MarksOK /\ MarksOK' /\ class' \in [R!Tests -> Classes] /\ history' \in Histories
  BY DEF PortalInv, MarksOK
<1>7. ASSUME NEW i \in Items PROVE marks'[i].by >= marks[i].by
  <2>1. PICK n : n = marks[i].by /\ n \in Nat
    BY <1>6, NumbersAreNumbers
  <2> QED BY <2>1
<1>8. q \notin Matching /\ q \in Pushing
  BY <1>4 DEF Matching, Reported, Pushing
<1> QED BY <1>2, <1>5, <1>6, <1>7, <1>8, OnePushMoves

(* A push under way has its five fields, and moving it on changes the step *)
(* and what the step has read.                                             *)
LEMMA FieldsOfPush ==
    ASSUME NEW q \in Matching
    PROVE  \E k, a, c, d, m :
              /\ a \in BOOLEAN /\ c \in [R!Tests -> Classes] /\ d \in Histories /\ m \in Matchings
              /\ q = [step |-> k, classify |-> a, class |-> c, history |-> d, matched |-> m]
BY DEF Matching

(* A push that moves on keeps what it matched.                             *)
LEMMA MovesOn ==
    ASSUME NEW q \in Matching, NEW s \in {"context", "launch", "items", "locators", "put"},
           NEW r, r = [q EXCEPT !.step = s]
    PROVE  r \in Matching /\ r.matched = q.matched
<1>1. PICK k, a, c, d, m :
        /\ a \in BOOLEAN /\ c \in [R!Tests -> Classes] /\ d \in Histories /\ m \in Matchings
        /\ q = [step |-> k, classify |-> a, class |-> c, history |-> d, matched |-> m]
  BY FieldsOfPush
<1>2. r = [step |-> s, classify |-> a, class |-> c, history |-> d, matched |-> m]
  BY <1>1
<1> QED BY <1>1, <1>2 DEF Matching

(* A push that is not idle or over is under way.                           *)
LEMMA PushesUnderway ==
    ASSUME PortalInv, NEW p \in Handlers,
           update[p].step \in {"context", "launch", "items", "locators", "put"}
    PROVE  update[p] \in Matching /\ IsRelated(update[p])
<1>1. update[p] \in {R!NoPush} \union Matching \union Reported
  BY DEF PortalInv
<1>2. update[p] # R!NoPush /\ update[p] \notin Reported
  BY DEF R!NoPush, Reported
<1> QED BY <1>1, <1>2 DEF PortalInv

(* A step that only moves a push on.                                       *)
LEMMA PushGoesOn ==
    ASSUME R!PortalAssumption, PortalInv, NEW p \in Handlers,
           update[p].step \in {"context", "launch", "items", "locators", "put"},
           NEW s \in {"context", "launch", "items", "locators", "put"},
           R!Goes(p, s), UNCHANGED <<class, history, marks, puts>>
    PROVE  PortalInv'
<1>1. PICK q : q = update[p] /\ q \in Matching /\ IsRelated(q)
  BY PushesUnderway
<1>2. PICK r : r = [q EXCEPT !.step = s]
  OBVIOUS
<1>3. update' = [update EXCEPT ![p] = r]
  <2>1. update' = [update EXCEPT ![p] = [update[p] EXCEPT !.step = s]]
    BY DEF R!Goes
  <2> QED BY <1>1, <1>2, <2>1
<1>4. r \in Matching /\ r.matched = q.matched
  BY <1>1, <1>2, MovesOn
<1>5. IsRelated(r)
  BY <1>1, <1>4 DEF IsRelated
<1> QED BY <1>3, <1>4, <1>5, OnePushGoesOn

(* A push begins with nothing matched.                                     *)
LEMMA PushBegins ==
    ASSUME R!PortalAssumption, PortalInv, NEW p \in Handlers, NEW classify \in BOOLEAN,
           R!Begin(p, classify)
    PROVE  PortalInv'
<1>1. PICK q : q = [step |-> "context", classify |-> classify, class |-> class,
                    history |-> [t \in R!Tests |-> R!NoHistory], matched |-> R!Nothing]
  OBVIOUS
<1>2. update' = [update EXCEPT ![p] = q] /\ UNCHANGED <<class, history, marks, puts>>
  BY <1>1, Zenon DEF R!Begin
<1>3. R!Nothing \in Matchings /\ DOMAIN R!Nothing = {}
  <2>1. R!Nothing \in [{} -> R!Tests]
    BY DEF R!Nothing
  <2> QED BY <2>1 DEF Matchings
<1>4. PICK c, d : c = class /\ d = [t \in R!Tests |-> R!NoHistory]
  OBVIOUS
<1>5. c \in [R!Tests -> Classes] /\ d \in Histories
  BY <1>4 DEF PortalInv, Histories
<1>6. q \in Matching
  BY <1>1, <1>3, <1>4, <1>5 DEF Matching
<1>7. IsRelated(q)
  BY <1>1, <1>3 DEF IsRelated
<1> QED BY <1>2, <1>6, <1>7, OnePushGoesOn

(* The history is read again, and nothing is matched yet.                  *)
LEMMA ContextIsBuilt ==
    ASSUME R!PortalAssumption, PortalInv, NEW p \in Handlers, R!BuildContext(p)
    PROVE  PortalInv'
<1>1. update[p].step = "context" /\ UNCHANGED <<class, history, marks, puts>>
  BY DEF R!BuildContext
<1>2. PICK q : q = update[p] /\ q \in Matching /\ IsRelated(q)
  BY <1>1, PushesUnderway
<1>3. PICK d : d = history /\ d \in Histories
  BY DEF PortalInv
<1>4. PICK r : r = [[q EXCEPT !.step = "launch"] EXCEPT !.history = d]
  OBVIOUS
<1>5. update' = [update EXCEPT ![p] = r]
  <2>1. update' = [update EXCEPT ![p] = [update[p] EXCEPT !.step = "launch", !.history = history]]
    BY DEF R!BuildContext, PortalInv
  <2> QED BY <1>2, <1>3, <1>4, <2>1
<1>6. r \in Matching /\ r.matched = q.matched
  <2>1. PICK k, a, c, e, m :
          /\ a \in BOOLEAN /\ c \in [R!Tests -> Classes] /\ e \in Histories /\ m \in Matchings
          /\ q = [step |-> k, classify |-> a, class |-> c, history |-> e, matched |-> m]
    BY <1>2, FieldsOfPush
  <2>2. r = [step |-> "launch", classify |-> a, class |-> c, history |-> d, matched |-> m]
    BY <1>4, <2>1
  <2> QED BY <1>3, <2>1, <2>2 DEF Matching
<1>7. IsRelated(r)
  BY <1>2, <1>6 DEF IsRelated
<1> QED BY <1>1, <1>5, <1>6, <1>7, OnePushGoesOn

(* The launch is found, or the push fails.                                 *)
LEMMA LaunchIsFound ==
    ASSUME R!PortalAssumption, PortalInv, NEW p \in Handlers, R!FindLaunch(p)
    PROVE  PortalInv'
<1>1. update[p].step = "launch" /\ UNCHANGED <<class, history, marks, puts>>
  BY DEF R!FindLaunch
<1>2. CASE R!FailureResult(p)
  BY <1>1, <1>2, OnePushFails
<1>3. CASE R!Goes(p, "items")
  BY <1>1, <1>3, PushGoesOn
<1> QED BY <1>2, <1>3 DEF R!FindLaunch

(* The items are read and matched, or the push fails.                      *)
LEMMA ItemsAreRead ==
    ASSUME R!PortalAssumption, PortalInv, NEW p \in Handlers, R!GetFailedItems(p)
    PROVE  PortalInv'
<1>1. update[p].step = "items" /\ UNCHANGED <<class, history, marks, puts>>
  BY DEF R!GetFailedItems
<1>2. CASE R!FailureResult(p)
  BY <1>1, <1>2, OnePushFails
<1>3. ASSUME NEW found \in SUBSET Items,
             update' = [update EXCEPT ![p].step = "locators", ![p].matched = R!MatchFailures(found)]
      PROVE  PortalInv'
  <2>1. PICK q : q = update[p] /\ q \in Matching /\ IsRelated(q)
    BY <1>1, PushesUnderway
  <2>2. PICK m : /\ m = R!MatchFailures(found) /\ m \in Matchings
                 /\ \A i \in DOMAIN m : <<i, m[i]>> \in R!Related
    BY MatchesRelate
  <2>3. PICK r : r = [[q EXCEPT !.step = "locators"] EXCEPT !.matched = m]
    OBVIOUS
  <2>4. update' = [update EXCEPT ![p] = r]
    <3>1. update \in [Handlers -> Pushing]
      BY DEF PortalInv, Pushing
    <3>2. update' = [update EXCEPT ![p] = [update[p] EXCEPT !.step = "locators", !.matched = m]]
      BY <1>3, <2>2, <3>1
    <3> QED BY <2>1, <2>3, <3>2
  <2>5. r \in Matching /\ r.matched = m
    <3>1. PICK k, a, c, d, n :
            /\ a \in BOOLEAN /\ c \in [R!Tests -> Classes] /\ d \in Histories /\ n \in Matchings
            /\ q = [step |-> k, classify |-> a, class |-> c, history |-> d, matched |-> n]
      BY <2>1, FieldsOfPush
    <3>2. r = [step |-> "locators", classify |-> a, class |-> c, history |-> d, matched |-> m]
      BY <2>3, <3>1
    <3> QED BY <2>2, <3>1, <3>2 DEF Matching
  <2>6. IsRelated(r)
    BY <2>2, <2>5 DEF IsRelated
  <2> QED BY <1>1, <2>4, <2>5, <2>6, OnePushGoesOn
<1> QED BY <1>2, <1>3 DEF R!GetFailedItems

(* The locators are read, or replaced by the defaults.                     *)
LEMMA LocatorsAreRead ==
    ASSUME R!PortalAssumption, PortalInv, NEW p \in Handlers, R!GetLocators(p)
    PROVE  PortalInv'
BY PushGoesOn DEF R!GetLocators

(* What a push reports once it has sent its update, or had nothing to      *)
(* send: the count of what it kept, or an error.                           *)
LEMMA PushReports ==
    ASSUME R!PortalAssumption, PortalInv, NEW p \in Handlers, NEW q \in Matching, q = update[p],
           NEW pushed \in Nat, NEW lost \in Nat, NEW wrote \in Nat,
           R!Result(p, q, pushed, lost, wrote), MarksOK', UNCHANGED <<class, history>>,
           \A i \in Items : marks'[i].by >= marks[i].by,
           \/ pushed = R!Cardinality(DOMAIN R!BulkIssues(q))
           \/ pushed = 0 /\ lost = 1,
           pushed = 0 /\ lost = 0 => wrote = 0,
           pushed > 0 => \A i \in DOMAIN R!BulkIssues(q) : marks'[i].by = wrote
    PROVE  PortalInv'
<1>1. PICK e : e = R!Cardinality(DOMAIN q.matched \cap Nameless) /\ e \in Nat
  <2>1. DOMAIN q.matched \cap Nameless \in SUBSET Items
    BY UpdatesTheKept
  <2> QED BY <2>1, ItemsCount
<1>2. PICK r : r = [step |-> "over", pushed |-> pushed, unmatched |-> R!Unmatched(q),
                    errors |-> lost + e, matched |-> q.matched, wrote |-> wrote]
  OBVIOUS
<1>3. update' = [update EXCEPT ![p] = r]
  BY <1>1, <1>2, Zenon DEF R!Result
<1>4. /\ r.pushed = pushed /\ r.unmatched = R!Unmatched(q) /\ r.errors = lost + e
      /\ r.matched = q.matched /\ r.wrote = wrote
  BY <1>2
<1>5. Kept(r) = DOMAIN R!BulkIssues(q) /\ Kept(r) \in SUBSET Items
  BY <1>4, UpdatesTheKept DEF Kept
<1>6. r \in Reported
  <2>1. PICK u, m : u = R!Unmatched(q) /\ m = q.matched /\ u \in SUBSET Items /\ m \in Matchings
    BY UpdatesTheKept DEF Matching
  <2>2. r = [step |-> "over", pushed |-> pushed, unmatched |-> u, errors |-> lost + e,
             matched |-> m, wrote |-> wrote]
    BY <1>2, <2>1
  <2>3. PICK f : f = lost + e /\ f \in Nat
    BY <1>1
  <2>4. r = [step |-> "over", pushed |-> pushed, errors |-> f, unmatched |-> u, matched |-> m,
             wrote |-> wrote]
    BY <2>2, <2>3
  <2> QED BY <2>1, <2>3, <2>4 DEF Reported
<1>7. PICK n : n = R!Cardinality(Kept(r)) /\ n \in Nat
  BY <1>5, ItemsCount
<1>8. Tells(r)
  <2>1. pushed = n \/ (pushed = 0 /\ lost = 1)
    BY <1>5, <1>7
  <2>2. pushed > 0 => pushed = n
    BY <2>1
  <2>3. lost + e = 0 => pushed = n
    BY <1>1, <2>1
  <2>4. pushed = 0 /\ lost + e = 0 => wrote = 0
    BY <1>1
  <2> QED BY <1>4, <1>7, <2>2, <2>3, <2>4 DEF Tells
<1>9. r.pushed > 0 => \A i \in Kept(r) : marks'[i].by >= r.wrote
  BY <1>4, <1>5
<1>10. r \notin Matching /\ r \in Pushing
  BY <1>6 DEF Matching, Reported, Pushing
<1>11. class' \in [R!Tests -> Classes] /\ history' \in Histories
  BY DEF PortalInv
<1> QED BY <1>3, <1>8, <1>9, <1>10, <1>11, OnePushMoves

(* The update itself: nothing to send, sent, or failed with or without     *)
(* effect.                                                                 *)
LEMMA IssuesArePut ==
    ASSUME R!PortalAssumption, PortalInv, NEW p \in Handlers, R!PushClassifications(p)
    PROVE  PortalInv'
<1>1. update[p].step = "put" /\ UNCHANGED <<class, history>>
  BY DEF R!PushClassifications
<1>2. PICK q : q = update[p] /\ q \in Matching /\ IsRelated(q)
  BY <1>1, PushesUnderway
<1>3. PICK bulk : bulk = R!Cardinality(DOMAIN R!BulkIssues(q)) /\ bulk \in Nat
  <2>1. DOMAIN R!BulkIssues(q) \in SUBSET Items
    BY <1>2, UpdatesTheKept
  <2> QED BY <2>1, ItemsCount
<1>4. MarksOK
  BY DEF PortalInv
<1>5. ASSUME UNCHANGED <<marks, puts>>
      PROVE  MarksOK' /\ \A i \in Items : marks'[i].by >= marks[i].by
  <2>1. MarksOK'
    BY <1>4, <1>5 DEF MarksOK
  <2>2. ASSUME NEW i \in Items PROVE marks'[i].by >= marks[i].by
    <3>1. PICK n : n = marks[i].by /\ n \in Nat
      BY <1>4, NumbersAreNumbers
    <3> QED BY <1>5, <3>1
  <2> QED BY <2>1, <2>2
<1>6. CASE bulk = 0 /\ R!Result(p, q, 0, 0, 0) /\ UNCHANGED <<marks, puts>>
  <2>1. DOMAIN R!BulkIssues(q) \in SUBSET Items
    BY <1>2, UpdatesTheKept
  <2> QED BY <1>1, <1>2, <1>3, <1>5, <1>6, PushReports
<1>7. CASE bulk > 0 /\ R!Written(q) /\ R!Result(p, q, bulk, 0, puts')
  <2>1. /\ MarksOK' /\ \A i \in DOMAIN R!BulkIssues(q) : marks'[i].by = puts'
        /\ \A i \in Items : marks'[i].by >= marks[i].by
    BY <1>2, <1>4, <1>7, Updating
  <2>2. PICK n : n = puts' /\ n \in Nat
    BY <2>1 DEF MarksOK
  <2> QED BY <1>1, <1>2, <1>3, <1>7, <2>1, <2>2, PushReports
<1>8. CASE R!Written(q) /\ R!Result(p, q, 0, 1, puts')
  <2>1. /\ MarksOK' /\ \A i \in Items : marks'[i].by >= marks[i].by
    BY <1>2, <1>4, <1>8, Updating
  <2>2. PICK n : n = puts' /\ n \in Nat
    BY <2>1 DEF MarksOK
  <2> QED BY <1>1, <1>2, <1>8, <2>1, <2>2, PushReports
<1>9. CASE UNCHANGED <<marks, puts>> /\ R!Result(p, q, 0, 1, 0)
  BY <1>1, <1>2, <1>5, <1>9, PushReports
<1> QED BY <1>2, <1>3, <1>6, <1>7, <1>8, <1>9 DEF R!PushClassifications

(* The request is answered, and the push is forgotten.                     *)
LEMMA PushFinishes ==
    ASSUME R!PortalAssumption, PortalInv, NEW p \in Handlers, R!Finish(p)
    PROVE  PortalInv'
<1>1. update' = [update EXCEPT ![p] = R!NoPush] /\ UNCHANGED <<class, history, marks, puts>>
  BY DEF R!Finish
<1>2. MarksOK /\ MarksOK' /\ class' \in [R!Tests -> Classes] /\ history' \in Histories
  BY <1>1 DEF PortalInv, MarksOK
<1>3. ASSUME NEW i \in Items PROVE marks'[i].by >= marks[i].by
  <2>1. PICK n : n = marks[i].by /\ n \in Nat
    BY <1>2, NumbersAreNumbers
  <2> QED BY <1>1, <2>1
<1>4. R!NoPush \in Pushing /\ R!NoPush \notin Matching /\ R!NoPush \notin Reported
  BY DEF R!NoPush, Matching, Reported, Pushing
<1> QED BY <1>1, <1>2, <1>3, <1>4, OnePushMoves

(* What is said of the tests changes no push and no issue.                 *)
LEMMA SayingsChange ==
    ASSUME PortalInv, UNCHANGED <<update, marks, puts>>,
           class' \in [R!Tests -> Classes], history' \in Histories
    PROVE  PortalInv'
<1>1. MarksOK'
  BY DEF PortalInv, MarksOK
<1> QED BY <1>1 DEF PortalInv, Stands

(* A test is classified or its history changed.                            *)
LEMMA TestsAreJudged ==
    ASSUME R!PortalAssumption, PortalInv, NEW t \in R!Tests,
           (\E value \in Classes : R!Override(t, value)) \/ R!Classify(t)
    PROVE  PortalInv'
<1>1. class \in [R!Tests -> Classes] /\ history \in Histories
  BY DEF PortalInv
<1>2. CASE \E value \in Classes : R!Override(t, value)
  BY <1>1, <1>2, SayingsChange DEF R!Override
<1>3. CASE R!Classify(t)
  <2>1. /\ UNCHANGED <<class, update, marks, puts>>
        /\ history' = [history EXCEPT ![t] = IF @ = R!NoHistory THEN "INFRASTRUCTURE" ELSE R!NoHistory]
    BY <1>3 DEF R!Classify
  <2>2. history' \in Histories
    BY <1>1, <2>1 DEF Histories
  <2> QED BY <1>1, <2>1, <2>2, SayingsChange
<1> QED BY <1>2, <1>3

-----------------------------------------------------------------------------

(* At the start no push is under way and every issue is untouched.         *)
LEMMA PortalInit == R!PortalAssumption /\ R!Init => PortalInv
<1> SUFFICES ASSUME R!PortalAssumption, R!Init PROVE PortalInv
  OBVIOUS
<1>1. /\ class \in [R!Tests -> Classes] /\ history = [t \in R!Tests |-> R!NoHistory]
      /\ update = [p \in Handlers |-> R!NoPush]
      /\ marks = [i \in Items |-> R!Untouched] /\ puts = 0
  BY DEF R!Init
<1>2. \A i \in Items : marks[i] = R!Untouched /\ marks[i].by = 0
  BY <1>1 DEF R!Untouched
<1>3. MarksOK
  BY <1>1, <1>2 DEF MarksOK
<1>4. history \in Histories /\ update \in [Handlers -> {R!NoPush} \union Matching \union Reported]
  BY <1>1 DEF Histories
<1>5. ASSUME NEW p \in Handlers PROVE update[p] \notin Matching /\ update[p] \notin Reported
  BY <1>1 DEF R!NoPush, Matching, Reported
<1> QED BY <1>1, <1>3, <1>4, <1>5 DEF PortalInv

(* The other parts change no push and no issue.                            *)
LEMMA PortalStutters == PortalInv /\ UNCHANGED markVars => PortalInv'
<1> SUFFICES ASSUME PortalInv, UNCHANGED markVars PROVE PortalInv'
  OBVIOUS
<1>1. UNCHANGED <<class, history, update, marks, puts>>
  BY DEF markVars
<1>2. class' \in [R!Tests -> Classes] /\ history' \in Histories
  BY <1>1 DEF PortalInv
<1> QED BY <1>1, <1>2, SayingsChange

(* Every step of the pushes keeps their invariant.                         *)
LEMMA PortalNext == R!PortalAssumption /\ PortalInv /\ R!Next => PortalInv'
<1> SUFFICES ASSUME R!PortalAssumption, PortalInv, R!Next PROVE PortalInv'
  OBVIOUS
<1>1. CASE \E p \in Handlers : R!Serve(p)
  <2>1. PICK p \in Handlers : R!Serve(p)
    BY <1>1
  <2> QED BY <2>1, PushBegins, ContextIsBuilt, LaunchIsFound, ItemsAreRead, LocatorsAreRead,
             IssuesArePut, PushFinishes DEF R!Serve
<1>2. CASE \E t \in R!Tests : (\E value \in Classes : R!Override(t, value)) \/ R!Classify(t)
  BY <1>2, TestsAreJudged
<1> QED BY <1>1, <1>2 DEF R!Next

(* The invariant makes every report the push's own.                        *)
LEMMA PortalHolds == PortalInv => R!PushIsReported
<1> SUFFICES ASSUME PortalInv PROVE R!PushIsReported
  OBVIOUS
<1>1. ASSUME NEW p \in Handlers, update[p].step = "over"
      PROVE  update[p] \in Reported /\ Tells(update[p]) /\ Stands(update[p])
  <2>1. update[p] \in {R!NoPush} \union Matching \union Reported
    BY DEF PortalInv
  <2>2. update[p] # R!NoPush /\ update[p] \notin Matching
    BY <1>1 DEF R!NoPush, Matching
  <2> QED BY <2>1, <2>2 DEF PortalInv
<1>2. ASSUME NEW i \in Items, marks[i].by > 0 PROVE <<i, marks[i].test>> \in R!Related
  BY <1>2 DEF PortalInv, MarksOK
<1>3. ASSUME NEW i \in Items, NEW j \in Items,
             marks[i].by = marks[j].by, marks[i].test = marks[j].test
      PROVE  marks[i].type = marks[j].type
  BY <1>3 DEF PortalInv, MarksOK
<1> QED BY <1>1, <1>2, <1>3 DEF R!PushIsReported, Tells, Stands, Kept

-----------------------------------------------------------------------------
(* What is written to other systems                                        *)

OutsideAssumption ==
    T!LinksAssumption /\ J!JiraAssumption /\ D!DatadogAssumption /\ R!PortalAssumption
OutsideInv == LinksInv /\ JiraInv /\ DatadogInv /\ PortalInv

(* The rest of the suite touches none of the four parts.                   *)
LEMMA OutsideStutters ==
    ASSUME OutsideInv, UNCHANGED <<linkVars, jiraVars, boardVars, markVars>> PROVE OutsideInv'
BY LinksStutter, JiraStutters, DatadogStutters, PortalStutters DEF OutsideInv

(* A step of one part leaves the invariants of the others alone.           *)
LEMMA OutsideMoves ==
    ASSUME OutsideAssumption, OutsideInv, OutsideNext PROVE OutsideInv'
<1>1. CASE T!Next /\ UNCHANGED <<jiraVars, boardVars, markVars>>
  BY <1>1, LinksNext, JiraStutters, DatadogStutters, PortalStutters DEF OutsideInv,
                                        OutsideAssumption
<1>2. CASE J!Next /\ UNCHANGED <<linkVars, boardVars, markVars>>
  BY <1>2, LinksStutter, JiraNext, DatadogStutters, PortalStutters DEF OutsideInv,
                                        OutsideAssumption
<1>3. CASE D!Next /\ UNCHANGED <<linkVars, jiraVars, markVars>>
  BY <1>3, LinksStutter, JiraStutters, DatadogNext, PortalStutters DEF OutsideInv,
                                        OutsideAssumption
<1>4. CASE R!Next /\ UNCHANGED <<linkVars, jiraVars, boardVars>>
  BY <1>4, LinksStutter, JiraStutters, DatadogStutters, PortalNext DEF OutsideInv,
                                        OutsideAssumption
<1> QED BY <1>1, <1>2, <1>3, <1>4 DEF OutsideNext

(* The invariants of the links, of the calls to Jira and of the pushes     *)
(* always hold, whichever part moves.                                      *)
THEOREM OutsideInvariance ==
    ASSUME OutsideAssumption PROVE SuiteSpec => []OutsideInv
<1>1. ASSUME SuiteInit PROVE OutsideInv
  <2>1. T!Init /\ J!Init /\ D!Init /\ R!Init
    BY <1>1 DEF SuiteInit
  <2> QED BY <2>1, LinksInit, JiraInit, DatadogInit, PortalInit DEF OutsideAssumption, OutsideInv
<1>2. ASSUME OutsideInv, [SuiteNext /\ UNCHANGED moves]_suiteVars PROVE OutsideInv'
  <2>1. CASE OutsideNext
    BY <1>2, <2>1, OutsideMoves
  <2>2. CASE UNCHANGED outside
    BY <1>2, <2>2, OutsideStutters DEF outside
  <2> QED BY <1>2, <2>1, <2>2 DEF SuiteNext, suiteVars
<1> QED BY <1>1, <1>2, PTL DEF SuiteSpec

(* The id a link is checked by is that of the link that is removed, Jira   *)
(* is called as the user who asked for it with a token that lives as long  *)
(* as the call, and a push to Datadog or Report Portal reports what it did *)
(* and leaves a scoreboard or issues of one push.                          *)
THEOREM WrittenOutsideIsTrue ==
    ASSUME OutsideAssumption PROVE SuiteSpec => []OutsideIsTrue
<1>1. OutsideInv => OutsideIsTrue
  BY LinksHold, JiraHolds, DatadogHolds, PortalHolds DEF OutsideInv, OutsideIsTrue,
                                        OutsideAssumption
<1> QED BY <1>1, OutsideInvariance, PTL

(* The suite runs the provider's specification: no other part touches it,  *)
(* so what is proved of the one holds in the other.                        *)
THEOREM SuiteRunsTheProvider == SuiteSpec => Spec
<1>1. SuiteInit => Init
  BY DEF SuiteInit
<1>2. [SuiteNext /\ UNCHANGED moves]_suiteVars => [Next]_vars
  BY DEF SuiteNext, OutsideNext, OthersNext, suiteVars
<1> QED BY <1>1, <1>2, PTL DEF SuiteSpec, Spec
=============================================================================
