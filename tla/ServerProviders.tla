-------------------------- MODULE ServerProviders --------------------------
(***************************************************************************)
(* The server's credentials for AI providers: the stored key of a provider,*)
(* the models its key was seen to reach, the models an admin selected and  *)
(* the ones declared free.  Handlers ask the sidecar between their reads   *)
(* and their writes; the generation of the key, assigned by each write of  *)
(* it, tells a capture that its key has moved on.                          *)
(*                                                                         *)
(* There is one provider, whose rows no other provider's handler touches,  *)
(* and which accepts keys.  The spelling of names, storage failures, the   *)
(* TTL of capture passes (a pass that need not run) and the capability     *)
(* limits of single models are left out.                                   *)
(***************************************************************************)
EXTENDS Naturals, FiniteSets

CONSTANTS
    Keys, NoKey,
    Deployed,       \* the key the deployment's environment holds
    Unknown,        \* the manifest that names it cannot be read
    Models,
    Catalog,        \* models of the static catalog
    Reach,          \* the listings the sidecar may give for a key
    Ops,            \* requests of admins, and capture passes
    MaxManifest     \* bound on changes of the environment

KeysAssumption == NoKey \notin Keys /\ Deployed \in Keys /\ Unknown \notin Keys
ModelsAssumption == Catalog \subseteq Models /\ Reach \in [Keys -> SUBSET SUBSET Models]

VARIABLES
    key, generation,    \* the row in server_ai_providers,
    captured,           \* and its key_capture_status
    sequence,           \* server_ai_credential_seq
    listing,            \* server_provider_key_models, and whose key it was read with
    selected,           \* server_provider_models
    free,               \* free_ai_models
    adrift,             \* history: declared free while nothing managed the provider,
                        \* and not selected since
    deployment,         \* what the deployment's credentials resolve to
    changes,
    op

row == <<key, generation, captured, sequence>>
choice == <<selected, free, adrift>>
vars == <<row, listing, choice, deployment, changes, op>>

NoListing == [has |-> FALSE, models |-> {}, of |-> NoKey]
Listing(models, k) == [has |-> TRUE, models |-> models, of |-> k]
Idle == [step |-> "idle"]
Done == [step |-> "done"]

Init ==
    /\ key = NoKey /\ generation = 0 /\ captured = "none" /\ sequence = 0
    /\ listing = NoListing /\ selected = {} /\ free = {} /\ adrift = {}
    /\ deployment \in {NoKey, Deployed} /\ changes = 0
    /\ op = [o \in Ops |-> Idle]

Stored == key # NoKey
At(o, step) == op[o].step = step
End(o) == op' = [op EXCEPT ![o] = Done]
Go(o, step) == op' = [op EXCEPT ![o].step = step]

(* models.json or the environment is replaced, or cannot be read.          *)
ManifestChanges ==
    /\ changes < MaxManifest /\ changes' = changes + 1
    /\ deployment' \in {NoKey, Deployed, Unknown} \ {deployment}
    /\ UNCHANGED <<row, listing, choice, op>>

----------------------------------------------------------------------------
(* A key is added, promoted from the deployment, or rotated.               *)

(* The endpoints look whether there is a key already.                      *)
StartStore(o, k, add) ==
    /\ At(o, "idle") /\ add = ~Stored
    /\ op' = [op EXCEPT ![o] = [step |-> "verifying", key |-> k, add |-> add]]
    /\ UNCHANGED <<row, listing, choice, deployment, changes>>

Promote(o) == deployment = Deployed /\ StartStore(o, Deployed, TRUE)

(* verify_ai_key, with a model of the caller's or one the key lists.       *)
Verify(o) ==
    /\ At(o, "verifying")
    /\ Go(o, "checking") \/ End(o)
    /\ UNCHANGED <<row, listing, choice, deployment, changes>>

(* Looked at again: nothing to overwrite, or something to rotate.          *)
Recheck(o) ==
    /\ At(o, "checking")
    /\ IF op[o].add = ~Stored THEN Go(o, "storing") ELSE End(o)
    /\ UNCHANGED <<row, listing, choice, deployment, changes>>

(* set_server_ai_credential: an upsert with the next generation.           *)
StoreKey(o) ==
    /\ At(o, "storing")
    /\ key' = op[o].key /\ sequence' = sequence + 1 /\ generation' = sequence + 1
    /\ captured' = IF Stored THEN captured ELSE "none"
    /\ op' = [op EXCEPT ![o] = [step |-> "discovering", key |-> op[o].key, add |-> op[o].add,
                               generation |-> sequence + 1, keep |-> FALSE]]
    /\ UNCHANGED <<listing, choice, deployment, changes>>

----------------------------------------------------------------------------
(* _capture_key_scoped_models.                                             *)

Outcomes(k) ==
    [status : {"unavailable", "unsupported"}, models : {{}}] \union
    [status : {"supported"}, models : Reach[k]]

Discover(o) ==
    /\ At(o, "discovering")
    /\ \E found \in Outcomes(op[o].key) :
         op' = [op EXCEPT ![o] = [step |-> "comparing", key |-> @.key, add |-> @.add,
                                 generation |-> @.generation, keep |-> @.keep, found |-> found]]
    /\ UNCHANGED <<row, listing, choice, deployment, changes>>

AfterCapture(o) ==
    op' = [op EXCEPT ![o] = IF @.add THEN [step |-> "looking"] ELSE Done]

(* _key_scoped_capture_superseded.                                         *)
Compare(o) ==
    /\ At(o, "comparing")
    /\ IF key = op[o].key /\ generation = op[o].generation THEN Go(o, "saving") ELSE AfterCapture(o)
    /\ UNCHANGED <<row, listing, choice, deployment, changes>>

(* Fault: what was compared before is still true.                          *)
StillAsCompared(o) == TRUE

(* _credential_generation_is, in the transaction that writes.              *)
GenerationIs(o) == Stored /\ generation = op[o].generation

(* set_server_provider_key_models, or only the status of a failed refresh. *)
SaveListing(o) ==
    LET found == op[o].found IN
    /\ At(o, "saving") /\ AfterCapture(o)
    /\ IF GenerationIs(o)
       THEN /\ captured' = found.status
            /\ listing' = IF found.status = "supported" THEN Listing(found.models, op[o].key)
                          ELSE IF found.status = "unavailable" /\ op[o].keep THEN listing
                          ELSE NoListing
       ELSE UNCHANGED <<captured, listing>>
    /\ UNCHANGED <<key, generation, sequence, choice, deployment, changes>>

----------------------------------------------------------------------------
(* _seed_server_provider_selection, after a key was added.                 *)

SeedLook(o) ==
    /\ At(o, "looking")
    /\ IF selected = {} THEN Go(o, "free") ELSE End(o)
    /\ UNCHANGED <<row, listing, choice, deployment, changes>>

SeedFree(o) ==
    /\ At(o, "free") /\ op' = [op EXCEPT ![o] = [step |-> "base", free |-> free]]
    /\ UNCHANGED <<row, listing, choice, deployment, changes>>

SeedBase(o) ==
    /\ At(o, "base")
    /\ op' = [op EXCEPT ![o] = [step |-> "selecting", free |-> @.free, seeds |-> TRUE,
                               models |-> IF listing.has THEN listing.models ELSE Catalog]]
    /\ UNCHANGED <<row, listing, choice, deployment, changes>>

(* An admin selects models and free ones among them, each known.           *)
Selectable == selected \union free \union Catalog \union listing.models

Select(o, models, frees) ==
    /\ At(o, "idle") /\ models \union frees \subseteq Selectable
    /\ op' = [op EXCEPT ![o] = [step |-> "selecting", models |-> models, free |-> frees, seeds |-> FALSE]]
    /\ UNCHANGED <<row, listing, choice, deployment, changes>>

(* Fault: a free model that was not selected stays out.                    *)
SelectedOnly(o) == op[o].models

(* What is free is included.                                               *)
Included(o) == op[o].models \union op[o].free

(* set_server_provider_models; a seed of nothing writes nothing.           *)
SetModels(o) ==
    /\ At(o, "selecting") /\ End(o)
    /\ IF op[o].seeds /\ Included(o) = {} THEN UNCHANGED choice
       ELSE selected' = Included(o) /\ free' = op[o].free /\ adrift' = {}
    /\ UNCHANGED <<row, listing, deployment, changes>>

----------------------------------------------------------------------------
(* The list of free models is saved on its own, if it is still the one its *)
(* editor saw, and then the free ones are included.                        *)

OpenFree(o) ==
    /\ At(o, "idle") /\ op' = [op EXCEPT ![o] = [step |-> "editing", seen |-> free]]
    /\ UNCHANGED <<row, listing, choice, deployment, changes>>

(* set_free_ai_models_endpoint: pairs of the list, the catalog, the key.    *)
CanBeFree == free \union Catalog \union listing.models

SetFree(o, models) ==
    /\ At(o, "editing") /\ models \subseteq CanBeFree
    /\ IF free = op[o].seen
       THEN free' = models /\ op' = [op EXCEPT ![o] = [step |-> "including", models |-> models]]
       ELSE End(o) /\ UNCHANGED free
    /\ UNCHANGED <<row, listing, selected, adrift, deployment, changes>>

Managed == Stored \/ selected # {}

(* auto_include_free_pairs.                                                *)
AutoInclude(o) ==
    /\ At(o, "including") /\ End(o)
    /\ IF Managed THEN selected' = selected \union op[o].models /\ adrift' = adrift \ op[o].models
       ELSE adrift' = adrift \union op[o].models /\ UNCHANGED selected
    /\ UNCHANGED <<row, listing, free, deployment, changes>>

----------------------------------------------------------------------------
(* The models of the stored key are refreshed: key, then generation.       *)

RefreshKey(o) ==
    /\ At(o, "idle") /\ Stored
    /\ op' = [op EXCEPT ![o] = [step |-> "refreshing", key |-> key]]
    /\ UNCHANGED <<row, listing, choice, deployment, changes>>

RefreshGeneration(o) ==
    /\ At(o, "refreshing")
    /\ op' = [op EXCEPT ![o] = IF Stored
                 THEN [step |-> "discovering", key |-> @.key, add |-> FALSE,
                       generation |-> generation, keep |-> TRUE]
                 ELSE Done]
    /\ UNCHANGED <<row, listing, choice, deployment, changes>>

(* Without one, the deployment's credential is used.                       *)
RefreshDeployment(o) ==
    /\ At(o, "idle") /\ ~Stored /\ deployment = Deployed
    /\ op' = [op EXCEPT ![o] = [step |-> "listing"]]
    /\ UNCHANGED <<row, listing, choice, deployment, changes>>

(* _capture_deployment_provider_listing.                                   *)
DiscoverDeployment(o) ==
    /\ At(o, "listing")
    /\ \/ End(o)
       \/ \E models \in Reach[Deployed] :
            op' = [op EXCEPT ![o] = [step |-> "offering", models |-> models]]
    /\ UNCHANGED <<row, listing, choice, deployment, changes>>

(* only_without_stored_credential, in the transaction that writes.         *)
MayOffer == ~Stored

SaveDeployment(o) ==
    /\ At(o, "offering") /\ End(o)
    /\ listing' = IF MayOffer THEN Listing(op[o].models, Deployed) ELSE listing
    /\ UNCHANGED <<row, choice, deployment, changes>>

(* capture_deployment_provider_listings: the scope of the pass, a sweep of *)
(* listings that no credential backs, then the capture.                    *)
StartPass(o) ==
    /\ At(o, "idle") /\ deployment # Unknown /\ ~Stored
    /\ Go(o, IF deployment = NoKey THEN "sweeping" ELSE "listing")
    /\ UNCHANGED <<row, listing, choice, deployment, changes>>

SweepRead(o) ==
    /\ At(o, "sweeping")
    /\ IF listing.has THEN Go(o, "clearing") ELSE End(o)
    /\ UNCHANGED <<row, listing, choice, deployment, changes>>

SweepClear(o) ==
    /\ At(o, "clearing") /\ End(o)
    /\ listing' = NoListing
    /\ UNCHANGED <<row, choice, deployment, changes>>

(* delete_server_ai_provider.                                              *)
(* Fault: the row goes with its key alone.                                 *)
DeleteKey(o) ==
    /\ At(o, "idle") /\ (Managed \/ free # {}) /\ End(o)
    /\ key' = NoKey /\ captured' = "none"
    /\ listing' = NoListing /\ selected' = {} /\ free' = {} /\ adrift' = {}
    /\ UNCHANGED <<generation, sequence, deployment, changes>>

Delete(o) ==
    /\ At(o, "idle") /\ (Managed \/ free # {}) /\ End(o)
    /\ key' = NoKey /\ generation' = 0 /\ captured' = "none"
    /\ listing' = NoListing /\ selected' = {} /\ free' = {} /\ adrift' = {}
    /\ UNCHANGED <<sequence, deployment, changes>>

Next ==
    \/ ManifestChanges
    \/ \E o \in Ops :
         \/ \E k \in Keys, add \in BOOLEAN : StartStore(o, k, add)
         \/ Promote(o) \/ Verify(o) \/ Recheck(o) \/ StoreKey(o)
         \/ Discover(o) \/ Compare(o) \/ SaveListing(o)
         \/ SeedLook(o) \/ SeedFree(o) \/ SeedBase(o)
         \/ \E models, frees \in SUBSET Models : Select(o, models, frees)
         \/ SetModels(o) \/ OpenFree(o) \/ AutoInclude(o)
         \/ \E models \in SUBSET Models : SetFree(o, models)
         \/ RefreshKey(o) \/ RefreshGeneration(o) \/ RefreshDeployment(o)
         \/ DiscoverDeployment(o) \/ SaveDeployment(o)
         \/ StartPass(o) \/ SweepRead(o) \/ SweepClear(o) \/ Delete(o)

Spec == Init /\ [][Next]_vars

----------------------------------------------------------------------------
(* What the server could offer, and what it offers: scoped_models.         *)
Offered == IF listing.has THEN listing.models ELSE Catalog
Pool == IF Managed THEN Offered \cap selected ELSE Offered

(* Every variable stays in its range. *)
TypeOK ==
    /\ key \in Keys \union {NoKey} /\ generation \in 0 .. sequence
    /\ Stored = (generation > 0)
    /\ captured \in {"none", "supported", "unsupported", "unavailable"}
    /\ listing \in [has : BOOLEAN, models : SUBSET Models, of : Keys \union {NoKey}]
    /\ selected \union free \union adrift \subseteq Models

(* A request that stored the current key and has not captured its models.  *)
Capturing(o) ==
    op[o].step \in {"discovering", "comparing", "saving"} /\ op[o].generation = generation

(* "One key never wears another key's listing": once the models of the     *)
(* stored key were captured, or could not be, what the server offers on it *)
(* was read with this key, not with one stored, refreshed or deployed      *)
(* before or meanwhile.                                                    *)
OneKeyOneListing ==
    Stored /\ listing.has /\ (\A o \in Ops : ~Capturing(o)) => listing.of = key

(* Whoever edits at the same time, the selection of a provider hides a     *)
(* model that is free for everyone only while its editor still has to      *)
(* include it, or if it was declared free while nothing managed the        *)
(* provider and no selection was written since: a rotation that a removal  *)
(* overtook stores its key without one.                                    *)
FreeIsOffered == (\A o \in Ops : ~At(o, "including")) => (free \ adrift) \cap Offered \subseteq Pool

(* Both: the pool is what the key reaches, and what is free is in it.      *)
ListingIsTheKeys == OneKeyOneListing /\ FreeIsOffered
=============================================================================
