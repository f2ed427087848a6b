----------------------------- MODULE AiSessions -----------------------------
(***************************************************************************)
(* The provenance of AI chat sessions: table `ai_session_sources`, which   *)
(* says whose credential each session of the AI sidecar was created with,  *)
(* for one username and one provider.                                      *)
(*                                                                         *)
(* A session keeps the key it was created with inside the sidecar.  When   *)
(* the key is rotated, the account deleted or the chat cleared, the row is *)
(* first tombstoned (`revoked`), then a worker claims it (`deleting`),     *)
(* deletes the session in the sidecar and leaves a `deleted` row behind so *)
(* that an id is never used twice.  Requests to the sidecar may time out   *)
(* and still take effect later, claims expire, and the server may crash.   *)
(* The sidecar is external and may hand out an id again once the session   *)
(* of that id is gone.  Other users' sessions meet ours only in the ids.   *)
(***************************************************************************)
EXTENDS Naturals

CONSTANTS
    Sessions,       \* session ids of the sidecar
    Creators,       \* requests that create a session and may overlap
    Workers,        \* calls of delete_revoked_ai_session that may overlap
    Calls,          \* AI calls on an existing session that may overlap
    None,           \* no session, no key
    NoClaim,        \* claim_token IS NULL
    Crashed,        \* the token of a worker that died with an earlier process
    MaxAccounts,    \* bound on accounts registered under the username
    MaxGeneration,  \* bound on the key changes of one account
    MaxCrashes      \* bound on server crashes

ASSUME BoundsAssumption ==
    MaxAccounts \in Nat \ {0} /\ MaxGeneration \in Nat /\ MaxCrashes \in Nat
ASSUME ClaimAssumption == NoClaim \notin Workers /\ Crashed \notin Workers \union {NoClaim}

(* What a sidecar session was created with: the account that asked and the *)
(* generation of its key, 0 for the server's credentials.                  *)
Keys == (1..MaxAccounts) \X (0..MaxGeneration)
ASSUME NoneAssumption == None \notin Keys \union Sessions

VARIABLES
    account,     \* users.id of the username, 0 when there is no such user
    registered,  \* accounts registered under the username so far
    generation,  \* users.ai_credential_generations for the provider
    hasKey,      \* the user has stored a key for the provider
    source,      \* ai_session_sources.credential_source, "none": no row
    recorded,    \* ai_session_sources.credential_generation
    claim,       \* ai_session_sources.claim_token
    expired,     \* the rows with claim_expires_at in the past
    legacy,      \* sessions older than the table that the user's chats name
    held,        \* the sidecar: what each live session was created with
    stray,       \* delete requests nobody waits for that may still arrive
    create,      \* the creators: program counter and local variables
    published,   \* ids that a chat has stored and later calls may name
    work,        \* the workers: program counter, session, renewal task alive
    call,        \* the calls: program counter and local variables
    crashes,
    straddled,   \* history: sessions whose key was selected under another account
    tracked      \* history: live sessions that their row describes

userVars == <<account, registered, generation, hasKey>>
rowVars == <<source, recorded, claim, expired, legacy>>
sidecarVars == <<held, stray, tracked>>
createVars == <<create, published, straddled>>
vars == <<userVars, rowVars, sidecarVars, createVars, work, call, crashes>>

Live == {"user", "server"}
Tombstone == {"revoked", "deleting", "deleted"}

Idle == [pc |-> "idle", kind |-> "server", key |-> <<1, 0>>, identity |-> 0, id |-> None]
IdleWorker == [pc |-> "idle", target |-> None, renewing |-> FALSE]
IdleCall == [pc |-> "idle", id |-> None, kind |-> "server", key |-> None]

----------------------------------------------------------------------------
(* The user.                                                               *)

Register ==
    /\ account = 0 /\ registered < MaxAccounts
    /\ account' = registered + 1 /\ registered' = registered + 1
    /\ generation' = 0 /\ hasKey' = FALSE
    /\ UNCHANGED <<rowVars, sidecarVars, createVars, work, call, crashes>>

(* storage.delete_user: every session of the name becomes a tombstone.     *)
DeleteUser ==
    /\ account # 0
    /\ account' = 0 /\ generation' = 0 /\ hasKey' = FALSE
    /\ source' = [s \in Sessions |->
                    IF source[s] \in Live \union {"revoked"} \/ (source[s] = "none" /\ s \in legacy)
                    THEN "deleting" ELSE source[s]]
    /\ legacy' = {}
    /\ UNCHANGED <<registered, recorded, claim, expired, sidecarVars, createVars, work, call, crashes>>

(* storage.update_user_ai_credential.                                      *)
Rotate ==
    /\ account # 0 /\ generation < MaxGeneration
    /\ hasKey' = TRUE \/ (hasKey /\ hasKey' = FALSE)
    /\ generation' = generation + 1
    /\ source' = [s \in Sessions |->
                    IF source[s] = "user" \/ (source[s] = "none" /\ s \in legacy)
                    THEN "revoked" ELSE source[s]]
    /\ legacy' = {}
    /\ UNCHANGED <<account, registered, recorded, claim, expired, sidecarVars, createVars,
                   work, call, crashes>>

(* Revocation of one row: revoke_ai_session_source, and the same guard in  *)
(* _revoke_chat_session_sources.                                           *)
Revoke(s) ==
    source' = IF source[s] \in Live \union {"revoked", "deleting"} /\ claim[s] = NoClaim
              THEN [source EXCEPT ![s] = "revoked"] ELSE source

(* Clearing a chat or deleting its job: delete_chat_messages.              *)
DeleteChat(s) ==
    /\ s \in published \union legacy
    /\ Revoke(s)
    /\ legacy' = legacy \ {s}
    /\ UNCHANGED <<userVars, recorded, claim, expired, sidecarVars, createVars, work, call, crashes>>

----------------------------------------------------------------------------
(* Creating a session: session_key, then create_ai_session_with_source.    *)

Begin(c, kind, key) == create' = [create EXCEPT ![c] = [Idle EXCEPT !.pc = "selected", !.kind = kind, !.key = key]]
End(c) == create' = [create EXCEPT ![c] = Idle]
Goto(c, pc) == create' = [create EXCEPT ![c].pc = pc]

(* Fault: a key is picked for a user that no longer exists.                *)
SelectUnregistered(c) ==
    /\ create[c].pc = "idle"
    /\ Begin(c, "server", <<account, 0>>)
    /\ UNCHANGED <<userVars, rowVars, sidecarVars, published, straddled, work, call, crashes>>

(* A request is authenticated as the account there is, and picks its key.  *)
Select(c) ==
    /\ create[c].pc = "idle" /\ account # 0
    /\ Begin(c, "server", <<account, 0>>) \/ (hasKey /\ Begin(c, "user", <<account, generation>>))
    /\ UNCHANGED <<userVars, rowVars, sidecarVars, published, straddled, work, call, crashes>>

Identify(c) ==
    /\ create[c].pc = "selected"
    /\ create' = [create EXCEPT ![c].identity = account, ![c].pc = "identified"]
    /\ UNCHANGED <<userVars, rowVars, sidecarVars, published, straddled, work, call, crashes>>

SidecarCreates(c) ==
    /\ create[c].pc = "identified"
    /\ \E s \in Sessions :
        /\ held[s] = None
        /\ held' = [held EXCEPT ![s] = create[c].key]
        /\ create' = [create EXCEPT ![c].id = s, ![c].pc = "created"]
    /\ UNCHANGED <<userVars, rowVars, stray, tracked, published, straddled, work, call, crashes>>

(* Fault: the generation of the key is not compared.                       *)
ChangedAccount(c) ==
    /\ create[c].kind = "user" \/ create[c].identity # 0
    /\ account = 0 \/ (create[c].identity # 0 /\ account # create[c].identity)

(* Another account, no account, or another generation than expected.       *)
Changed(c) ==
    /\ create[c].kind = "user" \/ create[c].identity # 0
    /\ \/ account = 0
       \/ create[c].identity # 0 /\ account # create[c].identity
       \/ create[c].kind = "user" /\ generation # create[c].key[2]

Record(c) ==
    LET s == create[c].id IN
    /\ source' = [source EXCEPT ![s] = create[c].kind]
    /\ recorded' = [recorded EXCEPT ![s] = generation]
    /\ tracked' = tracked \union {s}
    /\ straddled' = IF create[c].identity = create[c].key[1] THEN straddled ELSE straddled \union {s}
    /\ Goto(c, "persisted")

(* Fault: a row that exists is written over.                               *)
PersistOver(c) ==
    /\ create[c].pc = "created"
    /\ \/ Changed(c) /\ Goto(c, "cleanup") /\ UNCHANGED <<source, recorded, tracked, straddled>>
       \/ ~Changed(c) /\ Record(c)
    /\ UNCHANGED <<userVars, claim, expired, legacy, held, stray, published, work, call, crashes>>

(* The transaction of create_ai_session_with_source.  An id that has a row *)
(* is refused and left alone; the session of a changed user is deleted.    *)
Persist(c) ==
    /\ create[c].pc = "created"
    /\ \/ source[create[c].id] = "none" /\ ~Changed(c) /\ Record(c)
       \/ /\ \/ source[create[c].id] # "none" /\ End(c)
             \/ source[create[c].id] = "none" /\ Changed(c) /\ Goto(c, "cleanup")
          /\ UNCHANGED <<source, recorded, tracked, straddled>>
    /\ UNCHANGED <<userVars, claim, expired, legacy, held, stray, published, work, call, crashes>>

(* A delete request has reached the sidecar.                               *)
SidecarDeletes(s) == held' = [held EXCEPT ![s] = None] /\ tracked' = tracked \ {s}

(* A request the caller gave up on may be lost or arrive later.            *)
GivenUp(s) == stray' = stray \/ stray' = stray \union {s}

(* The creator deletes what it could not record ("cleanup") or what it no  *)
(* longer needs (delete_ai_session, "drop").                               *)
CreatorDeletes(c) ==
    /\ create[c].pc \in {"cleanup", "drop"}
    /\ SidecarDeletes(create[c].id)
    /\ IF create[c].pc = "drop" THEN Goto(c, "discard") ELSE End(c)
    /\ UNCHANGED <<userVars, rowVars, stray, published, straddled, work, call, crashes>>

(* The creation fails before there is a session, or its deletion does.     *)
CreatorFails(c) ==
    /\ \/ create[c].pc \in {"selected", "identified"} /\ UNCHANGED stray
       \/ create[c].pc \in {"cleanup", "drop"} /\ GivenUp(create[c].id)
    /\ End(c)
    /\ UNCHANGED <<userVars, rowVars, held, tracked, published, straddled, work, call, crashes>>

(* The session is stored in a chat unless the key has changed, used once   *)
(* and dropped, discarded because its message could not be saved, or       *)
(* abandoned by a request that ends on the way.                            *)
Persisted(c) ==
    /\ create[c].pc = "persisted"
    /\ \/ /\ create[c].kind = "user" => account # 0 /\ generation = create[c].key[2]
          /\ published' = published \union {create[c].id}
          /\ End(c)
       \/ (Goto(c, "drop") \/ Goto(c, "discard") \/ End(c)) /\ UNCHANGED published
    /\ UNCHANGED <<userVars, rowVars, sidecarVars, straddled, work, call, crashes>>

Discard(c) ==
    /\ create[c].pc = "discard"
    /\ Revoke(create[c].id)
    /\ End(c)
    /\ UNCHANGED <<userVars, recorded, claim, expired, legacy, sidecarVars, published, straddled,
                   work, call, crashes>>

----------------------------------------------------------------------------
(* Deleting a revoked session: _delete_revoked_ai_session_claimed.         *)

ClaimIf(w, s, free) ==
    /\ work[w].pc = "idle"
    /\ source[s] \in {"revoked", "deleting"} /\ free
    /\ source' = [source EXCEPT ![s] = "deleting"]
    /\ claim' = [claim EXCEPT ![s] = w]
    /\ expired' = expired \ {s}
    /\ work' = [work EXCEPT ![w] = [pc |-> "sent", target |-> s, renewing |-> TRUE]]
    /\ UNCHANGED <<userVars, recorded, legacy, sidecarVars, createVars, call, crashes>>

(* Fault: a claim that expired is still respected.                         *)
ClaimFree(w, s) == ClaimIf(w, s, claim[s] = NoClaim)

Claim(w, s) == ClaimIf(w, s, claim[s] = NoClaim \/ s \in expired)

WorkerDeletes(w) ==
    /\ work[w].pc = "sent"
    /\ SidecarDeletes(work[w].target)
    /\ work' = [work EXCEPT ![w].pc = "gone"]
    /\ UNCHANGED <<userVars, rowVars, stray, createVars, call, crashes>>

Owns(w) == claim[work[w].target] = w
Release(w) ==
    IF Owns(w)
    THEN /\ claim' = [claim EXCEPT ![work[w].target] = NoClaim]
         /\ expired' = expired \ {work[w].target}
    ELSE UNCHANGED <<claim, expired>>
Over(w) == work' = [work EXCEPT ![w] = IdleWorker]

FinishAs(w, labels, state) ==
    /\ work[w].pc \in labels
    /\ IF Owns(w) /\ source[work[w].target] = "deleting"
       THEN /\ source' = [source EXCEPT ![work[w].target] = state]
            /\ recorded' = [recorded EXCEPT ![work[w].target] = 0]
            /\ Release(w)
       ELSE UNCHANGED <<source, recorded, claim, expired>>
    /\ Over(w)
    /\ UNCHANGED <<userVars, legacy, sidecarVars, createVars, call, crashes>>

(* Faults: the row is removed altogether; the sidecar is not waited for.   *)
FinishForgets(w) == FinishAs(w, {"gone"}, "none")
Finish(w) == FinishAs(w, {"gone"}, "deleted")

(* An error or a cancellation: the claim is released, unless that fails.   *)
WorkerFails(w) ==
    /\ \/ work[w].pc = "sent" /\ GivenUp(work[w].target)
       \/ work[w].pc = "gone" /\ UNCHANGED stray
    /\ Release(w) \/ UNCHANGED <<claim, expired>>
    /\ Over(w)
    /\ UNCHANGED <<userVars, source, recorded, legacy, held, tracked, createVars, call, crashes>>

(* The renewal task ends with the first error of the database.             *)
RenewalDies(w) ==
    /\ work[w].renewing
    /\ work' = [work EXCEPT ![w].renewing = FALSE]
    /\ UNCHANGED <<userVars, rowVars, sidecarVars, createVars, call, crashes>>

(* Sixty seconds without a renewal.                                        *)
Expire(s) ==
    /\ claim[s] # NoClaim /\ s \notin expired
    /\ \A w \in Workers : ~(work[w].renewing /\ work[w].target = s /\ Owns(w))
    /\ expired' = expired \union {s}
    /\ UNCHANGED <<userVars, source, recorded, claim, legacy, sidecarVars, createVars, work,
                   call, crashes>>

StrayDelete(s) ==
    /\ s \in stray
    /\ SidecarDeletes(s)
    /\ stray' = stray \ {s}
    /\ UNCHANGED <<userVars, rowVars, createVars, work, call, crashes>>

----------------------------------------------------------------------------
(* Using a session: call_ai with a session_id.                             *)

(* get_ai_session_source does not raise and does not return "unknown".     *)
Accepts(s) == source[s] = "server" \/ (source[s] = "user" /\ recorded[s] = generation)

Return(u) == call' = [call EXCEPT ![u] = IdleCall]

CallCheck(u) ==
    /\ call[u].pc = "idle"
    /\ \E s \in published :
        /\ Accepts(s)
        /\ source[s] = "user" => hasKey
        /\ call' = [call EXCEPT ![u] = [IdleCall EXCEPT !.pc = "checked", !.id = s, !.kind = source[s]]]
    /\ UNCHANGED <<userVars, rowVars, sidecarVars, createVars, work, crashes>>

(* The sidecar answers from the session it holds, or has none.             *)
CallPrompt(u) ==
    /\ call[u].pc = "checked"
    /\ IF held[call[u].id] = None
       THEN Return(u)
       ELSE call' = [call EXCEPT ![u].pc = "prompted", ![u].key = held[call[u].id]]
    /\ UNCHANGED <<userVars, rowVars, sidecarVars, createVars, work, crashes>>

ReturnIf(u, delivered) ==
    /\ call[u].pc = "prompted"
    /\ IF delivered THEN call' = [call EXCEPT ![u].pc = "delivered"] ELSE Return(u)
    /\ UNCHANGED <<userVars, rowVars, sidecarVars, createVars, work, crashes>>

(* Fault: the reply is delivered without a second look at the row.         *)
CallReturnUnchecked(u) == ReturnIf(u, TRUE)

CallReturn(u) == ReturnIf(u, call[u].kind = "server" \/ Accepts(call[u].id))

CallEnds(u) ==
    /\ call[u].pc = "delivered"
    /\ Return(u)
    /\ UNCHANGED <<userVars, rowVars, sidecarVars, createVars, work, crashes>>

----------------------------------------------------------------------------
(* The server dies; the database and the sidecar live on, and requests on  *)
(* their way to the sidecar may still arrive.                              *)
Sent == {work[w].target : w \in {v \in Workers : work[v].pc = "sent"}}
        \union {create[c].id : c \in {d \in Creators : create[d].pc \in {"cleanup", "drop"}}}

Crash ==
    /\ crashes < MaxCrashes /\ crashes' = crashes + 1
    /\ \E late \in SUBSET Sent : stray' = stray \union late
    /\ create' = [c \in Creators |-> Idle]
    /\ work' = [w \in Workers |-> IdleWorker]
    /\ claim' = [s \in Sessions |-> IF claim[s] = NoClaim THEN NoClaim ELSE Crashed]
    /\ call' = [u \in Calls |-> IdleCall]
    /\ UNCHANGED <<userVars, source, recorded, expired, legacy, held, tracked, published, straddled>>

Init ==
    /\ account = 1 /\ registered = 1 /\ generation = 0 /\ hasKey = FALSE
    /\ source = [s \in Sessions |-> "none"] /\ recorded = [s \in Sessions |-> 0]
    /\ claim = [s \in Sessions |-> NoClaim] /\ expired = {}
    /\ legacy \in SUBSET Sessions
    /\ held = [s \in Sessions |-> IF s \in legacy THEN <<1, 0>> ELSE None]
    /\ stray = {} /\ tracked = legacy
    /\ create = [c \in Creators |-> Idle] /\ published = {} /\ straddled = {}
    /\ work = [w \in Workers |-> IdleWorker]
    /\ call = [u \in Calls |-> IdleCall]
    /\ crashes = 0

CreateStep(c) ==
    Select(c) \/ Identify(c) \/ SidecarCreates(c) \/ Persist(c) \/ CreatorDeletes(c)
    \/ CreatorFails(c) \/ Persisted(c) \/ Discard(c)
CallStep(u) == CallCheck(u) \/ CallPrompt(u) \/ CallReturn(u) \/ CallEnds(u)

Next ==
    \/ Register \/ DeleteUser \/ Rotate
    \/ \E c \in Creators : CreateStep(c)
    \/ \E w \in Workers : WorkerDeletes(w) \/ Finish(w) \/ WorkerFails(w) \/ RenewalDies(w)
    \/ \E s \in Sessions : DeleteChat(s) \/ Expire(s) \/ StrayDelete(s) \/ \E w \in Workers : Claim(w, s)
    \/ \E u \in Calls : CallStep(u)
    \/ Crash

Spec == Init /\ [][Next]_vars

(* The hourly cleanup comes round again and again; of all its attempts to  *)
(* delete a session, one is answered by the sidecar while its claim is     *)
(* good, and one of those that were answered gets its commit through.      *)
Fairness ==
    /\ \A w \in Workers : WF_vars(WorkerDeletes(w) \/ Finish(w) \/ WorkerFails(w))
    /\ \A s \in Sessions :
        /\ WF_vars(Expire(s))
        /\ SF_vars(\E w \in Workers : Claim(w, s))
        /\ SF_vars(\E w \in Workers : work[w].target = s /\ Owns(w) /\ WorkerDeletes(w))
        /\ SF_vars(\E w \in Workers : work[w].target = s /\ Owns(w) /\ Finish(w))

FairSpec == Spec /\ Fairness

----------------------------------------------------------------------------
(* Every variable stays in its range.                                      *)
CreatorState == [pc : {"idle", "selected", "identified", "created", "cleanup", "persisted",
                       "drop", "discard"},
                 kind : Live, key : Keys, identity : 0..MaxAccounts, id : Sessions \union {None}]
WorkerState == [pc : {"idle", "sent", "gone"}, target : Sessions \union {None}, renewing : BOOLEAN]
CallState == [pc : {"idle", "checked", "prompted", "delivered"}, id : Sessions \union {None},
              kind : Live, key : Keys \union {None}]

TypeOK ==
    /\ account \in 0..registered /\ registered \in 1..MaxAccounts
    /\ generation \in 0..MaxGeneration /\ hasKey \in BOOLEAN
    /\ source \in [Sessions -> Live \union Tombstone \union {"none"}]
    /\ recorded \in [Sessions -> 0..MaxGeneration]
    /\ claim \in [Sessions -> Workers \union {NoClaim, Crashed}]
    /\ expired \subseteq Sessions /\ legacy \subseteq Sessions
    /\ held \in [Sessions -> Keys \union {None}]
    /\ stray \subseteq Sessions /\ tracked \subseteq Sessions
    /\ create \in [Creators -> CreatorState]
    /\ published \subseteq Sessions /\ straddled \subseteq Sessions
    /\ work \in [Workers -> WorkerState]
    /\ call \in [Calls -> CallState]
    /\ crashes \in 0..MaxCrashes

Own(s) == <<account, IF source[s] = "user" THEN generation ELSE 0>>

(* A session that a call would be allowed to use holds the current key of  *)
(* the current account: rotation, removal, deletion of the account and     *)
(* re-registration leave no older key within reach.                        *)
KeyIsCurrent ==
    \A s \in tracked \ straddled : Accepts(s) => held[s] = Own(s)

(* A session id is never used again: a tombstone stays one.                *)
TombstoneStays ==
    [][\A s \in Sessions : source[s] \in Tombstone => source'[s] \in Tombstone]_source

(* A delete request that is still on its way, from a worker that lost its  *)
(* claim, timed out or died, never hits a session in use.                  *)
DelayedDeleteIsHarmless ==
    \A s \in stray \union Sent : ~(s \in published /\ source[s] \in Live)

(* A row is marked deleted only when the session it describes is gone from *)
(* the sidecar.                                                            *)
DeletedIsGone == \A s \in Sessions : source[s] = "deleted" => s \notin tracked

(* A deletion takes away what it says, and nothing else at any later time. *)
DeletesAreExact == DeletedIsGone /\ DelayedDeleteIsHarmless

(* A reply obtained with a user's key is delivered only if the key is still*)
(* the user's current one.                                                 *)
ReplyIsCurrent ==
    [][\A u \in Calls : call[u].pc = "prompted" /\ call'[u].pc = "delivered"
                        /\ call[u].kind = "user" /\ call[u].id \notin straddled
        => call[u].key = <<account, generation>>]_vars

(* Every revoked session is deleted in the end.                            *)
RevokedIsDeleted ==
    \A s \in Sessions : source[s] \in {"revoked", "deleting"} ~> source[s] = "deleted"

----------------------------------------------------------------------------
=============================================================================
