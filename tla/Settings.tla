------------------------------ MODULE Settings ------------------------------
(***************************************************************************)
(* The server settings an admin changes: rows of the database that beat    *)
(* the environment, the cache every reader uses, the file and the switch   *)
(* the sidecar gets its share from, and the record that the Jira method    *)
(* was tested.  A save commits, clears the record, updates the cache and   *)
(* tells the sidecar, in this order and with others in between.            *)
(***************************************************************************)
EXTENDS Naturals, FiniteSets

CONSTANTS Requests,     \* the admin requests being served at a time
          Keys,
          JiraKeys,     \* those a test of Jira depends on
          Switch,       \* record_transcripts
          SidecarKeys,  \* those of the bridge file, the switch among them
          Env,          \* the value of each key without a row
          Accepts,      \* the values each key takes, "" for an empty override
          Updates,      \* the batches admins save
          Sanitized,    \* what an export leaves of a value, by value
          Documents,    \* the batches of imported exports
          MaxSaves, MaxFailures, MaxCrashes

Unset == "unset"        \* no row
Empty == ""             \* an override by nothing
Silent == [step |-> "idle"]

SettingsAssumption ==
    /\ JiraKeys \cup SidecarKeys \subseteq Keys /\ Switch \in SidecarKeys
    /\ \A k \in Keys : Env[k] \in Accepts[k]
    /\ \A batch \in Updates \cup Documents : DOMAIN batch \subseteq Keys
    /\ {MaxSaves, MaxFailures, MaxCrashes} \subseteq Nat

VARIABLES rows, cache,
          bridge,       \* the values the file assigns
          sidecar,      \* whether the sidecar records, by its switch
          verified,     \* the Jira settings the record was made for, or nothing
          request,
          overlapped,   \* keys two requests were applying at a time
          unsure,       \* "sidecar" it was not reached; "record" see below
          saves, failures, crashes

vars == <<rows, cache, bridge, sidecar, verified, request, overlapped, unsure,
          saves, failures, crashes>>

Set(c) == {k \in Keys : c[k] # Unset}
InForce(c, k) == IF c[k] = Unset THEN Env[k] ELSE c[k]

(* One override that does not validate and none of them is in force.       *)
GetSettings(c, k) == IF \A j \in Set(c) : c[j] \in Accepts[j] THEN InForce(c, k) ELSE Env[k]
Fingerprint(c) == [k \in JiraKeys |-> GetSettings(c, k)]
NotVerified == << >>
NoRows == [k \in Keys |-> Unset]

Init == /\ rows = NoRows /\ cache = rows /\ bridge = rows
        /\ sidecar = Env[Switch] /\ verified = NotVerified
        /\ request = [q \in Requests |-> Silent]
        /\ overlapped = {} /\ unsure = {}
        /\ saves = 0 /\ failures = 0 /\ crashes = 0

Fails == failures < MaxFailures /\ failures' = failures + 1
Go(q, step) == request' = [request EXCEPT ![q].step = step]
End(q) == request' = [request EXCEPT ![q] = Silent]
Begin(q, fields) == /\ request[q] = Silent /\ saves < MaxSaves
                    /\ saves' = saves + 1
                    /\ request' = [request EXCEPT ![q] = fields]

(* A request that has values to write, and those it found, if it imports.  *)
Batch(step, batch, kept) ==
    [step |-> step, keys |-> DOMAIN batch, batch |-> batch, kept |-> kept, enabled |-> Unset]
Over(batch, c) == [k \in Keys |-> IF k \in DOMAIN batch THEN batch[k] ELSE c[k]]

-----------------------------------------------------------------------------
(* What a request touches *)

Touched(r) ==
    IF r.step \in {"clear", "cache", "sync"}
    THEN r.keys \cup (IF r.keys \cap SidecarKeys # {} THEN {Switch} ELSE {})
    ELSE {}

(* A request commits while another has not applied what it committed, or   *)
(* a Jira setting changes while a test is recording its success.           *)
Overlaps(q, keys) ==
    LET mine == Touched([step |-> "cache", keys |-> keys])
    IN  mine \cap UNION {Touched(request[r]) : r \in Requests \ {q}}
Recording == \E r \in Requests : request[r].step = "record"
Applying(keys) == \E r \in Requests : Touched(request[r]) \cap keys # {}

-----------------------------------------------------------------------------
(* Saving *)

EmptyAllowed(k) == Empty \in Accepts[k]
Normal(k, v) == v \in Accepts[k]
Valid(k, v) == IF v = Empty THEN EmptyAllowed(k) ELSE Normal(k, v)

(* Every value is checked before the first is written.                     *)
Save(q, batch) ==
    /\ \A k \in DOMAIN batch : Valid(k, batch[k])
    /\ Begin(q, Batch("write", batch, NoRows))
    /\ UNCHANGED <<rows, cache, bridge, sidecar, verified, overlapped, unsure,
                   failures, crashes>>

(* The value of the environment is made a row.                             *)
Persist(q, k) ==
    /\ Env[k] # Empty /\ Valid(k, Env[k])
    /\ Begin(q, Batch("write", [j \in {k} |-> Env[j]], NoRows))
    /\ UNCHANGED <<rows, cache, bridge, sidecar, verified, overlapped, unsure,
                   failures, crashes>>

(* Only what differs is imported; a row that the document holds without    *)
(* its credentials is kept.                                                *)
Differs(k, v) == rows[k] # v /\ (rows[k] = Unset \/ Sanitized[rows[k]] # v)

Import(q, document) ==
    /\ \A k \in DOMAIN document : Valid(k, document[k])
    /\ LET applied == {k \in DOMAIN document : Differs(k, document[k])} IN
       /\ applied # {}
       /\ Begin(q, Batch("write", [k \in applied |-> document[k]], rows))
    /\ UNCHANGED <<rows, cache, bridge, sidecar, verified, overlapped, unsure,
                   failures, crashes>>

Unverifies(keys) == keys \cap JiraKeys # {}

(* All rows of a batch in one transaction, or none.                        *)
WriteBatch(q) ==
    LET r == request[q] IN
    /\ r.step = "write"
    /\ \/ /\ rows' = Over(r.batch, rows)
          /\ Go(q, IF Unverifies(r.keys) THEN "clear" ELSE "cache")
          /\ overlapped' = overlapped \cup Overlaps(q, r.keys)
          /\ unsure' = IF Unverifies(r.keys) /\ Recording
                       THEN unsure \cup {"record"} ELSE unsure
          /\ UNCHANGED failures
       \/ Fails /\ End(q) /\ UNCHANGED <<rows, overlapped, unsure>>
    /\ UNCHANGED <<cache, bridge, sidecar, verified, saves, crashes>>

ClearRecord(q) ==
    /\ request[q].step = "clear"
    /\ Go(q, "cache")
    /\ \/ verified' = NotVerified /\ UNCHANGED <<unsure, failures>>
       \/ Fails /\ unsure' = unsure \cup {"record"} /\ UNCHANGED verified
    /\ UNCHANGED <<rows, cache, bridge, sidecar, overlapped, saves, crashes>>

(* The bridge file is written whole, from the cache, and what the sidecar  *)
(* is to be told is read with it.                                          *)
Bridged(c) == [k \in Keys |-> IF k \in SidecarKeys THEN c[k] ELSE Unset]

Applied(q, c) ==
    IF request[q].keys \cap SidecarKeys # {}
    THEN /\ bridge' = Bridged(c)
         /\ request' = [request EXCEPT ![q].step = "sync", ![q].enabled = GetSettings(c, Switch)]
    ELSE End(q) /\ UNCHANGED bridge

Cached(q) == Over(request[q].batch, cache)
UpdateCache(q) ==
    /\ request[q].step = "cache"
    /\ cache' = Cached(q)
    /\ Applied(q, cache')
    /\ UNCHANGED <<rows, sidecar, verified, overlapped, unsure, saves, failures, crashes>>

SyncSidecar(q) ==
    /\ request[q].step = "sync"
    /\ End(q)
    /\ \/ sidecar' = request[q].enabled /\ unsure' = unsure \ {"sidecar"}
          /\ UNCHANGED failures
       \/ Fails /\ unsure' = unsure \cup {"sidecar"} /\ UNCHANGED sidecar
    /\ UNCHANGED <<rows, cache, bridge, verified, overlapped, saves, crashes>>

(* The row goes, and the value of the environment is back; what was tested *)
(* is still recorded.                                                      *)
Reset(q, k) ==
    /\ rows[k] # Unset
    /\ Begin(q, Batch("cache", [j \in {k} |-> Unset], NoRows))
    /\ rows' = [rows EXCEPT ![k] = Unset]
    /\ overlapped' = overlapped \cup Overlaps(q, {k})
    /\ unsure' = IF k \in JiraKeys THEN unsure \cup {"record"} ELSE unsure
    /\ UNCHANGED <<cache, bridge, sidecar, verified, failures, crashes>>

-----------------------------------------------------------------------------
(* Testing the Jira method *)

Test(q) ==
    /\ request[q] = Silent /\ saves < MaxSaves /\ saves' = saves + 1
    /\ request' = [request EXCEPT ![q] = [step |-> "call", tested |-> Fingerprint(cache)]]
    /\ UNCHANGED <<rows, cache, bridge, sidecar, verified, overlapped, unsure,
                   failures, crashes>>

AnySettings(q) == TRUE
SameSettings(q) == Fingerprint(cache) = request[q].tested

(* A test that fails, or tested what is no longer in force, records        *)
(* nothing.                                                                *)
TestAnswers(q) ==
    /\ request[q].step = "call"
    /\ \/ SameSettings(q) /\ Go(q, "record")
       \/ End(q)
    /\ unsure' = IF request'[q].step = "record" /\ Applying(JiraKeys)
                 THEN unsure \cup {"record"} ELSE unsure
    /\ UNCHANGED <<rows, cache, bridge, sidecar, verified, overlapped,
                   saves, failures, crashes>>

Record(q) ==
    /\ request[q].step = "record"
    /\ verified' = request[q].tested
    /\ End(q)
    /\ UNCHANGED <<rows, cache, bridge, sidecar, overlapped, unsure, saves,
                   failures, crashes>>

-----------------------------------------------------------------------------
(* The server stops anywhere.  The next one loads the rows and applies     *)
(* them before it serves.                                                  *)
Loaded == rows
Restart ==
    /\ crashes < MaxCrashes /\ crashes' = crashes + 1
    /\ request' = [q \in Requests |-> Silent]
    /\ cache' = Loaded /\ bridge' = Bridged(cache')
    /\ overlapped' = {}
    /\ LET record == IF Recording \/ (Applying(JiraKeys) \/ overlapped \cap JiraKeys # {})
                     THEN {"record"} ELSE {} IN
       \/ /\ sidecar' = GetSettings(cache', Switch) /\ UNCHANGED failures
          /\ unsure' = (unsure \ {"sidecar"}) \cup record
       \/ Fails /\ unsure' = unsure \cup record \cup {"sidecar"} /\ UNCHANGED sidecar
    /\ UNCHANGED <<rows, verified, saves>>

Serve(q) == \/ \E batch \in Updates : Save(q, batch)
            \/ \E document \in Documents : Import(q, document)
            \/ \E k \in Keys : Persist(q, k) \/ Reset(q, k)
            \/ WriteBatch(q) \/ ClearRecord(q) \/ UpdateCache(q) \/ SyncSidecar(q)
            \/ Test(q) \/ TestAnswers(q) \/ Record(q)

Next == (\E q \in Requests : Serve(q)) \/ Restart
Spec == Init /\ [][Next]_vars

-----------------------------------------------------------------------------
(* Every variable has its type.                                            *)
TypeOK ==
    /\ \A k \in Keys : {rows[k], cache[k]} \subseteq Accepts[k] \cup {Unset}
    /\ \A k \in Keys : bridge[k] \in (IF k \in SidecarKeys THEN Accepts[k] \cup {Unset} ELSE {Unset})
    /\ sidecar \in Accepts[Switch]
    /\ \A q \in Requests : request[q].step \in
         {"idle", "write", "clear", "cache", "sync", "call", "record"}
    /\ overlapped \subseteq Keys /\ unsure \subseteq {"sidecar", "record"}
    /\ saves \in 0..MaxSaves /\ failures \in 0..MaxFailures /\ crashes \in 0..MaxCrashes

Settled == \A q \in Requests : request[q] = Silent

(* When no request is being served, every row is in force, the bridge file *)
(* assigns what the rows say, the sidecar records as they say unless it    *)
(* could not be told, and a recorded test is one of the settings in force. *)
(* Two requests that applied one key at a time are excused, a record that  *)
(* could not be cleared, and a reset.  An import never replaces a value by *)
(* what an export leaves of it.                                            *)
SettledIsInForce ==
    /\ Settled => \A k \in Keys \ overlapped :
         /\ GetSettings(cache, k) = InForce(rows, k)
         /\ k \in SidecarKeys => bridge[k] = rows[k]
    /\ Settled /\ "sidecar" \notin unsure /\ overlapped \cap SidecarKeys = {} =>
         sidecar = InForce(rows, Switch)
    /\ Settled /\ "record" \notin unsure /\ overlapped \cap JiraKeys = {} =>
         verified \in {NotVerified, Fingerprint(cache)}
    /\ \A q \in Requests : "kept" \in DOMAIN request[q] =>
         \A k \in request[q].keys : request[q].kept[k] # Unset =>
            Sanitized[request[q].kept[k]] # request[q].batch[k]
=============================================================================
