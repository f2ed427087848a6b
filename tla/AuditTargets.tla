---------------------------- MODULE AuditTargets ----------------------------
(***************************************************************************)
(* The listing of the audit trail says of each event whether its target is *)
(* still there and, if it is gone, which row recorded its removal.  All of *)
(* it is read when the list is asked for, in queries of their own, while   *)
(* targets come and go and their rows are written after the fact.          *)
(*                                                                         *)
(* A target is a key: its family, whose it is ("" for the server's own),   *)
(* and its name.  Labels of jobs, filters and pages are left out.          *)
(***************************************************************************)
EXTENDS Naturals, Sequences, FiniteSets

CONSTANTS
    Keys,       \* records of a family, an owner and a subject
    NoOwner,
    MaxRows     \* bound on the rows of the trail

KeysAssumption == \A k \in Keys : DOMAIN k = {"family", "owner", "subject"}

VARIABLES
    present,    \* targets there are
    rows,       \* audit_events: what each says of whom, and what it was about
    acting,     \* what was done and has no row yet
    page,       \* keys of the listed events
    seen,       \* those found present
    listing,    \* "idle", "page", "jobs", "present", "listed"
    answer      \* the row that explains each key that is gone, 0 for none

vars == <<present, rows, acting, page, seen, listing, answer>>

Nothing == [does |-> "nothing", on |-> {}]

Init ==
    /\ present \in SUBSET Keys
    /\ rows = <<>> /\ acting = Nothing
    /\ page = {} /\ seen = {} /\ listing = "idle" /\ answer = <<>>

Quiet == acting = Nothing /\ Len(rows) < MaxRows
ListUnchanged == UNCHANGED <<page, seen, listing, answer>>

(* Something is done to a target, or it comes (back).                      *)
Touch(k) ==
    /\ Quiet
    /\ present' = present \union {k}
    /\ acting' = [does |-> "touch", on |-> {k}]
    /\ UNCHANGED rows /\ ListUnchanged

(* Jobs are removed one by one or several at once.                         *)
Remove(on) ==
    /\ Quiet /\ on # {} /\ on \subseteq present
    /\ Cardinality(on) = 1 \/ \A k \in on : k.family = "job"
    /\ present' = present \ on
    /\ acting' = [does |-> "remove", on |-> on]
    /\ UNCHANGED rows /\ ListUnchanged

(* The row names what it was about by its type, its actor or job, and the  *)
(* subjects.                                                               *)
WriteRow ==
    /\ acting # Nothing /\ acting' = Nothing
    /\ rows' = Append(rows, [does |-> acting.does, on |-> acting.on,
                             family |-> (CHOOSE k \in acting.on : TRUE).family,
                             owner |-> (CHOOSE k \in acting.on : TRUE).owner,
                             subjects |-> {k.subject : k \in acting.on}])
    /\ UNCHANGED present /\ ListUnchanged

RowFails ==
    /\ acting # Nothing /\ acting' = Nothing
    /\ UNCHANGED <<present, rows>> /\ ListUnchanged

----------------------------------------------------------------------------
(* list_audit_events.  *)

(* _audit_deletion_key: the keys a row is about.                           *)
KeysOf(row) == [family : {row.family}, owner : {row.owner}, subject : row.subjects]

ReadPage ==
    /\ listing = "idle" /\ rows # <<>> /\ listing' = "page"
    /\ page' = UNION {KeysOf(rows[i]) : i \in DOMAIN rows}
    /\ UNCHANGED <<present, rows, acting, seen, answer>>

(* _audit_target_jobs, and then _audit_present_targets for the others.     *)
ReadJobs ==
    /\ listing = "page" /\ listing' = "jobs"
    /\ seen' = {k \in page : k.family = "job" /\ k \in present}
    /\ UNCHANGED <<present, rows, acting, page, answer>>

ReadPresent ==
    /\ listing = "jobs" /\ listing' = "present"
    /\ seen' = seen \union {k \in page : k.family # "job" /\ k \in present}
    /\ UNCHANGED <<present, rows, acting, page, answer>>

(* Fault: any removal of that name will do.                                *)
MatchesAnyone(row, k) ==
    /\ row.does = "remove" /\ row.family = k.family /\ k.subject \in row.subjects

(* A removal of its family that names it, by its owner if it has one.      *)
Matches(row, k) ==
    /\ row.does = "remove" /\ row.family = k.family /\ k.subject \in row.subjects
    /\ k.owner = NoOwner \/ k.owner = row.owner

(* _audit_target_deletions: the newest.                                    *)
Newest(k) ==
    LET matching == {i \in DOMAIN rows : Matches(rows[i], k)} IN
    IF matching = {} THEN 0 ELSE CHOOSE i \in matching : \A j \in matching : j <= i

ReadDeletions ==
    /\ listing = "present" /\ listing' = "listed"
    /\ answer' = [k \in page \ seen |-> Newest(k)]
    /\ UNCHANGED <<present, rows, acting, page, seen>>

Next ==
    \/ \E k \in Keys : Touch(k)
    \/ \E on \in SUBSET Keys : Remove(on)
    \/ WriteRow \/ RowFails
    \/ ReadPage \/ ReadJobs \/ ReadPresent \/ ReadDeletions

Spec == Init /\ [][Next]_vars

----------------------------------------------------------------------------
(* Every variable stays in its range. *)
TypeOK ==
    /\ present \subseteq Keys /\ page \subseteq Keys /\ seen \subseteq page
    /\ Len(rows) <= MaxRows /\ acting.on \subseteq Keys
    /\ listing \in {"idle", "page", "jobs", "present", "listed"}

(* What the list gives as the removal of a target removed this target and  *)
(* no other of the name, and no later row did.                             *)
RemovalIsTheTargets ==
    listing = "listed" =>
        \A k \in DOMAIN answer : answer[k] # 0 =>
            /\ rows[answer[k]].does = "remove" /\ k \in rows[answer[k]].on
=============================================================================
