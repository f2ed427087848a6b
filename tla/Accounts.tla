------------------------------ MODULE Accounts ------------------------------
(***************************************************************************)
(* Accounts, the sessions opened for them and the requests admitted with   *)
(* them.  A login, a registration and a request read the account several   *)
(* times, and an admin may change it in between: its role, its key, whether*)
(* it is disabled, whether it is there at all.                             *)
(*                                                                         *)
(* The key of an account is a version, 0 for none.  Expiry of sessions,    *)
(* the grants, the allow list and the reserved names are left out; the     *)
(* bootstrap admin has no row and is only a bearer of ADMIN_KEY.           *)
(***************************************************************************)
EXTENDS Naturals, FiniteSets

CONSTANTS
    Users,
    Bootstrap,          \* the bearer of ADMIN_KEY
    Attempts,           \* logins and registrations
    Requests,           \* authenticated requests
    Threshold,          \* LOGIN_LOCKOUT_THRESHOLD, 0 when lockout is off
    RequireApproval,
    FirstAccounts,      \* what the accounts may be at first
    MaxKeys             \* bound on the keys an account is given

VARIABLES
    account,    \* the users table
    lastKey,    \* the newest key of each name
    sessions,   \* the sessions table: user, role and who opened it
    attempt,
    request,
    tracking,   \* names whose activity is still to be written down
    lockRows,   \* auth.account_locked rows by user,
    locks,      \* times it was locked,
    shut,       \* requests of accounts disabled all the time since they came
    overtaken   \* attempts and requests whose account changed after they read it

vars == <<account, lastKey, sessions, attempt, request, tracking,
          lockRows, locks, shut, overtaken>>

Roles == {"reviewer", "operator", "admin"}
DefaultRole == "reviewer"
Rank == [r \in Roles \union {"none"} |->
            CASE r = "none" -> 0 [] r = "reviewer" -> 1 [] r = "operator" -> 2 [] r = "admin" -> 3]
NoAccount == [role |-> "none", status |-> "active", disabled |-> FALSE,
              locked |-> FALSE, count |-> 0, key |-> 0]
Idle == [step |-> "idle"]
Done == [step |-> "done"]

AccountRow == [role : Roles \union {"none"}, status : {"active", "pending", "rejected"},
               disabled : BOOLEAN, locked : BOOLEAN, count : Nat, key : 0 .. MaxKeys]

(* Only an account that is there is disabled or has a key.                 *)
SettingsAssumption ==
    /\ Threshold \in Nat /\ RequireApproval \in BOOLEAN /\ MaxKeys \in Nat
    /\ Bootstrap \notin Users
    /\ \A first \in FirstAccounts :
          /\ first \in [Users -> AccountRow]
          /\ \A u \in Users : first[u].disabled \/ first[u].key > 0 => first[u].role # "none"

Init ==
    /\ account \in FirstAccounts
    /\ lastKey = [u \in Users |-> account[u].key]
    /\ sessions = {[user |-> u, role |-> account[u].role, by |-> u] :
                        u \in {v \in Users : account[v].key > 0}}
    /\ attempt = [a \in Attempts |-> Idle]
    /\ request = [r \in Requests |-> Idle]
    /\ tracking = {}
    /\ lockRows = [u \in Users |-> 0] /\ locks = lockRows
    /\ shut = {} /\ overtaken = {}

Known(u) == u \in Users /\ account[u].role # "none"
NewAccount(role, status, key) == [NoAccount EXCEPT !.role = role, !.status = status, !.key = key]

(* DELETE FROM sessions WHERE username = ?, and who was about to open one. *)
DropSessions(u) ==
    /\ sessions' = {s \in sessions : s.user # u}
    /\ overtaken' = overtaken
         \union {a \in Attempts : attempt[a].step \notin {"idle", "done"} /\ attempt[a].user = u}
         \union {r \in Requests : request[r].step \notin {"idle", "done"} /\ request[r].user = u}

CanHaveKey(u) == lastKey[u] < MaxKeys
NewKey(u) == lastKey' = [lastKey EXCEPT ![u] = @ + 1]

----------------------------------------------------------------------------
(* Logging in.                                                             *)

At(a, step) == attempt[a].step = step
Go(a, step) == attempt' = [attempt EXCEPT ![a].step = step]

(* The key is looked up: a row for it, which may be another's, or none.    *)
Login(a, u, key) ==
    /\ At(a, "idle") /\ key \in 0 .. lastKey[u]
    /\ attempt' = [attempt EXCEPT ![a] =
         [step |-> IF Known(u) /\ key > 0 /\ account[u].key = key THEN "verified" ELSE "failed",
          user |-> u, role |-> account[u].role]]
    /\ UNCHANGED <<account, lastKey, sessions, request, tracking, lockRows, locks, shut, overtaken>>

(* Fault: an attempt on a locked account locks it again.                   *)
RecordFailureAgain(a) ==
    LET u == attempt[a].user
        counts == Known(u) /\ Threshold > 0
        locks1 == counts /\ account[u].count + 1 >= Threshold
    IN  /\ At(a, "failed")
        /\ account' = IF counts THEN [account EXCEPT ![u].count = @ + 1, ![u].locked = @ \/ locks1]
                      ELSE account
        /\ locks' = IF locks1 /\ ~account[u].locked THEN [locks EXCEPT ![u] = @ + 1] ELSE locks
        /\ Go(a, IF locks1 THEN "locking" ELSE "done")
        /\ UNCHANGED <<lastKey, sessions, request, tracking, lockRows, shut, overtaken>>

(* record_failed_login.                                                    *)
RecordFailure(a) ==
    LET u == attempt[a].user
        counts == Known(u) /\ Threshold > 0 /\ ~account[u].locked
        locks1 == counts /\ account[u].count + 1 >= Threshold
    IN  /\ At(a, "failed")
        /\ account' = IF counts THEN [account EXCEPT ![u].count = @ + 1, ![u].locked = locks1]
                      ELSE account
        /\ locks' = IF locks1 THEN [locks EXCEPT ![u] = @ + 1] ELSE locks
        /\ Go(a, IF locks1 THEN "locking" ELSE "done")
        /\ UNCHANGED <<lastKey, sessions, request, tracking, lockRows, shut, overtaken>>

(* _lock_after_failed_login: the lock is a row of its own.                 *)
AnnounceLock(a) ==
    /\ At(a, "locking") /\ Go(a, "done")
    /\ lockRows' = [lockRows EXCEPT ![attempt[a].user] = @ + 1]
    /\ UNCHANGED <<account, lastKey, sessions, request, tracking, locks, shut, overtaken>>

(* settle_login_attempt looks, and then resets the failures.               *)
Settle(a) ==
    LET row == account[attempt[a].user] IN
    /\ At(a, "verified")
    /\ Go(a, IF row.disabled \/ row.locked THEN "done"
             ELSE IF row.count > 0 THEN "resetting" ELSE "settled")
    /\ UNCHANGED <<account, lastKey, sessions, request, tracking, lockRows, locks, shut, overtaken>>

ResetFailures(a) ==
    /\ At(a, "resetting") /\ Go(a, "settled")
    /\ account' = [account EXCEPT ![attempt[a].user].count = 0]
    /\ UNCHANGED <<lastKey, sessions, request, tracking, lockRows, locks, shut, overtaken>>

(* _blocked_user_status_response.                                          *)
Blocked(u, role) == RequireApproval /\ role # "admin" /\ account[u].status # "active"

CheckStatus(a) ==
    /\ At(a, "settled")
    /\ Go(a, IF Blocked(attempt[a].user, attempt[a].role) THEN "done" ELSE "opening")
    /\ UNCHANGED <<account, lastKey, sessions, request, tracking, lockRows, locks, shut, overtaken>>

(* create_session, with the role that was read when the key was looked up. *)
OpenSession(a) ==
    /\ At(a, "opening") /\ Go(a, "done")
    /\ sessions' = sessions \union {[user |-> attempt[a].user, role |-> attempt[a].role, by |-> a]}
    /\ UNCHANGED <<account, lastKey, request, tracking, lockRows, locks, shut, overtaken>>

(* create_user: a name that is free, or one that has no key yet.           *)
CanRegister(u) == ~Known(u) \/ (account[u].role # "admin" /\ account[u].key = 0)
Registered(u, role, status) ==
    account' = [account EXCEPT ![u] =
        IF Known(u) THEN [@ EXCEPT !.key = lastKey[u] + 1] ELSE NewAccount(role, status, lastKey[u] + 1)]

Register(a, u) ==
    /\ At(a, "idle") /\ CanRegister(u) /\ CanHaveKey(u) /\ NewKey(u)
    /\ Registered(u, DefaultRole, IF RequireApproval THEN "pending" ELSE "active")
    /\ attempt' = [attempt EXCEPT ![a] = [step |-> "opening", user |-> u, role |-> DefaultRole]]
    /\ UNCHANGED <<sessions, request, tracking, lockRows, locks, shut, overtaken>>

----------------------------------------------------------------------------
(* A request is admitted by a session, a key, or the proxy.                *)

Is(r, step) == request[r].step = step
Move(r, step) == request' = [request EXCEPT ![r].step = step]
End(r) == request' = [request EXCEPT ![r] = Done]

(* A row read with the credential is not read again.                       *)
Identified(r, u, role, rowRead) ==
    LET out == rowRead /\ account[u].disabled IN
    /\ request' = [request EXCEPT ![r] = IF out THEN Done
           ELSE [step |-> IF rowRead THEN "allowed" ELSE "identified", user |-> u, role |-> role]]
    /\ shut' = IF u \in Users /\ account[u].disabled THEN shut \union {r} ELSE shut
    /\ tracking' = IF rowRead /\ ~out /\ u \in Users THEN tracking \union {u} ELSE tracking

BySession(r, s) ==
    /\ Is(r, "idle") /\ s \in sessions /\ Identified(r, s.user, s.role, FALSE)
    /\ UNCHANGED <<account, lastKey, sessions, attempt, lockRows, locks, overtaken>>

ByKey(r, u) ==
    /\ Is(r, "idle") /\ Known(u) /\ account[u].key > 0
    /\ Identified(r, u, account[u].role, TRUE)
    /\ UNCHANGED <<account, lastKey, sessions, attempt, lockRows, locks, overtaken>>

ByAdminKey(r) ==
    /\ Is(r, "idle") /\ Identified(r, Bootstrap, "admin", FALSE)
    /\ UNCHANGED <<account, lastKey, sessions, attempt, lockRows, locks, overtaken>>

(* Fault: a name without a row has no role either.                         *)
RowsRole(u) == account[u].role

(* The role of its row; a name without one is a reviewer.                  *)
ProxyRole(u) == IF Known(u) THEN account[u].role ELSE DefaultRole

ByProxy(r, u) ==
    /\ Is(r, "idle") /\ Identified(r, u, ProxyRole(u), Known(u))
    /\ UNCHANGED <<account, lastKey, sessions, attempt, lockRows, locks, overtaken>>

(* Fault: a session is as good as the day it was opened.                   *)
TrustSession(r) ==
    LET u == request[r].user IN
    /\ Is(r, "identified") /\ Move(r, "allowed")
    /\ tracking' = IF u \in Users THEN tracking \union {u} ELSE tracking
    /\ UNCHANGED <<account, lastKey, sessions, attempt, lockRows, locks, shut, overtaken>>

(* The row is read, if there is one, and a disabled account refused.       *)
CheckRow(r) ==
    LET u == request[r].user
        out == Known(u) /\ account[u].disabled
    IN  /\ Is(r, "identified")
        /\ IF out THEN End(r) /\ UNCHANGED tracking
           ELSE /\ Move(r, "allowed")
                /\ tracking' = IF u \in Users THEN tracking \union {u} ELSE tracking
        /\ UNCHANGED <<account, lastKey, sessions, attempt, lockRows, locks, shut, overtaken>>

(* Pending and rejected users are turned away.                             *)
CheckApproval(r) ==
    LET u == request[r].user IN
    /\ Is(r, "allowed")
    /\ IF u \in Users /\ Blocked(u, request[r].role) THEN End(r) ELSE Move(r, "admitted")
    /\ UNCHANGED <<account, lastKey, sessions, attempt, tracking, lockRows, locks, shut, overtaken>>

(* track_user runs in the background; a name without a row gets one.       *)
Track(u) ==
    /\ u \in tracking /\ tracking' = tracking \ {u}
    /\ account' = IF Known(u) THEN account ELSE [account EXCEPT ![u] = NewAccount(DefaultRole, "active", 0)]
    /\ UNCHANGED <<lastKey, sessions, attempt, request, lockRows, locks, shut, overtaken>>

----------------------------------------------------------------------------
(* What an admitted request does to its own account.                       *)

Serve(r) ==
    /\ Is(r, "admitted") /\ End(r)
    /\ UNCHANGED <<account, lastKey, sessions, attempt, tracking, lockRows, locks, shut, overtaken>>

Logout(r, s) ==
    /\ Is(r, "admitted") /\ s \in sessions /\ s.user = request[r].user /\ End(r)
    /\ sessions' = sessions \ {s}
    /\ UNCHANGED <<account, lastKey, attempt, tracking, lockRows, locks, shut, overtaken>>

(* rotate_own_key, and a new session to stay logged in with.               *)
RotateOwn(r) ==
    LET u == request[r].user IN
    /\ Is(r, "admitted") /\ Known(u) /\ CanHaveKey(u) /\ NewKey(u)
    /\ account' = [account EXCEPT ![u].key = lastKey[u] + 1]
    /\ DropSessions(u) /\ Move(r, "rotated")
    /\ UNCHANGED <<attempt, tracking, lockRows, locks, shut>>

StayLoggedIn(r) ==
    /\ Is(r, "rotated") /\ End(r)
    /\ sessions' = sessions \union {[user |-> request[r].user, role |-> request[r].role, by |-> r]}
    /\ UNCHANGED <<account, lastKey, attempt, tracking, lockRows, locks, shut, overtaken>>

----------------------------------------------------------------------------
(* What an admin does to the accounts of others.                           *)

Admin(r) == Is(r, "admitted") /\ request[r].role = "admin"
Other(r, u) == request[r].user # u

CreateUser(r, u, role) ==
    /\ Admin(r) /\ CanHaveKey(u) /\ NewKey(u) /\ End(r)
    /\ IF role = "admin" THEN ~Known(u) ELSE CanRegister(u)
    /\ Registered(u, role, "active")
    /\ UNCHANGED <<sessions, attempt, tracking, lockRows, locks, shut, overtaken>>

DeleteUser(r, u) ==
    /\ Admin(r) /\ Other(r, u) /\ Known(u) /\ End(r)
    /\ account' = [account EXCEPT ![u] = NoAccount]
    /\ DropSessions(u)
    /\ shut' = {q \in shut : request[q].step = "idle" \/ request[q] = Done \/ request[q].user # u}
    /\ UNCHANGED <<lastKey, attempt, tracking, lockRows, locks>>

(* Fault: the sessions stay as they were.                                  *)
ChangeRoleOnly(r, u, role) ==
    /\ Admin(r) /\ Other(r, u) /\ Known(u) /\ account[u].role # role /\ End(r)
    /\ account' = [account EXCEPT ![u].role = role]
    /\ UNCHANGED <<lastKey, sessions, attempt, tracking, lockRows, locks, shut, overtaken>>

(* change_user_role: a new admin without a key is given one.               *)
ChangeRole(r, u, role) ==
    LET key == role = "admin" /\ account[u].key = 0 IN
    /\ Admin(r) /\ Other(r, u) /\ Known(u) /\ account[u].role # role /\ End(r)
    /\ key => CanHaveKey(u)
    /\ IF key THEN NewKey(u) ELSE UNCHANGED lastKey
    /\ account' = [account EXCEPT ![u].role = role, ![u].key = IF key THEN lastKey[u] + 1 ELSE @]
    /\ DropSessions(u)
    /\ UNCHANGED <<attempt, tracking, lockRows, locks, shut>>

EnabledAdmins == {u \in Users : account[u].role = "admin" /\ ~account[u].disabled}

(* Fault: any other admin will do, enabled or not.                         *)
AnotherAdmin(u) == \E v \in Users \ {u} : account[v].role = "admin"

(* The last enabled admin, counted without the one to be disabled.         *)
OthersRemain(u) == EnabledAdmins \ {u} # {}

(* set_user_disabled.                                                      *)
Disable(r, u) ==
    /\ Admin(r) /\ Known(u) /\ End(r)
    /\ ~account[u].disabled => Other(r, u) /\ (account[u].role = "admin" => OthersRemain(u))
    /\ account' = [account EXCEPT ![u].disabled = TRUE]
    /\ DropSessions(u)
    /\ UNCHANGED <<lastKey, attempt, tracking, lockRows, locks, shut>>

Enable(r, u) ==
    /\ Admin(r) /\ Known(u) /\ account[u].disabled /\ End(r)
    /\ account' = [account EXCEPT ![u].disabled = FALSE]
    /\ shut' = {q \in shut : request[q].step = "idle" \/ request[q] = Done \/ request[q].user # u}
    /\ UNCHANGED <<lastKey, sessions, attempt, tracking, lockRows, locks, overtaken>>

Unlock(r, u) ==
    /\ Admin(r) /\ Known(u) /\ End(r)
    /\ account' = [account EXCEPT ![u].locked = FALSE, ![u].count = 0]
    /\ UNCHANGED <<lastKey, sessions, attempt, tracking, lockRows, locks, shut, overtaken>>

(* rotate_key_endpoint: an admin's key, or else a user's.                  *)
RotateKey(r, u) ==
    /\ Admin(r) /\ Known(u) /\ CanHaveKey(u) /\ NewKey(u) /\ End(r)
    /\ account' = [account EXCEPT ![u].key = lastKey[u] + 1]
    /\ DropSessions(u)
    /\ UNCHANGED <<attempt, tracking, lockRows, locks, shut>>

Approve(r, u) ==
    /\ Admin(r) /\ Known(u) /\ account[u].status = "pending" /\ account[u].role # "admin" /\ End(r)
    /\ account' = [account EXCEPT ![u].status = "active"]
    /\ UNCHANGED <<lastKey, sessions, attempt, tracking, lockRows, locks, shut, overtaken>>

(* reject_user sees a pending user, and rejects whoever is there by then.  *)
SeePending(r, u) ==
    /\ Admin(r) /\ Known(u) /\ account[u].status = "pending"
    /\ request' = [request EXCEPT ![r] = [step |-> "rejecting", user |-> u, role |-> "admin"]]
    /\ UNCHANGED <<account, lastKey, sessions, attempt, tracking, lockRows, locks, shut, overtaken>>

Reject(r) ==
    LET u == request[r].user IN
    /\ Is(r, "rejecting") /\ End(r)
    /\ account' = IF Known(u) /\ account[u].role # "admin" THEN [account EXCEPT ![u].status = "rejected"]
                  ELSE account
    /\ UNCHANGED <<lastKey, sessions, attempt, tracking, lockRows, locks, shut, overtaken>>

Next ==
    \/ \E a \in Attempts :
         \/ RecordFailure(a) \/ AnnounceLock(a) \/ Settle(a) \/ ResetFailures(a)
         \/ CheckStatus(a) \/ OpenSession(a)
         \/ \E u \in Users : Register(a, u) \/ \E key \in 0 .. MaxKeys : Login(a, u, key)
    \/ \E r \in Requests :
         \/ ByAdminKey(r) \/ CheckRow(r) \/ CheckApproval(r) \/ Serve(r)
         \/ RotateOwn(r) \/ StayLoggedIn(r) \/ Reject(r)
         \/ \E s \in sessions : BySession(r, s) \/ Logout(r, s)
         \/ \E u \in Users :
              \/ ByKey(r, u) \/ ByProxy(r, u) \/ DeleteUser(r, u) \/ Disable(r, u) \/ Enable(r, u)
              \/ Unlock(r, u) \/ RotateKey(r, u) \/ Approve(r, u) \/ SeePending(r, u)
              \/ \E role \in Roles : CreateUser(r, u, role) \/ ChangeRole(r, u, role)
    \/ \E u \in Users : Track(u)

Spec == Init /\ [][Next]_vars

----------------------------------------------------------------------------
(* Every variable stays in its range. *)
TypeOK ==
    /\ account \in [Users -> AccountRow]
    /\ lastKey \in [Users -> 0 .. MaxKeys] /\ \A u \in Users : account[u].key <= lastKey[u]
    /\ sessions \subseteq [user : Users \union {Bootstrap}, role : Roles,
                           by : Users \union Attempts \union Requests]
    /\ tracking \subseteq Users /\ shut \subseteq Requests
    /\ overtaken \subseteq Attempts \union Requests

(* However its request and the change of the account interleave, nobody    *)
(* gets in whose account was disabled from the moment the request came.    *)
DisabledIsOut == \A r \in shut : ~Is(r, "admitted") /\ ~Is(r, "rotated")

(* Of failed logins that overlap exactly one writes auth.account_locked    *)
(* each time the account is locked.                                        *)
OneRowPerLock ==
    \A u \in Users :
        locks[u] = lockRows[u] + Cardinality({a \in Attempts : At(a, "locking") /\ attempt[a].user = u})

(* A session gives more than its account's role only if whoever opened it  *)
(* was overtaken by the change.                                            *)
NoStalePrivilege ==
    \A s \in sessions : s.user \in Users /\ Rank[s.role] > Rank[account[s.user].role] => s.by \in overtaken

(* What the server may never grant, however requests, logins and changes   *)
(* of the account interleave.                                              *)
AccessIsCurrent == DisabledIsOut /\ NoStalePrivilege /\ OneRowPerLock

(* Admins who disable each other leave one of them, whatever order they    *)
(* come in: the last enabled admin goes only by deletion or demotion.      *)
AdminsReachable ==
    [][EnabledAdmins # {} /\ EnabledAdmins' = {} =>
        \A u \in EnabledAdmins : account'[u].role # "admin"]_vars
=============================================================================
