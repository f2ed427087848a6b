---------------------------- MODULE AccessProofs ----------------------------
(***************************************************************************)
(* Whoever is disabled is out, privileges are current and an admin remains,*)
(* for any users, logins, requests and initial accounts; an upgrade repairs*)
(* what it says it does and loses nothing, for any database and wherever it*)
(* is cut short; and the merge of usernames keeps roles, keys and reads.   *)
(*                                                                         *)
(* The theorems of the first part are about the specification of the       *)
(* accounts, the last ones about the suite that runs them with the         *)
(* migrations and the merge of names (M and N).                            *)
(***************************************************************************)
EXTENDS MCAccess, TLAPS, FiniteSetTheorems, WellFoundedInduction

(* The rows of the users table; a name without an account has no key.      *)
AccountsOK ==
    /\ account \in [Users -> AccountRow] /\ lastKey \in [Users -> 0 .. MaxKeys]
    /\ \A u \in Users : account[u].key <= lastKey[u]
    /\ \A u \in Users : account[u].disabled \/ account[u].key > 0 => account[u].role # "none"

Verified == {"verified", "settled", "resetting", "opening"}
Logging == [step : Verified \union {"failed", "locking", "done"},
            user : Users, role : Roles \union {"none"}]

(* Whoever gave the right key had an account.                              *)
AttemptsOK ==
    /\ attempt \in [Attempts -> {Idle} \union Logging]
    /\ \A a \in Attempts : attempt[a].step \in Verified => attempt[a].role # "none"

Underway == [step : {"identified", "allowed", "admitted", "rotated", "rejecting"},
             user : Users \union {Bootstrap}, role : Roles]
RequestsOK == request \in [Requests -> {Idle, Done} \union Underway]

SessionsOK == sessions \subseteq [user : Users \union {Bootstrap}, role : Roles,
                                  by : Users \union Attempts \union Requests]

RestOK ==
    /\ tracking \subseteq Users /\ shut \subseteq Requests
    /\ overtaken \subseteq Attempts \union Requests

(* A request that met a disabled account gets as far as the second look.   *)
ShutAreOut ==
    \A r \in shut :
        /\ request[r].step \in {"done", "identified"}
        /\ request[r].step = "identified" => request[r].user \in Users /\ account[request[r].user].disabled

(* Who opens a session with more than the role there is was overtaken.     *)
OvertakenAre ==
    /\ NoStalePrivilege
    /\ \A a \in Attempts : attempt[a].step \in Verified =>
          a \in overtaken \/ Rank[attempt[a].role] <= Rank[account[attempt[a].user].role]
    /\ \A r \in Requests : request[r].step = "rotated" => r \in overtaken

IInv ==
    /\ AccountsOK /\ AttemptsOK /\ RequestsOK /\ SessionsOK /\ RestOK
    /\ ShutAreOut /\ OvertakenAre

-----------------------------------------------------------------------------
(* The initial states satisfy the invariant.                               *)
LEMMA InitInv ==
    ASSUME SettingsAssumption, Init
    PROVE  IInv
<1>1. AccountsOK
  BY DEF Init, SettingsAssumption, AccountsOK, AccountRow
<1>2. AttemptsOK /\ RequestsOK
  BY DEF Init, AttemptsOK, RequestsOK, Idle, Verified
<1>3. SessionsOK
  BY <1>1 DEF Init, SessionsOK, AccountsOK, AccountRow
<1>4. RestOK /\ ShutAreOut
  BY DEF Init, RestOK, ShutAreOut
<1>5. OvertakenAre
  BY <1>1 DEF Init, OvertakenAre, NoStalePrivilege, Idle, Verified, Rank, Roles, AccountsOK,
              AccountRow
<1> QED
  BY <1>1, <1>2, <1>3, <1>4, <1>5 DEF IInv

(* A row keeps its type when its fields get values of theirs.              *)
LEMMA RowTypes ==
    ASSUME SettingsAssumption
    PROVE  /\ \A row \in AccountRow, b \in BOOLEAN : [row EXCEPT !.disabled = b] \in AccountRow
           /\ \A row \in AccountRow, b \in BOOLEAN, n \in Nat :
                 [row EXCEPT !.locked = b, !.count = n] \in AccountRow
           /\ \A row \in AccountRow, b \in BOOLEAN, n \in Nat :
                 [row EXCEPT !.count = n, !.locked = b] \in AccountRow
           /\ \A row \in AccountRow, n \in Nat : [row EXCEPT !.count = n] \in AccountRow
           /\ \A row \in AccountRow, t \in {"active", "pending", "rejected"} :
                 [row EXCEPT !.status = t] \in AccountRow
           /\ \A row \in AccountRow, k \in 0 .. MaxKeys : [row EXCEPT !.key = k] \in AccountRow
           /\ \A row \in AccountRow, p \in Roles, k \in 0 .. MaxKeys :
                 [row EXCEPT !.role = p, !.key = k] \in AccountRow
           /\ \A p \in Roles, t \in {"active", "pending", "rejected"}, k \in 0 .. MaxKeys :
                 NewAccount(p, t, k) \in AccountRow
           /\ 0 \in 0 .. MaxKeys
<1>1. /\ \A row \in AccountRow, b \in BOOLEAN : [row EXCEPT !.disabled = b] \in AccountRow
      /\ \A row \in AccountRow, b \in BOOLEAN, n \in Nat :
            [row EXCEPT !.locked = b, !.count = n] \in AccountRow
      /\ \A row \in AccountRow, b \in BOOLEAN, n \in Nat :
            [row EXCEPT !.count = n, !.locked = b] \in AccountRow
      /\ \A row \in AccountRow, n \in Nat : [row EXCEPT !.count = n] \in AccountRow
      /\ \A row \in AccountRow, t \in {"active", "pending", "rejected"} :
            [row EXCEPT !.status = t] \in AccountRow
      /\ \A row \in AccountRow, k \in 0 .. MaxKeys : [row EXCEPT !.key = k] \in AccountRow
      /\ \A row \in AccountRow, p \in Roles, k \in 0 .. MaxKeys :
            [row EXCEPT !.role = p, !.key = k] \in AccountRow
  BY DEF AccountRow
<1>2. 0 \in 0 .. MaxKeys /\ NoAccount \in AccountRow
  BY DEF AccountRow, NoAccount, SettingsAssumption
<1>3. \A p \in Roles, t \in {"active", "pending", "rejected"}, k \in 0 .. MaxKeys :
          NewAccount(p, t, k) \in AccountRow
  BY <1>2 DEF AccountRow, NewAccount
<1> QED
  BY <1>1, <1>2, <1>3

(* No session outranks its account once the accounts have gained roles.    *)
LEMMA HigherRoles ==
    ASSUME NoStalePrivilege, SessionsOK, AccountsOK, AccountsOK',
           sessions' = sessions, overtaken' = overtaken,
           \A v \in Users : Rank[account[v].role] <= Rank[account'[v].role]
    PROVE  NoStalePrivilege'
<1> SUFFICES ASSUME NEW s \in sessions, s.user \in Users, Rank[s.role] > Rank[account'[s.user].role]
             PROVE  s.by \in overtaken
  BY DEF NoStalePrivilege
<1>1. /\ Rank[s.role] \in Nat /\ Rank[account[s.user].role] \in Nat
      /\ Rank[account'[s.user].role] \in Nat
  BY DEF SessionsOK, AccountsOK, AccountRow, Rank, Roles
<1>2. Rank[s.role] > Rank[account[s.user].role]
  BY <1>1
<1> QED
  BY <1>2 DEF NoStalePrivilege

(* So do the rows of all when the row of one is replaced.                  *)
LEMMA RowChange ==
    ASSUME SettingsAssumption, AccountsOK, NEW u \in Users, NEW row \in AccountRow,
           account' = [account EXCEPT ![u] = row], lastKey' \in [Users -> 0 .. MaxKeys],
           \A v \in Users : lastKey[v] <= lastKey'[v],
           row.key <= lastKey'[u], row.disabled \/ row.key > 0 => row.role # "none"
    PROVE  AccountsOK'
<1>1. account' \in [Users -> AccountRow]
  BY DEF AccountsOK
<1>2. \A v \in Users : account'[v] = IF v = u THEN row ELSE account[v]
  BY DEF AccountsOK
<1>3. \A v \in Users : account[v].key \in Nat /\ lastKey[v] \in Nat /\ lastKey'[v] \in Nat
  <2>1. \A k \in 0 .. MaxKeys : k \in Nat
    BY DEF SettingsAssumption
  <2> QED
    BY <2>1 DEF AccountsOK, AccountRow
<1>4. \A v \in Users : account'[v].key <= lastKey'[v]
  BY <1>2, <1>3 DEF AccountsOK
<1>5. \A v \in Users : account'[v].disabled \/ account'[v].key > 0 => account'[v].role # "none"
  BY <1>2 DEF AccountsOK
<1> QED
  BY <1>1, <1>4, <1>5 DEF AccountsOK

(* A new key is one more.                                                  *)
LEMMA KeyChange ==
    ASSUME SettingsAssumption, AccountsOK, NEW u \in Users, CanHaveKey(u), NewKey(u)
    PROVE  /\ lastKey' \in [Users -> 0 .. MaxKeys] /\ lastKey'[u] = lastKey[u] + 1
           /\ \A v \in Users : lastKey[v] <= lastKey'[v]
           /\ lastKey[u] + 1 \in 0 .. MaxKeys
  BY DEF SettingsAssumption, AccountsOK, CanHaveKey, NewKey

(* Every step keeps the invariant.                                         *)
LEMMA StepInv ==
    ASSUME SettingsAssumption, IInv, Next
    PROVE  IInv'
<1>1. ASSUME NEW a \in Attempts, NEW u \in Users, NEW key \in 0 .. MaxKeys, Login(a, u, key)
      PROVE  IInv'
  <2> USE <1>1 DEF Login, IInv, At, Known
  <2>1. AttemptsOK'
    BY DEF AttemptsOK, Logging, AccountsOK, AccountRow, Verified
  <2>2. OvertakenAre'
    BY DEF OvertakenAre, NoStalePrivilege, Rank, RequestsOK, AccountsOK, AccountRow, RestOK, Done,
           Roles, Verified
  <2>3. AccountsOK' /\ RequestsOK' /\ SessionsOK' /\ RestOK' /\ ShutAreOut'
    BY DEF AccountsOK, RequestsOK, SessionsOK, RestOK, ShutAreOut
  <2> QED
    BY <2>1, <2>2, <2>3
<1>2. ASSUME NEW a \in Attempts, NEW u \in Users, Register(a, u)
      PROVE  IInv'
  <2> USE <1>2 DEF Register, IInv, At, CanRegister, Known, CanHaveKey, NewKey, Registered,
                   NewAccount, NoAccount, DefaultRole
  <2>1. AccountsOK'
    <3> DEFINE row == IF Known(u) THEN [account[u] EXCEPT !.key = lastKey[u] + 1]
                     ELSE NewAccount(DefaultRole, IF RequireApproval THEN "pending" ELSE "active", lastKey[u] + 1)
    <3>1. account[u] \in AccountRow /\ account[u].key <= lastKey[u]
      BY DEF AccountsOK
    <3>2. /\ lastKey' \in [Users -> 0 .. MaxKeys] /\ lastKey'[u] = lastKey[u] + 1
          /\ \A v \in Users : lastKey[v] <= lastKey'[v]
          /\ lastKey[u] + 1 \in 0 .. MaxKeys
      BY KeyChange
    <3>3. row \in AccountRow
      BY <3>1, <3>2, RowTypes DEF Roles
    <3>4. row.key <= lastKey'[u] /\ (row.disabled \/ row.key > 0 => row.role # "none")
      BY <3>1, <3>2 DEF AccountRow
    <3>5. account' = [account EXCEPT ![u] = row]
      BY <3>1 DEF AccountsOK
    <3> QED
      BY <3>2, <3>3, <3>4, <3>5, RowChange
  <2>2. AttemptsOK'
    BY DEF AttemptsOK, Logging, Roles, Verified
  <2>3. ShutAreOut'
    BY DEF ShutAreOut, AccountsOK
  <2>4. OvertakenAre'
    <3>1. NoStalePrivilege'
      <4>1. \A v \in Users : Rank[account[v].role] <= Rank[account'[v].role]
        BY DEF Rank, AccountsOK, AccountRow, Roles
      <4> QED
        BY <2>1, <4>1, HigherRoles DEF OvertakenAre
    <3>2. \A b \in Attempts : attempt'[b].step \in Verified =>
             b \in overtaken' \/ Rank[attempt'[b].role] <= Rank[account'[attempt'[b].user].role]
      BY DEF OvertakenAre, Rank, AttemptsOK, Logging, AccountsOK, AccountRow, Roles, Verified
    <3>3. \A q \in Requests : request'[q].step = "rotated" => q \in overtaken'
      BY DEF OvertakenAre
    <3> QED
      BY <3>1, <3>2, <3>3 DEF OvertakenAre
  <2>5. RequestsOK' /\ SessionsOK' /\ RestOK'
    BY DEF RequestsOK, SessionsOK, RestOK
  <2> QED
    BY <2>1, <2>2, <2>3, <2>4, <2>5
<1>3. ASSUME NEW a \in Attempts, RecordFailure(a)
      PROVE  IInv'
  <2> USE <1>3 DEF RecordFailure, IInv, Known, At, Go
  <2>1. AccountsOK'
    <3>1. PICK v \in Users : v = attempt[a].user
      BY DEF AttemptsOK, Logging, Idle
    <3>2. account[v] \in AccountRow /\ account[v].key <= lastKey[v] /\ account[v].count + 1 \in Nat
      BY DEF AccountsOK, AccountRow
    <3>3. lastKey' \in [Users -> 0 .. MaxKeys] /\ \A w \in Users : lastKey[w] <= lastKey'[w]
      BY DEF AccountsOK, SettingsAssumption
    <3>4. ASSUME NEW b \in BOOLEAN,
                 account' = [account EXCEPT ![v] = [account[v] EXCEPT !.count = account[v].count + 1, !.locked = b]]
          PROVE  AccountsOK'
      <4> DEFINE row == [account[v] EXCEPT !.count = account[v].count + 1, !.locked = b]
      <4>1. row \in AccountRow
        BY <3>2, RowTypes
      <4>2. row.key = account[v].key /\ row.disabled = account[v].disabled /\ row.role = account[v].role
        BY <3>2 DEF AccountRow
      <4>3. row.key <= lastKey'[v] /\ (row.disabled \/ row.key > 0 => row.role # "none")
        BY <3>2, <4>2 DEF AccountsOK
      <4> HIDE DEF row
      <4> QED
        BY <3>3, <3>4, <4>1, <4>3, RowChange DEF row
    <3>5. CASE account' = account
      BY <3>5 DEF AccountsOK
    <3>6. \/ account' = account
          \/ account' = [account EXCEPT ![v] = [account[v] EXCEPT !.count = account[v].count + 1, !.locked = TRUE]]
          \/ account' = [account EXCEPT ![v] = [account[v] EXCEPT !.count = account[v].count + 1, !.locked = FALSE]]
      <4>1. CASE account[v].count + 1 >= Threshold
        BY <3>1, <3>2, <4>1 DEF AccountsOK
      <4>2. CASE ~(account[v].count + 1 >= Threshold)
        BY <3>1, <3>2, <4>2 DEF AccountsOK
      <4> QED
        BY <4>1, <4>2
    <3>7. CASE account' # account
      <4>1. TRUE \in BOOLEAN /\ FALSE \in BOOLEAN
        OBVIOUS
      <4> QED
        BY <3>4, <3>6, <3>7, <4>1
    <3> QED
      BY <3>5, <3>7
  <2>2. AttemptsOK'
    BY DEF AttemptsOK, Logging, Idle, Verified
  <2>3. ShutAreOut'
    BY SMTT(30) DEF ShutAreOut, AccountsOK
  <2>4. OvertakenAre'
    <3>1. /\ \A u \in Users : account'[u].role = account[u].role
          /\ \A b \in Attempts : b # a => attempt'[b] = attempt[b]
          /\ attempt'[a].step \notin Verified
      BY DEF AccountsOK, AttemptsOK, Verified
    <3>2. \A b \in Attempts : attempt[b].step \in Verified => attempt[b].user \in Users
      BY DEF AttemptsOK, Logging, Idle, Verified
    <3>3. NoStalePrivilege'
      BY <3>1 DEF OvertakenAre, NoStalePrivilege
    <3>4. ASSUME NEW b \in Attempts, attempt'[b].step \in Verified
          PROVE  b \in overtaken \/ Rank[attempt'[b].role] <= Rank[account'[attempt'[b].user].role]
      <4>1. attempt'[b] = attempt[b]
        BY <3>1, <3>4
      <4>2. account'[attempt[b].user].role = account[attempt[b].user].role
        BY <3>1, <3>2, <3>4, <4>1
      <4> QED
        BY <3>4, <4>1, <4>2 DEF OvertakenAre
    <3> QED
      BY <3>1, <3>3, <3>4 DEF OvertakenAre
  <2>5. RequestsOK' /\ SessionsOK' /\ RestOK'
    BY DEF RequestsOK, SessionsOK, RestOK
  <2> QED
    BY <2>1, <2>2, <2>3, <2>4, <2>5
<1>4. ASSUME NEW a \in Attempts, AnnounceLock(a)
      PROVE  IInv'
  <2> USE <1>4 DEF AnnounceLock, IInv, At, Go
  <2>1. AttemptsOK'
    BY DEF AttemptsOK, Logging, Idle, Verified
  <2>2. OvertakenAre'
    BY DEF OvertakenAre, NoStalePrivilege, Verified
  <2>3. AccountsOK' /\ RequestsOK' /\ SessionsOK' /\ RestOK' /\ ShutAreOut'
    BY DEF AccountsOK, RequestsOK, SessionsOK, RestOK, ShutAreOut
  <2> QED
    BY <2>1, <2>2, <2>3
<1>5. ASSUME NEW a \in Attempts, Settle(a)
      PROVE  IInv'
  <2> USE <1>5 DEF Settle, IInv, At, Go
  <2>1. AttemptsOK'
    BY DEF AttemptsOK, Logging, Idle, Verified
  <2>2. OvertakenAre'
    BY DEF OvertakenAre, NoStalePrivilege, Verified
  <2>3. AccountsOK' /\ RequestsOK' /\ SessionsOK' /\ RestOK' /\ ShutAreOut'
    BY DEF AccountsOK, RequestsOK, SessionsOK, RestOK, ShutAreOut
  <2> QED
    BY <2>1, <2>2, <2>3
<1>6. ASSUME NEW a \in Attempts, ResetFailures(a)
      PROVE  IInv'
  <2> USE <1>6 DEF ResetFailures, IInv, At, Go
  <2>1. AccountsOK'
    <3>1. PICK v \in Users : v = attempt[a].user
      BY DEF AttemptsOK, Logging, Idle
    <3> DEFINE row == [account[v] EXCEPT !.count = 0]
    <3>2. account[v] \in AccountRow /\ account[v].key <= lastKey[v] /\ account[v].count \in Nat
      BY DEF AccountsOK, AccountRow
    <3>3. row \in AccountRow
      BY <3>2, RowTypes
    <3>4. row.key = account[v].key /\ row.disabled = account[v].disabled /\ row.role = account[v].role
      BY <3>2 DEF AccountRow
    <3>5. account' = account \/ account' = [account EXCEPT ![v] = row]
      BY <3>1, <3>2 DEF AccountsOK, AccountRow
    <3>6. lastKey' \in [Users -> 0 .. MaxKeys] /\ \A w \in Users : lastKey[w] <= lastKey'[w]
      BY DEF AccountsOK, SettingsAssumption
    <3>7. row.key <= lastKey'[v] /\ (row.disabled \/ row.key > 0 => row.role # "none")
      BY <3>2, <3>4 DEF AccountsOK
    <3> HIDE DEF row
    <3>8. CASE account' = [account EXCEPT ![v] = row]
      BY <3>3, <3>6, <3>7, <3>8, RowChange
    <3>9. CASE account' = account
      BY <3>9 DEF AccountsOK
    <3> QED
      BY <3>5, <3>8, <3>9
  <2>2. AttemptsOK'
    BY DEF AttemptsOK, Logging, Idle, Verified
  <2>3. ShutAreOut'
    BY DEF ShutAreOut
  <2>4. OvertakenAre'
    BY DEF OvertakenAre, NoStalePrivilege, Verified
  <2>5. RequestsOK' /\ SessionsOK' /\ RestOK'
    BY DEF RequestsOK, SessionsOK, RestOK
  <2> QED
    BY <2>1, <2>2, <2>3, <2>4, <2>5
<1>7. ASSUME NEW a \in Attempts, CheckStatus(a)
      PROVE  IInv'
  <2> USE <1>7 DEF CheckStatus, IInv, At, Go
  <2>1. AttemptsOK'
    BY DEF AttemptsOK, Logging, Idle, Verified
  <2>2. OvertakenAre'
    BY DEF OvertakenAre, NoStalePrivilege, Verified
  <2>3. AccountsOK' /\ RequestsOK' /\ SessionsOK' /\ RestOK' /\ ShutAreOut'
    BY DEF AccountsOK, RequestsOK, SessionsOK, RestOK, ShutAreOut
  <2> QED
    BY <2>1, <2>2, <2>3
<1>8. ASSUME NEW a \in Attempts, OpenSession(a)
      PROVE  IInv'
  <2> USE <1>8 DEF OpenSession, IInv, At, Go
  <2>1. AttemptsOK'
    BY DEF AttemptsOK, Logging, Idle
  <2>2. SessionsOK'
    BY DEF SessionsOK, AttemptsOK, Logging, Idle
  <2>3. OvertakenAre'
    <3>1. NoStalePrivilege'
      BY DEF OvertakenAre, NoStalePrivilege, Rank, AttemptsOK, Logging, AccountsOK, AccountRow,
             Idle, Roles
    <3>2. \A b \in Attempts : attempt'[b].step \in Verified =>
             b \in overtaken' \/ Rank[attempt'[b].role] <= Rank[account'[attempt'[b].user].role]
      BY DEF OvertakenAre, Verified
    <3>3. \A q \in Requests : request'[q].step = "rotated" => q \in overtaken'
      BY DEF OvertakenAre
    <3> QED
      BY <3>1, <3>2, <3>3 DEF OvertakenAre
  <2>4. AccountsOK' /\ RequestsOK' /\ RestOK' /\ ShutAreOut'
    BY DEF AccountsOK, RequestsOK, RestOK, ShutAreOut
  <2> QED
    BY <2>1, <2>2, <2>3, <2>4
<1>9. ASSUME NEW r \in Requests, ByAdminKey(r)
      PROVE  IInv'
  <2> USE <1>9 DEF ByAdminKey, IInv, Is, Identified
  <2>1. RequestsOK'
    BY DEF RequestsOK, Underway, Roles
  <2>2. RestOK'
    BY DEF RestOK
  <2>3. ShutAreOut'
    <3>1. \A q \in Requests : q # r => request'[q] = request[q]
      BY DEF RequestsOK
    <3>2. ASSUME NEW q \in shut', q # r
          PROVE  /\ request'[q].step \in {"done", "identified"}
                 /\ request'[q].step = "identified" =>
                       request'[q].user \in Users /\ account'[request'[q].user].disabled
      BY <3>1, <3>2 DEF ShutAreOut
    <3>3. ASSUME r \in shut'
          PROVE  /\ request'[r].step \in {"done", "identified"}
                 /\ request'[r].step = "identified" =>
                       request'[r].user \in Users /\ account'[request'[r].user].disabled
      <4>1. r \notin shut
        BY DEF ShutAreOut
      <4> QED
        BY <3>3, <4>1 DEF RequestsOK
    <3> QED
      BY <3>2, <3>3 DEF ShutAreOut
  <2>4. OvertakenAre'
    BY DEF OvertakenAre, NoStalePrivilege
  <2>5. AccountsOK' /\ AttemptsOK' /\ SessionsOK'
    BY DEF AccountsOK, AttemptsOK, SessionsOK
  <2> QED
    BY <2>1, <2>2, <2>3, <2>4, <2>5
<1>10. ASSUME NEW r \in Requests, CheckRow(r)
      PROVE  IInv'
  <2> USE <1>10 DEF CheckRow, IInv, Known, Is, End, Move
  <2>1. RequestsOK'
    BY DEF RequestsOK, Underway, Idle, Done
  <2>2. RestOK'
    BY DEF RestOK
  <2>3. ShutAreOut'
    BY DEF ShutAreOut, RequestsOK, AccountsOK, RestOK, Done
  <2>4. OvertakenAre'
    <3>1. NoStalePrivilege'
      BY DEF OvertakenAre, NoStalePrivilege
    <3>2. \A q \in Requests : request'[q].step = "rotated" => request[q].step = "rotated"
      BY DEF RequestsOK, Underway, Idle, Done
    <3> QED
      BY <3>1, <3>2 DEF OvertakenAre
  <2>5. AccountsOK' /\ AttemptsOK' /\ SessionsOK'
    BY DEF AccountsOK, AttemptsOK, SessionsOK
  <2> QED
    BY <2>1, <2>2, <2>3, <2>4, <2>5
<1>11. ASSUME NEW r \in Requests, CheckApproval(r)
      PROVE  IInv'
  <2> USE <1>11 DEF CheckApproval, IInv, Is, End, Move
  <2>1. RequestsOK'
    BY DEF RequestsOK, Underway, Idle, Done
  <2>2. ShutAreOut'
    BY DEF ShutAreOut, RequestsOK, RestOK
  <2>3. OvertakenAre'
    <3>1. NoStalePrivilege'
      BY DEF OvertakenAre, NoStalePrivilege
    <3>2. \A q \in Requests : request'[q].step = "rotated" => request[q].step = "rotated"
      BY DEF RequestsOK, Underway, Idle, Done
    <3> QED
      BY <3>1, <3>2 DEF OvertakenAre
  <2>4. AccountsOK' /\ AttemptsOK' /\ SessionsOK' /\ RestOK'
    BY DEF AccountsOK, AttemptsOK, SessionsOK, RestOK
  <2> QED
    BY <2>1, <2>2, <2>3, <2>4
<1>12. ASSUME NEW r \in Requests, Serve(r)
      PROVE  IInv'
  <2> USE <1>12 DEF Serve, IInv, Is, End
  <2>1. RequestsOK'
    BY DEF RequestsOK
  <2>2. ShutAreOut'
    BY DEF ShutAreOut
  <2>3. OvertakenAre'
    BY DEF OvertakenAre, NoStalePrivilege, Done
  <2>4. AccountsOK' /\ AttemptsOK' /\ SessionsOK' /\ RestOK'
    BY DEF AccountsOK, AttemptsOK, SessionsOK, RestOK
  <2> QED
    BY <2>1, <2>2, <2>3, <2>4
<1>13. ASSUME NEW r \in Requests, RotateOwn(r)
      PROVE  IInv'
  <2> USE <1>13 DEF RotateOwn, IInv, Is, Known, CanHaveKey, NewKey, DropSessions, Move
  <2>1. AccountsOK'
    BY DEF AccountsOK, AccountRow, SettingsAssumption, AttemptsOK, Logging, RequestsOK, Underway,
           Idle, Done, Verified
  <2>2. RequestsOK'
    BY DEF RequestsOK, Underway, Idle, Done
  <2>3. SessionsOK'
    BY DEF SessionsOK
  <2>4. RestOK'
    BY DEF RestOK
  <2>5. ShutAreOut'
    BY DEF ShutAreOut
  <2>6. OvertakenAre'
    <3>1. NoStalePrivilege'
      BY DEF OvertakenAre, NoStalePrivilege
    <3>2. \A b \in Attempts : attempt'[b].step \in Verified =>
             b \in overtaken' \/ Rank[attempt'[b].role] <= Rank[account'[attempt'[b].user].role]
      BY DEF OvertakenAre
    <3>3. \A q \in Requests : request'[q].step = "rotated" => q \in overtaken'
      BY DEF OvertakenAre
    <3> QED
      BY <3>1, <3>2, <3>3 DEF OvertakenAre
  <2>7. AttemptsOK'
    BY DEF AttemptsOK
  <2> QED
    BY <2>1, <2>2, <2>3, <2>4, <2>5, <2>6, <2>7
<1>14. ASSUME NEW r \in Requests, StayLoggedIn(r)
      PROVE  IInv'
  <2> USE <1>14 DEF StayLoggedIn, IInv, Is, End
  <2>1. RequestsOK'
    BY DEF RequestsOK
  <2>2. SessionsOK'
    BY DEF SessionsOK, RequestsOK, Underway, Idle, Done
  <2>3. ShutAreOut'
    BY DEF ShutAreOut
  <2>4. OvertakenAre'
    BY DEF OvertakenAre, NoStalePrivilege
  <2>5. AccountsOK' /\ AttemptsOK' /\ RestOK'
    BY DEF AccountsOK, AttemptsOK, RestOK
  <2> QED
    BY <2>1, <2>2, <2>3, <2>4, <2>5
<1>15. ASSUME NEW r \in Requests, Reject(r)
      PROVE  IInv'
  <2> USE <1>15 DEF Reject, IInv, Is, End, Known
  <2>1. AccountsOK'
    <3>1. CASE account' = account
      BY <3>1 DEF AccountsOK
    <3>2. CASE account' # account
      <4> DEFINE u == request[r].user
      <4>1. u \in Users /\ account[u] \in AccountRow /\ account[u].key <= lastKey[u]
        BY <3>2 DEF AccountsOK
      <4>2. PICK v \in Users : v = u
        BY <4>1
      <4> DEFINE row == [account[v] EXCEPT !.status = "rejected"]
      <4>3. account' = [account EXCEPT ![v] = row]
        BY <3>2, <4>1, <4>2 DEF AccountsOK
      <4>4. row \in AccountRow
        BY <4>1, <4>2, RowTypes
      <4>5. row.key <= lastKey'[v] /\ (row.disabled \/ row.key > 0 => row.role # "none")
        BY <4>1, <4>2 DEF AccountsOK
      <4>6. lastKey' \in [Users -> 0 .. MaxKeys] /\ \A w \in Users : lastKey[w] <= lastKey'[w]
        BY DEF AccountsOK, SettingsAssumption
      <4> QED
        BY <4>3, <4>4, <4>5, <4>6, RowChange
    <3> QED
      BY <3>1, <3>2
  <2>2. RequestsOK'
    BY DEF RequestsOK
  <2>3. ShutAreOut'
    BY DEF ShutAreOut
  <2>4. OvertakenAre'
    <3>1. \A v \in Users : account'[v].role = account[v].role
      BY DEF AccountsOK, AccountRow
    <3>2. \A q \in Requests : request'[q].step = "rotated" => request[q].step = "rotated"
      BY DEF RequestsOK, Underway, Idle, Done
    <3>3. \A b \in Attempts : attempt[b].step \in Verified => attempt[b].user \in Users
      BY DEF AttemptsOK, Logging, Idle, Verified
    <3>4. NoStalePrivilege'
      BY <3>1 DEF OvertakenAre, NoStalePrivilege
    <3> QED
      BY <3>1, <3>2, <3>3, <3>4 DEF OvertakenAre
  <2>5. AttemptsOK' /\ SessionsOK' /\ RestOK'
    BY DEF AttemptsOK, SessionsOK, RestOK
  <2> QED
    BY <2>1, <2>2, <2>3, <2>4, <2>5
<1>16. ASSUME NEW r \in Requests, NEW s \in sessions, BySession(r, s)
      PROVE  IInv'
  <2> USE <1>16 DEF BySession, IInv, Is, Identified
  <2>1. RequestsOK'
    BY DEF RequestsOK, Underway, SessionsOK
  <2>2. RestOK'
    BY DEF RestOK
  <2>3. ShutAreOut'
    <3>1. \A q \in Requests : q # r => request'[q] = request[q]
      BY DEF RequestsOK
    <3>2. ASSUME NEW q \in shut', q # r
          PROVE  /\ request'[q].step \in {"done", "identified"}
                 /\ request'[q].step = "identified" =>
                       request'[q].user \in Users /\ account'[request'[q].user].disabled
      BY <3>1, <3>2 DEF ShutAreOut
    <3>3. ASSUME r \in shut'
          PROVE  /\ request'[r].step \in {"done", "identified"}
                 /\ request'[r].step = "identified" =>
                       request'[r].user \in Users /\ account'[request'[r].user].disabled
      <4>1. r \notin shut
        BY DEF ShutAreOut
      <4> QED
        BY <3>3, <4>1 DEF RequestsOK
    <3> QED
      BY <3>2, <3>3 DEF ShutAreOut
  <2>4. OvertakenAre'
    BY DEF OvertakenAre, NoStalePrivilege
  <2>5. AccountsOK' /\ AttemptsOK' /\ SessionsOK'
    BY DEF AccountsOK, AttemptsOK, SessionsOK
  <2> QED
    BY <2>1, <2>2, <2>3, <2>4, <2>5
<1>17. ASSUME NEW r \in Requests, NEW s \in sessions, Logout(r, s)
      PROVE  IInv'
  <2> USE <1>17 DEF Logout, IInv, Is, End
  <2>1. RequestsOK'
    BY DEF RequestsOK
  <2>2. SessionsOK'
    BY DEF SessionsOK
  <2>3. ShutAreOut'
    BY DEF ShutAreOut
  <2>4. OvertakenAre'
    BY DEF OvertakenAre, NoStalePrivilege, Done
  <2>5. AccountsOK' /\ AttemptsOK' /\ RestOK'
    BY DEF AccountsOK, AttemptsOK, RestOK
  <2> QED
    BY <2>1, <2>2, <2>3, <2>4, <2>5
<1>18. ASSUME NEW r \in Requests, NEW u \in Users, ByKey(r, u)
      PROVE  IInv'
  <2> USE <1>18 DEF ByKey, IInv, Is, Known, Identified
  <2>1. RequestsOK'
    BY DEF RequestsOK, Underway, AccountsOK, AccountRow
  <2>2. RestOK'
    BY DEF RestOK
  <2>3. ShutAreOut'
    <3>1. \A q \in Requests : q # r => request'[q] = request[q]
      BY DEF RequestsOK
    <3>2. ASSUME NEW q \in shut', q # r
          PROVE  /\ request'[q].step \in {"done", "identified"}
                 /\ request'[q].step = "identified" =>
                       request'[q].user \in Users /\ account'[request'[q].user].disabled
      BY <3>1, <3>2 DEF ShutAreOut
    <3>3. ASSUME r \in shut'
          PROVE  /\ request'[r].step \in {"done", "identified"}
                 /\ request'[r].step = "identified" =>
                       request'[r].user \in Users /\ account'[request'[r].user].disabled
      <4>1. r \notin shut
        BY DEF ShutAreOut
      <4> QED
        BY <3>3, <4>1 DEF RequestsOK, Done
    <3> QED
      BY <3>2, <3>3 DEF ShutAreOut
  <2>4. OvertakenAre'
    BY DEF OvertakenAre, NoStalePrivilege, Done
  <2>5. AccountsOK' /\ AttemptsOK' /\ SessionsOK'
    BY DEF AccountsOK, AttemptsOK, SessionsOK
  <2> QED
    BY <2>1, <2>2, <2>3, <2>4, <2>5
<1>19. ASSUME NEW r \in Requests, NEW u \in Users, ByProxy(r, u)
      PROVE  IInv'
  <2> USE <1>19 DEF ByProxy, ProxyRole, IInv, Is, Identified, Known, DefaultRole
  <2>1. RequestsOK'
    BY DEF RequestsOK, Underway, AccountsOK, AccountRow, Roles
  <2>2. RestOK'
    BY DEF RestOK
  <2>3. ShutAreOut'
    <3>1. \A q \in Requests : q # r => request'[q] = request[q]
      BY DEF RequestsOK
    <3>2. ASSUME NEW q \in shut', q # r
          PROVE  /\ request'[q].step \in {"done", "identified"}
                 /\ request'[q].step = "identified" =>
                       request'[q].user \in Users /\ account'[request'[q].user].disabled
      BY <3>1, <3>2 DEF ShutAreOut
    <3>3. ASSUME r \in shut'
          PROVE  /\ request'[r].step \in {"done", "identified"}
                 /\ request'[r].step = "identified" =>
                       request'[r].user \in Users /\ account'[request'[r].user].disabled
      <4>1. r \notin shut
        BY DEF ShutAreOut
      <4> QED
        BY <3>3, <4>1 DEF RequestsOK, Done
    <3> QED
      BY <3>2, <3>3 DEF ShutAreOut
  <2>4. OvertakenAre'
    BY DEF OvertakenAre, NoStalePrivilege, Done
  <2>5. AccountsOK' /\ AttemptsOK' /\ SessionsOK'
    BY DEF AccountsOK, AttemptsOK, SessionsOK
  <2> QED
    BY <2>1, <2>2, <2>3, <2>4, <2>5
<1>20. ASSUME NEW r \in Requests, NEW u \in Users, DeleteUser(r, u)
      PROVE  IInv'
  <2> USE <1>20 DEF DeleteUser, IInv, Admin, Is, Other, Known, End, NoAccount, DropSessions
  <2>1. AccountsOK'
    BY DEF AccountsOK, AccountRow, SettingsAssumption
  <2>2. RequestsOK'
    BY DEF RequestsOK
  <2>3. SessionsOK'
    BY DEF SessionsOK
  <2>4. RestOK'
    BY DEF RestOK
  <2>5. ShutAreOut'
    BY DEF ShutAreOut, Done
  <2>6. OvertakenAre'
    BY DEF OvertakenAre, NoStalePrivilege, Done, Verified
  <2>7. AttemptsOK'
    BY DEF AttemptsOK
  <2> QED
    BY <2>1, <2>2, <2>3, <2>4, <2>5, <2>6, <2>7
<1>21. ASSUME NEW r \in Requests, NEW u \in Users, Disable(r, u)
      PROVE  IInv'
  <2> USE <1>21 DEF Disable, IInv, Admin, Is, Known, End, Other, DropSessions
  <2>1. AccountsOK'
    <3> DEFINE row == [account[u] EXCEPT !.disabled = TRUE]
    <3>1. account[u] \in AccountRow /\ account[u].key <= lastKey[u]
      BY DEF AccountsOK
    <3>2. lastKey' \in [Users -> 0 .. MaxKeys] /\ \A v \in Users : lastKey[v] <= lastKey'[v]
      BY DEF AccountsOK
    <3>3. row \in AccountRow
      BY <3>1, <3>2, RowTypes
    <3>4. row.key <= lastKey'[u] /\ (row.disabled \/ row.key > 0 => row.role # "none")
      BY <3>1, <3>2 DEF AccountRow
    <3>5. account' = [account EXCEPT ![u] = row]
      BY <3>1 DEF AccountsOK
    <3> QED
      BY <3>2, <3>3, <3>4, <3>5, RowChange
  <2>2. RequestsOK'
    BY DEF RequestsOK
  <2>3. SessionsOK'
    BY DEF SessionsOK
  <2>4. RestOK'
    BY DEF RestOK
  <2>5. ShutAreOut'
    BY DEF ShutAreOut
  <2>6. OvertakenAre'
    BY DEF OvertakenAre, NoStalePrivilege, Done
  <2>7. AttemptsOK'
    BY DEF AttemptsOK
  <2> QED
    BY <2>1, <2>2, <2>3, <2>4, <2>5, <2>6, <2>7
<1>22. ASSUME NEW r \in Requests, NEW u \in Users, Enable(r, u)
      PROVE  IInv'
  <2> USE <1>22 DEF Enable, IInv, Admin, Is, Known, End
  <2>1. AccountsOK'
    <3> DEFINE row == [account[u] EXCEPT !.disabled = FALSE]
    <3>1. account[u] \in AccountRow /\ account[u].key <= lastKey[u]
      BY DEF AccountsOK
    <3>2. lastKey' \in [Users -> 0 .. MaxKeys] /\ \A v \in Users : lastKey[v] <= lastKey'[v]
      BY DEF AccountsOK
    <3>3. row \in AccountRow
      BY <3>1, <3>2, RowTypes
    <3>4. row.key <= lastKey'[u] /\ (row.disabled \/ row.key > 0 => row.role # "none")
      BY <3>1, <3>2 DEF AccountRow
    <3>5. account' = [account EXCEPT ![u] = row]
      BY <3>1 DEF AccountsOK
    <3> QED
      BY <3>2, <3>3, <3>4, <3>5, RowChange
  <2>2. RequestsOK'
    BY DEF RequestsOK
  <2>3. RestOK'
    BY DEF RestOK
  <2>4. ShutAreOut'
    BY DEF ShutAreOut, Done
  <2>5. OvertakenAre'
    BY DEF OvertakenAre, NoStalePrivilege, Done
  <2>6. AttemptsOK' /\ SessionsOK'
    BY DEF AttemptsOK, SessionsOK
  <2> QED
    BY <2>1, <2>2, <2>3, <2>4, <2>5, <2>6
<1>23. ASSUME NEW r \in Requests, NEW u \in Users, Unlock(r, u)
      PROVE  IInv'
  <2> USE <1>23 DEF Unlock, IInv, Admin, Is, Known, End
  <2>1. AccountsOK'
    <3> DEFINE row == [account[u] EXCEPT !.locked = FALSE, !.count = 0]
    <3>1. account[u] \in AccountRow /\ account[u].key <= lastKey[u]
      BY DEF AccountsOK
    <3>2. lastKey' \in [Users -> 0 .. MaxKeys] /\ \A v \in Users : lastKey[v] <= lastKey'[v]
      BY DEF AccountsOK
    <3>3. row \in AccountRow
      BY <3>1, <3>2, RowTypes
    <3>4. row.key <= lastKey'[u] /\ (row.disabled \/ row.key > 0 => row.role # "none")
      BY <3>1, <3>2 DEF AccountRow
    <3>5. account' = [account EXCEPT ![u] = row]
      BY <3>1 DEF AccountsOK
    <3> QED
      BY <3>2, <3>3, <3>4, <3>5, RowChange
  <2>2. RequestsOK'
    BY DEF RequestsOK
  <2>3. ShutAreOut'
    BY DEF ShutAreOut, AccountsOK
  <2>4. OvertakenAre'
    <3>1. NoStalePrivilege'
      BY DEF OvertakenAre, NoStalePrivilege, AccountsOK
    <3>2. \A b \in Attempts : attempt'[b].step \in Verified =>
             b \in overtaken' \/ Rank[attempt'[b].role] <= Rank[account'[attempt'[b].user].role]
      BY DEF OvertakenAre, AttemptsOK, Logging, AccountsOK, Idle, Verified
    <3>3. \A q \in Requests : request'[q].step = "rotated" => q \in overtaken'
      BY DEF OvertakenAre, Done
    <3> QED
      BY <3>1, <3>2, <3>3 DEF OvertakenAre
  <2>5. AttemptsOK' /\ SessionsOK' /\ RestOK'
    BY DEF AttemptsOK, SessionsOK, RestOK
  <2> QED
    BY <2>1, <2>2, <2>3, <2>4, <2>5
<1>24. ASSUME NEW r \in Requests, NEW u \in Users, RotateKey(r, u)
      PROVE  IInv'
  <2> USE <1>24 DEF RotateKey, IInv, Admin, Is, Known, CanHaveKey, NewKey, End, DropSessions
  <2>1. AccountsOK'
    BY DEF AccountsOK, AccountRow, SettingsAssumption, Roles
  <2>2. RequestsOK'
    BY DEF RequestsOK
  <2>3. SessionsOK'
    BY DEF SessionsOK
  <2>4. RestOK'
    BY DEF RestOK
  <2>5. ShutAreOut'
    BY DEF ShutAreOut
  <2>6. OvertakenAre'
    BY DEF OvertakenAre, NoStalePrivilege, Done
  <2>7. AttemptsOK'
    BY DEF AttemptsOK
  <2> QED
    BY <2>1, <2>2, <2>3, <2>4, <2>5, <2>6, <2>7
<1>25. ASSUME NEW r \in Requests, NEW u \in Users, Approve(r, u)
      PROVE  IInv'
  <2> USE <1>25 DEF Approve, IInv, Admin, Is, Known, End
  <2>1. AccountsOK'
    BY DEF AccountsOK, AccountRow
  <2>2. RequestsOK'
    BY DEF RequestsOK
  <2>3. ShutAreOut'
    BY DEF ShutAreOut
  <2>4. OvertakenAre'
    BY DEF OvertakenAre, NoStalePrivilege, Done
  <2>5. AttemptsOK' /\ SessionsOK' /\ RestOK'
    BY DEF AttemptsOK, SessionsOK, RestOK
  <2> QED
    BY <2>1, <2>2, <2>3, <2>4, <2>5
<1>26. ASSUME NEW r \in Requests, NEW u \in Users, SeePending(r, u)
      PROVE  IInv'
  <2> USE <1>26 DEF SeePending, IInv, Admin, Is, Known
  <2>1. RequestsOK'
    BY DEF RequestsOK, Underway, Roles
  <2>2. ShutAreOut'
    BY DEF ShutAreOut
  <2>3. OvertakenAre'
    BY DEF OvertakenAre, NoStalePrivilege
  <2>4. AccountsOK' /\ AttemptsOK' /\ SessionsOK' /\ RestOK'
    BY DEF AccountsOK, AttemptsOK, SessionsOK, RestOK
  <2> QED
    BY <2>1, <2>2, <2>3, <2>4
<1>27. ASSUME NEW r \in Requests, NEW u \in Users, NEW role \in Roles, CreateUser(r, u, role)
      PROVE  IInv'
  <2> USE <1>27 DEF CreateUser, IInv, Admin, Is, CanHaveKey, NewKey, End, Known, CanRegister,
                    Registered, NewAccount, NoAccount
  <2>1. AccountsOK'
    <3> DEFINE row == IF Known(u) THEN [account[u] EXCEPT !.key = lastKey[u] + 1]
                     ELSE NewAccount(role, "active", lastKey[u] + 1)
    <3>1. account[u] \in AccountRow /\ account[u].key <= lastKey[u]
      BY DEF AccountsOK
    <3>2. /\ lastKey' \in [Users -> 0 .. MaxKeys] /\ lastKey'[u] = lastKey[u] + 1
          /\ \A v \in Users : lastKey[v] <= lastKey'[v]
          /\ lastKey[u] + 1 \in 0 .. MaxKeys
      BY KeyChange
    <3>3. row \in AccountRow
      BY <3>1, <3>2, RowTypes
    <3>4. row.key <= lastKey'[u] /\ (row.disabled \/ row.key > 0 => row.role # "none")
      BY <3>1, <3>2 DEF Roles
    <3>5. account' = [account EXCEPT ![u] = row]
      BY <3>1 DEF AccountsOK
    <3> QED
      BY <3>2, <3>3, <3>4, <3>5, RowChange
  <2>2. RequestsOK'
    BY DEF RequestsOK
  <2>3. ShutAreOut'
    BY DEF ShutAreOut, AccountsOK
  <2>4. OvertakenAre'
    <3>1. NoStalePrivilege'
      <4>1. \A v \in Users : Rank[account[v].role] <= Rank[account'[v].role]
        BY DEF Rank, AccountsOK, AccountRow, Roles
      <4> QED
        BY <2>1, <4>1, HigherRoles DEF OvertakenAre
    <3>2. \A b \in Attempts : attempt'[b].step \in Verified =>
             b \in overtaken' \/ Rank[attempt'[b].role] <= Rank[account'[attempt'[b].user].role]
      BY DEF OvertakenAre, Rank, AttemptsOK, Logging, Idle, Roles, Verified
    <3>3. \A q \in Requests : request'[q].step = "rotated" => q \in overtaken'
      BY DEF OvertakenAre, Done
    <3> QED
      BY <3>1, <3>2, <3>3 DEF OvertakenAre
  <2>5. AttemptsOK' /\ SessionsOK' /\ RestOK'
    BY DEF AttemptsOK, SessionsOK, RestOK
  <2> QED
    BY <2>1, <2>2, <2>3, <2>4, <2>5
<1>28. ASSUME NEW r \in Requests, NEW u \in Users, NEW role \in Roles, ChangeRole(r, u, role)
      PROVE  IInv'
  <2> USE <1>28 DEF ChangeRole, IInv, Admin, Is, Other, Known, End, CanHaveKey, NewKey,
                    DropSessions
  <2>1. AccountsOK'
    <3>1. account[u] \in AccountRow /\ account[u].key <= lastKey[u]
      BY DEF AccountsOK
    <3>2. CASE role = "admin" /\ account[u].key = 0
      <4> DEFINE row == [account[u] EXCEPT !.role = role, !.key = lastKey[u] + 1]
      <4>1. /\ lastKey' \in [Users -> 0 .. MaxKeys] /\ lastKey'[u] = lastKey[u] + 1
            /\ \A v \in Users : lastKey[v] <= lastKey'[v]
            /\ lastKey[u] + 1 \in 0 .. MaxKeys
        BY <3>2, KeyChange
      <4>2. row \in AccountRow
        BY <3>1, <4>1, RowTypes
      <4>3. row.key <= lastKey'[u] /\ row.role # "none"
        BY <3>1, <3>2, <4>1 DEF AccountRow
      <4>4. account' = [account EXCEPT ![u] = row]
        BY <3>2 DEF AccountsOK
      <4> QED
        BY <4>1, <4>2, <4>3, <4>4, RowChange
    <3>3. CASE ~(role = "admin" /\ account[u].key = 0)
      <4> DEFINE row == [account[u] EXCEPT !.role = role, !.key = account[u].key]
      <4>1. lastKey' = lastKey /\ lastKey \in [Users -> 0 .. MaxKeys]
        BY <3>3 DEF AccountsOK
      <4>2. row \in AccountRow
        <5>1. account[u].key \in 0 .. MaxKeys
          BY <3>1 DEF AccountRow
        <5> QED
          BY <3>1, <5>1, RowTypes
      <4>3. row.key <= lastKey'[u] /\ row.role # "none"
        BY <3>1, <4>1 DEF Roles
      <4>4. account' = [account EXCEPT ![u] = row]
        BY <3>3 DEF AccountsOK
      <4>5. \A v \in Users : lastKey[v] <= lastKey'[v]
        BY <4>1 DEF SettingsAssumption
      <4> QED
        BY <4>1, <4>2, <4>3, <4>4, <4>5, RowChange
    <3> QED
      BY <3>2, <3>3
  <2>2. RequestsOK'
    BY DEF RequestsOK
  <2>3. SessionsOK'
    BY DEF SessionsOK
  <2>4. RestOK'
    BY DEF RestOK
  <2>5. ShutAreOut'
    BY DEF ShutAreOut, AccountsOK
  <2>6. OvertakenAre'
    BY DEF OvertakenAre, NoStalePrivilege, AttemptsOK, Logging, AccountsOK, Idle, Done, Verified
  <2>7. AttemptsOK'
    BY DEF AttemptsOK
  <2> QED
    BY <2>1, <2>2, <2>3, <2>4, <2>5, <2>6, <2>7
<1>29. ASSUME NEW u \in Users, Track(u)
      PROVE  IInv'
  <2> USE <1>29 DEF Track, IInv, Known, NewAccount, NoAccount, DefaultRole
  <2>1. AccountsOK'
    <3>1. CASE Known(u)
      BY <3>1 DEF AccountsOK
    <3>2. CASE ~Known(u)
      <4> DEFINE row == NewAccount(DefaultRole, "active", 0)
      <4>1. row \in AccountRow
        BY RowTypes DEF SettingsAssumption, Roles
      <4>2. row.key = 0 /\ row.role # "none" /\ account' = [account EXCEPT ![u] = row]
        BY <3>2
      <4>3. /\ lastKey' \in [Users -> 0 .. MaxKeys] /\ \A w \in Users : lastKey[w] <= lastKey'[w]
            /\ 0 <= lastKey'[u]
        BY DEF AccountsOK, SettingsAssumption
      <4> QED
        BY <4>1, <4>2, <4>3, RowChange
    <3> QED
      BY <3>1, <3>2
  <2>2. RestOK'
    BY DEF RestOK
  <2>3. ShutAreOut'
    BY DEF ShutAreOut, AccountsOK
  <2>4. OvertakenAre'
    <3>1. NoStalePrivilege'
      <4>1. \A v \in Users : Rank[account[v].role] <= Rank[account'[v].role]
        BY DEF Rank, AccountsOK, AccountRow, Roles
      <4> QED
        BY <2>1, <4>1, HigherRoles DEF OvertakenAre
    <3>2. \A b \in Attempts : attempt'[b].step \in Verified =>
             b \in overtaken' \/ Rank[attempt'[b].role] <= Rank[account'[attempt'[b].user].role]
      BY DEF OvertakenAre, Rank, AttemptsOK, Logging, Idle, Roles, Verified
    <3>3. \A q \in Requests : request'[q].step = "rotated" => q \in overtaken'
      BY DEF OvertakenAre
    <3> QED
      BY <3>1, <3>2, <3>3 DEF OvertakenAre
  <2>5. AttemptsOK' /\ RequestsOK' /\ SessionsOK'
    BY DEF AttemptsOK, RequestsOK, SessionsOK
  <2> QED
    BY <2>1, <2>2, <2>3, <2>4, <2>5
<1> QED
  BY <1>1, <1>2, <1>3, <1>4, <1>5, <1>6, <1>7, <1>8, <1>9, <1>10, <1>11, <1>12, <1>13, <1>14,
                                        <1>15, <1>16, <1>17, <1>18, <1>19, <1>20, <1>21, <1>22,
                                        <1>23, <1>24, <1>25, <1>26, <1>27, <1>28, <1>29 DEF Next

(* Stuttering does too.                                                    *)
LEMMA StutterInv ==
    ASSUME IInv, UNCHANGED vars
    PROVE  IInv'
  BY DEF IInv, vars, AccountsOK, AttemptsOK, RequestsOK, SessionsOK, RestOK, ShutAreOut,
         OvertakenAre,
         NoStalePrivilege

(* The inductive invariant: requests that saw a disabled account stay out, *)
(* and whoever opened a session with too great a role was overtaken.       *)
THEOREM Invariance ==
    ASSUME SettingsAssumption
    PROVE  Spec => []IInv
<1>1. Init => IInv
  BY InitInv
<1>2. IInv /\ [Next]_vars => IInv'
  BY StepInv, StutterInv
<1> QED
  BY <1>1, <1>2, PTL DEF Spec

-----------------------------------------------------------------------------
(* Every variable stays in its range.                                      *)
THEOREM TypeCorrect ==
    ASSUME SettingsAssumption
    PROVE  Spec => []TypeOK
<1>1. IInv => TypeOK
  BY DEF IInv, AccountsOK, SessionsOK, RestOK, TypeOK
<1> QED
  BY <1>1, Invariance, PTL

(* Nobody gets in whose account was disabled since the request came.       *)
THEOREM DisabledStayOut ==
    ASSUME SettingsAssumption
    PROVE  Spec => []DisabledIsOut
<1>1. IInv => DisabledIsOut
  BY DEF IInv, ShutAreOut, DisabledIsOut, Is
<1> QED
  BY <1>1, Invariance, PTL

(* A session with more than its account's role is of one who was overtaken.*)
THEOREM PrivilegesAreCurrent ==
    ASSUME SettingsAssumption
    PROVE  Spec => []NoStalePrivilege
<1>1. IInv => NoStalePrivilege
  BY DEF IInv, OvertakenAre
<1> QED
  BY <1>1, Invariance, PTL

(* What takes the last enabled admin away takes the role, or the account.  *)
LEMMA AdminStays ==
    ASSUME SettingsAssumption, IInv, Next
    PROVE  EnabledAdmins # {} /\ EnabledAdmins' = {} =>
               \A u \in EnabledAdmins : account'[u].role # "admin"
<1>1. ASSUME NEW a \in Attempts, NEW u \in Users, NEW key \in 0 .. MaxKeys, Login(a, u, key),
             NEW w \in EnabledAdmins, account'[w].role = "admin"
      PROVE  w \in EnabledAdmins'
  BY <1>1 DEF Login, EnabledAdmins
<1>2. ASSUME NEW a \in Attempts, NEW u \in Users, Register(a, u),
             NEW w \in EnabledAdmins, account'[w].role = "admin"
      PROVE  w \in EnabledAdmins'
  BY <1>2 DEF Register, EnabledAdmins, Registered, NewAccount, NoAccount
<1>3. ASSUME NEW a \in Attempts, RecordFailure(a),
             NEW w \in EnabledAdmins, account'[w].role = "admin"
      PROVE  w \in EnabledAdmins'
  <2>1. account'[w].disabled = account[w].disabled
    BY <1>3 DEF RecordFailure, EnabledAdmins, IInv, AccountsOK, AccountRow
  <2> QED
    BY <1>3, <2>1 DEF EnabledAdmins
<1>4. ASSUME NEW a \in Attempts, AnnounceLock(a),
             NEW w \in EnabledAdmins, account'[w].role = "admin"
      PROVE  w \in EnabledAdmins'
  BY <1>4 DEF AnnounceLock, EnabledAdmins
<1>5. ASSUME NEW a \in Attempts, Settle(a),
             NEW w \in EnabledAdmins, account'[w].role = "admin"
      PROVE  w \in EnabledAdmins'
  BY <1>5 DEF Settle, EnabledAdmins
<1>6. ASSUME NEW a \in Attempts, ResetFailures(a),
             NEW w \in EnabledAdmins, account'[w].role = "admin"
      PROVE  w \in EnabledAdmins'
  BY <1>6 DEF ResetFailures, EnabledAdmins
<1>7. ASSUME NEW a \in Attempts, CheckStatus(a),
             NEW w \in EnabledAdmins, account'[w].role = "admin"
      PROVE  w \in EnabledAdmins'
  BY <1>7 DEF CheckStatus, EnabledAdmins
<1>8. ASSUME NEW a \in Attempts, OpenSession(a),
             NEW w \in EnabledAdmins, account'[w].role = "admin"
      PROVE  w \in EnabledAdmins'
  BY <1>8 DEF OpenSession, EnabledAdmins
<1>9. ASSUME NEW r \in Requests, ByAdminKey(r),
             NEW w \in EnabledAdmins, account'[w].role = "admin"
      PROVE  w \in EnabledAdmins'
  BY <1>9 DEF ByAdminKey, EnabledAdmins
<1>10. ASSUME NEW r \in Requests, CheckRow(r),
             NEW w \in EnabledAdmins, account'[w].role = "admin"
      PROVE  w \in EnabledAdmins'
  BY <1>10 DEF CheckRow, EnabledAdmins
<1>11. ASSUME NEW r \in Requests, CheckApproval(r),
             NEW w \in EnabledAdmins, account'[w].role = "admin"
      PROVE  w \in EnabledAdmins'
  BY <1>11 DEF CheckApproval, EnabledAdmins
<1>12. ASSUME NEW r \in Requests, Serve(r),
             NEW w \in EnabledAdmins, account'[w].role = "admin"
      PROVE  w \in EnabledAdmins'
  BY <1>12 DEF Serve, EnabledAdmins
<1>13. ASSUME NEW r \in Requests, RotateOwn(r),
             NEW w \in EnabledAdmins, account'[w].role = "admin"
      PROVE  w \in EnabledAdmins'
  BY <1>13 DEF RotateOwn, EnabledAdmins
<1>14. ASSUME NEW r \in Requests, StayLoggedIn(r),
             NEW w \in EnabledAdmins, account'[w].role = "admin"
      PROVE  w \in EnabledAdmins'
  BY <1>14 DEF StayLoggedIn, EnabledAdmins
<1>15. ASSUME NEW r \in Requests, Reject(r),
             NEW w \in EnabledAdmins, account'[w].role = "admin"
      PROVE  w \in EnabledAdmins'
  BY <1>15 DEF Reject, EnabledAdmins
<1>16. ASSUME NEW r \in Requests, NEW s \in sessions, BySession(r, s),
             NEW w \in EnabledAdmins, account'[w].role = "admin"
      PROVE  w \in EnabledAdmins'
  BY <1>16 DEF BySession, EnabledAdmins
<1>17. ASSUME NEW r \in Requests, NEW s \in sessions, Logout(r, s),
             NEW w \in EnabledAdmins, account'[w].role = "admin"
      PROVE  w \in EnabledAdmins'
  BY <1>17 DEF Logout, EnabledAdmins
<1>18. ASSUME NEW r \in Requests, NEW u \in Users, ByKey(r, u),
             NEW w \in EnabledAdmins, account'[w].role = "admin"
      PROVE  w \in EnabledAdmins'
  BY <1>18 DEF ByKey, EnabledAdmins
<1>19. ASSUME NEW r \in Requests, NEW u \in Users, ByProxy(r, u),
             NEW w \in EnabledAdmins, account'[w].role = "admin"
      PROVE  w \in EnabledAdmins'
  BY <1>19 DEF ByProxy, EnabledAdmins
<1>20. ASSUME NEW r \in Requests, NEW u \in Users, DeleteUser(r, u),
             NEW w \in EnabledAdmins, account'[w].role = "admin"
      PROVE  w \in EnabledAdmins'
  BY <1>20 DEF DeleteUser, EnabledAdmins, NoAccount
<1>21. ASSUME NEW r \in Requests, NEW u \in Users, Disable(r, u)
      PROVE  EnabledAdmins # {} => EnabledAdmins' # {}
  <2>1. /\ account' = [account EXCEPT ![u].disabled = TRUE] /\ account \in [Users -> AccountRow]
        /\ ~account[u].disabled /\ account[u].role = "admin" => EnabledAdmins \ {u} # {}
    BY <1>21 DEF Disable, OthersRemain, IInv, AccountsOK
  <2>2. \A w \in Users : w # u => account'[w] = account[w]
    BY <2>1
  <2>3. \A w \in EnabledAdmins : w # u => w \in EnabledAdmins'
    BY <2>2 DEF EnabledAdmins
  <2>4. u \in EnabledAdmins => EnabledAdmins \ {u} # {}
    BY <2>1 DEF EnabledAdmins
  <2> QED
    BY <2>3, <2>4
<1>22. ASSUME NEW r \in Requests, NEW u \in Users, Enable(r, u),
             NEW w \in EnabledAdmins, account'[w].role = "admin"
      PROVE  w \in EnabledAdmins'
  BY <1>22 DEF Enable, EnabledAdmins
<1>23. ASSUME NEW r \in Requests, NEW u \in Users, Unlock(r, u),
             NEW w \in EnabledAdmins, account'[w].role = "admin"
      PROVE  w \in EnabledAdmins'
  BY <1>23 DEF Unlock, EnabledAdmins, IInv, AccountsOK
<1>24. ASSUME NEW r \in Requests, NEW u \in Users, RotateKey(r, u),
             NEW w \in EnabledAdmins, account'[w].role = "admin"
      PROVE  w \in EnabledAdmins'
  BY <1>24 DEF RotateKey, EnabledAdmins
<1>25. ASSUME NEW r \in Requests, NEW u \in Users, Approve(r, u),
             NEW w \in EnabledAdmins, account'[w].role = "admin"
      PROVE  w \in EnabledAdmins'
  BY <1>25 DEF Approve, EnabledAdmins
<1>26. ASSUME NEW r \in Requests, NEW u \in Users, SeePending(r, u),
             NEW w \in EnabledAdmins, account'[w].role = "admin"
      PROVE  w \in EnabledAdmins'
  BY <1>26 DEF SeePending, EnabledAdmins
<1>27. ASSUME NEW r \in Requests, NEW u \in Users, NEW role \in Roles, CreateUser(r, u, role),
             NEW w \in EnabledAdmins, account'[w].role = "admin"
      PROVE  w \in EnabledAdmins'
  BY <1>27 DEF CreateUser, EnabledAdmins, Registered, NewAccount, NoAccount
<1>28. ASSUME NEW r \in Requests, NEW u \in Users, NEW role \in Roles, ChangeRole(r, u, role),
             NEW w \in EnabledAdmins, account'[w].role = "admin"
      PROVE  w \in EnabledAdmins'
  BY <1>28 DEF ChangeRole, EnabledAdmins, IInv, AccountsOK
<1>29. ASSUME NEW u \in Users, Track(u),
             NEW w \in EnabledAdmins, account'[w].role = "admin"
      PROVE  w \in EnabledAdmins'
  BY <1>29 DEF Track, EnabledAdmins, NewAccount, NoAccount
<1> QED
  BY <1>1, <1>2, <1>3, <1>4, <1>5, <1>6, <1>7, <1>8, <1>9, <1>10, <1>11, <1>12, <1>13, <1>14,
                                        <1>15, <1>16, <1>17, <1>18, <1>19, <1>20, <1>21, <1>22,
                                        <1>23, <1>24, <1>25, <1>26, <1>27, <1>28, <1>29 DEF Next

(* Admins who disable each other leave one of them.                        *)
THEOREM AdminsRemain ==
    ASSUME SettingsAssumption
    PROVE  Spec => AdminsReachable
<1>1. IInv /\ [Next]_vars =>
          [EnabledAdmins # {} /\ EnabledAdmins' = {} =>
               \A u \in EnabledAdmins : account'[u].role # "admin"]_vars
  BY AdminStays
<1> QED
  BY <1>1, Invariance, PTL DEF Spec, AdminsReachable

-----------------------------------------------------------------------------
(* Whoever locked an account and has yet to say so.                        *)
Announcing(u) == {a \in Attempts : At(a, "locking") /\ attempt[a].user = u}

LocksOK == locks \in [Users -> Nat] /\ lockRows \in [Users -> Nat]

(* Only a failed login locks, and only its announcement is an announcement.*)
LEMMA OthersDoNotLock ==
    ASSUME IInv, Next,
           ~ \E a \in Attempts : RecordFailure(a) \/ AnnounceLock(a)
    PROVE  /\ UNCHANGED <<locks, lockRows>>
           /\ \A a \in Attempts : /\ At(a, "locking")' <=> At(a, "locking")
                                  /\ At(a, "locking") => attempt'[a].user = attempt[a].user
<1> DEFINE Quiet == /\ UNCHANGED <<locks, lockRows>>
                    /\ \A a \in Attempts : /\ At(a, "locking")' <=> At(a, "locking")
                                           /\ At(a, "locking") => attempt'[a].user = attempt[a].user
<1>1. ASSUME NEW b \in Attempts, NEW u \in Users, NEW key \in 0 .. MaxKeys, Login(b, u, key)
      PROVE  Quiet
  BY <1>1 DEF Login, At, Go, AttemptsOK, Logging, Idle, IInv
<1>2. ASSUME NEW b \in Attempts, NEW u \in Users, Register(b, u)
      PROVE  Quiet
  BY <1>2 DEF Register, At, Go, AttemptsOK, Logging, Idle, IInv
<1>3. ASSUME NEW b \in Attempts, Settle(b)
      PROVE  Quiet
  BY <1>3 DEF Settle, At, Go, AttemptsOK, Logging, Idle, IInv
<1>4. ASSUME NEW b \in Attempts, ResetFailures(b)
      PROVE  Quiet
  BY <1>4 DEF ResetFailures, At, Go, AttemptsOK, Logging, Idle, IInv
<1>5. ASSUME NEW b \in Attempts, CheckStatus(b)
      PROVE  Quiet
  BY <1>5 DEF CheckStatus, At, Go, AttemptsOK, Logging, Idle, IInv
<1>6. ASSUME NEW b \in Attempts, OpenSession(b)
      PROVE  Quiet
  BY <1>6 DEF OpenSession, At, Go, AttemptsOK, Logging, Idle, IInv
<1>7. ASSUME NEW r \in Requests, ByAdminKey(r)
      PROVE  Quiet
  BY <1>7 DEF ByAdminKey, At
<1>8. ASSUME NEW r \in Requests, CheckRow(r)
      PROVE  Quiet
  BY <1>8 DEF CheckRow, At
<1>9. ASSUME NEW r \in Requests, CheckApproval(r)
      PROVE  Quiet
  BY <1>9 DEF CheckApproval, At
<1>10. ASSUME NEW r \in Requests, Serve(r)
      PROVE  Quiet
  BY <1>10 DEF Serve, At
<1>11. ASSUME NEW r \in Requests, RotateOwn(r)
      PROVE  Quiet
  BY <1>11 DEF RotateOwn, At
<1>12. ASSUME NEW r \in Requests, StayLoggedIn(r)
      PROVE  Quiet
  BY <1>12 DEF StayLoggedIn, At
<1>13. ASSUME NEW r \in Requests, Reject(r)
      PROVE  Quiet
  BY <1>13 DEF Reject, At
<1>14. ASSUME NEW r \in Requests, NEW s \in sessions, BySession(r, s)
      PROVE  Quiet
  BY <1>14 DEF BySession, At
<1>15. ASSUME NEW r \in Requests, NEW s \in sessions, Logout(r, s)
      PROVE  Quiet
  BY <1>15 DEF Logout, At
<1>16. ASSUME NEW r \in Requests, NEW u \in Users, ByKey(r, u)
      PROVE  Quiet
  BY <1>16 DEF ByKey, At
<1>17. ASSUME NEW r \in Requests, NEW u \in Users, ByProxy(r, u)
      PROVE  Quiet
  BY <1>17 DEF ByProxy, At
<1>18. ASSUME NEW r \in Requests, NEW u \in Users, DeleteUser(r, u)
      PROVE  Quiet
  BY <1>18 DEF DeleteUser, At
<1>19. ASSUME NEW r \in Requests, NEW u \in Users, Disable(r, u)
      PROVE  Quiet
  BY <1>19 DEF Disable, At
<1>20. ASSUME NEW r \in Requests, NEW u \in Users, Enable(r, u)
      PROVE  Quiet
  BY <1>20 DEF Enable, At
<1>21. ASSUME NEW r \in Requests, NEW u \in Users, Unlock(r, u)
      PROVE  Quiet
  BY <1>21 DEF Unlock, At
<1>22. ASSUME NEW r \in Requests, NEW u \in Users, RotateKey(r, u)
      PROVE  Quiet
  BY <1>22 DEF RotateKey, At
<1>23. ASSUME NEW r \in Requests, NEW u \in Users, Approve(r, u)
      PROVE  Quiet
  BY <1>23 DEF Approve, At
<1>24. ASSUME NEW r \in Requests, NEW u \in Users, SeePending(r, u)
      PROVE  Quiet
  BY <1>24 DEF SeePending, At
<1>25. ASSUME NEW r \in Requests, NEW u \in Users, NEW role \in Roles, CreateUser(r, u, role)
      PROVE  Quiet
  BY <1>25 DEF CreateUser, At
<1>26. ASSUME NEW r \in Requests, NEW u \in Users, NEW role \in Roles, ChangeRole(r, u, role)
      PROVE  Quiet
  BY <1>26 DEF ChangeRole, At
<1>27. ASSUME NEW u \in Users, Track(u)
      PROVE  Quiet
  BY <1>27 DEF Track, At
<1> HIDE DEF Quiet
<1>q. Quiet
  BY <1>1, <1>2, <1>3, <1>4, <1>5, <1>6, <1>7, <1>8, <1>9, <1>10, <1>11, <1>12, <1>13, <1>14,
                                        <1>15, <1>16, <1>17, <1>18, <1>19, <1>20, <1>21, <1>22,
                                        <1>23, <1>24, <1>25, <1>26, <1>27 DEF Next
<1> QED
  BY <1>q DEF Quiet

(* Overlapping failed logins of one account lock it, and say so, once.     *)
LEMMA LockStep ==
    ASSUME IsFiniteSet(Attempts), IInv, LocksOK, OneRowPerLock, Next
    PROVE  LocksOK' /\ OneRowPerLock'
<1>1. \A u : IsFiniteSet(Announcing(u)) /\ Cardinality(Announcing(u)) \in Nat
  <2>1. \A u : Announcing(u) \subseteq Attempts
    BY DEF Announcing
  <2> QED
    BY <2>1, FS_Subset, FS_CardinalityType
<1>2. \A u \in Users : locks[u] = lockRows[u] + Cardinality(Announcing(u))
  BY DEF OneRowPerLock, Announcing
<1>3. SUFFICES LocksOK' /\ \A u \in Users : locks'[u] = lockRows'[u] + Cardinality(Announcing(u)')
  BY DEF OneRowPerLock, Announcing
<1>4. ASSUME NEW a \in Attempts, RecordFailure(a)
      PROVE  LocksOK' /\ \A u \in Users : locks'[u] = lockRows'[u] + Cardinality(Announcing(u)')
  <2>1. attempt[a].user \in Users /\ attempt[a].step = "failed"
    BY <1>4 DEF RecordFailure, At, IInv, AttemptsOK, Logging, Idle
  <2>2. PICK v \in Users : v = attempt[a].user
    BY <2>1
  <2>3. /\ \A b \in Attempts : b # a => attempt'[b] = attempt[b]
        /\ attempt'[a].user = v /\ lockRows' = lockRows
        /\ a \notin Announcing(v)
    BY <1>4, <2>1, <2>2 DEF RecordFailure, Go, At, IInv, AttemptsOK, Logging, Idle, Announcing
  <2>4. \A u \in Users : u # v => Announcing(u)' = Announcing(u)
    BY <2>2, <2>3 DEF Announcing, At
  <2>5. \/ attempt'[a].step = "locking" /\ locks' = [locks EXCEPT ![v] = @ + 1]
        \/ attempt'[a].step = "done" /\ locks' = locks
    BY <1>4, <2>2 DEF RecordFailure, Go, IInv, AttemptsOK
  <2>6. CASE attempt'[a].step = "locking" /\ locks' = [locks EXCEPT ![v] = @ + 1]
    <3>1. Announcing(v)' = Announcing(v) \union {a}
      BY <2>2, <2>3, <2>6 DEF Announcing, At
    <3>2. Cardinality(Announcing(v)') = Cardinality(Announcing(v)) + 1
      BY <1>1, <2>3, <3>1, FS_AddElement
    <3> QED
      BY <1>1, <1>2, <2>3, <2>4, <2>6, <3>2 DEF LocksOK
  <2>7. CASE attempt'[a].step = "done" /\ locks' = locks
    <3>1. Announcing(v)' = Announcing(v)
      BY <2>2, <2>3, <2>7 DEF Announcing, At
    <3> QED
      BY <1>2, <2>3, <2>4, <2>7, <3>1 DEF LocksOK
  <2> QED
    BY <2>5, <2>6, <2>7
<1>5. ASSUME NEW a \in Attempts, AnnounceLock(a)
      PROVE  LocksOK' /\ \A u \in Users : locks'[u] = lockRows'[u] + Cardinality(Announcing(u)')
  <2>1. attempt[a].user \in Users /\ attempt[a].step = "locking"
    BY <1>5 DEF AnnounceLock, At, IInv, AttemptsOK, Logging, Idle
  <2>2. PICK v \in Users : v = attempt[a].user
    BY <2>1
  <2>3. /\ \A b \in Attempts : b # a => attempt'[b] = attempt[b]
        /\ attempt'[a].step = "done" /\ locks' = locks
        /\ lockRows' = [lockRows EXCEPT ![v] = @ + 1]
        /\ a \in Announcing(v)
    BY <1>5, <2>1, <2>2 DEF AnnounceLock, Go, At, IInv, AttemptsOK, Announcing
  <2>4. \A u \in Users : u # v => Announcing(u)' = Announcing(u)
    BY <2>2, <2>3 DEF Announcing, At
  <2>5. Announcing(v)' = Announcing(v) \ {a}
    BY <2>3 DEF Announcing, At
  <2>6. Cardinality(Announcing(v)') = Cardinality(Announcing(v)) - 1
    BY <1>1, <2>3, <2>5, FS_RemoveElement
  <2> QED
    BY <1>1, <1>2, <2>3, <2>4, <2>6 DEF LocksOK
<1>6. CASE ~ \E a \in Attempts : RecordFailure(a) \/ AnnounceLock(a)
  <2>1. \A u \in Users : Announcing(u)' = Announcing(u)
    BY <1>6, OthersDoNotLock DEF Announcing
  <2> QED
    BY <1>2, <1>6, <2>1, OthersDoNotLock DEF LocksOK
<1> QED
  BY <1>4, <1>5, <1>6

(* Of failed logins that overlap one announces each lock.                  *)
THEOREM LocksAreAnnounced ==
    ASSUME SettingsAssumption, IsFiniteSet(Attempts)
    PROVE  Spec => []OneRowPerLock
<1>1. Init => LocksOK /\ OneRowPerLock
  <2>1. ASSUME Init PROVE \A u \in Users : {a \in Attempts : At(a, "locking") /\ attempt[a].user = u} = {}
    BY <2>1 DEF Init, At, Idle
  <2>2. ASSUME Init PROVE LocksOK /\ \A u \in Users : locks[u] = 0 /\ lockRows[u] = 0
    BY <2>2 DEF Init, LocksOK
  <2>3. Cardinality({}) = 0
    BY FS_EmptySet
  <2>4. ASSUME Init PROVE OneRowPerLock
    <3>1. ASSUME NEW u \in Users
          PROVE  locks[u] = lockRows[u]
                   + Cardinality({a \in Attempts : At(a, "locking") /\ attempt[a].user = u})
      <4>1. {a \in Attempts : At(a, "locking") /\ attempt[a].user = u} = {}
        BY <2>1, <2>4
      <4> QED
        BY <2>2, <2>3, <2>4, <4>1
    <3> QED
      BY <3>1 DEF OneRowPerLock
  <2> QED
    BY <2>2, <2>4
<1>2. IInv /\ LocksOK /\ OneRowPerLock /\ [Next]_vars => LocksOK' /\ OneRowPerLock'
  <2>1. IInv /\ LocksOK /\ OneRowPerLock /\ UNCHANGED vars => LocksOK' /\ OneRowPerLock'
    BY DEF vars, LocksOK, OneRowPerLock, At
  <2> QED
    BY <2>1, LockStep
<1> QED
  BY <1>1, <1>2, Invariance, PTL DEF Spec

(* Whatever requests, logins and changes of the account interleave, nobody *)
(* gets in who is out, or with more than the account's role, unnoticed,    *)
(* and overlapping failed logins announce a lock once.                     *)
THEOREM AccessStaysCurrent ==
    ASSUME SettingsAssumption, IsFiniteSet(Attempts)
    PROVE  Spec => []AccessIsCurrent
<1>1. DisabledIsOut /\ NoStalePrivilege /\ OneRowPerLock => AccessIsCurrent
  BY DEF AccessIsCurrent
<1> QED
  BY <1>1, DisabledStayOut, PrivilegesAreCurrent, LocksAreAnnounced, PTL

----------------------------------------------------------------------------
(* The migrations. *)

PastSchema == {"secret", "url", "recompute", "missing", "backfill", "pending", "restore", "axis",
               "labelled", "classes", "up"}
PastHistory == {"pending", "restore", "axis", "labelled", "classes", "up"}

DatabaseTypes ==
    /\ M!TypeOK /\ column \in BOOLEAN
    /\ settings \subseteq {M!Old(k) : k \in M!Renamed} \union {M!New(k) : k \in M!Renamed}
    /\ taken \subseteq {Bootstrap} \union {M!New(k) : k \in M!Renamed}
    /\ mirrored \subseteq Jobs /\ missed \subseteq Jobs

(* Nobody is granted anything, and no setting copied, but once; what an    *)
(* admin took had been given before.                                       *)
GivenOnce ==
    /\ pc \in PastSchema => column
    /\ pc \in PastSchema \ {"secret"} => "secret" \in applied
    /\ pc \in PastSchema \ {"secret", "url"} => "url" \in applied
    /\ Bootstrap \in taken => column
    /\ \A k \in M!Renamed : M!New(k) \in taken => k \in applied

(* A job that is not completed has left nothing behind.                    *)
NothingYet ==
    \A j \in Jobs : result[j] = "none" => history[j] = M!NoRows /\ j \notin mirrored

(* The rows an old build mirrored an override into still say so.           *)
MirroredIsPending == \A j \in mirrored : j \in overridden /\ history[j].class = "override"

(* Each loop still has to visit what is left to do, or could not read it.  *)
Unvisited(j) == j \in todo \union deferred \/ result[j] = "malformed"

LoopsVisitAll ==
    /\ pc = "backfill" => \A j \in Jobs : M!Readable(j) /\ history[j] = M!NoRows => j \in todo
    /\ pc = "restore" => \A j \in mirrored : Unvisited(j)
    /\ pc = "classes" => \A j \in Jobs :
         /\ history[j].class = "label" /\ result[j] # "none" => Unvisited(j)
         /\ j \in todo => history[j].class = "label"

HistoryIsThere ==
    pc \in PastHistory => \A j \in Jobs : M!Readable(j) /\ history[j] = M!NoRows => j \in missed

DatabaseInv ==
    /\ DatabaseTypes /\ GivenOnce /\ NothingYet /\ MirroredIsPending /\ LoopsVisitAll
    /\ HistoryIsThere /\ M!DoneIsDone /\ M!TakenStaysTaken
----------------------------------------------------------------------------
HistoryRow == [class : {"none", "root", "label", "override"},
               pattern : {M!NoPattern, "label", "new"}, url : BOOLEAN]

(* What a step that leaves the data or the grants alone keeps.             *)
LEMMA DataStays ==
    ASSUME DatabaseInv, result' = result, history' = history, overridden' = overridden,
           mirrored' = mirrored, applied' \subseteq applied \union {"secret", "url", "recompute"}
    PROVE  NothingYet' /\ MirroredIsPending' /\ M!DoneIsDone'
<1>1. NothingYet' /\ MirroredIsPending'
  BY DEF DatabaseInv, NothingYet, MirroredIsPending
<1>2. M!DoneIsDone'
  BY DEF DatabaseInv, M!DoneIsDone
<1> QED BY <1>1, <1>2

LEMMA GrantsStay ==
    ASSUME DatabaseInv, column' = column, granted' = granted, settings' = settings, taken' = taken,
           applied \subseteq applied', pc' \in PastSchema => pc \in PastSchema,
           pc' \in PastSchema \ {"secret"} => pc \in PastSchema \ {"secret"},
           pc' \in PastSchema \ {"secret", "url"} => pc \in PastSchema \ {"secret", "url"}
    PROVE  GivenOnce' /\ M!TakenStaysTaken'
<1>1. GivenOnce'
  BY DEF DatabaseInv, GivenOnce, PastSchema
<1>2. M!TakenStaysTaken'
  BY DEF DatabaseInv, M!TakenStaysTaken
<1> QED BY <1>1, <1>2

(* The server starts, and dies.                                            *)
LEMMA Starting ==
    ASSUME DatabaseInv, M!StartsAssumption, NEW build \in BOOLEAN, M!Start(build)
    PROVE  DatabaseInv'
<1>1. /\ result' = result /\ history' = history /\ overridden' = overridden /\ mirrored' = mirrored
      /\ column' = column /\ granted' = granted /\ settings' = settings /\ taken' = taken
      /\ pc = "down" /\ pc' = "schema" /\ starts < MaxStarts /\ starts' = starts + 1 /\ codec' = build
      /\ todo' = todo /\ deferred' = deferred /\ patched' = patched /\ missed' = missed /\ links' = links
      /\ applied' = applied /\ reviews' = reviews
  BY DEF M!Start, M!At, M!Goto, M!runVars, M!dataVars, M!userVars, M!ghosts
<1>2. DatabaseTypes'
  <2>1. starts' \in 0 .. MaxStarts
    BY <1>1 DEF DatabaseInv, DatabaseTypes, M!TypeOK, M!StartsAssumption
  <2> QED BY <1>1, <2>1 DEF DatabaseInv, DatabaseTypes, M!TypeOK
<1>3. NothingYet' /\ MirroredIsPending' /\ M!DoneIsDone'
  BY <1>1, DataStays
<1>4. GivenOnce' /\ M!TakenStaysTaken'
  BY <1>1, GrantsStay DEF PastSchema
<1>5. LoopsVisitAll'
  BY <1>1 DEF DatabaseInv, LoopsVisitAll, Unvisited, M!Readable
<1>6. HistoryIsThere'
  BY <1>1 DEF DatabaseInv, HistoryIsThere, PastHistory, M!Readable
<1> QED BY <1>2, <1>3, <1>4, <1>5, <1>6 DEF DatabaseInv

LEMMA Crashing ==
    ASSUME DatabaseInv, M!Crash
    PROVE  DatabaseInv'
<1>1. /\ result' = result /\ history' = history /\ overridden' = overridden /\ mirrored' = mirrored
      /\ column' = column /\ granted' = granted /\ settings' = settings /\ taken' = taken
      /\ pc' = "down" /\ starts' = starts /\ codec' = codec /\ todo' = {} /\ deferred' = {}
      /\ patched' = patched /\ missed' = missed /\ links' = links /\ applied' = applied
      /\ reviews' \in {reviews, "stranded"}
  BY DEF M!Crash, M!At, M!Goto, M!runVars, M!dataVars, M!userVars, M!ghosts
<1>2. DatabaseTypes'
  BY <1>1 DEF DatabaseInv, DatabaseTypes, M!TypeOK
<1>3. NothingYet' /\ MirroredIsPending' /\ M!DoneIsDone'
  BY <1>1, DataStays
<1>4. GivenOnce' /\ M!TakenStaysTaken'
  BY <1>1, GrantsStay DEF PastSchema
<1>5. LoopsVisitAll'
  BY <1>1 DEF DatabaseInv, LoopsVisitAll, Unvisited, M!Readable
<1>6. HistoryIsThere'
  BY <1>1 DEF DatabaseInv, HistoryIsThere, PastHistory, M!Readable
<1> QED BY <1>2, <1>3, <1>4, <1>5, <1>6 DEF DatabaseInv

(* The steps of a start before its loops.                                  *)
LEMMA RebuildingReviews ==
    ASSUME DatabaseInv, M!RenameReviews \/ M!CreateReviews
    PROVE  DatabaseInv'
<1>1. /\ result' = result /\ history' = history /\ overridden' = overridden /\ mirrored' = mirrored
      /\ column' = column /\ granted' = granted /\ settings' = settings /\ taken' = taken
      /\ starts' = starts /\ codec' = codec /\ patched' = patched /\ missed' = missed /\ links' = links
      /\ pc' = pc /\ todo' = todo /\ deferred' = deferred /\ applied' = applied
      /\ reviews' \in {"renamed", "created"}
  BY DEF M!RenameReviews, M!CreateReviews, M!At, M!Goto, M!runVars, M!dataVars, M!userVars,
         M!ghosts
<1>2. DatabaseTypes'
  BY <1>1 DEF DatabaseInv, DatabaseTypes, M!TypeOK
<1>3. NothingYet' /\ MirroredIsPending' /\ M!DoneIsDone'
  BY <1>1, DataStays
<1>4. GivenOnce' /\ M!TakenStaysTaken'
  BY <1>1, GrantsStay DEF PastSchema
<1>5. LoopsVisitAll'
  BY <1>1 DEF DatabaseInv, LoopsVisitAll, Unvisited, M!Readable
<1>6. HistoryIsThere'
  BY <1>1 DEF DatabaseInv, HistoryIsThere, PastHistory, M!Readable
<1> QED BY <1>2, <1>3, <1>4, <1>5, <1>6 DEF DatabaseInv

LEMMA FindingMissing ==
    ASSUME DatabaseInv, M!FindMissing
    PROVE  DatabaseInv'
<1>1. /\ result' = result /\ history' = history /\ overridden' = overridden /\ mirrored' = mirrored
      /\ column' = column /\ granted' = granted /\ settings' = settings /\ taken' = taken
      /\ starts' = starts /\ codec' = codec /\ patched' = patched /\ missed' = missed /\ links' = links
      /\ pc = "missing" /\ pc' = "backfill" /\ deferred' = deferred /\ applied' = applied
      /\ reviews' = reviews
      /\ todo' = {j \in Jobs : result[j] # "none" /\ history[j] = M!NoRows}
  BY DEF M!FindMissing, M!Missing, M!At, M!Goto, M!runVars, M!dataVars, M!userVars, M!ghosts
<1>2. DatabaseTypes'
  BY <1>1 DEF DatabaseInv, DatabaseTypes, M!TypeOK
<1>3. NothingYet' /\ MirroredIsPending' /\ M!DoneIsDone'
  BY <1>1, DataStays
<1>4. GivenOnce' /\ M!TakenStaysTaken'
  BY <1>1, GrantsStay DEF PastSchema
<1>5. LoopsVisitAll'
  BY <1>1 DEF DatabaseInv, LoopsVisitAll, Unvisited, M!Readable
<1>6. HistoryIsThere'
  BY <1>1 DEF DatabaseInv, HistoryIsThere, PastHistory, M!Readable
<1> QED BY <1>2, <1>3, <1>4, <1>5, <1>6 DEF DatabaseInv

LEMMA EndingBackfill ==
    ASSUME DatabaseInv, M!BackfillEnds
    PROVE  DatabaseInv'
<1>1. /\ result' = result /\ history' = history /\ overridden' = overridden /\ mirrored' = mirrored
      /\ column' = column /\ granted' = granted /\ settings' = settings /\ taken' = taken
      /\ starts' = starts /\ codec' = codec /\ patched' = patched /\ missed' = missed /\ links' = links
      /\ pc = "backfill" /\ pc' = "pending" /\ todo = {} /\ todo' = todo /\ deferred' = deferred
      /\ reviews' = reviews /\ applied' = applied
  BY DEF M!BackfillEnds, M!At, M!Goto, M!runVars, M!dataVars, M!userVars, M!ghosts
<1>2. DatabaseTypes'
  BY <1>1 DEF DatabaseInv, DatabaseTypes, M!TypeOK
<1>3. NothingYet' /\ MirroredIsPending' /\ M!DoneIsDone'
  BY <1>1, DataStays
<1>4. GivenOnce' /\ M!TakenStaysTaken'
  BY <1>1, GrantsStay DEF PastSchema
<1>5. LoopsVisitAll'
  BY <1>1 DEF DatabaseInv, LoopsVisitAll, Unvisited, M!Readable
<1>6. HistoryIsThere'
  BY <1>1 DEF DatabaseInv, LoopsVisitAll, HistoryIsThere, PastHistory,
              M!Readable
<1> QED BY <1>2, <1>3, <1>4, <1>5, <1>6 DEF DatabaseInv

LEMMA FindingLabelled ==
    ASSUME DatabaseInv, M!FindLabelled
    PROVE  DatabaseInv'
<1>1. /\ result' = result /\ history' = history /\ overridden' = overridden /\ mirrored' = mirrored
      /\ column' = column /\ granted' = granted /\ settings' = settings /\ taken' = taken
      /\ starts' = starts /\ codec' = codec /\ patched' = patched /\ missed' = missed /\ links' = links
      /\ pc = "labelled" /\ pc' = "classes" /\ deferred' = deferred /\ applied' = applied
      /\ reviews' = reviews
      /\ todo' = {j \in Jobs : history[j].class = "label"}
  BY DEF M!FindLabelled, M!At, M!Goto, M!runVars, M!dataVars, M!userVars, M!ghosts
<1>2. DatabaseTypes'
  BY <1>1 DEF DatabaseInv, DatabaseTypes, M!TypeOK
<1>3. NothingYet' /\ MirroredIsPending' /\ M!DoneIsDone'
  BY <1>1, DataStays
<1>4. GivenOnce' /\ M!TakenStaysTaken'
  BY <1>1, GrantsStay DEF PastSchema
<1>5. LoopsVisitAll'
  BY <1>1 DEF DatabaseInv, LoopsVisitAll, Unvisited, M!Readable
<1>6. HistoryIsThere'
  BY <1>1 DEF DatabaseInv, HistoryIsThere, PastHistory, M!Readable
<1> QED BY <1>2, <1>3, <1>4, <1>5, <1>6 DEF DatabaseInv


LEMMA CommittingSchema ==
    ASSUME DatabaseInv, M!CommitSchema
    PROVE  DatabaseInv'
<1>1. /\ result' = result /\ history' = history /\ overridden' = overridden /\ mirrored' = mirrored
      /\ settings' = settings /\ taken' = taken /\ applied' = applied
      /\ starts' = starts /\ codec' = codec /\ patched' = patched /\ missed' = missed
      /\ pc = "schema" /\ pc' = "secret" /\ todo' = todo /\ deferred' = deferred
      /\ column' = TRUE /\ granted' = M!GrantedNow /\ links' = M!LinksNow
      /\ reviews' \in {"rebuilt", reviews}
  BY DEF M!CommitSchema, M!At, M!Goto, M!dataVars, M!ghosts
<1>2. DatabaseTypes'
  <2>1. granted' \subseteq {Bootstrap} /\ links' \subseteq Jobs
    BY <1>1 DEF DatabaseInv, DatabaseTypes, M!TypeOK, M!GrantedNow, M!LinksNow
  <2> QED BY <1>1, <2>1 DEF DatabaseInv, DatabaseTypes, M!TypeOK
<1>3. NothingYet' /\ MirroredIsPending' /\ M!DoneIsDone'
  BY <1>1, DataStays
<1>4. GivenOnce'
  BY <1>1 DEF DatabaseInv, GivenOnce, PastSchema
<1>5. M!TakenStaysTaken'
  BY <1>1 DEF DatabaseInv, GivenOnce, M!TakenStaysTaken, M!GrantedNow
<1>6. LoopsVisitAll'
  BY <1>1 DEF LoopsVisitAll
<1>7. HistoryIsThere'
  BY <1>1 DEF HistoryIsThere, PastHistory
<1> QED BY <1>2, <1>3, <1>4, <1>5, <1>6, <1>7 DEF DatabaseInv

(* A setting is copied to its new name unless it was before.               *)
LEMMA CopyingSetting ==
    ASSUME DatabaseInv, M!RenameSecret \/ M!SplitUrl
    PROVE  DatabaseInv'
<1>1. /\ result' = result /\ history' = history /\ overridden' = overridden /\ mirrored' = mirrored
      /\ column' = column /\ granted' = granted /\ taken' = taken
      /\ starts' = starts /\ codec' = codec /\ patched' = patched /\ missed' = missed /\ links' = links
      /\ todo' = todo /\ deferred' = deferred /\ reviews' = reviews
      /\ \/ pc = "secret" /\ pc' = "url" /\ settings' = M!Copied("secret")
            /\ applied' = applied \union {"secret"}
         \/ pc = "url" /\ pc' = "recompute" /\ settings' = M!Copied("url")
            /\ applied' = applied \union {"url"}
  BY DEF M!RenameSecret, M!SplitUrl, M!CopySetting, M!At, M!Goto, M!dataVars, M!ghosts
<1>2. PICK k \in {"secret", "url"} : /\ pc = k /\ settings' = M!Copied(k)
                                     /\ applied' = applied \union {k}
  BY <1>1
<1>3. k \in M!Renamed
  BY DEF M!Renamed
<1>4. settings' = settings \/ (settings' = settings \union {M!New(k)} /\ k \notin applied)
  BY <1>2 DEF M!Copied
<1>5. DatabaseTypes'
  <2>1. settings' \subseteq {M!Old(x) : x \in M!Renamed} \union {M!New(x) : x \in M!Renamed}
    BY <1>3, <1>4 DEF DatabaseInv, DatabaseTypes
  <2>2. applied' \subseteq M!Renamed \union {"recompute", "restore", "axis"}
    BY <1>2, <1>3 DEF DatabaseInv, DatabaseTypes, M!TypeOK
  <2> QED BY <1>1, <2>1, <2>2 DEF DatabaseInv, DatabaseTypes, M!TypeOK
<1>6. NothingYet' /\ MirroredIsPending' /\ M!DoneIsDone'
  BY <1>1, DataStays
<1>7. GivenOnce'
  BY <1>1 DEF DatabaseInv, GivenOnce, PastSchema
<1>8. M!TakenStaysTaken'
  BY <1>1, <1>3, <1>4 DEF DatabaseInv, GivenOnce, M!TakenStaysTaken
<1>9. LoopsVisitAll' /\ HistoryIsThere'
  BY <1>1 DEF LoopsVisitAll, HistoryIsThere, PastHistory
<1> QED BY <1>5, <1>6, <1>7, <1>8, <1>9 DEF DatabaseInv

LEMMA ClearingHistory ==
    ASSUME DatabaseInv, M!ClearHistory
    PROVE  DatabaseInv'
<1>1. /\ result' = result /\ overridden' = overridden
      /\ column' = column /\ granted' = granted /\ settings' = settings /\ taken' = taken
      /\ starts' = starts /\ codec' = codec /\ patched' = patched /\ missed' = missed /\ links' = links
      /\ todo' = todo /\ deferred' = deferred /\ reviews' = reviews
      /\ pc = "recompute" /\ pc' = "missing"
      /\ \/ history' = history /\ applied' = applied /\ mirrored' = mirrored
         \/ /\ history' = [j \in Jobs |-> M!NoRows] /\ mirrored' = {}
            /\ applied' = applied \union {"recompute"}
  BY DEF M!ClearHistory, M!At, M!Goto, M!userVars
<1>2. M!NoRows \in HistoryRow /\ M!NoRows.class = "none"
  BY DEF M!NoRows, HistoryRow
<1>3. DatabaseTypes'
  <2>1. history' \in [Jobs -> HistoryRow]
    BY <1>1, <1>2 DEF DatabaseInv, DatabaseTypes, M!TypeOK, HistoryRow
  <2>2. mirrored' \subseteq Jobs /\ applied' \subseteq M!Renamed \union {"recompute", "restore", "axis"}
    BY <1>1 DEF DatabaseInv, DatabaseTypes, M!TypeOK
  <2> QED BY <1>1, <2>1, <2>2 DEF DatabaseInv, DatabaseTypes, M!TypeOK, HistoryRow
<1>4. GivenOnce' /\ M!TakenStaysTaken'
  BY <1>1, GrantsStay DEF PastSchema
<1>5. NothingYet' /\ MirroredIsPending' /\ M!DoneIsDone'
  <2>1. CASE history' = history /\ mirrored' = mirrored /\ applied' = applied
    BY <1>1, <2>1, DataStays
  <2>2. CASE history' = [j \in Jobs |-> M!NoRows] /\ mirrored' = {}
    <3>1. \A j \in Jobs : history'[j] = M!NoRows
      BY <2>2
    <3> QED BY <1>1, <1>2, <2>2, <3>1 DEF NothingYet, MirroredIsPending, M!DoneIsDone
  <2> QED BY <1>1, <2>1, <2>2
<1>6. LoopsVisitAll' /\ HistoryIsThere'
  BY <1>1 DEF LoopsVisitAll, HistoryIsThere, PastHistory
<1> QED BY <1>3, <1>4, <1>5, <1>6 DEF DatabaseInv

(* The loops.  A result that can be read is written to the history.        *)
LEMMA RowsOfResult ==
    ASSUME NEW j
    PROVE  /\ M!Populated(j) \in HistoryRow /\ M!Populated(j) # M!NoRows
           /\ M!Populated(j).class \in {"root", "override"}
<1>1. /\ M!Populated(j).class \in {"root", "override"} /\ M!NoRows.class = "none"
      /\ M!Populated(j) \in HistoryRow
  BY DEF M!Populated, M!Rows, M!NoRows, HistoryRow
<1> QED BY <1>1

LEMMA Visiting ==
    ASSUME DatabaseInv, NEW j \in Jobs, M!Backfill(j) \/ M!Restore(j)
    PROVE  DatabaseInv'
<1>1. /\ result' = result /\ overridden' = overridden /\ applied' = applied
      /\ column' = column /\ granted' = granted /\ settings' = settings /\ taken' = taken
      /\ starts' = starts /\ codec' = codec /\ patched' = patched /\ links' = links
      /\ pc' = pc /\ reviews' = reviews /\ todo' = todo \ {j}
      /\ history' = IF M!Readable(j) THEN [history EXCEPT ![j] = M!Populated(j)] ELSE history
      /\ mirrored' = IF M!Readable(j) THEN mirrored \ {j} ELSE mirrored
      /\ missed' = IF M!Readable(j) THEN missed \ {j} ELSE missed
      /\ \/ pc = "backfill" /\ deferred' = deferred
         \/ pc = "restore" /\ deferred' = M!Deferred(j)
  BY DEF M!Backfill, M!Restore, M!Repopulate, M!At, M!userVars
<1>2. PICK r \in HistoryRow : r = M!Populated(j) /\ r # M!NoRows /\ r.class \in {"root", "override"}
  BY RowsOfResult
<1>3. history \in [Jobs -> HistoryRow]
  BY DEF DatabaseInv, DatabaseTypes, M!TypeOK, HistoryRow
<1>4. /\ history' \in [Jobs -> HistoryRow]
      /\ \A i \in Jobs : history'[i] = IF i = j /\ M!Readable(j) THEN r ELSE history[i]
  BY <1>1, <1>2, <1>3
<1>5. deferred \subseteq deferred' /\ deferred' \subseteq deferred \union {j}
  BY <1>1 DEF M!Deferred
<1>6. DatabaseTypes'
  <2>1. mirrored' \subseteq Jobs /\ missed' \subseteq Jobs /\ todo' \subseteq Jobs /\ deferred' \subseteq Jobs
    BY <1>1, <1>5 DEF DatabaseInv, DatabaseTypes, M!TypeOK
  <2> QED BY <1>1, <1>4, <2>1 DEF DatabaseInv, DatabaseTypes, M!TypeOK, HistoryRow
<1>7. GivenOnce' /\ M!TakenStaysTaken'
  BY <1>1, GrantsStay
<1>8. NothingYet' /\ MirroredIsPending' /\ M!DoneIsDone'
  <2>1. M!Readable(j) => result[j] # "none"
    BY DEF M!Readable
  <2>2. NothingYet'
    BY <1>1, <1>4, <2>1 DEF DatabaseInv, NothingYet
  <2>3. MirroredIsPending'
    BY <1>1, <1>4 DEF DatabaseInv, DatabaseTypes, MirroredIsPending
  <2>4. M!DoneIsDone'
    BY <1>1, <1>2, <1>4 DEF DatabaseInv, M!DoneIsDone
  <2> QED BY <2>2, <2>3, <2>4
<1>9. \A i \in Jobs : M!Readable(i)' = M!Readable(i)
  BY <1>1 DEF M!Readable
<1>10. LoopsVisitAll'
  <2>1. ASSUME pc = "backfill", NEW i \in Jobs, M!Readable(i), history'[i] = M!NoRows PROVE i \in todo'
    BY <1>1, <1>2, <1>4, <2>1 DEF DatabaseInv, LoopsVisitAll
  <2>2. ASSUME pc = "restore", NEW i \in mirrored' PROVE Unvisited(i)'
    <3>1. i \in mirrored /\ (i = j => ~M!Readable(j))
      BY <1>1, <2>2
    <3>2. Unvisited(i)
      BY <2>2, <3>1 DEF DatabaseInv, LoopsVisitAll
    <3>3. CASE i # j
      BY <1>1, <1>5, <3>2, <3>3 DEF Unvisited
    <3>4. CASE i = j
      <4>1. result[j] \in {"none", "plain", "encoded", "malformed"} /\ result[j] # "none"
        BY <3>1, <3>4 DEF DatabaseInv, DatabaseTypes, M!TypeOK, NothingYet
      <4>2. result[j] = "malformed" \/ M!Undecodable(j)
        BY <3>1, <3>4, <4>1 DEF M!Readable, M!Undecodable, DatabaseInv, DatabaseTypes, M!TypeOK
      <4> QED BY <1>1, <2>2, <3>4, <4>2 DEF M!Deferred, Unvisited
    <3> QED BY <3>3, <3>4
  <2>3. pc' # "classes"
    BY <1>1
  <2> QED BY <1>1, <1>9, <2>1, <2>2, <2>3 DEF LoopsVisitAll
<1>11. HistoryIsThere'
  BY <1>1, <1>2, <1>4, <1>9 DEF DatabaseInv, HistoryIsThere
<1> QED BY <1>6, <1>7, <1>8, <1>10, <1>11 DEF DatabaseInv

(* The restoration counts as done when nothing was deferred.               *)
LEMMA FindingPending ==
    ASSUME DatabaseInv, M!FindPending
    PROVE  DatabaseInv'
<1>1. /\ result' = result /\ history' = history /\ overridden' = overridden /\ mirrored' = mirrored
      /\ column' = column /\ granted' = granted /\ settings' = settings /\ taken' = taken
      /\ starts' = starts /\ codec' = codec /\ patched' = patched /\ missed' = missed /\ links' = links
      /\ deferred' = deferred /\ reviews' = reviews /\ pc = "pending"
      /\ \/ pc' = "axis" /\ applied' = applied /\ todo' = todo
         \/ /\ pc' = "axis" /\ applied' = applied \union {"restore"} /\ todo' = todo
            /\ M!Pending = {}
         \/ pc' = "restore" /\ applied' = applied /\ todo' = M!Pending
  BY DEF M!FindPending, M!At, M!Goto, M!dataVars, M!userVars, M!ghosts
<1>2. mirrored \subseteq M!Pending /\ M!Pending \subseteq Jobs
  BY DEF DatabaseInv, DatabaseTypes, M!TypeOK, MirroredIsPending, M!Pending
<1>3. DatabaseTypes'
  BY <1>1, <1>2 DEF DatabaseInv, DatabaseTypes, M!TypeOK
<1>4. GivenOnce' /\ M!TakenStaysTaken'
  BY <1>1, GrantsStay DEF PastSchema
<1>5. NothingYet' /\ MirroredIsPending'
  BY <1>1 DEF DatabaseInv, NothingYet, MirroredIsPending
<1>6. M!DoneIsDone'
  BY <1>1, <1>2 DEF DatabaseInv, M!DoneIsDone
<1>7. LoopsVisitAll'
  BY <1>1, <1>2 DEF LoopsVisitAll, Unvisited
<1>8. HistoryIsThere'
  BY <1>1 DEF DatabaseInv, HistoryIsThere, PastHistory, M!Readable
<1> QED BY <1>3, <1>4, <1>5, <1>6, <1>7, <1>8 DEF DatabaseInv

LEMMA EndingRestore ==
    ASSUME DatabaseInv, M!RestoreEnds
    PROVE  DatabaseInv'
<1>1. /\ result' = result /\ history' = history /\ overridden' = overridden /\ mirrored' = mirrored
      /\ column' = column /\ granted' = granted /\ settings' = settings /\ taken' = taken
      /\ starts' = starts /\ codec' = codec /\ patched' = patched /\ missed' = missed /\ links' = links
      /\ deferred' = {} /\ reviews' = reviews /\ pc = "restore" /\ pc' = "axis"
      /\ todo = {} /\ todo' = todo
      /\ applied' = IF deferred = {} THEN applied \union {"restore"} ELSE applied
  BY DEF M!RestoreEnds, M!Marked, M!At, M!Goto, M!dataVars, M!userVars, M!ghosts
<1>2. DatabaseTypes'
  BY <1>1 DEF DatabaseInv, DatabaseTypes, M!TypeOK
<1>3. GivenOnce' /\ M!TakenStaysTaken'
  BY <1>1, GrantsStay DEF PastSchema
<1>4. NothingYet' /\ MirroredIsPending'
  BY <1>1 DEF DatabaseInv, NothingYet, MirroredIsPending
<1>5. M!DoneIsDone'
  <2>1. deferred = {} => \A j \in mirrored : result[j] = "malformed"
    BY <1>1 DEF DatabaseInv, LoopsVisitAll, Unvisited
  <2> QED BY <1>1, <2>1 DEF DatabaseInv, M!DoneIsDone
<1>6. LoopsVisitAll'
  BY <1>1 DEF LoopsVisitAll
<1>7. HistoryIsThere'
  BY <1>1 DEF DatabaseInv, HistoryIsThere, PastHistory, M!Readable
<1> QED BY <1>2, <1>3, <1>4, <1>5, <1>6, <1>7 DEF DatabaseInv

(* Only the pattern of rows changes, and of those there are.               *)
Repatterned ==
    \A j \in Jobs : /\ history'[j] \in HistoryRow /\ history'[j].class = history[j].class
                    /\ history'[j] = M!NoRows <=> history[j] = M!NoRows

LEMMA MovedRows ==
    ASSUME NEW r \in HistoryRow
    PROVE  /\ M!Moved(r) \in HistoryRow /\ M!Moved(r).class = r.class
           /\ M!Moved(r) = M!NoRows <=> r = M!NoRows
           /\ M!Completed(r) \in HistoryRow /\ M!Completed(r).class = r.class
           /\ M!Completed(r) = M!NoRows <=> r = M!NoRows
<1>1. M!NoRows.class = "none"
  BY DEF M!NoRows
<1>2. /\ M!Moved(r) \in HistoryRow /\ M!Moved(r).class = r.class
      /\ M!Completed(r) \in HistoryRow /\ M!Completed(r).class = r.class
  BY DEF M!Moved, M!Completed, HistoryRow
<1>3. /\ M!Moved(r) = r \/ r.class = "label"
      /\ M!Completed(r) = r \/ r.class # "none"
  BY DEF M!Moved, M!Completed
<1> QED BY <1>1, <1>2, <1>3

LEMMA RepatterningKeeps ==
    ASSUME DatabaseInv, history' = [j \in Jobs |-> history'[j]], Repatterned, result' = result,
           overridden' = overridden, mirrored' = mirrored, codec' = codec, missed' = missed
    PROVE  /\ history' \in [Jobs -> HistoryRow] /\ NothingYet' /\ MirroredIsPending'
           /\ pc \in PastHistory => HistoryIsThere'
<1>1. history' \in [Jobs -> HistoryRow]
  BY DEF Repatterned
<1>2. NothingYet'
  BY DEF DatabaseInv, NothingYet, Repatterned
<1>3. MirroredIsPending'
  BY DEF DatabaseInv, DatabaseTypes, MirroredIsPending, Repatterned
<1>4. pc \in PastHistory => HistoryIsThere'
  BY DEF DatabaseInv, HistoryIsThere, Repatterned, M!Readable
<1> QED BY <1>1, <1>2, <1>3, <1>4

LEMMA MovingLabels ==
    ASSUME DatabaseInv, M!MoveLabels
    PROVE  DatabaseInv'
<1>1. /\ result' = result /\ overridden' = overridden /\ mirrored' = mirrored /\ applied' = applied
      /\ column' = column /\ granted' = granted /\ settings' = settings /\ taken' = taken
      /\ starts' = starts /\ codec' = codec /\ patched' = patched /\ missed' = missed /\ links' = links
      /\ todo' = todo /\ deferred' = deferred /\ reviews' = reviews
      /\ pc = "axis" /\ pc' \in {"up", "labelled"}
      /\ history' = history \/ history' = [j \in Jobs |-> M!Moved(history[j])]
  BY DEF M!MoveLabels, M!At, M!Goto, M!userVars, M!ghosts
<1>2. history \in [Jobs -> HistoryRow]
  BY DEF DatabaseInv, DatabaseTypes, M!TypeOK, HistoryRow
<1>3. history' = [j \in Jobs |-> history'[j]]
  BY <1>1, <1>2
<1>4. Repatterned
  <2>1. ASSUME NEW j \in Jobs PROVE history'[j] = history[j] \/ history'[j] = M!Moved(history[j])
    BY <1>1
  <2> QED BY <1>2, <2>1, MovedRows DEF Repatterned
<1>5. history' \in [Jobs -> HistoryRow] /\ NothingYet' /\ MirroredIsPending' /\ HistoryIsThere'
  BY <1>1, <1>3, <1>4, RepatterningKeeps DEF PastHistory
<1>6. DatabaseTypes'
  BY <1>1, <1>5 DEF DatabaseInv, DatabaseTypes, M!TypeOK, HistoryRow
<1>7. GivenOnce' /\ M!TakenStaysTaken'
  BY <1>1, GrantsStay DEF PastSchema
<1>8. M!DoneIsDone'
  BY <1>1, <1>4 DEF DatabaseInv, M!DoneIsDone, Repatterned
<1>9. LoopsVisitAll'
  BY <1>1 DEF LoopsVisitAll
<1> QED BY <1>5, <1>6, <1>7, <1>8, <1>9 DEF DatabaseInv

LEMMA EndingAxis ==
    ASSUME DatabaseInv, M!AxisEnds
    PROVE  DatabaseInv'
<1>1. /\ result' = result /\ overridden' = overridden /\ mirrored' = mirrored
      /\ column' = column /\ granted' = granted /\ settings' = settings /\ taken' = taken
      /\ starts' = starts /\ codec' = codec /\ patched' = patched /\ missed' = missed /\ links' = links
      /\ todo = {} /\ todo' = todo /\ deferred' = {} /\ reviews' = reviews
      /\ pc = "classes" /\ pc' = "up"
      /\ history' = [j \in Jobs |-> M!Completed(history[j])]
      /\ applied' = IF deferred = {} THEN applied \union {"axis"} ELSE applied
  BY DEF M!AxisEnds, M!Marked, M!At, M!Goto, M!userVars, M!ghosts
<1>2. history \in [Jobs -> HistoryRow]
  BY DEF DatabaseInv, DatabaseTypes, M!TypeOK, HistoryRow
<1>3. history' = [j \in Jobs |-> history'[j]]
  BY <1>1
<1>4. Repatterned
  <2>1. \A j \in Jobs : history'[j] = M!Completed(history[j])
    BY <1>1
  <2> QED BY <1>2, <2>1, MovedRows DEF Repatterned
<1>5. history' \in [Jobs -> HistoryRow] /\ NothingYet' /\ MirroredIsPending' /\ HistoryIsThere'
  BY <1>1, <1>3, <1>4, RepatterningKeeps DEF PastHistory
<1>6. DatabaseTypes'
  BY <1>1, <1>5 DEF DatabaseInv, DatabaseTypes, M!TypeOK, HistoryRow
<1>7. GivenOnce' /\ M!TakenStaysTaken'
  BY <1>1, GrantsStay DEF PastSchema
<1>8. M!DoneIsDone'
  <2>1. deferred = {} => \A j \in Jobs : history[j].class = "label" =>
                            result[j] \in {"none", "malformed"}
    BY <1>1 DEF DatabaseInv, LoopsVisitAll, Unvisited
  <2> QED BY <1>1, <1>4, <2>1 DEF DatabaseInv, M!DoneIsDone, Repatterned
<1>9. LoopsVisitAll'
  BY <1>1 DEF LoopsVisitAll
<1> QED BY <1>5, <1>6, <1>7, <1>8, <1>9 DEF DatabaseInv

LEMMA RestoringClass ==
    ASSUME DatabaseInv, NEW j \in Jobs, M!RestoreClass(j)
    PROVE  DatabaseInv'
<1>1. PICK c \in {"root", "override"} : c = M!Populated(j).class
  BY RowsOfResult
<1>2. /\ result' = result /\ overridden' = overridden /\ mirrored' = mirrored /\ applied' = applied
      /\ column' = column /\ granted' = granted /\ settings' = settings /\ taken' = taken
      /\ starts' = starts /\ codec' = codec /\ patched' = patched /\ missed' = missed /\ links' = links
      /\ pc = "classes" /\ pc' = pc /\ reviews' = reviews /\ j \in todo /\ todo' = todo \ {j}
      /\ history' = IF M!Readable(j) THEN [history EXCEPT ![j].class = c] ELSE history
      /\ deferred' = M!Deferred(j)
  BY <1>1 DEF M!RestoreClass, M!At, M!userVars, M!ghosts
<1>3. history \in [Jobs -> HistoryRow]
  BY DEF DatabaseInv, DatabaseTypes, M!TypeOK, HistoryRow
<1>4. PICK r : r = [history[j] EXCEPT !.class = c]
  OBVIOUS
<1>5. r \in HistoryRow /\ r.class = c
  BY <1>3, <1>4 DEF HistoryRow
<1>6. /\ history' \in [Jobs -> HistoryRow]
      /\ \A i \in Jobs : history'[i] = IF i = j /\ M!Readable(j) THEN r ELSE history[i]
  BY <1>2, <1>3, <1>4, <1>5
<1>7. deferred \subseteq deferred' /\ deferred' \subseteq deferred \union {j}
  BY <1>2 DEF M!Deferred
<1>8. DatabaseTypes'
  <2>1. todo' \subseteq Jobs /\ deferred' \subseteq Jobs
    BY <1>2, <1>7 DEF DatabaseInv, DatabaseTypes, M!TypeOK
  <2> QED BY <1>2, <1>6, <2>1 DEF DatabaseInv, DatabaseTypes, M!TypeOK, HistoryRow
<1>9. GivenOnce' /\ M!TakenStaysTaken'
  BY <1>2, GrantsStay
<1>10. M!NoRows.class = "none" /\ (M!Readable(j) => result[j] # "none") /\ history[j].class = "label"
  BY <1>2 DEF M!NoRows, M!Readable, DatabaseInv, LoopsVisitAll
<1>11. NothingYet' /\ MirroredIsPending' /\ M!DoneIsDone'
  <2>1. NothingYet'
    BY <1>2, <1>6, <1>10 DEF DatabaseInv, NothingYet
  <2>2. MirroredIsPending'
    BY <1>2, <1>6, <1>10 DEF DatabaseInv, DatabaseTypes, MirroredIsPending
  <2>3. M!DoneIsDone'
    BY <1>2, <1>5, <1>6 DEF DatabaseInv, M!DoneIsDone
  <2> QED BY <2>1, <2>2, <2>3
<1>12. LoopsVisitAll'
  <2>1. ASSUME NEW i \in Jobs, history'[i].class = "label", result[i] # "none" PROVE Unvisited(i)'
    <3>1. Unvisited(i) /\ (i = j => ~M!Readable(j))
      BY <1>2, <1>5, <1>6, <2>1 DEF DatabaseInv, LoopsVisitAll
    <3>2. CASE i # j
      BY <1>2, <1>7, <3>1, <3>2 DEF Unvisited
    <3>3. CASE i = j
      <4>1. result[j] = "malformed" \/ M!Undecodable(j)
        BY <2>1, <3>1, <3>3 DEF M!Readable, M!Undecodable, DatabaseInv, DatabaseTypes, M!TypeOK
      <4> QED BY <1>2, <3>3, <4>1 DEF M!Deferred, Unvisited
    <3> QED BY <3>2, <3>3
  <2>2. \A i \in Jobs : i \in todo' => history'[i].class = "label"
    BY <1>2, <1>6 DEF DatabaseInv, LoopsVisitAll
  <2> QED BY <1>2, <2>1, <2>2 DEF LoopsVisitAll
<1>13. HistoryIsThere'
  BY <1>1, <1>2, <1>5, <1>6, <1>10 DEF DatabaseInv, HistoryIsThere, M!Readable
<1> QED BY <1>8, <1>9, <1>11, <1>12, <1>13 DEF DatabaseInv
(* The server at work.                                                     *)
LEMMA Completing ==
    ASSUME DatabaseInv, NEW j \in Jobs, M!Complete(j)
    PROVE  DatabaseInv'
<1>1. /\ overridden' = overridden /\ mirrored' = mirrored /\ applied' = applied
      /\ column' = column /\ granted' = granted /\ settings' = settings /\ taken' = taken
      /\ starts' = starts /\ codec' = codec /\ patched' = patched /\ links' = links
      /\ pc = "up" /\ pc' = pc /\ reviews' = reviews /\ todo' = todo /\ deferred' = deferred
      /\ result[j] = "none"
      /\ result' = [result EXCEPT ![j] = IF codec THEN "encoded" ELSE "plain"]
      /\ \/ history' = [history EXCEPT ![j] = M!Populated(j)] /\ missed' = missed
         \/ history' = history /\ missed' = missed \union {j}
  BY DEF M!Complete, M!At, M!runVars, M!userVars
<1>2. PICK r \in HistoryRow : r = M!Populated(j) /\ r # M!NoRows /\ r.class \in {"root", "override"}
  BY RowsOfResult
<1>3. /\ history \in [Jobs -> HistoryRow]
      /\ result \in [Jobs -> {"none", "plain", "encoded", "malformed"}]
  BY DEF DatabaseInv, DatabaseTypes, M!TypeOK, HistoryRow
<1>4. /\ history' \in [Jobs -> HistoryRow] /\ missed \subseteq missed'
      /\ \A i \in Jobs : i # j => history'[i] = history[i]
      /\ history'[j] = r \/ (history'[j] = history[j] /\ j \in missed')
  BY <1>1, <1>2, <1>3
<1>5. /\ result' \in [Jobs -> {"none", "plain", "encoded", "malformed"}]
      /\ \A i \in Jobs : i # j => result'[i] = result[i]
      /\ result'[j] # "none"
  BY <1>1, <1>3
<1>6. M!NoRows.class = "none" /\ history[j] = M!NoRows /\ j \notin mirrored
  BY <1>1 DEF M!NoRows, DatabaseInv, NothingYet
<1>7. DatabaseTypes'
  <2>1. missed' \subseteq Jobs
    BY <1>1 DEF DatabaseInv, DatabaseTypes
  <2> QED BY <1>1, <1>4, <1>5, <2>1 DEF DatabaseInv, DatabaseTypes, M!TypeOK, HistoryRow
<1>8. GivenOnce' /\ M!TakenStaysTaken'
  BY <1>1, GrantsStay
<1>9. NothingYet' /\ MirroredIsPending' /\ M!DoneIsDone'
  <2>1. NothingYet'
    BY <1>1, <1>4, <1>5 DEF DatabaseInv, NothingYet
  <2>2. MirroredIsPending'
    BY <1>1, <1>4, <1>6 DEF DatabaseInv, DatabaseTypes, MirroredIsPending
  <2>3. M!DoneIsDone'
    BY <1>1, <1>2, <1>4, <1>5, <1>6 DEF DatabaseInv, M!DoneIsDone
  <2> QED BY <2>1, <2>2, <2>3
<1>10. LoopsVisitAll'
  BY <1>1 DEF LoopsVisitAll
<1>11. HistoryIsThere'
  BY <1>1, <1>2, <1>4, <1>5 DEF DatabaseInv, HistoryIsThere, PastHistory, M!Readable
<1> QED BY <1>7, <1>8, <1>9, <1>10, <1>11 DEF DatabaseInv

LEMMA Overriding ==
    ASSUME DatabaseInv, NEW j \in Jobs, M!Override(j)
    PROVE  DatabaseInv'
<1>1. /\ mirrored' = mirrored /\ applied' = applied /\ result' = result /\ missed' = missed
      /\ column' = column /\ granted' = granted /\ settings' = settings /\ taken' = taken
      /\ starts' = starts /\ codec' = codec /\ links' = links
      /\ pc = "up" /\ pc' = pc /\ reviews' = reviews /\ todo' = todo /\ deferred' = deferred
      /\ M!Readable(j) /\ j \notin overridden /\ overridden' = overridden \union {j}
      /\ patched' \in {patched, patched \union {j}}
      /\ history' = IF history[j] = M!NoRows THEN history ELSE [history EXCEPT ![j].class = "override"]
  BY DEF M!Override, M!At, M!runVars, M!userVars, M!ghosts
<1>2. history \in [Jobs -> HistoryRow]
  BY DEF DatabaseInv, DatabaseTypes, M!TypeOK, HistoryRow
<1>3. PICK r : r = [history[j] EXCEPT !.class = "override"]
  OBVIOUS
<1>4. r \in HistoryRow /\ r.class = "override"
  BY <1>2, <1>3 DEF HistoryRow
<1>5. /\ history' \in [Jobs -> HistoryRow]
      /\ \A i \in Jobs : history'[i] = IF i = j /\ history[j] # M!NoRows THEN r ELSE history[i]
  BY <1>1, <1>2, <1>3, <1>4
<1>6. M!NoRows.class = "none" /\ result[j] # "none" /\ j \notin mirrored
  BY <1>1 DEF M!NoRows, M!Readable, DatabaseInv, MirroredIsPending
<1>7. DatabaseTypes'
  <2>1. patched' \subseteq overridden' /\ overridden' \subseteq Jobs
    BY <1>1 DEF DatabaseInv, DatabaseTypes, M!TypeOK
  <2> QED BY <1>1, <1>5, <2>1 DEF DatabaseInv, DatabaseTypes, M!TypeOK, HistoryRow
<1>8. GivenOnce' /\ M!TakenStaysTaken'
  BY <1>1, GrantsStay
<1>9. NothingYet' /\ MirroredIsPending' /\ M!DoneIsDone'
  <2>1. NothingYet'
    BY <1>1, <1>5, <1>6 DEF DatabaseInv, NothingYet
  <2>2. MirroredIsPending'
    BY <1>1, <1>5, <1>6 DEF DatabaseInv, DatabaseTypes, MirroredIsPending
  <2>3. M!DoneIsDone'
    BY <1>1, <1>4, <1>5 DEF DatabaseInv, M!DoneIsDone
  <2> QED BY <2>1, <2>2, <2>3
<1>10. LoopsVisitAll'
  BY <1>1 DEF LoopsVisitAll
<1>11. HistoryIsThere'
  BY <1>1, <1>4, <1>5, <1>6 DEF DatabaseInv, HistoryIsThere, M!Readable
<1> QED BY <1>7, <1>8, <1>9, <1>10, <1>11 DEF DatabaseInv

(* An admin takes something back.                                          *)
LEMMA TakingBack ==
    ASSUME DatabaseInv, M!UsersAssumption,
           M!RevokeGrant(Bootstrap) \/ \E k \in M!Renamed : M!ResetSetting(k)
    PROVE  DatabaseInv'
<1>1. /\ result' = result /\ history' = history /\ overridden' = overridden /\ mirrored' = mirrored
      /\ column' = column /\ starts' = starts /\ codec' = codec /\ patched' = patched
      /\ missed' = missed /\ links' = links /\ applied' = applied /\ reviews' = reviews
      /\ pc = "up" /\ pc' = pc /\ todo' = todo /\ deferred' = deferred
  BY DEF M!RevokeGrant, M!ResetSetting, M!At, M!runVars, M!dataVars
<1>2. /\ granted' \subseteq granted /\ settings' \subseteq settings
      /\ \/ /\ taken' = taken \union {Bootstrap} /\ granted' = granted \ {Bootstrap}
            /\ settings' = settings
         \/ \E k \in M!Renamed : /\ taken' = taken \union {M!New(k)} /\ granted' = granted
                                 /\ settings' = settings \ {M!New(k)}
  BY DEF M!RevokeGrant, M!ResetSetting
<1>3. DatabaseTypes'
  <2>1. taken' \subseteq {Bootstrap} \union {M!New(k) : k \in M!Renamed}
    BY <1>2 DEF DatabaseInv, DatabaseTypes
  <2>2. /\ settings' \subseteq {M!Old(k) : k \in M!Renamed} \union {M!New(k) : k \in M!Renamed}
        /\ granted' \subseteq {Bootstrap}
    BY <1>2 DEF DatabaseInv, DatabaseTypes, M!TypeOK
  <2> QED BY <1>1, <2>1, <2>2 DEF DatabaseInv, DatabaseTypes, M!TypeOK
<1>4. NothingYet' /\ MirroredIsPending' /\ M!DoneIsDone'
  BY <1>1, DataStays
<1>5. GivenOnce'
  <2>1. column /\ \A k \in M!Renamed : k \in applied
    BY <1>1 DEF DatabaseInv, GivenOnce, PastSchema, M!Renamed
  <2> QED BY <1>1, <2>1 DEF DatabaseInv, GivenOnce
<1>6. M!TakenStaysTaken'
  <2>1. CASE taken' = taken \union {Bootstrap} /\ granted' = granted \ {Bootstrap} /\ settings' = settings
    <3>1. Bootstrap \notin settings
      BY DEF M!UsersAssumption, DatabaseInv, DatabaseTypes
    <3> QED BY <2>1, <3>1 DEF DatabaseInv, M!TakenStaysTaken
  <2>2. ASSUME NEW k \in M!Renamed, taken' = taken \union {M!New(k)}, granted' = granted,
               settings' = settings \ {M!New(k)}
        PROVE  M!TakenStaysTaken'
    <3>1. M!New(k) \notin granted
      BY DEF M!UsersAssumption, DatabaseInv, DatabaseTypes, M!TypeOK
    <3> QED BY <2>2, <3>1 DEF DatabaseInv, M!TakenStaysTaken
  <2> QED BY <1>2, <2>1, <2>2
<1>7. LoopsVisitAll'
  BY <1>1 DEF LoopsVisitAll
<1>8. HistoryIsThere'
  BY <1>1 DEF DatabaseInv, HistoryIsThere, PastHistory, M!Readable
<1> QED BY <1>3, <1>4, <1>5, <1>6, <1>7, <1>8 DEF DatabaseInv

----------------------------------------------------------------------------
LEMMA DatabaseInit ==
    ASSUME M!StartsAssumption, M!Init
    PROVE  DatabaseInv
<1>1. /\ pc = "down" /\ starts = 0 /\ codec = FALSE /\ todo = {} /\ deferred = {}
      /\ result \in [Jobs -> {"none", "plain", "encoded", "malformed"}]
      /\ history \in [Jobs -> {M!NoRows, M!Rows("label", FALSE), M!Rows("override", TRUE)}]
      /\ \A j \in Jobs : result[j] = "none" => history[j] = M!NoRows
      /\ mirrored = {j \in Jobs : history[j].class = "override"}
      /\ overridden = mirrored /\ patched = {} /\ missed = {}
      /\ applied \in {{}, {"recompute"}}
      /\ reviews \in {"legacy", "rebuilt"} /\ column = FALSE
      /\ granted = {} /\ links = {} /\ taken = {}
      /\ settings = {M!Old(k) : k \in M!Renamed}
  BY DEF M!Init
<1>2. /\ M!NoRows \in HistoryRow /\ M!Rows("label", FALSE) \in HistoryRow
      /\ M!Rows("override", TRUE) \in HistoryRow /\ M!NoRows.class = "none"
  BY DEF M!NoRows, M!Rows, HistoryRow
<1>3. history \in [Jobs -> HistoryRow]
  BY <1>1, <1>2
<1>4. DatabaseTypes
  <2>1. starts \in 0 .. MaxStarts
    BY <1>1 DEF M!StartsAssumption
  <2>2. applied \subseteq M!Renamed \union {"recompute", "restore", "axis"}
    BY <1>1
  <2> QED BY <1>1, <1>3, <2>1, <2>2 DEF DatabaseTypes, M!TypeOK, HistoryRow
<1>5. GivenOnce /\ M!TakenStaysTaken
  BY <1>1 DEF GivenOnce, PastSchema, M!TakenStaysTaken
<1>6. NothingYet /\ MirroredIsPending /\ M!DoneIsDone
  BY <1>1, <1>2 DEF NothingYet, MirroredIsPending, M!DoneIsDone
<1>7. LoopsVisitAll /\ HistoryIsThere
  BY <1>1 DEF LoopsVisitAll, HistoryIsThere, PastHistory
<1> QED BY <1>4, <1>5, <1>6, <1>7 DEF DatabaseInv

LEMMA DatabaseStays ==
    ASSUME DatabaseInv, UNCHANGED databaseVars
    PROVE  DatabaseInv'
BY DEF DatabaseInv, databaseVars, DatabaseTypes, M!TypeOK, GivenOnce, NothingYet,
       MirroredIsPending,
       LoopsVisitAll, Unvisited, HistoryIsThere, M!Readable, M!DoneIsDone, M!TakenStaysTaken

LEMMA DatabaseNext ==
    ASSUME DatabaseInv, M!StartsAssumption, M!UsersAssumption, M!Next
    PROVE  DatabaseInv'
<1>1. CASE \E build \in BOOLEAN : M!Start(build)
  BY <1>1, Starting
<1>2. CASE M!Crash \/ M!RenameReviews \/ M!CreateReviews \/ M!CommitSchema
  BY <1>2, Crashing, RebuildingReviews, CommittingSchema
<1>3. CASE M!RenameSecret \/ M!SplitUrl \/ M!ClearHistory \/ M!FindMissing \/ M!BackfillEnds
  BY <1>3, CopyingSetting, ClearingHistory, FindingMissing, EndingBackfill
<1>4. CASE M!FindPending \/ M!RestoreEnds \/ M!MoveLabels \/ M!FindLabelled \/ M!AxisEnds
  BY <1>4, FindingPending, EndingRestore, MovingLabels, FindingLabelled, EndingAxis
<1>5. ASSUME NEW j \in Jobs, M!Backfill(j) \/ M!Restore(j) PROVE DatabaseInv'
  BY <1>5, Visiting
<1>6. ASSUME NEW j \in Jobs, M!RestoreClass(j) \/ M!Complete(j) \/ M!Override(j) PROVE DatabaseInv'
  BY <1>6, RestoringClass, Completing, Overriding
<1>7. CASE (\E u \in {Bootstrap} : M!RevokeGrant(u)) \/ \E k \in M!Renamed : M!ResetSetting(k)
  BY <1>7, TakingBack
<1> QED BY <1>1, <1>2, <1>3, <1>4, <1>5, <1>6, <1>7 DEF M!Next

LEMMA DatabaseIsKept ==
    ASSUME DatabaseInv
    PROVE  M!TypeOK /\ M!HistoryComplete /\ M!DoneIsDone /\ M!TakenStaysTaken
<1>1. M!HistoryComplete
  BY DEF DatabaseInv, HistoryIsThere, PastHistory, M!HistoryComplete, M!At
<1> QED BY <1>1 DEF DatabaseInv, DatabaseTypes


----------------------------------------------------------------------------
(* The merge of usernames. *)

LoginRow == [name : Spellings, rank : Ranks, key : BOOLEAN]

NamesTypes ==
    /\ users \in Seq(LoginRow) /\ before.users \in Seq(LoginRow)
    /\ Len(before.users) \in 1 .. N!Cardinality(Spellings)
    /\ reads \subseteq Spellings \X Comments /\ before.reads \subseteq Spellings \X Comments
    /\ next \in 0 .. Len(before.users) + 1
    /\ state \in {"starting", "merging", "lowering", "started", "failed"}

(* The first row has the highest role and a key of all there were, and the *)
(* reads are of the same comments.                                         *)
Highest == \A i \in DOMAIN before.users : users[1].rank >= before.users[i].rank
KeyIsKept == users[1].key = \E i \in DOMAIN before.users : before.users[i].key
ReadsAreKept == {r[2] : r \in reads} = {r[2] : r \in before.reads}

NamesInv ==
    /\ NamesTypes
    /\ state = "starting" => users = before.users /\ reads = before.reads
    /\ state = "merging" => Len(users) = Len(before.users)
    /\ state \in {"lowering", "started"} => Len(users) = 1
    /\ state \in {"merging", "lowering", "started"} => Highest /\ KeyIsKept /\ ReadsAreKept
    /\ state = "started" => users[1].name = Lower

LEMMA LeastNumber ==
    ASSUME NEW T, T \subseteq Nat, T # {} PROVE \E x \in T : \A y \in T : x <= y
<1>1. PICK x \in T : \A y \in T : ~ (<<y, x>> \in OpToRel(<, Nat))
  BY NatLessThanWellFounded, WFMin, Zenon
<1>2. ASSUME NEW y \in T PROVE x <= y
  <2>1. x \in Nat /\ y \in Nat
    OBVIOUS
  <2>2. <<y, x>> \notin OpToRel(<, Nat)
    BY <1>1, Zenon
  <2>3. <<y, x>> \in OpToRel(<, Nat) <=> y < x
    BY <2>1 DEF OpToRel
  <2>4. ~(y < x)
    BY <2>2, <2>3, Zenon
  <2> QED BY <2>1, <2>4
<1> QED BY <1>1, <1>2

(* One of the rows has the highest role: the shortest run of first rows    *)
(* without one would end in it.                                            *)
LEMMA BestIsHighest ==
    ASSUME Ranks \subseteq Nat, NEW rows \in Seq(LoginRow), Len(rows) >= 1
    PROVE  /\ N!Best(rows) \in Ranks
           /\ \A i \in DOMAIN rows : N!Best(rows) >= rows[i].rank
<1> DEFINE HasBest(n) == \E i \in 1 .. n : \A k \in 1 .. n : rows[i].rank >= rows[k].rank
           T == {n \in 1 .. Len(rows) : ~HasBest(n)}
<1>1. \A i \in 1 .. Len(rows) : rows[i].rank \in Nat /\ rows[i].rank \in Ranks
  <2>1. ASSUME NEW i \in 1 .. Len(rows) PROVE rows[i] \in LoginRow
    OBVIOUS
  <2> QED BY <2>1 DEF LoginRow
<1>2. T = {}
  <2>1. SUFFICES ASSUME T # {} PROVE FALSE
    OBVIOUS
  <2>2. T \subseteq Nat
    OBVIOUS
  <2>3. PICK n \in T : \A y \in T : n <= y
    BY <2>1, <2>2, LeastNumber
  <2>4. n \in 1 .. Len(rows) /\ ~HasBest(n)
    BY <2>3
  <2>5. HasBest(1)
    BY <1>1
  <2>6. n - 1 \in 1 .. Len(rows)
    <3> HIDE DEF HasBest
    <3>1. n # 1
      BY <2>4, <2>5
    <3> QED BY <2>4, <3>1
  <2>7. HasBest(n - 1)
    <3>1. n - 1 \notin T
      <4> HIDE DEF T
      <4>1. n \in Nat
        BY <2>2, <2>3
      <4> QED BY <2>3, <4>1
    <3> QED BY <2>6, <3>1
  <2>8. PICK i \in 1 .. n - 1 : \A k \in 1 .. n - 1 : rows[i].rank >= rows[k].rank
    BY <2>7
  <2>9. \A k \in 1 .. n : k \in 1 .. n - 1 \/ k = n
    BY <2>4
  <2>10. rows[i].rank \in Nat /\ rows[n].rank \in Nat
    <3>1. i \in 1 .. Len(rows)
      BY <2>4
    <3> QED BY <1>1, <2>4, <3>1
  <2>11. CASE rows[i].rank >= rows[n].rank
    <3>1. \A k \in 1 .. n : rows[i].rank >= rows[k].rank
      BY <2>8, <2>9, <2>11
    <3>2. i \in 1 .. n
      BY <2>4
    <3> QED BY <2>4, <3>1, <3>2
  <2>12. CASE rows[n].rank >= rows[i].rank
    <3>1. \A k \in 1 .. n : rows[n].rank >= rows[k].rank
      <4>1. ASSUME NEW k \in 1 .. n - 1 PROVE rows[n].rank >= rows[k].rank
        <5>1. rows[i].rank >= rows[k].rank
          BY <2>8
        <5>2. k \in 1 .. Len(rows)
          BY <2>4
        <5>3. rows[k].rank \in Nat
          BY <1>1, <5>2
        <5>4. PICK p \in Nat, q \in Nat, t \in Nat :
                 p = rows[i].rank /\ q = rows[n].rank /\ t = rows[k].rank
          BY <2>10, <5>3
        <5>5. q >= p /\ p >= t
          BY <2>12, <5>1, <5>4
        <5>6. q >= t
          BY <5>5
        <5> QED BY <5>4, <5>6
      <4>2. rows[n].rank >= rows[n].rank
        BY <1>1, <2>4
      <4> QED BY <2>9, <4>1, <4>2
    <3>2. n \in 1 .. n
      BY <2>4
    <3> QED BY <2>4, <3>1, <3>2
  <2>13. PICK p \in Nat, q \in Nat : p = rows[i].rank /\ q = rows[n].rank
    BY <2>10
  <2>14. p >= q \/ q >= p
    OBVIOUS
  <2> QED BY <2>11, <2>12, <2>13, <2>14
<1>3. HasBest(Len(rows))
  <2> HIDE DEF HasBest
  <2>1. Len(rows) \in 1 .. Len(rows)
    OBVIOUS
  <2> QED BY <1>2, <2>1
<1>4. DOMAIN rows = 1 .. Len(rows)
  OBVIOUS
<1> DEFINE RanksOf == {rows[i].rank : i \in DOMAIN rows}
<1>5. \E r \in RanksOf : \A i \in DOMAIN rows : r >= rows[i].rank
  BY <1>3, <1>4
<1>6. N!Best(rows) \in RanksOf /\ \A i \in DOMAIN rows : N!Best(rows) >= rows[i].rank
  BY <1>5 DEF N!Best
<1> QED BY <1>1, <1>4, <1>6

LEMMA Adopting ==
    ASSUME Ranks \subseteq Nat, NamesInv, N!Adopt
    PROVE  NamesInv'
<1>1. /\ state = "starting" /\ users = before.users /\ reads = before.reads
      /\ reads' = reads /\ before' = before
      /\ users \in Seq(LoginRow) /\ Len(users) >= 1
  BY DEF N!Adopt, NamesInv, NamesTypes
<1>2. PICK b \in Ranks : b = N!Best(users) /\ \A i \in DOMAIN users : b >= users[i].rank
  BY <1>1, BestIsHighest
<1>3. PICK kept \in BOOLEAN : kept = \E i \in DOMAIN users : users[i].key
  OBVIOUS
<1>4. CASE Len(users) > 1
  <2>1. /\ users' = [users EXCEPT ![1].rank = b, ![1].key = kept]
        /\ next' = 2 /\ state' = "merging"
    BY <1>2, <1>3, <1>4 DEF N!Adopt, N!AdoptedKey
  <2>2. PICK row : row = [users[1] EXCEPT !.rank = b, !.key = kept]
    OBVIOUS
  <2>3. row \in LoginRow /\ row.rank = b /\ row.key = kept
    <3>1. users[1] \in LoginRow
      BY <1>1
    <3>2. row = [name |-> users[1].name, rank |-> b, key |-> kept]
      BY <2>2, <3>1 DEF LoginRow
    <3> QED BY <3>1, <3>2 DEF LoginRow
  <2>4. users' = [users EXCEPT ![1] = row]
    BY <1>1, <2>1, <2>2, <2>3 DEF LoginRow
  <2>5. users' \in Seq(LoginRow) /\ Len(users') = Len(users) /\ users'[1] = row
    BY <1>1, <2>3, <2>4
  <2>6. NamesTypes'
    BY <1>1, <1>4, <2>1, <2>5 DEF NamesInv, NamesTypes
  <2>7. Highest' /\ KeyIsKept' /\ ReadsAreKept'
    BY <1>1, <1>2, <1>3, <2>3, <2>5 DEF Highest, KeyIsKept, ReadsAreKept
  <2> QED BY <1>1, <2>1, <2>5, <2>6, <2>7 DEF NamesInv
<1>5. CASE ~(Len(users) > 1)
  <2>1. state' = "lowering" /\ users' = users /\ next' = next /\ Len(users) = 1
    <3>1. Len(users) \in Nat
      BY <1>1
    <3>2. state' = "lowering" /\ UNCHANGED <<users, next>>
      BY <1>5, Zenon DEF N!Adopt
    <3>3. Len(users) = 1
      <4>1. PICK m \in Nat : m = Len(users)
        BY <3>1
      <4>2. m >= 1 /\ ~(m > 1)
        BY <1>1, <1>5, <4>1
      <4> QED BY <4>1, <4>2
    <3> QED BY <3>2, <3>3
  <2>2. NamesTypes'
    BY <1>1, <2>1 DEF NamesInv, NamesTypes
  <2>3. Highest' /\ KeyIsKept' /\ ReadsAreKept'
    <3>1. DOMAIN users = {1} /\ users[1] \in LoginRow
      BY <1>1, <2>1
    <3>2. users[1].rank \in Nat /\ users[1].key \in BOOLEAN
      BY <3>1 DEF LoginRow
    <3>3. Highest'
      BY <1>1, <2>1, <3>1, <3>2 DEF Highest
    <3>4. KeyIsKept'
      <4>1. (\E i \in DOMAIN users : users[i].key) <=> users[1].key
        BY <3>1
      <4>2. users[1].key = \E i \in DOMAIN users : users[i].key
        BY <3>2, <4>1
      <4> QED BY <1>1, <2>1, <4>2 DEF KeyIsKept
    <3>5. ReadsAreKept'
      BY <1>1 DEF ReadsAreKept
    <3> QED BY <3>3, <3>4, <3>5
  <2> QED BY <1>1, <2>1, <2>2, <2>3 DEF NamesInv
<1> QED BY <1>4, <1>5

(* A row's reads become the lower-case name's: of the same comments.       *)
LEMMA RepointedReads ==
    ASSUME Lower \in Spellings, reads \subseteq Spellings \X Comments, NEW name
    PROVE  /\ N!Repointed(name) \subseteq Spellings \X Comments
           /\ {r[2] : r \in N!Repointed(name)} = {r[2] : r \in reads}
<1>1. \A r \in reads : r \in Spellings \X Comments /\ r[2] \in Comments
  OBVIOUS
<1>2. N!Named(name) \subseteq reads
  BY DEF N!Named
<1>3. N!Repointed(name) \subseteq Spellings \X Comments
  BY <1>1, <1>2 DEF N!Repointed
<1>4. ASSUME NEW r \in N!Repointed(name) PROVE \E s \in reads : r[2] = s[2]
  <2>1. r \in reads \/ \E s \in N!Named(name) : r = <<Lower, s[2]>>
    BY DEF N!Repointed
  <2> QED BY <1>2, <2>1
<1>5. ASSUME NEW r \in reads PROVE \E s \in N!Repointed(name) : r[2] = s[2]
  <2>1. r \in N!Repointed(name) \/ r \in N!Named(name)
    BY DEF N!Repointed
  <2>2. ASSUME r \in N!Named(name) PROVE <<Lower, r[2]>> \in N!Repointed(name)
    BY <2>2 DEF N!Repointed
  <2> QED BY <2>1, <2>2
<1> QED BY <1>3, <1>4, <1>5

LEMMA MergingRow ==
    ASSUME Lower \in Spellings, NamesInv, N!MergeRow
    PROVE  NamesInv'
<1>1. /\ state = "merging" /\ next <= Len(users) /\ users' = users /\ before' = before
      /\ state' = state /\ next' = next + 1 /\ reads' = N!Repointed(users[next].name)
  BY DEF N!MergeRow
<1>2. /\ reads' \subseteq Spellings \X Comments
      /\ {r[2] : r \in reads'} = {r[2] : r \in reads}
  BY <1>1, RepointedReads DEF NamesInv, NamesTypes
<1>3. NamesTypes'
  BY <1>1, <1>2 DEF NamesInv, NamesTypes
<1>4. Highest' /\ KeyIsKept'
  BY <1>1 DEF NamesInv, Highest, KeyIsKept
<1>5. ReadsAreKept'
  BY <1>1, <1>2 DEF NamesInv, ReadsAreKept
<1> QED BY <1>1, <1>3, <1>4, <1>5 DEF NamesInv

LEMMA DeletingMerged ==
    ASSUME Lower \in Spellings, NamesInv, N!DeleteMerged
    PROVE  NamesInv'
<1>1. /\ state = "merging" /\ before' = before /\ reads' = reads /\ next' = next
      /\ state' = "lowering" /\ users' = <<[users[1] EXCEPT !.name = Lower]>>
  BY DEF N!DeleteMerged
<1>2. users[1] \in LoginRow
  BY <1>1 DEF NamesInv, NamesTypes
<1>3. PICK row : row = [users[1] EXCEPT !.name = Lower]
  OBVIOUS
<1>4. row \in LoginRow /\ row.rank = users[1].rank /\ row.key = users[1].key
  BY <1>2, <1>3 DEF LoginRow
<1>5. users' \in Seq(LoginRow) /\ Len(users') = 1 /\ users'[1] = row
  BY <1>1, <1>3, <1>4
<1>6. NamesTypes'
  BY <1>1, <1>5 DEF NamesInv, NamesTypes
<1>7. Highest' /\ KeyIsKept' /\ ReadsAreKept'
  BY <1>1, <1>4, <1>5 DEF NamesInv, Highest, KeyIsKept, ReadsAreKept
<1> QED BY <1>1, <1>5, <1>6, <1>7 DEF NamesInv

(* All names become lower-case, or nothing is done.                        *)
LEMMA LoweringNames ==
    ASSUME Lower \in Spellings, NamesInv, N!LowerNames
    PROVE  NamesInv'
<1>1. state = "lowering" /\ before' = before /\ next' = next
  BY DEF N!LowerNames
<1>2. CASE N!Collides
  <2>1. state' = "failed" /\ users' = before.users /\ reads' = before.reads
    BY <1>2 DEF N!LowerNames
  <2> QED BY <1>1, <2>1 DEF NamesInv, NamesTypes
<1>3. CASE ~N!Collides
  <2>1. /\ state' = "started" /\ users' = [i \in DOMAIN users |-> [users[i] EXCEPT !.name = Lower]]
        /\ reads' = {<<Lower, r[2]>> : r \in reads}
    BY <1>3 DEF N!LowerNames
  <2>2. users \in Seq(LoginRow) /\ Len(users) = 1 /\ DOMAIN users = 1 .. 1
    BY <1>1 DEF NamesInv, NamesTypes
  <2>3. PICK row : row = [users[1] EXCEPT !.name = Lower]
    OBVIOUS
  <2>4. row \in LoginRow /\ row.rank = users[1].rank /\ row.key = users[1].key /\ row.name = Lower
    <3>1. users[1] \in LoginRow
      BY <2>2
    <3> QED BY <2>3, <3>1 DEF LoginRow
  <2>5. users' = [i \in 1 .. 1 |-> row]
    BY <2>1, <2>2, <2>3
  <2>6. users' \in Seq(LoginRow) /\ Len(users') = 1 /\ users'[1] = row
    BY <2>4, <2>5
  <2>7. \A r \in reads : r \in Spellings \X Comments /\ r[2] \in Comments
    BY DEF NamesInv, NamesTypes
  <2>8. reads' \subseteq Spellings \X Comments
    BY <2>1, <2>7
  <2>9. {r[2] : r \in reads'} = {r[2] : r \in reads}
    <3>1. \A r \in reads : <<Lower, r[2]>> \in reads' /\ <<Lower, r[2]>>[2] = r[2]
      BY <2>1
    <3>2. \A s \in reads' : \E r \in reads : s[2] = r[2]
      BY <2>1
    <3>3. \A r \in reads : \E s \in reads' : s[2] = r[2]
      BY <3>1
    <3> QED BY <3>2, <3>3
  <2>10. NamesTypes'
    BY <1>1, <2>1, <2>6, <2>8 DEF NamesInv, NamesTypes
  <2>11. Highest' /\ KeyIsKept'
    BY <1>1, <2>4, <2>6 DEF NamesInv, Highest, KeyIsKept
  <2>12. ReadsAreKept'
    BY <1>1, <2>9 DEF NamesInv, ReadsAreKept
  <2> QED BY <1>1, <2>1, <2>4, <2>6, <2>10, <2>11, <2>12 DEF NamesInv
<1> QED BY <1>2, <1>3

LEMMA CountedSpellings ==
    ASSUME N!SpellingsAssumption
    PROVE  N!Cardinality(Spellings) \in Nat
<1>1. IsFiniteSet(Spellings)
  BY DEF N!SpellingsAssumption, N!IsFiniteSet, IsFiniteSet
<1>2. Cardinality(Spellings) \in Nat
  BY <1>1, FS_CardinalityType
<1>3. N!Cardinality(Spellings) = Cardinality(Spellings)
  BY DEF N!Cardinality, Cardinality
<1> QED BY <1>2, <1>3

LEMMA NamesInit ==
    ASSUME N!SpellingsAssumption, N!Init
    PROVE  NamesInv
<1>1. N!Cardinality(Spellings) \in Nat
  BY CountedSpellings
<1>2. PICK n \in 1 .. N!Cardinality(Spellings) : users \in [1 .. n -> LoginRow]
  BY DEF N!Init, N!Tables, LoginRow
<1>3. users \in Seq(LoginRow) /\ Len(users) = n
  BY <1>1, <1>2
<1>4. /\ reads \subseteq Spellings \X Comments /\ before.users = users /\ before.reads = reads
      /\ next = 0 /\ state = "starting"
  BY DEF N!Init
<1> QED BY <1>1, <1>2, <1>3, <1>4 DEF NamesInv, NamesTypes

LEMMA NamesNext ==
    ASSUME N!SpellingsAssumption, NamesInv, N!Next
    PROVE  NamesInv'
BY Adopting, MergingRow, DeletingMerged, LoweringNames DEF N!SpellingsAssumption, N!Next

LEMMA NamesStay ==
    ASSUME NamesInv, UNCHANGED nameVars
    PROVE  NamesInv'
BY DEF NamesInv, nameVars, NamesTypes, Highest, KeyIsKept, ReadsAreKept

LEMMA NamesAreWhole ==
    ASSUME N!SpellingsAssumption, NamesInv
    PROVE  N!TypeOK /\ N!MergedIsWhole
<1>1. N!MergedIsWhole
  BY DEF NamesInv, N!MergedIsWhole, Highest, KeyIsKept, ReadsAreKept
<1>2. N!TypeOK
  <2>1. N!Cardinality(Spellings) \in Nat
    BY CountedSpellings
  <2>2. next \in 0 .. N!Cardinality(Spellings) + 1
    BY <2>1 DEF NamesInv, NamesTypes
  <2>3. \A i \in DOMAIN users : users[i] \in LoginRow
    BY DEF NamesInv, NamesTypes
  <2> QED BY <2>2, <2>3 DEF NamesInv, NamesTypes, N!TypeOK, LoginRow
<1> QED BY <1>1, <1>2
-----------------------------------------------------------------------------
(* The parts of the suite share no state.                                  *)
UpgradeInv == DatabaseInv /\ NamesInv

LEMMA UpgradeStep ==
    ASSUME M!StartsAssumption, M!UsersAssumption, N!SpellingsAssumption, UpgradeInv,
           [SuiteNext /\ UNCHANGED moves]_<<moves, vars, databaseVars, nameVars>>
    PROVE  UpgradeInv'
<1>1. ASSUME M!Next, UNCHANGED nameVars PROVE UpgradeInv'
  BY <1>1, DatabaseNext, NamesStay DEF UpgradeInv
<1>2. ASSUME N!Next, UNCHANGED databaseVars PROVE UpgradeInv'
  BY <1>2, NamesNext, DatabaseStays DEF UpgradeInv
<1>3. ASSUME UNCHANGED databaseVars, UNCHANGED nameVars PROVE UpgradeInv'
  BY <1>3, DatabaseStays, NamesStay DEF UpgradeInv
<1>4. \/ M!Next /\ UNCHANGED nameVars
      \/ N!Next /\ UNCHANGED databaseVars
      \/ UNCHANGED databaseVars /\ UNCHANGED nameVars
  BY DEF SuiteNext
<1> QED BY <1>1, <1>2, <1>3, <1>4

(* The invariants of the migrations and of the merge of names hold always. *)
THEOREM UpgradeInvariance ==
    ASSUME M!StartsAssumption, M!UsersAssumption, N!SpellingsAssumption
    PROVE  SuiteSpec => []UpgradeInv
<1>1. SuiteInit => UpgradeInv
  BY DatabaseInit, NamesInit DEF SuiteInit, UpgradeInv
<1>2. UpgradeInv /\ [SuiteNext /\ UNCHANGED moves]_<<moves, vars, databaseVars, nameVars>> => UpgradeInv'
  BY UpgradeStep
<1> QED BY <1>1, <1>2, PTL DEF SuiteSpec

(* However often a start is cut short, and whatever the builds before and  *)
(* after it could read: a server that is up has the history of every result*)
(* it reads, a migration counts as done only with nothing left to repair,  *)
(* nothing an admin took comes back, and a merged name has the highest     *)
(* role, a key if any had one, and the reads of all its spellings.         *)
THEOREM UpgradesKeep ==
    ASSUME M!StartsAssumption, M!UsersAssumption, N!SpellingsAssumption
    PROVE  SuiteSpec => []UpgradeKeeps
<1>1. UpgradeInv => UpgradeKeeps
  BY DatabaseIsKept, NamesAreWhole DEF UpgradeInv, UpgradeKeeps
<1> QED BY <1>1, UpgradeInvariance, PTL

(* Every variable of the part that moves stays in its range.               *)
THEOREM PartsTypeCorrect ==
    ASSUME SettingsAssumption, M!StartsAssumption, M!UsersAssumption, N!SpellingsAssumption
    PROVE  SuiteSpec => []TypesOK
<1>1. SuiteInit => IInv
  BY InitInv DEF SuiteInit
<1>2. IInv /\ [SuiteNext /\ UNCHANGED moves]_<<moves, vars, databaseVars, nameVars>> => IInv'
  <2>1. CASE Next
    BY <2>1, StepInv
  <2>2. CASE UNCHANGED vars
    BY <2>2, StutterInv
  <2> QED BY <2>1, <2>2 DEF SuiteNext
<1>3. IInv => TypeOK
  BY DEF IInv, AccountsOK, SessionsOK, RestOK, TypeOK
<1>4. IInv /\ UpgradeInv => TypesOK
  BY <1>3, DatabaseIsKept, NamesAreWhole DEF UpgradeInv, TypesOK
<1> QED BY <1>1, <1>2, <1>4, UpgradeInvariance, PTL DEF SuiteSpec
=============================================================================
