------------------------------ MODULE MCAccess ------------------------------
(* Who may use the server, and how it starts on an older database, for TLC:*)
(* accounts, logins and sessions; the migrations; the merge of usernames.  *)
(* They share no state; the first choice of a behaviour is the one that    *)
(* moves.  The accounts are this module's own (EXTENDS), so that the run   *)
(* checks the very properties that are proved of them.                     *)
EXTENDS Accounts, Integers, Sequences, TLC

CONSTANTS
    u1, u2, a1, a2, r1, r2,
    Jobs, MaxStarts,                        \* migrations
    Spellings, Lower, Comments, Ranks       \* usernames

VARIABLES
    moves,
    pc, starts, codec, todo, deferred, result, patched, history, overridden, applied, reviews,
    column, granted, settings, links, mirrored, missed, taken,
    users, reads, before, next, state

M == INSTANCE Migrations WITH Users <- {Bootstrap}
N == INSTANCE UsernameMerge

ASSUME AccountsAssumption == SettingsAssumption
ASSUME MigrationsAssumption == M!StartsAssumption /\ M!UsersAssumption
ASSUME NamesAssumption == N!SpellingsAssumption

databaseVars == <<pc, starts, codec, todo, deferred, result, patched, history, overridden, applied,
                  reviews, column, granted, settings, links, mirrored, missed, taken>>
nameVars == <<users, reads, before, next, state>>

(* The state of a part that does not move is one of its initial states.    *)
SuiteInit ==
    /\ moves \in {"accounts", "migrations", "names"}
    /\ Init /\ (moves # "accounts" => account = CHOOSE first \in FirstAccounts : TRUE)
    /\ M!Init /\ (moves # "migrations" =>
                     overridden = {} /\ applied = {} /\ reviews = "legacy" /\ \A j \in Jobs : result[j] = "none")
    /\ N!Init /\ (moves # "names" => users = <<[name |-> Lower, rank |-> 0, key |-> TRUE]>> /\ reads = {})

SuiteNext ==
    \/ moves = "accounts" /\ Next /\ UNCHANGED <<databaseVars, nameVars>>
    \/ moves = "migrations" /\ M!Next /\ UNCHANGED <<vars, nameVars>>
    \/ moves = "names" /\ N!Next /\ UNCHANGED <<vars, databaseVars>>

SuiteSpec ==
    SuiteInit /\ [][SuiteNext /\ UNCHANGED moves]_<<moves, vars, databaseVars, nameVars>>

----------------------------------------------------------------------------
TwoUsers == {u1, u2}
TwoAttempts == {a1, a2}
TwoRequests == {r1, r2}

(* An admin, and somebody else: another admin whose last login failed, or  *)
(* a disabled operator.                                                    *)
Row(role, disabled, count) ==
    [role |-> role, status |-> "active", disabled |-> disabled, locked |-> FALSE,
     count |-> count, key |-> IF disabled THEN 0 ELSE 1]

AdminAndOther ==
    {[u \in Users |-> IF u = u1 THEN Row("admin", FALSE, 0) ELSE other] :
        other \in {Row("admin", FALSE, 1), Row("operator", TRUE, 0)}}

Symmetry == Permutations(Attempts) \union Permutations(Requests)

(* Every variable of the part that moves stays in its range. *)
TypesOK ==
    /\ moves = "accounts" => TypeOK
    /\ moves = "migrations" => M!TypeOK
    /\ moves = "names" => N!TypeOK

(* A server that is up has the history of every result, a migration counts *)
(* as done only when nothing is left for it to repair, and an upgrade loses*)
(* no login, role or read of a name and gives nothing back that was taken. *)
UpgradeKeeps ==
    M!HistoryComplete /\ M!DoneIsDone /\ M!TakenStaysTaken /\ N!MergedIsWhole
=============================================================================
