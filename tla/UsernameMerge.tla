---------------------------- MODULE UsernameMerge ----------------------------
(***************************************************************************)
(* The upgrade that makes usernames case-insensitive: the rows of one name *)
(* in several spellings become one, and what refers to them is re-pointed. *)
(* It is part of init_db's transaction, so a statement that fails undoes   *)
(* it and the server does not start.                                       *)
(*                                                                         *)
(* mention_reads, whose rows are unique, stands for the tables that name   *)
(* users; a user's key is TRUE when there is one.                          *)
(***************************************************************************)
EXTENDS Naturals, Sequences, FiniteSets

CONSTANTS Spellings, Lower, Comments, Ranks

SpellingsAssumption == IsFiniteSet(Spellings) /\ Lower \in Spellings /\ Ranks \subseteq Nat

VARIABLES
    users,      \* the users table, earliest row first
    reads,      \* mention_reads
    before,     \* history: both as the upgrade found them
    next,       \* rows the upgrade has dealt with
    state       \* "starting", "merging", "lowering", "started", "failed"

vars == <<users, reads, before, next, state>>

(* A row for some of the spellings, in the order they were created.        *)
Tables == UNION {[1 .. n -> [name : Spellings, rank : Ranks, key : BOOLEAN]] : n \in 1 .. Cardinality(Spellings)}

Init ==
    /\ users \in {t \in Tables : \A i, j \in DOMAIN t : t[i].name = t[j].name => i = j}
    /\ reads \in SUBSET (Spellings \X Comments)
    /\ \A r \in reads : \E i \in DOMAIN users : users[i].name = r[1]
    /\ before = [users |-> users, reads |-> reads]
    /\ next = 0 /\ state = "starting"

Best(rows) == CHOOSE r \in {rows[i].rank : i \in DOMAIN rows} : \A i \in DOMAIN rows : r >= rows[i].rank

(* Fault: the survivor keeps its own key or none.                          *)
KeptKey(rows) == rows[1].key

(* Its own key, or the first of another row.                               *)
AdoptedKey(rows) == \E i \in DOMAIN rows : rows[i].key

(* The earliest row survives, with the highest role and a key.             *)
Adopt ==
    /\ state = "starting"
    /\ IF Len(users) > 1
       THEN /\ users' = [users EXCEPT ![1].rank = Best(users), ![1].key = AdoptedKey(users)]
            /\ next' = 2 /\ state' = "merging"
       ELSE state' = "lowering" /\ UNCHANGED <<users, next>>
    /\ UNCHANGED <<reads, before>>

Named(name) == {r \in reads : r[1] = name}

(* Its reads are the lower-case name's, which may have some of them.       *)
Repointed(name) == (reads \ Named(name)) \union {<<Lower, r[2]>> : r \in Named(name)}

(* Each later row is re-pointed and deleted.                               *)
MergeRow ==
    /\ state = "merging" /\ next <= Len(users)
    /\ reads' = Repointed(users[next].name)
    /\ next' = next + 1
    /\ UNCHANGED <<users, before, state>>

DeleteMerged ==
    /\ state = "merging" /\ next > Len(users)
    /\ users' = <<[users[1] EXCEPT !.name = Lower]>>
    /\ state' = "lowering"
    /\ UNCHANGED <<reads, before, next>>

(* All names become lower-case at once; a read that would be there twice   *)
(* fails the statement.                                                    *)
Collides == \E r, s \in reads : r # s /\ r[2] = s[2]

LowerNames ==
    /\ state = "lowering"
    /\ IF Collides
       THEN /\ state' = "failed" /\ users' = before.users /\ reads' = before.reads
       ELSE /\ state' = "started"
            /\ users' = [i \in DOMAIN users |-> [users[i] EXCEPT !.name = Lower]]
            /\ reads' = {<<Lower, r[2]>> : r \in reads}
    /\ UNCHANGED <<before, next>>

Next == Adopt \/ MergeRow \/ DeleteMerged \/ LowerNames

Spec == Init /\ [][Next]_vars

----------------------------------------------------------------------------
(* Every variable stays in its range. *)
TypeOK ==
    /\ \A i \in DOMAIN users : users[i] \in [name : Spellings, rank : Ranks, key : BOOLEAN]
    /\ reads \subseteq Spellings \X Comments
    /\ next \in 0 .. Cardinality(Spellings) + 1
    /\ state \in {"starting", "merging", "lowering", "started", "failed"}

(* Whoever could log in under some spelling can under the one that is left,*)
(* with the highest role of them, and has read what any of them had read.  *)
MergedIsWhole ==
    state = "started" =>
        /\ Len(users) = 1 /\ users[1].name = Lower
        /\ users[1].key = (\E i \in DOMAIN before.users : before.users[i].key)
        /\ \A i \in DOMAIN before.users : users[1].rank >= before.users[i].rank
        /\ {r[2] : r \in reads} = {r[2] : r \in before.reads}
=============================================================================
