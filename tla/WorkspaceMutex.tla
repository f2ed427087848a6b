--------------------------- MODULE WorkspaceMutex ---------------------------
(***************************************************************************)
(* What the lock of a workspace promises, without files: "exactly one      *)
(* install (or cleanup) runs at a time".  The files, the gate before them  *)
(* and their removal are in WorkspaceLocks, which implements this.         *)
(***************************************************************************)
CONSTANTS Threads, Workspaces

VARIABLE inside     \* the threads that have the lock of each workspace

Init == inside = [w \in Workspaces |-> {}]

Enter(t, w) == inside[w] = {} /\ inside' = [inside EXCEPT ![w] = {t}]

Leave(t, w) == inside[w] = {t} /\ inside' = [inside EXCEPT ![w] = {}]

Next == \E t \in Threads, w \in Workspaces : Enter(t, w) \/ Leave(t, w)

Spec == Init /\ [][Next]_inside
=============================================================================
