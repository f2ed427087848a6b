--------------------------- MODULE GraftSessions ---------------------------
(***************************************************************************)
(* The loopback server that answers the questions of AI sessions about the *)
(* code graphs: a workspace is registered for a job and gets a token, its  *)
(* questions are answered by threads of the server, and what a question    *)
(* saved is credited to the job if its registration still stands.  Each    *)
(* workspace has a lease, a lock that the registry holds weakly: it goes   *)
(* when nobody refers to it.                                               *)
(***************************************************************************)
EXTENDS Naturals, FiniteSets

CONSTANTS
    Workspaces, Jobs,
    Roots,          \* sets of clones a workspace may be registered with
    Callers,        \* threads that register or unregister
    Handlers,       \* threads of the server
    MaxTokens, MaxQuestions

VARIABLES
    session,    \* the registry: of each workspace and job
    tokens,     \* registrations so far
    server,     \* the listener: "off", "on"
    locked,     \* who holds the lease of a workspace
    caller, handler,
    questions,
    revoked,    \* tokens of workspaces that were unregistered
    late        \* tokens credited after that

vars == <<session, tokens, server, locked, caller, handler, questions, revoked, late>>

NoSession == [token |-> 0, roots |-> {}]
SessionKeys == Workspaces \X Jobs
Free == "nobody"
IdleCaller == [step |-> "idle", workspace |-> CHOOSE w \in Workspaces : TRUE,
               job |-> CHOOSE j \in Jobs : TRUE, roots |-> {}]
IdleHandler == [step |-> "idle", key |-> CHOOSE k \in SessionKeys : TRUE, token |-> 0]

Init ==
    /\ session = [k \in SessionKeys |-> NoSession] /\ tokens = 0 /\ server = "off"
    /\ locked = [w \in Workspaces |-> Free]
    /\ caller = [c \in Callers |-> IdleCaller] /\ handler = [h \in Handlers |-> IdleHandler]
    /\ questions = 0 /\ revoked = {} /\ late = {}

Registered == {k \in SessionKeys : session[k].token # 0}

(* register_workspace: the lease first, then the registry.                 *)
StartRegister(c, w, j, roots) ==
    /\ caller[c].step = "idle"
    /\ caller' = [caller EXCEPT ![c] = [step |-> "lease", workspace |-> w, job |-> j, roots |-> roots]]
    /\ UNCHANGED <<session, tokens, server, locked, handler, questions, revoked, late>>

TakeLease(c) ==
    LET w == caller[c].workspace IN
    /\ caller[c].step \in {"lease", "revoke"} /\ locked[w] = Free
    /\ locked' = [locked EXCEPT ![w] = c]
    /\ caller' = [caller EXCEPT ![c].step = IF @ = "lease" THEN "register" ELSE "unregister"]
    /\ UNCHANGED <<session, tokens, server, handler, questions, revoked, late>>

(* The same clones keep their token; others get a new one.                 *)
Register(c) ==
    LET w == caller[c].workspace
        k == <<w, caller[c].job>>
        kept == session[k].token # 0 /\ session[k].roots = caller[c].roots
    IN
    /\ caller[c].step = "register" /\ (kept \/ tokens < MaxTokens)
    /\ server' = "on"
    /\ session' = IF kept THEN session
                  ELSE [session EXCEPT ![k] = [token |-> tokens + 1, roots |-> caller[c].roots]]
    /\ tokens' = IF kept THEN tokens ELSE tokens + 1
    /\ locked' = [locked EXCEPT ![w] = Free]
    /\ caller' = [caller EXCEPT ![c] = IdleCaller]
    /\ UNCHANGED <<handler, questions, revoked, late>>

(* Somebody refers to the lease: a registration, or a thread that uses it. *)
LeaseAlive(w) ==
    \/ \E k \in Registered : k[1] = w
    \/ \E h \in Handlers : handler[h].step # "idle" /\ handler[h].key[1] = w
    \/ \E c \in Callers : caller[c].step # "idle" /\ caller[c].workspace = w

(* unregister_workspace: without a lease there is nothing to revoke.       *)
StartUnregister(c, w) ==
    /\ caller[c].step = "idle" /\ LeaseAlive(w)
    /\ caller' = [caller EXCEPT ![c] = [IdleCaller EXCEPT !.step = "revoke", !.workspace = w]]
    /\ UNCHANGED <<session, tokens, server, locked, handler, questions, revoked, late>>

(* The server stops with the last session.                                 *)
Unregister(c) ==
    LET w == caller[c].workspace IN
    /\ caller[c].step = "unregister"
    /\ session' = [k \in SessionKeys |-> IF k[1] = w THEN NoSession ELSE session[k]]
    /\ server' = IF \A k \in Registered : k[1] = w THEN "off" ELSE server
    /\ revoked' = revoked \union {session[k].token : k \in {r \in Registered : r[1] = w}}
    /\ locked' = [locked EXCEPT ![w] = Free]
    /\ caller' = [caller EXCEPT ![c] = IdleCaller]
    /\ UNCHANGED <<tokens, handler, questions, late>>

----------------------------------------------------------------------------
(* _Handler.do_POST *)

(* The token names the session; the rest of the request is checked.        *)
Authenticate(h, k) ==
    /\ handler[h].step = "idle" /\ server = "on" /\ k \in Registered
    /\ questions < MaxQuestions /\ questions' = questions + 1
    /\ handler' = [handler EXCEPT ![h] = [step |-> "query", key |-> k, token |-> session[k].token]]
    /\ UNCHANGED <<session, tokens, server, locked, caller, revoked, late>>

(* It is answered (see Graft), and only then credited.                     *)
Reply(h, saves) ==
    /\ handler[h].step = "query"
    /\ handler' = [handler EXCEPT ![h] = IF saves THEN [@ EXCEPT !.step = "lease"] ELSE IdleHandler]
    /\ UNCHANGED <<session, tokens, server, locked, caller, questions, revoked, late>>

(* Fault: the lease is not waited for.                                     *)
WithoutLease(h) == UNCHANGED locked

WithLease(h) ==
    /\ locked[handler[h].key[1]] = Free
    /\ locked' = [locked EXCEPT ![handler[h].key[1]] = h]

(* The registration is the very one the request came in with.              *)
Active(h) == session[handler[h].key].token = handler[h].token

CheckActive(h) ==
    /\ handler[h].step = "lease" /\ WithLease(h)
    /\ handler' = [handler EXCEPT ![h].step = IF Active(h) THEN "credit" ELSE "leave"]
    /\ UNCHANGED <<session, tokens, server, caller, questions, revoked, late>>

Credit(h) ==
    /\ handler[h].step = "credit"
    /\ late' = IF handler[h].token \in revoked THEN late \union {handler[h].token} ELSE late
    /\ handler' = [handler EXCEPT ![h].step = "leave"]
    /\ UNCHANGED <<session, tokens, server, locked, caller, questions, revoked>>

Leave(h) ==
    /\ handler[h].step = "leave"
    /\ locked' = [w \in Workspaces |-> IF locked[w] = h THEN Free ELSE locked[w]]
    /\ handler' = [handler EXCEPT ![h] = IdleHandler]
    /\ UNCHANGED <<session, tokens, server, caller, questions, revoked, late>>

Next ==
    \/ \E c \in Callers :
        \/ \E w \in Workspaces, j \in Jobs, roots \in Roots : StartRegister(c, w, j, roots)
        \/ \E w \in Workspaces : StartUnregister(c, w)
        \/ TakeLease(c) \/ Register(c) \/ Unregister(c)
    \/ \E h \in Handlers :
        \/ \E k \in SessionKeys : Authenticate(h, k)
        \/ \E saves \in BOOLEAN : Reply(h, saves)
        \/ CheckActive(h) \/ Credit(h) \/ Leave(h)

Spec == Init /\ [][Next]_vars

----------------------------------------------------------------------------
(* Every variable stays in its range. *)
TypeOK ==
    /\ tokens \in 0 .. MaxTokens /\ server \in {"off", "on"}
    /\ \A k \in SessionKeys : session[k].token \in 0 .. tokens
    /\ locked \in [Workspaces -> Callers \union Handlers \union {Free}]
    /\ revoked \subseteq 1 .. tokens /\ late \subseteq revoked

(* "Prevents stale credit": nothing is credited to a job for a workspace   *)
(* that has been unregistered since the question came.  The server runs    *)
(* exactly while somebody is registered, and no token is given out twice.  *)
NoStaleCredit ==
    /\ late = {}
    /\ server = "on" <=> Registered # {}
    /\ \A k, l \in Registered : session[k].token = session[l].token => k = l
=============================================================================
