---------------------------- MODULE JiraConnections ----------------------------
(***************************************************************************)
(* Whose credential a call to Jira carries.  A user's secret is an OAuth   *)
(* client secret (ATOA), a scoped token (ATST) or a plain token, typed     *)
(* into the service-account field or into the regular one; the server has  *)
(* credentials of its own.  Filing and previewing a bug, checking a token, *)
(* the tools of a chat and the enrichment of comments resolve a connection,*)
(* complete it (cloud id, access token, both cached) and call.             *)
(***************************************************************************)
EXTENDS Naturals

CONSTANTS Requests, Users,
          ClientIds,    \* of Atlassian credentials
          Pairs,        \* [client, owner]: secrets that belong to a client id
          Forms,        \* what users type: [sa, token, email]
          Configs,      \* what admins set: [mode, client, cloudId, site]
          Lifetime,     \* of an access token, in ticks
          Margin,       \* _SA_TOKEN_REFRESH_MARGIN_SECONDS; a call takes less
          MaxClock, MaxChanges, MaxFailures

None == "none"
Server == "server"              \* the owner of the server's own secrets
NoClient == "noClient"
Unset == "unset"                \* ''
NoSecret == [owner |-> Unset, kind |-> None, field |-> Unset]
Kinds == {"ATOA", "ATST", "plain"}

VARIABLES clock,
          settings,     \* [mode, client, cloudId, site] of the server
          stored,       \* the tokens of each user in the table
          tokens,       \* _sa_token_cache
          cloudIds,     \* the site is in _cloud_id_cache
          request,
          changes, failures

vars == <<clock, settings, stored, tokens, cloudIds, request, changes, failures>>

Fields == [sa: {None, "ATOA", "ATST"}, token: {None} \cup Kinds, email: BOOLEAN]
Modes == {Unset, "oauth", "atst", "basic", "pat"}
Settings == [mode: Modes, client: ClientIds \cup {NoClient},
             cloudId: BOOLEAN, site: BOOLEAN]

(* A token lives for an hour.  That it does not end during a call takes    *)
(* twice the margin: one for the call, and one for the call that minted it.*)
JiraAssumption == /\ Lifetime \in Nat /\ Margin \in 1..Lifetime /\ 2 * Margin <= Lifetime + 1
                  /\ Forms \subseteq Fields /\ Configs \subseteq Settings /\ Configs # {}
Silent == [op |-> None, step |-> "idle"]

Init == /\ clock = 0
        /\ settings \in Configs
        /\ stored = [u \in Users |-> [sa |-> None, token |-> None, email |-> FALSE]]
        /\ tokens = [key \in {} |-> NoSecret] /\ cloudIds = FALSE
        /\ request = [r \in Requests |-> Silent]
        /\ changes = 0 /\ failures = 0

Secret(owner, kind, field) == [owner |-> owner, kind |-> kind, field |-> field]
End(r) == request' = [request EXCEPT ![r] = Silent]
Fails == failures < MaxFailures /\ failures' = failures + 1

-----------------------------------------------------------------------------
(* Choosing the method *)

Classified(kind) == kind \in {"ATOA", "ATST"}

NoCredentials ==
    [mode |-> Unset, oauth |-> NoSecret, atst |-> NoSecret, api |-> NoSecret, pat |-> NoSecret,
     email |-> None]
OfServer(s) ==
    [mode |-> s.mode,
     oauth |-> Secret(Server, "ATOA", "server"), atst |-> Secret(Server, "ATST", "server"),
     api |-> Secret(Server, "plain", "server"), pat |-> Secret(Server, "plain", "server"),
     email |-> Server]

ByKind(secret) ==
    IF secret.kind = "ATOA" THEN [NoCredentials EXCEPT !.mode = "oauth", !.oauth = secret]
    ELSE [NoCredentials EXCEPT !.mode = "atst", !.atst = secret]

Regular(secret, email) ==
    IF email # None
    THEN [NoCredentials EXCEPT !.mode = "basic", !.api = secret, !.email = email]
    ELSE [NoCredentials EXCEPT !.mode = "pat", !.pat = secret]

EmailOf(u, f) == IF f.email THEN u ELSE None

(* A prefix wins over the field, the service-account field over the other. *)
Effective(s, u, f) ==
    IF Classified(f.sa) THEN ByKind(Secret(u, f.sa, "sa"))
    ELSE IF Classified(f.token) THEN ByKind(Secret(u, f.token, "token"))
    ELSE IF f.token # None THEN Regular(Secret(u, f.token, "token"), EmailOf(u, f))
    ELSE OfServer(s)

(* A chat resolves the fields of the table, and no secret of the server.   *)
FromParams(s, u, f) ==
    LET bare == f.sa = None /\ Classified(f.token)
        oauth == IF bare /\ f.token = "ATOA" THEN Secret(u, "ATOA", "token")
                 ELSE IF f.sa = "ATOA" THEN Secret(u, "ATOA", "sa") ELSE NoSecret
        atst == IF bare /\ f.token = "ATST" THEN Secret(u, "ATST", "token")
                ELSE IF f.sa = "ATST" THEN Secret(u, "ATST", "sa") ELSE NoSecret
        token == IF bare \/ f.token = None THEN NoSecret ELSE Secret(u, f.token, "token")
    IN  IF atst # NoSecret THEN ByKind(atst)
        ELSE IF oauth # NoSecret /\ s.client # NoClient THEN ByKind(oauth)
        ELSE IF token # NoSecret THEN Regular(token, EmailOf(u, f))
        ELSE NoCredentials

Missing(s, e) ==
    \/ e.mode = "oauth" /\ (e.oauth = NoSecret \/ s.client = NoClient \/ ~s.cloudId)
    \/ e.mode = "atst" /\ (e.atst = NoSecret \/ ~s.cloudId)
    \/ e.mode = "basic" /\ (e.email = None \/ e.api = NoSecret)
    \/ e.mode = "pat" /\ e.pat = NoSecret
Configured(s, e) == e.mode # Unset /\ ~Missing(s, e)
Enabled(s) == Configured(s, OfServer(s))

(* Only the fields of the selected method are used.                        *)
Connection(s, e) ==
    LET gateway == IF s.cloudId THEN "gateway" ELSE Unset
        plain == [mode |-> None, base |-> Unset, email |-> None, bearer |-> NoSecret,
                  client |-> NoClient, secret |-> NoSecret, site |-> s.site]
    IN  IF e.mode = "oauth" /\ e.oauth # NoSecret /\ s.client # NoClient
        THEN [plain EXCEPT !.mode = "sa", !.base = gateway, !.client = s.client,
                           !.secret = e.oauth]
        ELSE IF e.mode = "atst" /\ e.atst # NoSecret
        THEN [plain EXCEPT !.mode = "atst", !.base = gateway, !.bearer = e.atst]
        ELSE IF e.mode = "basic" /\ e.email # None /\ e.api # NoSecret
        THEN [plain EXCEPT !.mode = "cloud", !.base = "cloud", !.email = e.email,
                           !.bearer = e.api]
        ELSE IF e.mode = "pat" /\ e.pat # NoSecret
        THEN [plain EXCEPT !.mode = "server", !.base = "server", !.bearer = e.pat]
        ELSE plain

-----------------------------------------------------------------------------
(* Completing a connection *)

Calling(c) == [step |-> "call", connection |-> c, at |-> clock]

(* Minted tokens are kept per credential until shortly before their end.   *)
SharedKey(client, secret) == client
CacheKey(client, secret) == <<client, secret>>
Fresh(token) == token.expires > clock + Margin

Bearing(c, token) == [c EXCEPT !.bearer = token]
WithToken(c) ==
    LET key == CacheKey(c.client, c.secret)
    IN  IF c.mode = "atst" THEN Calling(c)
        ELSE IF key \in DOMAIN tokens /\ Fresh(tokens[key])
        THEN Calling(Bearing(c, tokens[key]))
        ELSE [step |-> "mint", connection |-> c, at |-> clock]

(* The cloud id comes from the settings, the cache or the site; without    *)
(* one nothing is minted and nothing called.                               *)
Located(c) == [c EXCEPT !.base = "gateway"]
Resolved(c) ==
    IF c.mode \notin {"sa", "atst"} THEN Calling(c)
    ELSE IF c.base # Unset \/ (c.site /\ cloudIds) THEN WithToken(Located(c))
    ELSE IF c.site THEN [step |-> "locate", connection |-> c, at |-> 0]
    ELSE Silent

Doing(op, user, next) == [op |-> op, user |-> user, step |-> next.step,
                          connection |-> next.connection, at |-> next.at]
Goes(r, next) == request' = [request EXCEPT ![r] = Doing(@.op, @.user, next)]

FindCloudId(r) ==
    /\ request[r].step = "locate"
    /\ \/ /\ cloudIds' = TRUE
          /\ Goes(r, WithToken(Located(request[r].connection)))
          /\ UNCHANGED failures
       \/ Fails /\ End(r) /\ UNCHANGED cloudIds
    /\ UNCHANGED <<clock, settings, stored, tokens, changes>>

(* The end of a token is counted from before the call; a secret that does  *)
(* not belong to the client id, or an outage, is a refusal.                *)
Mint(r) ==
    LET c == request[r].connection
        token == [owner |-> c.secret.owner, kind |-> "access",
                  field |-> c.secret.field,
                  expires |-> request[r].at + Lifetime]
        valid == [client |-> c.client, owner |-> c.secret.owner] \in Pairs
    IN
    /\ request[r].step = "mint"
    /\ \/ /\ valid
          /\ tokens' = [key \in DOMAIN tokens \cup {CacheKey(c.client, c.secret)} |->
                          IF key = CacheKey(c.client, c.secret) THEN token ELSE tokens[key]]
          /\ Goes(r, Calling(Bearing(c, token)))
          /\ UNCHANGED failures
       \/ ~valid /\ End(r) /\ UNCHANGED <<tokens, failures>>
       \/ Fails /\ End(r) /\ UNCHANGED tokens
    /\ UNCHANGED <<clock, settings, stored, cloudIds, changes>>

(* A chat keeps its connection for as long as it runs.                     *)
Call(r) ==
    /\ request[r].step = "call"
    /\ End(r)
    /\ UNCHANGED <<clock, settings, stored, tokens, cloudIds, changes, failures>>

-----------------------------------------------------------------------------
(* The requests *)

Starts(r, user, c) ==
    /\ request[r].step = "idle" /\ Resolved(c).step # "idle"
    /\ request' = [request EXCEPT ![r] = Doing("own", user, Resolved(c))]
    /\ UNCHANGED <<clock, settings, stored, tokens, cloudIds, changes, failures>>

(* A bug is filed, and its duplicates searched for a preview, only with a  *)
(* token of the user's own and with every field of its method.             *)
UsersOwn(u, f) ==
    /\ f.sa # None \/ f.token # None
    /\ Configured(settings, Effective(settings, u, f))
Create(r, u, f) ==
    /\ UsersOwn(u, f)
    /\ Starts(r, u, Connection(settings, Effective(settings, u, f)))
Preview(r, u, f) ==
    /\ UsersOwn(u, f)
    /\ Starts(r, u, Connection(settings, Effective(settings, u, f)))

(* One token is checked, whichever field it will go to.                    *)
Validate(r, u, f) ==
    LET c == Connection(settings, FromParams(settings, u, f))
    IN  f.sa = None /\ c.mode # None /\ Starts(r, u, c)

(* The tickets named in comments are looked up as the server.              *)
Enrich(r) ==
    /\ Enabled(settings)
    /\ Starts(r, Server, Connection(settings, OfServer(settings)))

(* A chat has read the settings when it reads the tokens of its user.      *)
StartChat(r, u) ==
    /\ request[r].step = "idle"
    /\ request' = [request EXCEPT ![r] =
           [op |-> "chat", user |-> u, step |-> "tokens", seen |-> settings]]
    /\ UNCHANGED <<clock, settings, stored, tokens, cloudIds, changes, failures>>

ReadTokens(r) ==
    LET q == request[r]
        c == Connection(q.seen, FromParams(q.seen, q.user, stored[q.user]))
    IN
    /\ q.step = "tokens"
    /\ request' = [request EXCEPT ![r] =
           IF c.mode = None \/ Resolved(c).step = "idle" THEN Silent
           ELSE Doing("chat", q.user, Resolved(c))]
    /\ UNCHANGED <<clock, settings, stored, tokens, cloudIds, changes, failures>>

-----------------------------------------------------------------------------
(* Users and admins change what is stored.                                 *)

SaveTokens(u, f) ==
    /\ changes < MaxChanges
    /\ changes' = changes + 1
    /\ stored' = [stored EXCEPT ![u] = f]
    /\ UNCHANGED <<clock, settings, tokens, cloudIds, request, failures>>

ChangeSettings(s) ==
    /\ changes < MaxChanges /\ s # settings
    /\ changes' = changes + 1
    /\ settings' = s
    /\ UNCHANGED <<clock, stored, tokens, cloudIds, request, failures>>

(* Calls and mints time out before the margin is over.                     *)
Tick ==
    /\ clock < MaxClock
    /\ \A r \in Requests :
          \/ request[r].step = "mint"
          \/ request[r].step = "call" /\ request[r].op # "chat"
          => clock + 1 < request[r].at + Margin
    /\ clock' = clock + 1
    /\ UNCHANGED <<settings, stored, tokens, cloudIds, request, changes, failures>>

Serve(r) ==
    \/ \E u \in Users, f \in Forms :
         Create(r, u, f) \/ Preview(r, u, f) \/ Validate(r, u, f)
    \/ Enrich(r) \/ (\E u \in Users : StartChat(r, u)) \/ ReadTokens(r)
    \/ FindCloudId(r) \/ Mint(r) \/ Call(r)

Next == \/ \E r \in Requests : Serve(r)
        \/ \E u \in Users, f \in Forms : SaveTokens(u, f)
        \/ \E s \in Configs : ChangeSettings(s)
        \/ Tick
Spec == Init /\ [][Next]_vars

-----------------------------------------------------------------------------
(* Every variable has its type.                                            *)
TypeOK ==
    /\ clock \in 0..MaxClock /\ settings \in Configs
    /\ stored \in [Users -> Fields] /\ cloudIds \in BOOLEAN
    /\ \A key \in DOMAIN tokens : tokens[key].owner \in Users \cup {Server}
    /\ \A r \in Requests :
         request[r].step \in {"idle", "tokens", "locate", "mint", "call"}
    /\ changes \in 0..MaxChanges /\ failures \in 0..MaxFailures

(* What reaches Jira for a user carries that user's credential, the email  *)
(* with the token of the same user, and an access token minted from that   *)
(* user's secret and still valid: never the server's, another user's or a  *)
(* client secret, through whatever the caches hold.  Comments are enriched *)
(* with the server's alone.                                                *)
FiledAsTheUser ==
    \A r \in Requests : request[r].step = "call" =>
        LET q == request[r]
            c == q.connection
        IN  /\ c.base # Unset /\ c.bearer # NoSecret
            /\ c.bearer.owner = q.user
            /\ c.email \in {None, q.user}
            /\ c.base = "gateway" => c.bearer.kind # "ATOA"
            /\ c.bearer.kind = "access" /\ q.op # "chat" => c.bearer.expires > clock
=============================================================================
