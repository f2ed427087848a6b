---------------------------- MODULE TrackedLinks ----------------------------
(***************************************************************************)
(* The issues a failure of a job is tracked in: creating one at a tracker  *)
(* from a report, with the comment and the link that are added after it,   *)
(* linking an existing one, removing a link, and the copy of old links at  *)
(* the start of the server.  One job, one test, several scopes: the top    *)
(* level, a build of a child job, and any build of it.                     *)
(***************************************************************************)
EXTENDS Naturals, FiniteSets

CONSTANTS Requests,     \* the requests the server can be serving at a time
          Users,        \* reviewers
          Admins,       \* those of them who are admins
          Scopes,       \* of "top", "build" and "anyBuild"
          Urls,         \* what can be linked
          Issues,       \* those of Urls a tracker can create
          Legacy,       \* [scope, url] the history held before there were links
          MaxId,        \* links ever inserted
          MaxFailures,  \* writes and calls of a tracker that fail
          MaxRestarts

Nobody == "nobody"      \* created_by = ''
Nowhere == "nowhere"    \* the url of an issue that is still to be created

LinksAssumption == /\ Admins \subseteq Users /\ Nobody \notin Users
                   /\ Issues \subseteq Urls
                   /\ Legacy \subseteq [scope: Scopes, url: Urls] /\ IsFiniteSet(Legacy)

Silent == [op |-> "none", step |-> "idle"]

VARIABLES job,          \* the job's result is stored
          issues,       \* what exists at the trackers
          comments,     \* [url, by]: comments that name an issue
          links,        \* the table tracked_in_links
          lastId,       \* its AUTOINCREMENT sequence
          legacy,       \* the tracked_in columns of failure_history
          request,
          removed,      \* links a user removed and nobody added again
          failures, restarts

vars == <<job, issues, comments, links, lastId, legacy, request, removed,
          failures, restarts>>

Init == /\ job = TRUE
        /\ issues = {} /\ comments = {} /\ links = {} /\ lastId = 0
        /\ legacy = Legacy
        /\ request = [r \in Requests |-> Silent]
        /\ removed = {}
        /\ failures = 0 /\ restarts = 0

Key(l) == [scope |-> l.scope, url |-> l.url]
Fails == failures < MaxFailures /\ failures' = failures + 1

Answer(r, status) ==
    request' = [request EXCEPT ![r].step = "over", ![r].answer = status]

-----------------------------------------------------------------------------
(* The table *)

(* What a push of a scope, and the endpoint that links, read. *)
ForScope(s) ==
    {l \in links : l.scope = s \/ (s = "build" /\ l.scope = "anyBuild")}

(* Without AUTOINCREMENT the id of the last row is given again.            *)
LowestId ==
    IF links = {} THEN 1
    ELSE 1 + CHOOSE i \in {l.id : l \in links} : \A l \in links : l.id <= i
FreshId == lastId + 1

(* A new row, or the row of this scope and url, which takes an owner if it *)
(* has none.                                                               *)
Adopted(l, user) == [l EXCEPT !.by = IF @ = Nobody THEN user ELSE @]
Upsert(s, url, user) ==
    LET same == {l \in links : l.scope = s /\ l.url = url}
    IN  IF same # {}
        THEN /\ links' = (links \ same) \cup {Adopted(l, user) : l \in same}
             /\ UNCHANGED lastId
        ELSE /\ FreshId <= MaxId
             /\ links' = links \cup
                  {[id |-> FreshId, scope |-> s, url |-> url, by |-> user]}
             /\ lastId' = FreshId

Added(s, url) == removed' = removed \ {[scope |-> s, url |-> url]}

-----------------------------------------------------------------------------
(* Linking an issue *)

BeginSet(r, user, s, url) ==
    /\ request[r].step \in {"idle", "over"}
    /\ request' = [request EXCEPT ![r] =
           [op |-> "set", step |-> IF job THEN "look" ELSE "over",
            answer |-> 404, user |-> user, scope |-> s, url |-> url,
            known |-> FALSE, linkId |-> 0]]
    /\ UNCHANGED <<job, issues, comments, links, lastId, legacy, removed,
                   failures, restarts>>

LookBeforeSet(r) ==
    /\ request[r].op = "set" /\ request[r].step = "look"
    /\ request' = [request EXCEPT ![r].step = "write",
           ![r].known = request[r].url \in {l.url : l \in ForScope(request[r].scope)}]
    /\ UNCHANGED <<job, issues, comments, links, lastId, legacy, removed,
                   failures, restarts>>

WriteSet(r) ==
    LET q == request[r] IN
    /\ q.op = "set" /\ q.step = "write"
    /\ Upsert(q.scope, q.url, q.user)
    /\ Added(q.scope, q.url)
    /\ request' = [request EXCEPT ![r] = [q EXCEPT !.step = "over", !.answer = 200,
           !.linkId = IF lastId' # lastId THEN lastId' ELSE 0]]
    /\ UNCHANGED <<job, issues, comments, legacy, failures, restarts>>

-----------------------------------------------------------------------------
(* Removing a link *)

MayDelete(user, l) == user \in Admins \/ l.by = user

BeginDelete(r, user, id) ==
    /\ request[r].step \in {"idle", "over"}
    /\ \E l \in links \cup {[id |-> 0]} :
         /\ l.id = id
         /\ request' = [request EXCEPT ![r] =
              IF id = 0
              THEN [op |-> "delete", step |-> "over", answer |-> 404]
              ELSE IF ~MayDelete(user, l)
              THEN [op |-> "delete", step |-> "over", answer |-> 403]
              ELSE [op |-> "delete", step |-> "write", answer |-> 0,
                    user |-> user, link |-> l]]
    /\ UNCHANGED <<job, issues, comments, links, lastId, legacy, removed,
                   failures, restarts>>

WriteDelete(r) ==
    LET q == request[r]
        gone == {l \in links : l.id = q.link.id}
    IN
    /\ q.op = "delete" /\ q.step = "write"
    /\ links' = links \ gone
    /\ removed' = removed \cup {Key(l) : l \in gone}
    /\ Answer(r, 200)
    /\ UNCHANGED <<job, issues, comments, lastId, legacy, failures, restarts>>

-----------------------------------------------------------------------------
(* Creating an issue *)

BeginCreate(r, user, s) ==
    /\ request[r].step \in {"idle", "over"}
    /\ request' = [request EXCEPT ![r] =
           [op |-> "create", step |-> IF job THEN "post" ELSE "over",
            answer |-> 404, user |-> user, scope |-> s, url |-> Nowhere,
            commented |-> FALSE]]
    /\ UNCHANGED <<job, issues, comments, links, lastId, legacy, removed,
                   failures, restarts>>

Posted(r, url) ==
    /\ request[r].op = "create" /\ request[r].step = "post"
    /\ url \in Issues \ issues
    /\ issues' = issues \cup {url}
    /\ request' = [request EXCEPT ![r].step = "comment", ![r].url = url]
    /\ UNCHANGED <<job, comments, links, lastId, legacy, removed, failures,
                   restarts>>

(* The tracker refuses, or its answer is lost or unreadable although the   *)
(* issue was filed: both are answered 502.                                 *)
PostFails(r) ==
    /\ request[r].op = "create" /\ request[r].step = "post"
    /\ Fails
    /\ \/ UNCHANGED issues
       \/ \E url \in Issues \ issues : issues' = issues \cup {url}
    /\ Answer(r, 502)
    /\ UNCHANGED <<job, comments, links, lastId, legacy, removed, restarts>>

(* Best effort: a write that fails is logged, and the next one is tried.   *)
AddComment(r) ==
    /\ request[r].op = "create" /\ request[r].step = "comment"
    /\ \/ /\ comments' = comments \cup {[url |-> request[r].url, by |-> request[r].user]}
          /\ request' = [request EXCEPT ![r].step = "link", ![r].commented = TRUE]
          /\ UNCHANGED failures
       \/ /\ Fails
          /\ request' = [request EXCEPT ![r].step = "link"]
          /\ UNCHANGED comments
    /\ UNCHANGED <<job, issues, links, lastId, legacy, removed, restarts>>

AddLink(r) ==
    LET q == request[r] IN
    /\ q.op = "create" /\ q.step = "link"
    /\ \/ /\ Upsert(q.scope, q.url, q.user)
          /\ Added(q.scope, q.url)
          /\ UNCHANGED failures
       \/ Fails /\ UNCHANGED <<links, lastId, removed>>
    /\ Answer(r, 201)
    /\ UNCHANGED <<job, issues, comments, legacy, restarts>>

-----------------------------------------------------------------------------
(* The job and the server *)

(* The rows of the job go; those of tracked_in_links are not among them.   *)
DeleteJob ==
    /\ job
    /\ job' = FALSE /\ comments' = {} /\ legacy' = {}
    /\ UNCHANGED <<issues, links, lastId, request, removed, failures, restarts>>

(* The requests die with the server.  Its start copies the old links when  *)
(* the table is empty.                                                     *)
CopiesLegacy == links = {}
Restart ==
    /\ restarts < MaxRestarts
    /\ restarts' = restarts + 1
    /\ request' = [r \in Requests |-> Silent]
    /\ IF CopiesLegacy
       THEN /\ lastId + Cardinality(legacy) <= MaxId
            /\ lastId' = lastId + Cardinality(legacy)
            /\ \E order \in [legacy -> (lastId + 1)..lastId'] :
                 /\ \A a, b \in legacy : order[a] = order[b] => a = b
                 /\ links' = {[id |-> order[k], scope |-> k.scope,
                               url |-> k.url, by |-> Nobody] : k \in legacy}
       ELSE UNCHANGED <<links, lastId>>
    /\ UNCHANGED <<job, issues, comments, legacy, removed, failures>>

Serve(r) ==
    \/ \E user \in Users, s \in Scopes :
         \/ \E url \in Urls : BeginSet(r, user, s, url)
         \/ BeginCreate(r, user, s)
    \/ \E user \in Users, id \in 0..MaxId : BeginDelete(r, user, id)
    \/ LookBeforeSet(r) \/ WriteSet(r) \/ WriteDelete(r)
    \/ \E url \in Issues : Posted(r, url)
    \/ PostFails(r) \/ AddComment(r) \/ AddLink(r)

Next == (\E r \in Requests : Serve(r)) \/ DeleteJob \/ Restart
Spec == Init /\ [][Next]_vars

-----------------------------------------------------------------------------
Owners == Users \cup {Nobody}
LinkRows == [id: 1..MaxId, scope: Scopes, url: Urls, by: Owners]

(* Every variable has its type, and the table its unique index.            *)
TypeOK ==
    /\ job \in BOOLEAN /\ issues \subseteq Issues
    /\ comments \subseteq [url: Issues, by: Users]
    /\ links \subseteq LinkRows /\ lastId \in 0..MaxId
    /\ \A l, m \in links : Key(l) = Key(m) \/ l.id = m.id => l = m
    /\ legacy \subseteq Legacy /\ removed \subseteq [scope: Scopes, url: Urls]
    /\ failures \in 0..MaxFailures /\ restarts \in 0..MaxRestarts
    /\ \A r \in Requests :
         /\ request[r].op \in {"none", "set", "delete", "create"}
         /\ request[r].step \in {"idle", "look", "write", "post", "comment",
                                 "link", "over"}

(* The id a request holds, be it the link it checked and is about to       *)
(* delete or the one it was answered with, never comes to name another     *)
(* link: nobody but its creator or an admin removes a link, however the    *)
(* requests overlap with removals, additions and the copy at the start.    *)
IdsNameOneLink ==
    \A r \in Requests : LET q == request[r] IN
        /\ q.op = "delete" /\ q.step = "write" =>
             \A l \in links : l.id = q.link.id =>
                 Key(l) = Key(q.link) /\ (q.user \in Admins \/ l.by = q.user)
        /\ q.op = "set" /\ q.step = "over" /\ q.answer = 200 =>
             \A l \in links : l.id = q.linkId => Key(l) = Key(q)
=============================================================================
