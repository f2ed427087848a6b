------------------------------ MODULE Mentions ------------------------------
(***************************************************************************)
(* Comments that mention users, what each user has read of them, and the   *)
(* push subscriptions that are told.  Requests read, write and announce in *)
(* steps of their own; the badge of a user is refreshed when something is  *)
(* announced to that user (see Streams).                                   *)
(*                                                                         *)
(* A comment is who wrote it and whom it mentions.  All are of one job.    *)
(***************************************************************************)
EXTENDS Naturals, FiniteSets, Sequences, FiniteSetsExt

CONSTANTS
    Users,
    Requests,       \* request handlers that may overlap
    Endpoints,      \* of the push service
    MaxDevices,     \* MAX_PUSH_SUBSCRIPTIONS_PER_USER
    MaxComments, MaxSaves

DevicesAssumption == MaxDevices \in Nat \ {0}

VARIABLES
    job,        \* the job exists
    comments,   \* rows of table comments
    lastId,
    reads,      \* mention_reads: user and comment id
    request,    \* the handlers: program counter and local variables
    badge,      \* the unread count each user was last shown
    unsure,     \* users whose count changed without an announcement
    subscriptions, lastSave,
    expired,    \* endpoints the push service answers with 410
    pruned      \* subscriptions that a dispatch removed

vars == <<job, comments, lastId, reads, request, badge, unsure, subscriptions, lastSave, expired, pruned>>
deviceVars == <<subscriptions, lastSave, expired, pruned>>

Idle == [step |-> "idle", user |-> CHOOSE u \in Users : TRUE, id |-> 0, mentions |-> {}, ids |-> {},
         sent |-> {}]

Init ==
    /\ job = TRUE /\ comments = {} /\ lastId = 0 /\ reads = {}
    /\ request = [q \in Requests |-> Idle]
    /\ badge = [u \in Users |-> 0] /\ unsure = {}
    /\ subscriptions = {} /\ lastSave = 0 /\ expired = {} /\ pruned = {}

(* _fetch_mention_candidates: comments that name the user, unread ones.    *)
Unread(u) == {c \in comments : u \in c.mentions /\ <<u, c.id>> \notin reads}
Ids(set) == {c.id : c \in set}

Become(q, state) == request' = [request EXCEPT ![q] = state]
Done(q) == Become(q, Idle)

(* The streams of the users read their counts again.                       *)
Announce(users) ==
    /\ badge' = [u \in Users |-> IF u \in users THEN Cardinality(Unread(u)) ELSE badge[u]]
    /\ unsure' = unsure \ users

----------------------------------------------------------------------------
(* add_comment *)

(* The test is looked up in the result before the comment is inserted.     *)
Comment(q, author, mentions) ==
    /\ request[q].step = "idle" /\ job
    /\ Become(q, [Idle EXCEPT !.step = "insert", !.user = author, !.mentions = mentions])
    /\ UNCHANGED <<job, comments, lastId, reads, badge, unsure>> /\ UNCHANGED deviceVars

InsertComment(q) ==
    /\ request[q].step = "insert" /\ lastId < MaxComments
    /\ lastId' = lastId + 1
    /\ comments' = comments \union
           {[id |-> lastId + 1, author |-> request[q].user, mentions |-> request[q].mentions]}
    /\ Become(q, [request[q] EXCEPT !.step = "announce"])
    /\ UNCHANGED <<job, reads, badge, unsure>> /\ UNCHANGED deviceVars

(* The dispatch runs on its own, for the others it mentions.               *)
AnnounceComment(q) ==
    /\ request[q].step = "announce"
    /\ Announce(request[q].mentions)
    /\ LET recipients == request[q].mentions \ {request[q].user} IN
       IF recipients = {} THEN Done(q)
       ELSE Become(q, [request[q] EXCEPT !.step = "dispatch", !.mentions = recipients])
    /\ UNCHANGED <<job, comments, lastId, reads>> /\ UNCHANGED deviceVars

----------------------------------------------------------------------------
(* delete_comment_endpoint, of the author or of an admin. *)

(* Whom it mentions is read before, if the read succeeds and finds it.     *)
FindComment(q, c, found) ==
    /\ request[q].step = "idle"
    /\ Become(q, [Idle EXCEPT !.step = "delete", !.user = c.author, !.id = c.id,
                              !.mentions = IF found THEN c.mentions ELSE {}])
    /\ UNCHANGED <<job, comments, lastId, reads, badge, unsure>> /\ UNCHANGED deviceVars

(* Whoever mentions nobody, or was not found, announces to the deleter.    *)
DeleteComment(q) ==
    LET gone == {c \in comments : c.id = request[q].id} IN
    /\ request[q].step = "delete"
    /\ comments' = comments \ gone
    /\ reads' = IF gone = {} THEN reads ELSE {r \in reads : r[2] # request[q].id}
    /\ unsure' = unsure \union ((UNION {c.mentions : c \in gone}) \ request[q].mentions)
    /\ IF gone = {} THEN Done(q) ELSE Become(q, [request[q] EXCEPT !.step = "deleted"])
    /\ UNCHANGED <<job, lastId, badge>> /\ UNCHANGED deviceVars

(* Fault: only whoever deletes is told.                                    *)
ToldDeleter(q) == {request[q].user}

Told(q) == request[q].mentions \union {request[q].user}

AnnounceDeleted(q) ==
    /\ request[q].step = "deleted" /\ Done(q)
    /\ Announce(Told(q))
    /\ UNCHANGED <<job, comments, lastId, reads>> /\ UNCHANGED deviceVars

(* The job goes with its comments; nobody they mention is told.            *)
DeleteJob ==
    /\ job /\ job' = FALSE
    /\ comments' = {} /\ reads' = {r \in reads : r[2] \notin Ids(comments)}
    /\ unsure' = unsure \union {u \in Users : Unread(u) # {}}
    /\ UNCHANGED <<lastId, request, badge>> /\ UNCHANGED deviceVars

----------------------------------------------------------------------------
(* mark_mentions_as_read and mark_all_mentions_read_endpoint. *)

(* The named comments, or all that are unread now.                         *)
MarkRead(q, u, ids) ==
    /\ request[q].step = "idle" /\ ids # {}
    /\ Become(q, [Idle EXCEPT !.step = "mark", !.user = u, !.ids = ids])
    /\ UNCHANGED <<job, comments, lastId, reads, badge, unsure>> /\ UNCHANGED deviceVars

InsertReads(q) ==
    /\ request[q].step = "mark"
    /\ reads' = reads \union {<<request[q].user, id>> : id \in request[q].ids}
    /\ Become(q, [request[q] EXCEPT !.step = "marked"])
    /\ UNCHANGED <<job, comments, lastId, badge, unsure>> /\ UNCHANGED deviceVars

AnnounceRead(q) ==
    /\ request[q].step = "marked" /\ Done(q)
    /\ Announce({request[q].user})
    /\ UNCHANGED <<job, comments, lastId, reads>> /\ UNCHANGED deviceVars

----------------------------------------------------------------------------
(* Push subscriptions. *)

CommentsUnchanged == UNCHANGED <<job, comments, lastId, reads, badge, unsure>>
Of(u) == {s \in subscriptions : s.user = u}

(* Fault: the limit is applied as if the new device were not there.        *)
NewestBefore(mine) == {s \in mine : Cardinality({o \in mine : o.at > s.at}) < MaxDevices}

Newest(mine) == {s \in mine : Cardinality({o \in mine : o.at > s.at}) < MaxDevices - 1}

(* An endpoint has one user; a user keeps the newest MaxDevices.           *)
Subscribe(u, e) ==
    LET row == [endpoint |-> e, user |-> u, at |-> lastSave + 1]
        others == {s \in subscriptions : s.endpoint # e}
        mine == {s \in others : s.user = u} IN
    /\ e \notin expired /\ lastSave < MaxSaves /\ lastSave' = lastSave + 1
    /\ subscriptions' = {row} \union (others \ mine) \union Newest(mine)
    /\ CommentsUnchanged /\ UNCHANGED <<request, expired, pruned>>

Unsubscribe(s) ==
    /\ s \in subscriptions /\ subscriptions' = subscriptions \ {s}
    /\ CommentsUnchanged /\ UNCHANGED <<request, lastSave, expired, pruned>>

Expire(e) ==
    /\ \E s \in subscriptions : s.endpoint = e
    /\ expired' = expired \union {e}
    /\ CommentsUnchanged /\ UNCHANGED <<request, subscriptions, lastSave, pruned>>

(* send_mention_notifications reads the subscriptions of its recipients.   *)
ReadSubscriptions(q) ==
    /\ request[q].step = "dispatch"
    /\ Become(q, [request[q] EXCEPT !.step = "push",
                                    !.ids = {s.endpoint : s \in UNION {Of(u) : u \in request[q].mentions}}])
    /\ CommentsUnchanged /\ UNCHANGED deviceVars

(* Fault: an endpoint that could not be reached counts as stale.           *)
AnyFailure(e, reached) == e \in expired \/ ~reached

(* Stale is what is gone.                                                  *)
Stale(e, reached) == e \in expired

(* Each is sent the message; the ones that are stale are remembered.       *)
Push(q, e, reached) ==
    /\ request[q].step = "push" /\ e \in request[q].ids
    /\ Become(q, [request[q] EXCEPT !.ids = @ \ {e},
                                    !.sent = IF Stale(e, reached) THEN @ \union {e} ELSE @])
    /\ CommentsUnchanged /\ UNCHANGED deviceVars

(* delete_stale_push_subscriptions, when all were sent.                    *)
Prune(q) ==
    LET stale == {s \in subscriptions : s.endpoint \in request[q].sent} IN
    /\ request[q].step = "push" /\ request[q].ids = {} /\ Done(q)
    /\ subscriptions' = subscriptions \ stale /\ pruned' = pruned \union stale
    /\ CommentsUnchanged /\ UNCHANGED <<lastSave, expired>>

Next ==
    \/ \E q \in Requests :
        \/ \E u \in Users, m \in SUBSET Users : Comment(q, u, m)
        \/ InsertComment(q) \/ AnnounceComment(q)
        \/ \E c \in comments, found \in BOOLEAN : FindComment(q, c, found)
        \/ DeleteComment(q) \/ AnnounceDeleted(q)
        \/ \E u \in Users : \E ids \in {{c.id} : c \in comments} \union {Ids(Unread(u))} : MarkRead(q, u, ids)
        \/ InsertReads(q) \/ AnnounceRead(q)
        \/ ReadSubscriptions(q) \/ Prune(q)
        \/ \E e \in Endpoints, reached \in BOOLEAN : Push(q, e, reached)
    \/ DeleteJob
    \/ \E u \in Users, e \in Endpoints : Subscribe(u, e)
    \/ \E s \in subscriptions : Unsubscribe(s)
    \/ \E e \in Endpoints : Expire(e)

Spec == Init /\ [][Next]_vars

----------------------------------------------------------------------------
(* Every variable stays in its range. *)
TypeOK ==
    /\ lastId \in 0 .. MaxComments /\ Ids(comments) \subseteq 1 .. lastId
    /\ reads \subseteq Users \X (1 .. lastId) /\ unsure \subseteq Users
    /\ \A u \in Users : Cardinality(Of(u)) <= MaxDevices

(* When no request is under way each badge counts the comments that mention*)
(* its user unread, unless a job or an unread comment went unannounced.    *)
BadgesCount ==
    (\A q \in Requests : request[q].step \in {"idle", "dispatch", "push"}) =>
        \A u \in Users \ unsure : badge[u] = Cardinality(Unread(u))

(* A dispatch removes subscriptions of endpoints that are gone only, and   *)
(* an endpoint is never two users'.                                        *)
SubscriptionsAreKept ==
    /\ \A s \in pruned : s.endpoint \in expired
    /\ \A s, t \in subscriptions : s.endpoint = t.endpoint => s = t
=============================================================================
