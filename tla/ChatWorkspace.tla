--------------------------- MODULE ChatWorkspace ---------------------------
(***************************************************************************)
(* The working directories of AI sessions of one job and what is brought   *)
(* into them: the chat workspace of each user, filled by Start and removed *)
(* with the job, and that of a re-analysis, removed when it is over.  A    *)
(* clone and a download run in threads that a cancelled coroutine leaves   *)
(* behind; downloaded artifacts lie outside, behind a link.                *)
(*                                                                         *)
(* The build is a Jenkins build (the Prow source links in the same way).   *)
(* One user's Starts are serialized by the lock of the chat (JobChat).     *)
(***************************************************************************)
EXTENDS Naturals, FiniteSets

CONSTANTS
    Users, Analyses,    \* whose workspaces there are
    MaxStarts, MaxDirs

Tenants == Users \union Analyses
Resources == {"console", "info"}

VARIABLES
    job,        \* "there", "deleting" or "gone"
    disk,       \* the directories of downloaded artifacts
    lastDir,
    place,      \* each workspace: whether it exists, its clone, its files, its link
    run,        \* the coroutine: its step, the files it wrote, the directory it must remove
    thread,     \* the worker thread: its step and its directory
    chat,       \* whether the user has a session
    welcome,    \* what its welcome message lists
    starts

vars == <<job, disk, lastDir, place, run, thread, chat, welcome, starts>>

Nowhere == [there |-> FALSE, repo |-> "none", files |-> {}, link |-> 0]
Over == [step |-> "over", wrote |-> FALSE, dir |-> 0]
NoThread == [step |-> "none", dir |-> 0]
NoWelcome == [repos |-> FALSE, data |-> FALSE]

TypeOK ==
    /\ job \in {"there", "deleting", "gone"}
    /\ disk \subseteq 1..lastDir /\ lastDir \in 0..MaxDirs
    /\ place \in [Tenants -> [there : BOOLEAN, repo : {"none", "empty", "other", "cloned"},
                              files : SUBSET Resources, link : 0..MaxDirs]]
    /\ run \in [Tenants -> [step : {"over", "clone", "cloning", "fetch", "artifacts", "downloading",
                                    "session", "analysis"},
                            wrote : BOOLEAN, dir : 0..MaxDirs]]
    /\ thread \in [Tenants -> [step : {"none", "mkdir", "git", "download", "downloaded"},
                               dir : 0..MaxDirs]]
    /\ chat \in [Users -> BOOLEAN]
    /\ welcome \in [Users -> [repos : BOOLEAN, data : BOOLEAN]]
    /\ starts \in [Tenants -> 0..MaxStarts]

Init ==
    /\ job = "there" /\ disk = {} /\ lastDir = 0
    /\ place = [t \in Tenants |-> Nowhere]
    /\ run = [t \in Tenants |-> Over] /\ thread = [t \in Tenants |-> NoThread]
    /\ chat = [u \in Users |-> FALSE] /\ welcome = [u \in Users |-> NoWelcome]
    /\ starts = [t \in Tenants |-> 0]

----------------------------------------------------------------------------
At(t, step) == run[t].step = step
Go(t, step) == run' = [run EXCEPT ![t].step = step]
Chats == UNCHANGED <<chat, welcome>>

(* A Start of the chat, or a re-analysis: its workspace is made.           *)
Begin(t) ==
    /\ job = "there" /\ At(t, "over") /\ thread[t] = NoThread /\ starts[t] < MaxStarts
    /\ starts' = [starts EXCEPT ![t] = @ + 1]
    /\ place' = [place EXCEPT ![t].there = TRUE]
    /\ run' = [run EXCEPT ![t] = [Over EXCEPT !.step = "clone"]]
    /\ UNCHANGED <<job, disk, lastDir, thread>> /\ Chats

(* The user clears the chat: the workspace stays.                          *)
Clear(u) ==
    /\ chat[u] /\ At(u, "over") /\ job = "there"
    /\ chat' = [chat EXCEPT ![u] = FALSE]
    /\ UNCHANGED <<job, disk, lastDir, place, run, thread, welcome, starts>>

(* A repository whose directory is there is not cloned again.              *)
Clone(t) ==
    /\ At(t, "clone")
    /\ IF place[t].repo # "none"
       THEN Go(t, "fetch") /\ UNCHANGED thread
       ELSE Go(t, "cloning") /\ thread' = [thread EXCEPT ![t].step = "mkdir"]
    /\ UNCHANGED <<job, disk, lastDir, place, starts>> /\ Chats

(* clone_into makes the directory and what is above it, then clones.       *)
MakeTarget(t) ==
    /\ thread[t].step = "mkdir"
    /\ thread' = [thread EXCEPT ![t].step = "git"]
    /\ place' = [place EXCEPT ![t].there = TRUE, ![t].repo = "empty"]
    /\ UNCHANGED <<job, disk, lastDir, run, starts>> /\ Chats

(* A commit is checked out after all is cloned; that may fail by itself.   *)
RunGit(t) ==
    /\ thread[t].step = "git"
    /\ thread' = [thread EXCEPT ![t] = NoThread]
    /\ IF place[t].there
       THEN \E repo \in {"empty", "other", "cloned"} : place' = [place EXCEPT ![t].repo = repo]
       ELSE UNCHANGED place
    /\ UNCHANGED <<job, disk, lastDir, run, starts>> /\ Chats

(* Whatever came of the clone, the build data are next.                    *)
Cloned(t) ==
    /\ At(t, "cloning") /\ thread[t] = NoThread
    /\ Go(t, "fetch")
    /\ UNCHANGED <<job, disk, lastDir, place, thread, starts>> /\ Chats

----------------------------------------------------------------------------
(* The build data. *)

Missing(t) == Resources \ place[t].files
Linked(t) == place[t].link \in disk

(* populate_chat_workspace; each file by itself.                           *)
FetchFiles(u) ==
    /\ At(u, "fetch")
    /\ \E got \in SUBSET Missing(u) :
         /\ place' = [place EXCEPT ![u].files = @ \union got]
         /\ run' = [run EXCEPT ![u].wrote = got # {},
                        ![u].step = IF Linked(u) THEN "session" ELSE "artifacts"]
    /\ UNCHANGED <<job, disk, lastDir, thread, starts>> /\ Chats

(* refetch_context: the console goes into the prompt.                      *)
Refetch(a) ==
    /\ At(a, "fetch")
    /\ Go(a, "artifacts")
    /\ UNCHANGED <<job, disk, lastDir, place, thread, starts>> /\ Chats

Afterwards(t) == IF t \in Users THEN "session" ELSE "analysis"

(* The build may have no artifacts.                                        *)
Download(t) ==
    /\ At(t, "artifacts")
    /\ \/ Go(t, Afterwards(t)) /\ UNCHANGED <<disk, lastDir, thread>>
       \/ /\ lastDir < MaxDirs /\ lastDir' = lastDir + 1
          /\ disk' = disk \union {lastDir'}
          /\ thread' = [thread EXCEPT ![t] = [step |-> "download", dir |-> lastDir']]
          /\ Go(t, "downloading")
    /\ UNCHANGED <<job, place, starts>> /\ Chats

(* A download that got nothing, or failed, removes its directory.          *)
DownloadEnds(t) ==
    /\ thread[t].step = "download"
    /\ \/ thread' = [thread EXCEPT ![t].step = "downloaded"] /\ UNCHANGED disk
       \/ thread' = [thread EXCEPT ![t] = [NoThread EXCEPT !.step = "downloaded"]]
          /\ disk' = disk \ {thread[t].dir}
    /\ UNCHANGED <<job, lastDir, place, run, starts>> /\ Chats

(* Fault: the chat's source goes on owning what it linked.                 *)
KeptByTheSource(t, d, linked) == d

(* Who removes the directory: the workspace of a chat once it is linked,   *)
(* else the source.                                                        *)
OwnedAfter(t, d, linked) == IF linked /\ t \in Users THEN 0 ELSE d

(* link_artifacts_to_workspace; the source of a chat is cleaned up at once.*)
Link(t) ==
    /\ At(t, "downloading") /\ thread[t].step = "downloaded"
    /\ thread' = [thread EXCEPT ![t] = NoThread]
    /\ \E linked \in IF thread[t].dir = 0 THEN {FALSE} ELSE BOOLEAN :
         LET owned == OwnedAfter(t, thread[t].dir, linked) IN
         /\ place' = IF linked THEN [place EXCEPT ![t].link = thread[t].dir] ELSE place
         /\ run' = [run EXCEPT ![t] =
              [step |-> Afterwards(t), wrote |-> @.wrote \/ linked,
               dir |-> IF t \in Users THEN 0 ELSE owned]]
         /\ disk' = IF t \in Users THEN disk \ {owned} ELSE disk
    /\ UNCHANGED <<job, lastDir, starts>> /\ Chats

(* cloned_graph_roots: what has a .git.                                    *)
HasRepo(t) == place[t].repo \in {"other", "cloned"}

(* init_chat_session, unless there is one.                                 *)
StartSession(u) ==
    /\ At(u, "session")
    /\ run' = [run EXCEPT ![u] = Over]
    /\ IF chat[u] THEN Chats
       ELSE /\ chat' = [chat EXCEPT ![u] = TRUE]
            /\ welcome' = [welcome EXCEPT ![u] = [repos |-> HasRepo(u), data |-> run[u].wrote]]
    /\ UNCHANGED <<job, disk, lastDir, place, thread, starts>>

(* A re-analysis ends: its workspace goes, then what it downloaded.        *)
EndAnalysis(a) ==
    /\ At(a, "analysis")
    /\ place' = [place EXCEPT ![a] = Nowhere]
    /\ disk' = disk \ {run[a].dir}
    /\ run' = [run EXCEPT ![a] = Over]
    /\ UNCHANGED <<job, lastDir, thread, starts>> /\ Chats

----------------------------------------------------------------------------
(* The job is deleted. *)

(* The Starts are cancelled, not their threads.                            *)
Delete ==
    /\ job = "there" /\ job' = "deleting"
    /\ run' = [t \in Tenants |-> IF t \in Users THEN Over ELSE run[t]]
    /\ UNCHANGED <<disk, lastDir, place, thread, starts>> /\ Chats

(* cleanup_chat_workspace looks for links beside the users' directories,   *)
(* not in them.                                                            *)
Cleanup ==
    /\ job = "deleting" /\ job' = "gone"
    /\ place' = [t \in Tenants |-> IF t \in Users THEN Nowhere ELSE place[t]]
    /\ UNCHANGED <<disk, lastDir, run, thread, starts>> /\ Chats

Next ==
    \/ \E t \in Tenants : \/ Begin(t) \/ Clone(t) \/ MakeTarget(t) \/ RunGit(t) \/ Cloned(t)
                          \/ Download(t) \/ DownloadEnds(t) \/ Link(t)
    \/ \E u \in Users : Clear(u) \/ FetchFiles(u) \/ StartSession(u)
    \/ \E a \in Analyses : Refetch(a) \/ EndAnalysis(a)
    \/ Delete \/ Cleanup

Spec == Init /\ [][Next]_vars
----------------------------------------------------------------------------
(* A link in a workspace leads to a directory that is there, and to nobody *)
(* else's.  Until the job is deleted every directory has somebody who will *)
(* remove it: a workspace, a source or the thread that fills it.  And a    *)
(* welcome message lists no repository that was not cloned.                *)
WorkspaceIsWhole ==
    /\ \A t \in Tenants : place[t].link # 0 => place[t].link \in disk
    /\ \A s, t \in Tenants : s # t /\ place[s].link # 0 => place[s].link # place[t].link
    /\ job = "there" =>
         \A d \in disk : \E t \in Tenants : d \in {place[t].link, run[t].dir, thread[t].dir}
    /\ \A u \in Users : welcome[u].repos /\ place[u].there => place[u].repo # "empty"
=============================================================================
