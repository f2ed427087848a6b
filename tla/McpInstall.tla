----------------------------- MODULE McpInstall -----------------------------
(***************************************************************************)
(* The configurations that let the command line agents of a workspace find *)
(* the HTTP tools of their session: a dump of the tools, with credentials, *)
(* and an entry in each agent's own file.  An install that fails puts every*)
(* file back; an install without tools, and the removal of the workspace,  *)
(* take the entries out.  Installs are one at a time (WorkspaceLocks).     *)
(*                                                                         *)
(* A file is what the user has in it and whether it names the server.      *)
(***************************************************************************)
EXTENDS Naturals, Sequences, FiniteSets

CONSTANTS
    Configs,        \* a sequence: the files of the agents, in order
    Settings,       \* the file that enables the server but does not name it
    MaxInstalls, MaxFailures

ConfigsAssumption == \A i, j \in DOMAIN Configs : i # j => Configs[i] # Configs[j]

VARIABLES
    config,     \* the files
    dump,       \* the tools the dump names, 0 for no dump
    tools,      \* those of the install or removal under way, 0 for none
    step,       \* "idle", "snapshot", "dump", "merge", "restore", "forget", "drop"
    saved, savedDump,
    todo,       \* files still to do
    count, failures,
    first,      \* what the user had in the files when this step began
    broken      \* a restore that failed left the files as they were then

vars == <<config, dump, tools, step, saved, savedDump, todo, count, failures, first, broken>>

Names == {Configs[i] : i \in DOMAIN Configs}

(* Nothing, an object, a file that is no JSON object, or a symbolic link.  *)
UserContents == {"absent", "own", "malformed", "link"}
File(user, entry) == [user |-> user, entry |-> entry]
Contents(f) == [c \in Names |-> f[c].user]

Init ==
    /\ config \in [Names -> {File(u, FALSE) : u \in UserContents}]
    /\ dump = 0 /\ tools = 0 /\ step = "idle" /\ saved = config /\ savedDump = 0
    /\ todo = <<>> /\ count = 0 /\ failures = 0 /\ first = Contents(config) /\ broken = FALSE

(* install_http_tools_mcp with tools, without, or the removal.             *)
Begin(some) ==
    /\ step = "idle" /\ ~broken /\ count < MaxInstalls /\ count' = count + 1
    /\ tools' = IF some THEN count + 1 ELSE 0
    /\ step' = IF some THEN "snapshot" ELSE "forget"
    /\ first' = Contents(config)
    /\ UNCHANGED <<config, dump, saved, savedDump, todo, failures, broken>>

(* _snapshot_install_paths *)
TakeSnapshot ==
    /\ step = "snapshot" /\ step' = "dump"
    /\ saved' = config /\ savedDump' = dump
    /\ UNCHANGED <<config, dump, tools, todo, count, failures, first, broken>>

WriteDump ==
    /\ step = "dump" /\ step' = "merge"
    /\ dump' = tools /\ todo' = Configs
    /\ UNCHANGED <<config, tools, saved, savedDump, count, failures, first, broken>>

(* A link is removed, not followed.                                        *)
Opened(f) == IF f.user = "link" THEN [f EXCEPT !.user = "absent"] ELSE f

(* Fault: what was there is not read first.                                *)
Overwritten(f) == File("absent", TRUE)

(* _merge_mcp_servers, _with_enabled_rootcoz_server: what is malformed is  *)
(* left alone.                                                             *)
Merged(f) == IF f.user = "malformed" THEN f ELSE [Opened(f) EXCEPT !.entry = TRUE]

Merge ==
    /\ step = "merge" /\ todo # <<>> /\ todo' = Tail(todo)
    /\ config' = [config EXCEPT ![Head(todo)] = Merged(@)]
    /\ UNCHANGED <<dump, tools, step, saved, savedDump, count, failures, first, broken>>

Installed ==
    /\ step = "merge" /\ todo = <<>> /\ step' = "idle"
    /\ UNCHANGED <<config, dump, tools, saved, savedDump, todo, count, failures, first, broken>>

(* A write fails: everything is put back, the last first, the dump last.   *)
(* The link that was in the way of the file is gone by then.               *)
Restoring == [i \in DOMAIN Configs |-> Configs[Len(Configs) + 1 - i]]

Fail ==
    /\ step \in {"dump", "merge"} /\ (step = "merge" => todo # <<>>)
    /\ failures < MaxFailures /\ failures' = failures + 1
    /\ config' = IF step = "merge" THEN [config EXCEPT ![Head(todo)] = Opened(@)] ELSE config
    /\ step' = "restore" /\ todo' = Restoring
    /\ UNCHANGED <<dump, tools, saved, savedDump, count, first, broken>>

Restored(f, was) == was

Restore ==
    /\ step = "restore"
    /\ IF todo # <<>>
       THEN /\ config' = [config EXCEPT ![Head(todo)] = Restored(@, saved[Head(todo)])]
            /\ todo' = Tail(todo) /\ UNCHANGED <<dump, step>>
       ELSE /\ dump' = savedDump /\ step' = "idle" /\ UNCHANGED <<config, todo>>
    /\ UNCHANGED <<tools, saved, savedDump, count, failures, first, broken>>

(* The first file that cannot be put back ends the restoring.              *)
RestoreFails ==
    /\ step = "restore" /\ failures < MaxFailures /\ failures' = failures + 1
    /\ step' = "idle" /\ broken' = TRUE
    /\ UNCHANGED <<config, dump, tools, saved, savedDump, todo, count, first>>

----------------------------------------------------------------------------
(* cleanup_http_tools_mcp *)

Forget ==
    /\ step = "forget" /\ step' = "drop"
    /\ dump' = 0 /\ todo' = SelectSeq(Configs, LAMBDA c : c # Settings) \o <<Settings>>
    /\ UNCHANGED <<config, tools, saved, savedDump, count, failures, first, broken>>

(* A file with nothing else in it is removed.                              *)
Dropped(f) == IF f.user = "malformed" THEN f ELSE [Opened(f) EXCEPT !.entry = FALSE]

Drop ==
    /\ step = "drop"
    /\ IF todo = <<>> THEN step' = "idle" /\ UNCHANGED <<config, todo>>
       ELSE /\ config' = [config EXCEPT ![Head(todo)] = Dropped(@)]
            /\ todo' = Tail(todo) /\ UNCHANGED step
    /\ UNCHANGED <<dump, tools, saved, savedDump, count, failures, first, broken>>

(* A removal that cannot write a file leaves the rest.                     *)
DropFails ==
    /\ step = "drop" /\ todo # <<>> /\ failures < MaxFailures /\ failures' = failures + 1
    /\ step' = "idle" /\ broken' = TRUE
    /\ UNCHANGED <<config, dump, tools, saved, savedDump, todo, count, first>>

Next ==
    \/ \E some \in BOOLEAN : Begin(some)
    \/ TakeSnapshot \/ WriteDump \/ Merge \/ Installed \/ Fail \/ Restore \/ RestoreFails
    \/ Forget \/ Drop \/ DropFails

Spec == Init /\ [][Next]_vars

----------------------------------------------------------------------------
(* Every variable stays in its range. *)
TypeOK ==
    /\ config \in [Names -> [user : UserContents, entry : BOOLEAN]]
    /\ dump \in 0 .. MaxInstalls /\ tools \in 0 .. MaxInstalls
    /\ step \in {"idle", "snapshot", "dump", "merge", "restore", "forget", "drop"}

(* Between installs, no file that names the server is left without a dump, *)
(* what the user had in the files is there (links excepted), and after an  *)
(* install that failed everything is what it was; the exception is a file  *)
(* that could not be put back.                                             *)
UsersFilesAreKept ==
    step = "idle" /\ ~broken =>
        /\ dump = 0 => \A c \in Names : ~config[c].entry
        /\ \A c \in Names : config[c].user = first[c] \/ (first[c] = "link" /\ config[c].user = "absent")
        /\ tools # 0 /\ dump # tools => config = saved /\ dump = savedDump
=============================================================================
