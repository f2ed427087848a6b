\* Two handlers at a time, wherever handlers overlap; of three threads two
\* want the workspace while the third leaves it.
SPECIFICATION SuiteSpec
CONSTANTS
    h1 = h1
    h2 = h2
    Handlers = {h1, h2}
    Threads = {h1, h2, t3}
    Workspaces = {w}
    MaxInode = 3
    Keys <- Key
    JiraKeys = {"jira"}
    Switch = "rec"
    SidecarKeys = {"rec", "port"}
    Env <- Default
    Accepts <- Taken
    Updates <- Batches
    Sanitized <- Clean
    Documents <- Document
    MaxSaves = 3
    MaxFailures = 1
    MaxCrashes = 1
    MaxValue = 1
    MaxChanges = 2
    MaxMisses = 1
    QueueSize = 1
    Lines = 2
    MaxPayloads = 4
    Users = {"u", "v"}
    Endpoints = {"e1", "e2"}
    MaxDevices = 1
    MaxComments = 1
    MaxSubscribes = 2
CHECK_DEADLOCK FALSE
SYMMETRY Symmetry
INVARIANTS
    TypesOK
    
    
    
    
PROPERTY LocksAreExclusive
