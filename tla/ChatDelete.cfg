SPECIFICATION FairSpec
CONSTANTS
    NoLock = NoLock
    Nobody = Nobody
    Deleter = Deleter
    Users = {alice}
    Tasks = {t1, t2}
    Locks = {1, 2, 3, 4, 5}
    MaxRows = 2
    MaxSessions = 2
    MaxAborts = 1
INVARIANT TypeOK
INVARIANT OneAtATime
INVARIANT CleanupIsComplete
PROPERTY FailedIsFinal
PROPERTY ClearSparesNewerStart
PROPERTY PlaceholderResolves
