SPECIFICATION HubSpec
CONSTANTS
    HubParts = {"results", "oauth", "setup", "logins", "secrets", "race", "rotate", "decide", "callback", "recovery", "backup", "staging", "relay", "releases"}
    Actors = {a1, a2}
    Publishers = {a1, a2}
    Pages = 2
    MaxCalls = 3
    OClients = {"c1"}
    OOwners = {"o1"}
    OReqs = {a1, a2}
    MaxCodes = 2
    MaxGrants = 2
    MaxPairs = 2
    MaxOAuthClock = 1
    CodeTTL = 1
    AccessTTL = 1
    RefreshTTL = 1
    OrphanAge = 1
    HistoryAge = 0
    MaxOrphans = 2
    MaxPerOwner = 1
    Creators = {"q1"}
    MaxOwners = 2
    AdminSessions = {1, 2}
    MaxStarts = 3
    AReqs = {a1, a2}
    Sessions = {1, 2}
    Secrets = {1, 2, 3}
    MaxSecrets = 1
    LoginLimit = 1
    MaxChanges = 1
    CTasks = {"t1"}
    MaxGen = 2
    MaxActiveChats = 1
    MaxCreates = 1
    Callers = {"p1", "p2"}
    Claims = {a1, a2}
    AckFaults = {"file"}
    FileOrder <- ArchiveOrder
    Backups = {a1, a2}
    Operators = {a1, a2}
    KeepBackups = 1
    MaxWrites = 2
    MaxArchives = 3
    BackupFaults = {"crash", "rot"}
    Finished = {"r1"}
    Future = {"r2"}
    StageFiles = {"f", "g"}
    MaxTrees = 2
    StagingFaults = {"io", "crash"}
    MaxPuts = 3
    PMachines = {a1, a2}
    PSizes = {2}
    MaxHubBytes = 4
    MaxMachBytes = 2
    MaxEntries = 2
    MaxUploading = 1
    MaxRelayClock = 1
    RelayFaults = {"remove", "body", "lost", "stop"}
    RelReaders = {a1, a2}
    RelKeys = {"k1", "k2"}
    MaxManifests = 1
    MaxReleases = 2
    RelFaults = {"io"}
INVARIANTS
    HubTypeOK
    TokensAreSound
    AccountsAreSound
    ContinueOnce
    DoneHasEvidence
    AckedIsRecorded
    BackupIsSnapshot
    RelayIsExact
    ManifestsAreSound
PROPERTIES
    ResultsAreFinal
    PruningIsSafe
SYMMETRY HubSymmetry
CHECK_DEADLOCK FALSE
