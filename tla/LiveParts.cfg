SPECIFICATION LiveSpec
CONSTANTS
    LiveParts = {"drain", "update", "artifacts"}
    Remote = {1, 2}
    Local = {}
    MaxRequests = 1
    MaxPushes = 2
    MaxVersion = 3
    Helpers = 2
    MaxApps = 3
    UpdateFaults = {"net", "copy", "hang", "locked", "launch", "relaunch", "crash"}
    Contents = {"a"}
    Uploads = {1, 2}
    Chunks = 1
    MaxActive = 2
    MaxMishaps = 1
    ArtFaults = {}
INVARIANTS
    LiveTypeOK
    NoRestartWhileBusy
    TargetIsThere
    CompleteHasBlob
PROPERTIES
    DrainEnds
    NodeComesBack
    StaysOpen
    OrphansReclaimed
CHECK_DEADLOCK FALSE
