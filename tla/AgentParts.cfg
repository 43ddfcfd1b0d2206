SPECIFICATION AgentSpec
CONSTANTS
    AgentParts = {"ledger", "turns", "deadlines", "loads", "threads", "questions", "warnings", "claude", "visibility", "app", "edits"}
    Pair = {a1, a2}
    Keys = {k1, k2}
    Claude = {k2}
    Specs = {s1, s2}
    Callers = {a1, a2}
    Deleters = {d1, d2}
    None = None
    MaxRecords = 1
    MaxSessions = 2
    MaxRestarts = 1
    Faults = {"save", "load"}
    EarlyDelete = FALSE
    CThreads = {"t1"}
    CCallers = {a1, a2}
    CUnloaders = {"w1"}
    CodexOps = {"query", "turn", "create", "steer", "archive", "unarchive", "delete", "interrupt", "respond", "close"}
    MaxServers = 2
    MaxRequests = 6
    MaxTurns = 2
    MaxQuestions = 1
    MaxWaiting = 1
    CodexFaults = {"exit", "slow", "config"}
    ClaudeUsers = {a1, a2}
    MaxClaudeSessions = 1
    MaxClaudeTurns = 2
    MaxNames = 1
    MaxLoads = 1
    ClaudeFaults = {"save", "sync", "start", "load"}
    VCallers = {a1, a2}
    MaxVSessions = 2
    MaxVRecords = 1
    VFaults = {"save", "sync", "ledger", "lost", "turn", "load", "exit"}
    Pages = {a1, a2}
    UIOps = {"config", "working", "connect", "ensure"}
    MaxVersions = 1
    MaxRuntimes = 3
    MaxUIOps = 2
    AppFaults = {"fail", "slow", "save", "exit"}
    EditReqs = {a1, a2}
    EditFiles = {"f", "g"}
    EditActions = {"replace", "create", "preview"}
    EditSaves = {"x"}
    EditFaults = {"io", "kill", "sync", "editor", "relink"}
INVARIANTS
    AgentTypeOK
    LedgerIsSound
    CodexIsSound
    ClaudeIsSound
    InternalStaysHidden
    RuntimeIsKept
    NoChangeIsLost
SYMMETRY AgentSymmetry
CHECK_DEADLOCK FALSE
