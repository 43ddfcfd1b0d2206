SPECIFICATION Spec
CONSTANTS
    Keys = {k1}
    Claude = {}
    Specs = {s1}
    Callers = {c1}
    Deleters = {d1}
    None = None
    MaxRecords = 1
    MaxSessions = 1
    MaxRestarts = 0
    Faults = {}
    EarlyDelete = TRUE
INVARIANTS
    DeletedIsReclaimed
CHECK_DEADLOCK FALSE
