SPECIFICATION Spec
CONSTANTS
    RevokeAt = {0, 1, 2, 3}
    MaxSessions = 3
    Calls = {}
INVARIANTS
    ConnectionIsCurrent
CHECK_DEADLOCK FALSE
