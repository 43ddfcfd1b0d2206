SPECIFICATION FairSpec
CONSTANTS
    RevokeAt = {0, 1}
    MaxSessions = 2
    Calls = {c1}
INVARIANTS
    TypeOK
    CallsAreSafe
PROPERTIES
    CallsEnd
CHECK_DEADLOCK FALSE
