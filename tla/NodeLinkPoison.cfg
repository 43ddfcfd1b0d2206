SPECIFICATION FairSpec
CONSTANTS
    RevokeAt = {}
    MaxSessions = 1
    Calls = {c1}
PROPERTIES
    LostIsRemoved
CHECK_DEADLOCK FALSE
