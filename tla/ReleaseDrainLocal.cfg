SPECIFICATION Spec
CONSTANTS
    Remote = {}
    Local = {l1}
    MaxRequests = 1
    MaxPushes = 1
INVARIANTS
    NoRestartWhileBusy
CHECK_DEADLOCK FALSE
