SPECIFICATION Spec
CONSTANTS
    Keys = {k1}
    Specs = {s1}
    Callers = {c1}
    None = None
    MaxJobs = 2
    MaxConcurrentJobs = 1
    MaxRetainedJobs = 1
    MaxRestarts = 2
    Faults = {"read"}
INVARIANTS
    AtMostOnce
