SPECIFICATION DiagnosedSpec
CONSTANTS
    Keys = {k1}
    Specs = {s1}
    Callers = {c1}
    None = None
    MaxJobs = 1
    MaxConcurrentJobs = 1
    MaxRetainedJobs = 1
    MaxRestarts = 0
    Faults = {}
INVARIANT KilledForAReason
