SPECIFICATION Spec
CONSTANTS
    Keys = {k1, k2}
    Specs = {s1}
    Callers = {c1, c2}
    None = None
    MaxJobs = 2
    MaxConcurrentJobs = 2
    MaxRetainedJobs = 1
    MaxRestarts = 1
    Faults = {}
SYMMETRY Symmetry
INVARIANTS
    TypeOK
    OneLiveProcessPerKey
    AtMostOnce
    StopsAreSound
    RetentionBound
