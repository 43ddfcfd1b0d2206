SPECIFICATION FairSpec
CONSTANTS
    Keys = {k1}
    Specs = {s1, s2}
    Callers = {c1, c2}
    None = None
    MaxJobs = 1
    MaxConcurrentJobs = 1
    MaxRetainedJobs = 1
    MaxRestarts = 1
    Faults = {"write"}
INVARIANTS
    TerminalMeansStopped
    ReportsAreTrue
    SlotsAccounted
PROPERTIES
    WaitersWake
    SlotsReturn
