SPECIFICATION FairSpec
CONSTANTS
    Limit = 3
    MaxJobs = 4
INVARIANTS
    NjobsNearlyExact
    AcceptsWithinLimit
PROPERTIES
    NoCallLeft
CHECK_DEADLOCK FALSE
