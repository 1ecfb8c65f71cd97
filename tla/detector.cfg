SPECIFICATION FairSpec
CONSTANTS
    Workers = {w1, w2}
    failure_threshold = 2
    MaxFailures = 3
INVARIANTS
    SuspicionIsJustified
PROPERTIES
    NoSilentRecovery
    CrashedIsFailed
