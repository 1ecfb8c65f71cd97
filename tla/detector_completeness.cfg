SPECIFICATION FairSpec
CONSTANTS
    Workers = {w1}
    failure_threshold = 2
    MaxFailures = 3
PROPERTIES
    Completeness
