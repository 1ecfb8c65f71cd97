SPECIFICATION FairSpec
CONSTANTS
    Clients = {c1, c2, c3}
    failure_threshold = 2
    success_threshold = 2
    CanReset = TRUE
INVARIANTS
    OpenHasTime
    ThresholdActedOn
PROPERTIES
    CallsDrain
    OpenEnds
