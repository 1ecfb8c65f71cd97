SPECIFICATION FairSpec
CONSTANTS
    Callers = {c1, c2}
    Tasks <- AllTasks
    max_retries = 1
    QueueCapacity = 1
    MaxSubmits = 2
INVARIANTS
    TypeOK
    
    RunningTasksExact
    RetriesBounded
    LateRunsBounded
PROPERTIES
    CallsReturn
CHECK_DEADLOCK FALSE
