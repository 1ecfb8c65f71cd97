SPECIFICATION FairSpec
CONSTANTS
    CallTasks <- AnyTasks
    PipeSize = 2
    NoData = NoData
INVARIANTS
    TypeOK
    OutputComplete
    PipelineFeeds
    
PROPERTIES
    Returns
