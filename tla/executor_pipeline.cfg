SPECIFICATION FairSpec
CONSTANTS
    CallTasks <- CopyTasks
    PipeSize = 1
    NoData = NoData
PROPERTIES
    PipelineEnds
CHECK_DEADLOCK FALSE
