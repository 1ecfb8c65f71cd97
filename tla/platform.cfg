CONSTANTS
    t1 = t1
    t2 = t2
    Threads = {t1, t2}
    NoThread = NoThread
    Controller = t1
    MaxCalls <- MCMaxCalls
    MAX_VCPUS = 2
    MAX_MEMORY_SLOTS = 2
    VmSettings <- MCVmSettings
    U64 = 64
    U32 = 16
    PAGE_SIZE = 8
    SECTOR_SIZE = 2
    BLK_MQ_MAX_DEPTH = 4
    BLK_MQ_MAX_HW_QUEUES = 2
    SizeBytes = 17
    PageData <- MCPageData
    CompressedLen <- MCCompressedLen
    Descriptors = {0, 1}
    Remotes <- MCRemotes
    TxData <- MCTxData
    BlockConfigs <- MCBlockConfigs
    BlockData <- MCBlockData
    Sectors = {0, 1}
    GpuLimits <- MCGpuLimits
    GpuUsages <- MCGpuUsages
    GpuData <- MCGpuData
    Workgroups <- MCWorkgroups
    MaxRetries = {0, 1}
    MaxExecutors = 2
    RetryPolicies <- MCRetryPolicies
    MaxClock = 13
    BYTE = 11
    MaxLoad = 5
    TILE_SIZE = 2
SPECIFICATION Spec
CHECK_DEADLOCK FALSE
INVARIANTS
    ActiveHasRunner
    
    
    
    BackoffKept
    
PROPERTIES
    StoppedIsFinal
    CallsReturn
