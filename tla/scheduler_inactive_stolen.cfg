SPECIFICATION StealSpec
CONSTANTS
    Submitters = {s1}
    Consumers = {c1}
    Tasks = {k1}
    Capacity = 2
    InitWorkers = {2}
    MaxWorkers = 2
    AdminOps = {"deactivate"}
    NoThread = NoThread
    NoWorker = NoWorker
    NoId = NoId
PROPERTY InactiveIsStolenFrom
