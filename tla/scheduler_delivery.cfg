SPECIFICATION PopSpec
CONSTANTS
    Submitters = {s1}
    Consumers = {c1}
    Tasks = {k1, k2}
    Capacity = 2
    InitWorkers = {3}
    MaxWorkers = 3
    AdminOps = {"stop", "deactivate"}
    NoThread = NoThread
    NoWorker = NoWorker
    NoId = NoId
INVARIANTS
    FewLateTasks
PROPERTIES
    CallsReturn
    AcceptedIsDelivered
    ImplementsTaskPool
