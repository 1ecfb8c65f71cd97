SPECIFICATION Spec
CONSTANTS
    Submitters = {s1, s2}
    Consumers = {c1, c2}
    Tasks = {k1, k2}
    Capacity = 1
    InitWorkers = {0, 1, 2}
    MaxWorkers = 2
    AdminOps = {"stop", "add", "deactivate"}
    NoThread = NoThread
    NoWorker = NoWorker
    NoId = NoId
SYMMETRY Symmetry
INVARIANTS
    NoTaskDuplicated
    NoTaskLost
    AcceptedIsKept
    LenIsExact
    IdsUnique
    InBounds
