SPECIFICATION Spec
CONSTANTS
    Clients = {c1, c2}
    failure_threshold = 1
    success_threshold = 2
    CanReset = FALSE
PROPERTIES
    WaitsInOpen
