\* One connection, two asynchronous runs at a time.
SPECIFICATION Spec
CONSTANTS
    Grace = 0
    Retention = 0
    MinRetained = 1
    Address = {a1}
    None = None
    Tasks = 2
    InitialDiff = 4
    Fallback = 1
    Floor = 3
    Warmup = 1
    Rates = {2, 8}
    Quality = {4, 16}
    NetDiff = 16
    MaxTemplates = 3
    MaxJobs = 3
    Cases <- Scenarios
INVARIANTS SessionHolds BookedAsBuilt
PROPERTIES WorkCounts SessionIsForgotten
CHECK_DEADLOCK FALSE
