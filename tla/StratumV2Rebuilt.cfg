\* A broadcast of one template is overtaken by the next template.
SPECIFICATION MCSpec
CONSTANTS
    Grace = 0
    Retention = 0
    MinRetained = 1
    Tasks = 2
    MaxChannels = 3
    MaxPrefix = 2
    InitialDiff = 4
    Floor = 3
    Ceiling = 8
    Warmup = 1
    Quality = {4, 16}
    NetDiff = 16
    MaxTemplates = 3
    MaxJobs = 8
    Cases <- Overtaken
    TxLists <- Lists
    TemplateLists <- Offered
    MaxDeclared = 2
    MaxKept = 2
    Declarations <- Silent
INVARIANTS RebuiltAsHashed
CHECK_DEADLOCK FALSE
