\* A token, two requests and their repeats; traces of four spans; every limit of a text or a bag small.
CONSTANTS
    Projects = {p, q}
    DefaultProject = q
    Tokens = {t}
    Senders = {a, b}
    Managers = {m, n}
    Ids = {1, 2}
    None = None
    Retention = 0
    MaxTime = 1
    MaxRequests = 3
    Settings <- Configurations
    Contents <- BatchesSent
    ListLimit = 1
    MaxTraceSpans = 4
    Timings <- WhenTheyRan
    Errors = {e1, e2, e3}
    MaxText = 2
    MaxNesting = 1
    MaxFrames = 2
    MaxTags = 2
    MaxTrail = 2
    MaxData = 2
    MaxDepth = 2
    MaxPerCall = 2
    MaxAttributes = 4
    MaxBatch = 2
    MaxBody = 1
    MaxCalls = 3
SPECIFICATION TelemetrySpec
SYMMETRY Symmetry
CHECK_DEADLOCK FALSE
INVARIANTS ReceiptNamesTheRow InTheRightProject TracesInv WireInv
PROPERTIES RevokedOnlyDrains
