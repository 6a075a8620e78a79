SPECIFICATION PipelineLive
CONSTANTS
    Jobs <- XboxJobs
    Requests <- XboxRequests
    Follow <- XboxFollow
    Installed0 = {}
    AnyCaller = TRUE
    MaxId = 3
    TerminalHistory = 1
    MaxCalls = 1
INVARIANTS
    TasksOwnSlots
    PlansMatchWaiting
    PumpOnTheWay
    SlotsMatchRows
    NoDuplicateWork
PROPERTIES
    ImplementsPipeline
    RowsEnd
    PipelineIsFair
