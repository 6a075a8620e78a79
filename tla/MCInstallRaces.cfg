SPECIFICATION Spec
CONSTANTS
    Jobs <- MixedJobs
    Requests <- MixedJobs
    Follow <- MixedFollow
    Installed0 <- MixedInstalled
    AnyCaller = FALSE
    MaxId = 2
    TerminalHistory = 1
    MaxCalls = 2
INVARIANTS
    CancelReachesWorker
    TransferKeepsItsRow
PROPERTIES
    OutcomeIsFinal
    PruneDropsOldest
