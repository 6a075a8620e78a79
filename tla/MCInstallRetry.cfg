SPECIFICATION Spec
CONSTANTS
    Jobs <- UpdateJobs
    Requests <- UpdateRequests
    Follow <- UpdateFollow
    Installed0 <- MixedInstalled
    AnyCaller = FALSE
    MaxId = 2
    TerminalHistory = 1
    MaxCalls = 1
INVARIANTS
    UpdateNeverSkips
