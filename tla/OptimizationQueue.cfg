\* One job, two processes started with one stable id, one forced request.
CONSTANTS
    Process = {p1, p2}
    Owner <- Shared
    Key = {k1}
    Config = {c1, c2}
    MaxRetries = 2
    Ttl = 2
    SharedRoot = FALSE
    MaxClock = 2
    MaxRuns = 3
    MaxForced = 1
    None = None
SPECIFICATION QueueSpec
SYMMETRY Symmetry
PROPERTIES ApprovalIsCurrent SettledStaysSettled
CHECK_DEADLOCK FALSE
