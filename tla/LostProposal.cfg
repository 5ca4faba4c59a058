\* A worker of the installed plugin, whose store the optimizer staged its candidate in.
CONSTANTS
    Process = {p1, p2}
    Owner <- Shared
    Key = {k1}
    Config = {c1}
    MaxRetries = 2
    Ttl = 2
    SharedRoot = TRUE
    MaxClock = 2
    MaxRuns = 3
    MaxForced = 1
    None = None
SPECIFICATION QueueSpec
SYMMETRY Symmetry
INVARIANTS ProposalIsKept
CHECK_DEADLOCK FALSE
