CONSTANTS
    Process = {p1, p2}
    Request <- Asked
    Steps <- FixtureSteps
    MaxToolSteps = 1
    Tools = {"a", "b", "live"}
    TokenLimit = 2
    MaxCalls = 2
    Cell <- Cells
    Policies <- InForce
    Faults <- KnownFaults
    MaxClock = 1
    MaxScope = 1
    None = None
SPECIFICATION EvidenceSpec
SYMMETRY Symmetry
INVARIANTS DispatchedOnce AnswersAreTheReceipt ReadyRestsOnReplay WorseNeverPromotes RejectionRestsOnHarm
CHECK_DEADLOCK FALSE
