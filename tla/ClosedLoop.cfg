\* Two attempts at one Work Item, two processes that may run either, a cancellation.
CONSTANTS
    w1 = w1
    Work = {w1}
    Attempt = {a1, a2}
    Skipped = {"safe_analysis_view", "analysis_attempt", "candidate_publication", "certified_replay"}
    Process = {p1, p2}
    Caller = {o}
    k1 = k1
    k2 = k2
    Key = {k1, k2}
    KeyOf <- Keys
    Cleanup = {TRUE}
    MaxAttempts <- TwoTries
    Deadline <- Late
    Available <- AtOnce
    Time <- Instants
    RetryAt = {0}
    WorkOf <- OneWork
    Schedule <- Schedules
    NoAttempt = NoAttempt
    NoLease = NoLease
    NoReservation = NoReservation
    NoReceipt = NoReceipt
SPECIFICATION Spec
SYMMETRY Symmetry
INVARIANTS CompletedTogether CancelledReportIsTrue
CHECK_DEADLOCK FALSE
