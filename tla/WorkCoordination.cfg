\* Commands under two keys on two work items whose attempts may be the same, and a budget for one.
CONSTANTS
    Work = {w1, w2}
    Attempt = {a1, a2}
    Caller = {alice}
    Key = {k1, k2}
    Reservation = {r1, r2}
    Dimension = {calls}
    Limit <- MCLimit
    Budgeted = {w1}
    MaxAttempts <- MCAttempts
    Deadline <- MCDeadline
    Available <- MCAvailable
    Time <- ShortTime
    Amount = {2}
    NoAttempt = NoAttempt
    NoLease = NoLease
    NoReservation = NoReservation
SPECIFICATION Spec
SYMMETRY Symmetry
INVARIANTS CancelWins EachCommandTakesEffectOnce CapacityNeverExceeded BudgetConserved
PROPERTIES ImplementsFencedWork
CHECK_DEADLOCK FALSE
