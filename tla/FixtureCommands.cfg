CONSTANTS
    Request = {p1, p2}
    Authored <- OneRevision
    Signers <- TwoAuthors
    MaxSeals = 2
    Expiry = {1}
    MaxClock = 1
    MaxNonce = 1
    MaxRevocations = 1
    None = None
SPECIFICATION Spec
SYMMETRY Symmetry
INVARIANTS AcceptedIsRecorded AdmittedWasReviewed WithdrawalDestroys
CHECK_DEADLOCK FALSE
