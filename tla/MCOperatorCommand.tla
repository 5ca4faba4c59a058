--------------------------- MODULE MCOperatorCommand ---------------------------
(* Instances of OperatorCommand for TLC. *)
EXTENDS OperatorCommand, TLC

Sign(by, keys) == [by : {by}, key : keys]

Family(actions, signers, together, monitored) ==
    [actions |-> actions, signers |-> signers, together |-> together, monitored |-> monitored]

ScopeFamily   == Family(Transitions \cup Canary, Sign("u1", {"k1"}), 2, None)
WorkFamily    == Family(WorkActions, Sign("u1", {"k1"}) \cup Sign("u2", {"k1"}), 2, None)

\* The monitor of a successor is open, and may be stopped by a rollback.
MonitorFamily == Family(Monitoring \cup {"rollback"}, Sign("u1", {"k1"}), 2, CHOOSE t \in Trial : TRUE)

\* An annotation reads and writes in its transaction only, so requests are taken one by one.
\* One person can correct an own annotation, another can only make one.
FeedbackFamily == Family({"feedback_submit"}, Sign("u1", {"k1", "k2"}) \cup Sign("u2", {"k1"}), 1, None)

CalibrationFamily == Family({"policy_calibrate"}, Sign("u1", {"k1", "k2"}), 2, None)

AllFamilies == {ScopeFamily, WorkFamily, MonitorFamily, FeedbackFamily, CalibrationFamily}

\* A question, another kind of question, and the question about another profile.
SomeAnnotations ==
    {[profile |-> "r1", kind |-> "helpfulness", state |-> "pass"],
     [profile |-> "r1", kind |-> "safety", state |-> "fail"],
     [profile |-> "r2", kind |-> "helpfulness", state |-> "pass"]}

Symmetry == Permutations(Process)
=============================================================================
