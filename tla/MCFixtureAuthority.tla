------------------------- MODULE MCFixtureAuthority -------------------------
(* Instances of FixtureAuthority for TLC. *)
EXTENDS FixtureAuthority, TLC

OneRevision == {[fixture |-> "f1", revision |-> 1, content |-> "c1"]}

Sign(by) == [by : by, key : {"k1"}]

\* Two authors, one of whom reviews, and the other admits what both may withdraw.
TwoAuthors ==
    [fixture_draft |-> Sign({"u1", "u2"}), fixture_review |-> Sign({"u2"}),
     fixture_admit |-> Sign({"u1"}), fixture_withdraw |-> Sign({"u1", "u2"})]

Symmetry == Permutations(Request)
=============================================================================
