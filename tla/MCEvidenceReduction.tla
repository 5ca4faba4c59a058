-------------------------- MODULE MCEvidenceReduction --------------------------
(* Instances of EvidenceReduction, and of the replay it rests on, for TLC. *)
EXTENDS EvidenceReduction, TLC

\* Two steps, of which an arm may take one.
FixtureSteps == <<"a", "b">>

Fixture(f) ==
    [fixture |-> f, admission |-> f, execution |-> "x1",
     manifest |-> [execution |-> "x1", entry |-> f],
     capability |-> "x1", candidate |-> "new", incumbent |-> "old"]

Ask(key, attempt, bindings, retryOf) ==
    [key |-> key, attempt |-> attempt, bindings |-> bindings,
     bounds |-> [tokens |-> 1, calls |-> 1], retryOf |-> retryOf]

First == Ask("k1", 1, Fixture("f1"), None)

\* A pair, a new attempt at it, another request under its key, and one whose admission is of
\* another fixture.
Asked ==
    {First,
     Ask("k2", 2, Fixture("f1"), First),
     Ask("k1", 2, Fixture("f2"), None),
     Ask("k3", 1, [Fixture("f1") EXCEPT !.admission = "f2"], None)}

Cells == [r \in Asked |-> [family |-> r.bindings.fixture, bucket |-> "reasoning"]]

Half == [n |-> 1, d |-> 2]
Rule(minimum) == [minimum |-> minimum, pass |-> Half, fail |-> Half, gap |-> [n |-> 0, d |-> 1]]
Policy(approved, minimum) ==
    [approved |-> approved, maximumAge |-> 0, families |-> {"f1"}, buckets |-> {"reasoning"},
     familyMinimum |-> 1, rules |-> [b \in {"reasoning"} |-> Rule(minimum)],
     hard |-> {"safety_veto"}]

InForce == {Policy(TRUE, 1), Policy(TRUE, 2), Policy(FALSE, 1)}

KnownFaults ==
    {[family |-> None, bucket |-> None, codes |-> {"provider_unavailable"}],
     [family |-> "f1", bucket |-> "reasoning", codes |-> {"safety_veto"}],
     [family |-> "f1", bucket |-> "reasoning", codes |-> {"provider_unavailable"}],
     [family |-> "f1", bucket |-> None, codes |-> {"schema_violation"}]}

Symmetry == Permutations(Process)
=============================================================================
