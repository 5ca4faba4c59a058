---------------------------- MODULE MCCanaryTrial ----------------------------
(***************************************************************************)
(* Instances of CanaryTrial for TLC: three units, of which the second runs *)
(* the incumbent in every trial.                                           *)
(***************************************************************************)
EXTENDS CanaryTrial, TLC

CONSTANTS u1, u2, u3

Arms == [t \in Trial |-> [u \in Unit |-> IF u = u2 THEN "incumbent" ELSE "candidate"]]

F(v, c, h, s) == [value |-> v, comparable |-> c, hard |-> h, shared |-> s]
Facts == {F(1, TRUE, FALSE, FALSE), F(0, TRUE, TRUE, FALSE), F(1, FALSE, FALSE, FALSE)}

Half == [num |-> 1, den |-> 2]

Symmetry == Permutations({u1, u3}) \cup Permutations(Trial)
=============================================================================
