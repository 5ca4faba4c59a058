----------------------------- MODULE MCClosedLoop -----------------------------
(***************************************************************************)
(* Instances of ClosedLoop for TLC: one Work Item, whose attempts each     *)
(* have one request, and processes that run them.                          *)
(***************************************************************************)
EXTENDS ClosedLoop, TLC

CONSTANTS w1, k1, k2

\* The stages of a request one instant apart, each lease renewed one instant ahead.
\* Nothing compares the instants of two requests, so both have the same.
Timed == [claimAt |-> 0, claimExpires |-> 1,
          renew |-> [i \in 1 .. Len(Stages) + 1 |-> [at |-> i - 1, expires |-> i + 1]]]

Schedules == [a \in Attempt |-> Timed]
OneWork   == [a \in Attempt |-> w1]
TwoTries  == [w \in Work |-> 2]
Late      == [w \in Work |-> Len(Stages) + 3]
Keys      == [enqueue |-> k1, request |-> k1, complete |-> k2]
AtOnce    == [w \in Work |-> 0]
Instants  == 0 .. Len(Stages) + 3

Symmetry == Permutations(Process) \cup Permutations(Attempt)
=============================================================================
