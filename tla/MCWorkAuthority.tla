-------------------------- MODULE MCWorkAuthority --------------------------
(* A small instance of WorkAuthority for TLC. *)
EXTENDS WorkAuthority, TLC

ShortTime   == 0..2
MCLimit     == [d \in Dimension |-> 3]
MCAttempts  == [w \in Work |-> 2]
MCDeadline == [w \in Work |-> 2]
MCAvailable == [w \in Work |-> 0]

\* The actions treat the members of these sets alike.
Symmetry == Permutations(Attempt) \cup Permutations(Key) \cup Permutations(Reservation)
=============================================================================
