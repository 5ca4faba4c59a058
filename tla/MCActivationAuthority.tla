----------------------- MODULE MCActivationAuthority -----------------------
(* Small instances of ActivationAuthority for TLC. *)
EXTENDS ActivationAuthority, TLC

\* A trial that passes and one that is stopped.
PassOrStop == {{}, {"operator_stopped"}}

\* The actions treat the members of this set alike.
TrialSymmetry == Permutations(Trial)
=============================================================================
