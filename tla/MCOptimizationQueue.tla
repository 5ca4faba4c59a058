------------------------ MODULE MCOptimizationQueue ------------------------
(* Instances of OptimizationQueue for TLC: processes that share a worker id. *)
EXTENDS OptimizationQueue, TLC

Shared == [p \in Process |-> "stable"]

Symmetry == Permutations(Process) \cup Permutations(Config)
=============================================================================
