-------------------------- MODULE MCSessionLifecycle --------------------------
(* Sessions, targets and fibers are interchangeable.                        *)
EXTENDS SessionLifecycle, TLC

Symmetry == Permutations(Id) \cup Permutations(Target) \cup Permutations(Fiber)
=============================================================================
