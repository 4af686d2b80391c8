--------------------------- MODULE MCHealthTracker ---------------------------
(* The tracker for TLC: the requests that report are interchangeable.        *)
EXTENDS HealthTracker, TLC

Symmetry == Permutations(Reporters)
=============================================================================
