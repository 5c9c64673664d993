--------------------------- MODULE MCItemSubmitter ---------------------------
(* Instances of ItemSubmitter for TLC.                                      *)
EXTENDS RateLimiter, TLC

Symmetry == Permutations(Items) \cup Permutations(Attempts)
=============================================================================
