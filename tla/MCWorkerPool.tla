---------------------------- MODULE MCWorkerPool ----------------------------
(* Instances of WorkerPool for TLC.                                         *)
EXTENDS WorkerPool, TLC

Symmetry == Permutations(Tasks) \cup Permutations(Workers)
=============================================================================
