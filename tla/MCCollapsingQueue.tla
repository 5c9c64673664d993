-------------------------- MODULE MCCollapsingQueue --------------------------
(* Instances of CollapsingQueue for TLC.                                    *)
EXTENDS CollapsingQueueProps, TLC

\* base * 2^failures capped by the maximum, at a base of 1 and a maximum of 2
MCBackoff == [n \in 0..MaxFailures |-> IF n = 0 THEN 1 ELSE 2]

Symmetry == Permutations(Items) \cup Permutations(Getters)
              \cup Permutations(Stoppers) \cup Permutations(Entries)
=============================================================================
