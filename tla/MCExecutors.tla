----------------------------- MODULE MCExecutors -----------------------------
(* Instances of Executors for TLC: a call of two suppliers, and one of one.   *)
EXTENDS Executors, TLC

CONSTANTS t1, t2, t3, c1, c2

MCInput == c1 :> <<t1, t2>> @@ c2 :> <<t3>>
=============================================================================
