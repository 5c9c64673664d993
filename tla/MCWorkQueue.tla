------------------------------ MODULE MCWorkQueue ------------------------------
(* Instances of WorkQueue for TLC.                                          *)
EXTENDS WorkQueue

\* the rate limiter is not called
MCBackoff == [n \in 0..MaxFailures |-> 1]
=============================================================================
