--------------------------- MODULE MCParallelLoops ---------------------------
(* Instances of ParallelLoops for TLC.                                      *)
EXTENDS ParallelLoops

\* no wrapper, one, and two in either order
MCWrappers == {<<>>, <<"WithFatalLogging">>,
               <<"WithFatalLogging", "DisableErrorPropagation">>,
               <<"DisableErrorPropagation", "WithFatalLogging">>}
=============================================================================
