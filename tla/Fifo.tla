--------------------------------- MODULE Fifo ---------------------------------
(***************************************************************************)
(* What the Queue interface of internal/queue/queue.go promises: "each Add *)
(* results in a corresponding Get", values come out in the order in which  *)
(* they went in, equal ones too, and nothing goes in after the shutdown.   *)
(***************************************************************************)
EXTENDS Naturals, Sequences

CONSTANT Values

VARIABLES in, out, closed  \* all values that went in and came out

fifoVars == <<in, out, closed>>

FifoInit == in = <<>> /\ out = <<>> /\ closed = FALSE

Put(v) == ~closed /\ in' = Append(in, v) /\ UNCHANGED <<out, closed>>

Take ==
  /\ Len(out) < Len(in) /\ out' = Append(out, in[Len(out) + 1])
  /\ UNCHANGED <<in, closed>>

Close == ~closed /\ closed' = TRUE /\ UNCHANGED <<in, out>>

FifoNext == (\E v \in Values : Put(v)) \/ Take \/ Close

FifoSpec == FifoInit /\ [][FifoNext]_fifoVars
=============================================================================
