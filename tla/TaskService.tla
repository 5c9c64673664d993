----------------------------- MODULE TaskService -----------------------------
(***************************************************************************)
(* What a pool of workers promises to those who submit tasks, without      *)
(* workers, counters or a lock: tasks are started in the order in which    *)
(* they were accepted, no more than Max of them run at once, each runs     *)
(* once and has one result, which it keeps.  A closed pool ignores what is *)
(* submitted and still runs what it accepted before.                       *)
(***************************************************************************)
EXTENDS Naturals, Sequences, FiniteSets

CONSTANTS
  Tasks,
  Max    \* 0: no maximum

VARIABLES
  waiting,  \* accepted tasks, in order
  active,   \* tasks that run
  outcome,  \* per task: not submitted, pending, or its result
  closed

vars == <<waiting, active, outcome, closed>>

Init ==
  /\ waiting = <<>> /\ active = {} /\ closed = FALSE
  /\ outcome = [t \in Tasks |-> "none"]

\* The future of a task that a closed pool ignores stays pending.
Submit(t) ==
  /\ outcome[t] = "none"
  /\ outcome' = [outcome EXCEPT ![t] = "pending"]
  /\ waiting' = IF closed THEN waiting ELSE Append(waiting, t)
  /\ UNCHANGED <<active, closed>>

Start ==
  /\ waiting # <<>>
  /\ Max # 0 => Cardinality(active) < Max
  /\ waiting' = Tail(waiting)
  /\ active' = active \cup {Head(waiting)}
  /\ UNCHANGED <<outcome, closed>>

End(t) ==
  /\ t \in active /\ outcome[t] = "pending"
  /\ active' = active \ {t}
  /\ \E result \in {"value", "error"} : outcome' = [outcome EXCEPT ![t] = result]
  /\ UNCHANGED <<waiting, closed>>

Close == closed' = TRUE /\ UNCHANGED <<waiting, active, outcome>>

Next ==
  \/ \E t \in Tasks : Submit(t) \/ End(t)
  \/ Start \/ Close

Spec == Init /\ [][Next]_vars
=============================================================================
