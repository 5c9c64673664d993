----------------------------- MODULE LoopAnswers -----------------------------
(***************************************************************************)
(* What a loop over runnables promises to its caller, without goroutines,  *)
(* a channel of indexes or an error group: each runnable runs at most      *)
(* once, they begin in order, a loop of a given width runs no more of them *)
(* at once, and the answer is given once and follows from how they ended.  *)
(***************************************************************************)
EXTENDS Naturals, FiniteSets

CONSTANT N  \* number of runnables, numbered from 0

VARIABLES
  kind, width,   \* what was called, with how many goroutines
  phase,         \* idle, running, returned, panicked
  outcome,       \* per runnable: none, running, nil, error or panic
  told,          \* the context of the runnables is done
  failure        \* the runnable whose error is the answer, if any

vars == <<kind, width, phase, outcome, told, failure>>

Indexes == 0..(N - 1)

In(statuses) == {i \in Indexes : outcome[i] \in statuses}

Init ==
  /\ kind = "none" /\ width = 0 /\ phase = "idle"
  /\ outcome = [i \in Indexes |-> "none"]
  /\ told = FALSE /\ failure = {}

Call ==
  /\ phase = "idle" /\ phase' = "running"
  /\ kind' \in {"for", "forever", "sequential"} /\ width' \in 0..N
  /\ UNCHANGED <<outcome, told, failure>>

\* Controllers may begin when their loop has returned already.
Begin(i) ==
  /\ outcome[i] = "none" /\ outcome' = [outcome EXCEPT ![i] = "running"]
  /\ kind # "forever" => phase = "running"
  /\ kind = "for" => /\ \A j \in 0..(i - 1) : outcome[j] # "none"
                     /\ Cardinality(In({"running"})) < width
  /\ kind = "sequential" => \A j \in 0..(i - 1) : outcome[j] = "nil"
  /\ UNCHANGED <<kind, width, phase, told, failure>>

\* The end of a controller tells the others; a failure in a sequence is its
\* answer, and a panic is not answered but goes on to the caller.
End(i, result) ==
  /\ outcome[i] = "running" /\ outcome' = [outcome EXCEPT ![i] = result]
  /\ kind # "forever" => phase = "running"
  /\ told' = (told \/ kind = "forever")
  /\ IF kind # "sequential" \/ result = "nil"
       THEN UNCHANGED <<phase, failure>>
       ELSE /\ phase' = IF result = "error" THEN "returned" ELSE "panicked"
            /\ failure' = IF result = "error" THEN {i} ELSE {}
  /\ UNCHANGED <<kind, width>>

Tell ==
  /\ kind = "forever" /\ told' = TRUE
  /\ UNCHANGED <<kind, width, phase, outcome, failure>>

\* A parallel loop waits for all its runnables and answers one of the
\* failures if there is any; Forever answers nothing.
Answer ==
  /\ phase = "running" /\ phase' = "returned"
  /\ CASE kind = "for"        -> /\ In({"running"}) = {}
                                 /\ width > 0 => In({"none"}) = {}
                                 /\ IF In({"error", "panic"}) = {} THEN failure' = {}
                                    ELSE \E i \in In({"error", "panic"}) : failure' = {i}
       [] kind = "forever"    -> (told \/ width = 0) /\ UNCHANGED failure
       [] kind = "sequential" -> In({"nil"}) = Indexes /\ UNCHANGED failure
  /\ UNCHANGED <<kind, width, outcome, told>>

Next ==
  \/ Call \/ Tell \/ Answer
  \/ \E i \in Indexes : Begin(i) \/ \E result \in {"nil", "error", "panic"} : End(i, result)

Spec == Init /\ [][Next]_vars
=============================================================================
