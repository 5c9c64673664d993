----------------------------- MODULE CallAnswers -----------------------------
(***************************************************************************)
(* What a call of an executor promises, without a pool, futures to wait    *)
(* for or an order of events: each supplier has one outcome, the answer of *)
(* a call follows from the outcomes of its suppliers, and a call that      *)
(* answers while one of them has none yet is one that stops at an error.   *)
(* An answer is given once; nothing changes it afterwards.                 *)
(***************************************************************************)
EXTENDS Naturals, Sequences

CONSTANTS Tasks, Calls, Input

VARIABLES
  outcome,        \* per task: unresolved, value or error
  asked,          \* per call: the method, none before the call
  answered,       \* calls that have returned
  values, errors  \* what they returned: positions in their input

vars == <<outcome, asked, answered, values, errors>>

Methods == {"resolveAll", "runnables", "untilError", "keyed"}

Init ==
  /\ outcome = [t \in Tasks |-> "unresolved"]
  /\ asked = [c \in Calls |-> "none"] /\ answered = {}
  /\ values = [c \in Calls |-> <<>>] /\ errors = [c \in Calls |-> <<>>]

Resolve(t) ==
  /\ outcome[t] = "unresolved"
  /\ \E result \in {"value", "error"} : outcome' = [outcome EXCEPT ![t] = result]
  /\ UNCHANGED <<asked, answered, values, errors>>

Ask(c) ==
  /\ asked[c] = "none"
  /\ \E m \in Methods : asked' = [asked EXCEPT ![c] = m]
  /\ UNCHANGED <<outcome, answered, values, errors>>

Ending(c, status) == {i \in DOMAIN Input[c] : outcome[Input[c][i]] = status}

\* list holds the positions S, in input order unless they come from a map.
Lists(c, list, S) ==
  /\ {list[n] : n \in DOMAIN list} = S
  /\ asked[c] # "keyed" => \A m, n \in DOMAIN list : m < n => list[m] < list[n]

\* Everything has ended; a runnable has no value.
Complete(c, vs, es) ==
  /\ Ending(c, "unresolved") = {}
  /\ Lists(c, vs, IF asked[c] = "runnables" THEN {} ELSE Ending(c, "value"))
  /\ Lists(c, es, Ending(c, "error"))
  /\ asked[c] \in {"untilError", "keyed"} => es = <<>>

\* The error alone: the first one in input order, of a map some error.
Stopped(c, vs, es) ==
  /\ asked[c] \in {"untilError", "keyed"}
  /\ vs = <<>>
  /\ \E i \in Ending(c, "error") :
       /\ es = <<i>>
       /\ asked[c] = "untilError" => \A j \in DOMAIN Input[c] : j < i => j \in Ending(c, "value")

Answer(c) ==
  /\ asked[c] # "none" /\ c \notin answered
  /\ answered' = answered \cup {c}
  /\ Complete(c, values'[c], errors'[c]) \/ Stopped(c, values'[c], errors'[c])
  /\ values' = [values EXCEPT ![c] = values'[c]]
  /\ errors' = [errors EXCEPT ![c] = errors'[c]]
  /\ UNCHANGED <<outcome, asked>>

Next ==
  \/ \E t \in Tasks : Resolve(t)
  \/ \E c \in Calls : Ask(c) \/ Answer(c)

Spec == Init /\ [][Next]_vars
=============================================================================
