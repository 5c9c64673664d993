------------------------------- MODULE WorkSet -------------------------------
(***************************************************************************)
(* What a deduplicating work queue promises, without a queue, a lock or a  *)
(* timer: an item is pending from the first request until a consumer takes *)
(* it, requests for a pending item collapse, an item is worked on by one   *)
(* consumer at a time, and after Close no request is accepted while those  *)
(* accepted before stay pending.                                           *)
(***************************************************************************)
CONSTANT Items

VARIABLES pending, active, closed

vars == <<pending, active, closed>>

Init == pending = {} /\ active = {} /\ closed = FALSE

Request(x) ==
  /\ ~closed
  /\ pending' = pending \cup {x}
  /\ UNCHANGED <<active, closed>>

Take(x) ==
  /\ x \in pending \ active
  /\ pending' = pending \ {x}
  /\ active' = active \cup {x}
  /\ UNCHANGED closed

Finish(x) ==
  /\ x \in active
  /\ active' = active \ {x}
  /\ UNCHANGED <<pending, closed>>

Close == closed' = TRUE /\ UNCHANGED <<pending, active>>

Next ==
  \/ \E x \in Items : Request(x) \/ Take(x) \/ Finish(x)
  \/ Close

Spec == Init /\ [][Next]_vars
=============================================================================
