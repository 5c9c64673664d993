---------------------------- MODULE ItemSubmitter ----------------------------
(***************************************************************************)
(* executor/item_submitter.go: items are put in a collapsing queue, one    *)
(* goroutine pulls them and hands each to a ConsumerWorkerPool, whose      *)
(* worker runs the consumer and then the callback that reports the health, *)
(* calls Done and asks for a retry or forgets the failures.                *)
(*                                                                         *)
(* The queue is used as the work set that CollapsingQueue implements, with *)
(* the items that wait in a timer beside it.  The pool runs what it        *)
(* accepted, in any order.  Done comes before the failures are read, so    *)
(* the end of a callback runs beside later attempts of the same item.      *)
(***************************************************************************)
EXTENDS Naturals, FiniteSets

CONSTANTS
  Items,          \* values of the type parameter T
  Attempts,       \* bound: tasks in the pool and callbacks that exist at once
  MaxNumRequeues, \* WithMaxNumRequeues
  MaxFailures,    \* bound: the consumer fails while fewer failures are counted
  None            \* nil

ASSUME SubmitterAssumption ==
  /\ IsFiniteSet(Attempts)
  /\ MaxNumRequeues \in Nat /\ MaxFailures \in Nat
  /\ None \notin Items \cup {"get", "left"}
  /\ Items \cap {"get", "left"} = {}

VARIABLES
  pending, active, closed,  \* the queue: dirty, processing, shuttingDown
  delayed,                  \* items that a timer of the queue will add
  failures,                 \* the rate limiter's map
  unlimited,                \* WithUnlimitedRetries was applied last
  puller,                   \* "get", the item it got, or "left"
  poolClosed,               \* the pool's context is done
  at, item,                 \* per attempt: where it is, and its argument
  lost                      \* items whose callback will never be called

queueVars   == <<pending, active, closed, delayed>>
attemptVars == <<at, item, lost>>
vars == <<queueVars, failures, unlimited, puller, poolClosed, attemptVars>>

Queue == INSTANCE WorkSet

\* WithMaxNumRequeues turns WithUnlimitedRetries off, so that the one applied
\* last counts.
Configured == unlimited \in BOOLEAN

Init ==
  /\ Queue!Init /\ delayed = {}
  /\ failures = [x \in Items |-> 0] /\ Configured
  /\ puller = "get" /\ poolClosed = FALSE
  /\ at = [a \in Attempts |-> "none"] /\ item = [a \in Attempts |-> None]
  /\ lost = {}

-----------------------------------------------------------------------------
(* Submit and SubmitAfter.  A definition named Faulty... is the next one   *)
(* with a bug.                                                             *)

\* queue.Add, ignored once the queue is shutting down.
Add(x) == IF closed THEN UNCHANGED <<pending, active, closed>> ELSE Queue!Request(x)

\* queue.AddAfter with a delay: collapsed with the one that waits, if any.
Delay(x) == delayed' = IF closed THEN delayed ELSE delayed \cup {x}

Submit(x) ==
  /\ Add(x)
  /\ UNCHANGED <<delayed, failures, unlimited, puller, poolClosed, attemptVars>>

SubmitAfter(x) ==
  /\ Delay(x)
  /\ UNCHANGED <<pending, active, closed, failures, unlimited, puller,
                 poolClosed, attemptVars>>

\* The timer is dropped without adding the item.
FaultyTimer(x) ==
  /\ x \in delayed /\ delayed' = delayed \ {x}
  /\ UNCHANGED <<pending, active, closed, failures, unlimited, puller,
                 poolClosed, attemptVars>>

Timer(x) ==
  /\ x \in delayed /\ delayed' = delayed \ {x}
  /\ Add(x)
  /\ UNCHANGED <<failures, unlimited, puller, poolClosed, attemptVars>>

\* ctx is done: queue.ShutDown, which stops the timers.
ShutDown ==
  /\ ~closed /\ Queue!Close /\ delayed' = {}
  /\ UNCHANGED <<failures, unlimited, puller, poolClosed, attemptVars>>

-----------------------------------------------------------------------------
(* startPullingFromQueue.                                                  *)

Pull(x) ==
  /\ puller = "get" /\ Queue!Take(x)
  /\ puller' = x
  /\ UNCHANGED <<delayed, failures, unlimited, poolClosed, attemptVars>>

\* Get answers shutdown: nothing is queued, whatever is still active.
PullerLeaves ==
  /\ puller = "get" /\ closed /\ pending \subseteq active
  /\ puller' = "left"
  /\ UNCHANGED <<queueVars, failures, unlimited, poolClosed, attemptVars>>

\* The pool's queue accepts the task.
Accepted ==
  \E a \in Attempts :
    /\ at[a] = "none"
    /\ at' = [at EXCEPT ![a] = "pool"]
    /\ item' = [item EXCEPT ![a] = puller]

\* SubmitWithCallback; a pool whose context is done ignores the task.
HandOver ==
  /\ puller \in Items
  /\ IF poolClosed THEN lost' = lost \cup {puller} /\ UNCHANGED <<at, item>>
                   ELSE Accepted /\ UNCHANGED lost
  /\ puller' = "get"
  /\ UNCHANGED <<queueVars, failures, unlimited, poolClosed>>

ClosePool ==
  /\ ~poolClosed /\ poolClosed' = TRUE
  /\ UNCHANGED <<queueVars, failures, unlimited, puller, attemptVars>>

-----------------------------------------------------------------------------
(* A worker of the pool: the consumer, then the callback.                  *)

Goto(a, step) == at' = [at EXCEPT ![a] = step]

Finished(a) == Goto(a, "none") /\ item' = [item EXCEPT ![a] = None]

\* The consumer returns nil or an error, or it panics: the future recovers
\* the panic, and the callback is not called.
Accept(a) ==
  /\ at[a] = "pool"
  /\ \/ Goto(a, "ok") /\ UNCHANGED <<item, lost>>
     \/ failures[item[a]] < MaxFailures /\ Goto(a, "failed") /\ UNCHANGED <<item, lost>>
     \/ Finished(a) /\ lost' = lost \cup {item[a]}
  /\ UNCHANGED <<queueVars, failures, unlimited, puller, poolClosed>>

\* The item is given back while its attempt has still to end.
FaultyDone(a) ==
  /\ at[a] = "pool"
  /\ Queue!Finish(item[a])
  /\ UNCHANGED <<delayed, failures, unlimited, puller, poolClosed, attemptVars>>

\* Done is called for an attempt that succeeded only.
FaultyDoneOnSuccess(a) ==
  /\ at[a] \in {"ok", "failed"}
  /\ IF at[a] = "ok" THEN Queue!Finish(item[a]) ELSE UNCHANGED <<pending, active, closed>>
  /\ Goto(a, IF at[a] = "ok" THEN "reset" ELSE "check")
  /\ UNCHANGED <<delayed, failures, unlimited, puller, poolClosed, item, lost>>

\* The health is reported, then queue.Done.
Done(a) ==
  /\ at[a] \in {"ok", "failed"}
  /\ Queue!Finish(item[a])
  /\ Goto(a, IF at[a] = "ok" THEN "reset" ELSE "check")
  /\ UNCHANGED <<delayed, failures, unlimited, puller, poolClosed, item, lost>>

\* The failures since the last reset, of which this one is not yet counted.
NumRequeues(x) == failures[x]

\* One failure too many is allowed.
FaultyMayRetry(x) == unlimited \/ NumRequeues(x) <= MaxNumRequeues

MayRetry(x) == unlimited \/ NumRequeues(x) < MaxNumRequeues

\* handleProcessError up to NumRequeues and the decision.
Check(a) ==
  /\ at[a] = "check"
  /\ Goto(a, IF MayRetry(item[a]) THEN "retry" ELSE "reset")
  /\ UNCHANGED <<queueVars, failures, unlimited, puller, poolClosed, item, lost>>

\* queue.AddRateLimited: the failure is counted, the item is delayed.
Retry(a) ==
  /\ at[a] = "retry"
  /\ failures' = [failures EXCEPT ![item[a]] = @ + 1]
  /\ Delay(item[a])
  /\ Finished(a)
  /\ UNCHANGED <<pending, active, closed, unlimited, puller, poolClosed, lost>>

\* One failure is taken back instead of all.
FaultyReset(a) ==
  /\ at[a] = "reset"
  /\ failures' = [failures EXCEPT ![item[a]] = @ - 1]
  /\ Finished(a)
  /\ UNCHANGED <<queueVars, unlimited, puller, poolClosed, lost>>

\* queue.ResetRateLimit: success, or the item is given up.
Reset(a) ==
  /\ at[a] = "reset"
  /\ failures' = [failures EXCEPT ![item[a]] = 0]
  /\ Finished(a)
  /\ UNCHANGED <<queueVars, unlimited, puller, poolClosed, lost>>

-----------------------------------------------------------------------------

Pulling   == (\E x \in Items : Pull(x)) \/ PullerLeaves \/ HandOver
Worker(a) == Accept(a) \/ Done(a) \/ Check(a) \/ Retry(a) \/ Reset(a)

Next ==
  \/ \E x \in Items : Submit(x) \/ SubmitAfter(x) \/ Timer(x)
  \/ ShutDown \/ ClosePool
  \/ Pulling
  \/ \E a \in Attempts : Worker(a)

Spec == Init /\ [][Next]_vars

\* The puller and the workers go on, timers fire; the consumer returns.  The
\* queue is FIFO, so a queued item does not wait for ever while others pass
\* it: strong fairness.  Nobody is obliged to submit, or to end a context.
FairSpec ==
  /\ Spec
  /\ WF_vars(HandOver \/ PullerLeaves)
  /\ \A x \in Items : SF_vars(Pull(x)) /\ WF_vars(Timer(x))
  /\ \A a \in Attempts : WF_vars(Worker(a))

-----------------------------------------------------------------------------

TypeOK ==
  /\ pending \subseteq Items /\ active \subseteq Items /\ delayed \subseteq Items
  /\ closed \in BOOLEAN /\ poolClosed \in BOOLEAN /\ unlimited \in BOOLEAN
  /\ failures \in [Items -> Nat]
  /\ puller \in Items \cup {"get", "left"} /\ lost \subseteq Items
  /\ at \in [Attempts -> {"none", "pool", "ok", "failed", "check", "retry", "reset"}]
  /\ item \in [Attempts -> Items \cup {None}]
  /\ \A a \in Attempts : at[a] = "none" <=> item[a] = None

\* Attempts that have not called Done yet.
Working == {a \in Attempts : at[a] \in {"pool", "ok", "failed"}}

\* The consumer never runs twice at once for an item, and the health of an
\* item is reported in the order of its attempts: until Done the item is
\* active, and the puller and the attempts hold different items.  Only a
\* panic of the consumer, or a closed pool, leaves an item active for ever.
OneAttemptPerItem ==
  /\ active = (Items \cap {puller}) \cup {item[a] : a \in Working} \cup lost
  /\ \A a, b \in Working : item[a] = item[b] => a = b
  /\ \A a \in Working : item[a] \notin lost \cup {puller}
  /\ puller \notin lost

\* Counted failures belong to an item that will be seen again: it waits for
\* a retry, it is queued or active, or a callback is about to decide.  An
\* item that was given up, or that succeeded, starts from zero.
FailuresBelongToLiveItems ==
  ~closed => \A x \in Items : failures[x] # 0 =>
    x \in delayed \cup pending \cup active \cup {item[a] : a \in Attempts}

Retrying(x) == {a \in Attempts : at[a] = "retry" /\ item[a] = x}

\* item_submitter.go: a failed item is requeued "up to maxNumRequeues times".
\* Several callbacks of an item may pass the test before any of them counts
\* its failure, so the failures since the last reset may exceed the maximum,
\* but by less than the callbacks there are, and not if the maximum is zero.
RequeuesAreBounded ==
  ~unlimited => \A x \in Items :
    failures[x] + Cardinality(Retrying(x)) <=
      IF MaxNumRequeues = 0 THEN 0 ELSE MaxNumRequeues - 1 + Cardinality(Attempts)

\* An item that was submitted is taken by the puller, unless an attempt that
\* will never end keeps it active, or the puller has left.
SubmittedItemsAreTaken ==
  \A x \in Items : x \in pending ~> x \notin pending \/ x \in lost \/ puller = "left"

\* A failed attempt that may be retried is retried: the item is taken again.
FailuresAreRetried ==
  \A a \in Attempts, x \in Items :
    at[a] = "retry" /\ item[a] = x ~> puller = x \/ x \in lost \/ closed

\* "Called asynchronously when task completes" (workerpool/api.go) is what
\* the submitter relies on: an accepted item is taken sooner or later while
\* nothing is shut down.
SubmittedItemsComeBack ==
  \A x \in Items : x \in pending ~> x \notin pending \/ closed \/ poolClosed
=============================================================================
