------------------------ MODULE CollapsingQueueProps ------------------------
(***************************************************************************)
(* What CollapsingQueue is meant to guarantee.                             *)
(***************************************************************************)
EXTENDS CollapsingQueue

Entry == [item : Items \cup {None}, readyAt : Nat, firesAt : Nat]
Call  == [item : Items \cup {None}, delay : Nat, readyAt : Nat]

GetterPcs  == {"idle", "asleep", "woken", "returned"}
StopperPcs == {"idle", "cancel", "wgWait", "drain", "asleep", "woken", "returned"}

CondTypeOK ==
  /\ queue \in Seq(Items) /\ dirty \subseteq Items /\ processing \subseteq Items
  /\ shuttingDown \in BOOLEAN /\ drain \in BOOLEAN
  /\ pc \in [Threads -> StopperPcs]
  /\ \A g \in Getters : pc[g] \in GetterPcs
  /\ holds \in [Getters -> SUBSET Items]
  /\ drainers \subseteq Stoppers

DelayTypeOK ==
  /\ delayedLock \in Stoppers \cup {None}
  /\ delayedEntries \in [Items -> Entries \cup {None}]
  /\ timer \in [Entries -> {"free", "armed", "fired", "adding"}]
  /\ entry \in [Entries -> Entry]
  /\ \A e \in Entries : timer[e] # "free" => entry[e].item \in Items
  /\ addAfter \in [Adders -> Call]
  /\ \A p \in Adders : addAfter[p] # NoCall => addAfter[p].item \in Items
  /\ failures \in [Items -> 0..MaxFailures]
  /\ now \in Nat

\* Every variable stays in its type; in particular the WaitGroup counter is
\* never decremented below zero, which would panic in a timer callback.
TypeOK == CondTypeOK /\ DelayTypeOK /\ wg \in Nat

-----------------------------------------------------------------------------
(* The queue and its two sets.                                             *)

Elements(s) == {s[i] : i \in DOMAIN s}

Distinct(s) == \A i, j \in DOMAIN s : s[i] = s[j] => i = j

\* The comment on the queue field: every queued item is dirty and is not
\* being processed; and, which the comment leaves unsaid, it is queued once
\* and a dirty item that is not being processed is queued.  So an accepted
\* Add is never lost: Get or Done will bring the item back.
QueueMatchesSets ==
  /\ Distinct(queue)
  /\ Elements(queue) = dirty \ processing

\* The items being processed are those the consumers hold, each item is
\* held by one consumer only: no two of them work on the same item.
OneConsumerPerItem ==
  /\ processing = UNION {holds[g] : g \in Getters}
  /\ \A g, h \in Getters : g # h => holds[g] \cap holds[h] = {}

\* No lost wakeup: while a consumer sleeps in Get, every queued item has a
\* consumer that was woken and has not yet run.  Signal, not Broadcast, is
\* enough in Add and in Done.
NoLostWakeup ==
  (\E g \in Getters : pc[g] = "asleep")
    => Len(queue) <= Cardinality({g \in Getters : pc[g] = "woken"})

\* A consumer that left because of a shutdown leaves no work behind, as
\* long as consumers finish an item before they ask for another: an item
\* that is pending at that moment is queued or held by one still running.
NothingStranded ==
  (Getters # {} /\ \A g \in Getters : pc[g] = "returned")
    => queue = <<>> /\ dirty = {}

-----------------------------------------------------------------------------
(* Delayed additions.                                                      *)

\* The WaitGroup counts the timers that are armed or whose callback has
\* not ended: each Stop that succeeds and each callback is counted once.
WaitGroupCounts == wg = Cardinality({e \in Entries : timer[e] # "free"})

\* An armed timer is reachable from delayedEntries, so that shutdown can stop
\* it; a mapped entry is alive, so that the item it stands for will come.
ArmedTimersAreMapped ==
  /\ \A e \in Entries : timer[e] = "armed" => delayedEntries[entry[e].item] = e
  /\ \A x \in Items : delayedEntries[x] # None =>
       LET e == delayedEntries[x] IN timer[e] \in {"armed", "fired"} /\ entry[e].item = x

\* The comments on delayedLock and wg: once the wait of a shutdown is over,
\* no timer exists or is ever created again, and no callback is running.
NoTimerAfterShutdown ==
  (\E s \in Stoppers : pc[s] \in {"drain", "asleep", "woken", "returned"})
    => \A e \in Entries : timer[e] = "free"

\* "The earliest requested deadline taking precedence": while an item waits,
\* its deadline only moves to an earlier time.
Deadline(x) == entry[delayedEntries[x]].readyAt
DeadlineOnlyEarlier ==
  [][\A x \in Items :
       delayedEntries[x] # None /\ delayedEntries'[x] # None
         => Deadline(x)' <= Deadline(x)]_vars

-----------------------------------------------------------------------------
(* Liveness, under FairSpec.                                               *)

\* Every pending item is eventually taken, shutdown or not.
ItemsAreTaken == \A x \in Items : x \in dirty ~> x \notin dirty

\* A delayed item is eventually added, unless the queue shuts down.
DelayedItemsCome ==
  \A x \in Items : delayedEntries[x] # None ~> x \in dirty \/ shuttingDown

\* After a shutdown every consumer is told to leave.
ConsumersLeave == shuttingDown ~> \A g \in Getters : pc[g] = "returned"

\* A ShutDown returns, and a ShutDownWithDrain does when no other
\* ShutDownWithDrain was called.
ShutdownsReturn ==
  \A s \in Stoppers :
    pc[s] = "cancel" ~> pc[s] = "returned" \/ Cardinality(drainers) > 1

\* queue.go: ShutDownWithDrain blocks until the work is done, not for ever,
\* whoever else has called it.
EveryDrainReturns == \A s \in Stoppers : pc[s] = "cancel" ~> pc[s] = "returned"

-----------------------------------------------------------------------------
\* The queue implements the abstract work set: dirty items are pending,
\* processed ones active, and shuttingDown closes it.
Abstract == INSTANCE WorkSet WITH
  pending <- dirty, active <- processing, closed <- shuttingDown
ImplementsWorkSet == Abstract!Spec
=============================================================================
