------------------------------- MODULE WorkQueue -------------------------------
(***************************************************************************)
(* internal/queue/queue.go: the queue of a worker pool, which keeps equal  *)
(* values apart.  It is a CollapsingQueue of *item pointers: here Items    *)
(* are the addresses of item objects, value is what they hold.  A Get      *)
(* calls Done itself before it returns, so that HandOff is FALSE.          *)
(***************************************************************************)
EXTENDS CollapsingQueueProps

CONSTANTS
  Values,  \* values of the type parameter T of Queue
  MaxPuts  \* bound on the values that are added

ASSUME WorkQueueAssumption == MaxPuts \in Nat /\ ~HandOff

VARIABLES
  value,      \* the field value of each item
  accepted,   \* values added before the shutdown, in order
  delivered   \* values taken by the callers of Get, in order

queueVars == <<vars, value, accepted, delivered>>

QueueInit ==
  /\ Init
  /\ value \in [Items -> Values]
  /\ accepted = <<>> /\ delivered = <<>>

\* An item object is used again while the queue refers to it.
FaultyUnused(x) == TRUE

\* &item{} is the address of an object nothing refers to: a collected one's
\* address may come back.
Unused(x) == x \notin dirty \cup processing

QueueAdd(x, v) ==
  /\ Len(accepted) < MaxPuts
  /\ Unused(x) /\ value' = [value EXCEPT ![x] = v]
  /\ Add(x)
  /\ accepted' = IF shuttingDown THEN accepted ELSE Append(accepted, v)
  /\ UNCHANGED delivered

QueueTake(g) ==
  /\ GetTake(g)
  /\ delivered' = Append(delivered, value[Head(queue)])
  /\ UNCHANGED <<value, accepted>>

QueueStop(s) == ShutDown(s) \/ ShutDownWithDrain(s) \/ Stopping(s)

\* The rest of Get and of ShutDown moves no value.
QueueOther ==
  /\ \/ \E g \in Getters : GetWait(g) \/ GetShutdown(g) \/ \E x \in Items : Done(g, x)
     \/ \E s \in Stoppers : QueueStop(s)
  /\ UNCHANGED <<value, accepted, delivered>>

QueueNext ==
  \/ \E x \in Items, v \in Values : QueueAdd(x, v)
  \/ \E g \in Getters : QueueTake(g)
  \/ QueueOther

QueueSpec == QueueInit /\ [][QueueNext]_queueVars

\* A consumer that is in Get runs, and keeps getting.
QueueFairSpec ==
  /\ QueueSpec
  /\ \A g \in Getters :
       /\ WF_queueVars(QueueTake(g) \/ ((GetWait(g) \/ GetShutdown(g)) /\ UNCHANGED <<value, accepted, delivered>>))
       /\ \A x \in Items : WF_queueVars(Done(g, x) /\ UNCHANGED <<value, accepted, delivered>>)

-----------------------------------------------------------------------------

\* The comment on NewQueue: "this queue does not deduplicate items - each
\* Add results in a corresponding Get", with any number of consumers and
\* though the queue below collapses equal items.
Promise == INSTANCE Fifo WITH in <- accepted, out <- delivered, closed <- shuttingDown
ImplementsFifo == Promise!FifoSpec

\* The comment on ShutDown: elements present before the shutdown are "still
\* returned by Get() calls", and so is every other accepted value.
EveryPutIsTaken == \A n \in 1..MaxPuts : Len(accepted) >= n ~> Len(delivered) >= n
=============================================================================
