---------------------------- MODULE WorkQueueProofs ----------------------------
(***************************************************************************)
(* The queue of pointers implements a FIFO queue of values, for any number *)
(* of objects, values and goroutines.                                      *)
(***************************************************************************)
EXTENDS WorkQueue, CollapsingQueueProofs

\* What Append does to the places of a sequence.
LEMMA AppendPlaces ==
  ASSUME NEW S, NEW s \in Seq(S), NEW e \in S
  PROVE  /\ Append(s, e) \in Seq(S) /\ Len(Append(s, e)) = Len(s) + 1
         /\ Append(s, e)[Len(s) + 1] = e
         /\ \A i \in 1..Len(s) : Append(s, e)[i] = s[i]
BY LenProperties

\* Every step of this queue is one of the collapsing queue below it, whose
\* invariant therefore holds.
LEMMA BelowStep == ASSUME [QueueNext]_queueVars PROVE [Next]_vars
BY DEF QueueNext, queueVars, QueueAdd, QueueTake, QueueOther, QueueStop, Next, Client, Get

LEMMA BelowInvariant == QueueSpec => []QueueInv
<1>1. QueueInit => Init
  BY DEF QueueInit
<1>2. [QueueNext]_queueVars => [Next]_vars
  BY BelowStep
<1> QED
  BY <1>1, <1>2, QueueInvariant, PTL DEF QueueSpec, Spec

-----------------------------------------------------------------------------

\* What is queued is what went in and has not come out, in the same order;
\* no object is dirty while it is processed, so that Done queues nothing.
ValuesInv ==
  /\ value \in [Items -> Values]
  /\ accepted \in Seq(Values) /\ delivered \in Seq(Values)
  /\ Len(accepted) = Len(delivered) + Len(queue)
  /\ \A i \in 1..Len(queue) : value[queue[i]] = accepted[Len(delivered) + i]
  /\ dirty \cap processing = {}

\* Add: the new object is queued, as nothing refers to it; the values of the
\* queued objects do not change.
LEMMA AddKeeps ==
  ASSUME QueueInv, ValuesInv, NEW x \in Items, NEW v \in Values, QueueAdd(x, v)
  PROVE  ValuesInv' /\ (Promise!Put(v) \/ UNCHANGED <<accepted, delivered, shuttingDown>>)
<1> USE DEF ValuesInv
<1>1. /\ accepted \in Seq(Values) /\ queue \in Seq(Items)
      /\ Len(queue) \in Nat /\ DOMAIN queue = 1..Len(queue)
      /\ Len(delivered) \in Nat /\ Len(accepted) \in Nat
  BY LenProperties DEF QueueInv, CondTypeOK
<1>2. x \notin dirty /\ x \notin processing /\ AddLocked(x) /\ delivered' = delivered
      /\ value' = [value EXCEPT ![x] = v]
  BY DEF QueueAdd, Unused, Add
<1>3. \A i \in 1..Len(queue) : queue[i] \in Items /\ queue[i] # x
  <2>1. \A i \in 1..Len(queue) : queue[i] \in Elements(queue)
    BY <1>1 DEF Elements
  <2> QED
    BY <1>1, <1>2, <2>1 DEF QueueInv, QueueMatchesSets, CondTypeOK
<1>4. \A i \in 1..Len(queue) : value'[queue[i]] = value[queue[i]]
  BY <1>2, <1>3
<1>5. value' \in [Items -> Values] /\ value'[x] = v
  BY <1>2
<1>6. CASE shuttingDown
  <2>1. UNCHANGED <<queue, dirty, processing, shuttingDown, accepted>>
    BY <1>2, <1>6 DEF AddLocked, condVars, QueueAdd
  <2> QED
    BY <1>1, <1>2, <1>4, <1>5, <2>1
<1>7. CASE ~shuttingDown
  <2>1. /\ queue' = Append(queue, x) /\ accepted' = Append(accepted, v)
        /\ dirty' = dirty \cup {x} /\ UNCHANGED <<processing, shuttingDown>>
    BY <1>2, <1>7 DEF AddLocked, Accept, Push, QueueAdd
  <2>2. /\ Len(queue') = Len(queue) + 1 /\ queue'[Len(queue) + 1] = x
        /\ \A i \in 1..Len(queue) : queue'[i] = queue[i]
    BY <1>1, <2>1, AppendPlaces
  <2>3. /\ accepted' \in Seq(Values) /\ Len(accepted') = Len(accepted) + 1
        /\ accepted'[Len(accepted) + 1] = v
        /\ \A i \in 1..Len(accepted) : accepted'[i] = accepted[i]
    <3> HIDE DEF ValuesInv
    <3>1. accepted' = Append(accepted, v)
      BY <2>1
    <3> QED
      BY <1>1, <3>1, AppendPlaces
  <2>4. ASSUME NEW i \in 1..Len(queue') PROVE value'[queue'[i]] = accepted'[Len(delivered) + i]
    <3>1. CASE i = Len(queue) + 1
      BY <1>1, <1>5, <2>2, <2>3, <3>1
    <3>2. CASE i \in 1..Len(queue)
      <4>1. Len(delivered) + i \in 1..Len(accepted)
        BY <1>1, <3>2
      <4> QED
        BY <1>4, <2>2, <2>3, <3>2, <4>1
    <3>3. i = Len(queue) + 1 \/ i \in 1..Len(queue)
      BY <1>1, <2>2
    <3> QED
      BY <3>1, <3>2, <3>3
  <2>5. Len(accepted') = Len(delivered') + Len(queue')
    BY <1>1, <1>2, <2>2, <2>3
  <2>6. ValuesInv'
    BY <1>2, <1>5, <2>1, <2>3, <2>4, <2>5
  <2>7. Promise!Put(v)
    BY <1>2, <1>7, <2>1 DEF Promise!Put
  <2> QED
    BY <2>6, <2>7
<1> QED
  BY <1>6, <1>7

\* Get takes the value that went in first of those still inside.
LEMMA TakeKeeps ==
  ASSUME QueueInv, ValuesInv, NEW g \in Getters, QueueTake(g)
  PROVE  ValuesInv' /\ Promise!Take
<1> USE DEF ValuesInv
<1>1. queue \in Seq(Items) /\ queue # <<>> /\ Distinct(queue)
  BY DEF QueueInv, CondTypeOK, QueueMatchesSets, QueueTake, GetTake
<1>2. /\ Len(queue) \in Nat \ {0} /\ Head(queue) = queue[1]
      /\ Len(Tail(queue)) = Len(queue) - 1
      /\ \A i \in 1..Len(queue) - 1 : Tail(queue)[i] = queue[i + 1]
  BY <1>1, HeadTailProperties, LenProperties, EmptySeq
<1>3. Head(queue) \in Items /\ Head(queue) \in Elements(queue)
  BY <1>1, TailElements
<1>4. /\ queue' = Tail(queue) /\ dirty' = dirty \ {Head(queue)}
      /\ processing' = processing \cup {Head(queue)}
      /\ delivered' = Append(delivered, value[Head(queue)])
      /\ UNCHANGED <<value, accepted, shuttingDown>>
  BY DEF QueueTake, GetTake
<1>5. Len(delivered) \in Nat /\ Len(accepted) \in Nat
  BY LenProperties
<1>6. value[Head(queue)] \in Values /\ value[Head(queue)] = accepted[Len(delivered) + 1]
  BY <1>2, <1>3
<1>7. delivered' \in Seq(Values) /\ Len(delivered') = Len(delivered) + 1
  BY <1>4, <1>6
<1>8. ASSUME NEW i \in 1..Len(queue')
      PROVE  value'[queue'[i]] = accepted'[Len(delivered') + i]
  <2>1. i \in 1..Len(queue) - 1 /\ i + 1 \in 1..Len(queue)
    BY <1>2, <1>4
  <2>2. value[queue[i + 1]] = accepted[Len(delivered) + (i + 1)]
    BY <2>1
  <2>3. Len(delivered) + (i + 1) = Len(delivered') + i
    BY <1>5, <1>7, <2>1
  <2> QED
    BY <1>2, <1>4, <2>1, <2>2, <2>3
<1>9. Len(accepted') = Len(delivered') + Len(queue')
  BY <1>2, <1>4, <1>5, <1>7
<1>10. dirty' \cap processing' = {}
  BY <1>4
<1>11. ValuesInv'
  BY <1>4, <1>7, <1>8, <1>9, <1>10
<1>12. Promise!Take
  BY <1>2, <1>4, <1>5, <1>6 DEF Promise!Take
<1> QED
  BY <1>11, <1>12

\* The rest of Get and the shutdown move no value.
LEMMA OtherKeeps ==
  ASSUME QueueInv, ValuesInv, QueueOther \/ UNCHANGED queueVars
  PROVE  ValuesInv' /\ (Promise!Close \/ UNCHANGED <<accepted, delivered, shuttingDown>>)
<1> DEFINE Kept == UNCHANGED <<queue, dirty, processing>>
           Still == UNCHANGED <<accepted, delivered, shuttingDown>>
<1>1. ASSUME NEW g \in Getters, NEW x \in Items, Done(g, x)
      PROVE  UNCHANGED <<queue, dirty, shuttingDown>> /\ processing' \subseteq processing
  <2>1. x \in processing
    BY <1>1 DEF Done, QueueInv, OneConsumerPerItem
  <2>2. x \notin dirty
    BY <2>1 DEF ValuesInv
  <2> QED
    BY <1>1, <2>2 DEF Done
<1>2. ASSUME NEW g \in Getters, GetWait(g) \/ GetShutdown(g)
      PROVE  Kept /\ UNCHANGED shuttingDown
  BY <1>2 DEF GetWait, GetShutdown, condVars
<1>3. ASSUME NEW s \in Stoppers, QueueStop(s)
      PROVE  Kept /\ (UNCHANGED shuttingDown \/ shuttingDown' = TRUE)
  BY <1>3 DEF QueueStop, ShutDown, ShutDownWithDrain, BeginShutDown, Stopping,
              CancelDelayedEntries, WgWait, DrainLoop, condVars
<1>4. /\ UNCHANGED <<queue, dirty, value, accepted, delivered>>
      /\ processing' \subseteq processing
      /\ UNCHANGED shuttingDown \/ shuttingDown' = TRUE
  BY <1>1, <1>2, <1>3 DEF QueueOther, queueVars, vars, condVars
<1>5. ValuesInv'
  BY <1>4 DEF ValuesInv
<1>6. Promise!Close \/ Still
  BY <1>4 DEF Promise!Close, QueueInv, CondTypeOK
<1> QED
  BY <1>5, <1>6

LEMMA ValuesStep ==
  ASSUME QueueInv, ValuesInv, [QueueNext]_queueVars
  PROVE  ValuesInv' /\ [Promise!FifoNext]_(Promise!fifoVars)
BY AddKeeps, TakeKeeps, OtherKeeps DEF QueueNext, Promise!FifoNext, Promise!fifoVars

LEMMA ValuesInvariant == QueueSpec => []ValuesInv
<1>1. QueueInit => ValuesInv
  BY DEF QueueInit, Init, ValuesInv
<1>2. QueueInv /\ ValuesInv /\ [QueueNext]_queueVars => ValuesInv'
  BY ValuesStep
<1> QED
  BY <1>1, <1>2, BelowInvariant, PTL DEF QueueSpec

\* Each Add results in one Get, in the order of the Adds, whatever the
\* values are and however the consumers and a shutdown interleave.
THEOREM QueueImplementsFifo == QueueSpec => ImplementsFifo
<1>1. QueueInit => Promise!FifoInit
  BY DEF QueueInit, Init, Promise!FifoInit
<1>2. QueueInv /\ ValuesInv /\ [QueueNext]_queueVars => [Promise!FifoNext]_(Promise!fifoVars)
  BY ValuesStep
<1> QED
  BY <1>1, <1>2, BelowInvariant, ValuesInvariant, PTL
     DEF QueueSpec, ImplementsFifo, Promise!FifoSpec

\* When every consumer has been told to leave, all accepted values have been
\* delivered: a shutdown loses none of them.
THEOREM NoValueLeftBehind ==
  QueueSpec => []((Getters # {} /\ \A g \in Getters : pc[g] = "returned")
                    => Len(delivered) = Len(accepted))
<1>1. QueueInit => Init
  BY DEF QueueInit
<1>2. [QueueNext]_queueVars => [Next]_vars
  BY BelowStep
<1>3. Spec => []NothingStranded
  BY NoWorkStranded, WorkQueueAssumption
<1>4. NothingStranded /\ ValuesInv
        => ((Getters # {} /\ \A g \in Getters : pc[g] = "returned")
              => Len(delivered) = Len(accepted))
  <2>1. ASSUME ValuesInv, queue = <<>> PROVE Len(delivered) = Len(accepted)
    BY <2>1, LenProperties, EmptySeq DEF ValuesInv
  <2> QED
    BY <2>1 DEF NothingStranded
<1> QED
  BY <1>1, <1>2, <1>3, <1>4, ValuesInvariant, PTL DEF QueueSpec, Spec
=============================================================================
