------------------------ MODULE CollapsingQueueProofs ------------------------
(***************************************************************************)
(* Theorems about the part of CollapsingQueue that cond.L guards, for any  *)
(* number of items, goroutines and timers.                                 *)
(***************************************************************************)
EXTENDS CollapsingQueueProps, FiniteSetTheorems, SequenceTheorems, TLAPS

-----------------------------------------------------------------------------
(* What Append and Tail do to the elements of a queue.                     *)

\* Push puts a new element at the end of the queue: the elements gain it, and
\* stay distinct if it was not among them.
LEMMA AppendElements ==
  ASSUME NEW S, NEW s \in Seq(S), NEW x \in S
  PROVE  /\ Append(s, x) \in Seq(S)
         /\ Elements(Append(s, x)) = Elements(s) \cup {x}
         /\ Distinct(s) /\ x \notin Elements(s) => Distinct(Append(s, x))
<1> DEFINE t == Append(s, x)
<1>1. /\ t \in Seq(S) /\ Len(t) = Len(s) + 1 /\ Len(s) \in Nat
      /\ DOMAIN s = 1..Len(s) /\ DOMAIN t = 1..Len(s) + 1
      /\ t[Len(s) + 1] = x /\ \A i \in 1..Len(s) : t[i] = s[i]
  BY LenProperties
<1> HIDE DEF t
<1>2. Elements(t) = Elements(s) \cup {x}
  BY <1>1 DEF Elements
<1>3. Distinct(s) /\ x \notin Elements(s) => Distinct(t)
  BY <1>1 DEF Elements, Distinct
<1> QED
  BY <1>1, <1>2, <1>3 DEF t

\* Pop removes the head of the queue: the elements lose it if they were
\* distinct.
LEMMA TailElements ==
  ASSUME NEW S, NEW s \in Seq(S), s # <<>>, Distinct(s)
  PROVE  /\ Head(s) \in Elements(s) /\ Head(s) \in S
         /\ Tail(s) \in Seq(S) /\ Len(Tail(s)) = Len(s) - 1
         /\ Elements(Tail(s)) = Elements(s) \ {Head(s)}
         /\ Distinct(Tail(s))
<1> DEFINE t == Tail(s)
<1>1. /\ t \in Seq(S) /\ Len(t) = Len(s) - 1 /\ Len(s) \in Nat \ {0}
      /\ DOMAIN s = 1..Len(s) /\ DOMAIN t = 1..Len(s) - 1
      /\ Head(s) = s[1] /\ \A i \in 1..Len(s) - 1 : t[i] = s[i + 1]
  BY HeadTailProperties, LenProperties, EmptySeq
<1>2. Head(s) \in S
  BY HeadTailProperties
<1> HIDE DEF t
<1>3. Elements(t) = Elements(s) \ {s[1]}
  <2>1. \A y \in Elements(t) : y \in Elements(s) \ {s[1]}
    BY <1>1 DEF Elements, Distinct
  <2>2. ASSUME NEW y \in Elements(s) \ {s[1]} PROVE y \in Elements(t)
    <3>1. PICK i \in 1..Len(s) : y = s[i] /\ i # 1
      BY <1>1 DEF Elements
    <3>2. i - 1 \in DOMAIN t /\ t[i - 1] = y
      BY <1>1, <3>1
    <3> QED
      BY <3>2 DEF Elements
  <2> QED
    BY <2>1, <2>2
<1>4. Distinct(t)
  BY <1>1 DEF Distinct
<1> QED
  BY <1>1, <1>2, <1>3, <1>4 DEF t, Elements

-----------------------------------------------------------------------------
(* Types.                                                                  *)

\* Signal changes nothing but makes at most one sleeper "woken".
LEMMA SignalType ==
  ASSUME CondTypeOK, Signal
  PROVE  /\ pc' \in [Threads -> StopperPcs]
         /\ \A g \in Getters : pc'[g] \in GetterPcs
BY DEF CondTypeOK, Signal, Asleep, StopperPcs, GetterPcs, Threads

\* Add keeps the types of what cond.L guards.
LEMMA AddLockedType ==
  ASSUME CondTypeOK, NEW x \in Items, AddLocked(x), UNCHANGED <<holds, drainers>>
  PROVE  CondTypeOK'
<1>1. CASE UNCHANGED <<condVars, pc>>
  BY <1>1 DEF CondTypeOK, condVars
<1>2. CASE Accept(x) /\ x \in processing
  BY <1>2 DEF CondTypeOK, Accept
<1>3. CASE Accept(x) /\ x \notin processing
  <2>1. queue' \in Seq(Items)
    BY <1>3, AppendElements DEF Accept, Push, CondTypeOK
  <2> QED
    BY <1>3, <2>1, SignalType DEF CondTypeOK, Accept, Push
<1> QED
  BY <1>1, <1>2, <1>3 DEF AddLocked

\* Every step keeps the types of what cond.L guards.
LEMMA CondTypeStep ==
  ASSUME CondTypeOK, DelayTypeOK, [Next]_vars
  PROVE  CondTypeOK'
<1> USE DEF CondTypeOK
<1>1. ASSUME NEW x \in Items, Add(x) PROVE CondTypeOK'
  BY <1>1, AddLockedType DEF Add
<1>2. ASSUME NEW x \in Items, ResetRateLimit(x) PROVE CondTypeOK'
  BY <1>2 DEF ResetRateLimit, condVars, threadVars
<1>3. ASSUME NEW p \in Adders, NEW x \in Items, NEW d, BeginAddAfter(p, x, d)
      PROVE  CondTypeOK'
  BY <1>3, AddLockedType DEF BeginAddAfter, condVars
<1>4. ASSUME NEW s \in Stoppers, NEW w \in BOOLEAN, BeginShutDown(s, w)
      PROVE  CondTypeOK'
  BY <1>4, ThreadsAssumption
     DEF BeginShutDown, WakeAll, Threads, StopperPcs, GetterPcs
<1>5. ASSUME NEW g \in Getters, Get(g) PROVE CondTypeOK'
  <2>1. CASE GetTake(g)
    <3>1. Head(queue) \in Items /\ Tail(queue) \in Seq(Items)
      BY <2>1, HeadTailProperties DEF GetTake
    <3> QED
      BY <2>1, <3>1 DEF GetTake, Threads, StopperPcs, GetterPcs
  <2>2. CASE GetWait(g) \/ GetShutdown(g)
    BY <2>2 DEF GetWait, GetShutdown, condVars, Threads, StopperPcs, GetterPcs
  <2> QED
    BY <1>5, <2>1, <2>2 DEF Get
<1>6. ASSUME NEW g \in Getters, NEW x \in Items, Done(g, x) PROVE CondTypeOK'
  <2>1. Append(queue, x) \in Seq(Items)
    BY AppendElements
  <2>2. /\ pc' \in [Threads -> StopperPcs]
        /\ \A h \in Getters : pc'[h] \in GetterPcs
    BY <1>6, SignalType DEF Done, SignalIfIdle, Push
  <2> QED
    BY <1>6, <2>1, <2>2 DEF Done, SignalIfIdle, Push
<1>7. ASSUME NEW p \in Adders, AddAfterLocked(p) PROVE CondTypeOK'
  BY <1>7 DEF AddAfterLocked, condVars, threadVars
<1>8. ASSUME NEW s \in Stoppers, Stopping(s) PROVE CondTypeOK'
  BY <1>8, ThreadsAssumption
     DEF Stopping, CancelDelayedEntries, WgWait, DrainLoop, condVars, Threads,
         StopperPcs, GetterPcs
<1>9. ASSUME NEW e \in Entries, Timer(e) PROVE CondTypeOK'
  <2>1. CASE CallbackAdd(e)
    <3>1. entry[e].item \in Items
      BY <2>1 DEF CallbackAdd, DelayTypeOK
    <3> QED
      BY <2>1, <3>1, AddLockedType DEF CallbackAdd
  <2>2. CASE Fire(e) \/ CallbackLocked(e)
    BY <2>2 DEF Fire, CallbackLocked, condVars, threadVars
  <2> QED
    BY <1>9, <2>1, <2>2 DEF Timer
<1>10. CASE Tick \/ UNCHANGED vars
  BY <1>10 DEF Tick, vars, condVars, threadVars
<1> QED
  BY <1>1, <1>2, <1>3, <1>4, <1>5, <1>6, <1>7, <1>8, <1>9, <1>10
     DEF Next, Client, AddAfter, AddRateLimited, ShutDown, ShutDownWithDrain

\* Every step keeps the types of the delayed entries and of the clock.
LEMMA DelayTypeStep ==
  ASSUME DelayTypeOK, [Next]_vars
  PROVE  DelayTypeOK'
<1> USE BoundsAssumption DEF DelayTypeOK, Entry, Call
<1>1. ASSUME NEW x \in Items, Add(x) PROVE DelayTypeOK'
  BY <1>1 DEF Add, delayVars, callVars
<1>2. ASSUME NEW x \in Items, ResetRateLimit(x) PROVE DelayTypeOK'
  BY <1>2 DEF ResetRateLimit, delayVars
<1>3. ASSUME NEW p \in Adders, NEW x \in Items, NEW d \in Nat, BeginAddAfter(p, x, d)
      PROVE  /\ addAfter' \in [Adders -> Call]
             /\ \A q \in Adders : addAfter'[q] # NoCall => addAfter'[q].item \in Items
  <2> DEFINE c == [item |-> x, delay |-> d, readyAt |-> now + d]
  <2>1. c \in Call /\ c.item \in Items
    OBVIOUS
  <2> HIDE DEF c
  <2>2. UNCHANGED addAfter \/ addAfter' = [addAfter EXCEPT ![p] = c]
    BY <1>3 DEF BeginAddAfter, c
  <2> QED
    BY <2>1, <2>2
<1>4. ASSUME NEW p \in Adders, NEW x \in Items, NEW d \in Delays, AddAfter(p, x, d)
      PROVE  DelayTypeOK'
  BY <1>3, <1>4 DEF AddAfter, BeginAddAfter, delayVars
<1>5. ASSUME NEW p \in Adders, NEW x \in Items, AddRateLimited(p, x) PROVE DelayTypeOK'
  <2>1. Backoff[failures[x]] \in Nat
    BY DEF DelayTypeOK
  <2>2. failures' \in [Items -> 0..MaxFailures]
    BY <1>5 DEF AddRateLimited
  <2> QED
    BY <1>3, <1>5, <2>1, <2>2 DEF AddRateLimited, BeginAddAfter, delayVars
<1>6. ASSUME NEW s \in Stoppers, NEW w \in BOOLEAN, BeginShutDown(s, w)
      PROVE  DelayTypeOK'
  BY <1>6 DEF BeginShutDown, callVars
<1>7. ASSUME NEW g \in Getters, Get(g) \/ \E x \in Items : Done(g, x) PROVE DelayTypeOK'
  BY <1>7 DEF Get, GetTake, GetWait, GetShutdown, Done, delayVars, callVars
<1>8. ASSUME NEW p \in Adders, AddAfterLocked(p) PROVE DelayTypeOK'
  <2>1. CASE Refused(addAfter[p])
    BY <1>8, <2>1 DEF AddAfterLocked, NoCall
  <2>2. CASE ~Refused(addAfter[p])
    <3> DEFINE c == addAfter[p]
    <3>1. c.item \in Items /\ c.readyAt \in Nat /\ now + c.delay \in Nat
      BY <1>8 DEF AddAfterLocked
    <3>2. PICK e \in Entries :
            /\ delayedEntries' = [delayedEntries EXCEPT ![c.item] = e]
            /\ timer' = [f \in Entries |->
                 IF f = e THEN "armed"
                 ELSE IF f = delayedEntries[c.item] /\ timer[f] = "armed" THEN "free"
                 ELSE timer[f]]
            /\ entry' = [f \in Entries |->
                 IF f = e THEN [item    |-> c.item,
                                readyAt |-> c.readyAt,
                                firesAt |-> now + c.delay]
                 ELSE IF f = delayedEntries[c.item] /\ timer[f] = "armed" THEN FreeEntry
                 ELSE entry[f]]
      BY <1>8, <2>2 DEF AddAfterLocked, StartTimer
    <3>3. timer' \in [Entries -> {"free", "armed", "fired", "adding"}]
      BY <3>2
    <3>4. entry' \in [Entries -> Entry]
      BY <3>1, <3>2 DEF FreeEntry
    <3>5. \A f \in Entries : timer'[f] # "free" => entry'[f].item \in Items
      BY <3>1, <3>2
    <3>6. delayedEntries' \in [Items -> Entries \cup {None}]
      BY <3>1, <3>2
    <3> QED
      BY <1>8, <3>3, <3>4, <3>5, <3>6 DEF AddAfterLocked, NoCall
  <2> QED
    BY <2>1, <2>2
<1>9. ASSUME NEW s \in Stoppers, Stopping(s) PROVE DelayTypeOK'
  <2>1. CASE CancelDelayedEntries(s)
    BY <2>1 DEF CancelDelayedEntries, Cancellable, FreeEntry, callVars
  <2>2. CASE WgWait(s) \/ DrainLoop(s)
    BY <2>2 DEF WgWait, DrainLoop, delayVars, callVars
  <2> QED
    BY <1>9, <2>1, <2>2 DEF Stopping
<1>10. ASSUME NEW e \in Entries, Timer(e) PROVE DelayTypeOK'
  <2>1. Release(e) => /\ timer' \in [Entries -> {"free", "armed", "fired", "adding"}]
                      /\ entry' \in [Entries -> Entry]
                      /\ \A f \in Entries : timer'[f] # "free" => entry'[f].item \in Items
    BY DEF Release, FreeEntry
  <2>2. CASE Fire(e)
    BY <2>2 DEF Fire, callVars
  <2>3. CASE CallbackLocked(e) /\ delayedEntries[entry[e].item] # e
    BY <2>1, <2>3 DEF CallbackLocked, callVars
  <2>4. CASE CallbackLocked(e) /\ delayedEntries[entry[e].item] = e
    BY <2>4 DEF CallbackLocked, callVars
  <2>5. CASE CallbackAdd(e)
    BY <2>1, <2>5 DEF CallbackAdd, callVars
  <2> QED
    BY <1>10, <2>2, <2>3, <2>4, <2>5 DEF Timer
<1>11. CASE Tick \/ UNCHANGED vars
  BY <1>11 DEF Tick, vars, delayVars, callVars
<1> QED
  BY <1>1, <1>2, <1>4, <1>5, <1>6, <1>7, <1>8, <1>9, <1>10, <1>11
     DEF Next, Client, ShutDown, ShutDownWithDrain

-----------------------------------------------------------------------------
(* The queue, its sets and the consumers.                                  *)

\* Add keeps the queue in step with the sets.
LEMMA AddLockedQueue ==
  ASSUME CondTypeOK, QueueMatchesSets, NEW x \in Items, AddLocked(x)
  PROVE  QueueMatchesSets' /\ UNCHANGED processing
<1>1. CASE UNCHANGED <<condVars, pc>>
  BY <1>1 DEF QueueMatchesSets, condVars
<1>2. CASE Accept(x) /\ x \in processing
  BY <1>2 DEF QueueMatchesSets, Accept
<1>3. CASE Accept(x) /\ x \notin processing /\ x \notin dirty
  <2>1. /\ queue' = Append(queue, x) /\ dirty' = dirty \cup {x}
        /\ processing' = processing /\ x \notin Elements(queue)
    BY <1>3 DEF Accept, Push, QueueMatchesSets
  <2>2. Distinct(queue') /\ Elements(queue') = Elements(queue) \cup {x}
    BY <2>1, AppendElements DEF CondTypeOK, QueueMatchesSets
  <2> QED
    BY <1>3, <2>1, <2>2 DEF QueueMatchesSets
<1> QED
  BY <1>1, <1>2, <1>3 DEF AddLocked

\* Get hands out an item that nobody holds, and Done gives it back.
LEMMA QueueStep ==
  ASSUME CondTypeOK, DelayTypeOK, QueueMatchesSets, OneConsumerPerItem, [Next]_vars
  PROVE  QueueMatchesSets' /\ OneConsumerPerItem'
<1> DEFINE Kept == UNCHANGED <<queue, dirty, processing, holds>>
<1>1. Kept => QueueMatchesSets' /\ OneConsumerPerItem'
  BY DEF QueueMatchesSets, OneConsumerPerItem
<1>2. ASSUME NEW x \in Items, AddLocked(x), UNCHANGED holds
      PROVE  QueueMatchesSets' /\ OneConsumerPerItem'
  BY <1>2, AddLockedQueue DEF OneConsumerPerItem
<1>3. ASSUME NEW x \in Items, Add(x) \/ ResetRateLimit(x)
      PROVE  QueueMatchesSets' /\ OneConsumerPerItem'
  BY <1>1, <1>2, <1>3 DEF Add, ResetRateLimit, condVars, threadVars
<1>4. ASSUME NEW p \in Adders, NEW x \in Items, NEW d, BeginAddAfter(p, x, d)
      PROVE  QueueMatchesSets' /\ OneConsumerPerItem'
  BY <1>1, <1>2, <1>4 DEF BeginAddAfter, condVars
<1>5. ASSUME NEW s \in Stoppers, NEW w \in BOOLEAN, BeginShutDown(s, w) PROVE Kept
  BY <1>5 DEF BeginShutDown
<1>6. ASSUME NEW g \in Getters, GetTake(g)
      PROVE  QueueMatchesSets' /\ OneConsumerPerItem'
  <2> DEFINE x == Head(queue)
  <2>1. /\ x \in dirty \ processing
        /\ Elements(queue') = Elements(queue) \ {x} /\ Distinct(queue')
    BY <1>6, TailElements DEF GetTake, CondTypeOK, QueueMatchesSets
  <2>2. QueueMatchesSets'
    BY <1>6, <2>1 DEF GetTake, QueueMatchesSets
  <2>3. /\ processing' = processing \cup {x}
        /\ holds' = [holds EXCEPT ![g] = @ \cup {x}]
        /\ holds \in [Getters -> SUBSET Items]
    BY <1>6 DEF GetTake, CondTypeOK
  <2> HIDE DEF x
  <2>4. OneConsumerPerItem'
    BY <2>1, <2>3 DEF OneConsumerPerItem
  <2> QED
    BY <2>2, <2>4
<1>7. ASSUME NEW g \in Getters, GetWait(g) \/ GetShutdown(g) PROVE Kept
  BY <1>7 DEF GetWait, GetShutdown, condVars
<1>8. ASSUME NEW g \in Getters, NEW x \in Items, Done(g, x)
      PROVE  QueueMatchesSets' /\ OneConsumerPerItem'
  <2>1. /\ x \in holds[g] /\ x \in processing
        /\ processing' = processing \ {x}
        /\ holds' = [holds EXCEPT ![g] = @ \ {x}]
        /\ holds \in [Getters -> SUBSET Items]
    BY <1>8 DEF Done, CondTypeOK, OneConsumerPerItem
  <2>2. OneConsumerPerItem'
    BY <2>1 DEF OneConsumerPerItem
  <2>3. CASE x \in dirty
    <3>1. /\ queue' = Append(queue, x) /\ dirty' = dirty
          /\ x \notin Elements(queue)
      BY <1>8, <2>1, <2>3 DEF Done, Push, QueueMatchesSets
    <3>2. Distinct(queue') /\ Elements(queue') = Elements(queue) \cup {x}
      BY <3>1, AppendElements DEF CondTypeOK, QueueMatchesSets
    <3> QED
      BY <2>1, <2>2, <2>3, <3>1, <3>2 DEF QueueMatchesSets
  <2>4. CASE x \notin dirty
    BY <1>8, <2>1, <2>2, <2>4 DEF Done, QueueMatchesSets
  <2> QED
    BY <2>3, <2>4
<1>9. ASSUME NEW p \in Adders, AddAfterLocked(p) PROVE Kept
  BY <1>9 DEF AddAfterLocked, condVars, threadVars
<1>10. ASSUME NEW s \in Stoppers, Stopping(s) PROVE Kept
  BY <1>10 DEF Stopping, CancelDelayedEntries, WgWait, DrainLoop, condVars
<1>11. ASSUME NEW e \in Entries, Timer(e)
       PROVE  QueueMatchesSets' /\ OneConsumerPerItem'
  <2>1. CASE CallbackAdd(e)
    BY <1>2, <2>1 DEF CallbackAdd, DelayTypeOK
  <2>2. CASE Fire(e) \/ CallbackLocked(e)
    BY <1>1, <2>2 DEF Fire, CallbackLocked, condVars, threadVars
  <2> QED
    BY <1>11, <2>1, <2>2 DEF Timer
<1>12. CASE Tick \/ UNCHANGED vars
  BY <1>1, <1>12 DEF Tick, vars, condVars, threadVars
<1> HIDE DEF Kept
<1> QED
  BY <1>1, <1>3, <1>4, <1>5, <1>6, <1>7, <1>8, <1>9, <1>10, <1>11, <1>12
     DEF Next, Client, AddAfter, AddRateLimited, ShutDown, ShutDownWithDrain, Get

QueueInv == CondTypeOK /\ DelayTypeOK /\ QueueMatchesSets /\ OneConsumerPerItem

\* The inductive invariant behind the theorems of this module.
LEMMA QueueInvariant == Spec => []QueueInv
<1>1. Init => QueueInv
  <2> SUFFICES ASSUME Init PROVE QueueInv
    OBVIOUS
  <2> USE DEF Init
  <2>1. CondTypeOK
    BY EmptySeq DEF CondTypeOK, Threads, StopperPcs, GetterPcs
  <2>2. DelayTypeOK
    BY BoundsAssumption DEF DelayTypeOK, Entry, Call, FreeEntry, NoCall
  <2>3. QueueMatchesSets /\ OneConsumerPerItem
    BY DEF QueueMatchesSets, OneConsumerPerItem, Elements, Distinct
  <2> QED
    BY <2>1, <2>2, <2>3 DEF QueueInv
<1>2. QueueInv /\ [Next]_vars => QueueInv'
  BY CondTypeStep, DelayTypeStep, QueueStep DEF QueueInv
<1> QED
  BY <1>1, <1>2, PTL DEF Spec

\* No accepted item is lost and none is queued twice: the queue holds exactly
\* the dirty items that nobody is processing, each once.
THEOREM QueueCorrect == Spec => []QueueMatchesSets
<1>1. QueueInv => QueueMatchesSets
  BY DEF QueueInv
<1> QED
  BY <1>1, QueueInvariant, PTL

\* Get never gives an item to a consumer while another one works on it.
THEOREM ConsumersExclusive == Spec => []OneConsumerPerItem
<1>1. QueueInv => OneConsumerPerItem
  BY DEF QueueInv
<1> QED
  BY <1>1, QueueInvariant, PTL

-----------------------------------------------------------------------------
(* Wakeups.                                                                *)

Woken == {g \in Getters : pc[g] = "woken"}

\* Only drains sleep during a shutdown and only consumers before it, so that
\* the one goroutine that Signal wakes is always of the kind it is meant for.
SleepersInv ==
  /\ \A s \in Stoppers : pc[s] # "idle" => shuttingDown
  /\ shuttingDown => \A g \in Getters : pc[g] # "asleep"

WakeInv == QueueInv /\ SleepersInv /\ NoLostWakeup

\* The woken consumers are finitely many, before and after a step.
LEMMA WokenFinite ==
  /\ IsFiniteSet(Woken) /\ Cardinality(Woken) \in Nat
  /\ IsFiniteSet(Woken') /\ Cardinality(Woken') \in Nat
<1>1. Woken \in SUBSET Getters /\ Woken' \in SUBSET Getters
  BY DEF Woken
<1> QED
  BY <1>1, ThreadsAssumption, FS_Subset, FS_CardinalityType

\* Signal puts no goroutine to sleep; before a shutdown it wakes one consumer
\* if one sleeps.
LEMMA SignalWakes ==
  ASSUME CondTypeOK, SleepersInv, Signal
  PROVE  /\ \A t \in Threads : pc'[t] # pc[t] => pc[t] = "asleep" /\ pc'[t] = "woken"
         /\ (\E g \in Getters : pc[g] = "asleep")
              => Cardinality(Woken') = Cardinality(Woken) + 1
<1>1. \A t \in Threads : pc'[t] # pc[t] => pc[t] = "asleep" /\ pc'[t] = "woken"
  BY DEF CondTypeOK, Signal, Asleep
<1>2. ASSUME NEW h \in Getters, pc[h] = "asleep"
      PROVE  Cardinality(Woken') = Cardinality(Woken) + 1
  <2>1. \A t \in Asleep : t \in Getters
    BY <1>2 DEF SleepersInv, Asleep, Threads
  <2>2. PICK g \in Getters : pc[g] = "asleep" /\ pc' = [pc EXCEPT ![g] = "woken"]
    BY <1>2, <2>1 DEF Signal, Asleep, Threads
  <2>3. Woken' = Woken \cup {g} /\ g \notin Woken
    BY <2>2 DEF Woken, CondTypeOK, Threads
  <2> QED
    BY <2>3, WokenFinite, FS_AddElement
<1> QED
  BY <1>1, <1>2

\* Add: one more item in the queue, one more consumer awake.
LEMMA AddLockedWakes ==
  ASSUME WakeInv, NEW x \in Items, AddLocked(x)
  PROVE  SleepersInv' /\ NoLostWakeup'
<1> USE DEF WakeInv, QueueInv
<1>1. CASE UNCHANGED <<queue, shuttingDown, pc>>
  BY <1>1 DEF SleepersInv, NoLostWakeup
<1>2. CASE Accept(x) /\ x \notin processing /\ ~shuttingDown
  <2>1. /\ \A t \in Threads : pc'[t] # pc[t] => pc[t] = "asleep" /\ pc'[t] = "woken"
        /\ (\E g \in Getters : pc[g] = "asleep")
             => Cardinality(Woken') = Cardinality(Woken) + 1
    BY <1>2, SignalWakes DEF Accept, Push
  <2>2. SleepersInv'
    BY <1>2, <2>1 DEF SleepersInv, Accept, Threads
  <2>3. Len(queue') = Len(queue) + 1 /\ Len(queue) \in Nat
    BY <1>2, LenProperties DEF Accept, Push, CondTypeOK
  <2>4. NoLostWakeup'
    BY <2>1, <2>3, WokenFinite DEF NoLostWakeup, Woken, Threads
  <2> QED
    BY <2>2, <2>4
<1> QED
  BY <1>1, <1>2 DEF AddLocked, Accept, condVars

\* The operations of the consumers keep enough of them awake.
LEMMA ConsumerWakes ==
  ASSUME WakeInv, NEW g \in Getters, Get(g) \/ \E x \in Items : Done(g, x)
  PROVE  SleepersInv' /\ NoLostWakeup'
<1> USE DEF WakeInv, QueueInv
<1>0. \A s \in Stoppers : s # g /\ s \in Threads
  BY ThreadsAssumption DEF Threads
<1>1. CASE GetTake(g)
  <2>1. SleepersInv'
    BY <1>0, <1>1 DEF GetTake, SleepersInv, CondTypeOK, Threads
  <2>2. Len(queue') = Len(queue) - 1 /\ Len(queue) \in Nat
    BY <1>1, HeadTailProperties, LenProperties DEF GetTake, CondTypeOK
  <2>3. Woken' = Woken \ {g}
    BY <1>1 DEF GetTake, Woken, CondTypeOK, Threads
  <2>4. Cardinality(Woken') >= Cardinality(Woken) - 1
    BY <2>3, WokenFinite, FS_RemoveElement
  <2>5. (\E h \in Getters : pc'[h] = "asleep") => \E h \in Getters : pc[h] = "asleep"
    BY <1>1 DEF GetTake, CondTypeOK, Threads
  <2> QED
    BY <2>1, <2>2, <2>4, <2>5, WokenFinite DEF NoLostWakeup, Woken
<1>2. CASE GetWait(g)
  <2>1. SleepersInv'
    BY <1>0, <1>2 DEF GetWait, SleepersInv, CondTypeOK, Threads, condVars
  <2>2. Len(queue') = 0
    BY <1>2, EmptySeq DEF GetWait, condVars
  <2> QED
    BY <2>1, <2>2, WokenFinite DEF NoLostWakeup, Woken
<1>3. CASE GetShutdown(g)
  BY <1>0, <1>3 DEF GetShutdown, SleepersInv, NoLostWakeup, CondTypeOK, Threads, condVars
<1>4. ASSUME NEW x \in Items, Done(g, x) PROVE SleepersInv' /\ NoLostWakeup'
  <2>1. CASE Signal
    <3>1. /\ \A t \in Threads : pc'[t] # pc[t] => pc[t] = "asleep" /\ pc'[t] = "woken"
          /\ (\E h \in Getters : pc[h] = "asleep")
               => Cardinality(Woken') = Cardinality(Woken) + 1
      BY <2>1, SignalWakes
    <3>2. SleepersInv'
      BY <1>4, <3>1 DEF SleepersInv, Done, Threads
    <3>3. Len(queue') <= Len(queue) + 1 /\ Len(queue) \in Nat /\ Len(queue') \in Nat
      BY <1>4, LenProperties DEF Done, Push, CondTypeOK
    <3> QED
      BY <3>1, <3>2, <3>3, WokenFinite DEF NoLostWakeup, Woken, Threads
  <2>2. CASE ~Signal
    BY <1>4, <2>2 DEF Done, Push, SignalIfIdle, SleepersInv, NoLostWakeup
  <2> QED
    BY <2>1, <2>2
<1> QED
  BY <1>1, <1>2, <1>3, <1>4 DEF Get

\* Every step keeps the consumers awake that the queue needs.
LEMMA WakeStep ==
  ASSUME WakeInv, [Next]_vars
  PROVE  SleepersInv' /\ NoLostWakeup'
<1> USE DEF WakeInv, QueueInv
<1> DEFINE Kept == UNCHANGED <<queue, shuttingDown, pc>>
<1>1. Kept => SleepersInv' /\ NoLostWakeup'
  BY DEF SleepersInv, NoLostWakeup
<1>2. ASSUME NEW x \in Items, Add(x) \/ ResetRateLimit(x)
      PROVE  SleepersInv' /\ NoLostWakeup'
  BY <1>1, <1>2, AddLockedWakes DEF Add, ResetRateLimit, condVars, threadVars
<1>3. ASSUME NEW p \in Adders, NEW x \in Items, NEW d, BeginAddAfter(p, x, d)
      PROVE  SleepersInv' /\ NoLostWakeup'
  BY <1>1, <1>3, AddLockedWakes DEF BeginAddAfter, condVars
<1>4. ASSUME NEW s \in Stoppers, NEW w \in BOOLEAN, BeginShutDown(s, w)
      PROVE  SleepersInv' /\ NoLostWakeup'
  <2>1. shuttingDown' /\ \A g \in Getters : pc'[g] # "asleep"
    BY <1>4, ThreadsAssumption DEF BeginShutDown, WakeAll, Threads
  <2> QED
    BY <2>1 DEF SleepersInv, NoLostWakeup
<1>5. ASSUME NEW s \in Stoppers, Stopping(s)
      PROVE  SleepersInv' /\ NoLostWakeup'
  <2>1. /\ UNCHANGED <<queue, shuttingDown>> /\ shuttingDown
        /\ \A t \in Threads : t # s => pc'[t] = pc[t]
    BY <1>5 DEF Stopping, CancelDelayedEntries, WgWait, DrainLoop, condVars,
                SleepersInv, CondTypeOK, Threads
  <2>2. \A g \in Getters : pc'[g] = pc[g]
    BY <2>1, ThreadsAssumption DEF Threads
  <2> QED
    BY <2>1, <2>2 DEF SleepersInv, NoLostWakeup
<1>6. ASSUME NEW e \in Entries, Timer(e)
      PROVE  SleepersInv' /\ NoLostWakeup'
  <2>1. CASE CallbackAdd(e)
    BY <2>1, AddLockedWakes DEF CallbackAdd, DelayTypeOK
  <2>2. CASE Fire(e) \/ CallbackLocked(e)
    BY <1>1, <2>2 DEF Fire, CallbackLocked, condVars, threadVars
  <2> QED
    BY <1>6, <2>1, <2>2 DEF Timer
<1>7. CASE \/ \E p \in Adders : AddAfterLocked(p)
           \/ Tick \/ UNCHANGED vars
  BY <1>1, <1>7 DEF AddAfterLocked, Tick, vars, condVars, threadVars
<1> HIDE DEF Kept
<1> QED
  BY <1>2, <1>3, <1>4, <1>5, <1>6, <1>7, ConsumerWakes
     DEF Next, Client, AddAfter, AddRateLimited, ShutDown, ShutDownWithDrain

\* The single Signal of Add and of Done never leaves a queued item behind a
\* sleeping consumer: whenever one sleeps, every queued item has a consumer
\* of its own that is awake.
THEOREM WakeupsAreNotLost == Spec => []NoLostWakeup
<1>1. QueueInv /\ Init => WakeInv
  BY EmptySeq DEF WakeInv, Init, SleepersInv, NoLostWakeup, Threads
<1>2. WakeInv /\ QueueInv' /\ [Next]_vars => WakeInv'
  BY WakeStep DEF WakeInv
<1>3. WakeInv => NoLostWakeup
  BY DEF WakeInv
<1> QED
  BY <1>1, <1>2, <1>3, QueueInvariant, PTL DEF Spec

-----------------------------------------------------------------------------
(* Consumers that finish an item before they ask for another.              *)

\* A consumer holds something only between Get and Done, and the last one
\* leaves only when the queue is empty.
LeavingInv ==
  /\ \A g \in Getters : pc[g] # "idle" => holds[g] = {}
  /\ \A g \in Getters : pc[g] = "returned" => shuttingDown
  /\ (Getters # {} /\ \A g \in Getters : pc[g] = "returned") => queue = <<>>

\* Steps that neither move a consumer that has left nor give anybody work.
LEMMA LeavingUntouched ==
  ASSUME QueueInv, LeavingInv, UNCHANGED holds, shuttingDown => shuttingDown',
         shuttingDown => UNCHANGED queue,
         \A g \in Getters : pc'[g] = pc[g] \/ (pc[g] = "asleep" /\ pc'[g] = "woken")
  PROVE  LeavingInv'
BY DEF LeavingInv

\* Without hand-off, every step preserves it.
LEMMA LeavingStep ==
  ASSUME ~HandOff, QueueInv, LeavingInv, [Next]_vars
  PROVE  LeavingInv'
<1> USE DEF QueueInv, CondTypeOK
<1> DEFINE Awake == \A g \in Getters : pc'[g] = pc[g] \/ (pc[g] = "asleep" /\ pc'[g] = "woken")
<1>0. Signal => Awake
  BY DEF Signal, Asleep, Threads
<1>1. ASSUME NEW x, AddLocked(x), UNCHANGED holds PROVE LeavingInv'
  <2>1. Awake /\ UNCHANGED shuttingDown /\ (shuttingDown => UNCHANGED queue)
    BY <1>0, <1>1 DEF AddLocked, Accept, Push, condVars
  <2> QED
    BY <1>1, <2>1, LeavingUntouched
<1>2. CASE UNCHANGED <<queue, shuttingDown, pc, holds>>
  BY <1>2, LeavingUntouched
<1>3. ASSUME NEW s \in Stoppers, NEW w \in BOOLEAN, BeginShutDown(s, w) PROVE LeavingInv'
  <2>1. Awake
    BY <1>3, ThreadsAssumption DEF BeginShutDown, WakeAll, Threads
  <2> QED
    BY <1>3, <2>1, LeavingUntouched DEF BeginShutDown
<1>4. ASSUME NEW s \in Stoppers, Stopping(s) PROVE LeavingInv'
  <2>1. Awake
    BY <1>4, ThreadsAssumption DEF Stopping, CancelDelayedEntries, WgWait, DrainLoop, Threads
  <2> QED
    BY <1>4, <2>1, LeavingUntouched
       DEF Stopping, CancelDelayedEntries, WgWait, DrainLoop, condVars
<1>5. ASSUME NEW g \in Getters, Get(g) PROVE LeavingInv'
  <2>1. CASE GetTake(g)
    BY <2>1 DEF GetTake, LeavingInv, Threads, InGet
  <2>2. CASE GetWait(g) \/ GetShutdown(g)
    BY <2>2 DEF GetWait, GetShutdown, LeavingInv, Threads, InGet, condVars
  <2> QED
    BY <1>5, <2>1, <2>2 DEF Get
<1>6. ASSUME NEW g \in Getters, NEW x \in Items, Done(g, x) PROVE LeavingInv'
  <2>1. pc[g] = "idle" /\ Awake /\ UNCHANGED shuttingDown
        /\ holds' = [holds EXCEPT ![g] = @ \ {x}]
    BY <1>0, <1>6 DEF Done, Push, SignalIfIdle, LeavingInv
  <2> QED
    BY <2>1 DEF LeavingInv
<1> QED
  BY <1>1, <1>2, <1>3, <1>4, <1>5, <1>6
     DEF Next, Client, Add, ResetRateLimit, AddAfter, AddRateLimited, BeginAddAfter,
         ShutDown, ShutDownWithDrain, AddAfterLocked, Timer, Fire, CallbackLocked,
         CallbackAdd, Tick, vars, condVars, threadVars

\* Consumers that call Done before the next Get leave no work behind when a
\* shutdown sends the last of them away.
THEOREM NoWorkStranded == ASSUME ~HandOff PROVE Spec => []NothingStranded
<1>1. QueueInv /\ Init => LeavingInv
  BY DEF Init, LeavingInv, Threads
<1>2. QueueInv /\ LeavingInv /\ [Next]_vars => LeavingInv'
  BY LeavingStep
<1>3. QueueInv /\ LeavingInv => NothingStranded
  BY DEF QueueInv, LeavingInv, NothingStranded, QueueMatchesSets, OneConsumerPerItem, Elements
<1> QED
  BY <1>1, <1>2, <1>3, QueueInvariant, PTL DEF Spec

-----------------------------------------------------------------------------
(* The abstract work set.                                                  *)

\* Every step of the queue is a step of the work set or leaves it alone.
LEMMA AbstractStep ==
  ASSUME QueueInv, [Next]_vars
  PROVE  [Abstract!Next]_(Abstract!vars)
<1> USE DEF QueueInv, Abstract!Next, Abstract!vars
<1> DEFINE Kept == UNCHANGED <<dirty, processing, shuttingDown>>
<1>1. ASSUME NEW x \in Items, AddLocked(x) PROVE Abstract!Request(x) \/ Kept
  BY <1>1 DEF AddLocked, Accept, condVars, Abstract!Request
<1>2. ASSUME NEW x \in Items, Add(x) \/ ResetRateLimit(x) PROVE Abstract!Request(x) \/ Kept
  BY <1>1, <1>2 DEF Add, ResetRateLimit, condVars
<1>3. ASSUME NEW p \in Adders, NEW x \in Items, NEW d, BeginAddAfter(p, x, d)
      PROVE  Abstract!Request(x) \/ Kept
  BY <1>1, <1>3 DEF BeginAddAfter, condVars
<1>4. ASSUME NEW s \in Stoppers, NEW w \in BOOLEAN, BeginShutDown(s, w)
      PROVE  Abstract!Close
  BY <1>4 DEF BeginShutDown, Abstract!Close
<1>5. ASSUME NEW g \in Getters, GetTake(g)
      PROVE  \E x \in Items : Abstract!Take(x)
  <2>1. Head(queue) \in Items /\ Head(queue) \in dirty \ processing
    BY <1>5, TailElements DEF GetTake, CondTypeOK, QueueMatchesSets
  <2> QED
    BY <1>5, <2>1 DEF GetTake, Abstract!Take
<1>6. ASSUME NEW g \in Getters, NEW x \in Items, Done(g, x)
      PROVE  Abstract!Finish(x)
  BY <1>6 DEF Done, CondTypeOK, OneConsumerPerItem, Abstract!Finish
<1>7. ASSUME NEW e \in Entries, Timer(e)
      PROVE  Kept \/ \E x \in Items : Abstract!Request(x)
  BY <1>1, <1>7 DEF Timer, Fire, CallbackLocked, CallbackAdd, condVars, DelayTypeOK
<1>8. CASE \/ \E g \in Getters : GetWait(g) \/ GetShutdown(g)
           \/ \E p \in Adders : AddAfterLocked(p)
           \/ \E s \in Stoppers : Stopping(s)
           \/ Tick \/ UNCHANGED vars
  BY <1>8 DEF GetWait, GetShutdown, AddAfterLocked, Stopping, CancelDelayedEntries,
              WgWait, DrainLoop, Tick, vars, condVars
<1> QED
  BY <1>2, <1>3, <1>4, <1>5, <1>6, <1>7, <1>8
     DEF Next, Client, AddAfter, AddRateLimited, ShutDown, ShutDownWithDrain, Get

\* The collapsing queue implements the abstract work set.
THEOREM QueueImplementsWorkSet == Spec => ImplementsWorkSet
<1>1. Init => Abstract!Init
  BY DEF Init, Abstract!Init
<1>2. QueueInv /\ [Next]_vars => [Abstract!Next]_(Abstract!vars)
  BY AbstractStep
<1> QED
  BY <1>1, <1>2, QueueInvariant, PTL DEF Spec, ImplementsWorkSet, Abstract!Spec

=============================================================================
