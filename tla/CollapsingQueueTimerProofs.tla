--------------------- MODULE CollapsingQueueTimerProofs ---------------------
(***************************************************************************)
(* Theorems about the part of CollapsingQueue that delayedLock and the     *)
(* WaitGroup guard: delayed entries, their timers and the shutdown.        *)
(***************************************************************************)
EXTENDS CollapsingQueueProofs

\* Timers that are armed or whose callback has not ended.
Live == {e \in Entries : timer[e] # "free"}

\* A goroutine that has begun a shutdown holds delayedLock until it has
\* emptied delayedEntries; no entry is made after that.
StopperInv ==
  /\ \A s \in Stoppers : pc[s] = "cancel" <=> delayedLock = s
  /\ \A s \in Stoppers : pc[s] # "idle" => shuttingDown
  /\ \A s \in Stoppers : pc[s] \notin {"idle", "cancel"} =>
       /\ \A e \in Entries : timer[e] # "armed"
       /\ \A x \in Items : delayedEntries[x] = None

TimerInv ==
  /\ QueueInv /\ StopperInv
  /\ WaitGroupCounts /\ ArmedTimersAreMapped /\ NoTimerAfterShutdown

\* There are finitely many live timers, before and after a step.
LEMMA LiveFinite ==
  /\ IsFiniteSet(Live) /\ Cardinality(Live) \in Nat
  /\ IsFiniteSet(Live') /\ Cardinality(Live') \in Nat
<1>1. Live \in SUBSET Entries /\ Live' \in SUBSET Entries
  BY DEF Live
<1> QED
  BY <1>1, ThreadsAssumption, FS_Subset, FS_CardinalityType

\* No goroutine but those that Signal or Broadcast wakes changes its place.
LEMMA StoppersStay ==
  ASSUME TimerInv, [Next]_vars, NEW s \in Stoppers,
         ~Stopping(s), \A w \in BOOLEAN : ~BeginShutDown(s, w)
  PROVE  pc'[s] = pc[s] \/ (pc[s] = "asleep" /\ pc'[s] = "woken")
<1> USE DEF TimerInv, QueueInv
<1>0. s \in Threads /\ pc \in [Threads -> StopperPcs]
      /\ \A g \in Getters : g # s
      /\ None \notin Stoppers
  BY ThreadsAssumption DEF Threads, CondTypeOK
<1>1. Signal => pc'[s] = pc[s] \/ (pc[s] = "asleep" /\ pc'[s] = "woken")
  BY <1>0 DEF Signal, Asleep
<1>2. ASSUME NEW x, AddLocked(x)
      PROVE  pc'[s] = pc[s] \/ (pc[s] = "asleep" /\ pc'[s] = "woken")
  BY <1>1, <1>2 DEF AddLocked, Accept, Push
<1>3. CASE Client
  <2>1. CASE \E x \in Items : Add(x) \/ ResetRateLimit(x)
    BY <1>2, <2>1 DEF Add, ResetRateLimit, threadVars
  <2>2. ASSUME NEW p \in Adders, NEW x \in Items, NEW d, BeginAddAfter(p, x, d)
        PROVE  pc'[s] = pc[s] \/ (pc[s] = "asleep" /\ pc'[s] = "woken")
    BY <1>2, <2>2 DEF BeginAddAfter
  <2>3. ASSUME NEW t \in Stoppers, NEW w \in BOOLEAN, BeginShutDown(t, w)
        PROVE  pc'[s] = pc[s] \/ (pc[s] = "asleep" /\ pc'[s] = "woken")
    BY <1>0, <2>3 DEF BeginShutDown, WakeAll
  <2> QED
    BY <1>3, <2>1, <2>2, <2>3
       DEF Client, AddAfter, AddRateLimited, ShutDown, ShutDownWithDrain
<1>4. ASSUME NEW g \in Getters, Get(g) PROVE pc'[s] = pc[s]
  BY <1>0, <1>4 DEF Get, GetTake, GetWait, GetShutdown
<1>5. ASSUME NEW g \in Getters, NEW x \in Items, Done(g, x)
      PROVE  pc'[s] = pc[s] \/ (pc[s] = "asleep" /\ pc'[s] = "woken")
  BY <1>1, <1>5 DEF Done, Push, SignalIfIdle
<1>6. ASSUME NEW t \in Stoppers, Stopping(t) PROVE pc'[s] = pc[s]
  BY <1>0, <1>6 DEF Stopping, CancelDelayedEntries, WgWait, DrainLoop
<1>7. ASSUME NEW e \in Entries, Timer(e)
      PROVE  pc'[s] = pc[s] \/ (pc[s] = "asleep" /\ pc'[s] = "woken")
  BY <1>2, <1>7 DEF Timer, Fire, CallbackLocked, CallbackAdd, threadVars
<1>8. CASE \/ \E p \in Adders : AddAfterLocked(p)
           \/ Tick \/ UNCHANGED vars
  BY <1>8 DEF AddAfterLocked, Tick, vars, threadVars
<1> QED
  BY <1>3, <1>4, <1>5, <1>6, <1>7, <1>8 DEF Next

DelayInv == StopperInv /\ WaitGroupCounts /\ ArmedTimersAreMapped /\ NoTimerAfterShutdown

\* What a step does to a stopping goroutine other than the one that runs.
StoppersKept ==
  /\ shuttingDown => shuttingDown'
  /\ \A s \in Stoppers : pc'[s] = pc[s] \/ (pc[s] = "asleep" /\ pc'[s] = "woken")

\* Steps that do not touch what delayedLock guards.
LEMMA DelayUntouched ==
  ASSUME TimerInv, StoppersKept, UNCHANGED delayVars
  PROVE  DelayInv'
BY DEF TimerInv, DelayInv, StoppersKept, delayVars, StopperInv, WaitGroupCounts,
       ArmedTimersAreMapped, NoTimerAfterShutdown

\* AddAfter under delayedLock: the new timer is counted, the one it replaces
\* is not counted any more if it was stopped in time.
LEMMA AddAfterDelay ==
  ASSUME TimerInv, StoppersKept, NEW p \in Adders, AddAfterLocked(p)
  PROVE  DelayInv'
<1> USE DEF TimerInv, QueueInv, DelayTypeOK
<1>1. CASE Refused(addAfter[p])
  <2>1. UNCHANGED delayVars
    BY <1>1 DEF AddAfterLocked, delayVars
  <2> QED
    BY <2>1, DelayUntouched
<1>2. CASE ~Refused(addAfter[p])
  <2> DEFINE c == addAfter[p]
             o == delayedEntries[c.item]
  <2>1. /\ c.item \in Items /\ ~shuttingDown /\ delayedLock = None
        /\ UNCHANGED <<pc, shuttingDown, delayedLock>>
    BY <1>2 DEF AddAfterLocked, Refused, condVars, threadVars
  <2>2. PICK e \in Entries :
          /\ timer[e] = "free"
          /\ delayedEntries' = [delayedEntries EXCEPT ![c.item] = e]
          /\ wg' = IF Stoppable(c.item) THEN wg ELSE wg + 1
          /\ timer' = [f \in Entries |->
               IF f = e THEN "armed"
               ELSE IF f = o /\ timer[f] = "armed" THEN "free" ELSE timer[f]]
          /\ entry' = [f \in Entries |->
               IF f = e THEN [item    |-> c.item,
                              readyAt |-> c.readyAt,
                              firesAt |-> now + c.delay]
               ELSE IF f = o /\ timer[f] = "armed" THEN FreeEntry ELSE entry[f]]
    BY <1>2 DEF AddAfterLocked, StartTimer
  <2>3. entry'[e].item = c.item
    BY <2>2
  <2>4. \A f \in Entries \ {e} : timer'[f] \in {"armed", "fired"} =>
          timer'[f] = timer[f] /\ entry'[f] = entry[f] /\ ~(f = o /\ timer[f] = "armed")
    BY <2>2
  <2> HIDE DEF c
  <2>5. ArmedTimersAreMapped'
    <3>1. ASSUME NEW f \in Entries, timer'[f] = "armed"
          PROVE  delayedEntries'[entry'[f].item] = f
      BY <2>1, <2>2, <2>3, <2>4, <3>1 DEF ArmedTimersAreMapped
    <3>2. ASSUME NEW x \in Items, delayedEntries'[x] # None
          PROVE  /\ timer'[delayedEntries'[x]] \in {"armed", "fired"}
                 /\ entry'[delayedEntries'[x]].item = x
      <4>1. CASE x = c.item
        BY <2>1, <2>2, <2>3, <4>1
      <4>2. CASE x # c.item
        <5>1. delayedEntries'[x] = delayedEntries[x] /\ delayedEntries[x] \in Entries
          BY <2>1, <2>2, <3>2, <4>2
        <5>2. /\ timer[delayedEntries[x]] \in {"armed", "fired"}
              /\ entry[delayedEntries[x]].item = x
          BY <3>2, <5>1 DEF ArmedTimersAreMapped
        <5>3. delayedEntries[x] # e
          BY <2>2, <5>2
        <5>4. delayedEntries[x] # o
          BY <2>1, <4>2, <5>1, <5>2, ThreadsAssumption DEF ArmedTimersAreMapped
        <5> QED
          BY <2>2, <5>1, <5>2, <5>3, <5>4
      <4> QED
        BY <4>1, <4>2
    <3> QED
      BY <3>1, <3>2 DEF ArmedTimersAreMapped
  <2>6. WaitGroupCounts'
    <3>1. CASE Stoppable(c.item)
      <4>1. o \in Live /\ o # e /\ e \notin Live \ {o}
        BY <2>1, <2>2, <3>1, ThreadsAssumption DEF Stoppable, Live
      <4>2. Live' = (Live \ {o}) \cup {e}
        BY <2>2, <3>1, <4>1 DEF Stoppable, Live
      <4>3. Cardinality(Live') = Cardinality(Live)
        <5>1. /\ IsFiniteSet(Live \ {o})
              /\ Cardinality(Live \ {o}) = Cardinality(Live) - 1
          BY <4>1, LiveFinite, FS_RemoveElement
        <5>2. Cardinality((Live \ {o}) \cup {e}) = Cardinality(Live \ {o}) + 1
          BY <4>1, <5>1, FS_AddElement
        <5> QED
          BY <4>2, <5>1, <5>2, LiveFinite
      <4> QED
        BY <2>2, <3>1, <4>3 DEF WaitGroupCounts, Live
    <3>2. CASE ~Stoppable(c.item)
      <4>1. Live' = Live \cup {e} /\ e \notin Live
        BY <2>1, <2>2, <3>2, ThreadsAssumption DEF Stoppable, Live
      <4>2. Cardinality(Live') = Cardinality(Live) + 1
        BY <4>1, LiveFinite, FS_AddElement
      <4> QED
        BY <2>2, <3>2, <4>2 DEF WaitGroupCounts, Live
    <3> QED
      BY <3>1, <3>2
  <2>7. \A s \in Stoppers : pc'[s] = "idle"
    BY <2>1 DEF StopperInv
  <2>8. StopperInv' /\ NoTimerAfterShutdown'
    BY <2>1, <2>7, ThreadsAssumption DEF StopperInv, NoTimerAfterShutdown
  <2> QED
    BY <2>5, <2>6, <2>8 DEF DelayInv
<1> QED
  BY <1>1, <1>2

\* A callback releases its entry once, and only the callback of the entry that
\* delayedEntries holds goes on to add the item.
LEMMA TimerDelay ==
  ASSUME TimerInv, StoppersKept, NEW e \in Entries, Timer(e)
  PROVE  DelayInv'
<1> USE DEF TimerInv, QueueInv, DelayTypeOK
<1>1. CASE Fire(e)
  <2>1. /\ timer[e] = "armed" /\ timer' = [timer EXCEPT ![e] = "fired"]
        /\ UNCHANGED <<delayedLock, delayedEntries, wg, entry>>
    BY <1>1 DEF Fire
  <2>2. Live' = Live
    BY <2>1 DEF Live
  <2>3. WaitGroupCounts' /\ ArmedTimersAreMapped'
    <3>1. WaitGroupCounts'
      BY <2>1, <2>2 DEF WaitGroupCounts, Live
    <3>2. \A f \in Entries : f # e => timer'[f] = timer[f]
      BY <2>1
    <3>3. timer'[e] = "fired"
      BY <2>1
    <3>4. ArmedTimersAreMapped'
      BY <2>1, <3>2, <3>3 DEF ArmedTimersAreMapped
    <3> QED
      BY <3>1, <3>4
  <2>4. StopperInv' /\ NoTimerAfterShutdown'
    BY <2>1 DEF StopperInv, StoppersKept, NoTimerAfterShutdown
  <2> QED
    BY <2>3, <2>4 DEF DelayInv
<1>2. ASSUME Release(e), UNCHANGED <<delayedLock, delayedEntries>>,
             \A x \in Items : delayedEntries[x] # e
      PROVE  DelayInv'
  <2>1. timer[e] # "free"
    BY DEF Timer, Fire, CallbackLocked, CallbackAdd
  <2>2. Live' = Live \ {e} /\ e \in Live
    BY <1>2, <2>1 DEF Release, Live
  <2>3. WaitGroupCounts'
    <3>1. Cardinality(Live \ {e}) = Cardinality(Live) - 1
      BY <2>2, LiveFinite, FS_RemoveElement
    <3> QED
      BY <1>2, <2>2, <3>1 DEF Release, WaitGroupCounts, Live
  <2>4. ArmedTimersAreMapped'
    <3>1. \A f \in Entries : f # e => timer'[f] = timer[f] /\ entry'[f] = entry[f]
      BY <1>2 DEF Release
    <3>2. timer'[e] = "free" /\ \A x \in Items : delayedEntries'[x] \in Entries \cup {None}
      BY <1>2 DEF Release
    <3> QED
      BY <1>2, <3>1, <3>2 DEF ArmedTimersAreMapped
  <2>5. StopperInv' /\ NoTimerAfterShutdown'
    BY <1>2 DEF Release, StopperInv, StoppersKept, NoTimerAfterShutdown
  <2> QED
    BY <2>3, <2>4, <2>5 DEF DelayInv
<1>3. CASE CallbackLocked(e) /\ delayedEntries[entry[e].item] # e
  <2>1. \A x \in Items : delayedEntries[x] # e
    BY <1>3, ThreadsAssumption DEF CallbackLocked, ArmedTimersAreMapped
  <2> QED
    BY <1>2, <1>3, <2>1 DEF CallbackLocked
<1>4. CASE CallbackLocked(e) /\ delayedEntries[entry[e].item] = e
  <2>1. /\ timer[e] = "fired" /\ timer' = [timer EXCEPT ![e] = "adding"]
        /\ delayedEntries' = [delayedEntries EXCEPT ![entry[e].item] = None]
        /\ entry[e].item \in Items
        /\ UNCHANGED <<delayedLock, wg, entry>>
    BY <1>4 DEF CallbackLocked
  <2>2. Live' = Live
    BY <2>1 DEF Live
  <2>3. WaitGroupCounts'
    BY <2>1, <2>2 DEF WaitGroupCounts, Live
  <2>4. ArmedTimersAreMapped'
    BY <1>4, <2>1, ThreadsAssumption DEF ArmedTimersAreMapped
  <2>5. StopperInv' /\ NoTimerAfterShutdown'
    BY <2>1 DEF StopperInv, StoppersKept, NoTimerAfterShutdown
  <2> QED
    BY <2>3, <2>4, <2>5 DEF DelayInv
<1>5. CASE CallbackAdd(e)
  <2>1. \A x \in Items : delayedEntries[x] # e
    BY <1>5, ThreadsAssumption DEF CallbackAdd, ArmedTimersAreMapped
  <2> QED
    BY <1>2, <1>5, <2>1 DEF CallbackAdd
<1> QED
  BY <1>1, <1>3, <1>4, <1>5 DEF Timer

\* A shutdown stops every timer that has not fired, and waits for the rest.
LEMMA StoppingDelay ==
  ASSUME TimerInv, NEW s \in Stoppers,
         Stopping(s) \/ \E w \in BOOLEAN : BeginShutDown(s, w)
  PROVE  DelayInv'
<1> USE DEF TimerInv, QueueInv, DelayTypeOK, CondTypeOK, Threads
<1>0. /\ \A t \in Stoppers : t \in Threads /\ t # None
      /\ \A e \in Entries : e # None
  BY ThreadsAssumption
<1>1. CASE CancelDelayedEntries(s)
  <2>1. /\ delayedEntries' = [x \in Items |-> None]
        /\ timer' = [e \in Entries |-> IF e \in Cancellable THEN "free" ELSE timer[e]]
        /\ wg' = wg - Cardinality(Cancellable)
        /\ delayedLock' = None /\ delayedLock = s /\ shuttingDown' = shuttingDown
        /\ pc' = [pc EXCEPT ![s] = "wgWait"] /\ pc[s] = "cancel"
    BY <1>1 DEF CancelDelayedEntries, condVars, StopperInv
  <2>2. Cancellable = {e \in Entries : timer[e] = "armed"}
    BY DEF Cancellable, ArmedTimersAreMapped
  <2>3. \A e \in Entries : timer'[e] # "armed" /\ (timer[e] = "free" => timer'[e] = "free")
    BY <2>1, <2>2
  <2>4. StopperInv'
    BY <1>0, <2>1, <2>3 DEF StopperInv
  <2>5. NoTimerAfterShutdown'
    BY <1>0, <2>1, <2>3 DEF NoTimerAfterShutdown
  <2>6. ArmedTimersAreMapped'
    BY <2>1, <2>3 DEF ArmedTimersAreMapped
  <2>7. WaitGroupCounts'
    <3>1. Live' = Live \ Cancellable /\ Live \cap Cancellable = Cancellable
      BY <2>1, <2>2 DEF Live
    <3>2. Cardinality(Live') = Cardinality(Live) - Cardinality(Cancellable)
      BY <3>1, LiveFinite, FS_Difference
    <3> QED
      BY <2>1, <3>2 DEF WaitGroupCounts, Live
  <2> QED
    BY <2>4, <2>5, <2>6, <2>7 DEF DelayInv
<1>2. CASE WgWait(s)
  <2>1. \A e \in Entries : timer[e] = "free"
    <3>1. Cardinality(Live) = 0
      BY <1>2 DEF WgWait, WaitGroupCounts, Live
    <3>2. Live = {}
      BY <3>1, LiveFinite, FS_EmptySet
    <3> QED
      BY <3>2 DEF Live
  <2>2. pc[s] = "wgWait" /\ pc' = [pc EXCEPT ![s] = IF s \in drainers THEN "drain" ELSE "returned"]
        /\ UNCHANGED <<delayVars, shuttingDown>>
    BY <1>2 DEF WgWait, condVars
  <2> QED
    BY <1>0, <2>1, <2>2 DEF DelayInv, StopperInv, NoTimerAfterShutdown, WaitGroupCounts,
                       ArmedTimersAreMapped, delayVars
<1>3. CASE DrainLoop(s)
  <2>1. /\ pc[s] \in {"drain", "woken"}
        /\ pc'[s] \in {"asleep", "returned"}
        /\ \A t \in Stoppers : t # s => pc'[t] = pc[t]
        /\ UNCHANGED <<delayVars, shuttingDown>>
    BY <1>0, <1>3 DEF DrainLoop, condVars
  <2> QED
    BY <1>0, <2>1 DEF DelayInv, StopperInv, NoTimerAfterShutdown, WaitGroupCounts,
                 ArmedTimersAreMapped, delayVars
<1>4. ASSUME NEW w \in BOOLEAN, BeginShutDown(s, w) PROVE DelayInv'
  <2>1. /\ pc[s] = "idle" /\ delayedLock = None /\ delayedLock' = s /\ shuttingDown'
        /\ pc'[s] = "cancel"
        /\ \A t \in Stoppers : t # s =>
             pc'[t] = pc[t] \/ (pc[t] = "asleep" /\ pc'[t] = "woken")
        /\ UNCHANGED <<delayedEntries, wg, timer, entry>>
    BY <1>0, <1>4 DEF BeginShutDown, WakeAll
  <2>2. StopperInv'
    BY <1>0, <2>1 DEF StopperInv
  <2>3. NoTimerAfterShutdown'
    BY <1>0, <2>1 DEF NoTimerAfterShutdown
  <2>4. WaitGroupCounts' /\ ArmedTimersAreMapped'
    BY <2>1 DEF WaitGroupCounts, ArmedTimersAreMapped
  <2> QED
    BY <2>2, <2>3, <2>4 DEF DelayInv
<1> QED
  BY <1>1, <1>2, <1>3, <1>4 DEF Stopping

\* The inductive invariant of the delayed entries.
LEMMA TimerInvariant == Spec => []TimerInv
<1>1. QueueInv /\ Init => TimerInv
  <2> SUFFICES ASSUME QueueInv, Init PROVE TimerInv
    OBVIOUS
  <2> USE ThreadsAssumption DEF Init
  <2>1. StopperInv /\ ArmedTimersAreMapped /\ NoTimerAfterShutdown
    BY DEF StopperInv, ArmedTimersAreMapped, NoTimerAfterShutdown, Threads
  <2>2. {e \in Entries : timer[e] # "free"} = {}
    OBVIOUS
  <2>3. WaitGroupCounts
    BY <2>2, FS_EmptySet DEF WaitGroupCounts
  <2> QED
    BY <2>1, <2>3 DEF TimerInv
<1>2. TimerInv /\ QueueInv' /\ [Next]_vars => TimerInv'
  <2> SUFFICES ASSUME TimerInv, [Next]_vars PROVE DelayInv'
    BY DEF TimerInv, DelayInv
  <2>1. CASE \E s \in Stoppers : Stopping(s) \/ \E w \in BOOLEAN : BeginShutDown(s, w)
    BY <2>1, StoppingDelay
  <2>2. CASE ~ \E s \in Stoppers : Stopping(s) \/ \E w \in BOOLEAN : BeginShutDown(s, w)
    <3>1. UNCHANGED delayVars \/ (\E p \in Adders : AddAfterLocked(p))
            \/ \E e \in Entries : Timer(e)
      BY <2>2 DEF Next, Client, Add, ResetRateLimit, AddAfter, AddRateLimited,
                  BeginAddAfter, ShutDown, ShutDownWithDrain, Get, GetTake, GetWait,
                  GetShutdown, Done, Tick, vars
    <3>2. shuttingDown => shuttingDown'
      BY <2>2 DEF Next, Client, Add, AddLocked, Accept, ResetRateLimit, AddAfter,
                  AddRateLimited, BeginAddAfter, ShutDown, ShutDownWithDrain, Get,
                  GetTake, GetWait, GetShutdown, Done, AddAfterLocked, Timer, Fire,
                  CallbackLocked, CallbackAdd, Tick, vars, condVars
    <3>3. StoppersKept
      BY <2>2, <3>2, StoppersStay DEF StoppersKept
    <3> QED
      BY <3>1, <3>3, DelayUntouched, AddAfterDelay, TimerDelay
  <2> QED
    BY <2>1, <2>2
<1> QED
  BY <1>1, <1>2, QueueInvariant, PTL DEF Spec

\* Type correctness; the WaitGroup counter is never negative.
THEOREM TypeCorrect == Spec => []TypeOK
<1>1. TimerInv => TypeOK
  BY LiveFinite DEF TimerInv, QueueInv, TypeOK, WaitGroupCounts, Live
<1> QED
  BY <1>1, TimerInvariant, PTL

\* The WaitGroup counts exactly the timers that are armed or whose callback
\* has not ended.
THEOREM WaitGroupCorrect == Spec => []WaitGroupCounts
<1>1. TimerInv => WaitGroupCounts
  BY DEF TimerInv
<1> QED
  BY <1>1, TimerInvariant, PTL

\* Once a shutdown has waited, no timer exists and none is ever started.
THEOREM ShutdownLeavesNoTimer == Spec => []NoTimerAfterShutdown
<1>1. TimerInv => NoTimerAfterShutdown
  BY DEF TimerInv
<1> QED
  BY <1>1, TimerInvariant, PTL

\* While an item waits, an AddAfter moves its deadline forward or not at all.
THEOREM DeadlinesOnlyMoveEarlier == Spec => DeadlineOnlyEarlier
<1> DEFINE Earlier == \A x \in Items :
             delayedEntries[x] # None /\ delayedEntries'[x] # None
               => Deadline(x)' <= Deadline(x)
<1>1. TimerInv /\ [Next]_vars => Earlier
  <2> SUFFICES ASSUME TimerInv, [Next]_vars, NEW x \in Items,
                      delayedEntries[x] # None, delayedEntries'[x] # None
               PROVE  entry'[delayedEntries'[x]].readyAt <= entry[delayedEntries[x]].readyAt
    BY DEF Deadline
  <2> USE DEF TimerInv, QueueInv, DelayTypeOK
  <2>0. delayedEntries[x] \in Entries /\ entry[delayedEntries[x]].readyAt \in Nat
        /\ timer[delayedEntries[x]] \in {"armed", "fired"}
        /\ entry[delayedEntries[x]].item = x
    BY DEF ArmedTimersAreMapped, Entry
  <2>1. CASE UNCHANGED <<delayedEntries, entry>>
    BY <2>0, <2>1
  <2>2. ASSUME NEW p \in Adders, AddAfterLocked(p), ~Refused(addAfter[p])
        PROVE  entry'[delayedEntries'[x]].readyAt <= entry[delayedEntries[x]].readyAt
    <3> DEFINE c == addAfter[p]
    <3>1. PICK e \in Entries :
            /\ timer[e] = "free"
            /\ delayedEntries' = [delayedEntries EXCEPT ![c.item] = e]
            /\ entry' = [f \in Entries |->
                 IF f = e THEN [item    |-> c.item,
                                readyAt |-> c.readyAt,
                                firesAt |-> now + c.delay]
                 ELSE IF f = delayedEntries[c.item] /\ timer[f] = "armed" THEN FreeEntry
                 ELSE entry[f]]
      BY <2>2 DEF AddAfterLocked, StartTimer
    <3>2. c.item \in Items /\ c.readyAt \in Nat /\ ~Superseded(c)
      BY <2>2 DEF AddAfterLocked, Refused, Call
    <3> HIDE DEF c
    <3>3. CASE c.item = x
      BY <2>0, <3>1, <3>2, <3>3 DEF Superseded
    <3>4. CASE c.item # x
      <4>1. delayedEntries'[x] = delayedEntries[x] /\ delayedEntries[x] # e
        BY <2>0, <3>1, <3>4
      <4>2. delayedEntries[c.item] # delayedEntries[x]
        BY <2>0, <3>2, <3>4, ThreadsAssumption DEF ArmedTimersAreMapped
      <4> QED
        BY <2>0, <3>1, <4>1, <4>2
    <3> QED
      BY <3>3, <3>4
  <2>3. ASSUME NEW e \in Entries, Timer(e)
        PROVE  entry'[delayedEntries'[x]].readyAt <= entry[delayedEntries[x]].readyAt
    <3>1. CASE Release(e) /\ UNCHANGED delayedEntries /\ delayedEntries[x] # e
      BY <2>0, <3>1 DEF Release
    <3>2. CASE CallbackLocked(e) /\ delayedEntries[entry[e].item] = e
      BY <2>0, <3>2 DEF CallbackLocked
    <3>3. CASE Fire(e)
      BY <2>1, <3>3 DEF Fire
    <3> QED
      BY <2>0, <2>3, <3>1, <3>2, <3>3 DEF Timer, CallbackLocked, CallbackAdd
  <2>4. ASSUME NEW s \in Stoppers, CancelDelayedEntries(s) PROVE FALSE
    BY <2>4 DEF CancelDelayedEntries
  <2> QED
    BY <2>1, <2>2, <2>3, <2>4
       DEF Next, Client, Add, ResetRateLimit, AddAfter, AddRateLimited, BeginAddAfter,
           ShutDown, ShutDownWithDrain, BeginShutDown, Get, GetTake, GetWait, GetShutdown,
           Done, AddAfterLocked, Stopping, WgWait, DrainLoop, Tick, vars, delayVars
<1> QED
  BY <1>1, TimerInvariant, PTL DEF Spec, DeadlineOnlyEarlier

\* An armed timer is always reachable from delayedEntries, and an entry there
\* has a timer that will still bring its item: AddAfter never loses one by
\* replacing it, nor refuses an item for an entry that is dead.
THEOREM TimersAreReachable == Spec => []ArmedTimersAreMapped
<1>1. TimerInv => ArmedTimersAreMapped
  BY DEF TimerInv
<1> QED
  BY <1>1, TimerInvariant, PTL
=============================================================================
