--------------------------- MODULE CollapsingQueue ---------------------------
(***************************************************************************)
(* internal/queue/collapsing_queue.go: the deduplicating work queue on     *)
(* which the worker pools and the item submitter are built.                *)
(*                                                                         *)
(* A critical section under the condition's mutex (cond.L) is one action;  *)
(* a goroutine inside cond.Wait is "asleep" until a Signal or a Broadcast  *)
(* makes it "woken", after which it competes for the mutex again.          *)
(* delayedLock is a variable because ShutDown keeps it across two critical *)
(* sections.  Timers are objects of their own: they fire, and their        *)
(* callbacks run, at moments no lock controls.                             *)
(***************************************************************************)
EXTENDS Naturals, Sequences, FiniteSets

CONSTANTS
  Items,        \* values of the type parameter T
  Getters,      \* goroutines that loop over Get
  Stoppers,     \* goroutines that call ShutDown or ShutDownWithDrain, once
  Adders,       \* goroutines that call AddAfter or AddRateLimited
  Entries,      \* addresses available to *delayedEntry objects
  None,         \* nil
  Delays,       \* delays that AddAfter is called with
  Backoff,      \* delay the rate limiter answers after n failures
  MaxFailures,  \* bound on the failures the rate limiter counts
  MaxTime,      \* latest deadline asked for
  HandOff       \* TRUE: a getter may call Get again before Done (the item
                \* is finished by another goroutine, as in ItemSubmitter)

Threads == Getters \cup Stoppers

ASSUME ThreadsAssumption ==
  /\ IsFiniteSet(Getters) /\ IsFiniteSet(Stoppers) /\ IsFiniteSet(Entries)
  /\ Getters \cap Stoppers = {}
  /\ None \notin Items \cup Entries \cup Stoppers

ASSUME BoundsAssumption ==
  /\ Delays \subseteq Nat
  /\ MaxFailures \in Nat /\ MaxTime \in Nat
  /\ Backoff \in [0..MaxFailures -> Nat]
  /\ HandOff \in BOOLEAN

VARIABLES
  \* guarded by cond.L
  queue, dirty, processing, shuttingDown, drain,
  \* where each goroutine is, what Get handed to it, who asked for a drain
  pc, holds, drainers,
  \* guarded by delayedLock (wg is atomic)
  delayedLock, delayedEntries, wg,
  \* *delayedEntry objects and their timers
  timer, entry,
  \* AddAfter calls that have read the clock and wait for delayedLock
  addAfter,
  \* the rate limiter's map, and the clock
  failures, now

condVars    == <<queue, dirty, processing, shuttingDown, drain>>
threadVars  == <<pc, holds, drainers>>
delayVars   == <<delayedLock, delayedEntries, wg, timer, entry>>
callVars    == <<addAfter, failures>>
vars        == <<condVars, threadVars, delayVars, callVars, now>>

NoCall    == [item |-> None, delay |-> 0, readyAt |-> 0]
FreeEntry == [item |-> None, readyAt |-> 0, firesAt |-> 0]

Init ==
  /\ queue = <<>> /\ dirty = {} /\ processing = {}
  /\ shuttingDown = FALSE /\ drain = FALSE
  /\ pc = [t \in Threads |-> "idle"]
  /\ holds = [g \in Getters |-> {}]
  /\ drainers = {}
  /\ delayedLock = None
  /\ delayedEntries = [x \in Items |-> None]
  /\ wg = 0
  /\ timer = [e \in Entries |-> "free"]
  /\ entry = [e \in Entries |-> FreeEntry]
  /\ addAfter = [p \in Adders |-> NoCall]
  /\ failures = [x \in Items |-> 0]
  /\ now = 0

-----------------------------------------------------------------------------
(* sync.Cond: Signal wakes one sleeper if there is one, Broadcast all.     *)

Asleep == {t \in Threads : pc[t] = "asleep"}

\* A definition whose name starts with "Faulty" is the definition after it
\* with a bug of the kind its comment names; none of them is part of Next.

\* The Signal call is missing.
FaultySignal == UNCHANGED pc

Signal ==
  \/ Asleep = {} /\ UNCHANGED pc
  \/ \E t \in Asleep : pc' = [pc EXCEPT ![t] = "woken"]

\* The Broadcast call is missing.
FaultyWakeAll == pc

WakeAll == [t \in Threads |-> IF pc[t] = "asleep" THEN "woken" ELSE pc[t]]

-----------------------------------------------------------------------------
(* Add, Get and Done.                                                      *)

Push(x) == queue' = Append(queue, x) /\ Signal

\* An item that is being processed is queued at once.
FaultyAccept(x) ==
  /\ dirty' = dirty \cup {x}
  /\ Push(x)
  /\ UNCHANGED <<processing, shuttingDown, drain>>

Accept(x) ==
  /\ dirty' = dirty \cup {x}
  /\ IF x \in processing THEN UNCHANGED <<queue, pc>> ELSE Push(x)
  /\ UNCHANGED <<processing, shuttingDown, drain>>

\* An item is accepted after the shutdown.
FaultyAddLocked(x) == IF x \in dirty THEN UNCHANGED <<condVars, pc>> ELSE Accept(x)

\* Under cond.L: ignored once shutting down, collapsed if already dirty.
AddLocked(x) ==
  IF shuttingDown \/ x \in dirty THEN UNCHANGED <<condVars, pc>> ELSE Accept(x)

Add(x) ==
  /\ AddLocked(x)
  /\ UNCHANGED <<holds, drainers, delayVars, callVars, now>>

\* A getter is about to test the loop condition of GetWithCallback.
InGet(g) ==
  \/ pc[g] = "woken"
  \/ pc[g] = "idle" /\ (HandOff \/ holds[g] = {})

GetTake(g) ==
  /\ InGet(g)
  /\ queue # <<>>
  /\ LET x == Head(queue) IN
       /\ queue' = Tail(queue)
       /\ processing' = processing \cup {x}
       /\ dirty' = dirty \ {x}
       /\ holds' = [holds EXCEPT ![g] = @ \cup {x}]
  /\ pc' = [pc EXCEPT ![g] = "idle"]
  /\ UNCHANGED <<shuttingDown, drain, drainers, delayVars, callVars, now>>

GetWait(g) ==
  /\ InGet(g)
  /\ queue = <<>> /\ ~shuttingDown
  /\ pc' = [pc EXCEPT ![g] = "asleep"]
  /\ UNCHANGED <<condVars, holds, drainers, delayVars, callVars, now>>

\* shuttingDown is tested before the length of the queue.
FaultyGetShutdown(g) ==
  /\ InGet(g)
  /\ shuttingDown
  /\ pc' = [pc EXCEPT ![g] = "returned"]
  /\ UNCHANGED <<condVars, holds, drainers, delayVars, callVars, now>>

\* Get returns shutdown = true and the caller leaves its loop.
GetShutdown(g) ==
  /\ InGet(g)
  /\ queue = <<>> /\ shuttingDown
  /\ pc' = [pc EXCEPT ![g] = "returned"]
  /\ UNCHANGED <<condVars, holds, drainers, delayVars, callVars, now>>

Get(g) == GetTake(g) \/ GetWait(g) \/ GetShutdown(g)

\* A drain is not told that the last item is done.
FaultySignalIfIdle == UNCHANGED pc

SignalIfIdle == IF processing' = {} THEN Signal ELSE UNCHANGED pc

Done(g, x) ==
  /\ x \in holds[g]
  /\ holds' = [holds EXCEPT ![g] = @ \ {x}]
  /\ processing' = processing \ {x}
  /\ IF x \in dirty THEN Push(x) ELSE SignalIfIdle /\ UNCHANGED queue
  /\ UNCHANGED <<dirty, shuttingDown, drain, drainers, delayVars, callVars, now>>

-----------------------------------------------------------------------------
(* AddAfter and AddRateLimited: the deadline is computed before            *)
(* delayedLock is taken, the timer is started after.                       *)

\* AddAfter(x, d) up to the acquisition of delayedLock.
BeginAddAfter(p, x, d) ==
  /\ addAfter[p] = NoCall
  /\ IF d <= 0
       THEN AddLocked(x) /\ UNCHANGED addAfter
       ELSE /\ now + d <= MaxTime
            /\ addAfter' = [addAfter EXCEPT
                 ![p] = [item |-> x, delay |-> d, readyAt |-> now + d]]
            /\ UNCHANGED <<condVars, pc>>
  /\ UNCHANGED <<holds, drainers, delayVars, now>>

AddAfter(p, x, d) == BeginAddAfter(p, x, d) /\ UNCHANGED failures

AddRateLimited(p, x) ==
  /\ failures[x] < MaxFailures
  /\ failures' = [failures EXCEPT ![x] = @ + 1]
  /\ BeginAddAfter(p, x, Backoff[failures[x]])

ResetRateLimit(x) ==
  /\ failures[x] # 0
  /\ failures' = [failures EXCEPT ![x] = 0]
  /\ UNCHANGED <<condVars, threadVars, delayVars, addAfter, now>>

\* The later deadline replaces the earlier one.
FaultySuperseded(c) == FALSE

\* An entry already waits for the item, due no later than this call asks.
Superseded(c) ==
  /\ delayedEntries[c.item] # None
  /\ ~(c.readyAt < entry[delayedEntries[c.item]].readyAt)

\* The WaitGroup keeps counting a replaced timer that was stopped.
FaultyStoppable(x) == FALSE

\* wg.Done() whatever Stop answered.
FaultyStopIgnored(x) == delayedEntries[x] # None

\* Stop on the timer of a replaced entry succeeds unless it has fired.
Stoppable(x) ==
  LET e == delayedEntries[x] IN e # None /\ timer[e] = "armed"

StartTimer(c) ==
  \E e \in Entries :
    /\ timer[e] = "free"
    /\ delayedEntries' = [delayedEntries EXCEPT ![c.item] = e]
    /\ wg' = IF Stoppable(c.item) THEN wg ELSE wg + 1
    /\ timer' = [f \in Entries |->
         IF f = e THEN "armed"
         ELSE IF f = delayedEntries[c.item] /\ timer[f] = "armed" THEN "free"
         ELSE timer[f]]
    /\ entry' = [f \in Entries |->
         IF f = e THEN [item    |-> c.item,
                        readyAt |-> c.readyAt,
                        firesAt |-> now + c.delay]
         ELSE IF f = delayedEntries[c.item] /\ timer[f] = "armed" THEN FreeEntry
         ELSE entry[f]]

\* delayedLock is taken without a second look at shuttingDown.
FaultyRefused(c) == Superseded(c)

Refused(c) == shuttingDown \/ Superseded(c)

\* AddAfter under delayedLock.  shuttingDown, read under cond.L, cannot
\* change before delayedLock is released: only its holder writes it.
AddAfterLocked(p) ==
  /\ addAfter[p] # NoCall
  /\ delayedLock = None
  /\ IF Refused(addAfter[p])
       THEN UNCHANGED <<delayedEntries, wg, timer, entry>>
       ELSE StartTimer(addAfter[p])
  /\ addAfter' = [addAfter EXCEPT ![p] = NoCall]
  /\ UNCHANGED <<condVars, threadVars, delayedLock, failures, now>>

-----------------------------------------------------------------------------
(* Timers and their callbacks.                                             *)

Fire(e) ==
  /\ timer[e] = "armed" /\ now >= entry[e].firesAt
  /\ timer' = [timer EXCEPT ![e] = "fired"]
  /\ UNCHANGED <<condVars, threadVars, delayedLock, delayedEntries, wg, entry,
                 callVars, now>>

\* The callback object is dead: wg.Done() has run.
Release(e) ==
  /\ timer' = [timer EXCEPT ![e] = "free"]
  /\ entry' = [entry EXCEPT ![e] = FreeEntry]
  /\ wg' = wg - 1

\* The callback of a replaced entry removes the entry that replaced it.
FaultyCallbackIdentity(e) ==
  /\ timer[e] = "fired" /\ delayedLock = None
  /\ delayedEntries' = [delayedEntries EXCEPT ![entry[e].item] = None]
  /\ timer' = [timer EXCEPT ![e] = "adding"]
  /\ UNCHANGED <<condVars, threadVars, delayedLock, entry, wg, callVars, now>>

\* The callback leaves its entry in delayedEntries.
FaultyCallbackDelete(e) ==
  /\ timer[e] = "fired" /\ delayedLock = None
  /\ timer' = [timer EXCEPT ![e] = "adding"]
  /\ UNCHANGED <<condVars, threadVars, delayedLock, delayedEntries, entry, wg,
                 callVars, now>>

\* The callback under delayedLock: a replaced or cancelled entry gives up.
CallbackLocked(e) ==
  /\ timer[e] = "fired" /\ delayedLock = None
  /\ IF delayedEntries[entry[e].item] # e
       THEN Release(e) /\ UNCHANGED delayedEntries
       ELSE /\ delayedEntries' = [delayedEntries EXCEPT ![entry[e].item] = None]
            /\ timer' = [timer EXCEPT ![e] = "adding"]
            /\ UNCHANGED <<entry, wg>>
  /\ UNCHANGED <<condVars, threadVars, delayedLock, callVars, now>>

CallbackAdd(e) ==
  /\ timer[e] = "adding"
  /\ AddLocked(entry[e].item)
  /\ Release(e)
  /\ UNCHANGED <<holds, drainers, delayedLock, delayedEntries, callVars, now>>

\* The clock runs to the horizon, and past it while a timer has yet to expire.
Tick ==
  /\ now < MaxTime \/ \E e \in Entries : timer[e] = "armed" /\ now < entry[e].firesAt
  /\ now' = now + 1
  /\ UNCHANGED <<condVars, threadVars, delayVars, callVars>>

-----------------------------------------------------------------------------
(* ShutDown and ShutDownWithDrain.                                         *)

\* delayedLock is taken and kept; the flags are set under cond.L.
BeginShutDown(s, withDrain) ==
  /\ pc[s] = "idle" /\ delayedLock = None
  /\ delayedLock' = s
  /\ drain' = withDrain
  /\ shuttingDown' = TRUE
  /\ pc' = [WakeAll EXCEPT ![s] = "cancel"]
  /\ drainers' = IF withDrain THEN drainers \cup {s} ELSE drainers
  /\ UNCHANGED <<queue, dirty, processing, holds, delayedEntries, wg, timer,
                 entry, callVars, now>>

ShutDown(s) == BeginShutDown(s, FALSE)
ShutDownWithDrain(s) == BeginShutDown(s, TRUE)

\* Entries whose timer is stopped in time; a fired one keeps its wg count.
Cancellable == {e \in Entries : /\ timer[e] = "armed"
                                /\ \E x \in Items : delayedEntries[x] = e}

CancelDelayedEntries(s) ==
  /\ pc[s] = "cancel"
  /\ delayedEntries' = [x \in Items |-> None]
  /\ timer' = [e \in Entries |-> IF e \in Cancellable THEN "free" ELSE timer[e]]
  /\ entry' = [e \in Entries |-> IF e \in Cancellable THEN FreeEntry ELSE entry[e]]
  /\ wg' = wg - Cardinality(Cancellable)
  /\ delayedLock' = None
  /\ pc' = [pc EXCEPT ![s] = "wgWait"]
  /\ UNCHANGED <<condVars, holds, drainers, callVars, now>>

WgWait(s) ==
  /\ pc[s] = "wgWait" /\ wg = 0
  /\ pc' = [pc EXCEPT ![s] = IF s \in drainers THEN "drain" ELSE "returned"]
  /\ UNCHANGED <<condVars, holds, drainers, delayVars, callVars, now>>

DrainLoop(s) ==
  /\ s \in Stoppers /\ pc[s] \in {"drain", "woken"}
  /\ pc' = [pc EXCEPT ![s] = IF processing # {} /\ drain THEN "asleep"
                                                         ELSE "returned"]
  /\ UNCHANGED <<condVars, holds, drainers, delayVars, callVars, now>>

-----------------------------------------------------------------------------

Client ==
  \/ \E x \in Items : Add(x) \/ ResetRateLimit(x)
  \/ \E p \in Adders, x \in Items :
       AddRateLimited(p, x) \/ \E d \in Delays : AddAfter(p, x, d)
  \/ \E s \in Stoppers : ShutDown(s) \/ ShutDownWithDrain(s)

Stopping(s) == CancelDelayedEntries(s) \/ WgWait(s) \/ DrainLoop(s)
Timer(e)    == Fire(e) \/ CallbackLocked(e) \/ CallbackAdd(e)

Next ==
  \/ Client
  \/ \E g \in Getters : Get(g) \/ \E x \in Items : Done(g, x)
  \/ \E p \in Adders : AddAfterLocked(p)
  \/ \E s \in Stoppers : Stopping(s)
  \/ \E e \in Entries : Timer(e)
  \/ Tick

Spec == Init /\ [][Next]_vars

\* Started goroutines run, consumers keep getting and finish what they
\* hold, the clock advances; nobody is obliged to add or to shut down.
Fairness ==
  /\ \A g \in Getters : WF_vars(Get(g)) /\ \A x \in Items : WF_vars(Done(g, x))
  /\ \A p \in Adders : WF_vars(AddAfterLocked(p))
  /\ \A s \in Stoppers : WF_vars(Stopping(s))
  /\ \A e \in Entries : WF_vars(Timer(e))
  /\ WF_vars(Tick)

FairSpec == Spec /\ Fairness
=============================================================================
