-------------------------- MODULE WorkerPoolProofs --------------------------
(***************************************************************************)
(* Theorems about the worker pool, for any number of tasks and workers and *)
(* any maximum.                                                            *)
(***************************************************************************)
EXTENDS WorkerPool, FiniteSetTheorems, SequenceTheorems, TLAPS

Idle == {w \in Workers : served[w] /\ at[w] \in {"get", "exited"}}

\* What the call that holds submitLock relies on between its steps, and when
\* a worker may have left.
ProgressInv ==
  /\ submit.step = "length" => ~AtLimit /\ Started # {}
  /\ submit.step = "enqueue" => Started # {}
  /\ \A w \in Workers : at[w] = "exited" => shuttingDown
  /\ \A w \in Workers : served[w] => at[w] # "unborn"
  /\ \A w \in Workers : at[w] \in {"compute", "computed"} => served[w]

PoolInv == TypeOK /\ WithinLimit /\ FreeCountsIdleWorkers /\ RunsOnce
             /\ WaitingTasksHaveWorkers /\ ProgressInv

\* Sets of workers are finite, before and after a step.
LEMMA WorkerSetsFinite ==
  /\ IsFiniteSet(Idle) /\ Cardinality(Idle) \in Nat
  /\ IsFiniteSet(Idle') /\ Cardinality(Idle') \in Nat
  /\ IsFiniteSet(Started) /\ Cardinality(Started) \in Nat
<1>1. Idle \in SUBSET Workers /\ Idle' \in SUBSET Workers /\ Started \in SUBSET Workers
  BY DEF Idle, Started
<1> QED
  BY <1>1, PoolAssumption, FS_Subset, FS_CardinalityType

\* Starting a worker below the limit stays within it.
LEMMA StartWithinLimit ==
  ASSUME PoolInv, ~AtLimit, StartWorker
  PROVE  /\ WithinLimit' /\ Started' # {} /\ totalCount' \in Nat
         /\ at' \in [Workers -> {"unborn", "get", "compute", "computed", "exited"}]
         /\ \A w \in Workers : at'[w] = at[w] \/ (at[w] = "unborn" /\ at'[w] = "get")
<1> USE DEF PoolInv, TypeOK
<1>1. PICK w \in Workers : /\ at[w] = "unborn"
                           /\ at' = [at EXCEPT ![w] = "get"]
                           /\ totalCount' = totalCount + 1
  BY DEF StartWorker
<1>2. Started' = Started \cup {w} /\ w \notin Started
  BY <1>1 DEF Started
<1>3. Cardinality(Started') = Cardinality(Started) + 1
  BY <1>2, WorkerSetsFinite, FS_AddElement
<1>4. WithinLimit'
  BY <1>1, <1>3, PoolAssumption, WorkerSetsFinite DEF WithinLimit, AtLimit, Limited
<1> QED
  BY <1>1, <1>2, <1>4

\* A worker that has just started changes nothing but its own place.
LEMMA StartKeeps ==
  ASSUME PoolInv, UNCHANGED <<queue, shuttingDown, numberFree, served, running, future>>,
         \A w \in Workers : at'[w] = at[w] \/ (at[w] = "unborn" /\ at'[w] = "get"),
         submit'.task = None \/ submit'.task = submit.task \/ future[submit'.task] = "none",
         submit' # NoSubmit => submit'.task \in Tasks /\ (submit = NoSubmit => future[submit'.task] = "none")
  PROVE  FreeCountsIdleWorkers' /\ RunsOnce' /\ WaitingTasksHaveWorkers'
<1> USE DEF PoolInv
<1>1. Idle' = Idle
  BY DEF Idle, ProgressInv
<1>2. FreeCountsIdleWorkers'
  BY <1>1 DEF FreeCountsIdleWorkers, Idle
<1>3. RunsOnce'
  BY PoolAssumption DEF RunsOnce, Waiting, TypeOK, NoSubmit
<1>4. WaitingTasksHaveWorkers'
  BY DEF WaitingTasksHaveWorkers
<1> QED
  BY <1>2, <1>3, <1>4

\* Submit up to the point where it knows whether it needs the length.
LEMMA SubmitStep ==
  ASSUME PoolInv, NEW t \in Tasks, Submit(t)
  PROVE  PoolInv'
<1> USE DEF PoolInv
<1>1. submit'.task = t /\ submit' # NoSubmit /\ submit = NoSubmit /\ future[t] = "none"
  BY PoolAssumption DEF Submit, Decide, NoSubmit
<1>2. CASE ~AtLimit /\ numberFree # 0
  <2>1. /\ submit' = [task |-> t, step |-> "length", free |-> numberFree]
        /\ UNCHANGED <<at, totalCount>>
    BY <1>2 DEF Submit, Decide, NoNewWorker
  <2>2. Started # {}
    <3>1. Idle # {}
      BY <1>2, FS_EmptySet DEF FreeCountsIdleWorkers, Idle
    <3> QED
      BY <3>1 DEF Idle, Started
  <2>3. TypeOK'
    BY <1>1, <2>1 DEF Submit, TypeOK
  <2>4. WithinLimit' /\ ProgressInv'
    BY <1>2, <2>1, <2>2 DEF Submit, WithinLimit, ProgressInv, Started, AtLimit, Limited
  <2> QED
    BY <1>1, <2>1, <2>3, <2>4, StartKeeps DEF Submit
<1>3. CASE AtLimit
  <2>1. /\ submit' = [task |-> t, step |-> "enqueue", free |-> 0]
        /\ UNCHANGED <<at, totalCount>>
    BY <1>3 DEF Submit, Decide, NoNewWorker
  <2>2. Started # {}
    <3>1. Cardinality(Started) # 0
      BY <1>3, PoolAssumption DEF AtLimit, Limited, WithinLimit, TypeOK
    <3> QED
      BY <3>1, FS_EmptySet
  <2>3. TypeOK'
    BY <1>1, <2>1 DEF Submit, TypeOK
  <2>4. WithinLimit' /\ ProgressInv'
    BY <2>1, <2>2 DEF Submit, WithinLimit, ProgressInv, Started
  <2> QED
    BY <1>1, <2>1, <2>3, <2>4, StartKeeps DEF Submit
<1>4. CASE ~AtLimit /\ numberFree = 0
  <2>1. submit' = [task |-> t, step |-> "enqueue", free |-> 0] /\ StartWorker
    BY <1>4 DEF Submit, Decide
  <2>2. /\ WithinLimit' /\ Started' # {} /\ totalCount' \in Nat
        /\ at' \in [Workers -> {"unborn", "get", "compute", "computed", "exited"}]
        /\ \A w \in Workers : at'[w] = at[w] \/ (at[w] = "unborn" /\ at'[w] = "get")
    BY <1>4, <2>1, StartWithinLimit
  <2>3. TypeOK'
    BY <1>1, <2>1, <2>2 DEF Submit, TypeOK
  <2>4. ProgressInv'
    BY <2>1, <2>2 DEF Submit, ProgressInv
  <2> QED
    BY <1>1, <2>1, <2>2, <2>3, <2>4, StartKeeps DEF Submit
<1> QED
  BY <1>2, <1>3, <1>4

\* The queue's length decides the rest.
LEMMA ReadLengthStep ==
  ASSUME PoolInv, ReadLength
  PROVE  PoolInv'
<1> USE DEF PoolInv
<1>1. /\ submit # NoSubmit /\ submit.task \in Tasks /\ Started # {} /\ ~AtLimit
      /\ submit' = [submit EXCEPT !.step = "enqueue"]
      /\ submit'.task = submit.task /\ submit'.step = "enqueue"
  BY DEF ReadLength, TypeOK, NoSubmit, ProgressInv
<1>2. /\ WithinLimit' /\ Started' # {} /\ totalCount' \in Nat
      /\ at' \in [Workers -> {"unborn", "get", "compute", "computed", "exited"}]
      /\ \A w \in Workers : at'[w] = at[w] \/ (at[w] = "unborn" /\ at'[w] = "get")
  <2>1. CASE StartWorker
    BY <1>1, <2>1, StartWithinLimit
  <2>2. CASE NoNewWorker
    BY <1>1, <2>2 DEF NoNewWorker, WithinLimit, Started, TypeOK
  <2> QED
    BY <2>1, <2>2 DEF ReadLength
<1>3. TypeOK'
  BY <1>1, <1>2 DEF ReadLength, TypeOK, NoSubmit
<1>4. ProgressInv'
  BY <1>1, <1>2 DEF ReadLength, ProgressInv
<1> QED
  BY <1>1, <1>2, <1>3, <1>4, StartKeeps DEF ReadLength

\* The task joins the end of the queue of a pool that has a worker for it.
LEMMA EnqueueStep ==
  ASSUME PoolInv, Enqueue
  PROVE  PoolInv'
<1> USE DEF PoolInv
<1> DEFINE t == submit.task
<1>1. /\ submit # NoSubmit /\ t \in Tasks /\ future[t] = "none" /\ Started # {}
      /\ submit' = NoSubmit /\ future' = [future EXCEPT ![t] = "pending"]
      /\ queue' = (IF shuttingDown THEN queue ELSE Append(queue, t))
      /\ UNCHANGED <<shuttingDown, numberFree, totalCount, at, served, running>>
  BY DEF Enqueue, TypeOK, NoSubmit, ProgressInv, RunsOnce
<1> HIDE DEF t
<1>2. /\ queue' \in Seq(Tasks)
      /\ \A i \in DOMAIN queue' : \/ i = Len(queue) + 1 /\ queue'[i] = t
                                  \/ i \in DOMAIN queue /\ queue'[i] = queue[i]
  <2>1. queue \in Seq(Tasks)
    BY DEF TypeOK
  <2>2. CASE shuttingDown
    BY <1>1, <2>1, <2>2
  <2>3. CASE ~shuttingDown
    <3>1. queue' = Append(queue, t)
      BY <1>1, <2>3
    <3> QED
      BY <1>1, <2>1, <3>1, AppendProperties, LenProperties
  <2> QED
    BY <2>2, <2>3
<1>3. /\ \A i \in DOMAIN queue : queue[i] # t
      /\ \A w \in Workers : running[w] # t
  BY <1>1, PoolAssumption DEF RunsOnce, TypeOK, Waiting
<1>4. TypeOK'
  BY <1>1, <1>2 DEF TypeOK, NoSubmit
<1>5. RunsOnce'
  <2>1. \A i, j \in DOMAIN queue' : queue'[i] = queue'[j] => i = j
    BY <1>2, <1>3 DEF RunsOnce, Waiting
  <2>2. \A u \in Waiting' : u = t \/ u \in Waiting
    BY <1>2 DEF Waiting
  <2>3. \A u \in Waiting' : future'[u] = "pending"
    BY <1>1, <2>2 DEF RunsOnce, TypeOK, Waiting
  <2>4. \A w \in Workers : at'[w] = "compute" =>
          /\ future'[running'[w]] = "pending" /\ running'[w] \notin Waiting'
          /\ \A v \in Workers : v # w => running'[v] # running'[w]
    BY <1>1, <1>3, <2>2 DEF RunsOnce, TypeOK
  <2> QED
    BY <1>1, <2>1, <2>3, <2>4 DEF RunsOnce
<1>6. WaitingTasksHaveWorkers'
  <2>1. CASE shuttingDown
    BY <1>1, <2>1 DEF WaitingTasksHaveWorkers
  <2>2. CASE ~shuttingDown
    BY <1>1, <2>2 DEF WaitingTasksHaveWorkers, ProgressInv, Started, TypeOK
  <2> QED
    BY <2>1, <2>2
<1>7. WithinLimit' /\ FreeCountsIdleWorkers' /\ ProgressInv'
  BY <1>1 DEF WithinLimit, Started, FreeCountsIdleWorkers, ProgressInv, NoSubmit
<1> QED
  BY <1>4, <1>5, <1>6, <1>7

\* The worker loop.
LEMMA WorkerStep ==
  ASSUME PoolInv, NEW w \in Workers, Worker(w)
  PROVE  PoolInv'
<1> USE DEF PoolInv
<1>1. UNCHANGED <<submit, shuttingDown, totalCount>> /\ at[w] # "unborn"
  BY DEF Worker, Take, Compute, ReportFree, Leave
<1>2. /\ Started' = Started
      /\ at' \in [Workers -> {"unborn", "get", "compute", "computed", "exited"}]
      /\ \A v \in Workers : v # w => at'[v] = at[v]
      /\ at'[w] # "unborn" /\ (at'[w] = "exited" => shuttingDown)
  BY DEF Worker, Take, Compute, ReportFree, Leave, Started, TypeOK
<1>3. WithinLimit' /\ ProgressInv'
  BY <1>1, <1>2 DEF WithinLimit, ProgressInv, AtLimit, Limited, Worker, Take, Compute, ReportFree,
                    Leave, TypeOK
<1>4. CASE Take(w)
  <2> DEFINE t == Head(queue)
  <2>1. /\ t \in Tasks /\ Tail(queue) \in Seq(Tasks)
        /\ Len(queue) \in Nat \ {0} /\ DOMAIN queue = 1..Len(queue)
        /\ DOMAIN Tail(queue) = 1..Len(queue) - 1 /\ t = queue[1]
        /\ \A i \in DOMAIN Tail(queue) : Tail(queue)[i] = queue[i + 1]
    BY <1>4, HeadTailProperties, LenProperties, EmptySeq DEF Take, TypeOK
  <2>2. /\ queue' = Tail(queue) /\ at[w] = "get" /\ at' = [at EXCEPT ![w] = "compute"]
        /\ running' = [running EXCEPT ![w] = t] /\ UNCHANGED future
        /\ served' = [served EXCEPT ![w] = TRUE]
        /\ numberFree' = (IF served[w] THEN numberFree - 1 ELSE numberFree)
    BY <1>4 DEF Take, FreeAfterTake
  <2> HIDE DEF t
  <2>3. FreeCountsIdleWorkers' /\ numberFree' \in Nat
    <3>1. Idle' = Idle \ {w} /\ (w \in Idle <=> served[w])
      BY <2>2 DEF Idle, TypeOK
    <3>2. Cardinality(Idle') = numberFree'
      BY <2>2, <3>1, WorkerSetsFinite, FS_RemoveElement DEF FreeCountsIdleWorkers, Idle
    <3> QED
      BY <3>2, WorkerSetsFinite DEF FreeCountsIdleWorkers, Idle
  <2>4. TypeOK'
    BY <1>1, <1>2, <2>1, <2>2, <2>3, PoolAssumption DEF TypeOK
  <2>5. \A i, j \in DOMAIN queue' : queue'[i] = queue'[j] => i = j
    BY <2>1, <2>2 DEF RunsOnce
  <2>6. Waiting' \subseteq Waiting /\ t \in Waiting /\ t \notin Waiting'
    BY <2>1, <2>2 DEF RunsOnce, Waiting
  <2>7. RunsOnce'
    <3>1. running[w] = None /\ \A v \in Workers : running[v] # t
      BY <2>1, <2>2, <2>6, PoolAssumption DEF RunsOnce, TypeOK
    <3>2. future[t] = "pending"
      BY <2>6 DEF RunsOnce
    <3>3. \A v \in Workers : v # w => running'[v] = running[v] /\ at'[v] = at[v]
      BY <2>2 DEF TypeOK
    <3>4. running'[w] = t
      BY <2>2 DEF TypeOK
    <3>5. \A v \in Workers : at'[v] = "compute" =>
            /\ future'[running'[v]] = "pending" /\ running'[v] \notin Waiting'
            /\ \A u \in Workers : u # v => running'[u] # running'[v]
      <4> SUFFICES ASSUME NEW v \in Workers, at'[v] = "compute"
                   PROVE  /\ future'[running'[v]] = "pending" /\ running'[v] \notin Waiting'
                          /\ \A u \in Workers : u # v => running'[u] # running'[v]
        OBVIOUS
      <4>1. CASE v = w
        BY <2>2, <2>6, <3>1, <3>2, <3>3, <3>4, <4>1
      <4>2. CASE v # w
        BY <2>2, <2>6, <3>1, <3>3, <3>4, <4>2 DEF RunsOnce
      <4> QED
        BY <4>1, <4>2
    <3>6. \A u \in Waiting' : future'[u] = "pending"
      BY <2>2, <2>6 DEF RunsOnce
    <3>7. submit' # NoSubmit => future'[submit'.task] = "none"
      BY <1>1, <2>2 DEF RunsOnce
    <3> QED
      BY <2>5, <3>5, <3>6, <3>7 DEF RunsOnce
  <2> QED
    BY <1>3, <2>2, <2>3, <2>4, <2>7 DEF WaitingTasksHaveWorkers, TypeOK
<1>5. CASE Compute(w)
  <2>1. PICK r \in {"value", "error"} : future' = [future EXCEPT ![running[w]] = r]
    BY <1>5 DEF Compute
  <2>2. /\ at[w] = "compute" /\ at' = [at EXCEPT ![w] = "computed"]
        /\ running' = [running EXCEPT ![w] = None]
        /\ UNCHANGED <<queue, numberFree, served>>
        /\ running[w] \in Tasks /\ future[running[w]] = "pending"
    BY <1>5 DEF Compute, TypeOK, RunsOnce
  <2>3. TypeOK'
    BY <1>1, <2>1, <2>2 DEF TypeOK
  <2>4. Idle' = Idle
    BY <2>2 DEF Idle, TypeOK
  <2>5. FreeCountsIdleWorkers'
    BY <2>2, <2>4 DEF FreeCountsIdleWorkers, Idle
  <2>6. RunsOnce'
    <3>1. \A u \in Waiting : u # running[w]
      BY <2>2 DEF RunsOnce
    <3>2. Waiting' = Waiting /\ \A u \in Waiting' : future'[u] = "pending"
      BY <2>1, <2>2, <3>1 DEF RunsOnce, Waiting, TypeOK
    <3>3. \A v \in Workers : at'[v] = "compute" =>
            /\ v # w /\ running'[v] = running[v] /\ running[v] # running[w]
            /\ running[v] \in Tasks
      BY <2>2 DEF RunsOnce, TypeOK
    <3>4. \A v \in Workers : at'[v] = "compute" =>
            /\ future'[running'[v]] = "pending" /\ running'[v] \notin Waiting'
            /\ \A u \in Workers : u # v => running'[u] # running'[v]
      BY <2>1, <2>2, <3>2, <3>3, PoolAssumption DEF RunsOnce, TypeOK
    <3>5. submit' # NoSubmit => future'[submit'.task] = "none"
      BY <1>1, <2>1, <2>2 DEF RunsOnce, TypeOK
    <3> QED
      BY <2>2, <3>2, <3>4, <3>5 DEF RunsOnce
  <2>7. WaitingTasksHaveWorkers'
    BY <2>2 DEF WaitingTasksHaveWorkers, TypeOK
  <2> QED
    BY <1>3, <2>3, <2>5, <2>6, <2>7
<1>6. CASE ReportFree(w)
  <2>1. /\ at[w] = "computed" /\ at' = [at EXCEPT ![w] = "get"]
        /\ numberFree' = numberFree + 1
        /\ UNCHANGED <<queue, served, running, future>>
    BY <1>6 DEF ReportFree
  <2>2. Idle' = Idle \cup {w} /\ w \notin Idle
    BY <2>1 DEF Idle, TypeOK, ProgressInv
  <2>3. FreeCountsIdleWorkers' /\ numberFree' \in Nat
    <3>1. Cardinality(Idle') = numberFree + 1
      BY <2>2, WorkerSetsFinite, FS_AddElement DEF FreeCountsIdleWorkers, Idle
    <3> QED
      BY <2>1, <3>1, WorkerSetsFinite DEF FreeCountsIdleWorkers, Idle
  <2>4. TypeOK' /\ RunsOnce' /\ WaitingTasksHaveWorkers'
    BY <1>1, <2>1, <2>3 DEF TypeOK, RunsOnce, Waiting, WaitingTasksHaveWorkers
  <2> QED
    BY <1>3, <2>3, <2>4
<1>7. CASE Leave(w)
  <2>1. /\ at[w] = "get" /\ at' = [at EXCEPT ![w] = "exited"] /\ queue = <<>>
        /\ UNCHANGED <<queue, numberFree, served, running, future>>
    BY <1>7 DEF Leave
  <2>2. Idle' = Idle
    BY <2>1 DEF Idle, TypeOK
  <2>3. TypeOK'
    BY <1>1, <2>1 DEF TypeOK
  <2>4. FreeCountsIdleWorkers'
    BY <2>1, <2>2 DEF FreeCountsIdleWorkers, Idle
  <2>5. RunsOnce'
    BY <1>1, <2>1 DEF RunsOnce, Waiting, TypeOK
  <2>6. WaitingTasksHaveWorkers'
    BY <2>1 DEF WaitingTasksHaveWorkers
  <2> QED
    BY <1>3, <2>3, <2>4, <2>5, <2>6
<1> QED
  BY <1>4, <1>5, <1>6, <1>7 DEF Worker

\* Closing the queue, or no step at all.
LEMMA QuietStep ==
  ASSUME PoolInv, ShutDown \/ UNCHANGED vars
  PROVE  PoolInv'
<1>1. /\ UNCHANGED <<submit, queue, numberFree, totalCount, at, served, running, future>>
      /\ shuttingDown' \in BOOLEAN /\ (shuttingDown => shuttingDown')
  BY DEF ShutDown, vars, PoolInv, TypeOK
<1>2. TypeOK' /\ WithinLimit' /\ FreeCountsIdleWorkers'
  BY <1>1 DEF PoolInv, TypeOK, WithinLimit, FreeCountsIdleWorkers, Started
<1>3. RunsOnce' /\ WaitingTasksHaveWorkers' /\ ProgressInv'
  BY <1>1 DEF PoolInv, RunsOnce, Waiting, WaitingTasksHaveWorkers, ProgressInv, Started, AtLimit, Limited
<1> QED
  BY <1>2, <1>3 DEF PoolInv

LEMMA Initially == Init => PoolInv
<1> SUFFICES ASSUME Init PROVE PoolInv
  OBVIOUS
<1>1. Started = {} /\ Cardinality(Started) = 0
  BY FS_EmptySet DEF Init, Started
<1>2. {w \in Workers : served[w] /\ at[w] \in {"get", "exited"}} = {}
  BY DEF Init
<1>3. TypeOK
  <2>1. queue \in Seq(Tasks)
    BY EmptySeq DEF Init
  <2>2. submit = [task |-> None, step |-> "none", free |-> 0] /\ submit = NoSubmit
    BY DEF Init, NoSubmit
  <2>3. submit \in [task : Tasks \cup {None}, step : {"none", "length", "enqueue"}, free : Nat]
    BY <2>2
  <2>4. \A w \in Workers : at[w] = "unborn" /\ running[w] = None
    BY DEF Init
  <2>5. /\ at \in [Workers -> {"unborn", "get", "compute", "computed", "exited"}]
        /\ served \in [Workers -> BOOLEAN] /\ running \in [Workers -> Tasks \cup {None}]
        /\ future \in [Tasks -> {"none", "pending", "value", "error"}]
        /\ shuttingDown \in BOOLEAN /\ numberFree \in Nat /\ totalCount \in Nat
    BY DEF Init
  <2> QED
    BY <2>1, <2>2, <2>3, <2>4, <2>5 DEF TypeOK
<1>4. WithinLimit /\ FreeCountsIdleWorkers
  <2>1. numberFree = 0 /\ totalCount = 0 /\ Max \in Nat
    BY PoolAssumption DEF Init
  <2>2. WithinLimit
    BY <1>1, <2>1 DEF WithinLimit
  <2>3. Cardinality({}) = 0
    BY FS_EmptySet
  <2> QED
    BY <1>2, <2>1, <2>2, <2>3 DEF FreeCountsIdleWorkers
<1>5. RunsOnce /\ WaitingTasksHaveWorkers
  BY DEF Init, RunsOnce, Waiting, WaitingTasksHaveWorkers
<1>6. ProgressInv
  BY DEF Init, ProgressInv, NoSubmit
<1> QED
  BY <1>3, <1>4, <1>5, <1>6 DEF PoolInv

\* Every step of the pool keeps the invariant.
LEMMA PoolInvariant == Spec => []PoolInv
<1>1. PoolInv /\ [Next]_vars => PoolInv'
  BY SubmitStep, ReadLengthStep, EnqueueStep, WorkerStep, QuietStep DEF Next
<1> QED
  BY <1>1, Initially, PTL DEF Spec

-----------------------------------------------------------------------------

\* Submit, the worker loop and Compute keep every variable in its type.
THEOREM PoolTypeCorrect == Spec => []TypeOK
<1>1. PoolInv => TypeOK
  BY DEF PoolInv
<1> QED
  BY <1>1, PoolInvariant, PTL

\* needAdditionalWorker never lets the workers pass the maximum, although it
\* reads the counters while workers change one of them.
THEOREM WorkersWithinLimit == Spec => []WithinLimit
<1>1. PoolInv => WithinLimit
  BY DEF PoolInv
<1> QED
  BY <1>1, PoolInvariant, PTL

\* numberFree is the number of workers that are free, at every moment.
THEOREM FreeWorkersCounted == Spec => []FreeCountsIdleWorkers
<1>1. PoolInv => FreeCountsIdleWorkers
  BY DEF PoolInv
<1> QED
  BY <1>1, PoolInvariant, PTL

\* No supplier is computed by two workers, or twice by one.
THEOREM SuppliersRunOnce == Spec => []RunsOnce
<1>1. PoolInv => RunsOnce
  BY DEF PoolInv
<1> QED
  BY <1>1, PoolInvariant, PTL

\* A queued task always has a worker that has not left, whatever the moment
\* at which the pool is shut down.
THEOREM WaitingTasksServed == Spec => []WaitingTasksHaveWorkers
<1>1. PoolInv => WaitingTasksHaveWorkers
  BY DEF PoolInv
<1> QED
  BY <1>1, PoolInvariant, PTL

-----------------------------------------------------------------------------
(* The pool implements the abstract service.                               *)

\* No more tasks run than there are workers beside one that runs none.
LEMMA RoomForOne ==
  ASSUME PoolInv, NEW w \in Workers, at[w] = "get"
  PROVE  Max # 0 => Cardinality(Active) < Max
<1> DEFINE Busy == {v \in Workers : running[v] # None}
           f == [v \in Busy |-> running[v]]
<1>1. Busy \subseteq Started \ {w} /\ w \in Started
  BY DEF PoolInv, TypeOK, Started
<1>2. /\ IsFiniteSet(Started \ {w})
      /\ Cardinality(Started \ {w}) = Cardinality(Started) - 1
  BY <1>1, WorkerSetsFinite, FS_RemoveElement
<1>3. /\ IsFiniteSet(Busy) /\ Cardinality(Busy) \in Nat
      /\ Cardinality(Busy) <= Cardinality(Started) - 1
  BY <1>1, <1>2, FS_Subset, FS_CardinalityType
<1>4. f \in Surjection(Busy, Active)
  BY DEF Surjection, Active
<1>5. /\ IsFiniteSet(Active) /\ Cardinality(Active) \in Nat
      /\ Cardinality(Active) <= Cardinality(Busy)
  <2> HIDE DEF f, Busy
  <2> QED
    BY <1>3, <1>4, FS_Surjection, FS_CardinalityType
<1> QED
  BY <1>3, <1>5, WorkerSetsFinite, PoolAssumption DEF PoolInv, WithinLimit

\* A worker that takes a task starts it, one that computes it ends it; what
\* Submit reads and a worker reports is not seen from outside.
LEMMA ServiceStep ==
  ASSUME PoolInv, [Next]_vars
  PROVE  [Service!Next]_(Service!vars)
<1> USE DEF Service!Next, Service!vars
<1>1. CASE Enqueue
  <2>1. submit # NoSubmit
    BY <1>1 DEF Enqueue, PoolInv, TypeOK, NoSubmit
  <2>2. submit.task \in Tasks /\ future[submit.task] = "none"
    BY <2>1 DEF PoolInv, TypeOK, RunsOnce
  <2>3. Service!Submit(submit.task)
    BY <1>1, <2>2 DEF Enqueue, Service!Submit, Active
  <2> QED
    BY <2>2, <2>3
<1>2. ASSUME NEW w \in Workers, Take(w) PROVE Service!Start
  <2>1. /\ at[w] = "get" /\ queue # <<>> /\ queue' = Tail(queue)
        /\ running' = [running EXCEPT ![w] = Head(queue)]
        /\ UNCHANGED <<future, shuttingDown>>
    BY <1>2 DEF Take
  <2>2. running \in [Workers -> Tasks \cup {None}] /\ running[w] = None /\ queue \in Seq(Tasks)
    BY <2>1 DEF PoolInv, TypeOK
  <2>3. Head(queue) # None
    BY <2>1, <2>2, PoolAssumption
  <2> DEFINE t == Head(queue)
  <2> HIDE DEF t
  <2>4. Active' = Active \cup {t}
    BY <2>1, <2>2, <2>3 DEF Active, t
  <2>5. Max # 0 => Cardinality(Active) < Max
    BY <2>1, RoomForOne
  <2>6. queue # <<>> /\ queue' = Tail(queue) /\ UNCHANGED <<future, shuttingDown>>
    BY <2>1
  <2>7. Active' = Active \cup {Head(queue)}
    BY <2>4 DEF t
  \* The instance has a Cardinality of its own, with the same definition.
  <2>8. Service!Cardinality(Active) = Cardinality(Active)
    BY DEF Service!Cardinality, Cardinality, Service!IsFiniteSet, IsFiniteSet
  <2> QED
    BY ONLY <2>5, <2>6, <2>7, <2>8 DEF Service!Start
<1>3. ASSUME NEW w \in Workers, Compute(w) PROVE \E t \in Tasks : Service!End(t)
  <2> DEFINE t == running[w]
  <2>1. /\ at[w] = "compute" /\ running' = [running EXCEPT ![w] = None]
        /\ \E r \in {"value", "error"} : future' = [future EXCEPT ![t] = r]
        /\ UNCHANGED <<queue, shuttingDown>>
    BY <1>3 DEF Compute
  <2>2. /\ t \in Tasks /\ future[t] = "pending"
        /\ \A v \in Workers : v # w => running[v] # t
        /\ running \in [Workers -> Tasks \cup {None}]
    BY <2>1 DEF PoolInv, TypeOK, RunsOnce
  <2>3. t # None
    BY <2>2, PoolAssumption
  <2>4. t \in Active /\ Active' = Active \ {t}
    BY <2>1, <2>2, <2>3 DEF Active
  <2> HIDE DEF t
  <2>5. Service!End(t)
    BY <2>1, <2>2, <2>4 DEF Service!End
  <2> QED
    BY <2>2, <2>5
<1>4. CASE ShutDown
  BY <1>4 DEF ShutDown, Active, Service!Close
<1>5. ASSUME \/ \E t \in Tasks : Submit(t)
             \/ \E w \in Workers : ReportFree(w) \/ Leave(w)
             \/ ReadLength \/ UNCHANGED vars
      PROVE  UNCHANGED Service!vars
  <2>1. UNCHANGED <<queue, running, future, shuttingDown>>
    BY <1>5 DEF Submit, ReportFree, Leave, ReadLength, vars
  <2> QED
    BY <2>1 DEF Active
<1> QED
  BY <1>1, <1>2, <1>3, <1>4, <1>5 DEF Next, Worker

\* Submit and the workers together keep the promise of the service: order of
\* start, no more than Max at once, one result for each task.
THEOREM PoolImplementsService == Spec => ImplementsTaskService
<1>1. Init => Service!Init
  BY DEF Init, Service!Init, Active
<1>2. PoolInv /\ [Next]_vars => [Service!Next]_(Service!vars)
  BY ServiceStep
<1> QED
  BY <1>1, <1>2, PoolInvariant, PTL DEF Spec, ImplementsTaskService, Service!Spec
=============================================================================
