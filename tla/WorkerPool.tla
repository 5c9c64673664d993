----------------------------- MODULE WorkerPool -----------------------------
(***************************************************************************)
(* workerpool/supplier_workerpool.go with the futures of                   *)
(* internal/futures/computing_future.go: Submit decides whether to start a *)
(* worker and queues the task, workers take tasks from the queue, run each *)
(* in its future and report themselves free, until the parent context is   *)
(* cancelled and the queue is empty.                                       *)
(*                                                                         *)
(* Submit runs under submitLock, so one variable is enough for the call in *)
(* progress.  What it reads of the workers and of the queue, it reads at   *)
(* different moments.  The queue is taken at its word: FIFO, each item is  *)
(* handed out once, Get waits while it is empty and open.                  *)
(***************************************************************************)
EXTENDS Naturals, Sequences, FiniteSets

CONSTANTS
  Tasks,    \* suppliers, each submitted at most once
  Workers,  \* goroutines that startWorkerAsync can start
  Max,      \* maxNumberOfWorkers; 0 when it is not set
  None      \* nil

ASSUME PoolAssumption ==
  /\ IsFiniteSet(Workers)
  /\ Max \in Nat
  /\ None \notin Tasks

VARIABLES
  submit,        \* the Submit call that holds submitLock
  queue,         \* tasks waiting for a worker
  shuttingDown,  \* of the queue
  numberFree, totalCount,
  at, served, running,  \* per worker: where it is, initialSubmitMade, its task
  future         \* per task: not submitted, pending, or its result

vars == <<submit, queue, shuttingDown, numberFree, totalCount, at, served,
          running, future>>

NoSubmit == [task |-> None, step |-> "none", free |-> 0]

Init ==
  /\ submit = NoSubmit
  /\ queue = <<>> /\ shuttingDown = FALSE
  /\ numberFree = 0 /\ totalCount = 0
  /\ at = [w \in Workers |-> "unborn"]
  /\ served = [w \in Workers |-> FALSE]
  /\ running = [w \in Workers |-> None]
  /\ future = [t \in Tasks |-> "none"]

-----------------------------------------------------------------------------
(* Submit.  A definition named Faulty... is the next one with a bug.       *)

\* WithMaxNumberOfWorkers ignores a value of less than one.
Limited == Max # 0

\* The comparison is off by one.
FaultyAtLimit == Limited /\ Max < totalCount

AtLimit == Limited /\ Max <= totalCount

StartWorker ==
  \E w \in Workers :
    /\ at[w] = "unborn"
    /\ at' = [at EXCEPT ![w] = "get"]
    /\ totalCount' = totalCount + 1

NoNewWorker == UNCHANGED <<at, totalCount>>

\* needAdditionalWorker up to the point where it needs the queue's length.
Decide(t) ==
  IF ~AtLimit /\ numberFree # 0
    THEN /\ submit' = [task |-> t, step |-> "length", free |-> numberFree]
         /\ NoNewWorker
    ELSE /\ submit' = [task |-> t, step |-> "enqueue", free |-> 0]
         /\ IF AtLimit THEN NoNewWorker ELSE StartWorker

\* submitLock is taken, numberFree and totalCount are read.
Submit(t) ==
  /\ submit = NoSubmit /\ future[t] = "none"
  /\ Decide(t)
  /\ UNCHANGED <<queue, shuttingDown, numberFree, served, running, future>>

\* The free workers are compared with the length that the queue has by now.
ReadLength ==
  /\ submit.step = "length"
  /\ IF submit.free <= Len(queue) THEN StartWorker ELSE NoNewWorker
  /\ submit' = [submit EXCEPT !.step = "enqueue"]
  /\ UNCHANGED <<queue, shuttingDown, numberFree, served, running, future>>

\* queue.Add, which ignores the task of a closing pool; the lock is released.
Enqueue ==
  /\ submit.step = "enqueue"
  /\ queue' = IF shuttingDown THEN queue ELSE Append(queue, submit.task)
  /\ future' = [future EXCEPT ![submit.task] = "pending"]
  /\ submit' = NoSubmit
  /\ UNCHANGED <<shuttingDown, numberFree, totalCount, at, served, running>>

-----------------------------------------------------------------------------
(* runWorkerLoop.                                                          *)

\* The first task of a worker is counted like the others.
FaultyFreeAfterTake(w) == numberFree - 1

\* The callback of GetWithCallback, under the queue's lock.
FreeAfterTake(w) == IF served[w] THEN numberFree - 1 ELSE numberFree

\* The task is left in the queue while it is run.
FaultyTake(w) ==
  /\ at[w] = "get" /\ queue # <<>>
  /\ UNCHANGED queue
  /\ running' = [running EXCEPT ![w] = Head(queue)]
  /\ numberFree' = FreeAfterTake(w)
  /\ served' = [served EXCEPT ![w] = TRUE]
  /\ at' = [at EXCEPT ![w] = "compute"]
  /\ UNCHANGED <<submit, shuttingDown, totalCount, future>>

Take(w) ==
  /\ at[w] = "get" /\ queue # <<>>
  /\ queue' = Tail(queue)
  /\ running' = [running EXCEPT ![w] = Head(queue)]
  /\ numberFree' = FreeAfterTake(w)
  /\ served' = [served EXCEPT ![w] = TRUE]
  /\ at' = [at EXCEPT ![w] = "compute"]
  /\ UNCHANGED <<submit, shuttingDown, totalCount, future>>

\* A panic is not recovered: the worker goes, the future stays pending.
FaultyCompute(w) ==
  /\ at[w] = "compute"
  /\ \/ /\ future' = [future EXCEPT ![running[w]] = "value"]
        /\ at' = [at EXCEPT ![w] = "computed"]
     \/ UNCHANGED future /\ at' = [at EXCEPT ![w] = "exited"]
  /\ running' = [running EXCEPT ![w] = None]
  /\ UNCHANGED <<submit, queue, shuttingDown, numberFree, totalCount, served>>

\* Compute returns; its result, or the panic it recovered, is broadcast.
Compute(w) ==
  /\ at[w] = "compute"
  /\ \E result \in {"value", "error"} : future' = [future EXCEPT ![running[w]] = result]
  /\ at' = [at EXCEPT ![w] = "computed"]
  /\ running' = [running EXCEPT ![w] = None]
  /\ UNCHANGED <<submit, queue, shuttingDown, numberFree, totalCount, served>>

ReportFree(w) ==
  /\ at[w] = "computed"
  /\ numberFree' = numberFree + 1
  /\ at' = [at EXCEPT ![w] = "get"]
  /\ UNCHANGED <<submit, queue, shuttingDown, totalCount, served, running, future>>

\* A worker leaves as soon as the pool is closing.
FaultyLeave(w) ==
  /\ at[w] = "get" /\ shuttingDown
  /\ at' = [at EXCEPT ![w] = "exited"]
  /\ UNCHANGED <<submit, queue, shuttingDown, numberFree, totalCount, served,
                 running, future>>

\* Get answers shutdown, and startWorker finds the queue shutting down.
Leave(w) ==
  /\ at[w] = "get" /\ queue = <<>> /\ shuttingDown
  /\ at' = [at EXCEPT ![w] = "exited"]
  /\ UNCHANGED <<submit, queue, shuttingDown, numberFree, totalCount, served,
                 running, future>>

\* The parent context is done: queue.ShutDown.
ShutDown ==
  /\ ~shuttingDown /\ shuttingDown' = TRUE
  /\ UNCHANGED <<submit, queue, numberFree, totalCount, at, served, running, future>>

-----------------------------------------------------------------------------

Worker(w) == Take(w) \/ Compute(w) \/ ReportFree(w) \/ Leave(w)

Next ==
  \/ \E t \in Tasks : Submit(t)
  \/ ReadLength \/ Enqueue \/ ShutDown
  \/ \E w \in Workers : Worker(w)

Spec == Init /\ [][Next]_vars

\* A Submit in progress and every worker go on, a running task ends; nobody
\* is obliged to submit or to cancel.
FairSpec ==
  /\ Spec
  /\ WF_vars(ReadLength \/ Enqueue)
  /\ \A w \in Workers : WF_vars(Worker(w))

-----------------------------------------------------------------------------

Waiting == {queue[i] : i \in DOMAIN queue}

TypeOK ==
  /\ submit \in [task : Tasks \cup {None}, step : {"none", "length", "enqueue"}, free : Nat]
  /\ submit.step = "none" <=> submit = NoSubmit
  /\ submit # NoSubmit => submit.task \in Tasks
  /\ queue \in Seq(Tasks) /\ shuttingDown \in BOOLEAN
  /\ numberFree \in Nat /\ totalCount \in Nat
  /\ at \in [Workers -> {"unborn", "get", "compute", "computed", "exited"}]
  /\ served \in [Workers -> BOOLEAN]
  /\ running \in [Workers -> Tasks \cup {None}]
  /\ \A w \in Workers : at[w] = "compute" <=> running[w] # None
  /\ future \in [Tasks -> {"none", "pending", "value", "error"}]

\* options.go: the maximum number of workers the pool will spin up is never
\* exceeded, however many goroutines submit at once.
Started == {w \in Workers : at[w] # "unborn"}
WithinLimit ==
  /\ totalCount = Cardinality(Started)
  /\ Max # 0 => Cardinality(Started) <= Max

\* numberFree, which Submit decides by, is the number of workers that have
\* run a task and wait for another; it is never negative although a worker's
\* first task is not counted and its report comes after the future's result.
FreeCountsIdleWorkers ==
  numberFree = Cardinality({w \in Workers : served[w] /\ at[w] \in {"get", "exited"}})

\* Each supplier runs at most once (computing_future.go): a task is in one
\* place only - in Submit, in the queue, in one worker, or over.
RunsOnce ==
  /\ \A i, j \in DOMAIN queue : queue[i] = queue[j] => i = j
  /\ \A t \in Waiting : future[t] = "pending"
  /\ \A w \in Workers : at[w] = "compute" =>
       /\ future[running[w]] = "pending" /\ running[w] \notin Waiting
       /\ \A v \in Workers : v # w => running[v] # running[w]
  /\ submit # NoSubmit => future[submit.task] = "none"

\* A task in the queue always has a worker that will come for it, during a
\* shutdown too: workers leave an empty queue only.
WaitingTasksHaveWorkers ==
  queue # <<>> => \E w \in Workers : at[w] \in {"get", "compute", "computed"}

\* Every task that the queue accepted ends with a result or an error.
AcceptedTasksEnd ==
  \A t \in Tasks : t \in Waiting ~> future[t] \in {"value", "error"}

\* "By default, pools scale up unboundedly to match workload" (api.go) and
\* "If everything is working, we must give a new worker": without a maximum
\* no task waits for a running task to end.
NoWaitingWithoutLimit ==
  Max = 0 => Len(queue) <= Cardinality({w \in Workers : at[w] \in {"get", "computed"}})

-----------------------------------------------------------------------------
\* The pool implements the abstract service: a task is submitted when it is
\* added to the queue, it runs while a worker computes it.
Active == {running[w] : w \in Workers} \ {None}
Service == INSTANCE TaskService WITH
  waiting <- queue, active <- Active, outcome <- future, closed <- shuttingDown
ImplementsTaskService == Service!Spec
=============================================================================
