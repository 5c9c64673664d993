---------------------------- MODULE ParallelLoops ----------------------------
(***************************************************************************)
(* parallel/for.go, and the runnables of runnable/ that run others:        *)
(* sequential.go, parallel.go and forever.go, each around the wrappers of  *)
(* runnable/wrappers.go that change an outcome.                            *)
(*                                                                         *)
(* Runnables (and iterations of For) are numbered from 0; goroutines from  *)
(* 1, in the order in which the caller starts them.                        *)
(***************************************************************************)
EXTENDS Naturals, Sequences

CONSTANTS
  N,         \* number of runnables
  Wrappers,  \* lists of wrappers that are tried
  None       \* nil

ASSUME LoopAssumption == N \in Nat /\ None \notin Nat

VARIABLES
  mode, phase,     \* what the caller has called, and where it is
  wrappers,
  workers,         \* goroutines the caller starts, of which
  spawned,         \* so many have been started
  next,            \* first index still in indexChan, or not yet run
  at,              \* per goroutine
  by, outcome,     \* per runnable: who runs it, and how it ended
  firstErr,        \* per goroutine: its firstErr
  answer,          \* the error group's error: the runnable that failed
  cancelled        \* Forever's context is done

vars == <<mode, phase, wrappers, workers, spawned, next, at, by, outcome,
          firstErr, answer, cancelled>>

Runnables  == 0..(N - 1)
Goroutines == 1..N

Init ==
  /\ mode = "none" /\ phase = "idle"
  /\ wrappers = <<>> /\ workers = 0 /\ spawned = 0 /\ next = 0
  /\ at = [w \in Goroutines |-> "unborn"]
  /\ by = [i \in Runnables |-> None] /\ outcome = [i \in Runnables |-> "none"]
  /\ firstErr = [w \in Goroutines |-> None]
  /\ answer = None /\ cancelled = FALSE

-----------------------------------------------------------------------------
(* What comes out of a wrapped runnable.  A definition named Faulty... is  *)
(* the next one with a bug.                                                *)

Fatal(j)   == wrappers[j] = "WithFatalLogging"
Disable(j) == wrappers[j] = "DisableErrorPropagation"

\* DisableErrorPropagation hides an error.  WithWrappers makes the first
\* wrapper the innermost, so what it hides of a panic is the error that an
\* earlier WithFatalLogging has made of it.
Hidden(o) ==
  \E k \in DOMAIN wrappers :
    /\ Disable(k)
    /\ \/ o = "error"
       \/ o = "panic" /\ \E j \in DOMAIN wrappers : j < k /\ Fatal(j)

\* The other wrappers hand on what they get.
Wrapped(o) ==
  IF Hidden(o) THEN "nil"
  ELSE IF o = "panic" /\ \E j \in DOMAIN wrappers : Fatal(j) THEN "error" ELSE o

Outcomes == {Wrapped(o) : o \in {"nil", "error", "panic"}}

Failures == {i \in Runnables : outcome[i] \in {"error", "panic"}}

-----------------------------------------------------------------------------
(* The calls.                                                              *)

Begin(m, n) ==
  /\ phase = "idle" /\ phase' = "running"
  /\ mode' = m /\ workers' = n
  /\ wrappers' \in Wrappers
  /\ UNCHANGED <<spawned, next, at, by, outcome, firstErr, answer, cancelled>>

For(numWorkers) == Begin("for", IF numWorkers > N THEN N ELSE numWorkers)

\* parallelRunnable.Run: a maximum of 0 is no maximum.
Parallel(max) == For(IF max > 0 /\ N > max THEN max ELSE N)

Forever    == Begin("forever", N)
Sequential == Begin("sequential", 0)

Spawn ==
  /\ phase = "running" /\ spawned < workers
  /\ spawned' = spawned + 1
  /\ at' = [at EXCEPT ![spawned + 1] = "ready"]
  /\ UNCHANGED <<mode, phase, wrappers, workers, next, by, outcome, firstErr,
                 answer, cancelled>>

Wait ==
  /\ phase = "running" /\ mode = "for" /\ spawned = workers
  /\ \A w \in 1..workers : at[w] = "left"
  /\ phase' = "returned"
  /\ UNCHANGED <<mode, wrappers, workers, spawned, next, at, by, outcome,
                 firstErr, answer, cancelled>>

\* Forever returns when its context is done, at once without a runnable.
Done ==
  /\ phase = "running" /\ mode = "forever" /\ spawned = workers
  /\ cancelled \/ workers = 0
  /\ phase' = "returned"
  /\ UNCHANGED <<mode, wrappers, workers, spawned, next, at, by, outcome,
                 firstErr, answer, cancelled>>

\* The caller's own context is done.
ParentDone ==
  /\ mode = "forever" /\ ~cancelled /\ cancelled' = TRUE
  /\ UNCHANGED <<mode, phase, wrappers, workers, spawned, next, at, by,
                 outcome, firstErr, answer>>

-----------------------------------------------------------------------------
(* The goroutines.                                                         *)

Run(who, i) ==
  /\ by' = [by EXCEPT ![i] = who]
  /\ outcome' = [outcome EXCEPT ![i] = "running"]

Running(who, i) == by[i] = who /\ outcome[i] = "running"

\* A worker of For receives the next index, a goroutine of Forever has its own.
Receive(w) ==
  /\ at[w] = "ready" /\ at' = [at EXCEPT ![w] = "run"]
  /\ \/ mode = "for" /\ next < N /\ Run(w, next) /\ next' = next + 1
     \/ mode = "forever" /\ Run(w, w - 1) /\ UNCHANGED next
  /\ UNCHANGED <<mode, phase, wrappers, workers, spawned, firstErr, answer, cancelled>>

\* The last error is kept.
FaultyKeep(w, i, o) == IF o # "nil" THEN i ELSE firstErr[w]

Keep(w, i, o) == IF o # "nil" /\ firstErr[w] = None THEN i ELSE firstErr[w]

\* A panic is recovered by the goroutine, which is then over.
FaultyEndIteration(w) ==
  /\ at[w] = "run" /\ mode = "for"
  /\ \E i \in Runnables, o \in Outcomes :
       /\ Running(w, i)
       /\ outcome' = [outcome EXCEPT ![i] = o]
       /\ firstErr' = [firstErr EXCEPT ![w] = Keep(w, i, o)]
       /\ at' = [at EXCEPT ![w] = IF o = "panic" THEN "left" ELSE "ready"]
       /\ answer' = IF o = "panic" /\ answer = None THEN i ELSE answer
  /\ UNCHANGED <<mode, phase, wrappers, workers, spawned, next, by, cancelled>>

\* An iteration ends; its panic is an error and the worker goes on.
EndIteration(w) ==
  /\ at[w] = "run" /\ mode = "for"
  /\ \E i \in Runnables, o \in Outcomes :
       /\ Running(w, i)
       /\ outcome' = [outcome EXCEPT ![i] = o]
       /\ firstErr' = [firstErr EXCEPT ![w] = Keep(w, i, o)]
  /\ at' = [at EXCEPT ![w] = "ready"]
  /\ UNCHANGED <<mode, phase, wrappers, workers, spawned, next, by, answer, cancelled>>

\* The channel is empty and closed; the group keeps the first error.
EndWorker(w) ==
  /\ at[w] = "ready" /\ mode = "for" /\ next = N
  /\ at' = [at EXCEPT ![w] = "left"]
  /\ answer' = IF answer = None THEN firstErr[w] ELSE answer
  /\ UNCHANGED <<mode, phase, wrappers, workers, spawned, next, by, outcome,
                 firstErr, cancelled>>

\* Only a panic cancels the context of the others.
FaultyEndForever(w) ==
  /\ at[w] = "run" /\ mode = "forever"
  /\ \E o \in Outcomes : /\ outcome' = [outcome EXCEPT ![w - 1] = o]
                         /\ cancelled' = (cancelled \/ o = "panic")
  /\ at' = [at EXCEPT ![w] = "left"]
  /\ UNCHANGED <<mode, phase, wrappers, workers, spawned, next, by, firstErr, answer>>

\* The runnable ends in any way; the deferred cancel follows.
EndForever(w) ==
  /\ at[w] = "run" /\ mode = "forever"
  /\ \E o \in Outcomes : outcome' = [outcome EXCEPT ![w - 1] = o]
  /\ cancelled' = TRUE
  /\ at' = [at EXCEPT ![w] = "left"]
  /\ UNCHANGED <<mode, phase, wrappers, workers, spawned, next, by, firstErr, answer>>

-----------------------------------------------------------------------------
(* sequentialRunnable.Run, in the caller's goroutine (number 0).           *)

SeqRun ==
  /\ phase = "running" /\ mode = "sequential"
  /\ next < N /\ \A i \in Runnables : outcome[i] # "running"
  /\ Run(0, next) /\ next' = next + 1
  /\ UNCHANGED <<mode, phase, wrappers, workers, spawned, at, firstErr, answer, cancelled>>

\* The loop goes on after an error.
FaultyAfter(o) == IF o = "panic" THEN "panicked" ELSE "running"

\* An error ends the loop; a panic goes through it to the caller.
After(o) == CASE o = "error" -> "returned" [] o = "panic" -> "panicked" [] OTHER -> "running"

SeqEnd ==
  /\ phase = "running" /\ mode = "sequential"
  /\ \E i \in Runnables, o \in Outcomes :
       /\ Running(0, i)
       /\ outcome' = [outcome EXCEPT ![i] = o]
       /\ phase' = After(o)
       /\ answer' = IF o = "error" THEN i ELSE None
  /\ UNCHANGED <<mode, wrappers, workers, spawned, next, at, by, firstErr, cancelled>>

SeqReturn ==
  /\ phase = "running" /\ mode = "sequential"
  /\ next = N /\ \A i \in Runnables : outcome[i] # "running"
  /\ phase' = "returned"
  /\ UNCHANGED <<mode, wrappers, workers, spawned, next, at, by, outcome,
                 firstErr, answer, cancelled>>

-----------------------------------------------------------------------------

Call ==
  \/ \E n \in 0..(N + 1) : For(n) \/ Parallel(n)
  \/ Forever \/ Sequential

Caller == Spawn \/ Wait \/ Done \/ SeqRun \/ SeqEnd \/ SeqReturn

Goroutine(w) == Receive(w) \/ EndIteration(w) \/ EndWorker(w)

Next ==
  \/ Call \/ Caller \/ ParentDone
  \/ \E w \in Goroutines : Goroutine(w) \/ EndForever(w)

Spec == Init /\ [][Next]_vars

\* Goroutines run and iterations end.  A runnable given to Forever is only
\* obliged to end once its context is done.
FairSpec ==
  /\ Spec /\ WF_vars(Caller)
  /\ \A w \in Goroutines : WF_vars(Goroutine(w)) /\ WF_vars(cancelled /\ EndForever(w))

-----------------------------------------------------------------------------

TypeOK ==
  /\ mode \in {"none", "for", "forever", "sequential"}
  /\ phase \in {"idle", "running", "returned", "panicked"}
  /\ workers \in 0..N /\ spawned \in 0..workers /\ next \in 0..N
  /\ at \in [Goroutines -> {"unborn", "ready", "run", "left"}]
  /\ by \in [Runnables -> 0..N \cup {None}]
  /\ outcome \in [Runnables -> {"none", "running", "nil", "error", "panic"}]
  /\ firstErr \in [Goroutines -> Runnables \cup {None}]
  /\ answer \in Runnables \cup {None}
  /\ cancelled \in BOOLEAN

Over(i) == outcome[i] \notin {"none", "running"}

\* For and NewParallel wait for all their iterations, failed ones included:
\* when the call returns every index has been run and no goroutine is left,
\* whatever panicked.  With no worker at all nothing is run.
ForRunsEveryIndex ==
  mode = "for" /\ phase = "returned" =>
    /\ workers > 0 => \A i \in Runnables : Over(i)
    /\ \A w \in Goroutines : at[w] \in {"unborn", "left"}

\* The answer of For is an error exactly if an iteration failed, and then
\* it is the first failure of the goroutine that ran it - which with one
\* goroutine is the first of all, and with more need not be.
ForAnswersFirstOfAGoroutine ==
  mode = "for" /\ phase = "returned" =>
    /\ answer = None <=> Failures = {}
    /\ answer # None =>
         /\ answer \in Failures
         /\ \A i \in Failures : by[i] = by[answer] => answer <= i

\* A loop returns: For and NewSequential when their iterations end, Forever
\* when one runnable ends or the caller's context is done; and then all of
\* Forever's goroutines end.
LoopsReturn ==
  /\ phase = "running" /\ mode # "forever" ~> phase \in {"returned", "panicked"}
  /\ mode = "forever" /\ (cancelled \/ \E i \in Runnables : Over(i)) ~>
       phase = "returned" /\ \A w \in Goroutines : at[w] = "left"
-----------------------------------------------------------------------------
\* The loops implement the abstract answers: goroutines and what they
\* remember are nobody's business, and the answer is known at the return.
Failure == IF phase = "returned" /\ answer # None THEN {answer} ELSE {}
Answers == INSTANCE LoopAnswers WITH
  kind <- mode, width <- workers, told <- cancelled, failure <- Failure
ImplementsLoopAnswers == Answers!Spec
=============================================================================
