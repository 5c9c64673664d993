---------------------------- MODULE RepeatingLoops ----------------------------
(***************************************************************************)
(* The loops that run one thing again and again in their goroutine: a job  *)
(* of jobs/job_runner.go, and the wrappers Periodically and                *)
(* WhileChanNotClosed of runnable/wrappers.go; each around a runnable that *)
(* may be wrapped by WithTimeout, which runs it in a goroutine of its own. *)
(*                                                                         *)
(* Time is what may have happened: an interval or a timeout may elapse     *)
(* whenever its timer runs.  A select whose channels are ready takes any   *)
(* of them.                                                                *)
(***************************************************************************)
EXTENDS Naturals

CONSTANTS MaxAbandoned  \* the abandoned runs are counted up to this bound

ASSUME AbandonedAssumption == MaxAbandoned \in Nat \ {0}

VARIABLES
  loop, timed,     \* which loop; is its runnable wrapped by WithTimeout
  at,              \* where the loop is
  ready,           \* the channel of its timer or ticker holds a tick
  run,             \* the run the loop waits for, or what it has sent
  expired,         \* the timeout of this run has elapsed
  abandoned,       \* runs their loop has stopped waiting for: MaxAbandoned
                   \* stands for that many or more
  cancelled,       \* the context is done
  stopClosed,      \* stopChan is closed
  late,            \* a run has begun since then; more than one has
  answer,          \* what the loop has returned
  crashed          \* an unrecovered panic has ended the process

loopVars == <<at, ready, run, expired, abandoned, late, answer>>
vars == <<loopVars, loop, timed, cancelled, stopClosed, crashed>>

Init ==
  /\ loop \in {"job", "periodically", "whileOpen"} /\ timed \in BOOLEAN
  /\ at = "start" /\ ready = FALSE
  /\ run = "none" /\ expired = FALSE /\ abandoned = 0
  /\ cancelled = FALSE /\ stopClosed = FALSE /\ late = 0
  /\ answer = "none" /\ crashed = FALSE

-----------------------------------------------------------------------------
(* The loops.  A definition named Faulty... is the next one with a bug.    *)

End(result) == at' = "ended" /\ answer' = result

Goto(place) == at' = place /\ UNCHANGED answer

\* time.After makes a new timer whenever a job comes to its select; the
\* ticker of Periodically ticks from the beginning.
Select == Goto("select") /\ ready' = IF loop = "job" THEN FALSE ELSE ready

Start ==
  /\ at = "start"
  /\ \/ loop # "whileOpen" /\ Goto("begin")
     \/ loop = "whileOpen" /\ Goto("check")
     \/ loop = "job" /\ Goto("select")
  /\ UNCHANGED ready
  /\ UNCHANGED <<run, expired, abandoned, late>>

\* The interval elapses; a ticker drops the tick that finds one waiting.
Tick ==
  /\ \/ loop = "job" /\ at = "select"
     \/ loop = "periodically" /\ at \notin {"start", "ended"}
  /\ ~ready /\ ready' = TRUE
  /\ UNCHANGED <<at, run, expired, abandoned, late, answer>>

Check ==
  /\ at = "check"
  /\ IF stopClosed THEN End("nil") ELSE Goto("begin")
  /\ UNCHANGED <<ready, run, expired, abandoned, late>>

TakeTick ==
  /\ at = "select" /\ ready /\ ready' = FALSE
  /\ Goto("begin")
  /\ UNCHANGED <<run, expired, abandoned, late>>

\* A job does not look at its context.
FaultyTakeStop ==
  /\ at = "select" /\ loop = "periodically"
  /\ \/ stopClosed /\ End("nil")
     \/ cancelled /\ End("error")
  /\ UNCHANGED <<ready, run, expired, abandoned, late>>

TakeStop ==
  /\ at = "select"
  /\ \/ loop = "job" /\ cancelled /\ End("nil")
     \/ loop = "periodically" /\ stopClosed /\ End("nil")
     \/ loop = "periodically" /\ cancelled /\ End("error")
  /\ UNCHANGED <<ready, run, expired, abandoned, late>>

\* What the loop does when its runnable returns or panics.  A job recovers
\* the panic; a wrapper lets it through to its caller.
FaultyContinue(o) ==
  IF o = "nil"
    THEN IF loop = "whileOpen" THEN Goto("check") /\ UNCHANGED ready ELSE Select
    ELSE End(o) /\ UNCHANGED ready

Continue(o) ==
  CASE loop = "job"                       -> Select
    [] loop = "periodically" /\ o = "nil" -> Select
    [] loop = "whileOpen" /\ o = "nil"    -> Goto("check") /\ UNCHANGED ready
    [] loop # "job" /\ o # "nil"          -> End(o) /\ UNCHANGED ready

-----------------------------------------------------------------------------
(* The runnable.                                                           *)

Late(n) == IF stopClosed THEN (IF n < 2 THEN n + 1 ELSE n) ELSE 0

BeginRun ==
  /\ at = "begin" /\ Goto("run")
  /\ run' = "running" /\ expired' = FALSE
  /\ late' = Late(late)
  /\ UNCHANGED <<ready, abandoned>>

\* A direct call returns to the loop.
EndRun ==
  /\ at = "run" /\ ~timed
  /\ \E o \in {"nil", "error", "panic"} : Continue(o)
  /\ run' = "none"
  /\ UNCHANGED <<expired, abandoned, late>>

\* WithTimeout's goroutine sends what its run returns into errChan.
SendResult ==
  /\ at = "run" /\ timed /\ run = "running"
  /\ run' \in {"nil", "error"}
  /\ UNCHANGED <<at, ready, expired, abandoned, late, answer>>

TakeResult ==
  /\ at = "run" /\ timed /\ run # "running"
  /\ Continue(run)
  /\ run' = "none"
  /\ UNCHANGED <<expired, abandoned, late>>

Expire ==
  /\ at = "run" /\ timed /\ ~expired /\ expired' = TRUE
  /\ UNCHANGED <<at, ready, run, abandoned, late, answer>>

\* ctx.Err() is returned; a run that still goes on is abandoned.
TimeOut ==
  /\ at = "run" /\ timed /\ (expired \/ cancelled)
  /\ Continue("error")
  /\ abandoned' = IF run = "running" /\ abandoned < MaxAbandoned
                    THEN abandoned + 1 ELSE abandoned
  /\ run' = "none"
  /\ UNCHANGED <<expired, late>>

\* errChan has no buffer: nobody receives from it any more.
FaultyEndAbandoned == FALSE /\ UNCHANGED loopVars

\* An abandoned run ends; errChan has room for its result.
EndAbandoned ==
  /\ abandoned > 0 /\ abandoned' = abandoned - 1
  /\ UNCHANGED <<at, ready, run, expired, late, answer>>

\* A panic in WithTimeout's goroutine is recovered by nobody.
Crash ==
  /\ timed /\ (run = "running" \/ abandoned > 0)
  /\ crashed' = TRUE
  /\ UNCHANGED <<loopVars, loop, timed, cancelled, stopClosed>>

-----------------------------------------------------------------------------

Cancel == ~cancelled /\ cancelled' = TRUE /\ UNCHANGED <<loopVars, loop, timed, stopClosed, crashed>>
Stop == ~stopClosed /\ stopClosed' = TRUE /\ UNCHANGED <<loopVars, loop, timed, cancelled, crashed>>

Loop == Start \/ Check \/ TakeTick \/ TakeStop \/ BeginRun \/ EndRun \/ TakeResult \/ TimeOut

Live(Act) == ~crashed /\ Act /\ UNCHANGED <<loop, timed, cancelled, stopClosed, crashed>>

Next ==
  \/ Live(Loop \/ Tick \/ SendResult \/ Expire \/ EndAbandoned)
  \/ ~crashed /\ (Crash \/ Cancel \/ Stop)

Spec == Init /\ [][Next]_vars

\* Goroutines run, timers fire, a direct call and an abandoned run end; a
\* run under WithTimeout need not.  A select does not take the tick for
\* ever when it might take the stop: it chooses at random.
FairSpec ==
  /\ Spec
  /\ WF_vars(Live(Loop)) /\ WF_vars(Live(Tick)) /\ WF_vars(Live(Expire))
  /\ WF_vars(Live(EndAbandoned))
  /\ SF_vars(Live(TakeStop))

-----------------------------------------------------------------------------

TypeOK ==
  /\ loop \in {"job", "periodically", "whileOpen"} /\ timed \in BOOLEAN
  /\ at \in {"start", "check", "begin", "run", "select", "ended"}
  /\ ready \in BOOLEAN /\ expired \in BOOLEAN
  /\ run \in {"none", "running", "nil", "error"}
  /\ (run # "none") <=> (at = "run")
  /\ abandoned \in 0..MaxAbandoned /\ late \in 0..2
  /\ cancelled \in BOOLEAN /\ stopClosed \in BOOLEAN /\ crashed \in BOOLEAN
  /\ answer \in {"none", "nil", "error", "panic"}

\* No failure, panic or timeout of a run ends a job, only its context; the
\* wrappers answer nil to a closed channel only, and an error or a panic of
\* the run ends them.  WhileChanNotClosed, which looks at the channel
\* before each run, begins at most one run after it was closed.
LoopsEndAsTold ==
  /\ loop = "job" /\ at = "ended" => cancelled
  /\ loop # "job" /\ answer = "nil" => stopClosed
  /\ loop = "whileOpen" => late <= 1

\* A loop that is told to stop ends, even if under WithTimeout its runs
\* never do.  WhileChanNotClosed is not told by its context.
StoppedLoopsEnd ==
  (stopClosed /\ loop # "job") \/ (cancelled /\ loop # "whileOpen")
    ~> at = "ended" \/ crashed

\* No goroutine of WithTimeout is left behind by a loop that has ended.
AbandonedRunsEnd == at = "ended" ~> abandoned = 0 \/ crashed
=============================================================================
