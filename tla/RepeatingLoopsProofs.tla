-------------------------- MODULE RepeatingLoopsProofs --------------------------
(***************************************************************************)
(* Theorems about RepeatingLoops, for any bound on the abandoned runs.     *)
(***************************************************************************)
EXTENDS RepeatingLoops, TLAPS

\* Without WithTimeout the runs of a loop follow each other and no panic
\* ends the process.  Only an abandoned run overlaps a later one.
RunsStayInTheirLoop == ~timed => abandoned = 0 /\ ~crashed

\* WhileChanNotClosed, the only one that looks at the channel before a run,
\* is never in a select that waits, and once a run has
\* begun after the channel was closed its next look at the channel ends it.
WhileOpenInv ==
  /\ at = "check" => loop = "whileOpen"
  /\ loop = "whileOpen" =>
       /\ at # "select"
       /\ late > 0 => late = 1 /\ stopClosed /\ at \in {"run", "check", "ended"}

EndInv ==
  /\ loop = "job" /\ at = "ended" => cancelled
  /\ loop # "job" /\ answer = "nil" => stopClosed

LoopInv == TypeOK /\ RunsStayInTheirLoop /\ WhileOpenInv /\ EndInv

\* A step that leaves the run alone and, unless it looks at the channel,
\* begins none.
LEMMA QuietStep ==
  ASSUME LoopInv, Start \/ Check \/ TakeTick \/ TakeStop \/ Tick \/ Expire \/ SendResult \/ EndAbandoned,
         UNCHANGED <<loop, timed, cancelled, stopClosed, crashed>>
  PROVE  LoopInv'
<1> USE DEF LoopInv, TypeOK
<1>1. CASE Start
  BY <1>1 DEF Start, Goto, RunsStayInTheirLoop, WhileOpenInv, EndInv
<1>2. CASE Check
  BY <1>2 DEF Check, Goto, End, RunsStayInTheirLoop, WhileOpenInv, EndInv
<1>3. CASE TakeTick
  BY <1>3 DEF TakeTick, Goto, RunsStayInTheirLoop, WhileOpenInv, EndInv
<1>4. CASE TakeStop
  BY <1>4 DEF TakeStop, End, RunsStayInTheirLoop, WhileOpenInv, EndInv
<1>5. CASE Tick \/ Expire
  BY <1>5 DEF Tick, Expire, RunsStayInTheirLoop, WhileOpenInv, EndInv
<1>6. CASE SendResult
  BY <1>6 DEF SendResult, RunsStayInTheirLoop, WhileOpenInv, EndInv
<1>7. CASE EndAbandoned
  BY <1>7, AbandonedAssumption DEF EndAbandoned, RunsStayInTheirLoop, WhileOpenInv, EndInv
<1> QED
  BY <1>1, <1>2, <1>3, <1>4, <1>5, <1>6, <1>7

\* A run begins, or the loop goes on after one.
LEMMA RunStep ==
  ASSUME LoopInv, BeginRun \/ EndRun \/ TakeResult \/ TimeOut,
         UNCHANGED <<loop, timed, cancelled, stopClosed, crashed>>
  PROVE  LoopInv'
<1> USE DEF LoopInv
<1>1. CASE BeginRun
  <2>1. late' \in 0..2 /\ (loop = "whileOpen" => late' <= 1 /\ (late' > 0 => stopClosed))
    BY <1>1 DEF BeginRun, Late, TypeOK, WhileOpenInv
  <2>2. TypeOK'
    BY <1>1, <2>1 DEF BeginRun, Goto, TypeOK
  <2>3. RunsStayInTheirLoop' /\ EndInv'
    BY <1>1 DEF BeginRun, Goto, TypeOK, RunsStayInTheirLoop, EndInv
  <2>4. WhileOpenInv'
    BY <1>1, <2>1, <2>2 DEF BeginRun, Goto, TypeOK, WhileOpenInv
  <2> QED
    BY <2>2, <2>3, <2>4
<1>2. ASSUME NEW o \in {"nil", "error", "panic"}, Continue(o), at = "run", run' = "none",
             UNCHANGED late, abandoned' \in 0..MaxAbandoned, ~timed => abandoned' = abandoned,
             UNCHANGED expired
      PROVE  LoopInv'
  <2>1. /\ at' \in {"check", "select", "ended"} /\ ready' \in BOOLEAN
        /\ answer' \in {"none", "nil", "error", "panic"}
        /\ loop = "job" => at' = "select"
        /\ at' = "check" => loop = "whileOpen"
        /\ loop = "whileOpen" => at' \in {"check", "ended"}
        /\ answer' = answer \/ answer' # "nil"
    BY <1>2 DEF Continue, Select, Goto, End, TypeOK
  <2> HIDE DEF Continue
  <2>2. TypeOK' /\ RunsStayInTheirLoop'
    BY <1>2, <2>1 DEF TypeOK, RunsStayInTheirLoop
  <2>3. WhileOpenInv' /\ EndInv'
    BY <1>2, <2>1 DEF TypeOK, WhileOpenInv, EndInv
  <2> QED
    BY <2>2, <2>3
<1>3. CASE EndRun
  BY <1>2, <1>3 DEF EndRun, TypeOK
<1>4. CASE TakeResult
  BY <1>2, <1>4 DEF TakeResult, TypeOK
<1>5. CASE TimeOut
  <2>1. abandoned' \in 0..MaxAbandoned
    BY <1>5, AbandonedAssumption DEF TimeOut, TypeOK
  <2> QED
    BY <1>2, <1>5, <2>1 DEF TimeOut
<1> QED
  BY <1>1, <1>3, <1>4, <1>5

\* The inductive invariant behind the theorems of this module.
LEMMA LoopInvariant == Spec => []LoopInv
<1>1. Init => LoopInv
  <2>1. Init => TypeOK
    <3> SUFFICES ASSUME Init PROVE TypeOK
      OBVIOUS
    <3>1. abandoned \in 0..MaxAbandoned /\ late \in 0..2
      BY AbandonedAssumption DEF Init
    <3> QED
      BY <3>1, Zenon DEF Init, TypeOK
  <2>2. Init => RunsStayInTheirLoop /\ WhileOpenInv /\ EndInv
    BY DEF Init, RunsStayInTheirLoop, WhileOpenInv, EndInv
  <2> QED
    BY <2>1, <2>2 DEF LoopInv
<1>2. LoopInv /\ [Next]_vars => LoopInv'
  <2> SUFFICES ASSUME LoopInv, [Next]_vars PROVE LoopInv'
    OBVIOUS
  <2>1. CASE Live(Loop \/ Tick \/ SendResult \/ Expire \/ EndAbandoned)
    BY <2>1, QuietStep, RunStep DEF Live, Loop
  <2>2. CASE Crash \/ Cancel \/ Stop \/ UNCHANGED vars
    <3>1. UNCHANGED loopVars /\ UNCHANGED <<loop, timed>>
      BY <2>2 DEF Crash, Cancel, Stop, vars
    <3>2. /\ cancelled => cancelled'
          /\ stopClosed => stopClosed'
          /\ cancelled' \in BOOLEAN /\ stopClosed' \in BOOLEAN /\ crashed' \in BOOLEAN
          /\ ~timed => crashed' = crashed
      BY <2>2 DEF Crash, Cancel, Stop, vars, LoopInv, TypeOK
    <3> QED
      BY <3>1, <3>2 DEF loopVars, LoopInv, TypeOK, RunsStayInTheirLoop, WhileOpenInv, EndInv
  <2> QED
    BY <2>1, <2>2 DEF Next
<1> QED
  BY <1>1, <1>2, PTL DEF Spec

\* A run is what its loop waits for, or one that WithTimeout has abandoned.
THEOREM LoopTypeCorrect == Spec => []TypeOK
<1>1. LoopInv => TypeOK
  BY DEF LoopInv
<1> QED
  BY <1>1, LoopInvariant, PTL

\* A job ends with its context only, the wrappers answer nil to a closed
\* channel only, and WhileChanNotClosed begins at most one more run.
THEOREM LoopsEndCorrectly == Spec => []LoopsEndAsTold
<1>1. LoopInv => LoopsEndAsTold
  BY DEF LoopInv, TypeOK, WhileOpenInv, EndInv, LoopsEndAsTold
<1> QED
  BY <1>1, LoopInvariant, PTL
=============================================================================
