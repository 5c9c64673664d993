-------------------------- MODULE ParallelLoopsProofs --------------------------
(***************************************************************************)
(* Theorems about ParallelLoops, for any number of runnables and any lists *)
(* of wrappers.                                                            *)
(***************************************************************************)
EXTENDS ParallelLoops, FiniteSetTheorems, TLAPS

\* A goroutine is born when it is started, and before the call nothing is.
StartInv ==
  /\ \A w \in Goroutines : at[w] = "unborn" <=> spawned < w
  /\ phase = "idle" <=> mode = "none"
  /\ phase = "idle" => /\ next = 0 /\ spawned = 0 /\ answer = None
                       /\ \A i \in Runnables : outcome[i] = "none"
                       /\ \A w \in Goroutines : firstErr[w] = None
  /\ mode = "sequential" => workers = 0
  /\ mode = "forever" => workers = N /\ answer = None

\* The indices below next, and no others, have been handed out.
IndexInv ==
  mode \in {"for", "sequential"} =>
    \A i \in Runnables : outcome[i] = "none" <=> next <= i

\* An index belongs to a goroutine that was started, which is in its
\* iteration; a goroutine that has begun an iteration has ended all earlier
\* ones; a goroutine that has left found the channel empty.
WorkInv ==
  mode = "for" =>
    /\ \A i \in Runnables : outcome[i] # "none" =>
         by[i] \in Goroutines /\ at[by[i]] # "unborn"
    /\ \A i \in Runnables : outcome[i] = "running" => at[by[i]] = "run"
    /\ \A i, j \in Runnables :
         i < j /\ outcome[j] # "none" /\ by[i] = by[j] => outcome[i] # "running"
    /\ \A w \in Goroutines : at[w] = "left" => next = N
    /\ phase = "returned" => /\ spawned = workers
                             /\ \A w \in Goroutines : at[w] \in {"unborn", "left"}

\* What a goroutine remembers is its first failure, and the answer is what
\* some goroutine remembers, None as long as those that left remember none.
ErrorInv ==
  mode = "for" =>
    /\ \A w \in Goroutines : firstErr[w] = None =>
         \A i \in Failures : by[i] # w
    /\ \A w \in Goroutines : firstErr[w] # None =>
         /\ firstErr[w] \in Failures /\ by[firstErr[w]] = w
         /\ \A i \in Failures : by[i] = w => firstErr[w] <= i
    /\ answer = None => \A w \in Goroutines : at[w] = "left" => firstErr[w] = None
    /\ answer # None => \E w \in Goroutines : firstErr[w] = answer

\* Forever returns to a caller only when the context of the other runnables
\* is done and each of them has been started; and the context is done as
\* soon as one has ended, with or without an error.
ForeverCancelsOthers ==
  mode = "forever" =>
    /\ phase = "returned" => spawned = N /\ (cancelled \/ N = 0)
    /\ (\E w \in Goroutines : at[w] = "left") => cancelled

\* A goroutine of Forever has a runnable of its own.
OwnInv ==
  mode = "forever" => \A w \in Goroutines :
    /\ at[w] \in {"unborn", "ready"} => outcome[w - 1] = "none"
    /\ at[w] = "run" => outcome[w - 1] = "running"

\* NewSequential runs nothing after a failure, returns that error, and only
\* a panic that no wrapper recovers reaches the caller.
SequentialStopsAtFailure ==
  /\ phase = "panicked" => /\ mode = "sequential"
                           /\ \A j \in DOMAIN wrappers : ~Fatal(j)
  /\ mode = "sequential" =>
       /\ \A i \in Failures : i = next - 1 /\ phase # "running"
       /\ phase = "returned" => IF answer = None THEN \A i \in Runnables : outcome[i] = "nil"
                                ELSE answer \in Failures

\* Nothing is run by the caller after a failure.
SeqInv ==
  /\ phase = "panicked" => mode = "sequential" /\ \A j \in DOMAIN wrappers : ~Fatal(j)
  /\ mode = "sequential" =>
       /\ \A i \in Runnables : outcome[i] = "running" => phase = "running" /\ i = next - 1
       /\ phase = "running" => Failures = {} /\ answer = None
       /\ SequentialStopsAtFailure

LoopsInv ==
  /\ TypeOK /\ StartInv /\ IndexInv /\ WorkInv /\ ErrorInv /\ SeqInv
  /\ ForeverCancelsOthers /\ OwnInv

-----------------------------------------------------------------------------

\* What comes out of the wrappers: a panic only if none of them recovers it.
LEMMA OutcomesOK ==
  /\ Outcomes \subseteq {"nil", "error", "panic"}
  /\ "panic" \in Outcomes => \A j \in DOMAIN wrappers : ~Fatal(j)
<1>1. \A o \in {"nil", "error", "panic"} :
        /\ Wrapped(o) \in {"nil", "error", "panic"}
        /\ Wrapped(o) = "panic" => o = "panic" /\ \A j \in DOMAIN wrappers : ~Fatal(j)
  BY DEF Wrapped
<1> QED
  BY <1>1 DEF Outcomes

\* The call begins.
LEMMA BeginStep ==
  ASSUME LoopsInv, NEW m \in {"for", "forever", "sequential"}, NEW n \in 0..N, Begin(m, n),
         m = "sequential" => n = 0, m = "forever" => n = N
  PROVE  LoopsInv'
<1> USE DEF LoopsInv
<1>1. /\ phase = "idle" /\ phase' = "running" /\ mode' = m /\ workers' = n
      /\ UNCHANGED <<spawned, next, at, by, outcome, firstErr, answer, cancelled>>
  BY DEF Begin
<1>2. /\ next = 0 /\ spawned = 0 /\ answer = None
      /\ \A i \in Runnables : outcome[i] = "none"
      /\ \A w \in Goroutines : firstErr[w] = None
      /\ \A w \in Goroutines : at[w] = "unborn"
  BY <1>1 DEF StartInv, Goroutines
<1>3. TypeOK'
  BY <1>1, <1>2, LoopAssumption DEF TypeOK
<1>4. StartInv' /\ IndexInv'
  BY <1>1, <1>2, LoopAssumption DEF StartInv, IndexInv, Runnables
<1>5. Failures' = {}
  BY <1>1, <1>2 DEF Failures
<1>6. WorkInv' /\ ErrorInv'
  BY <1>1, <1>2, <1>5 DEF WorkInv, ErrorInv
<1>7. SeqInv' /\ ForeverCancelsOthers'
  BY <1>1, <1>2, <1>5 DEF SeqInv, SequentialStopsAtFailure, ForeverCancelsOthers
<1>8. OwnInv'
  <2>1. \A w \in Goroutines : w - 1 \in Runnables
    BY LoopAssumption DEF Goroutines, Runnables
  <2> QED
    BY <1>1, <1>2, <2>1 DEF OwnInv
<1> QED
  BY <1>3, <1>4, <1>6, <1>7, <1>8

\* The steps of the caller of For and of Forever.
LEMMA CallerStep ==
  ASSUME LoopsInv, Spawn \/ Wait \/ Done \/ ParentDone
  PROVE  LoopsInv'
<1> USE DEF LoopsInv
<1>1. CASE Spawn
  <2>1. /\ phase = "running" /\ spawned < workers /\ spawned' = spawned + 1
        /\ at' = [at EXCEPT ![spawned + 1] = "ready"]
        /\ UNCHANGED <<mode, phase, wrappers, workers, next, by, outcome, firstErr, answer, cancelled>>
    BY <1>1 DEF Spawn
  <2>2. spawned \in Nat /\ workers \in 0..N /\ spawned + 1 \in Goroutines /\ mode # "sequential"
    BY <2>1, LoopAssumption DEF TypeOK, StartInv, Goroutines
  <2>3. /\ at' \in [Goroutines -> {"unborn", "ready", "run", "left"}]
        /\ at'[spawned + 1] = "ready"
        /\ \A w \in Goroutines : w # spawned + 1 => at'[w] = at[w]
    BY <2>1, <2>2 DEF TypeOK
  <2> HIDE DEF LoopsInv
  <2>4. TypeOK'
    BY <2>1, <2>2, <2>3 DEF LoopsInv, TypeOK
  <2>5. StartInv'
    BY <2>1, <2>2, <2>3 DEF LoopsInv, StartInv, Goroutines
  <2>6. at[spawned + 1] = "unborn"
    BY <2>2 DEF LoopsInv, StartInv
  <2>7. IndexInv' /\ ErrorInv' /\ SeqInv'
    BY <2>1, <2>2, <2>3 DEF LoopsInv, IndexInv, ErrorInv, SeqInv, Failures, Fatal
  <2>8. WorkInv'
    BY <2>1, <2>3, <2>6 DEF LoopsInv, WorkInv
  <2>9. ForeverCancelsOthers'
    BY <2>1, <2>3 DEF LoopsInv, ForeverCancelsOthers
  <2>10. OwnInv'
    BY <2>1, <2>3, <2>6 DEF LoopsInv, OwnInv
  <2> QED
    BY <2>4, <2>5, <2>7, <2>8, <2>9, <2>10 DEF LoopsInv
<1>2. CASE Wait \/ Done
  <2>1. /\ phase = "running" /\ phase' = "returned" /\ mode \in {"for", "forever"}
        /\ UNCHANGED <<mode, wrappers, workers, spawned, next, at, by, outcome, firstErr, answer, cancelled>>
    BY <1>2 DEF Wait, Done
  <2>2. mode = "for" => spawned = workers /\ \A w \in Goroutines : at[w] \in {"unborn", "left"}
    BY <1>2 DEF Wait, Done, StartInv, TypeOK, Goroutines
  <2>3. TypeOK' /\ StartInv' /\ IndexInv'
    BY <2>1 DEF TypeOK, StartInv, IndexInv
  <2>4. WorkInv' /\ ErrorInv' /\ SeqInv'
    BY <2>1, <2>2 DEF WorkInv, ErrorInv, SeqInv, Failures
  <2>5. ForeverCancelsOthers'
    BY <1>2, <2>1 DEF Wait, Done, ForeverCancelsOthers, StartInv
  <2>6. OwnInv'
    BY <2>1 DEF OwnInv
  <2> QED
    BY <2>3, <2>4, <2>5, <2>6
<1>3. CASE ParentDone
  <2>1. /\ mode = "forever" /\ cancelled' = TRUE
        /\ UNCHANGED <<mode, phase, wrappers, workers, spawned, next, at, by, outcome, firstErr, answer>>
    BY <1>3 DEF ParentDone
  <2> QED
    BY <2>1 DEF TypeOK, StartInv, IndexInv, WorkInv, ErrorInv, SeqInv, Fatal, ForeverCancelsOthers, OwnInv
<1> QED
  BY <1>1, <1>2, <1>3

-----------------------------------------------------------------------------

\* A worker of For, or a goroutine of Forever, begins a runnable.
LEMMA ReceiveStep ==
  ASSUME LoopsInv, NEW w \in Goroutines, Receive(w)
  PROVE  LoopsInv'
<1> USE DEF LoopsInv
<1>1. /\ at[w] = "ready" /\ at' = [at EXCEPT ![w] = "run"]
      /\ mode \in {"for", "forever"}
      /\ UNCHANGED <<mode, phase, wrappers, workers, spawned, firstErr, answer, cancelled>>
  BY DEF Receive
<1>2. PICK k \in Runnables :
        /\ by' = [by EXCEPT ![k] = w] /\ outcome' = [outcome EXCEPT ![k] = "running"]
        /\ mode = "for" => k = next /\ next' = next + 1 /\ next < N
        /\ mode = "forever" => k = w - 1 /\ next' = next
  <2>1. next \in Nat /\ N \in Nat /\ w \in 1..N
    BY LoopAssumption DEF TypeOK, Goroutines
  <2>2. CASE mode = "for" /\ next < N /\ Run(w, next) /\ next' = next + 1
    <3>1. next \in Runnables
      BY <2>1, <2>2 DEF Runnables
    <3> QED
      BY <2>2, <3>1 DEF Run
  <2>3. CASE mode = "forever" /\ Run(w, w - 1) /\ UNCHANGED next
    <3>1. w - 1 \in Runnables
      BY <2>1 DEF Runnables
    <3> QED
      BY <2>3, <3>1 DEF Run
  <2> QED
    BY <2>2, <2>3 DEF Receive
<1>3. /\ at' \in [Goroutines -> {"unborn", "ready", "run", "left"}] /\ at'[w] = "run"
      /\ \A v \in Goroutines : v # w => at'[v] = at[v]
  BY <1>1 DEF TypeOK
<1>4. /\ by' \in [Runnables -> 0..N \cup {None}] /\ by'[k] = w
      /\ \A i \in Runnables : i # k => by'[i] = by[i]
  BY <1>2, LoopAssumption DEF TypeOK, Goroutines
<1>5. /\ outcome' \in [Runnables -> {"none", "running", "nil", "error", "panic"}]
      /\ outcome'[k] = "running"
      /\ \A i \in Runnables : i # k => outcome'[i] = outcome[i]
  BY <1>2 DEF TypeOK
<1>6. TypeOK'
  BY <1>1, <1>2, <1>3, <1>4, <1>5, LoopAssumption DEF TypeOK
<1>7. StartInv'
  BY <1>1, <1>3 DEF StartInv, TypeOK
<1>8. next \in Nat /\ k \in Nat /\ mode # "sequential"
  BY <1>1, <1>2, LoopAssumption DEF TypeOK, Runnables
<1>9. IndexInv'
  BY <1>1, <1>2, <1>5, <1>8 DEF IndexInv, Runnables
<1>10. mode = "for" => outcome[k] = "none" /\ \A i \in Runnables : k < i => outcome[i] = "none"
  BY <1>2, <1>8, LoopAssumption DEF IndexInv, Runnables
<1>11. mode = "for" => \A i \in Runnables : outcome[i] = "running" => by[i] # w
  BY <1>1 DEF WorkInv
<1>12. ASSUME mode = "for" PROVE WorkInv'
  <2>1. \A i \in Runnables : outcome'[i] # "none" => by'[i] \in Goroutines /\ at'[by'[i]] # "unborn"
    BY <1>3, <1>4, <1>5, <1>12 DEF WorkInv
  <2>2. \A i \in Runnables : outcome'[i] = "running" => at'[by'[i]] = "run"
    BY <1>3, <1>4, <1>5, <1>12 DEF WorkInv
  <2>3. ASSUME NEW i \in Runnables, NEW j \in Runnables, i < j, outcome'[j] # "none", by'[i] = by'[j]
        PROVE  outcome'[i] # "running"
    <3>1. CASE j = k
      <4>1. i # k /\ by[i] = w
        BY <1>4, <1>8, <2>3, <3>1
      <4> QED
        BY <1>5, <1>11, <1>12, <4>1
    <3>2. CASE j # k
      <4>1. i # k
        BY <1>5, <1>10, <1>12, <2>3, <3>2
      <4> QED
        BY <1>4, <1>5, <1>12, <2>3, <3>2, <4>1 DEF WorkInv
    <3> QED
      BY <3>1, <3>2
  <2>4. \A v \in Goroutines : at'[v] = "left" => next' = N
    BY <1>2, <1>3, <1>8, <1>12, LoopAssumption DEF WorkInv
  <2>5. phase # "returned"
    BY <1>1, <1>12 DEF WorkInv
  <2> QED
    BY <1>1, <2>1, <2>2, <2>3, <2>4, <2>5 DEF WorkInv
<1>13. ASSUME mode = "for" PROVE ErrorInv'
  <2>1. Failures' = Failures /\ k \notin Failures
    BY <1>5, <1>10, <1>13 DEF Failures
  <2>2. \A i \in Failures : by'[i] = by[i]
    BY <1>4, <2>1 DEF Failures
  <2> QED
    BY <1>1, <1>3, <1>13, <2>1, <2>2 DEF ErrorInv
<1>14. WorkInv' /\ ErrorInv'
  BY <1>1, <1>12, <1>13 DEF WorkInv, ErrorInv
<1>15. SeqInv'
  BY <1>1 DEF SeqInv
<1>16. ForeverCancelsOthers'
  BY <1>1, <1>3 DEF ForeverCancelsOthers
<1>17. OwnInv'
  <2>1. \A v \in Goroutines : v - 1 \in Runnables /\ (v # w => v - 1 # w - 1)
    BY LoopAssumption DEF Goroutines, Runnables
  <2> QED
    BY <1>1, <1>2, <1>3, <1>5, <2>1 DEF OwnInv
<1> QED
  BY <1>6, <1>7, <1>9, <1>14, <1>15, <1>16, <1>17

\* An iteration of For ends.
LEMMA EndIterationStep ==
  ASSUME LoopsInv, NEW w \in Goroutines, EndIteration(w)
  PROVE  LoopsInv'
<1> USE DEF LoopsInv
<1>1. PICK k \in Runnables, o \in Outcomes :
        /\ by[k] = w /\ outcome[k] = "running" /\ outcome' = [outcome EXCEPT ![k] = o]
        /\ firstErr' = [firstErr EXCEPT ![w] = Keep(w, k, o)]
  BY DEF EndIteration, Running
<1>2. /\ at[w] = "run" /\ mode = "for" /\ at' = [at EXCEPT ![w] = "ready"]
      /\ UNCHANGED <<mode, phase, wrappers, workers, spawned, next, by, answer, cancelled>>
  BY DEF EndIteration
<1>3. o \in {"nil", "error", "panic"}
  BY OutcomesOK
<1>4. /\ at' \in [Goroutines -> {"unborn", "ready", "run", "left"}] /\ at'[w] = "ready"
      /\ \A v \in Goroutines : v # w => at'[v] = at[v]
  BY <1>2 DEF TypeOK
<1>5. /\ outcome' \in [Runnables -> {"none", "running", "nil", "error", "panic"}]
      /\ outcome'[k] = o
      /\ \A i \in Runnables : i # k => outcome'[i] = outcome[i]
  BY <1>1, <1>3 DEF TypeOK
<1>6. /\ firstErr' \in [Goroutines -> Runnables \cup {None}]
      /\ firstErr'[w] = IF o # "nil" /\ firstErr[w] = None THEN k ELSE firstErr[w]
      /\ \A v \in Goroutines : v # w => firstErr'[v] = firstErr[v]
  BY <1>1 DEF Keep, TypeOK
<1>7. TypeOK'
  BY <1>2, <1>4, <1>5, <1>6 DEF TypeOK
<1>8. StartInv' /\ IndexInv'
  BY <1>1, <1>2, <1>3, <1>4, <1>5 DEF StartInv, IndexInv, WorkInv
<1>9. \A i \in Runnables : by[i] = w /\ i # k => outcome[i] # "running"
  <2>1. \A i \in Runnables : i # k => i < k \/ k < i
    BY LoopAssumption DEF Runnables
  <2>2. ASSUME NEW i \in Runnables, by[i] = w, i # k, outcome[i] = "running" PROVE FALSE
    BY <1>1, <1>2, <2>1, <2>2 DEF WorkInv
  <2> QED
    BY <2>2
<1>10. WorkInv'
  <2>1. \A i \in Runnables : outcome'[i] # "none" => by'[i] \in Goroutines /\ at'[by'[i]] # "unborn"
    BY <1>1, <1>2, <1>4, <1>5 DEF WorkInv
  <2>2. \A i \in Runnables : outcome'[i] = "running" => at'[by'[i]] = "run"
    BY <1>1, <1>2, <1>3, <1>4, <1>5, <1>9 DEF WorkInv
  <2>3. \A i, j \in Runnables :
          i < j /\ outcome'[j] # "none" /\ by'[i] = by'[j] => outcome'[i] # "running"
    BY <1>1, <1>2, <1>3, <1>5 DEF WorkInv
  <2>4. \A v \in Goroutines : at'[v] = "left" => next' = N
    BY <1>2, <1>4 DEF WorkInv
  <2>5. phase # "returned"
    BY <1>2 DEF WorkInv
  <2> QED
    BY <1>2, <2>1, <2>2, <2>3, <2>4, <2>5 DEF WorkInv
<1>11. \A i \in Failures : by[i] = w => i < k
  <2>1. ASSUME NEW i \in Failures, by[i] = w PROVE i < k
    <3>1. i \in Runnables /\ outcome[i] \in {"error", "panic"} /\ i # k
      BY <1>1 DEF Failures
    <3>2. ~(k < i)
      BY <1>1, <1>2, <2>1, <3>1 DEF WorkInv
    <3> QED
      BY <3>1, <3>2, LoopAssumption DEF Runnables
  <2> QED
    BY <2>1
<1>12. Failures' = IF o = "nil" THEN Failures ELSE Failures \cup {k}
  BY <1>1, <1>3, <1>5 DEF Failures
<1>13. k # None /\ None \notin Runnables
  BY LoopAssumption DEF Runnables
<1>14. ErrorInv'
  <2>1. ASSUME NEW v \in Goroutines, firstErr'[v] = None PROVE \A i \in Failures' : by'[i] # v
    BY <1>1, <1>2, <1>6, <1>12, <1>13, <2>1 DEF ErrorInv
  <2>2. ASSUME NEW v \in Goroutines, firstErr'[v] # None
        PROVE  /\ firstErr'[v] \in Failures' /\ by'[firstErr'[v]] = v
               /\ \A i \in Failures' : by'[i] = v => firstErr'[v] <= i
    <3>1. CASE v # w
      BY <1>1, <1>2, <1>6, <1>12, <2>2, <3>1 DEF ErrorInv
    <3>2. CASE v = w /\ firstErr[w] # None
      <4>1. firstErr'[w] = firstErr[w] /\ firstErr[w] < k /\ firstErr[w] \in Failures
        BY <1>2, <1>6, <1>11, <3>2 DEF ErrorInv
      <4>2. firstErr[w] <= k
        BY <4>1, LoopAssumption DEF Failures, Runnables
      <4> QED
        BY <1>2, <1>12, <3>2, <4>1, <4>2 DEF ErrorInv
    <3>3. CASE v = w /\ firstErr[w] = None
      <4>1. firstErr'[w] = k /\ o # "nil" /\ k <= k
        BY <1>6, <2>2, <3>3, LoopAssumption DEF Runnables
      <4>2. \A i \in Failures : by[i] # w
        BY <1>2, <3>3 DEF ErrorInv
      <4> QED
        BY <1>1, <1>2, <1>12, <3>3, <4>1, <4>2
    <3> QED
      BY <3>1, <3>2, <3>3
  <2>3. answer' = None => \A v \in Goroutines : at'[v] = "left" => firstErr'[v] = None
    BY <1>2, <1>4, <1>6 DEF ErrorInv
  <2>4. answer' # None => \E v \in Goroutines : firstErr'[v] = answer'
    BY <1>2, <1>6 DEF ErrorInv
  <2> QED
    BY <2>1, <2>2, <2>3, <2>4 DEF ErrorInv
<1>15. SeqInv' /\ ForeverCancelsOthers' /\ OwnInv'
  BY <1>2 DEF SeqInv, ForeverCancelsOthers, OwnInv
<1> QED
  BY <1>7, <1>8, <1>10, <1>14, <1>15
\* A worker of For finds the channel empty, or a goroutine of Forever ends.
LEMMA LeaveStep ==
  ASSUME LoopsInv, NEW w \in Goroutines, EndWorker(w) \/ EndForever(w)
  PROVE  LoopsInv'
<1> USE DEF LoopsInv
<1>1. /\ at[w] \in {"ready", "run"} /\ at' = [at EXCEPT ![w] = "left"]
      /\ UNCHANGED <<mode, phase, wrappers, workers, spawned, next, by, firstErr>>
  BY DEF EndWorker, EndForever
<1>2. /\ at' \in [Goroutines -> {"unborn", "ready", "run", "left"}] /\ at'[w] = "left"
      /\ \A v \in Goroutines : v # w => at'[v] = at[v]
  BY <1>1 DEF TypeOK
<1>3. StartInv'
  <2>1. phase # "idle" /\ mode # "sequential"
    <3>1. spawned \in Nat /\ workers \in Nat /\ spawned <= workers /\ ~(spawned < w)
      BY <1>1, LoopAssumption DEF StartInv, TypeOK
    <3> QED
      BY <3>1 DEF StartInv, Goroutines
  <2>2. mode = "forever" => answer' = answer
    BY DEF EndWorker, EndForever
  <2> QED
    BY <1>1, <1>2, <2>1, <2>2 DEF StartInv
<1>4. CASE EndWorker(w)
  <2>1. /\ at[w] = "ready" /\ mode = "for" /\ next = N /\ UNCHANGED <<outcome, cancelled>>
        /\ answer' = IF answer = None THEN firstErr[w] ELSE answer
    BY <1>4 DEF EndWorker
  <2>2. TypeOK' /\ IndexInv'
    BY <1>1, <1>2, <2>1 DEF TypeOK, IndexInv
  <2>3. WorkInv'
    BY <1>1, <1>2, <2>1 DEF WorkInv
  <2>4. Failures' = Failures
    BY <2>1 DEF Failures
  <2>5. ErrorInv'
    BY <1>1, <1>2, <2>1, <2>4 DEF ErrorInv
  <2>6. SeqInv' /\ ForeverCancelsOthers' /\ OwnInv'
    BY <1>1, <2>1 DEF SeqInv, ForeverCancelsOthers, OwnInv
  <2> QED
    BY <1>3, <2>2, <2>3, <2>5, <2>6
<1>5. CASE EndForever(w)
  <2>1. PICK o \in Outcomes : outcome' = [outcome EXCEPT ![w - 1] = o]
    BY <1>5 DEF EndForever
  <2>2. mode = "forever" /\ cancelled' = TRUE /\ answer' = answer
    BY <1>5 DEF EndForever
  <2>3. outcome' \in [Runnables -> {"none", "running", "nil", "error", "panic"}]
    BY <2>1, OutcomesOK DEF TypeOK
  <2>4. TypeOK' /\ IndexInv' /\ WorkInv' /\ ErrorInv'
    BY <1>1, <1>2, <2>2, <2>3 DEF TypeOK, IndexInv, WorkInv, ErrorInv
  <2>5. SeqInv' /\ ForeverCancelsOthers'
    BY <1>1, <2>2 DEF SeqInv, ForeverCancelsOthers
  <2>6. OwnInv'
    <3>1. \A v \in Goroutines : v # w => v - 1 # w - 1
      BY LoopAssumption DEF Goroutines
    <3>2. \A v \in Goroutines : v # w => outcome'[v - 1] = outcome[v - 1]
      BY <2>1, <3>1 DEF TypeOK
    <3> QED
      BY <1>2, <2>2, <3>2 DEF OwnInv
  <2> QED
    BY <1>3, <2>4, <2>5, <2>6
<1> QED
  BY <1>4, <1>5

\* The caller runs a runnable itself.
LEMMA SequentialStep ==
  ASSUME LoopsInv, SeqRun \/ SeqEnd \/ SeqReturn
  PROVE  LoopsInv'
<1> USE DEF LoopsInv
<1>1. /\ mode = "sequential" /\ phase = "running" /\ Failures = {} /\ answer = None
      /\ UNCHANGED <<mode, wrappers, workers, spawned, at, firstErr, cancelled>>
  BY DEF SeqRun, SeqEnd, SeqReturn, SeqInv
<1>2. next \in 0..N /\ N \in Nat
  BY LoopAssumption DEF TypeOK
<1>3. \A i \in Runnables : outcome[i] \in {"none", "running", "nil"}
  BY <1>1 DEF Failures, TypeOK
<1>4. CASE SeqRun
  <2>1. /\ next < N /\ next \in Runnables /\ next' = next + 1
        /\ by' = [by EXCEPT ![next] = 0] /\ outcome' = [outcome EXCEPT ![next] = "running"]
        /\ \A i \in Runnables : outcome[i] # "running"
        /\ UNCHANGED <<phase, answer>>
    BY <1>2, <1>4 DEF SeqRun, Run, Runnables
  <2>2. /\ outcome' \in [Runnables -> {"none", "running", "nil", "error", "panic"}]
        /\ outcome'[next] = "running" /\ by' \in [Runnables -> 0..N \cup {None}]
        /\ \A i \in Runnables : i # next => outcome'[i] = outcome[i]
    BY <1>2, <2>1 DEF TypeOK
  <2>3. TypeOK'
    BY <1>1, <1>2, <2>1, <2>2 DEF TypeOK
  <2>4. StartInv' /\ IndexInv'
    BY <1>1, <1>2, <2>1, <2>2 DEF StartInv, IndexInv, Runnables
  <2>5. Failures' = {}
    BY <1>3, <2>2 DEF Failures
  <2>6. SeqInv'
    BY <1>1, <1>2, <2>1, <2>2, <2>5 DEF SeqInv, SequentialStopsAtFailure
  <2>7. WorkInv' /\ ErrorInv' /\ ForeverCancelsOthers' /\ OwnInv'
    BY <1>1 DEF WorkInv, ErrorInv, ForeverCancelsOthers, OwnInv
  <2> QED
    BY <2>3, <2>4, <2>6, <2>7
<1>5. CASE SeqEnd
  <2>1. PICK k \in Runnables, o \in Outcomes :
          /\ outcome[k] = "running" /\ outcome' = [outcome EXCEPT ![k] = o]
          /\ phase' = After(o) /\ answer' = IF o = "error" THEN k ELSE None
    BY <1>5 DEF SeqEnd, Running
  <2>2. o \in {"nil", "error", "panic"} /\ (o = "panic" => \A j \in DOMAIN wrappers : ~Fatal(j))
    BY OutcomesOK
  <2>3. UNCHANGED <<next, by>>
    BY <1>5 DEF SeqEnd
  <2>4. /\ outcome' \in [Runnables -> {"none", "running", "nil", "error", "panic"}]
        /\ outcome'[k] = o /\ \A i \in Runnables : i # k => outcome'[i] = outcome[i]
    BY <2>1, <2>2 DEF TypeOK
  <2>5. k = next - 1 /\ \A i \in Runnables : i # k => outcome'[i] \in {"none", "nil"}
    BY <1>1, <1>3, <2>1, <2>4 DEF SeqInv
  <2>6. phase' = IF o = "error" THEN "returned" ELSE IF o = "panic" THEN "panicked" ELSE "running"
    BY <2>1 DEF After
  <2>7. TypeOK'
    BY <1>1, <2>1, <2>3, <2>4, <2>6 DEF TypeOK
  <2>8. StartInv' /\ IndexInv'
    BY <1>1, <2>1, <2>2, <2>3, <2>4, <2>6 DEF StartInv, IndexInv
  <2>9. Failures' = IF o = "nil" THEN {} ELSE {k}
    BY <2>2, <2>4, <2>5 DEF Failures
  <2>10. \A i \in Runnables : outcome'[i] # "running"
    BY <2>2, <2>4, <2>5
  <2>11. k # None
    BY LoopAssumption DEF Runnables
  <2>12. SequentialStopsAtFailure'
    <3>1. \A j \in DOMAIN wrappers : Fatal(j)' <=> Fatal(j)
      BY <1>1 DEF Fatal
    <3> QED
      BY <1>1, <2>1, <2>2, <2>3, <2>5, <2>6, <2>9, <2>11, <3>1 DEF SequentialStopsAtFailure
  <2>13. SeqInv'
    <3>1. phase' = "panicked" => \A j \in DOMAIN wrappers' : ~Fatal(j)'
      BY <1>1, <2>2, <2>6 DEF Fatal
    <3> QED
      BY <1>1, <2>1, <2>2, <2>6, <2>9, <2>10, <2>12, <3>1 DEF SeqInv
  <2>14. WorkInv' /\ ErrorInv' /\ ForeverCancelsOthers' /\ OwnInv'
    BY <1>1 DEF WorkInv, ErrorInv, ForeverCancelsOthers, OwnInv
  <2> QED
    BY <2>7, <2>8, <2>13, <2>14
<1>6. CASE SeqReturn
  <2>1. /\ next = N /\ phase' = "returned" /\ \A i \in Runnables : outcome[i] # "running"
        /\ UNCHANGED <<next, by, outcome, answer>>
    BY <1>6 DEF SeqReturn
  <2>2. \A i \in Runnables : outcome[i] = "nil"
    BY <1>1, <1>2, <1>3, <2>1 DEF IndexInv, Runnables
  <2>3. TypeOK' /\ StartInv' /\ IndexInv'
    BY <1>1, <2>1 DEF TypeOK, StartInv, IndexInv
  <2>4. SeqInv'
    BY <1>1, <2>1, <2>2 DEF SeqInv, SequentialStopsAtFailure, Failures
  <2>5. WorkInv' /\ ErrorInv' /\ ForeverCancelsOthers' /\ OwnInv'
    BY <1>1 DEF WorkInv, ErrorInv, ForeverCancelsOthers, OwnInv
  <2> QED
    BY <2>3, <2>4, <2>5
<1> QED
  BY <1>4, <1>5, <1>6

-----------------------------------------------------------------------------

\* The inductive invariant behind the theorems of this module.
LEMMA LoopsInvariant == Spec => []LoopsInv
<1>1. Init => LoopsInv
  <2> SUFFICES ASSUME Init PROVE LoopsInv
    OBVIOUS
  <2>1. N \in Nat
    BY LoopAssumption
  <2>2. TypeOK
    <3>1. /\ workers \in 0..N /\ spawned \in 0..workers /\ next \in 0..N
      BY <2>1 DEF Init
    <3>2. /\ by \in [Runnables -> 0..N \cup {None}]
          /\ firstErr \in [Goroutines -> Runnables \cup {None}]
          /\ at \in [Goroutines -> {"unborn", "ready", "run", "left"}]
          /\ outcome \in [Runnables -> {"none", "running", "nil", "error", "panic"}]
      BY DEF Init
    <3> QED
      BY <3>1, <3>2 DEF Init, TypeOK
  <2>3. StartInv
    BY <2>1 DEF Init, StartInv, Goroutines
  <2>4. IndexInv /\ WorkInv /\ ErrorInv /\ SeqInv /\ ForeverCancelsOthers /\ OwnInv
    BY DEF Init, IndexInv, WorkInv, ErrorInv, SeqInv, ForeverCancelsOthers, OwnInv
  <2> QED
    BY <2>2, <2>3, <2>4 DEF LoopsInv
<1>2. LoopsInv /\ [Next]_vars => LoopsInv'
  <2> SUFFICES ASSUME LoopsInv, [Next]_vars PROVE LoopsInv'
    OBVIOUS
  <2>1. CASE Call
    <3>1. N \in Nat /\ N \in 0..N /\ 0 \in 0..N
      BY LoopAssumption
    <3>2. ASSUME NEW n \in 0..(N + 1) PROVE (IF n > N THEN N ELSE n) \in 0..N
      BY <3>1
    <3>3. ASSUME NEW n \in 0..(N + 1), For(n) PROVE LoopsInv'
      BY <3>2, <3>3, BeginStep DEF For
    <3>4. ASSUME NEW n \in 0..(N + 1), Parallel(n) PROVE LoopsInv'
      <4>1. (IF n > 0 /\ N > n THEN n ELSE N) \in 0..(N + 1) /\ N \in 0..(N + 1)
        BY <3>1
      <4>2. For(IF n > 0 /\ N > n THEN n ELSE N)
        BY <3>4 DEF Parallel
      <4> QED
        BY <3>3, <4>1, <4>2
    <3>5. CASE Forever \/ Sequential
      BY <3>1, <3>5, BeginStep DEF Forever, Sequential
    <3> QED
      BY <2>1, <3>3, <3>4, <3>5 DEF Call
  <2>2. CASE UNCHANGED vars
    BY <2>2 DEF vars, LoopsInv, TypeOK, StartInv, IndexInv, WorkInv, ErrorInv, Failures, SeqInv,
                SequentialStopsAtFailure, Fatal, ForeverCancelsOthers, OwnInv
  <2> QED
    BY <2>1, <2>2, CallerStep, SequentialStep, ReceiveStep, EndIterationStep, LeaveStep
       DEF Next, Caller, Goroutine
<1> QED
  BY <1>1, <1>2, PTL DEF Spec

\* When For returns it has run every index, whatever failed or panicked,
\* unless it had no worker, and its workers are gone.
THEOREM EveryIndexIsRun == Spec => []ForRunsEveryIndex
<1>1. LoopsInv => ForRunsEveryIndex
  <2> SUFFICES ASSUME LoopsInv, mode = "for", phase = "returned"
               PROVE  /\ workers > 0 => \A i \in Runnables : Over(i)
                      /\ \A w \in Goroutines : at[w] \in {"unborn", "left"}
    BY DEF ForRunsEveryIndex
  <2>1. \A w \in Goroutines : at[w] \in {"unborn", "left"}
    BY DEF LoopsInv, WorkInv
  <2>2. ASSUME next = N, NEW i \in Runnables PROVE Over(i)
    <3>1. outcome[i] # "none"
      BY <2>2, LoopAssumption DEF LoopsInv, IndexInv, Runnables
    <3> QED
      BY <2>1, <3>1 DEF LoopsInv, WorkInv, Over
  <2>3. ASSUME workers > 0 PROVE next = N
    <3>1. 1 \in Goroutines /\ ~(spawned < 1)
      BY <2>3, LoopAssumption DEF LoopsInv, TypeOK, WorkInv, Goroutines
    <3>2. at[1] = "left"
      BY <2>1, <3>1 DEF LoopsInv, StartInv
    <3> QED
      BY <3>1, <3>2 DEF LoopsInv, WorkInv
  <2> QED
    BY <2>1, <2>2, <2>3
<1> QED
  BY <1>1, LoopsInvariant, PTL

\* For answers an error exactly if an iteration failed, and then the first
\* one of the goroutine that ran it.
THEOREM AnswerIsFirstOfAGoroutine == Spec => []ForAnswersFirstOfAGoroutine
<1>1. LoopsInv => ForAnswersFirstOfAGoroutine
  <2> SUFFICES ASSUME LoopsInv, mode = "for", phase = "returned"
               PROVE  /\ answer = None <=> Failures = {}
                      /\ answer # None => /\ answer \in Failures
                                          /\ \A i \in Failures : by[i] = by[answer] => answer <= i
    BY DEF ForAnswersFirstOfAGoroutine
  <2>1. ASSUME answer # None
        PROVE  answer \in Failures /\ \A i \in Failures : by[i] = by[answer] => answer <= i
    <3>1. PICK w \in Goroutines : firstErr[w] = answer
      BY <2>1 DEF LoopsInv, ErrorInv
    <3> QED
      BY <2>1, <3>1 DEF LoopsInv, ErrorInv
  <2>2. ASSUME answer = None, NEW i \in Failures PROVE FALSE
    <3>1. i \in Runnables /\ outcome[i] # "none"
      BY DEF Failures
    <3>2. by[i] \in Goroutines /\ at[by[i]] = "left"
      BY <3>1 DEF LoopsInv, WorkInv
    <3>3. firstErr[by[i]] = None
      BY <2>2, <3>2 DEF LoopsInv, ErrorInv
    <3> QED
      BY <3>2, <3>3 DEF LoopsInv, ErrorInv
  <2> QED
    BY <2>1, <2>2
<1> QED
  BY <1>1, LoopsInvariant, PTL

-----------------------------------------------------------------------------
(* The refinement of LoopAnswers.                                          *)

\* A goroutine of For that may receive an index runs none itself, so fewer
\* iterations run than there are goroutines.
LEMMA RoomInLoop ==
  ASSUME LoopsInv, mode = "for", NEW w \in Goroutines, at[w] = "ready"
  PROVE  Cardinality({i \in Runnables : outcome[i] = "running"}) < workers
<1> DEFINE R == {i \in Runnables : outcome[i] = "running"}
           f == [i \in R |-> by[i]]
<1>1. workers \in Nat /\ spawned \in Nat /\ spawned <= workers /\ w \in 1..workers
  BY LoopAssumption DEF LoopsInv, TypeOK, StartInv, Goroutines
<1>2. ASSUME NEW i \in R PROVE by[i] \in (1..workers) \ {w}
  <2>1. by[i] \in Goroutines /\ at[by[i]] = "run"
    BY DEF LoopsInv, WorkInv
  <2>2. ~(spawned < by[i])
    BY <2>1 DEF LoopsInv, StartInv
  <2> QED
    BY <1>1, <2>1, <2>2, LoopAssumption DEF Goroutines
<1>3. ASSUME NEW i \in R, NEW j \in R, by[i] = by[j] PROVE i = j
  <2>1. ~(i < j) /\ ~(j < i)
    BY <1>3 DEF LoopsInv, WorkInv
  <2> QED
    BY <2>1, LoopAssumption DEF Runnables
<1>4. f \in Injection(R, (1..workers) \ {w})
  BY <1>2, <1>3 DEF Injection, IsInjective
<1>5. IsFiniteSet(1..workers) /\ Cardinality(1..workers) = workers
  BY <1>1, FS_Interval
<1>6. /\ IsFiniteSet((1..workers) \ {w})
      /\ Cardinality((1..workers) \ {w}) = workers - 1
  BY <1>1, <1>5, FS_RemoveElement
<1>7. Cardinality(R) <= workers - 1 /\ Cardinality(R) \in Nat
  <2> HIDE DEF f, R
  <2> QED
    BY <1>4, <1>6, FS_Injection, FS_CardinalityType
<1> QED
  BY <1>1, <1>7

\* The instance has sets of its own, with the same definitions.
LEMMA SameSets ==
  /\ Answers!Indexes = Runnables
  /\ \A S : Answers!In(S) = {i \in Runnables : outcome[i] \in S}
  /\ \A S : Answers!Cardinality(S) = Cardinality(S)
<1>1. Answers!Indexes = Runnables
  BY DEF Answers!Indexes, Runnables
<1>2. \A S : Answers!Cardinality(S) = Cardinality(S)
  BY DEF Answers!Cardinality, Cardinality, Answers!IsFiniteSet, IsFiniteSet
<1> QED
  BY <1>1, <1>2 DEF Answers!In

\* A loop of goroutines is at work only while its caller waits.
LEMMA AtWork ==
  ASSUME LoopsInv, NEW w \in Goroutines, at[w] \in {"ready", "run"}, mode = "for"
  PROVE  phase = "running"
BY DEF LoopsInv, TypeOK, StartInv, WorkInv, SeqInv

\* A runnable begins: the next index of For, the own one of a goroutine of
\* Forever, or the next in a sequence.
LEMMA BeginsInOrder ==
  ASSUME LoopsInv, (\E w \in Goroutines : Receive(w)) \/ SeqRun
  PROVE  \E i \in Runnables : Answers!Begin(i)
<1>1. N \in Nat /\ next \in 0..N /\ outcome \in [Runnables -> {"none", "running", "nil", "error", "panic"}]
  BY LoopAssumption DEF LoopsInv, TypeOK
<1>2. ASSUME NEW i \in Runnables, outcome[i] = "none",
             outcome' = [outcome EXCEPT ![i] = "running"],
             UNCHANGED <<mode, workers, phase, cancelled, answer>>,
             mode # "forever" => phase = "running",
             mode \in {"for", "sequential"} => i = next,
             mode = "for" => Cardinality({j \in Runnables : outcome[j] = "running"}) < workers,
             mode = "sequential" => \A j \in Runnables : outcome[j] \in {"none", "nil"}
      PROVE  Answers!Begin(i)
  <2>1. mode \in {"for", "sequential"} =>
          \A j \in 0..(i - 1) : j \in Runnables /\ outcome[j] # "none"
    BY <1>1, <1>2 DEF LoopsInv, IndexInv, Runnables
  <2>2. Failure' = Failure
    BY <1>2 DEF Failure
  <2>3. Answers!In({"running"}) = {j \in Runnables : outcome[j] = "running"}
    BY SameSets
  <2>4. mode = "for" => Answers!Cardinality(Answers!In({"running"})) < workers
    BY <1>2, <2>3, SameSets
  <2>5. mode = "sequential" => \A j \in 0..(i - 1) : outcome[j] = "nil"
    BY <1>2, <2>1
  <2> QED
    BY <1>2, <2>1, <2>2, <2>4, <2>5 DEF Answers!Begin
<1>3. ASSUME NEW w \in Goroutines, Receive(w) PROVE \E i \in Runnables : Answers!Begin(i)
  <2>1. /\ at[w] = "ready" /\ mode \in {"for", "forever"}
        /\ UNCHANGED <<mode, workers, phase, cancelled, answer>>
    BY <1>3 DEF Receive
  <2>2. CASE mode = "for"
    <3>1. /\ next < N /\ next \in Runnables
          /\ outcome' = [outcome EXCEPT ![next] = "running"]
      BY <1>1, <1>3, <2>2 DEF Receive, Run, Runnables
    <3>2. outcome[next] = "none"
      BY <1>1, <2>2, <3>1 DEF LoopsInv, IndexInv
    <3>3. phase = "running"
      BY <2>1, <2>2, AtWork
    <3>4. Cardinality({j \in Runnables : outcome[j] = "running"}) < workers
      BY <2>1, <2>2, RoomInLoop
    <3>5. Answers!Begin(next)
      BY <1>2, <2>1, <2>2, <3>1, <3>2, <3>3, <3>4
    <3> QED
      BY <3>1, <3>5
  <2>3. CASE mode = "forever"
    <3>1. w - 1 \in Runnables /\ outcome' = [outcome EXCEPT ![w - 1] = "running"]
      BY <1>1, <1>3, <2>3 DEF Receive, Run, Runnables, Goroutines
    <3>2. outcome[w - 1] = "none"
      BY <2>1, <2>3 DEF LoopsInv, OwnInv
    <3>3. Answers!Begin(w - 1)
      BY <1>2, <2>1, <2>3, <3>1, <3>2
    <3> QED
      BY <3>1, <3>3
  <2> QED
    BY <2>1, <2>2, <2>3
<1>4. CASE SeqRun
  <2>1. /\ mode = "sequential" /\ phase = "running" /\ next \in Runnables
        /\ outcome' = [outcome EXCEPT ![next] = "running"]
        /\ UNCHANGED <<mode, workers, phase, cancelled, answer>>
        /\ \A j \in Runnables : outcome[j] # "running"
    BY <1>1, <1>4 DEF SeqRun, Run, Runnables
  <2>2. outcome[next] = "none"
    BY <1>1, <2>1 DEF LoopsInv, IndexInv
  <2>3. \A j \in Runnables : outcome[j] \in {"none", "nil"}
    BY <1>1, <2>1 DEF LoopsInv, SeqInv, Failures
  <2>4. Answers!Begin(next)
    BY <1>2, <2>1, <2>2, <2>3
  <2> QED
    BY <2>1, <2>4
<1> QED
  BY <1>3, <1>4

\* A runnable ends, and a sequence with it if it fails.
LEMMA EndsAsAnswered ==
  ASSUME LoopsInv, (\E w \in Goroutines : EndIteration(w) \/ EndForever(w)) \/ SeqEnd
  PROVE  \E i \in Runnables, result \in {"nil", "error", "panic"} : Answers!End(i, result)
<1>1. ASSUME NEW w \in Goroutines, EndIteration(w)
      PROVE  \E i \in Runnables, result \in {"nil", "error", "panic"} : Answers!End(i, result)
  <2>1. PICK k \in Runnables, o \in Outcomes :
          outcome[k] = "running" /\ outcome' = [outcome EXCEPT ![k] = o]
    BY <1>1 DEF EndIteration, Running
  <2>2. /\ at[w] = "run" /\ mode = "for"
        /\ UNCHANGED <<mode, phase, workers, answer, cancelled>>
    BY <1>1 DEF EndIteration
  <2>3. phase = "running" /\ cancelled \in BOOLEAN
    BY <2>2, AtWork DEF LoopsInv, TypeOK
  <2>4. Failure' = Failure
    BY <2>2 DEF Failure
  <2>5. Answers!End(k, o)
    BY <2>1, <2>2, <2>3, <2>4 DEF Answers!End
  <2> QED
    BY <2>1, <2>5, OutcomesOK
<1>2. ASSUME NEW w \in Goroutines, EndForever(w)
      PROVE  \E i \in Runnables, result \in {"nil", "error", "panic"} : Answers!End(i, result)
  <2>1. PICK o \in Outcomes : outcome' = [outcome EXCEPT ![w - 1] = o]
    BY <1>2 DEF EndForever
  <2>2. /\ at[w] = "run" /\ mode = "forever" /\ cancelled' = TRUE
        /\ UNCHANGED <<mode, phase, workers, answer>>
    BY <1>2 DEF EndForever
  <2>3. w - 1 \in Runnables /\ outcome[w - 1] = "running"
    BY <2>2, LoopAssumption DEF LoopsInv, OwnInv, Goroutines, Runnables
  <2>4. Failure' = Failure
    BY <2>2 DEF Failure
  <2>5. Answers!End(w - 1, o)
    BY <2>1, <2>2, <2>3, <2>4 DEF Answers!End
  <2> QED
    BY <2>3, <2>5, OutcomesOK
<1>3. ASSUME SeqEnd
      PROVE  \E i \in Runnables, result \in {"nil", "error", "panic"} : Answers!End(i, result)
  <2>1. PICK k \in Runnables, o \in Outcomes :
          /\ outcome[k] = "running" /\ outcome' = [outcome EXCEPT ![k] = o]
          /\ phase' = After(o) /\ answer' = IF o = "error" THEN k ELSE None
    BY <1>3 DEF SeqEnd, Running
  <2>2. /\ phase = "running" /\ mode = "sequential"
        /\ UNCHANGED <<mode, workers, cancelled>> /\ cancelled \in BOOLEAN
    BY <1>3 DEF SeqEnd, LoopsInv, TypeOK
  <2>3. o \in {"nil", "error", "panic"} /\ k # None
    BY OutcomesOK, LoopAssumption DEF Runnables
  <2>4. Failure = {} /\ Failure' = IF o = "error" THEN {k} ELSE {}
    BY <2>1, <2>2, <2>3 DEF Failure, After
  <2>5. phase' = IF o = "error" THEN "returned" ELSE IF o = "panic" THEN "panicked" ELSE "running"
    BY <2>1, <2>3 DEF After
  <2>6. Answers!End(k, o)
    BY <2>1, <2>2, <2>3, <2>4, <2>5 DEF Answers!End
  <2> QED
    BY <2>1, <2>3, <2>6
<1> QED
  BY <1>1, <1>2, <1>3

\* The caller returns with what the ended runnables answer.
LEMMA AnswersWhenDone ==
  ASSUME LoopsInv, ForRunsEveryIndex', ForAnswersFirstOfAGoroutine', Wait \/ Done \/ SeqReturn
  PROVE  Answers!Answer
<1>1. CASE Wait
  <2>1. /\ phase = "running" /\ phase' = "returned" /\ mode = "for"
        /\ UNCHANGED <<mode, workers, outcome, by, at, answer, cancelled, spawned>>
        /\ \A w \in Goroutines : at[w] \in {"unborn", "left"}
    BY <1>1 DEF Wait, LoopsInv, StartInv, TypeOK, Goroutines
  <2>2. Answers!In({"running"}) = {}
    BY <2>1, SameSets DEF LoopsInv, WorkInv
  <2>3. workers > 0 => Answers!In({"none"}) = {}
    <3>1. workers > 0 => \A i \in Runnables : outcome[i] # "none"
      BY <2>1 DEF ForRunsEveryIndex, Over
    <3> QED
      BY <3>1, SameSets
  <2>4. /\ answer = None <=> Failures = {}
        /\ answer # None => answer \in Failures
    <3>1. Failures' = Failures
      BY <2>1 DEF Failures
    <3> QED
      BY <2>1, <3>1 DEF ForAnswersFirstOfAGoroutine
  <2>5. Failures = Answers!In({"error", "panic"})
    BY SameSets DEF Failures
  <2>6. Failure' = IF answer # None THEN {answer} ELSE {}
    BY <2>1 DEF Failure
  <2>7. IF Answers!In({"error", "panic"}) = {} THEN Failure' = {}
        ELSE \E i \in Answers!In({"error", "panic"}) : Failure' = {i}
    BY <2>4, <2>5, <2>6
  <2> QED
    BY <2>1, <2>2, <2>3, <2>7 DEF Answers!Answer
<1>2. CASE Done
  <2>1. /\ phase = "running" /\ phase' = "returned" /\ mode = "forever"
        /\ cancelled \/ workers = 0
        /\ UNCHANGED <<mode, workers, outcome, answer, cancelled>> /\ answer = None
    BY <1>2 DEF Done, LoopsInv, StartInv
  <2>2. Failure' = Failure
    BY <2>1 DEF Failure
  <2> QED
    BY <2>1, <2>2 DEF Answers!Answer
<1>3. CASE SeqReturn
  <2>1. /\ phase = "running" /\ phase' = "returned" /\ mode = "sequential" /\ next = N
        /\ UNCHANGED <<mode, workers, outcome, answer, cancelled>> /\ answer = None
        /\ Failures = {} /\ \A i \in Runnables : outcome[i] # "running"
    BY <1>3 DEF SeqReturn, LoopsInv, SeqInv
  <2>2. Failure' = Failure
    BY <2>1 DEF Failure
  <2>3. \A i \in Runnables : outcome[i] # "none"
    BY <2>1, LoopAssumption DEF LoopsInv, IndexInv, Runnables
  <2>4. \A i \in Runnables : outcome[i] = "nil"
    BY <2>1, <2>3 DEF LoopsInv, TypeOK, Failures
  <2>5. Answers!In({"nil"}) = Answers!Indexes
    BY <2>4, SameSets
  <2> QED
    BY <2>1, <2>2, <2>5 DEF Answers!Answer
<1> QED
  BY <1>1, <1>2, <1>3

\* The call: whatever number of workers is asked for, there are no more of
\* them than runnables.
LEMMA CallsOnce ==
  ASSUME LoopsInv, Call
  PROVE  Answers!Call
<1>1. N \in Nat /\ N \in 0..N /\ 0 \in 0..N
  BY LoopAssumption
<1>2. ASSUME NEW m \in {"for", "forever", "sequential"}, NEW n \in 0..N, Begin(m, n)
      PROVE  Answers!Call
  <2>1. /\ phase = "idle" /\ phase' = "running" /\ mode' = m /\ workers' = n
        /\ UNCHANGED <<outcome, cancelled, answer>>
    BY <1>2 DEF Begin
  <2>2. Failure = {} /\ Failure' = {}
    BY <2>1 DEF Failure
  <2> QED
    BY <2>1, <2>2 DEF Answers!Call
<1>3. ASSUME NEW n \in 0..(N + 1), For(n) PROVE Answers!Call
  <2>1. (IF n > N THEN N ELSE n) \in 0..N
    BY <1>1
  <2> QED
    BY <1>2, <1>3, <2>1 DEF For
<1>4. ASSUME NEW n \in 0..(N + 1), Parallel(n) PROVE Answers!Call
  <2>1. (IF n > 0 /\ N > n THEN n ELSE N) \in 0..(N + 1)
    BY <1>1
  <2> QED
    BY <1>3, <1>4, <2>1 DEF Parallel
<1>5. CASE Forever \/ Sequential
  BY <1>1, <1>2, <1>5 DEF Forever, Sequential
<1> QED
  BY <1>3, <1>4, <1>5 DEF Call

\* The loops, with their goroutines, channel and error group, keep the
\* promise of LoopAnswers: each runnable once, in order, no more at once
\* than the width of the loop, and one answer that follows from them.
THEOREM LoopsImplementAnswers == Spec => ImplementsLoopAnswers
<1>1. Init => Answers!Init
  BY SameSets DEF Init, Answers!Init, Failure
<1>2. ASSUME LoopsInv, ForRunsEveryIndex', ForAnswersFirstOfAGoroutine', [Next]_vars
      PROVE  [Answers!Next]_(Answers!vars)
  <2> USE <1>2 DEF Answers!Next
  <2>1. CASE Call
    BY <2>1, CallsOnce
  <2>2. CASE (\E w \in Goroutines : Receive(w)) \/ SeqRun
    BY <2>2, BeginsInOrder, SameSets
  <2>3. CASE (\E w \in Goroutines : EndIteration(w) \/ EndForever(w)) \/ SeqEnd
    BY <2>3, EndsAsAnswered, SameSets
  <2>4. CASE Wait \/ Done \/ SeqReturn
    BY <2>4, AnswersWhenDone
  <2>5. CASE ParentDone
    BY <2>5 DEF ParentDone, Answers!Tell, Failure
  <2>6. CASE Spawn \/ (\E w \in Goroutines : EndWorker(w)) \/ UNCHANGED vars
    <3>1. UNCHANGED <<mode, workers, phase, outcome, cancelled>>
      BY <2>6 DEF Spawn, EndWorker, vars
    <3>2. phase = "running" \/ answer' = answer
      BY <2>6, AtWork DEF Spawn, EndWorker, vars
    <3>3. Failure' = Failure
      BY <3>1, <3>2 DEF Failure
    <3> QED
      BY <3>1, <3>3 DEF Answers!vars
  <2> QED
    BY <2>1, <2>2, <2>3, <2>4, <2>5, <2>6 DEF Next, Caller, Goroutine
<1> QED
  BY <1>1, <1>2, LoopsInvariant, EveryIndexIsRun, AnswerIsFirstOfAGoroutine, PTL
     DEF Spec, ImplementsLoopAnswers, Answers!Spec
=============================================================================
