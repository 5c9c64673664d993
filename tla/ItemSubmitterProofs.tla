------------------------- MODULE ItemSubmitterProofs -------------------------
(***************************************************************************)
(* Theorems about the item submitter, for any items, any number of         *)
(* callbacks in progress, any maximum of retries and any width of the      *)
(* delays.                                                                 *)
(***************************************************************************)
EXTENDS RateLimiter, FiniteSetTheorems, WellFoundedInduction, TLAPS

SubmitterInv == TypeOK /\ OneAttemptPerItem /\ FailuresBelongToLiveItems

\* Submit, SubmitAfter, a timer and the shutdown touch no attempt.
LEMMA RequestStep ==
  ASSUME SubmitterInv,
         UNCHANGED <<active, failures, unlimited, puller, poolClosed, attemptVars>>,
         pending \subseteq pending' /\ pending' \subseteq Items,
         delayed' \subseteq Items, closed' \in BOOLEAN, closed => closed',
         ~closed' => delayed \subseteq delayed' \cup pending'
  PROVE  SubmitterInv'
<1>1. TypeOK' /\ OneAttemptPerItem'
  BY DEF SubmitterInv, TypeOK, OneAttemptPerItem, Working, attemptVars
<1>2. FailuresBelongToLiveItems'
  BY DEF SubmitterInv, TypeOK, FailuresBelongToLiveItems, attemptVars
<1> QED
  BY <1>1, <1>2 DEF SubmitterInv

\* The goroutine that pulls from the queue.
LEMMA PullingStep ==
  ASSUME SubmitterInv, Pulling
  PROVE  SubmitterInv'
<1> USE DEF SubmitterInv
<1>1. ASSUME NEW x \in Items, Pull(x) PROVE SubmitterInv'
  <2>1. /\ puller = "get" /\ puller' = x /\ x \in pending /\ x \notin active
        /\ pending' = pending \ {x} /\ active' = active \cup {x}
        /\ UNCHANGED <<closed, delayed, failures, unlimited, poolClosed, at, item, lost>>
    BY <1>1 DEF Pull, Queue!Take, attemptVars
  <2>2. puller \notin Items
    BY <2>1, SubmitterAssumption
  <2>3. TypeOK'
    BY <2>1 DEF TypeOK
  <2>4. Working' = Working
    BY <2>1 DEF Working
  <2>5. OneAttemptPerItem'
    BY <2>1, <2>2, <2>4 DEF TypeOK, OneAttemptPerItem
  <2>6. FailuresBelongToLiveItems'
    BY <2>1 DEF FailuresBelongToLiveItems
  <2> QED
    BY <2>3, <2>5, <2>6
<1>2. ASSUME PullerLeaves PROVE SubmitterInv'
  <2>1. /\ puller = "get" /\ puller' = "left" /\ closed
        /\ UNCHANGED <<queueVars, failures, unlimited, poolClosed, attemptVars>>
    BY <1>2 DEF PullerLeaves
  <2>2. puller \notin Items /\ puller' \notin Items /\ lost \subseteq Items
    BY <2>1, SubmitterAssumption DEF TypeOK
  <2>3. \A a \in Working : item[a] \in Items
    BY DEF TypeOK, Working
  <2>4. TypeOK' /\ FailuresBelongToLiveItems'
    BY <2>1 DEF TypeOK, FailuresBelongToLiveItems, queueVars, attemptVars
  <2>5. OneAttemptPerItem'
    BY <2>1, <2>2, <2>3 DEF OneAttemptPerItem, Working, queueVars, attemptVars
  <2> QED
    BY <2>4, <2>5
<1>3. ASSUME HandOver PROVE SubmitterInv'
  <2>1. /\ puller \in Items /\ puller' = "get" /\ puller' \notin Items /\ puller # None
        /\ UNCHANGED <<pending, active, closed, delayed, failures, unlimited, poolClosed>>
    BY <1>3, SubmitterAssumption DEF HandOver, queueVars
  <2>2. /\ \A a \in Working : item[a] \in Items
        /\ lost \subseteq Items
    BY DEF TypeOK, Working
  <2>3. CASE lost' = lost \cup {puller} /\ UNCHANGED <<at, item>>
    <3>1. TypeOK' /\ FailuresBelongToLiveItems'
      BY <2>1, <2>3 DEF TypeOK, FailuresBelongToLiveItems
    <3>2. OneAttemptPerItem'
      BY <2>1, <2>2, <2>3 DEF OneAttemptPerItem, Working
    <3> QED
      BY <3>1, <3>2
  <2>4. CASE Accepted /\ UNCHANGED lost
    <3>1. PICK a \in Attempts : /\ at[a] = "none"
                                /\ at' = [at EXCEPT ![a] = "pool"]
                                /\ item' = [item EXCEPT ![a] = puller]
      BY <2>4 DEF Accepted
    <3>2. /\ item[a] = None /\ item'[a] = puller /\ at'[a] = "pool"
          /\ \A b \in Attempts : b # a => at'[b] = at[b] /\ item'[b] = item[b]
      BY <3>1 DEF TypeOK
    <3>3. TypeOK'
      BY <2>1, <2>4, <3>1 DEF TypeOK
    <3>4. Working' = Working \cup {a} /\ a \notin Working
      BY <3>1, <3>2 DEF Working
    <3>5. {item'[b] : b \in Working'} = {item[b] : b \in Working} \cup {puller}
      BY <3>2, <3>4 DEF Working
    <3>6. OneAttemptPerItem'
      <4>1. active' = (Items \cap {puller'}) \cup {item'[b] : b \in Working'} \cup lost'
        BY <2>1, <2>4, <3>5 DEF OneAttemptPerItem
      <4>2. \A b, c \in Working' : item'[b] = item'[c] => b = c
        BY <3>2, <3>4 DEF OneAttemptPerItem, Working
      <4>3. \A b \in Working' : item'[b] \notin lost' \cup {puller'}
        BY <2>1, <2>2, <2>4, <3>2, <3>4 DEF OneAttemptPerItem, Working
      <4>4. puller' \notin lost'
        BY <2>1, <2>2, <2>4
      <4> QED
        BY <4>1, <4>2, <4>3, <4>4 DEF OneAttemptPerItem
    <3>7. FailuresBelongToLiveItems'
      BY <2>1, <2>4, <3>2, SubmitterAssumption DEF FailuresBelongToLiveItems, TypeOK
    <3> QED
      BY <3>3, <3>6, <3>7
  <2> QED
    BY <1>3, <2>3, <2>4 DEF HandOver
<1> QED
  BY <1>1, <1>2, <1>3 DEF Pulling

\* The consumer, and the callback after it.
LEMMA WorkerStep ==
  ASSUME SubmitterInv, NEW a \in Attempts, Worker(a)
  PROVE  SubmitterInv'
<1> USE DEF SubmitterInv
<1> DEFINE x == item[a]
<1>1. /\ x \in Items /\ at[a] # "none" /\ x # None
      /\ UNCHANGED <<unlimited, puller, poolClosed, pending, closed>>
  BY SubmitterAssumption DEF Worker, Accept, Done, Check, Retry, Reset, TypeOK, queueVars,
     Queue!Finish, Delay
<1>2. \A b \in Attempts : b # a => at'[b] = at[b] /\ item'[b] = item[b]
  BY DEF Worker, Accept, Done, Check, Retry, Reset, TypeOK, Goto, Finished
<1>3. \A b \in Working : item[b] \in Items
  BY DEF TypeOK, Working
<1> HIDE DEF x
<1>4. ASSUME at[a] = "pool", at'[a] \in {"ok", "failed"},
             UNCHANGED <<queueVars, failures, item, lost>>,
             at' = [at EXCEPT ![a] = at'[a]]
      PROVE  SubmitterInv'
  <2>1. Working' = Working
    BY <1>2, <1>4 DEF Working
  <2>2. TypeOK'
    BY <1>1, <1>4 DEF TypeOK, queueVars, x
  <2>3. OneAttemptPerItem' /\ FailuresBelongToLiveItems'
    BY <1>1, <1>4, <2>1 DEF OneAttemptPerItem, FailuresBelongToLiveItems, queueVars
  <2> QED
    BY <2>2, <2>3
<1>5. ASSUME at[a] = "pool", Finished(a), lost' = lost \cup {x},
             UNCHANGED <<queueVars, failures>>
      PROVE  SubmitterInv'
  <2>1. at' = [at EXCEPT ![a] = "none"] /\ item' = [item EXCEPT ![a] = None]
    BY <1>5 DEF Finished, Goto
  <2>2. TypeOK'
    BY <1>1, <1>5, <2>1 DEF TypeOK, queueVars
  <2>3. at'[a] = "none" /\ a \in Working /\ Working' = Working \ {a}
    BY <1>2, <1>5, <2>1 DEF Working, TypeOK
  <2>4. OneAttemptPerItem'
    <3>1. {item[b] : b \in Working} = {item'[b] : b \in Working'} \cup {x}
      BY <1>2, <2>3 DEF Working, x
    <3>2. \A b \in Working' : item'[b] = item[b] /\ b \in Working /\ item[b] # x
      BY <1>2, <2>3 DEF OneAttemptPerItem, Working, x
    <3>3. x # puller
      BY <2>3 DEF OneAttemptPerItem, x
    <3> QED
      BY <1>1, <1>5, <3>1, <3>2, <3>3 DEF OneAttemptPerItem, queueVars
  <2>5. FailuresBelongToLiveItems'
    <3>1. x \in active
      BY <2>3 DEF OneAttemptPerItem, x
    <3>2. \A b \in Attempts : item[b] = x \/ item[b] = item'[b]
      BY <1>2 DEF x
    <3> QED
      BY <1>1, <1>5, <3>1, <3>2 DEF FailuresBelongToLiveItems, queueVars
  <2> QED
    BY <2>2, <2>4, <2>5
<1>6. CASE Accept(a)
  BY <1>4, <1>5, <1>6 DEF Accept, Goto, TypeOK, x
<1>7. CASE Done(a)
  <2>1. /\ at[a] \in {"ok", "failed"} /\ a \in Working
        /\ active' = active \ {x} /\ at'[a] \in {"reset", "check"}
        /\ at' \in [Attempts -> {"none", "pool", "ok", "failed", "check", "retry", "reset"}]
        /\ UNCHANGED <<delayed, failures, item, lost>>
    BY <1>7 DEF Done, Goto, Queue!Finish, Working, TypeOK, x
  <2>2. TypeOK'
    BY <1>1, <1>2, <2>1 DEF TypeOK, x
  <2>3. Working' = Working \ {a}
    BY <1>2, <2>1 DEF Working
  <2>4. OneAttemptPerItem'
    <3>1. {item[b] : b \in Working} = {item[b] : b \in Working'} \cup {x}
      BY <2>1, <2>3 DEF x
    <3>2. \A b \in Working' : b \in Working /\ item[b] # x
      BY <2>1, <2>3 DEF OneAttemptPerItem, x
    <3>3. x # puller /\ x \notin lost
      BY <2>1 DEF OneAttemptPerItem, x
    <3> QED
      BY <1>1, <2>1, <2>3, <3>1, <3>2, <3>3 DEF OneAttemptPerItem
  <2>5. FailuresBelongToLiveItems'
    BY <1>1, <2>1 DEF FailuresBelongToLiveItems, x
  <2> QED
    BY <2>2, <2>4, <2>5
<1>8. CASE Check(a)
  <2>1. /\ at[a] = "check" /\ at'[a] \in {"retry", "reset"}
        /\ at' \in [Attempts -> {"none", "pool", "ok", "failed", "check", "retry", "reset"}]
        /\ UNCHANGED <<pending, active, closed, delayed, failures, item, lost>>
    BY <1>8 DEF Check, Goto, TypeOK, queueVars
  <2>2. TypeOK'
    BY <1>1, <1>2, <2>1 DEF TypeOK, x
  <2>3. Working' = Working
    BY <1>2, <2>1 DEF Working
  <2>4. OneAttemptPerItem' /\ FailuresBelongToLiveItems'
    BY <1>1, <2>1, <2>3 DEF OneAttemptPerItem, FailuresBelongToLiveItems
  <2> QED
    BY <2>2, <2>4
<1>9. ASSUME at[a] \in {"retry", "reset"}, Finished(a), UNCHANGED <<active, lost>>,
             failures' = [failures EXCEPT ![x] = failures'[x]], failures'[x] \in Nat,
             delayed' \subseteq Items, delayed \subseteq delayed',
             failures'[x] = 0 \/ closed \/ x \in delayed'
      PROVE  SubmitterInv'
  <2>1. at' = [at EXCEPT ![a] = "none"] /\ item' = [item EXCEPT ![a] = None]
    BY <1>9 DEF Finished, Goto
  <2>2. TypeOK'
    BY <1>1, <1>9, <2>1 DEF TypeOK
  <2>3. Working' = Working /\ a \notin Working
    BY <1>2, <1>9, <2>1 DEF Working, TypeOK
  <2>4. {item'[b] : b \in Working'} = {item[b] : b \in Working}
    BY <1>2, <2>3 DEF Working
  <2>5. OneAttemptPerItem'
    BY <1>1, <1>2, <1>9, <2>3, <2>4 DEF OneAttemptPerItem, Working
  <2>6. FailuresBelongToLiveItems'
    <3> SUFFICES ASSUME ~closed', NEW y \in Items, failures'[y] # 0
                 PROVE  y \in delayed' \cup pending' \cup active' \cup {item'[b] : b \in Attempts}
      BY DEF FailuresBelongToLiveItems
    <3>1. CASE y = x
      BY <1>1, <1>9, <3>1
    <3>2. CASE y # x
      <4>1. failures'[y] = failures[y]
        BY <1>9, <3>2 DEF TypeOK
      <4>2. y \in delayed \cup pending \cup active \cup {item[b] : b \in Attempts}
        BY <1>1, <4>1 DEF FailuresBelongToLiveItems
      <4>3. \A b \in Attempts : item[b] = y => item'[b] = y
        BY <1>2, <3>2 DEF x
      <4> QED
        BY <1>1, <1>9, <4>2, <4>3
    <3> QED
      BY <3>1, <3>2
  <2> QED
    BY <2>2, <2>5, <2>6
<1>10. CASE Retry(a)
  <2>1. /\ failures' = [failures EXCEPT ![x] = failures[x] + 1]
        /\ delayed' = (IF closed THEN delayed ELSE delayed \cup {x})
        /\ at[a] = "retry" /\ Finished(a) /\ UNCHANGED <<active, lost>>
    BY <1>10 DEF Retry, Delay, x
  <2>2. failures'[x] = failures[x] + 1 /\ failures[x] + 1 \in Nat
    BY <1>1, <2>1 DEF TypeOK
  <2>3. delayed' \subseteq Items /\ delayed \subseteq delayed' /\ (closed \/ x \in delayed')
    BY <1>1, <2>1 DEF TypeOK
  <2> QED
    BY <1>9, <2>1, <2>2, <2>3
<1>11. CASE Reset(a)
  <2>1. /\ failures' = [failures EXCEPT ![x] = 0] /\ delayed' = delayed
        /\ at[a] = "reset" /\ Finished(a) /\ UNCHANGED <<active, lost>>
    BY <1>11 DEF Reset, queueVars, x
  <2>2. failures'[x] = 0 /\ failures'[x] \in Nat
    BY <1>1, <2>1 DEF TypeOK
  <2>3. delayed' \subseteq Items /\ delayed \subseteq delayed'
    BY <2>1 DEF TypeOK
  <2>4. failures' = [failures EXCEPT ![x] = failures'[x]]
    BY <2>1, <2>2
  <2> QED
    BY <1>9, <2>1, <2>2, <2>3, <2>4
<1> QED
  BY <1>6, <1>7, <1>8, <1>10, <1>11 DEF Worker

\* Every step of the submitter keeps the invariant.
LEMMA SubmitterInvariant == Spec => []SubmitterInv
<1>1. Init => SubmitterInv
  <2> SUFFICES ASSUME Init PROVE SubmitterInv
    OBVIOUS
  <2>1. TypeOK
    BY DEF Init, Configured, Queue!Init, TypeOK
  <2>2. Working = {} /\ puller \notin Items /\ active = {} /\ lost = {}
    BY SubmitterAssumption DEF Init, Configured, Queue!Init, Working
  <2>3. OneAttemptPerItem
    BY <2>2 DEF OneAttemptPerItem
  <2>4. FailuresBelongToLiveItems
    BY DEF Init, Configured, FailuresBelongToLiveItems
  <2> QED
    BY <2>1, <2>3, <2>4 DEF SubmitterInv
<1>2. SubmitterInv /\ [Next]_vars => SubmitterInv'
  <2> SUFFICES ASSUME SubmitterInv, [Next]_vars PROVE SubmitterInv'
    OBVIOUS
  <2>1. ASSUME NEW x \in Items, Submit(x) \/ SubmitAfter(x) \/ Timer(x) PROVE SubmitterInv'
    <3>1. /\ UNCHANGED <<active, closed, failures, unlimited, puller, poolClosed, attemptVars>>
          /\ pending' \in {pending, pending \cup {x}}
          /\ delayed \subseteq delayed' \cup pending' \/ closed
          /\ delayed' \subseteq delayed \cup {x}
      BY <2>1 DEF Submit, SubmitAfter, Timer, Add, Delay, Queue!Request
    <3> QED
      BY <3>1, RequestStep DEF SubmitterInv, TypeOK
  <2>2. CASE ShutDown
    BY <2>2, RequestStep DEF ShutDown, Queue!Close, SubmitterInv, TypeOK
  <2>3. CASE ClosePool
    BY <2>3 DEF ClosePool, SubmitterInv, TypeOK, OneAttemptPerItem, Working,
       FailuresBelongToLiveItems, queueVars, attemptVars
  <2>4. CASE UNCHANGED vars
    BY <2>4 DEF vars, SubmitterInv, TypeOK, OneAttemptPerItem, Working,
       FailuresBelongToLiveItems, queueVars, attemptVars
  <2> QED
    BY <2>1, <2>2, <2>3, <2>4, PullingStep, WorkerStep DEF Next
<1> QED
  BY <1>1, <1>2, PTL DEF Spec

-----------------------------------------------------------------------------
(* How often an item is requeued.                                          *)

RequeueBound == IF MaxNumRequeues = 0 THEN 0 ELSE MaxNumRequeues - 1 + Cardinality(Attempts)

\* The callbacks about to requeue an item are finitely many, whatever step
\* is taken.
LEMMA RetryingFinite ==
  ASSUME NEW x
  PROVE  /\ IsFiniteSet(Retrying(x)) /\ Cardinality(Retrying(x)) \in Nat
         /\ Cardinality(Retrying(x)) <= Cardinality(Attempts)
         /\ Cardinality(Attempts) \in Nat
         /\ IsFiniteSet(Retrying(x)') /\ Cardinality(Retrying(x)') \in Nat
         /\ Cardinality(Retrying(x)') <= Cardinality(Attempts)
<1>1. Retrying(x) \in SUBSET Attempts /\ Retrying(x)' \in SUBSET Attempts
  BY DEF Retrying
<1> QED
  BY <1>1, SubmitterAssumption, FS_Subset, FS_CardinalityType

\* A step that counts no failure and lets no callback pass the test.
LEMMA NoRequeueStep ==
  ASSUME RequeuesAreBounded, TypeOK, unlimited' = unlimited,
         \A x \in Items : failures'[x] \in {failures[x], 0} /\ Retrying(x)' = Retrying(x)
  PROVE  RequeuesAreBounded'
<1> SUFFICES ASSUME ~unlimited', NEW x \in Items
             PROVE  failures'[x] + Cardinality(Retrying(x)') <= RequeueBound
  BY DEF RequeuesAreBounded, RequeueBound
<1>1. failures[x] + Cardinality(Retrying(x)) <= RequeueBound /\ failures[x] \in Nat
  BY DEF RequeuesAreBounded, RequeueBound, TypeOK
<1>2. RequeueBound \in Nat /\ Cardinality(Retrying(x)) \in Nat
  BY RetryingFinite, SubmitterAssumption DEF RequeueBound
<1> HIDE DEF RequeueBound
<1> QED
  BY <1>1, <1>2

\* Each step of the submitter keeps the bound.
LEMMA RequeueStep ==
  ASSUME RequeuesAreBounded, TypeOK, [Next]_vars
  PROVE  RequeuesAreBounded'
<1>1. unlimited' = unlimited
  BY DEF Next, Submit, SubmitAfter, Timer, ShutDown, ClosePool, Pulling, Pull, PullerLeaves,
         HandOver, Worker, Accept, Done, Check, Retry, Reset, vars
<1>2. CASE \/ \E x \in Items : Submit(x) \/ SubmitAfter(x) \/ Timer(x)
           \/ ShutDown \/ ClosePool \/ Pulling \/ UNCHANGED vars
  <2>1. /\ UNCHANGED failures
        /\ \/ UNCHANGED <<at, item>>
           \/ \E a \in Attempts : /\ at[a] = "none" /\ at' = [at EXCEPT ![a] = "pool"]
                                 /\ item' = [item EXCEPT ![a] = puller]
    BY <1>2 DEF Submit, SubmitAfter, Timer, ShutDown, ClosePool, Pulling, Pull, PullerLeaves,
                HandOver, Accepted, vars, attemptVars
  <2>2. \A x \in Items : Retrying(x)' = Retrying(x)
    BY <2>1 DEF Retrying, TypeOK
  <2> QED
    BY <1>1, <2>1, <2>2, NoRequeueStep
<1>3. ASSUME NEW a \in Attempts, Accept(a) \/ Done(a) \/ Reset(a) PROVE RequeuesAreBounded'
  <2>1. /\ at[a] \in {"pool", "ok", "failed", "reset"} /\ at'[a] # "retry"
        /\ \A b \in Attempts \ {a} : at'[b] = at[b] /\ item'[b] = item[b]
    BY <1>3 DEF Accept, Done, Reset, Finished, Goto, TypeOK
  <2>2. \A x \in Items : Retrying(x)' = Retrying(x)
    BY <2>1 DEF Retrying
  <2>3. \A x \in Items : failures'[x] \in {failures[x], 0}
    BY <1>3 DEF Accept, Done, Reset, TypeOK
  <2> QED
    BY <1>1, <2>2, <2>3, NoRequeueStep
<1>4. ASSUME NEW a \in Attempts, Check(a) PROVE RequeuesAreBounded'
  <2>1. /\ at[a] = "check" /\ UNCHANGED <<item, failures>>
        /\ at' = [at EXCEPT ![a] = IF MayRetry(item[a]) THEN "retry" ELSE "reset"]
    BY <1>4 DEF Check, Goto
  <2> SUFFICES ASSUME ~unlimited', NEW x \in Items
               PROVE  failures'[x] + Cardinality(Retrying(x)') <= RequeueBound
    BY DEF RequeuesAreBounded, RequeueBound
  <2>2. failures[x] + Cardinality(Retrying(x)) <= RequeueBound /\ failures[x] \in Nat
    BY <1>1 DEF RequeuesAreBounded, RequeueBound, TypeOK
  <2>3. CASE x = item[a] /\ MayRetry(x)
    <3>1. failures[x] < MaxNumRequeues
      BY <1>1, <2>3 DEF MayRetry, NumRequeues
    <3> QED
      BY <2>1, <2>2, <3>1, RetryingFinite, SubmitterAssumption DEF RequeueBound
  <2>4. CASE ~(x = item[a] /\ MayRetry(x))
    <3>1. Retrying(x)' = Retrying(x)
      BY <2>1, <2>4 DEF Retrying, TypeOK
    <3> QED
      BY <2>1, <2>2, <3>1
  <2> QED
    BY <2>3, <2>4
<1>5. ASSUME NEW a \in Attempts, Retry(a) PROVE RequeuesAreBounded'
  <2>1. /\ at[a] = "retry" /\ item[a] \in Items
        /\ at' = [at EXCEPT ![a] = "none"] /\ item' = [item EXCEPT ![a] = None]
        /\ failures' = [failures EXCEPT ![item[a]] = failures[item[a]] + 1]
    BY <1>5 DEF Retry, Finished, Goto, TypeOK
  <2> SUFFICES ASSUME ~unlimited', NEW x \in Items
               PROVE  failures'[x] + Cardinality(Retrying(x)') <= RequeueBound
    BY DEF RequeuesAreBounded, RequeueBound
  <2>2. failures[x] + Cardinality(Retrying(x)) <= RequeueBound /\ failures[x] \in Nat
    BY <1>1 DEF RequeuesAreBounded, RequeueBound, TypeOK
  <2>3. Cardinality(Retrying(x)) \in Nat /\ Cardinality(Retrying(x)') \in Nat
    BY RetryingFinite
  <2>4. CASE x = item[a]
    <3>1. Retrying(x)' = Retrying(x) \ {a} /\ a \in Retrying(x)
      BY <2>1, <2>4 DEF Retrying, TypeOK
    <3>2. Cardinality(Retrying(x)') = Cardinality(Retrying(x)) - 1
      BY <3>1, RetryingFinite, FS_RemoveElement
    <3>3. failures'[x] = failures[x] + 1
      BY <2>1, <2>4 DEF TypeOK
    <3> HIDE DEF RequeueBound
    <3> QED
      BY <2>2, <2>3, <3>2, <3>3
  <2>5. CASE x # item[a]
    <3>1. Retrying(x)' = Retrying(x) /\ failures'[x] = failures[x]
      BY <2>1, <2>5 DEF Retrying, TypeOK
    <3> QED
      BY <2>2, <3>1
  <2> QED
    BY <2>4, <2>5
<1> QED
  BY <1>2, <1>3, <1>4, <1>5 DEF Next, Worker

-----------------------------------------------------------------------------
(* The delays.  Facts about Pow2 need an induction: the numbers for which  *)
(* one fails would have a least element.                                   *)

\* A set of numbers that is not empty has a least element.
LEMMA LeastNumber ==
  ASSUME NEW S, S \subseteq Nat, S # {}
  PROVE  \E n \in S : \A m \in S : n <= m
<1> DEFINE R == {p \in Nat \X Nat : p[1] < p[2]}
<1>1. IsWellFoundedOn(R, Nat)
  BY NatLessThanWellFounded DEF OpToRel
<1> HIDE DEF R
<1>2. PICK n \in S : \A m \in S : <<m, n>> \notin R
  BY <1>1, WFMin
<1>3. \A m \in S : ~(m < n)
  BY <1>2 DEF R
<1> QED
  BY <1>3

\* Induction, for the numbers of a set.
LEMMA Induction ==
  ASSUME NEW S, 0 \in S, \A n \in Nat : n \in S => n + 1 \in S
  PROVE  Nat \subseteq S
<1> SUFFICES ASSUME Nat \ S # {} PROVE FALSE
  OBVIOUS
<1>1. PICK n \in Nat \ S : \A m \in Nat \ S : n <= m
  BY LeastNumber
<1>2. n # 0 /\ n - 1 \in Nat /\ n - 1 \in S
  BY <1>1
<1>3. (n - 1) + 1 \in S
  BY <1>2
<1> QED
  BY <1>1, <1>3

\* g is the function Pow2 as far as n.
Powers(n, g) ==
  /\ g \in [0..n -> Nat]
  /\ \A i \in 0..n : g[i] = IF i = 0 THEN 1 ELSE 2 * g[i - 1]

\* Each number has such a function: one entry is added at a time.
LEMMA PowersExist == \A n \in Nat : \E g : Powers(n, g)
<1> DEFINE S == {n \in Nat : \E g : Powers(n, g)}
<1>1. 0 \in S
  <2> DEFINE g == [i \in 0..0 |-> 1]
  <2>1. Powers(0, g)
    BY DEF Powers
  <2> QED
    BY <2>1
<1>2. ASSUME NEW n \in Nat, n \in S PROVE n + 1 \in S
  <2>1. PICK g : Powers(n, g)
    BY <1>2
  <2> DEFINE h == [i \in 0..(n + 1) |-> IF i = n + 1 THEN 2 * g[n] ELSE g[i]]
  <2>2. g \in [0..n -> Nat] /\ \A i \in 0..n : g[i] = IF i = 0 THEN 1 ELSE 2 * g[i - 1]
    BY <2>1 DEF Powers
  <2>3. h \in [0..(n + 1) -> Nat]
    BY <2>2
  <2>4. ASSUME NEW i \in 0..(n + 1) PROVE h[i] = IF i = 0 THEN 1 ELSE 2 * h[i - 1]
    <3>1. CASE i = n + 1
      BY <3>1
    <3>2. CASE i \in 0..n
      BY <2>2, <3>2
    <3> QED
      BY <3>1, <3>2
  <2>5. Powers(n + 1, h)
    BY <2>3, <2>4 DEF Powers
  <2> QED
    BY <2>5
<1>3. Nat \subseteq S
  <2> HIDE DEF S
  <2> QED
    BY <1>1, <1>2, Induction
<1> QED
  BY <1>3

\* Two such functions agree as far as both go.
LEMMA PowersUnique ==
  ASSUME NEW m \in Nat, NEW n \in Nat, NEW g, NEW h,
         Powers(m, g), Powers(n, h), m <= n
  PROVE  \A i \in 0..m : g[i] = h[i]
<1> DEFINE S == {i \in Nat : i <= m => g[i] = h[i]}
<1>1. 0 \in S
  BY DEF Powers
<1>2. ASSUME NEW i \in Nat, i \in S PROVE i + 1 \in S
  <2> SUFFICES ASSUME i + 1 <= m PROVE g[i + 1] = h[i + 1]
    OBVIOUS
  <2>1. i \in 0..m /\ i + 1 \in 0..m /\ i + 1 \in 0..n /\ i + 1 # 0 /\ (i + 1) - 1 = i
    OBVIOUS
  <2>2. g[i + 1] = 2 * g[i] /\ h[i + 1] = 2 * h[i]
    BY <2>1 DEF Powers
  <2> QED
    BY <1>2, <2>2
<1>3. Nat \subseteq S
  <2> HIDE DEF S
  <2> QED
    BY <1>1, <1>2, Induction
<1> QED
  BY <1>3

\* The recursive definition of Pow2 has a solution, which Pow2 is.
LEMMA Pow2Def ==
  /\ Pow2[0] = 1
  /\ \A n \in Nat : Pow2[n + 1] = 2 * Pow2[n]
<1> DEFINE Upto(n) == CHOOSE g : Powers(n, g)
           F == [n \in Nat |-> Upto(n)[n]]
           Step(f) == [n \in Nat |-> IF n = 0 THEN 1 ELSE 2 * f[n - 1]]
<1>1. \A n \in Nat : Powers(n, Upto(n))
  BY PowersExist
<1> HIDE DEF Upto
<1>2. ASSUME NEW n \in Nat PROVE F[n] = IF n = 0 THEN 1 ELSE 2 * F[n - 1]
  <2>1. CASE n = 0
    BY <1>1, <2>1 DEF Powers
  <2>2. CASE n # 0
    <3>1. n - 1 \in Nat /\ n - 1 <= n /\ n - 1 \in 0..(n - 1) /\ n \in 0..n
      BY <2>2
    <3>2. Upto(n - 1)[n - 1] = Upto(n)[n - 1]
      BY <1>1, <3>1, PowersUnique
    <3>3. Upto(n)[n] = 2 * Upto(n)[n - 1]
      BY <1>1, <2>2, <3>1 DEF Powers
    <3> QED
      BY <2>2, <3>1, <3>2, <3>3
  <2> QED
    BY <2>1, <2>2
<1>3. F = Step(F)
  BY <1>2
<1>4. Pow2 = CHOOSE f : f = Step(f)
  BY DEF Pow2
<1>5. Pow2 = Step(Pow2)
  <2> HIDE DEF F, Step
  <2> QED
    BY <1>3, <1>4
<1> QED
  BY <1>5

\* A power of two is a positive number.
LEMMA Pow2Positive == \A n \in Nat : Pow2[n] \in Nat /\ Pow2[n] >= 1
<1> DEFINE S == {n \in Nat : Pow2[n] \in Nat /\ Pow2[n] >= 1}
<1>1. 0 \in S
  BY Pow2Def
<1>2. ASSUME NEW n \in Nat, n \in S PROVE n + 1 \in S
  BY <1>2, Pow2Def
<1>3. Nat \subseteq S
  <2> HIDE DEF S
  <2> QED
    BY <1>1, <1>2, Induction
<1> QED
  BY <1>3

\* math.Pow and the conversion leave the smaller of the exact product and the
\* maximum, for every number of failures.
LEMMA WhenIsSmaller ==
  ASSUME NEW n \in Nat
  PROVE  /\ BaseDelay * Pow2[n] \in Nat /\ BaseDelay <= BaseDelay * Pow2[n]
         /\ When(n) = Cap(BaseDelay * Pow2[n])
<1>1. BaseDelay \in Nat /\ 1 <= BaseDelay /\ MaxDelay \in Nat /\ MaxInt \in Nat
      /\ BaseDelay <= MaxDelay /\ MaxDelay <= MaxInt
  BY RateAssumption
<1>2. PICK k \in Nat : Pow2[n] = k + 1
  <2>1. Pow2[n] - 1 \in Nat /\ Pow2[n] = (Pow2[n] - 1) + 1
    BY Pow2Positive
  <2> QED
    BY <2>1
<1>3. BaseDelay * Pow2[n] = BaseDelay * k + BaseDelay /\ BaseDelay * k \in Nat
  BY <1>1, <1>2
<1>4. BaseDelay * Pow2[n] \in Nat /\ BaseDelay <= BaseDelay * Pow2[n]
  BY <1>1, <1>3
<1> QED
  BY <1>1, <1>4 DEF When, Cap, Duration

\* A failure doubles the delay, until the maximum.
LEMMA WhenDoubles ==
  ASSUME NEW n \in Nat
  PROVE  /\ When(n) \in BaseDelay..MaxDelay
         /\ n = 0 => When(n) = BaseDelay
         /\ n > 0 => When(n) \in {2 * When(n - 1), MaxDelay}
<1> DEFINE B(m) == BaseDelay * Pow2[m]
<1>1. BaseDelay \in Nat /\ MaxDelay \in Nat /\ BaseDelay <= MaxDelay
  BY RateAssumption
<1>2. \A m \in Nat : B(m) \in Nat /\ BaseDelay <= B(m) /\ When(m) = Cap(B(m))
  BY WhenIsSmaller
<1>3. B(0) = BaseDelay
  BY <1>1, Pow2Def
<1>4. ASSUME NEW m \in Nat PROVE B(m + 1) = 2 * B(m)
  <2>1. Pow2[m] \in Nat /\ Pow2[m + 1] = 2 * Pow2[m]
    BY Pow2Def, Pow2Positive
  <2> QED
    BY <1>1, <2>1
<1> HIDE DEF B
<1>5. When(n) \in BaseDelay..MaxDelay
  BY <1>1, <1>2 DEF Cap
<1>6. n = 0 => When(n) = BaseDelay
  BY <1>1, <1>2, <1>3 DEF Cap
<1>7. ASSUME n > 0 PROVE When(n) \in {2 * When(n - 1), MaxDelay}
  <2>1. n - 1 \in Nat /\ (n - 1) + 1 = n
    BY <1>7
  <2>2. B(n) = 2 * B(n - 1) /\ B(n - 1) \in Nat
    BY <1>2, <1>4, <2>1
  <2> QED
    BY <1>1, <1>2, <2>1, <2>2 DEF Cap
<1> QED
  BY <1>5, <1>6, <1>7

-----------------------------------------------------------------------------

\* Every step of the submitter and of its callbacks keeps the types.
THEOREM SubmitterTypeCorrect == Spec => []TypeOK
<1>1. SubmitterInv => TypeOK
  BY DEF SubmitterInv
<1> QED
  BY <1>1, SubmitterInvariant, PTL

\* Although Done comes before the end of a callback, an item has one attempt
\* at a time, and its health reports come in the order of its attempts.
THEOREM AttemptsAreExclusive == Spec => []OneAttemptPerItem
<1>1. SubmitterInv => OneAttemptPerItem
  BY DEF SubmitterInv
<1> QED
  BY <1>1, SubmitterInvariant, PTL

\* No failure is counted for an item that nothing will bring back, however
\* the callbacks of several attempts of the item interleave.
THEOREM FailuresAreReset == Spec => []FailuresBelongToLiveItems
<1>1. SubmitterInv => FailuresBelongToLiveItems
  BY DEF SubmitterInv
<1> QED
  BY <1>1, SubmitterInvariant, PTL

\* Whatever number of failures an item reaches, unlimited retries included,
\* AddRateLimited delays it by twice the last delay or by the maximum.
THEOREM DelaysAreCapped == Spec => []BackoffIsCapped
<1>1. TypeOK => BackoffIsCapped
  BY WhenDoubles DEF TypeOK, BackoffIsCapped
<1> QED
  BY <1>1, SubmitterTypeCorrect, PTL

\* Because Done comes before the test, callbacks of one item may pass it
\* together; the requeues exceed the maximum by less than their number.
THEOREM RequeuesBounded == Spec => []RequeuesAreBounded
<1>1. Init => RequeuesAreBounded
  <2> SUFFICES ASSUME Init, NEW x \in Items
               PROVE  failures[x] + Cardinality(Retrying(x)) <= RequeueBound
    BY DEF RequeuesAreBounded, RequeueBound
  <2>1. failures[x] = 0 /\ Retrying(x) = {}
    BY DEF Init, Retrying
  <2>2. Cardinality(Retrying(x)) = 0
    BY <2>1, FS_EmptySet
  <2>3. RequeueBound \in Nat
    BY RetryingFinite, SubmitterAssumption DEF RequeueBound
  <2> QED
    BY <2>1, <2>2, <2>3
<1> QED
  BY <1>1, RequeueStep, SubmitterTypeCorrect, PTL DEF Spec
=============================================================================
