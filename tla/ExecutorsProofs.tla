---------------------------- MODULE ExecutorsProofs ----------------------------
(***************************************************************************)
(* Theorems about the executors, for any calls over any pool.              *)
(***************************************************************************)
EXTENDS Executors, WorkerPoolProofs

\* A step of the calls is a step of the pool, or none.
LEMMA PoolRefined == ASSUME [ExecNext]_execVars PROVE [Next]_vars
<1>1. ASSUME NEW c \in Calls, SubmitNext(c) PROVE Next
  <2>1. PICK i \in Positions(c) : Submit(Input[c][i])
    BY <1>1 DEF SubmitNext
  <2>2. Input[c][i] \in Tasks
    BY InputAssumption DEF Positions
  <2> QED
    BY <2>1, <2>2 DEF Next
<1>2. ASSUME NEW c \in Calls, Call(c) \/ BeginAwait(c) \/ Get(c) \/ Return(c)
      PROVE  UNCHANGED vars
  BY <1>2 DEF Call, BeginAwait, Get, Return
<1>3. Pool \/ (\E w \in Workers : PoolWorker(w)) => Next
  BY DEF Pool, PoolWorker, Next
<1> QED
  BY <1>1, <1>2, <1>3 DEF ExecNext, Caller, execVars

\* The calls take the pool's steps only, whose invariant therefore holds.
LEMMA PoolBelow == ExecSpec => []PoolInv
<1>1. ExecInit => Init
  BY DEF ExecInit
<1> QED
  BY <1>1, PoolRefined, PoolInvariant, PTL DEF ExecSpec, Spec

\* A future that exists stays, and so does a result.
Later == \A t \in Tasks : /\ future[t] # "none" => future'[t] # "none"
                          /\ Resolved(t) => future'[t] = future[t]

LEMMA FuturesGrow == ASSUME PoolInv, [Next]_vars PROVE Later
<1> USE DEF PoolInv, TypeOK, Later, Resolved
<1>1. CASE Enqueue
  <2>1. submit # NoSubmit
    BY <1>1 DEF Enqueue
  <2>2. submit.task \in Tasks /\ future[submit.task] = "none"
    BY <2>1 DEF RunsOnce
  <2>3. future' = [future EXCEPT ![submit.task] = "pending"]
    BY <1>1 DEF Enqueue
  <2> QED
    BY <2>2, <2>3
<1>2. ASSUME NEW w \in Workers, Compute(w) PROVE Later
  <2>1. running[w] \in Tasks /\ future[running[w]] = "pending"
    BY <1>2 DEF Compute, RunsOnce
  <2>2. PICK r \in {"value", "error"} : future' = [future EXCEPT ![running[w]] = r]
    BY <1>2 DEF Compute
  <2> QED
    BY <2>1, <2>2
<1>3. CASE \/ \E t \in Tasks : Submit(t)
           \/ \E w \in Workers : Take(w) \/ ReportFree(w) \/ Leave(w)
           \/ ReadLength \/ ShutDown \/ UNCHANGED vars
  <2>1. UNCHANGED future
    BY <1>3 DEF Submit, ReadLength, ShutDown, Take, ReportFree, Leave, vars
  <2> QED
    BY <2>1
<1> QED
  BY <1>1, <1>2, <1>3 DEF Next, Worker

-----------------------------------------------------------------------------

\* What a call knows while it waits: all its suppliers have futures, those it
\* has visited have results, in its lists, and unless it visits a map they
\* come before those it has not visited.
CallInv(c) ==
  /\ phase[c] \in {"idle", "submit"} => values[c] = <<>> /\ errors[c] = <<>>
  /\ phase[c] \in {"await", "returned"} =>
       /\ \A i \in Positions(c) : future[Input[c][i]] # "none"
       /\ \A i \in Positions(c) \ left[c] : Resolved(Input[c][i])
       /\ kind[c] # "keyed" =>
            /\ Ascending(values[c]) /\ Ascending(errors[c])
            /\ \A i \in Positions(c) \ left[c] : \A j \in left[c] : i < j
       /\ ~Failed(c) =>
            /\ Entries(values[c]) =
                 IF kind[c] = "runnables" THEN {} ELSE With(c, "value") \ left[c]
            /\ Entries(errors[c]) = With(c, "error") \ left[c]
  /\ phase[c] = "await" => ~Failed(c)
  /\ phase[c] = "returned" /\ ~Failed(c) => left[c] = {}
  /\ Failed(c) =>
       /\ values[c] = <<>>
       /\ \E i \in With(c, "error") :
            /\ errors[c] = <<i>>
            /\ kind[c] = "untilError" => \A j \in Positions(c) : j < i => j \in With(c, "value")

ExecInv == ExecTypeOK /\ \A c \in Calls : CallInv(c)

\* Positions are numbers, and name tasks.
LEMMA PositionsOK ==
  ASSUME NEW c \in Calls
  PROVE  Positions(c) \subseteq Nat /\ \A i \in Positions(c) : Input[c][i] \in Tasks
<1>1. Input[c] \in Seq(Tasks)
  BY InputAssumption
<1>2. DOMAIN Input[c] = 1..Len(Input[c]) /\ Len(Input[c]) \in Nat
  BY <1>1, LenProperties
<1> QED
  BY <1>1, <1>2 DEF Positions

\* What Append does to the entries of a list and to their order.
LEMMA AppendEntries ==
  ASSUME NEW s \in Seq(Nat), NEW k \in Nat
  PROVE  /\ Append(s, k) \in Seq(Nat)
         /\ Entries(Append(s, k)) = Entries(s) \cup {k}
         /\ Ascending(s) /\ (\A e \in Entries(s) : e < k) => Ascending(Append(s, k))
<1> DEFINE t == Append(s, k)
<1>1. /\ t \in Seq(Nat) /\ Len(s) \in Nat
      /\ DOMAIN s = 1..Len(s) /\ DOMAIN t = 1..Len(s) + 1
      /\ t[Len(s) + 1] = k /\ \A i \in 1..Len(s) : t[i] = s[i]
  BY LenProperties
<1> HIDE DEF t
<1>2. Entries(t) = Entries(s) \cup {k}
  BY <1>1 DEF Entries
<1>3. Ascending(s) /\ (\A e \in Entries(s) : e < k) => Ascending(t)
  <2> SUFFICES ASSUME Ascending(s), \A e \in Entries(s) : e < k,
                      NEW m \in DOMAIN t, NEW n \in DOMAIN t, m < n
               PROVE  t[m] < t[n]
    BY DEF Ascending
  <2>1. m \in 1..Len(s) /\ t[m] = s[m]
    BY <1>1
  <2>2. CASE n \in 1..Len(s)
    BY <1>1, <2>1, <2>2 DEF Ascending
  <2>3. CASE n = Len(s) + 1
    <3>1. s[m] \in Entries(s)
      BY <1>1, <2>1 DEF Entries
    <3> QED
      BY <1>1, <2>1, <2>3, <3>1
  <2> QED
    BY <1>1, <2>2, <2>3
<1> QED
  BY <1>1, <1>2, <1>3 DEF t

\* A list of none or one is ascending.
LEMMA ShortLists ==
  /\ Ascending(<<>>) /\ Entries(<<>>) = {}
  /\ \A i : Ascending(<<i>>)
BY DEF Ascending, Entries

\* Another's step keeps what a call knows.
LEMMA OthersKeep ==
  ASSUME Later, NEW c \in Calls, CallInv(c),
         kind'[c] = kind[c], phase'[c] = phase[c], left'[c] = left[c],
         values'[c] = values[c], errors'[c] = errors[c]
  PROVE  CallInv(c)'
<1>1. \A i \in Positions(c) : Input[c][i] \in Tasks
  BY PositionsOK
<1>2. Failed(c)' <=> Failed(c)
  BY DEF Failed
<1>3. ASSUME phase[c] \in {"await", "returned"}
      PROVE  /\ \A i \in Positions(c) : future'[Input[c][i]] # "none"
             /\ \A i \in Positions(c) \ left[c] : Resolved(Input[c][i])'
             /\ With(c, "value")' \ left[c] = With(c, "value") \ left[c]
             /\ With(c, "error")' \ left[c] = With(c, "error") \ left[c]
  <2>1. \A i \in Positions(c) : future[Input[c][i]] # "none"
    BY <1>3 DEF CallInv
  <2>2. \A i \in Positions(c) \ left[c] : Resolved(Input[c][i])
    BY <1>3 DEF CallInv
  <2>3. \A i \in Positions(c) \ left[c] : future'[Input[c][i]] = future[Input[c][i]]
    BY <1>1, <2>2 DEF Later
  <2>4. \A i \in Positions(c) \ left[c] : Resolved(Input[c][i])'
    BY <2>2, <2>3 DEF Resolved
  <2>5. \A i \in Positions(c) : future'[Input[c][i]] # "none"
    BY <1>1, <2>1 DEF Later
  <2>6. With(c, "value")' \ left[c] = With(c, "value") \ left[c]
    BY <2>3 DEF With, Positions
  <2>7. With(c, "error")' \ left[c] = With(c, "error") \ left[c]
    BY <2>3 DEF With, Positions
  <2> QED
    BY <2>4, <2>5, <2>6, <2>7
<1>4. /\ With(c, "value") \subseteq With(c, "value")'
      /\ With(c, "error") \subseteq With(c, "error")'
  BY <1>1 DEF Later, Resolved, With, Positions
<1>5. phase[c] \in {"await", "returned"} =>
       /\ \A i \in Positions(c) : future'[Input[c][i]] # "none"
       /\ \A i \in Positions(c) \ left'[c] : Resolved(Input[c][i])'
       /\ kind'[c] # "keyed" =>
            /\ Ascending(values'[c]) /\ Ascending(errors'[c])
            /\ \A i \in Positions(c) \ left'[c] : \A j \in left'[c] : i < j
       /\ ~Failed(c)' =>
            /\ Entries(values'[c]) =
                 IF kind'[c] = "runnables" THEN {} ELSE With(c, "value")' \ left'[c]
            /\ Entries(errors'[c]) = With(c, "error")' \ left'[c]
  BY <1>2, <1>3 DEF CallInv
<1>6. Failed(c)' =>
       /\ values'[c] = <<>>
       /\ \E i \in With(c, "error")' :
            /\ errors'[c] = <<i>>
            /\ kind'[c] = "untilError" => \A j \in Positions(c) : j < i => j \in With(c, "value")'
  BY <1>2, <1>4 DEF CallInv
<1> HIDE DEF Failed
<1>7. Positions(c)' = Positions(c)
  BY DEF Positions
<1> QED
  BY <1>2, <1>5, <1>6, <1>7 DEF CallInv, Ascending, Entries
-----------------------------------------------------------------------------

\* The call begins, submits, and begins to wait.
LEMMA SubmitPhase ==
  ASSUME ExecTypeOK, NEW c \in Calls, CallInv(c), Later,
         Call(c) \/ SubmitNext(c) \/ BeginAwait(c)
  PROVE  ExecTypeOK' /\ CallInv(c)'
<1>1. Positions(c)' = Positions(c) /\ Positions(c) \subseteq Nat
  BY PositionsOK DEF Positions
<1>2. phase[c] \in {"idle", "submit"} /\ values[c] = <<>> /\ errors[c] = <<>>
      /\ UNCHANGED <<values, errors>>
  BY DEF Call, SubmitNext, BeginAwait, CallInv
<1>3. ~Failed(c)'
  BY <1>2 DEF Failed
<1>4. CASE Call(c) \/ SubmitNext(c)
  <2>1. phase'[c] = "submit"
    BY <1>4 DEF Call, SubmitNext, Enter, ExecTypeOK
  <2>2. ExecTypeOK'
    <3>1. CASE Call(c)
      BY <1>1, <1>2, <3>1 DEF Call, Enter, ExecTypeOK, Kinds, Positions
    <3>2. CASE SubmitNext(c)
      BY <1>1, <1>2, <3>2 DEF SubmitNext, ExecTypeOK, Positions
    <3> QED
      BY <1>4, <3>1, <3>2
  <2> QED
    BY <1>2, <1>3, <2>1, <2>2 DEF CallInv
<1>5. CASE BeginAwait(c)
  <2>1. /\ left'[c] = Positions(c) /\ phase'[c] = "await"
        /\ \A i \in Positions(c) : future[Input[c][i]] # "none"
        /\ UNCHANGED future
    BY <1>5 DEF BeginAwait, Enter, ExecTypeOK, vars
  <2>2. ExecTypeOK'
    BY <1>1, <1>2, <1>5 DEF BeginAwait, Enter, ExecTypeOK, Positions
  <2>3. With(c, "value")' \ left'[c] = {} /\ With(c, "error")' \ left'[c] = {}
    BY <2>1 DEF With, Positions
  <2> QED
    BY <1>1, <1>2, <1>3, <2>1, <2>2, <2>3, ShortLists DEF CallInv
<1> QED
  BY <1>4, <1>5

\* One visit of a future: what the call has visited stays before the rest.
LEMMA VisitStep ==
  ASSUME ExecTypeOK, NEW c \in Calls, CallInv(c), phase[c] = "await",
         NEW i \in Positions(c), Turn(c, i),
         left' = [left EXCEPT ![c] = @ \ {i}], UNCHANGED kind
  PROVE  /\ i \in left[c] /\ left'[c] = left[c] \ {i}
         /\ Positions(c) \ left'[c] = (Positions(c) \ left[c]) \cup {i}
         /\ kind[c] # "keyed" =>
              /\ \A j \in Positions(c) \ left[c] : j < i
              /\ \A j \in Positions(c) \ left'[c] : \A k \in left'[c] : j < k
<1>1. i \in left[c] /\ left'[c] = left[c] \ {i} /\ left[c] \subseteq Positions(c)
  BY DEF Turn, ExecTypeOK
<1>2. Positions(c) \ left'[c] = (Positions(c) \ left[c]) \cup {i}
  BY <1>1
<1>3. ASSUME kind[c] # "keyed"
      PROVE  /\ \A j \in Positions(c) \ left[c] : j < i
             /\ \A j \in Positions(c) \ left'[c] : \A k \in left'[c] : j < k
  <2>1. \A j \in Positions(c) \ left[c] : \A k \in left[c] : j < k
    BY <1>3 DEF CallInv
  <2>2. \A k \in left[c] : i <= k
    BY <1>3 DEF Turn
  <2>3. \A k \in left[c] : k # i => i < k
    BY <1>1, <2>2, PositionsOK
  <2> QED
    BY <1>1, <1>2, <2>1, <2>3
<1> QED
  BY <1>1, <1>2, <1>3

\* What is left to show of a call that goes on waiting.
LEMMA StillWaiting ==
  ASSUME NEW c \in Calls, phase'[c] = "await", ~Failed(c)',
         \A i \in Positions(c) : future'[Input[c][i]] # "none",
         \A i \in Positions(c) \ left'[c] : Resolved(Input[c][i])',
         kind'[c] # "keyed" => \A i \in Positions(c) \ left'[c] : \A j \in left'[c] : i < j,
         kind'[c] # "keyed" => Ascending(values'[c]) /\ Ascending(errors'[c]),
         Entries(values'[c]) = IF kind'[c] = "runnables" THEN {} ELSE With(c, "value")' \ left'[c],
         Entries(errors'[c]) = With(c, "error")' \ left'[c]
  PROVE  CallInv(c)'
<1>1. Positions(c)' = Positions(c)
  BY DEF Positions
<1> HIDE DEF Failed
<1> QED
  BY <1>1 DEF CallInv, Ascending, Entries

\* A value or an error is added to its list.
LEMMA CollectStep ==
  ASSUME ExecTypeOK, NEW c \in Calls, CallInv(c), phase[c] = "await", UNCHANGED <<vars, kind>>,
         NEW i \in Positions(c), Turn(c, i), GetValue(c, i) \/ GetError(c, i)
  PROVE  ExecTypeOK' /\ CallInv(c)'
<1> DEFINE seen == Positions(c) \ left[c]
<1>1. Positions(c)' = Positions(c) /\ i \in Nat
  BY PositionsOK DEF Positions
<1>2. left' = [left EXCEPT ![c] = @ \ {i}] /\ UNCHANGED phase
  BY DEF GetValue, GetError, Collect
<1>3. /\ i \in left[c] /\ left'[c] = left[c] \ {i}
      /\ Positions(c) \ left'[c] = seen \cup {i}
      /\ kind[c] # "keyed" =>
           /\ \A j \in seen : j < i
           /\ \A j \in Positions(c) \ left'[c] : \A k \in left'[c] : j < k
  BY <1>2, VisitStep
<1>4. UNCHANGED future /\ UNCHANGED kind
  BY DEF vars
<1>5. /\ \A j \in Positions(c) : future[Input[c][j]] # "none"
      /\ \A j \in seen : Resolved(Input[c][j])
      /\ kind[c] # "keyed" => Ascending(values[c]) /\ Ascending(errors[c])
      /\ Entries(values[c]) = IF kind[c] = "runnables" THEN {} ELSE With(c, "value") \ left[c]
      /\ Entries(errors[c]) = With(c, "error") \ left[c]
      /\ ~Failed(c)
  BY DEF CallInv
<1>6. /\ With(c, "value")' = With(c, "value") /\ With(c, "error")' = With(c, "error")
      /\ With(c, "value") \ left[c] \subseteq seen /\ With(c, "error") \ left[c] \subseteq seen
  BY <1>4 DEF With, Positions
<1>7. values[c] \in Seq(Nat) /\ errors[c] \in Seq(Nat)
  BY DEF ExecTypeOK
<1>8. Resolved(Input[c][i]) /\ \A j \in Positions(c) : Resolved(Input[c][j])' <=> Resolved(Input[c][j])
  BY <1>4 DEF GetValue, GetError, Resolved
<1>11. /\ phase'[c] = "await"
       /\ \A j \in Positions(c) : future'[Input[c][j]] # "none"
       /\ \A j \in Positions(c) \ left'[c] : Resolved(Input[c][j])'
  BY <1>2, <1>3, <1>4, <1>5, <1>8
<1>12. kind'[c] # "keyed" => \A j \in Positions(c) \ left'[c] : \A k \in left'[c] : j < k
  BY <1>3, <1>4
<1>9. CASE GetValue(c, i)
  <2>1. /\ errors'[c] = errors[c]
        /\ values'[c] = IF kind[c] = "runnables" THEN <<>> ELSE Append(values[c], i)
    BY <1>9 DEF GetValue, Kept, Collect, ExecTypeOK
  <2>2. values'[c] \in Seq(Nat)
    BY <1>1, <1>7, <2>1, AppendEntries, EmptySeq
  <2>3. ExecTypeOK'
    BY <1>1, <1>2, <1>3, <1>4, <1>9, <2>1, <2>2 DEF GetValue, Collect, ExecTypeOK, Positions
  <2>4. i \in With(c, "value") /\ i \notin With(c, "error")
    BY <1>9 DEF GetValue, With
  <2>5. /\ Entries(values'[c]) = IF kind[c] = "runnables" THEN {} ELSE With(c, "value") \ left'[c]
        /\ Entries(errors'[c]) = With(c, "error") \ left'[c]
    <3>1. CASE kind[c] = "runnables"
      BY <1>3, <1>5, <2>1, <2>4, <3>1, ShortLists
    <3>2. CASE kind[c] # "runnables"
      <4>1. Entries(values'[c]) = Entries(values[c]) \cup {i}
        BY <1>1, <1>7, <2>1, <3>2, AppendEntries
      <4>2. With(c, "value") \ left'[c] = (With(c, "value") \ left[c]) \cup {i}
        BY <1>3, <2>4
      <4>3. With(c, "error") \ left'[c] = With(c, "error") \ left[c]
        BY <1>3, <2>4
      <4> QED
        BY <1>5, <2>1, <3>2, <4>1, <4>2, <4>3
    <3> QED
      BY <3>1, <3>2
  <2>6. kind[c] # "keyed" => Ascending(values'[c]) /\ Ascending(errors'[c])
    <3>1. kind[c] # "keyed" /\ kind[c] # "runnables" => \A e \in Entries(values[c]) : e < i
      BY <1>3, <1>5, <1>6
    <3> QED
      BY <1>1, <1>5, <1>7, <2>1, <3>1, AppendEntries, ShortLists
  <2>7. ~Failed(c)'
    BY <1>4, <1>5, <2>1 DEF Failed
  <2> HIDE DEF Failed
  <2>8. CallInv(c)'
    <3>1. /\ Entries(values'[c]) = IF kind'[c] = "runnables" THEN {} ELSE With(c, "value")' \ left'[c]
          /\ Entries(errors'[c]) = With(c, "error")' \ left'[c]
      BY <1>4, <1>6, <2>5
    <3>2. kind'[c] # "keyed" => Ascending(values'[c]) /\ Ascending(errors'[c])
      BY <1>4, <2>6
    <3> QED
      BY <1>11, <1>12, <2>7, <3>1, <3>2, StillWaiting
  <2> QED
    BY <2>3, <2>8
<1>10. CASE GetError(c, i)
  <2>1. /\ values'[c] = values[c] /\ errors'[c] = Append(errors[c], i)
        /\ kind[c] \in {"resolveAll", "runnables"}
    BY <1>10 DEF GetError, Collect, ExecTypeOK
  <2>2. errors'[c] \in Seq(Nat)
    BY <1>1, <1>7, <2>1, AppendEntries
  <2>3. ExecTypeOK'
    BY <1>1, <1>2, <1>3, <1>4, <1>10, <2>1, <2>2 DEF GetError, Collect, ExecTypeOK, Positions
  <2>4. i \in With(c, "error") /\ i \notin With(c, "value")
    BY <1>10 DEF GetError, With
  <2>5. /\ Entries(values'[c]) = IF kind[c] = "runnables" THEN {} ELSE With(c, "value") \ left'[c]
        /\ Entries(errors'[c]) = With(c, "error") \ left'[c]
    <3>1. Entries(errors'[c]) = Entries(errors[c]) \cup {i}
      BY <1>1, <1>7, <2>1, AppendEntries
    <3>2. With(c, "error") \ left'[c] = (With(c, "error") \ left[c]) \cup {i}
      BY <1>3, <2>4
    <3>3. With(c, "value") \ left'[c] = With(c, "value") \ left[c]
      BY <1>3, <2>4
    <3> QED
      BY <1>5, <2>1, <3>1, <3>2, <3>3
  <2>6. Ascending(values'[c]) /\ Ascending(errors'[c])
    <3>1. \A e \in Entries(errors[c]) : e < i
      BY <1>3, <1>5, <1>6, <2>1
    <3> QED
      BY <1>1, <1>5, <1>7, <2>1, <3>1, AppendEntries
  <2>7. ~Failed(c)'
    BY <1>4, <2>1 DEF Failed
  <2> HIDE DEF Failed
  <2>8. CallInv(c)'
    <3>1. /\ Entries(values'[c]) = IF kind'[c] = "runnables" THEN {} ELSE With(c, "value")' \ left'[c]
          /\ Entries(errors'[c]) = With(c, "error")' \ left'[c]
      BY <1>4, <1>6, <2>5
    <3>2. kind'[c] # "keyed" => Ascending(values'[c]) /\ Ascending(errors'[c])
      BY <1>4, <2>6
    <3> QED
      BY <1>11, <1>12, <2>7, <3>1, <3>2, StillWaiting
  <2> QED
    BY <2>3, <2>8
<1> QED
  BY <1>9, <1>10

\* The first error in the order of the visits ends the call.
LEMMA FailStep ==
  ASSUME ExecTypeOK, NEW c \in Calls, CallInv(c), phase[c] = "await", UNCHANGED <<vars, kind>>,
         NEW i \in Positions(c), Turn(c, i), Fail(c, i)
  PROVE  ExecTypeOK' /\ CallInv(c)'
<1>1. Positions(c)' = Positions(c) /\ i \in Nat /\ UNCHANGED <<future, left>> /\ kind' = kind
  BY PositionsOK DEF Positions, Fail, vars
<1>2. /\ phase'[c] = "returned" /\ values'[c] = <<>> /\ errors'[c] = <<i>>
      /\ kind[c] \in {"untilError", "keyed"} /\ i \in With(c, "error")
  BY DEF Fail, ExecTypeOK, With
<1>3. ExecTypeOK'
  <2>1. values' \in [Calls -> Seq(Nat)]
    BY EmptySeq DEF Fail, ExecTypeOK
  <2>2. <<i>> \in Seq(Nat)
    BY <1>1
  <2>3. errors' \in [Calls -> Seq(Nat)]
    BY <2>2 DEF Fail, ExecTypeOK
  <2>4. phase' \in [Calls -> {"idle", "submit", "await", "returned"}]
    BY DEF Fail, ExecTypeOK
  <2>5. kind' \in [Calls -> Kinds] /\ left' \in [Calls -> SUBSET Nat]
        /\ \A d \in Calls : left'[d] \subseteq Positions(d)
    BY <1>1 DEF ExecTypeOK
  <2> QED
    BY <2>1, <2>3, <2>4, <2>5 DEF ExecTypeOK, Positions
<1>4. Failed(c)' /\ ~Failed(c)
  BY <1>1, <1>2 DEF CallInv, Failed
<1>5. /\ With(c, "value")' = With(c, "value") /\ With(c, "error")' = With(c, "error")
  BY <1>1 DEF With, Positions
<1>6. ASSUME kind[c] = "untilError", NEW j \in Positions(c), j < i PROVE j \in With(c, "value")
  <2>1. j \notin left[c]
    BY <1>6, PositionsOK DEF Turn
  <2>2. Resolved(Input[c][j])
    BY <2>1 DEF CallInv
  <2>3. errors[c] = <<>>
    BY <1>4, <1>6 DEF Failed
  <2>4. With(c, "error") \ left[c] = {}
    BY <1>4, <2>3, ShortLists DEF CallInv
  <2> QED
    BY <2>1, <2>2, <2>4 DEF With, Resolved
<1>7. \E k \in With(c, "error")' :
        /\ errors'[c] = <<k>>
        /\ kind'[c] = "untilError" => \A j \in Positions(c) : j < k => j \in With(c, "value")'
  BY <1>1, <1>2, <1>5, <1>6
<1>8. /\ \A j \in Positions(c) : future'[Input[c][j]] # "none"
      /\ \A j \in Positions(c) \ left'[c] : Resolved(Input[c][j])'
      /\ kind'[c] # "keyed" =>
           /\ Ascending(values'[c]) /\ Ascending(errors'[c])
           /\ \A j \in Positions(c) \ left'[c] : \A k \in left'[c] : j < k
  BY <1>1, <1>2, ShortLists DEF CallInv, Resolved
<1> HIDE DEF Failed
<1> QED
  BY <1>1, <1>2, <1>3, <1>4, <1>7, <1>8 DEF CallInv, Ascending

\* The call returns once every future has been visited.
LEMMA ReturnStep ==
  ASSUME ExecTypeOK, NEW c \in Calls, CallInv(c), Return(c)
  PROVE  ExecTypeOK' /\ CallInv(c)'
<1>1. /\ UNCHANGED <<future, kind, left, values, errors>>
      /\ phase[c] = "await" /\ left[c] = {} /\ phase' = [phase EXCEPT ![c] = "returned"]
  BY DEF Return, vars
<1>2. phase'[c] = "returned"
  BY <1>1 DEF ExecTypeOK
<1>3. ExecTypeOK'
  BY <1>1 DEF ExecTypeOK, Positions
<1>4. (Failed(c)' <=> Failed(c)) /\ Positions(c)' = Positions(c) /\ (\A t : Resolved(t)' <=> Resolved(t))
  BY <1>1 DEF Failed, Positions, Resolved
<1>5. /\ With(c, "value")' = With(c, "value") /\ With(c, "error")' = With(c, "error")
  BY <1>1 DEF With, Positions
<1> HIDE DEF Failed
<1> QED
  BY <1>1, <1>2, <1>3, <1>4, <1>5 DEF CallInv, Ascending, Entries

\* A step of a call leaves the others alone.
LEMMA CallStep ==
  ASSUME NEW c \in Calls, Call(c) \/ Caller(c), ExecTypeOK,
         NEW d \in Calls, d # c
  PROVE  /\ kind'[d] = kind[d] /\ phase'[d] = phase[d] /\ left'[d] = left[d]
         /\ values'[d] = values[d] /\ errors'[d] = errors[d]
<1>1. CASE Call(c)
  BY <1>1 DEF Call, Enter, ExecTypeOK
<1>2. CASE SubmitNext(c)
  BY <1>2 DEF SubmitNext, ExecTypeOK
<1>3. CASE BeginAwait(c)
  BY <1>3 DEF BeginAwait, Enter, ExecTypeOK
<1>4. CASE Get(c)
  BY <1>4 DEF Get, GetValue, GetError, Fail, Collect, ExecTypeOK
<1>5. CASE Return(c)
  BY <1>5 DEF Return, ExecTypeOK
<1> QED
  BY <1>1, <1>2, <1>3, <1>4, <1>5 DEF Caller

LEMMA ExecStep == ASSUME PoolInv, ExecInv, [ExecNext]_execVars PROVE ExecInv'
<1> SUFFICES ASSUME ExecTypeOK, \A c \in Calls : CallInv(c) PROVE ExecInv'
  BY DEF ExecInv
<1>1. Later
  BY FuturesGrow, PoolRefined
<1>2. CASE UNCHANGED callVars
  <2>1. ExecTypeOK'
    BY <1>2 DEF callVars, ExecTypeOK, Positions
  <2>2. \A c \in Calls : CallInv(c)'
    BY <1>1, <1>2, OthersKeep DEF callVars
  <2> QED
    BY <2>1, <2>2 DEF ExecInv
<1>3. ASSUME NEW c \in Calls, Call(c) \/ Caller(c) PROVE ExecInv'
  <2>1. \A d \in Calls \ {c} : CallInv(d)'
    BY <1>1, <1>3, CallStep, OthersKeep
  <2>2. ExecTypeOK' /\ CallInv(c)'
    <3>1. CASE Call(c) \/ SubmitNext(c) \/ BeginAwait(c)
      BY <1>1, <3>1, SubmitPhase
    <3>2. CASE Get(c)
      <4>1. phase[c] = "await" /\ UNCHANGED <<vars, kind>>
        BY <3>2 DEF Get
      <4>2. PICK i \in Positions(c) : Turn(c, i) /\ (GetValue(c, i) \/ GetError(c, i) \/ Fail(c, i))
        BY <3>2 DEF Get
      <4>3. CASE Fail(c, i)
        BY <4>1, <4>2, <4>3, FailStep
      <4>4. CASE GetValue(c, i) \/ GetError(c, i)
        BY <4>1, <4>2, <4>4, CollectStep
      <4> QED
        BY <4>2, <4>3, <4>4
    <3>3. CASE Return(c)
      BY <3>3, ReturnStep
    <3> QED
      BY <1>3, <3>1, <3>2, <3>3 DEF Caller
  <2> QED
    BY <2>1, <2>2 DEF ExecInv
<1> QED
  BY <1>2, <1>3 DEF ExecNext, Pool, PoolWorker, execVars

LEMMA ExecInvariant == ExecSpec => []ExecInv
<1>1. ExecInit => ExecInv
  <2> SUFFICES ASSUME ExecInit PROVE ExecInv
    OBVIOUS
  <2>1. ExecTypeOK
    BY EmptySeq DEF ExecInit, ExecTypeOK, Kinds, Positions
  <2>2. ASSUME NEW c \in Calls PROVE CallInv(c)
    BY DEF ExecInit, CallInv, Failed
  <2> QED
    BY <2>1, <2>2 DEF ExecInv
<1> QED
  BY <1>1, ExecStep, PoolBelow, PTL DEF ExecSpec

-----------------------------------------------------------------------------
(* The calls implement the abstract answers.                               *)

\* One step of the pool resolves one task at most.
LEMMA OutcomeStep ==
  ASSUME PoolInv, [Next]_vars
  PROVE  \/ UNCHANGED Outcome
         \/ \E t \in Tasks : /\ Outcome[t] = "unresolved"
                             /\ \E r \in {"value", "error"} : Outcome' = [Outcome EXCEPT ![t] = r]
<1>1. ASSUME NEW w \in Workers, Compute(w)
      PROVE  \E t \in Tasks : /\ Outcome[t] = "unresolved"
                             /\ \E r \in {"value", "error"} : Outcome' = [Outcome EXCEPT ![t] = r]
  <2>1. running[w] \in Tasks /\ future[running[w]] = "pending"
    BY <1>1 DEF Compute, PoolInv, TypeOK, RunsOnce
  <2>2. PICK r \in {"value", "error"} : future' = [future EXCEPT ![running[w]] = r]
    BY <1>1 DEF Compute
  <2>3. future \in [Tasks -> {"none", "pending", "value", "error"}]
    BY DEF PoolInv, TypeOK
  <2>4. Outcome[running[w]] = "unresolved"
    BY <2>1 DEF Outcome, Resolved
  <2>5. Outcome' = [Outcome EXCEPT ![running[w]] = r]
    BY <2>1, <2>2, <2>3 DEF Outcome, Resolved
  <2> QED
    BY <2>1, <2>4, <2>5
<1>2. CASE Enqueue
  <2>1. submit # NoSubmit
    BY <1>2 DEF Enqueue, PoolInv, TypeOK, NoSubmit
  <2>2. submit.task \in Tasks /\ future[submit.task] = "none"
    BY <2>1 DEF PoolInv, TypeOK, RunsOnce
  <2>3. future' = [future EXCEPT ![submit.task] = "pending"]
    BY <1>2 DEF Enqueue
  <2>4. \A t \in Tasks : t # submit.task => future'[t] = future[t]
    BY <2>2, <2>3 DEF PoolInv, TypeOK
  <2>5. future'[submit.task] = "pending"
    BY <2>2, <2>3 DEF PoolInv, TypeOK
  <2> QED
    BY <2>2, <2>4, <2>5 DEF Outcome, Resolved
<1>3. CASE \/ \E t \in Tasks : Submit(t)
           \/ \E w \in Workers : Take(w) \/ ReportFree(w) \/ Leave(w)
           \/ ReadLength \/ ShutDown \/ UNCHANGED vars
  <2>1. UNCHANGED future
    BY <1>3 DEF Submit, ReadLength, ShutDown, Take, ReportFree, Leave, vars
  <2> QED
    BY <2>1 DEF Outcome, Resolved
<1> QED
  BY <1>1, <1>2, <1>3 DEF Next, Worker

\* A call that goes on without returning shows nothing.
LEMMA NothingShown ==
  ASSUME NEW c \in Calls, phase[c] # "idle", phase'[c] \notin {"idle", "returned"},
         phase[c] # "returned", kind'[c] = kind[c],
         \A d \in Calls \ {c} : /\ kind'[d] = kind[d] /\ phase'[d] = phase[d]
                               /\ values'[d] = values[d] /\ errors'[d] = errors[d]
  PROVE  UNCHANGED <<Asked, Answered, GivenValues, GivenErrors>>
<1>1. Answered' = Answered /\ c \notin Answered
  BY DEF Answered
<1>2. Asked' = Asked
  BY DEF Asked
<1>3. GivenValues' = GivenValues /\ GivenErrors' = GivenErrors
  BY <1>1 DEF GivenValues, GivenErrors
<1> QED
  BY <1>1, <1>2, <1>3

\* A call that returns gives its lists.
LEMMA AnswerStep ==
  ASSUME ExecTypeOK', NEW c \in Calls, CallInv(c)', UNCHANGED <<vars, kind>>,
         phase[c] = "await", phase'[c] = "returned",
         \A d \in Calls \ {c} : /\ phase'[d] = phase[d]
                               /\ values'[d] = values[d] /\ errors'[d] = errors[d]
  PROVE  Answers!Answer(c)
<1>1. UNCHANGED <<Outcome, Asked>> /\ c \notin Answered /\ Answered' = Answered \cup {c}
  BY DEF Outcome, Asked, Answered, Resolved, vars
<1>2. Asked[c] # "none" /\ Asked[c] = kind[c] /\ kind'[c] = kind[c] /\ kind[c] \in Kinds
  BY DEF Asked, ExecTypeOK, Kinds
<1>3. /\ GivenValues' = [GivenValues EXCEPT ![c] = values'[c]]
      /\ GivenErrors' = [GivenErrors EXCEPT ![c] = errors'[c]]
      /\ GivenValues'[c] = values'[c] /\ GivenErrors'[c] = errors'[c]
  BY <1>1 DEF GivenValues, GivenErrors
<1>4. /\ Answers!Ending(c, "value") = With(c, "value")' /\ Answers!Ending(c, "error") = With(c, "error")'
      /\ Answers!Ending(c, "unresolved") = {i \in Positions(c) : ~Resolved(Input[c][i])'}
  <2>1. \A i \in Positions(c) : Input[c][i] \in Tasks
    BY PositionsOK
  <2>2. \A i \in Positions(c) :
          Outcome[Input[c][i]] = IF Resolved(Input[c][i]) THEN future[Input[c][i]] ELSE "unresolved"
    BY <2>1 DEF Outcome
  <2>3. UNCHANGED future
    BY DEF vars
  <2> QED
    BY <2>2, <2>3 DEF Answers!Ending, With, Resolved, Positions
<1>5. CASE Failed(c)'
  <2>1. Answers!Stopped(c, values'[c], errors'[c])
    BY <1>2, <1>4, <1>5 DEF CallInv, Failed, Answers!Stopped, Positions
  <2> QED
    BY <1>1, <1>2, <1>3, <2>1 DEF Answers!Answer
<1>6. CASE ~Failed(c)'
  <2> HIDE DEF Failed
  <2>1. left'[c] = {} /\ \A i \in Positions(c) : Resolved(Input[c][i])'
    BY <1>6 DEF CallInv, Positions
  <2>2. Answers!Ending(c, "unresolved") = {}
    BY <1>4, <2>1
  <2>3. /\ Entries(values'[c]) = IF kind[c] = "runnables" THEN {} ELSE With(c, "value")'
        /\ Entries(errors'[c]) = With(c, "error")'
        /\ kind[c] # "keyed" => Ascending(values'[c]) /\ Ascending(errors'[c])
    BY <1>2, <1>6, <2>1 DEF CallInv, Entries, Ascending
  <2>4. /\ Answers!Lists(c, values'[c], IF Asked[c] = "runnables" THEN {} ELSE Answers!Ending(c, "value"))
        /\ Answers!Lists(c, errors'[c], Answers!Ending(c, "error"))
    BY <1>2, <1>4, <2>3 DEF Answers!Lists, Entries, Ascending
  <2>5. Asked[c] \in {"untilError", "keyed"} => errors'[c] = <<>>
    BY <1>2, <1>6 DEF Failed
  <2>6. Answers!Complete(c, values'[c], errors'[c])
    BY <2>2, <2>4, <2>5 DEF Answers!Complete
  <2> QED
    BY <1>1, <1>2, <1>3, <2>6 DEF Answers!Answer
<1> QED
  BY <1>5, <1>6

\* A step of the program is a step of the abstract answers, or none.
LEMMA AnswersStep ==
  ASSUME PoolInv, ExecInv, [ExecNext]_execVars
  PROVE  [Answers!Next]_(Answers!vars)
<1> USE DEF Answers!Next, Answers!vars
<1>1. ExecInv' /\ ExecTypeOK /\ ExecTypeOK' /\ [Next]_vars
  BY ExecStep, PoolRefined DEF ExecInv
<1>2. CASE UNCHANGED callVars
  <2>1. UNCHANGED <<Asked, Answered, GivenValues, GivenErrors>>
    BY <1>2 DEF callVars, Asked, Answered, GivenValues, GivenErrors
  <2> QED
    BY <1>1, <2>1, OutcomeStep DEF Answers!Resolve
<1>3. ASSUME NEW c \in Calls, Call(c) PROVE Answers!Ask(c)
  <2>1. /\ phase[c] = "idle" /\ UNCHANGED <<future, values, errors>>
        /\ phase' = [phase EXCEPT ![c] = "submit"]
        /\ \E k \in Kinds : kind' = [kind EXCEPT ![c] = k]
    BY <1>3 DEF Call, Enter, vars
  <2>2. PICK k \in Kinds : kind' = [kind EXCEPT ![c] = k]
    BY <2>1
  <2>3. Asked[c] = "none" /\ Asked' = [Asked EXCEPT ![c] = k]
    BY <1>1, <2>1, <2>2 DEF Asked, ExecTypeOK
  <2>4. Answered' = Answered
    BY <1>1, <2>1 DEF Answered, ExecTypeOK
  <2>5. UNCHANGED <<Outcome, GivenValues, GivenErrors>>
    BY <2>1, <2>4 DEF Outcome, Resolved, GivenValues, GivenErrors
  <2>6. k \in Answers!Methods
    BY DEF Kinds, Answers!Methods
  <2> QED
    BY <2>3, <2>4, <2>5, <2>6 DEF Answers!Ask
<1>4. ASSUME NEW c \in Calls, Caller(c) PROVE Answers!Answer(c) \/ UNCHANGED Answers!vars
  <2>1. \A d \in Calls \ {c} : /\ kind'[d] = kind[d] /\ phase'[d] = phase[d]
                              /\ values'[d] = values[d] /\ errors'[d] = errors[d]
    BY <1>1, <1>4, CallStep
  <2>2. UNCHANGED future /\ UNCHANGED Outcome /\ UNCHANGED kind
    BY <1>4 DEF Caller, SubmitNext, BeginAwait, Get, Return, Submit, vars, Outcome, Resolved
  <2>3. CASE phase'[c] # "returned"
    <3>1. phase[c] \notin {"idle", "returned"} /\ phase'[c] # "idle"
      BY <1>1, <1>4, <2>3 DEF Caller, SubmitNext, BeginAwait, Enter, Get, GetValue, GetError, Fail,
                              Collect, Return, ExecTypeOK
    <3>2. UNCHANGED <<Asked, Answered, GivenValues, GivenErrors>>
      BY <2>1, <2>2, <2>3, <3>1, NothingShown
    <3> QED
      BY <2>2, <3>2
  <2>4. CASE phase'[c] = "returned"
    <3>1. phase[c] = "await" /\ UNCHANGED <<vars, kind>>
      BY <1>1, <1>4, <2>4 DEF Caller, SubmitNext, BeginAwait, Enter, Get, Return, ExecTypeOK
    <3> QED
      BY <1>1, <2>1, <2>4, <3>1, AnswerStep DEF ExecInv
  <2> QED
    BY <2>3, <2>4
<1> QED
  BY <1>2, <1>3, <1>4 DEF ExecNext, Pool, PoolWorker, execVars

-----------------------------------------------------------------------------

\* SupplierExecutor.ResolveAll and RunnableExecutor.ExecuteRunnables: the
\* lists are in the order of the input and hold what the suppliers gave.
THEOREM ResultsAreInOrder == ExecSpec => []ResultsInInputOrder
<1>1. ExecInv => ResultsInInputOrder
  <2> HIDE DEF Failed
  <2> QED
    BY DEF ExecInv, CallInv, ResultsInInputOrder
<1> QED
  BY <1>1, ExecInvariant, PTL

\* ResolveUntilError, SupplierMapExecutor.ResolveAll and GetAll: the one
\* error returned, alone, is the first in input order if there is an order.
THEOREM TheErrorReturned == ExecSpec => []OneErrorReturned
<1>1. ExecInv => OneErrorReturned
  <2> SUFFICES ASSUME ExecInv, NEW c \in Calls, Failed(c)
               PROVE  /\ \A i \in Positions(c) : future[Input[c][i]] # "none"
                      /\ values[c] = <<>>
                      /\ \E i \in With(c, "error") :
                           /\ errors[c] = <<i>>
                           /\ kind[c] = "untilError" =>
                                \A j \in Positions(c) : j < i => j \in With(c, "value")
    BY DEF OneErrorReturned
  <2>1. CallInv(c) /\ phase[c] \in {"idle", "submit", "await", "returned"}
    BY DEF ExecInv, ExecTypeOK
  <2>2. errors[c] # <<>>
    BY DEF Failed
  <2>3. phase[c] \in {"await", "returned"}
    BY <2>1, <2>2 DEF CallInv
  <2> HIDE DEF Failed
  <2> QED
    BY <2>1, <2>3 DEF CallInv
<1> QED
  BY <1>1, ExecInvariant, PTL

\* The calls implement the abstract answers, step by step: an answer follows
\* from the final outcomes of the suppliers alone and is never changed.
THEOREM ExecutorsImplementAnswers == ExecSpec => ImplementsCallAnswers
<1>1. ExecInit => Answers!Init
  BY DEF ExecInit, Init, Answers!Init, Outcome, Resolved, Asked, Answered, GivenValues, GivenErrors
<1>2. PoolInv /\ ExecInv /\ [ExecNext]_execVars => [Answers!Next]_(Answers!vars)
  BY AnswersStep
<1> QED
  BY <1>1, <1>2, PoolBelow, ExecInvariant, PTL DEF ExecSpec, ImplementsCallAnswers, Answers!Spec
=============================================================================
