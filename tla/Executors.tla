------------------------------ MODULE Executors ------------------------------
(***************************************************************************)
(* executor/supplier_executor.go, runnable_executor.go,                    *)
(* keyed_supplier_executor.go and keyed_function_executor.go over the      *)
(* supplier pool: a call submits all its suppliers to the pool, one by     *)
(* one, and only then waits for their futures, one by one.  Slices are     *)
(* visited in order, maps in any order.                                    *)
(*                                                                         *)
(* A supplier is named by its position in the input of its call.           *)
(* GetAll(keys) is the keyed call with one supplier for each distinct key. *)
(***************************************************************************)
EXTENDS WorkerPool

CONSTANTS
  Calls,  \* goroutines that call an executor, once each
  Input   \* per call: the suppliers it is given

ASSUME InputAssumption ==
  /\ Input \in [Calls -> Seq(Tasks)]
  /\ \A c, d \in Calls : \A i \in DOMAIN Input[c], j \in DOMAIN Input[d] :
       Input[c][i] = Input[d][j] => c = d /\ i = j

VARIABLES
  kind,            \* per call: the method that is called
  phase,           \* idle, submit, await, returned
  left,            \* positions the current loop has not visited
  values, errors   \* positions in the order they are collected or returned

callVars == <<kind, phase, left, values, errors>>
execVars == <<vars, callVars>>

Kinds == {"resolveAll", "runnables", "untilError", "keyed"}

\* The suppliers of a call; those of GetAll come from a map of its keys.
Positions(c) == DOMAIN Input[c]

ExecInit ==
  /\ Init
  /\ kind = [c \in Calls |-> "resolveAll"] /\ phase = [c \in Calls |-> "idle"]
  /\ left = [c \in Calls |-> {}]
  /\ values = [c \in Calls |-> <<>>] /\ errors = [c \in Calls |-> <<>>]

-----------------------------------------------------------------------------
(* A definition named Faulty... is the next one with a bug.                *)

\* The futures of a slice are visited as they come.
FaultyTurn(c, i) == i \in left[c]

\* range visits a slice from its first element, a map in random order.
Turn(c, i) == i \in left[c] /\ (kind[c] = "keyed" \/ \A j \in left[c] : i <= j)

Enter(c, newPhase) ==
  /\ phase' = [phase EXCEPT ![c] = newPhase]
  /\ left' = [left EXCEPT ![c] = Positions(c)]

Call(c) ==
  /\ phase[c] = "idle"
  /\ \E k \in Kinds : kind' = [kind EXCEPT ![c] = k]
  /\ Enter(c, "submit")
  /\ UNCHANGED <<vars, values, errors>>

\* getFuture: Submit takes the pool's lock.
SubmitNext(c) ==
  /\ phase[c] = "submit"
  /\ \E i \in Positions(c) :
       /\ Turn(c, i)
       /\ Submit(Input[c][i])
       /\ left' = [left EXCEPT ![c] = @ \ {i}]
  /\ UNCHANGED <<kind, phase, values, errors>>

\* A future is waited for as soon as it exists.
FaultyBeginAwait(c) ==
  /\ phase[c] = "submit" /\ \E i \in Positions(c) : future[Input[c][i]] # "none"
  /\ Enter(c, "await")
  /\ UNCHANGED <<vars, kind, values, errors>>

\* Every supplier has been submitted and has its future.
BeginAwait(c) ==
  /\ phase[c] = "submit"
  /\ left[c] = {} /\ \A i \in Positions(c) : future[Input[c][i]] # "none"
  /\ Enter(c, "await")
  /\ UNCHANGED <<vars, kind, values, errors>>

\* Get waits until the future has its result, whatever the context says.
Resolved(t) == future[t] \in {"value", "error"}

Collect(c, i, newValues, newErrors) ==
  /\ left' = [left EXCEPT ![c] = @ \ {i}]
  /\ values' = [values EXCEPT ![c] = newValues]
  /\ errors' = [errors EXCEPT ![c] = newErrors]
  /\ UNCHANGED phase

\* The supplier that the pool makes of a runnable has no value to keep.
Kept(c, i) == IF kind[c] = "runnables" THEN <<>> ELSE Append(values[c], i)

GetValue(c, i) ==
  /\ future[Input[c][i]] = "value"
  /\ Collect(c, i, Kept(c, i), errors[c])

\* ResolveAll and ExecuteRunnables go on after an error.
GetError(c, i) ==
  /\ future[Input[c][i]] = "error"
  /\ kind[c] \in {"resolveAll", "runnables"}
  /\ Collect(c, i, values[c], Append(errors[c], i))

\* The values collected before the error are returned with it.
FaultyFail(c, i) ==
  /\ future[Input[c][i]] = "error"
  /\ kind[c] \in {"untilError", "keyed"}
  /\ phase' = [phase EXCEPT ![c] = "returned"]
  /\ errors' = [errors EXCEPT ![c] = <<i>>]
  /\ UNCHANGED <<left, values>>

\* ResolveUntilError and the keyed calls return the error and nothing else.
Fail(c, i) ==
  /\ future[Input[c][i]] = "error"
  /\ kind[c] \in {"untilError", "keyed"}
  /\ phase' = [phase EXCEPT ![c] = "returned"]
  /\ values' = [values EXCEPT ![c] = <<>>]
  /\ errors' = [errors EXCEPT ![c] = <<i>>]
  /\ UNCHANGED left

Get(c) ==
  /\ phase[c] = "await"
  /\ \E i \in Positions(c) :
       /\ Turn(c, i) /\ Resolved(Input[c][i])
       /\ GetValue(c, i) \/ GetError(c, i) \/ Fail(c, i)
  /\ UNCHANGED <<vars, kind>>

\* The call returns with the futures that are ready.
FaultyReturn(c) ==
  /\ phase[c] = "await"
  /\ phase' = [phase EXCEPT ![c] = "returned"]
  /\ UNCHANGED <<vars, kind, left, values, errors>>

\* ExecuteRunnable answers with the only error of its list, or with none.
Return(c) ==
  /\ phase[c] = "await" /\ left[c] = {}
  /\ phase' = [phase EXCEPT ![c] = "returned"]
  /\ UNCHANGED <<vars, kind, left, values, errors>>

-----------------------------------------------------------------------------

Pool == (ReadLength \/ Enqueue \/ ShutDown) /\ UNCHANGED callVars
PoolWorker(w) == Worker(w) /\ UNCHANGED callVars

Caller(c) == SubmitNext(c) \/ BeginAwait(c) \/ Get(c) \/ Return(c)

ExecNext ==
  \/ \E c \in Calls : Call(c) \/ Caller(c)
  \/ Pool
  \/ \E w \in Workers : PoolWorker(w)

ExecSpec == ExecInit /\ [][ExecNext]_execVars

\* As in WorkerPool; a call that has begun goes on when it can.
FairExecSpec ==
  /\ ExecSpec
  /\ WF_execVars((ReadLength \/ Enqueue) /\ UNCHANGED callVars)
  /\ \A w \in Workers : WF_execVars(PoolWorker(w))
  /\ \A c \in Calls : WF_execVars(Caller(c))

-----------------------------------------------------------------------------

Entries(s) == {s[n] : n \in DOMAIN s}
Ascending(s) == \A m, n \in DOMAIN s : m < n => s[m] < s[n]

With(c, status) == {i \in Positions(c) : future[Input[c][i]] = status}

Failed(c) == kind[c] \in {"untilError", "keyed"} /\ errors[c] # <<>>

ExecTypeOK ==
  /\ kind \in [Calls -> Kinds]
  /\ phase \in [Calls -> {"idle", "submit", "await", "returned"}]
  /\ left \in [Calls -> SUBSET Nat]
  /\ \A c \in Calls : left[c] \subseteq Positions(c)
  /\ values \in [Calls -> Seq(Nat)] /\ errors \in [Calls -> Seq(Nat)]

\* SupplierExecutor and RunnableExecutor: values and errors come in the
\* order of the input, whatever the order in which the suppliers end, each
\* visited supplier is in the list its future says, and in no other.
ResultsInInputOrder ==
  \A c \in Calls : phase[c] \in {"await", "returned"} =>
    /\ kind[c] # "keyed" => Ascending(values[c]) /\ Ascending(errors[c])
    /\ ~Failed(c) =>
         /\ Entries(values[c]) =
              IF kind[c] = "runnables" THEN {} ELSE With(c, "value") \ left[c]
         /\ Entries(errors[c]) = With(c, "error") \ left[c]

\* ResolveUntilError answers with the error of the first supplier, in input
\* order, that fails, even if a later one failed earlier; a keyed call with
\* the error of some supplier that fails.  No value comes with an error, and
\* the call has submitted every supplier although it does not wait for all.
OneErrorReturned ==
  \A c \in Calls : Failed(c) =>
    /\ \A i \in Positions(c) : future[Input[c][i]] # "none"
    /\ values[c] = <<>>
    /\ \E i \in With(c, "error") :
         /\ errors[c] = <<i>>
         /\ kind[c] = "untilError" => \A j \in Positions(c) : j < i => j \in With(c, "value")

\* The pool ignored the task: nobody will ever compute its future.
Dropped(t) ==
  future[t] = "pending" /\ t \notin Waiting /\ \A w \in Workers : running[w] # t

\* A call returns unless the pool, shut down before or during the call, has
\* ignored one of its suppliers; Get does not look at the context.
CallsReturn ==
  \A c \in Calls : phase[c] = "submit" ~>
    phase[c] = "returned" \/ \E i \in Positions(c) : Dropped(Input[c][i])

-----------------------------------------------------------------------------
\* The executors implement the abstract answers: what a call has collected is
\* nobody's business before it returns.
Outcome  == [t \in Tasks |-> IF Resolved(t) THEN future[t] ELSE "unresolved"]
Asked    == [c \in Calls |-> IF phase[c] = "idle" THEN "none" ELSE kind[c]]
Answered == {c \in Calls : phase[c] = "returned"}
GivenValues == [c \in Calls |-> IF c \in Answered THEN values[c] ELSE <<>>]
GivenErrors == [c \in Calls |-> IF c \in Answered THEN errors[c] ELSE <<>>]
Answers == INSTANCE CallAnswers WITH
  outcome <- Outcome, asked <- Asked, answered <- Answered,
  values <- GivenValues, errors <- GivenErrors
ImplementsCallAnswers == Answers!Spec
=============================================================================
