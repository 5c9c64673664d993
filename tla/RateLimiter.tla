------------------------------ MODULE RateLimiter ------------------------------
(***************************************************************************)
(* internal/queue/rate_limiter.go: how long the retries of ItemSubmitter   *)
(* wait.  The failures counted for an item are the exponent; WithUnlimited-*)
(* Retries lets them grow until the delay has no place in an int64.        *)
(***************************************************************************)
EXTENDS ItemSubmitter, Integers

CONSTANTS BaseDelay, MaxDelay, \* of the limiter
          MaxInt               \* the greatest value of a Duration

ASSUME RateAssumption ==
  /\ BaseDelay \in Nat \ {0} /\ MaxDelay \in Nat /\ MaxInt \in Nat
  /\ BaseDelay <= MaxDelay /\ MaxDelay <= MaxInt

\* A float64 beyond the range of an int64 converts to the least one on amd64.
Duration(f) == IF f <= MaxInt THEN f ELSE -MaxInt - 1

Cap(d) == IF d > MaxDelay THEN MaxDelay ELSE d

\* math.Pow(2, n).
Pow2[n \in Nat] == IF n = 0 THEN 1 ELSE 2 * Pow2[n - 1]

\* The product is converted before it is compared.
FaultyWhen(n) == Cap(Duration(BaseDelay * Pow2[n]))

\* When, called with n failures on record.
When(n) ==
  LET backoff == BaseDelay * Pow2[n]
  IN  IF backoff > MaxInt THEN MaxDelay ELSE Cap(Duration(backoff))

\* "a simple baseDelay*2^<num-failures> limit", capped: whatever number of
\* failures an item can reach, its next delay is twice the one before or the
\* maximum.  A delay that wrapped would be negative: AddAfter would retry at
\* once, and for ever.
BackoffIsCapped ==
  \A x \in Items :
    LET n == failures[x]
    IN  /\ When(n) \in BaseDelay..MaxDelay
        /\ n = 0 => When(n) = BaseDelay
        /\ n > 0 => When(n) \in {2 * When(n - 1), MaxDelay}
=============================================================================
