------------------------------- MODULE Backoff -------------------------------
(***************************************************************************)
(* The retry delay of core/backoff.py in whole seconds.  The code computes *)
(* with floats; the model keeps the arithmetic that decides the outcome:   *)
(* exponential growth from the first attempt, the cap, the jitter band     *)
(* around the delay, and the cap applied again after the jitter.           *)
(***************************************************************************)
EXTENDS Integers

CONSTANTS
  RetryBase,        \* retry_backoff_base_seconds
  RetryMultiplier,  \* retry_backoff_multiplier
  RetryMax,         \* retry_backoff_max_seconds
  JitterPercent     \* retry_backoff_jitter_ratio, in percent

\* What core/config.py's validators accept.
ASSUME BackoffAssumption ==
  /\ RetryBase \in Nat \ {0}
  /\ RetryMultiplier \in Nat \ {0}
  /\ RetryMax \in Nat /\ RetryMax >= RetryBase
  /\ JitterPercent \in 0..100

\* The delay before jitter, capped.  A float overflow in the code also ends
\* at the cap, which is where the comparison below puts it.
CappedDelay(attempt) ==
  LET delay == RetryBase * RetryMultiplier ^ (attempt - 1)
  IN  IF delay < RetryMax THEN delay ELSE RetryMax

\* Every delay retry_delay_seconds(attempt) may return.  There is none for
\* attempt < 1, where the code raises ValueError.
RetryDelays(attempt) ==
  IF attempt < 1 THEN {}
  ELSE {d \in 0..RetryMax :
          /\ 100 * d >= CappedDelay(attempt) * (100 - JitterPercent)
          /\ 100 * d <= CappedDelay(attempt) * (100 + JitterPercent)}
==============================================================================
