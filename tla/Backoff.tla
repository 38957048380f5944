------------------------------ MODULE Backoff -------------------------------
(* The delay before a retry: batch.rs (retry_delay_for_attempt_core) and the
   client crate (next_backoff).  0 stands for no delay: None, or a delay whose
   jitter took all of it. *)
EXTENDS Naturals

CONSTANTS
  ExponentCap,  \* largest exponent of the doubling, 31 in batch.rs
  DelayCap      \* u64::MAX, the largest delay in milliseconds

ASSUME BackoffAssumption == ExponentCap \in Nat /\ DelayCap \in Nat \ {0}

Lesser(a, b) == IF a < b THEN a ELSE b
Capped(delay, max) == IF max = 0 THEN delay ELSE Lesser(delay, max)

(* 1 << exponent *)
Factor[exponent \in Nat] == IF exponent = 0 THEN 1 ELSE 2 * Factor[exponent - 1]

(* The base, doubled for each attempt after the first, up to max when there is one. *)
Exponential(base, max, attempt) == Capped(base * Factor[Lesser(attempt - 1, ExponentCap)], max)

JitterSpan(delay, pct) == (delay * pct) \div 100

(* Mutant: jitter only adds. *)
retry_delay_upward(base, max, pct, attempt, entropy) ==
  LET delay == Exponential(base, max, attempt) IN
  Lesser(delay + (entropy % (2 * JitterSpan(delay, pct) + 1)), DelayCap)
(* Jitter moves the capped delay by up to pct percent either way. *)
retry_delay_for_attempt_core(base, max, pct, attempt, entropy) ==
  LET delay == Exponential(base, max, attempt)
      span == JitterSpan(delay, pct)
      shifted == delay + (entropy % (2 * span + 1)) IN
  Lesser(IF shifted > span THEN shifted - span ELSE 0, DelayCap)

(* The client crate doubles without jitter. *)
next_backoff(current, max) == Lesser(Lesser(2 * current, DelayCap), max)
-----------------------------------------------------------------------------
(* Delays stay in their band (retry_delay_for_attempt_core): a delay is off the
   doubled and capped base by no more than the jitter's percentage; without
   jitter it never exceeds the maximum; and with jitter of up to a third no
   delay is shorter than the one before it, whatever the clock gives, as long
   as the maximum is not reached. *)
DelaysStayInBand(base, max, pct, attempt, entropy, next_entropy) ==
  LET plain == base * Factor[attempt - 1]
      due == IF max > 0 /\ max < plain THEN max ELSE plain
      delay == retry_delay_for_attempt_core(base, max, pct, attempt, entropy)
      next == retry_delay_for_attempt_core(base, max, pct, attempt + 1, next_entropy) IN
  attempt <= ExponentCap =>
    /\ delay <= DelayCap
    /\ 100 * delay <= due * (100 + pct)
    /\ 100 * delay + due * pct >= 100 * Lesser(due, DelayCap)
    /\ pct = 0 /\ max > 0 => delay <= max
    /\ pct <= 33 /\ (max = 0 \/ 2 * plain <= max) => next >= delay
=============================================================================
