-------------------------------- MODULE Polling --------------------------------
(***************************************************************************)
(* When to probe the server: the delay of Poll, which looks at the clock,  *)
(* and the delay after a probe that failed, which looks at the number of   *)
(* failures.  All times are in seconds.                                    *)
(***************************************************************************)
EXTENDS Settings

Least(a, b) == IF a < b THEN a ELSE b

\* A slip: the conversion is taken to succeed.
Unchecked(d) == d

\* std::time::Duration is never negative: what was, becomes zero.
Positive(d) == IF d < 0 THEN 0 ELSE d

(***************************************************************************)
(* retry_delay                                                             *)
(***************************************************************************)
MaxRetryDelay == 3600

\* 1 << n, for n in 0..12
Shifted == <<1, 2, 4, 8, 16, 32, 64, 128, 256, 512, 1024, 2048, 4096>>

\* i64::clamp(1, MAX_RETRY_DELAY)
Cap(interval) ==
  IF interval < 1 THEN 1 ELSE Least(interval, MaxRetryDelay)

RetryDelay(retries, interval) ==
  Least(Shifted[Least(Positive(retries - 1), 12) + 1], Cap(interval))

(***************************************************************************)
(* Poll::handle, where `since' is the time the clock says has passed since *)
(* last_polling.                                                           *)
(***************************************************************************)
\* A slip: a last polling in the future is waited for.
PollAtOnceTrustsClock(since, interval) == interval - since < 0

PollAtOnce(since, interval) ==
  LET delay == interval - since IN delay > interval \/ delay < 0

PollDelay(since, interval) == interval - since
================================================================================
