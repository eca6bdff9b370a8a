---------------------------- MODULE BrainBreaker ----------------------------
(***************************************************************************)
(* The circuit breaker both BrainBridge transports share, as operators on  *)
(* its state.  Python keeps two fields, _failures and _open_at (None, or   *)
(* the monotonic time of the last failure at or above the threshold).      *)
(* _open_at becomes open (is it set?) and age (how many ticks ago, capped  *)
(* at ResetTicks, which stands for the 30 s reset window).                 *)
(***************************************************************************)
EXTENDS Naturals

CONSTANTS Threshold,   \* _CB_FAILURE_THRESHOLD
          ResetTicks   \* _CB_RESET_SECONDS, in clock ticks

ASSUME BreakerAssumption ==
  /\ Threshold \in Nat \ {0}
  /\ ResetTicks \in Nat \ {0}

Breakers == [failures : Nat, open : BOOLEAN, age : 0 .. ResetTicks]

Closed == [failures |-> 0, open |-> FALSE, age |-> 0]

\* What the property circuit_open returns ...
Blocking(b) == b.open /\ b.age < ResetTicks

\* Mutant: the elapsed window is noticed but the failures are not forgotten.
CheckedKeepsFailures(b) ==
  IF b.open /\ ~Blocking(b) THEN [b EXCEPT !.open = FALSE, !.age = 0] ELSE b

\* ... and what reading it does to the breaker: a reset window that has
\* elapsed is noticed by the next reader, who closes the breaker.
Checked(b) == IF b.open /\ ~Blocking(b) THEN Closed ELSE b

\* _record_success: a success on an open breaker leaves it open.
Success(b) == [b EXCEPT !.failures = 0]

\* _record_failure: at the threshold the window starts, or starts again.
Failure(b) ==
  IF b.failures + 1 >= Threshold
  THEN [failures |-> b.failures + 1, open |-> TRUE, age |-> 0]
  ELSE [b EXCEPT !.failures = @ + 1]

\* The clock: only the time since _open_at matters.
Older(b) == [b EXCEPT !.age = @ + 1]

\* A breaker that is not open is below its threshold.
Sane(b) == ~b.open => b.failures < Threshold
=============================================================================
