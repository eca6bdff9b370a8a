---------------------------- MODULE CircuitBreaker ----------------------------
(***************************************************************************)
(* The Context7 circuit breaker: three states around calls that run        *)
(* outside its lock, each for at most timeout_seconds.  The lock is never  *)
(* held across an await, so a check and a record are one step each.        *)
(*                                                                         *)
(* The two counters are only compared with their thresholds and saturate   *)
(* there; last_failure_time matters only while the state is OPEN.          *)
(***************************************************************************)
EXTENDS Naturals

CONSTANTS
  Callers,            \* concurrent callers
  FailureThreshold,   \* failure_threshold
  SuccessThreshold,   \* success_threshold
  TimeoutTicks,       \* timeout_seconds, in clock ticks
  ResetTicks          \* reset_timeout_seconds

\* The configuration: a call is given up well before the breaker is reset.
ASSUME ConfigAssumption ==
  /\ FailureThreshold \in Nat \ {0}
  /\ SuccessThreshold \in Nat \ {0}
  /\ TimeoutTicks \in Nat
  /\ ResetTicks \in Nat
  /\ TimeoutTicks < ResetTicks

VARIABLES
  state,      \* CLOSED, OPEN or HALF_OPEN
  failures,   \* consecutive_failures
  successes,  \* consecutive_successes
  since,      \* ticks since last_failure_time, while OPEN
  openFor,    \* ticks since the circuit opened (history)
  call        \* per caller: none, or the ticks its call has been running

vars == <<state, failures, successes, since, openFor, call>>
countVars == <<failures, successes>>
clockVars == <<since, openFor>>

Least(a, b) == IF a < b THEN a ELSE b
NotRunning == TimeoutTicks + 1
Running(c) == call[c] # NotRunning
MaxOpen == TimeoutTicks + ResetTicks

Init ==
  /\ state = "closed"
  /\ failures = 0
  /\ successes = 0
  /\ since = 0
  /\ openFor = 0
  /\ call = [c \in Callers |-> NotRunning]

-----------------------------------------------------------------------------
Elapsed == since >= ResetTicks

\* Mutant: the breaker tests recovery as soon as a call could have ended.
BecomesHalfOpenEarly ==
  /\ state = "open"
  /\ since >= TimeoutTicks
  /\ state' = "half_open"
  /\ failures' = 0
  /\ successes' = 0
  /\ since' = 0

\* Mutant: the new era starts with the counts of the old one.
BecomesHalfOpenCounting ==
  /\ state = "open"
  /\ Elapsed
  /\ state' = "half_open"
  /\ since' = 0
  /\ UNCHANGED countVars

\* _check_state_transition, when it does something.
BecomesHalfOpen ==
  /\ state = "open"
  /\ Elapsed
  /\ state' = "half_open"
  /\ failures' = 0
  /\ successes' = 0
  /\ since' = 0

\* The check of a call that gets through.  (A rejected one only counts in the
\* statistics.)
Admit(c) ==
  /\ ~Running(c)
  /\ \/ BecomesHalfOpen
     \/ state # "open" /\ UNCHANGED <<state, countVars, since>>
  /\ call' = [call EXCEPT ![c] = 0]
  /\ UNCHANGED openFor

Finishes(c) ==
  /\ Running(c)
  /\ call' = [call EXCEPT ![c] = NotRunning]

RecordSuccess ==
  LET n == Least(successes + 1, SuccessThreshold) IN
  /\ failures' = 0
  /\ successes' = n
  /\ state' = IF state = "half_open" /\ n >= SuccessThreshold THEN "closed" ELSE state

\* Late ones count too, whatever the state has become meanwhile.
Succeeds(c) ==
  /\ Finishes(c)
  /\ RecordSuccess
  /\ UNCHANGED clockVars

\* Mutant: a failed probe counts like any other failure.
AfterFailureCounting(n) ==
  IF state # "open" /\ n >= FailureThreshold THEN "open" ELSE state

\* The state a failure leads to; n is the new count.
AfterFailure(n) ==
  IF state = "half_open" \/ (state = "closed" /\ n >= FailureThreshold)
  THEN "open" ELSE state

RecordFailure ==
  LET n == Least(failures + 1, FailureThreshold) IN
  /\ failures' = n
  /\ successes' = 0
  /\ state' = AfterFailure(n)
  /\ since' = 0
  /\ openFor' = IF state # "open" THEN 0 ELSE openFor

\* The call raises, or wait_for gives it up.
Fails(c) ==
  /\ Finishes(c)
  /\ RecordFailure

\* The caller is cancelled: nothing is recorded.
Cancelled(c) ==
  /\ Finishes(c)
  /\ UNCHANGED <<state, countVars, clockVars>>

ForceOpen ==
  /\ state' = "open"
  /\ since' = 0
  /\ openFor' = 0
  /\ UNCHANGED <<countVars, call>>

Reset ==
  /\ state' = "closed"
  /\ failures' = 0
  /\ successes' = 0
  /\ since' = 0
  /\ openFor' = 0
  /\ UNCHANGED call

\* Mutant: nothing gives up a call that hangs.
TickUntimed ==
  /\ since' = IF state = "open" THEN Least(since + 1, ResetTicks) ELSE 0
  /\ openFor' = IF state = "open" THEN Least(openFor + 1, MaxOpen) ELSE 0
  /\ call' = [c \in Callers |-> IF Running(c) THEN Least(call[c] + 1, TimeoutTicks)
                                ELSE call[c]]
  /\ UNCHANGED <<state, countVars>>

\* A tick passes; wait_for has ended every call that is due by then.
Tick ==
  /\ \A c \in Callers : Running(c) => call[c] < TimeoutTicks
  /\ since' = IF state = "open" THEN Least(since + 1, ResetTicks) ELSE 0
  /\ openFor' = IF state = "open" THEN Least(openFor + 1, MaxOpen) ELSE 0
  /\ call' = [c \in Callers |-> IF Running(c) THEN call[c] + 1 ELSE call[c]]
  /\ UNCHANGED <<state, countVars>>

Next ==
  \/ \E c \in Callers : Admit(c) \/ Succeeds(c) \/ Fails(c) \/ Cancelled(c)
  \/ ForceOpen
  \/ Reset
  \/ Tick

Spec == Init /\ [][Next]_vars

-----------------------------------------------------------------------------
(* Properties.                                                             *)

\* Every variable has its type, which for the counters depends on the state,
\* however late the results that count: a closed breaker is below its
\* threshold, and one that tests recovery has seen no failure and too few
\* successes since it started to.
TypeOK ==
  /\ state \in {"closed", "open", "half_open"}
  /\ failures \in 0 .. FailureThreshold
  /\ state = "closed" => failures < FailureThreshold
  /\ successes \in 0 .. SuccessThreshold
  /\ state = "half_open" => failures = 0 /\ successes < SuccessThreshold
  /\ since \in 0 .. ResetTicks
  /\ openFor \in 0 .. MaxOpen
  /\ call \in [Callers -> 0 .. NotRunning]

\* No call of an earlier era can be mistaken for a probe: when the breaker
\* starts to test recovery nothing is running any more.
NoStragglers ==
  [][state = "open" /\ state' = "half_open" => \A c \in Callers : ~Running(c)]_vars

\* Calls that fail late restart the reset window, but only while they last:
\* the circuit rejects for at most the two timeouts together.
BoundedOpening ==
  state = "open" /\ openFor >= MaxOpen => Elapsed

\* The breaker takes the transitions its class docstring names and no others,
\* whatever results arrive late: an unbroken streak of failures opens it, and an
\* unbroken streak of probes admitted since it half opened closes it.
States == INSTANCE BreakerStates
  WITH running <- {c \in Callers : Running(c)},
       streak <- CASE state = "closed" -> failures
                   [] state = "half_open" -> successes
                   [] state = "open" -> 0
ImplementsStates == States!Spec
=============================================================================
