------------------------- MODULE CircuitBreakerProofs -------------------------
(***************************************************************************)
(* Proofs about CircuitBreaker, for any set of callers, any thresholds and *)
(* any two timeouts of which the first is the shorter.                     *)
(***************************************************************************)
EXTENDS CircuitBreaker, TLAPS

\* What is still running while the circuit is open was admitted before it
\* opened, and the reset window was last restarted while that could run.
OpenClocks ==
  state = "open" =>
    /\ since <= openFor
    /\ openFor <= TimeoutTicks + since
    /\ \A c \in Callers : Running(c) => openFor <= call[c]

IInv == TypeOK /\ OpenClocks

LEMMA InitEstablishes == Init => IInv
BY ConfigAssumption DEF Init, IInv, TypeOK, OpenClocks, NotRunning, MaxOpen

\* The invariant is inductive.
LEMMA NextKeepsIInv == IInv /\ [Next]_vars => IInv'
<1> SUFFICES ASSUME IInv, [Next]_vars PROVE IInv'
  OBVIOUS
<1> USE DEF NotRunning, MaxOpen
<1>1. /\ TimeoutTicks \in Nat /\ ResetTicks \in Nat /\ TimeoutTicks < ResetTicks
      /\ FailureThreshold \in Nat \ {0} /\ SuccessThreshold \in Nat \ {0}
  BY ConfigAssumption
<1>2. /\ state \in {"closed", "open", "half_open"}
      /\ failures \in 0 .. FailureThreshold /\ successes \in 0 .. SuccessThreshold
      /\ since \in 0 .. ResetTicks /\ openFor \in 0 .. MaxOpen
      /\ call \in [Callers -> 0 .. NotRunning]
      /\ \A c \in Callers : call[c] \in Nat /\ call[c] <= TimeoutTicks + 1
  BY <1>1 DEF IInv, TypeOK
<1>3. /\ Least(failures + 1, FailureThreshold) \in 0 .. FailureThreshold
      /\ Least(successes + 1, SuccessThreshold) \in 0 .. SuccessThreshold
      /\ Least(since + 1, ResetTicks) \in 0 .. ResetTicks
      /\ Least(openFor + 1, MaxOpen) \in 0 .. MaxOpen
  BY <1>1, <1>2 DEF Least
<1>4. ASSUME NEW c \in Callers, Admit(c) PROVE IInv'
  <2>1. call' \in [Callers -> 0 .. NotRunning] /\ openFor' = openFor
    BY <1>1, <1>2, <1>4 DEF Admit
  <2>2. state' # "open" /\ state' \in {"closed", "half_open"}
    BY <1>2, <1>4 DEF Admit, BecomesHalfOpen
  <2>3. TypeOK'
    <3>1. CASE BecomesHalfOpen
      BY <1>1, <1>2, <2>1, <3>1 DEF BecomesHalfOpen, TypeOK
    <3>2. CASE state # "open" /\ UNCHANGED <<state, failures, successes, since>>
      BY <1>1, <1>2, <2>1, <3>2 DEF IInv, TypeOK
    <3> QED BY <1>4, <3>1, <3>2 DEF Admit, countVars
  <2> QED BY <2>2, <2>3 DEF IInv, OpenClocks
<1>5. ASSUME NEW c \in Callers, Finishes(c)
      PROVE  /\ call' \in [Callers -> 0 .. NotRunning]
             /\ call[c] <= TimeoutTicks /\ call[c] \in Nat
             /\ \A d \in Callers : Running(d)' => d # c /\ Running(d) /\ call'[d] = call[d]
  BY <1>1, <1>2, <1>5 DEF Finishes, Running
<1>6. ASSUME NEW c \in Callers, Succeeds(c) PROVE IInv'
  <2>1. /\ Finishes(c) /\ RecordSuccess /\ since' = since /\ openFor' = openFor
    BY <1>6 DEF Succeeds, clockVars
  <2>2. TypeOK'
    BY <1>1, <1>2, <1>3, <1>5, <2>1 DEF RecordSuccess, IInv, TypeOK
  <2>3. state' = "open" => state = "open"
    BY <2>1 DEF RecordSuccess
  <2>4. OpenClocks'
    BY <1>5, <2>1, <2>3 DEF IInv, OpenClocks
  <2> QED BY <2>2, <2>4 DEF IInv
<1>7. ASSUME NEW c \in Callers, Fails(c) PROVE IInv'
  <2>1. Finishes(c) /\ RecordFailure
    BY <1>7 DEF Fails
  <2>2. TypeOK'
    <3>1. state' \in {"closed", "open", "half_open"} /\ state' # "half_open"
      BY <1>2, <2>1 DEF RecordFailure, AfterFailure
    <3>2. state' = "closed" => failures' < FailureThreshold
      BY <1>1, <1>2, <1>3, <2>1 DEF RecordFailure, AfterFailure
    <3> QED BY <1>1, <1>2, <1>3, <1>5, <2>1, <3>1, <3>2 DEF RecordFailure, TypeOK
  <2>3. since' = 0 /\ openFor' = IF state # "open" THEN 0 ELSE openFor
    BY <2>1 DEF RecordFailure
  <2>4. CASE state # "open"
    <3>1. openFor' = 0 /\ since' = 0 /\ call' \in [Callers -> 0 .. NotRunning]
      BY <1>5, <2>1, <2>3, <2>4
    <3> QED BY <1>1, <2>2, <3>1 DEF IInv, OpenClocks
  <2>5. CASE state = "open"
    <3>1. openFor <= call[c] /\ \A d \in Callers : Running(d) => openFor <= call[d]
      BY <2>1, <2>5 DEF IInv, OpenClocks, Finishes
    <3>2. since' = 0 /\ openFor' = openFor /\ openFor <= TimeoutTicks
      BY <1>1, <1>2, <1>5, <2>1, <2>3, <2>5, <3>1
    <3> QED BY <1>1, <1>2, <1>5, <2>1, <2>2, <3>1, <3>2 DEF IInv, OpenClocks
  <2> QED BY <2>4, <2>5
<1>8. ASSUME NEW c \in Callers, Cancelled(c) PROVE IInv'
  <2>1. Finishes(c) /\ UNCHANGED <<state, failures, successes, since, openFor>>
    BY <1>8 DEF Cancelled, countVars, clockVars
  <2>2. TypeOK'
    BY <1>5, <2>1 DEF IInv, TypeOK
  <2>3. OpenClocks'
    BY <1>5, <2>1 DEF IInv, OpenClocks
  <2> QED BY <2>2, <2>3 DEF IInv
<1>9. CASE ForceOpen
  <2>1. TypeOK'
    BY <1>1, <1>2, <1>9 DEF ForceOpen, countVars, TypeOK
  <2>2. OpenClocks'
    BY <1>1, <1>2, <1>9 DEF ForceOpen, OpenClocks, Running
  <2> QED BY <2>1, <2>2 DEF IInv
<1>10. CASE Reset
  BY <1>1, <1>2, <1>10 DEF Reset, IInv, TypeOK, OpenClocks
<1>11. CASE Tick
  <2>1. /\ \A c \in Callers : Running(c) => call[c] < TimeoutTicks
        /\ since' = IF state = "open" THEN Least(since + 1, ResetTicks) ELSE 0
        /\ openFor' = IF state = "open" THEN Least(openFor + 1, MaxOpen) ELSE 0
        /\ call' = [c \in Callers |-> IF Running(c) THEN call[c] + 1 ELSE call[c]]
        /\ UNCHANGED <<state, failures, successes>>
    BY <1>11 DEF Tick, countVars
  <2>2. call' \in [Callers -> 0 .. NotRunning]
    BY <1>1, <1>2, <2>1
  <2>3. TypeOK'
    BY <1>1, <1>2, <1>3, <2>1, <2>2 DEF IInv, TypeOK
  <2>4. ASSUME state = "open" PROVE OpenClocks'
    <3>1. /\ since <= openFor /\ openFor <= TimeoutTicks + since
          /\ \A c \in Callers : Running(c) => openFor <= call[c]
      BY <2>4 DEF IInv, OpenClocks
    <3>2. since' = Least(since + 1, ResetTicks) /\ openFor' = Least(openFor + 1, MaxOpen)
      BY <2>1, <2>4
    <3>3. since' <= openFor' /\ openFor' <= TimeoutTicks + since'
      BY <1>1, <1>2, <3>1, <3>2 DEF Least
    <3>4. ASSUME NEW c \in Callers, Running(c)' PROVE openFor' <= call'[c]
      <4>1. Running(c) /\ call'[c] = call[c] + 1
        BY <2>1, <3>4 DEF Running
      <4> QED BY <1>1, <1>2, <3>1, <3>2, <4>1 DEF Least
    <3> QED BY <3>3, <3>4 DEF OpenClocks
  <2>5. state # "open" => OpenClocks'
    BY <2>1 DEF OpenClocks
  <2> QED BY <2>3, <2>4, <2>5 DEF IInv
<1>12. CASE UNCHANGED vars
  BY <1>12 DEF vars, IInv, TypeOK, OpenClocks, Running
<1> QED BY <1>4, <1>6, <1>7, <1>8, <1>9, <1>10, <1>11, <1>12 DEF Next

\* The invariant holds in every state of every behaviour.
THEOREM Invariance == Spec => []IInv
<1> QED BY InitEstablishes, NextKeepsIInv, PTL DEF Spec

\* Type correctness, with the counters in the range their state allows.
THEOREM TypeCorrect == Spec => []TypeOK
<1> QED BY Invariance, PTL DEF IInv

\* Late failures prolong an open circuit by no more than a call can last.
THEOREM OpeningIsBounded == Spec => []BoundedOpening
<1>1. IInv => BoundedOpening
  BY ConfigAssumption DEF IInv, TypeOK, OpenClocks, BoundedOpening, MaxOpen, Elapsed
<1> QED BY <1>1, Invariance, PTL

\* Recovery is tested with nothing left over from before.
THEOREM NoStragglersLeft == Spec => NoStragglers
<1>1. IInv /\ [Next]_vars =>
        [state = "open" /\ state' = "half_open" => \A c \in Callers : ~Running(c)]_vars
  <2> SUFFICES ASSUME IInv, Next, state = "open", state' = "half_open",
                      NEW c \in Callers, Running(c)
               PROVE  FALSE
    BY DEF vars
  <2>1. since >= ResetTicks
    BY DEF Next, Admit, BecomesHalfOpen, Elapsed, Succeeds, RecordSuccess, Fails,
       RecordFailure, AfterFailure, Cancelled, ForceOpen, Reset, Tick, countVars
  <2>2. since <= openFor /\ openFor <= call[c]
    BY DEF IInv, OpenClocks
  <2>3. call[c] \in 0 .. TimeoutTicks
    BY ConfigAssumption DEF IInv, TypeOK, Running, NotRunning
  <2> QED BY <2>1, <2>2, <2>3, ConfigAssumption DEF IInv, TypeOK, MaxOpen
<1> QED BY <1>1, Invariance, PTL DEF Spec, NoStragglers

-----------------------------------------------------------------------------
(* The transitions of BreakerStates.                                       *)

\* What BreakerStates sees of a breaker.
Live == {c \in Callers : Running(c)}
Streak == CASE state = "closed" -> failures
            [] state = "half_open" -> successes
            [] state = "open" -> 0

LEMMA SeenStreak ==
  ASSUME TypeOK
  PROVE  /\ state = "closed" => Streak = failures
         /\ state = "half_open" => Streak = successes
         /\ state = "open" => Streak = 0
BY DEF TypeOK, Streak

\* A call that has ended is the only one that left.
LEMMA Leaving ==
  ASSUME TypeOK, NEW c \in Callers, Finishes(c)
  PROVE  c \in Live /\ Live' = Live \ {c}
BY DEF TypeOK, Finishes, Live, Running

\* Nothing that was admitted before the circuit opened outlasts its window.
LEMMA ElapsedEmpty ==
  ASSUME IInv, state = "open", Elapsed
  PROVE  Live = {}
<1> SUFFICES ASSUME NEW c \in Callers, Running(c) PROVE FALSE
  BY DEF Live
<1>1. since >= ResetTicks /\ since <= openFor /\ openFor <= call[c]
  BY DEF IInv, OpenClocks, Elapsed
<1>2. call[c] \in 0 .. TimeoutTicks
  BY ConfigAssumption DEF IInv, TypeOK, Running, NotRunning
<1> QED BY <1>1, <1>2, ConfigAssumption DEF IInv, TypeOK, MaxOpen

LEMMA AdmitImplements ==
  ASSUME IInv, TypeOK', NEW c \in Callers, Admit(c)
  PROVE  States!Starts(c)
<1>1. c \notin Live /\ Live' = Live \cup {c}
  BY ConfigAssumption DEF IInv, TypeOK, Admit, Live, Running, NotRunning
<1>2. CASE BecomesHalfOpen
  <2>1. state = "open" /\ state' = "half_open" /\ Live = {} /\ successes' = 0
    BY <1>2, ElapsedEmpty DEF BecomesHalfOpen
  <2>2. Streak' = 0
    BY <2>1 DEF Streak
  <2> QED BY <1>1, <2>1, <2>2 DEF States!Starts, States!Moves, Live, Streak
<1>3. CASE state # "open" /\ UNCHANGED <<state, countVars, since>>
  <2>1. state' = state /\ Streak' = Streak
    BY <1>3 DEF Streak, countVars
  <2> QED BY <1>1, <1>3, <2>1 DEF States!Starts, States!Stays, Live, Streak
<1> QED BY <1>2, <1>3 DEF Admit

LEMMA SuccessImplements ==
  ASSUME IInv, TypeOK', NEW c \in Callers, Succeeds(c)
  PROVE  States!Succeeds(c)
<1>1. States!Leaves(c)
  BY Leaving DEF IInv, Succeeds, States!Leaves, Live
<1>2. TypeOK /\ RecordSuccess /\ state \in {"closed", "open", "half_open"}
      /\ SuccessThreshold \in Nat \ {0} /\ successes \in Nat
  BY ConfigAssumption DEF IInv, TypeOK, Succeeds
<1>3. CASE state = "closed"
  <2>1. state' = "closed" /\ Streak' = 0
    BY <1>2, <1>3 DEF RecordSuccess, Streak
  <2> QED BY <1>1, <1>3, <2>1 DEF States!Succeeds, States!Moves, Streak
<1>4. CASE state = "open"
  <2>1. state' = "open" /\ Streak' = 0 /\ Streak = 0
    BY <1>2, <1>4 DEF RecordSuccess, Streak
  <2> QED BY <1>1, <1>4, <2>1 DEF States!Succeeds, States!Stays, Streak
<1>5. CASE state = "half_open"
  <2>1. successes < SuccessThreshold /\ Streak = successes
    BY <1>2, <1>5, SeenStreak DEF TypeOK
  <2>2. Least(successes + 1, SuccessThreshold) = successes + 1
    BY <1>2, <2>1 DEF Least
  <2>3. CASE successes + 1 = SuccessThreshold
    <3>1. state' = "closed" /\ failures' = 0
      BY <1>2, <1>5, <2>2, <2>3 DEF RecordSuccess
    <3>2. Streak' = 0
      BY <3>1 DEF Streak
    <3> QED BY <1>1, <1>5, <2>1, <2>3, <3>1, <3>2
        DEF States!Succeeds, States!Counts, States!Moves, Streak
  <2>4. CASE successes + 1 # SuccessThreshold
    <3>1. state' = "half_open" /\ successes' = successes + 1
      BY <1>2, <1>5, <2>1, <2>2, <2>4 DEF RecordSuccess
    <3>2. Streak' = successes + 1
      BY <3>1 DEF Streak
    <3> QED BY <1>1, <1>5, <2>1, <2>4, <3>1, <3>2
        DEF States!Succeeds, States!Counts, States!Moves, Streak
  <2> QED BY <2>3, <2>4
<1> QED BY <1>2, <1>3, <1>4, <1>5

LEMMA FailureImplements ==
  ASSUME IInv, TypeOK', NEW c \in Callers, Fails(c)
  PROVE  States!Fails(c)
<1>1. States!Leaves(c)
  BY Leaving DEF IInv, Fails, States!Leaves, Live
<1>2. TypeOK /\ RecordFailure /\ state \in {"closed", "open", "half_open"}
      /\ FailureThreshold \in Nat \ {0} /\ failures \in Nat
  BY ConfigAssumption DEF IInv, TypeOK, Fails
<1>3. CASE state # "closed"
  <2>1. state' = "open" /\ Streak' = 0
    BY <1>2, <1>3 DEF RecordFailure, AfterFailure, Streak
  <2> QED BY <1>1, <1>3, <2>1 DEF States!Fails, States!Moves, Streak
<1>4. CASE state = "closed"
  <2>1. failures < FailureThreshold /\ Streak = failures
    BY <1>2, <1>4, SeenStreak DEF TypeOK
  <2>2. Least(failures + 1, FailureThreshold) = failures + 1
    BY <1>2, <2>1 DEF Least
  <2>3. CASE failures + 1 = FailureThreshold
    <3>1. state' = "open"
      BY <1>2, <1>4, <2>2, <2>3 DEF RecordFailure, AfterFailure
    <3>2. Streak' = 0
      BY <3>1 DEF Streak
    <3> QED BY <1>1, <1>4, <2>1, <2>3, <3>1, <3>2
        DEF States!Fails, States!Counts, States!Moves, Streak
  <2>4. CASE failures + 1 # FailureThreshold
    <3>1. state' = "closed" /\ failures' = failures + 1
      BY <1>2, <1>4, <2>1, <2>2, <2>4 DEF RecordFailure, AfterFailure
    <3>2. Streak' = failures + 1
      BY <3>1 DEF Streak
    <3> QED BY <1>1, <1>4, <2>1, <2>4, <3>1, <3>2
        DEF States!Fails, States!Counts, States!Moves, Streak
  <2> QED BY <2>3, <2>4
<1> QED BY <1>3, <1>4

LEMMA StepImplements ==
  ASSUME IInv, TypeOK', [Next]_vars
  PROVE  States!Next \/ UNCHANGED States!vars
<1>1. ASSUME NEW c \in Callers, Cancelled(c) PROVE States!Cancelled(c)
  <2>1. States!Leaves(c)
    BY <1>1, Leaving DEF IInv, Cancelled, States!Leaves, Live
  <2>2. UNCHANGED <<state, failures, successes>>
    BY <1>1 DEF Cancelled, countVars
  <2> QED BY <2>1, <2>2 DEF States!Cancelled, States!Stays
<1>2. CASE ForceOpen
  BY <1>2 DEF ForceOpen, States!Next, States!ForceOpen, States!Moves, Running
<1>3. CASE Reset
  BY <1>3 DEF Reset, States!Next, States!Reset, States!Moves, Running
<1>4. CASE Tick
  <2>1. Live' = Live
    BY <1>4, ConfigAssumption DEF IInv, TypeOK, Tick, Live, Running, NotRunning
  <2>2. UNCHANGED <<state, failures, successes>>
    BY <1>4 DEF Tick, countVars
  <2> QED BY <2>1, <2>2 DEF States!vars, Live
<1>5. CASE UNCHANGED vars
  BY <1>5 DEF vars, States!vars, Running
<1> QED BY <1>1, <1>2, <1>3, <1>4, <1>5, AdmitImplements, SuccessImplements, FailureImplements
    DEF Next, States!Next

\* The breaker moves between its states only as the docstring of the class says,
\* with any number of concurrent callers: it opens on a streak of failures, tests
\* recovery with no call from before, and closes on a streak of probes.
THEOREM BreakerImplementsStates == Spec => ImplementsStates
<1>1. Init => States!Init
  BY DEF Init, States!Init, Running
<1>2. IInv /\ TypeOK' /\ [Next]_vars => [States!Next]_(States!vars)
  BY StepImplements
<1> QED BY <1>1, <1>2, Invariance, TypeCorrect, PTL DEF Spec, States!Spec, ImplementsStates
=============================================================================
