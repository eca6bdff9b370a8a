\* The code's thresholds, and timeouts in the proportion 1 : 3 of 10 s : 30 s
\* with a unit short enough for results to arrive at different times.
SPECIFICATION Spec
CONSTANTS
  Callers = {c1, c2, c3, c4}
  FailureThreshold = 3
  SuccessThreshold = 2
  TimeoutTicks = 2
  ResetTicks = 6
INVARIANTS TypeOK BoundedOpening
PROPERTIES NoStragglers ImplementsStates
