\* One restart of a brain that answers every request; the code's thresholds.
SPECIFICATION Spec
CONSTANTS
  Callers = {c1, c2, c3, c4}
  Attempts = 3
  Faulty = FALSE
  MaxEpoch = 2
  MaxSessions = 6
  Threshold = 3
  ResetTicks = 1
INVARIANTS RestartKeepsBreakerClosed
