\* The HTTP bridge flushing its queue to a reachable brain at process exit.
SPECIFICATION Spec
CONSTANTS
  Saves = {s1, s2}
  Events = {e1}
  Calls = {c1}
  Http = TRUE
  Drains = {d1}
  None = None
  Cap = 2
  Attempts = 3
  Threshold = 3
  ResetTicks = 2
INVARIANTS DrainedMeansDelivered
