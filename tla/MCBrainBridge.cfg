\* The code's threshold and retry limit; three saves, one KG event and one
\* repeatable call on a queue of two, with a spare drain identity.
SPECIFICATION Spec
CONSTANTS
  Saves = {s1, s2, s3}
  Events = {e1}
  Calls = {c1}
  Http = TRUE
  Drains = {d1, d2}
  None = None
  Cap = 2
  Attempts = 3
  Threshold = 3
  ResetTicks = 1
INVARIANTS TypeOK BreakerSane SingleDrain AcceptedOnce
PROPERTIES SaveStartsDrain ImplementsOfflineQueue
