\* A queued write and a breaker whose window has passed, with nobody saving again.
SPECIFICATION FairSpec
CONSTANTS
  Saves = {s1, s2}
  Events = {e1}
  Calls = {c1}
  Http = TRUE
  Drains = {d1}
  None = None
  Cap = 2
  Attempts = 3
  Threshold = 3
  ResetTicks = 2
PROPERTIES DrainsAfterReset
