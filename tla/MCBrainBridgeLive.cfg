\* Liveness: the in-process bridge with three saves and one repeatable call.
SPECIFICATION FairSpec
CONSTANTS
  Saves = {s1, s2, s3}
  Events = {}
  Calls = {c1}
  Http = FALSE
  Drains = {d1}
  None = None
  Cap = 2
  Attempts = 3
  Threshold = 3
  ResetTicks = 2
PROPERTIES BreakerRecovers DrainCompletes RestampsUseUpCalls
