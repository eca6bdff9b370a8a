\* Three releases and three deploys by two deployers: a later one collects what
\* an earlier one superseded.
SPECIFICATION Spec
CONSTANTS
  Servers = {s1}
  Releases = {r1, r2, r3}
  Watchers = {timer}
  Timer = timer
  Deployers = {d1, d2}
  Clients = {c1}
  Systemd = FALSE
  MaxPids = 2
  MaxFaults = 1
  Keep = 1
  MaxDeploys = 3
  None = None
INVARIANTS TypeOK InUseKept CurrentWhole RollbackKept StraysSuperseded
PROPERTY ImplementsReleaseStore
SYMMETRY Symmetry
CHECK_DEADLOCK FALSE
