\* The fleet under the timer, a person and one deploy.
SPECIFICATION Spec
CONSTANTS
  Servers = {s1}
  Releases = {r1, r2}
  Watchers = {timer, manual}
  Timer = timer
  Deployers = {d1}
  Clients = {}
  Systemd = TRUE
  MaxPids = 4
  MaxFaults = 2
  Keep = 1
  MaxDeploys = 1
  None = None
PROPERTIES TwoStrikes FleetServed
CHECK_DEADLOCK FALSE
