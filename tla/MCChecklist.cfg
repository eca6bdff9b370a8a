\* Two servers of one Claude session and one of another share a project.
SPECIFICATION Spec
CONSTANTS
  p1 = p1
  p2 = p2
  p3 = p3
  A = A
  B = B
  Processes = {p1, p2, p3}
  Projects = {j1}
  Claudes = {A, B}
  Claude <- Served
  None = None
  MaxFaults = 1
  MaxIds = 3
  MaxCalls = 2
SYMMETRY Siblings
CONSTRAINT OneEvaluates
INVARIANTS TypeOK SessionCallsCount EarlyCallsCount SessionsNotAdopted EarlierCallsDoNotCount
CHECK_DEADLOCK FALSE
