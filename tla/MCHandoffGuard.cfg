\* Two processes, each with a slot of its own, any operation of which may fail
\* or be its last.
SPECIFICATION Spec
CONSTANTS
  p1 = p1
  p2 = p2
  s1 = s1
  s2 = s2
  Processes = {p1, p2}
  Slots = {s1, s2}
  Uses <- OwnSlots
  Label <- OwnLabels
  Stamps = {1, 2}
  Programs = {A, B}
  None = None
  Keep = 1
  Faulty = TRUE
  MaxDocs = 4
SYMMETRY Symmetry
INVARIANTS TypeOK CompleteOnce PrunesOldest Recoverable
PROPERTIES ImplementsVault
CHECK_DEADLOCK FALSE
