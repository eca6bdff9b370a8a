\* Two processes that write one slot; nothing fails.
SPECIFICATION Spec
CONSTANTS
  p1 = p1
  p2 = p2
  s1 = s1
  s2 = s2
  Processes = {p1, p2}
  Slots = {s1}
  Uses <- OneSlot
  Label <- OwnLabels
  Stamps = {1, 2}
  Programs = {A, B}
  None = None
  Keep = 2
  Faulty = FALSE
  MaxDocs = 3
INVARIANTS Recoverable
CHECK_DEADLOCK FALSE
