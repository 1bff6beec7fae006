CONSTANTS
  Machines <- MCMachines
  EventSize = 4
  Batch = 2
  Processes = {p1, p2}
  None = None
SPECIFICATION Spec
INVARIANT InputConsistent
INVARIANT InOrder
CHECK_DEADLOCK FALSE
