CONSTANTS
  Controllers = {1, 2}
  Frames <- MCFrames
  ControllerPages = 5
  DmaLimit = 96
  NumSlots = 2
  TrbCount = 5
  EventCount = 3
  Machines <- MCMachines
  Late = FALSE
SPECIFICATION Spec
INVARIANT RingsConsistent
INVARIANT RightAnswer
INVARIANT OnlyKeyboards
INVARIANT ProbeSafe
PROPERTY TakenInOrder
PROPERTY AllReceived
CHECK_DEADLOCK FALSE
