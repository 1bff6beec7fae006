CONSTANTS
  Threads = {t1}
  QueueSize = 4
  LineMax = 4
  Counts = {1, 9}
  Workloads <- MCWorkloads
  MaxReads = 5
  None = None
SPECIFICATION Spec
INVARIANT TtyConsistent
INVARIANT LinesAsTyped
PROPERTY ReadReturns
CHECK_DEADLOCK FALSE
