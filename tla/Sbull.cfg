CONSTANTS
  Procs = {p1, p2}
  NoProc = NoProc
  Size = 3
  MaxSeg = 2
  MaxSegs = 2
SPECIFICATION Spec
INVARIANTS TimerIdleInUse Placed
PROPERTIES CompleteWrites OpensReturn RequestsComplete
CHECK_DEADLOCK FALSE
