CONSTANTS
  r1 = r1  r2 = r2  w1 = w1  w2 = w2  b0 = b0  b1 = b1
  Byte = {b0}
  Zero = b0
  FifoSize = 2
  Readers = {r1}
  Writers = {w1}
  Pollers = {p1}
  Interruptible = {w1}
  NoProc = NoProc
  Cpus = {c1}
  MaxCount = 1
  MaxBytes = 3
SPECIFICATION FairSpec
INVARIANT SoleUserServed
PROPERTIES ImplementsChannel Transmitted SleepersWake WritesReturn
CHECK_DEADLOCK FALSE
