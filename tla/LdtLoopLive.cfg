CONSTANTS
  r1 = r1  r2 = r2  w1 = w1  w2 = w2  b0 = b0  b1 = b1
  Byte = {b0}
  Zero = b0
  Uart = TRUE
  Loopback = TRUE
  RxDepth = 1
  FifoSize = 1
  Readers = {r1}
  Writers = {w1}
  Pollers = {}
  Interruptible = {w1}
  NoProc = NoProc
  MaxCount = 2
  MaxBytes = 3
SPECIFICATION FairSpec
PROPERTIES Transmitted Drained
CHECK_DEADLOCK FALSE
