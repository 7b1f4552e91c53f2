CONSTANTS
  r1 = r1  r2 = r2  w1 = w1  w2 = w2  b0 = b0  b1 = b1
  Byte = {b0, b1}
  Zero = b0
  Uart = TRUE
  Loopback = FALSE
  RxDepth = 1
  FifoSize = 1
  Readers = {r1}
  Writers = {w1}
  Pollers = {}
  Interruptible = {r1, w1}
  NoProc = NoProc
  MaxCount = 2
  MaxBytes = 2
SPECIFICATION FairSpec
INVARIANTS NoStall NoLostWakeup
PROPERTIES ImplementsChannel NoTransmitOverrun Transmitted SleepersWake WritesReturn
CHECK_DEADLOCK FALSE
