CONSTANTS
  r1 = r1  r2 = r2  w1 = w1  w2 = w2  b0 = b0  b1 = b1
  Byte = {b0, b1}
  Zero = b0
  FifoSize = 1
  Readers = {r1, r2}
  Writers = {w1}
  Pollers = {}
  Interruptible = {}
  NoProc = NoProc
  Cpus = {c1}
  MaxCount = 1
  MaxBytes = 2
SPECIFICATION Spec
SYMMETRY UserSymmetry
INVARIANT ReadReturnsData
CHECK_DEADLOCK FALSE
