CONSTANTS
  r1 = r1  r2 = r2  w1 = w1  w2 = w2  b0 = b0  b1 = b1
  Byte = {b0, b1}
  Zero = b0
  FifoSize = 2
  Readers = {r1, r2}
  Writers = {w1}
  Pollers = {}
  Interruptible = {r1, r2}
  NoProc = NoProc
  Cpus = {c1}
  MaxCount = 2
  MaxBytes = 3
SPECIFICATION Spec
SYMMETRY UserSymmetry
INVARIANTS TypeOK FaithfulLoop NoStall NoLostWakeup NoStaleWaiter
CHECK_DEADLOCK FALSE
