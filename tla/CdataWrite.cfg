CONSTANTS
  Writers = {w1, w2}
  BufSize = 2
  MaxWrite = 3
  MaxIndex = 3
SPECIFICATION Spec
INVARIANTS InBounds NoLostWakeup NoUseAfterFree
PROPERTIES WritesReturn
CHECK_DEADLOCK FALSE
