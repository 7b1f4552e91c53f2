CONSTANTS
  Devs = {sn0, sn1}
  PoolSize = 2
  NULL = NULL
SPECIFICATION Spec
SYMMETRY DevSymmetry
INVARIANTS OnePlace QueueRestarts StoppedWhileEmpty Delivered FreedOnce
CHECK_DEADLOCK FALSE
