SPECIFICATION Spec
INVARIANTS CleanExit NoUseAfterFree
PROPERTIES CleanupEnds
CHECK_DEADLOCK FALSE
