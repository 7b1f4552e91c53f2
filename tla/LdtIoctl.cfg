CONSTANTS
  w1 = w1  w2 = w2  r1 = r1  r2 = r2  b0 = b0  b1 = b1
  Writers = {w1, w2}
  Readers = {r1, r2}
  NoProc = NoProc
  Byte = {b0, b1}
  Zero = b0
  BufSize = 2
  Faults = TRUE
SPECIFICATION FairSpec
PROPERTIES ImplementsMailbox CallsReturn
