SPECIFICATION Spec
CONSTANTS
  Item = {i1, i2}
  Corrupted = {}
  Worker = {w1, w2}
  Run = Run
  BatchLength = 2
  QueueLength = 2
  MaxNums = {0, 2}
  Flushes = {"drain", "discard"}
  BaseMayFail = FALSE
SYMMETRY Symmetric
CHECK_DEADLOCK FALSE
INVARIANT NoItemLostByFailure
