SPECIFICATION Spec
CONSTANTS
  Item = {i1, i2, i3}
  Corrupted = {i3}
  Worker = {w1, w2}
  Run = Run
  BatchLength = 2
  QueueLength = 2
  MaxNums = {0, 2}
  Flushes = {"drain", "discard"}
  BaseMayFail = TRUE
SYMMETRY Symmetric
CHECK_DEADLOCK FALSE
INVARIANTS TypeOK NothingLostOrDoubled BlockedHasWorker BufferHasTimer FlushAlone StoppedIsEmpty
PROPERTIES FlushLeavesNothing KeepsContract
