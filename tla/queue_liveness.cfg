SPECIFICATION FairSpec
CONSTANTS
  Item = {i1, i2}
  Corrupted = {}
  Worker = {w1, w2}
  Run = Run
  BatchLength = 2
  QueueLength = 2
  MaxNums = {1, 2}
  Flushes = {"drain", "discard"}
  BaseMayFail = FALSE
CHECK_DEADLOCK FALSE
PROPERTIES EveryItemSettled ShutdownFinishesUnlessFlushed FlushLeavesNothing
