CONSTANTS
  r1 = r1
  r2 = r2
  a = a
  b = b
  c = c
  g = g
  h = h
  None = None
  Run = {r1, r2}
  Name = {a, b, c}
  Group = {g, h}
  InProgress = {h}
  MaxAttempt = 2
  Handlers = 1
  Requests = 2
  Workflow <- MCWorkflow
SPECIFICATION Spec
SYMMETRY Symmetry
CONSTRAINTS OneGroup OneForked OneTrouble OneRequest NoneSkips
CHECK_DEADLOCK FALSE
INVARIANTS
  TypeOK
  AttemptDone
  StatusAgrees
  OneAttemptAlive
  GroupExclusive
  NeedsFirst
  NoLostWakeup
PROPERTY KeepsRunContract
