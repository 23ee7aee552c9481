SPECIFICATION Spec
CONSTANTS
  Job = {j1, j2}
  Task = {t1, t2}
  Runner = {r1, r2}
  Cancelling = {r1}
  Stopper = {s1}
  None = None
SYMMETRY Symmetric
CHECK_DEADLOCK FALSE
INVARIANTS TypeOK OneLiveTask StrandedOnlyIfCut WaitingIsOffered
PROPERTIES DoneIsNotRestarted
