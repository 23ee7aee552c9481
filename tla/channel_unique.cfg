SPECIFICATION Spec
CONSTANTS
  Item = {a, b}
  Pusher = {p1, p2}
  Length = 2
  None = None
INVARIANT AcknowledgedIsStored
