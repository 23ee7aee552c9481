SPECIFICATION FairSpec
CONSTANTS
  Item = {a, b}
  Pusher = {p1, p2}
  Length = 2
  None = None
CHECK_DEADLOCK FALSE
PROPERTIES PushReturns
