SPECIFICATION Spec
CONSTANTS
  Item = {a, b, c}
  Node = {n1, n2, n3}
  Length = 2
  None = None
SYMMETRY Symmetric
INVARIANTS TypeOK EntryIsBacked AcknowledgedIsDelivered UniqueUnlessCleared BoundedOverflow
