CONSTANTS
  Lines = {l1, l2, l3}
  None = None
  Stopper = Stopper
  QueueSize = 1
  Burst = 1
  Cost = 2
  Horizon = 1
  MaxConns = 2
SPECIFICATION Spec
CHECK_DEADLOCK FALSE
INVARIANTS
  TypeOK
  ResultsTellTheWire
  PacedWithinBudget
PROPERTIES
  ImplementsTokenBucket
  SendSettlesUnlessAbandoned
