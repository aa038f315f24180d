CONSTANTS
  Lines = {l1, l2, l3}
  None = None
  Stopper = Stopper
  QueueSize = 1
  Burst = 1
  Cost = 1
  Horizon = 1
  MaxConns = 1
SPECIFICATION Spec
CHECK_DEADLOCK FALSE
INVARIANT
  StopSettlesAll
