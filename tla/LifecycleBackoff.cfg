SPECIFICATION Spec
CONSTANTS
  Delays <- MCDelays
INVARIANTS
  BackoffResetsAfterEstablished
\* run() is over for good after stop().
CHECK_DEADLOCK FALSE
