SPECIFICATION Spec
CONSTANTS
  Delays <- MCDelays
PROPERTIES
  StopEndsRun
\* run() is over for good after stop().
CHECK_DEADLOCK FALSE
