SPECIFICATION Spec
CONSTANTS
  Delays <- MCDelays
INVARIANTS
  TypeOK
  NothingOutlivesConnection
PROPERTIES
  AttemptsEnd
  StopEndsRunUnlessMissed
\* run() is over for good after stop().
CHECK_DEADLOCK FALSE
