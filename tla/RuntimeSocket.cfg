SPECIFICATION Spec
CONSTANTS
  None = None
  a = a
  b = b
  Instances = {a, b}
  plugins <- MCNone
  modules <- MCNone
  MaxRuns = 2
CHECK_DEADLOCK FALSE
PROPERTIES StartRefusesActiveSocket
