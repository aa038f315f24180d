SPECIFICATION Spec
CONSTANTS
  None = None
  a = a
  b = b
  Instances = {a, b}
  plugins <- MCPlugins
  modules <- MCModules
  MaxRuns = 1
CHECK_DEADLOCK FALSE
INVARIANTS NoCallAfterUnload PairedAtExit
PROPERTIES ShutdownEnds
