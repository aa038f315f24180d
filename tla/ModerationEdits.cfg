CONSTANTS
  p1 = p1
  p2 = p2
  c1 = c1
  Persons = {p1, p2}
  Channels = {c1}
  Nicks <- MCNicks
  Keys <- MCKeys
  Fold <- MCFold
  Files <- MCFiles
  RuleKinds <- MCTwice
  Minute = 2
  MaxRate = 1
  Threshold = 2
  Duration = 2
  ToKick = 2
  ToBan = 3
  QueueSize = 1
  MaxTime = 0
  MaxLines = 1
  MaxRenames = 0
  MaxLoads = 1
  MaxEdits = 3
SPECIFICATION Spec
SYMMETRY Symmetry
INVARIANT RestartChangesNothing
CHECK_DEADLOCK FALSE
