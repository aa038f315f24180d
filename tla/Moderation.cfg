CONSTANTS
  p1 = p1
  p2 = p2
  c1 = c1
  Persons = {p1, p2}
  Channels = {c1}
  Nicks <- MCNicks
  Keys <- MCKeys
  Fold <- MCFold
  Files <- MCFiles
  RuleKinds <- MCRuleKinds
  Minute = 2
  MaxRate = 1
  Threshold = 2
  Duration = 2
  ToKick = 2
  ToBan = 3
  QueueSize = 1
  MaxTime = 2
  MaxLines = 3
  MaxRenames = 2
  MaxLoads = 1
  MaxEdits = 1
SPECIFICATION Spec
SYMMETRY Symmetry
INVARIANTS RestartChangesNothing BanFollowsPerson EscalationReachesBan
CHECK_DEADLOCK FALSE
