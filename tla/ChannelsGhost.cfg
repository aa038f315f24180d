SPECIFICATION Spec
CONSTANTS
  Nicks = {n1, n2, n3}
  Channels = {c1}
  Modes = {}
  MultiPrefix = TRUE
  Presence = FALSE
  MaxSnapshots = 3

INVARIANTS NamesLeaveNoGhosts
