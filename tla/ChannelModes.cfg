SPECIFICATION Spec
CONSTANTS
  Nicks = {n1, n2, n3}
  Channels = {c1}
  Modes = {op}
  MultiPrefix = TRUE
  Presence = FALSE
  MaxSnapshots = 2
SYMMETRY MCSymmetry
INVARIANTS ModesAreHeld
