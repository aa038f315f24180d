SPECIFICATION Spec
CONSTANTS
  Nicks = {n1, n2}
  Channels = {c1}
  Modes = {op}
  MultiPrefix = TRUE
  Presence = TRUE
  MaxSnapshots = 4
SYMMETRY MCSymmetry
INVARIANTS TypeOK MembersAreThere ModesAreHeld
