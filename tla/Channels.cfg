SPECIFICATION Spec
CONSTANTS
  Nicks = {n1, n2}
  Channels = {c1, c2}
  Modes = {}
  MultiPrefix = TRUE
  Presence = TRUE
  MaxSnapshots = 4
SYMMETRY MCSymmetry
INVARIANTS IndexesAgree MembersAreThere
PROPERTY OrphansAreDropped
