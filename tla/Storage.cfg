SPECIFICATION Spec
CONSTANTS
  None = None
  p1 = p1
  p2 = p2
  d1 = d1
  d2 = d2
  Processes = {p1, p2}
  DataFiles = {d1}
  Head = 1
  Packs = TRUE
  MaxClock = 2
  MaxWrites = 1
  MaxFaults = 1
SYMMETRY Symmetry
CHECK_DEADLOCK FALSE
INVARIANTS CommittedRowsStay ArchivesStay
PROPERTIES OriginalKept RestoredOldOrNew
