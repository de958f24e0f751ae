SPECIFICATION Spec
CONSTANTS
  None = None
  AutoSum = AutoSum
  Corrupt = Corrupt
  Processes = {p1, p2}
  Schemas <- MCSchemas
  Outages <- MCOutages
  MaxMoves = 1
  MaxEdits = 1
  MaxRuns = 2
  MaxFailures = 1
INVARIANTS SavedLockValidates UpdateKeepsOthers InstallKeepsIdentity LockReproduced
SYMMETRY ProcessSymmetry
CHECK_DEADLOCK FALSE
