SPECIFICATION Spec
CONSTANTS
  Fields = {"revision"}
  Malformed = {"malformed"}
  Commits = {"c1", "c2"}
  Candidates <- AllCandidates
  MaxCommands = 3
  MaxFaults = 2
  MaxMoves = 1
  MaxTampers = 1
  Native = 3
  Buckets <- FactBuckets
  Managers = {5, 8}
  Port = 8
  Contracts <- FactContracts
  Implicit <- FactImplicit
INVARIANTS
  InstalledIsWhole
PROPERTIES
  ReleasedIsGone
CHECK_DEADLOCK FALSE
