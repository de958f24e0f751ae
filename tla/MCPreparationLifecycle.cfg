CONSTANTS
  r1 = r1
  r2 = r2
  a = a
  b = b
  Owner = a
  Resources <- MCResources
  Dependents <- MCDependents
  Plans <- MCPlans

SPECIFICATION StateSpec

INVARIANTS
  TypeOK
  JournalValid

PROPERTIES
  OwnershipNeverLost
  RollbackForgetsNothing
  CompensatedStaysUnclaimed
  CommitClaimsEverything
