SPECIFICATION Spec
CONSTANTS
  Fields <- AllFields
  Malformed = {"malformed"}
  Candidates <- AllCandidates
  Universe <- Around
  Bare <- WithoutV
  MaxEntries = 3
  MaxCommands = 2
  MaxFaults = 2
  MaxOutsiders = 2
INVARIANTS
  AbsenceProven
  ReportedIsMet
  HonestInstallSucceeds
PROPERTIES
  TakesOnlyItsOwn
CHECK_DEADLOCK FALSE
