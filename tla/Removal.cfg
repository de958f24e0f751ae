CONSTANTS
  a = a
  h = h
  k = k
  s = s
  Tools <- AllTools
  Sources <- AllSources
  Requires <- Chain
  Uses <- SourceOf
  Manual = {}
  MaxSnapshots = 1
  MaxInstalls = 2
  MaxAdmin = 1
  MaxFaults = 1
  MaxCommands = 2

SPECIFICATION Spec
CHECK_DEADLOCK FALSE

INVARIANTS
  NothingForgotten

PROPERTIES
  TrackedUntilGone
  TakesOnlyItsOwn
  CleanExit
