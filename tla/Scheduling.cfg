CONSTANTS
  Tools <- AllTools
  Schemas <- AllSchemas
  Installed <- Hosts
  MaxJobs = 2
  FaultKinds = {"probe", "hook", "install", "terminal", "effect", "batch", "skip", "timeout", "cancel"}
  MaxFaults = 2

SPECIFICATION Spec

INVARIANTS
  ReportIsTrue
  OneRunPerHelper

PROPERTIES
  InstallsJustified
  RunEnds
