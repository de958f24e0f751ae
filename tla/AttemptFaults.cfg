CONSTANTS
  p1 = p1
  p2 = p2
  a = a
  d = d
  src1 = src1
  src2 = src2
  Free = Free
  Recovery = Recovery
  Procs = {p1}
  Roots = {a}
  Dependents <- PairTools
  Resources <- PairResources
  Configured <- PairSources
  Requires <- PairRequires
  Faults = {"save", "torn", "probe", "gate", "cancel", "add", "remove", "install", "crash"}
  MaxFaults = 4

SPECIFICATION FairSpec

INVARIANTS
  NothingForgotten

PROPERTIES
  WriteAhead
  CommitOutcomeKnown
  RunsEnd
  JournalsClose
  ImplementsLifecycle
