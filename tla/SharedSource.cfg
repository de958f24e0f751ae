CONSTANTS
  p1 = p1
  p2 = p2
  a = a
  d = d
  src1 = src1
  src2 = src2
  Free = Free
  Recovery = Recovery
  Procs = {p1, p2}
  Roots = {a}
  Dependents <- SharedTools
  Resources <- SharedResources
  Configured <- SharedSources
  Requires <- SharedRequires
  Faults = {"save", "torn", "probe", "gate", "cancel", "add", "remove", "install", "crash", "admin"}
  MaxFaults = 2

SPECIFICATION Spec

INVARIANTS
  FoundStaysForeign

PROPERTIES
  RollbackSparesClaimed
