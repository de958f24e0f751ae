SPECIFICATION Spec
CONSTANTS
  p1 = p1
  p2 = p2
  v1 = v1
  v2 = v2
  v3 = v3
  old = old
  new = new
  tool = tool
  renamed = renamed
  Procs = {p1}
  Versions <- TwoVersions
  PackageOf <- OnePackage
  UsesOf <- OwnSources
  Preparation = "sources"
  Hooks = FALSE
  Faults = {}
  MaxFaults = 0
  Nobody = Nobody
  NoVersion = NoVersion
INVARIANT EndedUpgradesHoldNoLock
