SPECIFICATION FairSpec
CONSTANTS
  p1 = p1
  p2 = p2
  v1 = v1
  v2 = v2
  v3 = v3
  old = old
  new = new
  tool = tool
  renamed = renamed
  Procs = {p1}
  Versions <- AllVersions
  PackageOf <- Renamed
  UsesOf <- OwnSources
  Preparation = "none"
  Hooks = TRUE
  Faults = {"save", "torn", "probe", "gate", "remove", "install", "hook", "admin", "crash"}
  MaxFaults = 4
  Nobody = Nobody
  NoVersion = NoVersion
INVARIANT OldVersionGone
PROPERTY ReplacementsEnd
