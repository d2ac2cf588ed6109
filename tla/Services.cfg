CONSTANTS
  Parts = {"remote", "views", "refresh", "mirror", "pruning", "scan"}
  TextRowGroups = 1
  Branches = {"main"}
  MaxSnapshots = 2
  MaxVersions = 2
  MaxFaults = 1
  Peers = {p1, p2}
SYMMETRY Symmetry
SPECIFICATION Spec
INVARIANTS
  CommitsKept
  CacheMatchesVersion
  AppliedIsReported
  ViewResolves
  FreshIsExact
  BranchFilesKept
  NamesHaveNodes
  PruningSound
  ScanExact
PROPERTY ViewHistory
CHECK_DEADLOCK FALSE
