CONSTANTS
  Parts = {"refresh"}
  TextRowGroups = 1
  Branches = {"main", "dev"}
  MaxSnapshots = 2
  MaxVersions = 1
  MaxFaults = 0
  Peers = {p1, p2}
SYMMETRY Symmetry
SPECIFICATION Spec
INVARIANT BranchFilesKept
CHECK_DEADLOCK FALSE
