CONSTANTS
  Parts = {"pruning"}
  TextRowGroups = 2
  Branches = {"main"}
  MaxSnapshots = 2
  MaxVersions = 2
  MaxFaults = 1
  Peers = {p1, p2}
SYMMETRY Symmetry
SPECIFICATION Spec
INVARIANT PruningSound
CHECK_DEADLOCK FALSE
