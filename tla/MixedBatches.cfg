CONSTANTS
  Parts = {"scan"}
  TextRowGroups = 1
  Branches = {"main"}
  MaxSnapshots = 2
  MaxVersions = 2
  MaxFaults = 1
  Peers = {p1, p2}
SYMMETRY Symmetry
SPECIFICATION Spec
INVARIANT VectorsApplied
CHECK_DEADLOCK FALSE
