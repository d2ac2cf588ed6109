CONSTANTS
  c1 = c1
  c2 = c2
  c3 = c3
  a = a
  b = b
  Parts = {"sql", "commits", "directory"}
  Clients <- MCClients
  Instances <- MCInstances
  InstanceOf <- MCInstanceOf
  PreviousVersionsMax = 1
  DeleteAfterCommit = TRUE
  MaxLocs = 3
  MaxFaults = 1
  Creators = {c3}
  Droppers = {}
  CommitKinds = {"data", "props"}
  MaxIds = 3
SYMMETRY MCSymmetry
SPECIFICATION MCSpec
INVARIANTS
  TypeOK
  NoDirtyRead
  CurrentFilesExist
  NoLostCommit
  FileNoLostCommit
  FileLineage
PROPERTIES
  RefinesAtomicTable
  FileAtomicFromFirstCommit
CHECK_DEADLOCK FALSE
