CONSTANTS
  c1 = c1
  c2 = c2
  c3 = c3
  a = a
  b = b
  Parts = {"commits"}
  Clients <- MCTwoClients
  Instances <- MCInstances
  InstanceOf <- MCInstanceOf
  Creators = {c1}
  Droppers = {}
  CommitKinds = {"data", "gzip"}
  MaxIds = 3
  PreviousVersionsMax = 1
  DeleteAfterCommit = TRUE
  MaxLocs = 3
  MaxFaults = 1
SPECIFICATION MCSpec
INVARIANT FileNoLostCommit
CHECK_DEADLOCK FALSE
