CONSTANTS
  None = None
  w1 = w1
  w2 = w2
  Writers <- MCWriters
  MaxRowId = 9
  FormatVersions = {2}
  Transactions <- RollbackTransactions
  MaxId = 4
  MaxTables = 1
SYMMETRY MCSymmetry
SPECIFICATION Spec
PROPERTY CurrentNeverExpired
CHECK_DEADLOCK FALSE
