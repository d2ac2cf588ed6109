CONSTANTS
  None = None
  w1 = w1
  w2 = w2
  Writers <- MCWriters
  MaxRowId = 3
  FormatVersions = {1, 3}
  Transactions <- RowTransactions
  MaxId = 5
  MaxTables = 1
SYMMETRY MCSymmetry
SPECIFICATION Spec
INVARIANTS
  RowIdsDisjoint
  RefsResolve
CHECK_DEADLOCK FALSE
