CONSTANTS
  None = None
  w1 = w1
  w2 = w2
  Writers <- MCWriters
  MaxRowId = 9
  FormatVersions = {2}
  Transactions <- WriteTransactions
  MaxId = 4
  MaxTables = 2
SYMMETRY MCSymmetry
SPECIFICATION Spec
INVARIANT SequenceNumbersOrdered
PROPERTY CommitsAsIfFresh
CHECK_DEADLOCK FALSE
