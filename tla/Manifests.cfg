CONSTANTS
  None = None
  MinDatafilesPerManifest = 1
  FormatVersions = {2, 3}
  DataSets <- MCDataSets
  GroupSets <- MCGroupSets
  DeleteSets <- MCDeleteSets
  MaxSnapshots = 3
  MaxSchema = 1
SPECIFICATION Spec
INVARIANTS
  FilesExact
  RowLineage
  SummariesCover
  TypesUniform
  TotalsExact
  IncrementalComplete
  ChangesExact
CHECK_DEADLOCK FALSE
