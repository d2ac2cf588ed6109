CONSTANTS
  Parts = {"writer", "sink", "fork", "caches", "namespaces", "retry"}
  NameClients = {"c1", "c2"}
  PropertyKeys <- SmallKeys
  UpdateSet <- SmallUpdates
  CacheReaders = {"probe", "build", "other"}
  ReadsOf <- SmallReads
  NotPolledBefore <- SmallWaits
  CacheCaps <- SmallCaps
  MaxCalls = 3
  MaxFaults = 1
SPECIFICATION Spec
INVARIANTS
  RowsWrittenOnce
  BranchesSeeEverything
  ReadsExact
  SqliteSerial
PROPERTIES
  WriteReturns
  StreamsEnd
  ReadersFinish
  NamespaceSurvives
  CallsReturn
  EveryWriterCommits
CHECK_DEADLOCK FALSE
