SPECIFICATION FairSpec
CONSTANTS
  disk_io_error = disk_io_error
  device_removed = device_removed
  Keys <- BothKeys
  AlertKeys <- Alerting
  Window = 1
  Gaps <- Jumping
  Lookback = 2
  MaxEntries = 2
  MaxCrashes = 1
  MaxMisses = 1
  MaxBackfills = 2
INVARIANTS
  TypeOK
  NothingLost
  SkippedIsImported
  FirstImportIsExact
  RowsLieApart
PROPERTIES
  NoStaleAlert
  EveryEntryImported
CHECK_DEADLOCK FALSE
