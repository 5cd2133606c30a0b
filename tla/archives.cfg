SPECIFICATION AllSpec
CONSTANTS
  Streams <- MCStreams
  Chunks = 2
  High = 1
  Low = 0
  EventSize = 3
  Quota = 6
  Collectors <- MCCollectors
  First = "collect"
  Entries = 2
  Ids <- MCIds
  Kept <- MCKept
  Touched <- MCTouched
  TTL = 1
  Horizon = 1
  Page = 1
  Modes <- MCModes
  MaxTime = 1
  MaxEdits = 1
  MaxFaults = 1
  MonthOf <- MCMonthOf
  MaxForeign = 1
  MaxExportFaults = 2
  Syncs = {"timer", "hand", "other"}
  Publishers = {"timer"}
  Other = "other"
  Day = 2
  FirstWindow = 1
  Overlap = 1
  Backfill = 2
  Asked = {0}
  Cap = 1
  MaxLag = 1
  MaxIndexTime = 2
  MaxRows = 2
INVARIANTS ArchivesTypeOK ArchivesAreTrue ExecutionArchiveIsTrue
PROPERTIES ArchivesCatchUp
CHECK_DEADLOCK FALSE
