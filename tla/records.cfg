SPECIFICATION AllSpec
CONSTANTS
  Commands <- MCCommands
  Plan <- MCPlan
  MinAge = 1
  MaxTurns = 2
  MaxTime = 1
  MaxRuns = 3
  MaxFaults = 1
  MaxDay = 4
  RawDays = 0
  DailyDays = 0
  WeekDays = 2
  MonthDays = 3
  DailyCount = 1
  WeeklyCount = 2
  MonthlyCount = 1
  MaxSamples = 2
  MaxSetBacks = 1
  HourTicks = 2
  RawHours = 1
  HoursPerPass = 1
  MaxScanTime = 6
  MaxScans = 5
  MaxBack = 2
  MaxScanFaults = 2
  Units = {"u", "v"}
  First = {"u"}
  Initial = 0
  Fallback = 1
  Outcomes = {"none", "failed"}
  Importers = {1, 2}
  Lone = 1
  MaxImportTime = 2
  MaxEntries = 2
  Transactions = {1, 2, 3}
  Newcomers = 1
  PerPass = 2
  Keep = 2
  MaxPasses = 3
  Period = 1
  Slack = 1
  Lookback = 2
  Memory = 2
  Fresh = 1
  Sensors = {"a", "b"}
  MaxWatch = 3
  MaxBoots = 4
  MaxSleeps = 2
  MaxHookFaults = 3
  Overlap = FALSE
  Lines = {1, 2}
  DrainReads = 2
  MaxChunks = 3
  MaxPending = 2
  MaxControls = 2
  Threshold = 2
  MaxFree = 5
  Mounts = {1, 2}
INVARIANTS
  RecordsTypeOK
  ReportIsOwn
  RetentionKeepsWhatCounts
  UnitHistoryIsTrue
  CollectorsRemember
  
  NoticesAreTold
CHECK_DEADLOCK FALSE
