SPECIFICATION AllSpec
CONSTANTS
  Pids = {1, 2}
  Apps = {"editor", "player", "terminal"}
  Guarded = {"terminal"}
  MaxStart = 3
  MaxAge = 1
  PressureKinds = {"memory"}
  Debounce = 1
  MinPopup = 1
  Snooze = 1
  RecoverySamples = 2
  MaxRescueFaults = 1
  Window = 1
  MaxCrashes = 2
  MaxTime = 2
  MaxIds = 2
  Asked = {1, 2}
  OtherKeys = {9}
  Prompt = TRUE
  MaxMonitors = 4
  Block = 6
  Header = 2
  Lengths = {2, 3, 9}
  MaxRecords = 3
  MaxLost = 1
INVARIANTS DesktopTypeOK OnlyChosenIsClosed IncidentIsBounded ProvisioningIsRepeatable
PROPERTIES DialogIsOffered DialogStaysAway
CHECK_DEADLOCK FALSE
