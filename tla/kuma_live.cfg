SPECIFICATION FairSpec
CONSTANTS
  web = web
  dns = dns
  Monitors <- TwoMonitors
  Batch = 2
  Grace = 1
  StartCursor <- Fresh
  Legacy <- OneMonitor
  MaxBeats = 3
  MaxGap = 0
  MaxCrashes = 1
  MaxEdits = 2
INVARIANTS
  TypeOK
  NothingSkipped
PROPERTY
  CatchesUp
