SPECIFICATION Spec
CONSTANTS
  web = web
  dns = dns
  Monitors <- TwoMonitors
  Batch = 2
  Grace = 2
  StartCursor <- Follow
  Legacy <- NoMonitor
  MaxBeats = 4
  MaxGap = 1
  MaxCrashes = 1
  MaxEdits = 0
INVARIANTS
  NoDuplicateEpisode
PROPERTIES
  ExactlyOnce
