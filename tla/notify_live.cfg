SPECIFICATION FairSpec
CONSTANTS
  worker = worker
  daemon = daemon
  minute = minute
  k1 = k1
  k2 = k2
  system = system
  storage = storage
  Flushers <- OneFlusher
  Beaters <- OneBeater
  Keys <- TwoKeys
  Endpoints <- TwoEndpoints
  EndpointOf <- Apart
  BeatsOf <- AllBeats
  AlwaysUp <- SystemOnly
  Raised <- Warnings
  MaxFaults = 1
PROPERTY
  HeartbeatRepairs
