SPECIFICATION Spec
CONSTANTS
  worker = worker
  daemon = daemon
  minute = minute
  k1 = k1
  k2 = k2
  system = system
  storage = storage
  Flushers <- TwoFlushers
  Beaters <- NoBeaters
  Keys <- TwoKeys
  Endpoints <- OneEndpoint
  EndpointOf <- Together
  BeatsOf <- AllBeats
  AlwaysUp <- None
  Raised <- BothSeverities
  MaxFaults = 1
INVARIANTS
  TypeOK
  HolderReconciles
PROPERTY
  RecoveryToldOnce
