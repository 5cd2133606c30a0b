SPECIFICATION Spec
CONSTANTS
  worker = worker
  daemon = daemon
  minute = minute
  k1 = k1
  k2 = k2
  system = system
  storage = storage
  Flushers <- OneFlusher
  Beaters <- OneBeater
  Keys <- OneKey
  Endpoints <- OneEndpoint
  EndpointOf <- Together
  BeatsOf <- AllBeats
  AlwaysUp <- None
  Raised <- Warnings
  MaxFaults = 0
INVARIANT
  NoDownAfterRecovery
