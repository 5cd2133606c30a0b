SPECIFICATION Spec
CONSTANTS
  cpu = cpu
  wifi = wifi
  fs = fs
  unit = unit
  Keys <- LevelKeys
  Kind <- KindOf
  WarningAt <- WarningOf
  CriticalAt <- CriticalOf
  Hysteresis <- HysteresisOf
  Hold = 2
  MaxValue = 4
  MaxCrashes = 1
INVARIANTS
  TypeOK
  NoPrematureAlert
  BreachIsVisible
  AlertTracksCondition
  OtherEvidenceCloses
PROPERTY
  RecoveryIsEarned
