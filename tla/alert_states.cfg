SPECIFICATION FairSpec
CONSTANTS
  cpu = cpu
  wifi = wifi
  fs = fs
  unit = unit
  Keys <- StateKeys
  Kind <- KindOf
  WarningAt <- WarningOf
  CriticalAt <- CriticalOf
  Hysteresis <- HysteresisOf
  Hold = 2
  MaxValue = 4
  MaxCrashes = 1
PROPERTY AlertsSettle
