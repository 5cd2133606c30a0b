-------------------------- MODULE MCAlertLifecycle --------------------------
(* Small instances of AlertLifecycle: a temperature and a network link, or  *)
(* a filesystem and an essential service.  Values 0..4 meet every interval  *)
(* the thresholds and their hysteresis cut: with warning 1, critical 3 and  *)
(* hysteresis 1 each value falls in an interval of its own.                 *)
EXTENDS AlertLifecycle

CONSTANTS cpu, wifi, fs, unit

LevelKeys   == {cpu, fs}
StateKeys   == {wifi, unit}
CpuKeys     == {cpu}
KindOf      == [k \in Keys |-> CASE k = cpu -> "high" [] k = wifi -> "link"
                                 [] k = fs -> "low" [] k = unit -> "service"]
WarningOf   == [k \in Keys |-> IF k = fs THEN 3 ELSE 1]
CriticalOf  == [k \in Keys |-> IF k = fs THEN 1 ELSE 3]
HysteresisOf == [k \in Keys |-> 1]
==============================================================================
