----------------------------- MODULE AlertLevels -----------------------------
(***************************************************************************)
(* The pure part of capsules/alerting: which alert level a sampled value   *)
(* asks for.  A threshold moves towards the healthy side while its own     *)
(* level is active, which is the hysteresis of the monitor.  Values and    *)
(* thresholds are integers: the code compares floats, and only the order   *)
(* of a value and a threshold matters to it.                               *)
(***************************************************************************)
EXTENDS Integers

(* "none" is the empty level string of the code.                           *)
Severities == {"warning", "critical"}
Levels     == Severities \cup {"none"}

(* What _metric_condition returns: the level asked for and the number of   *)
(* ticks a breach of that level must last before it is reported.           *)
Asks(level, hold) == [level |-> level, hold |-> hold]

(* Defect: the hysteresis protects the critical level only.                *)
HighLevel_CriticalOnly(v, active, warning, critical, hysteresis, hold) ==
  LET c == IF active = "critical" THEN critical - hysteresis ELSE critical
  IN  IF v > c THEN Asks("critical", 0)
      ELSE IF v > warning THEN Asks("warning", hold)
      ELSE Asks("none", 0)

(* _high_level: too much is bad.  Only warnings wait.                      *)
HighLevel(v, active, warning, critical, hysteresis, hold) ==
  LET c == IF active = "critical" THEN critical - hysteresis ELSE critical
      w == IF active = "warning"  THEN warning - hysteresis  ELSE warning
  IN  IF v > c THEN Asks("critical", 0)
      ELSE IF v > w THEN Asks("warning", hold)
      ELSE Asks("none", 0)

(* _inode_level: too little is bad, and nothing waits.                     *)
LowLevel(v, active, warning, critical, hysteresis) ==
  LET c == IF active = "critical" THEN critical + hysteresis ELSE critical
      w == IF active = "warning"  THEN warning + hysteresis  ELSE warning
  IN  IF v < c THEN Asks("critical", 0)
      ELSE IF v < w THEN Asks("warning", 0)
      ELSE Asks("none", 0)

(* network.internet_reachable and wifi.connected: one level, after a wait. *)
LinkLevel(v, hold) ==
  IF v = 0 THEN Asks("warning", hold) ELSE Asks("none", 0)

(* service.active of an essential unit: one level, at once.                *)
ServiceLevel(v) ==
  IF v = 0 THEN Asks("critical", 0) ELSE Asks("none", 0)

==============================================================================
